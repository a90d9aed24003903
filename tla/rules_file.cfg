SPECIFICATION Spec
CONSTANTS
    MaSo <- MA_SO_200
    NamesakeOf <- Namesake
    Rules <- RulesBctc
    RulesFile = "mapping"
    TextLength = 1
    Documents <- Balanced
INVARIANT DocumentIsProcessed
