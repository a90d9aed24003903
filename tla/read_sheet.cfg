SPECIFICATION Spec
CONSTANTS
    MaSo <- MA_SO_200
    NamesakeOf <- Namesake
    Rules <- RulesBctc
    RulesFile = "list"
    TextLength = 1
    Documents <- ReadSheet
INVARIANT ReadSheetIsNotFlagged
