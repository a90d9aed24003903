SPECIFICATION Spec
CONSTANTS
    MaSo <- MA_SO_200
    NamesakeOf <- Namesake
    Rules <- RulesBctc
    RulesFile = "list"
    TextLength = 4
    Documents <- AllDocuments
INVARIANTS
    JudgedAsReported
    MisreadIsReviewed
    OnlyImbalanceIsFlagged
    FiledUnderItsCode
    PrintedRowsAreExtracted
    AmountKeepsItsDigits
    CellsStayInTheirRow
    EveryTableIsRead
