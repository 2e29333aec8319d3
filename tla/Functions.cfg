SPECIFICATION FnSpec
CONSTANTS
    ColumnCollation <- MCColumnCollation
    Where <- MCWhere
    Rows <- MCRows
    Pushed = "t"
    Selects <- MCSelects
    Sources <- MCSources
    Names <- MCNames
    Readers <- MCReaders
    Statements <- MCStatements
    ColumnsOf <- MCColumnsOf
    Programs <- MCPrograms
    Scripts <- MCScripts
INVARIANTS
    WhereIsApplied
    LogicIsSql
    SelectIsSql
    ClientSeesValues
    NamesResolved
    DatesAreCivil
    JsonIsSql
CHECK_DEADLOCK FALSE
