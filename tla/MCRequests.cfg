SPECIFICATION Spec
CONSTANTS
    CastTypes = {"text", "int"}
    AggregatesEnabled = TRUE
    MaxFilterDepth = 3
    MaxNumber = 12
    MaxRecursiveDepth = 2
    DefaultMaxDepth = 3
    Requests <- AllRequests
    Parser <- Parsing
    Builder <- Building
    Database <- Answering
    ReturnsSet <- FunctionIsSet
CHECK_DEADLOCK FALSE
INVARIANTS
    TypeOK
    SelectParsed
    FilterMeaning
    MarkersBound
    PageMeaning
    NestingBounded
    OrderMeaning
    WriteRefused
    CallMeaning
    EmbedMeaning
    WalkMeaning
    WriteMeaning
