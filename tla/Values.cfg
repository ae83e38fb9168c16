SPECIFICATION Spec
CONSTANTS
    None = None
    Entities <- MCEntities
    StructuredDefs <- MCStructuredDefs
    CollectionBindings <- MCCollectionBindings
    Fields <- NarrowFields
    EdtsOf <- MCEdtsOf
    ValuesOf <- MCValuesOf
    ContextsOf <- MCContextsOf
    Lists <- MCLists
    PagesOf <- MCPagesOf
    NodeStates <- MCNodeStates
    SentFrames <- MCSentFrames
    Received <- MCReceived
    MapSets <- MCMapSets
    RequestedEpcs <- MCRequestedEpcs
    Answers <- MCAnswers
INVARIANTS
    EncodedIsDecoded
    DecodedIsEncoded
    NothingInvented
    PagesAreTheirBytes
CHECK_DEADLOCK FALSE
