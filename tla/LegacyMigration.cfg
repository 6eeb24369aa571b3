CONSTANTS
    v1 = v1  v2 = v2
    Processes = {server, kb}
    Values = {v1, v2}
    None = None
    Legacy <- SomeLegacy
    Sealed <- NewStore
    Edits <- SomeEdits
    Requests <- SomeRequests
    MaxFiles = 3
SPECIFICATION Spec
SYMMETRY Symmetry
INVARIANTS TypeOK NeverGuesses
PROPERTIES ScrubsOnlySealed NothingOverwritten
