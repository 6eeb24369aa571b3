CONSTANTS
    Wrong = Wrong
    Sections <- AllSections
    Table <- AllTable
    Start <- AllStart
    Forced <- AllForced
    Loads <- AllLoads
    Written <- AllWritten
    Lost <- AllLost
    Tried <- AllTried
    Found <- AllFound
    MaxOff = 2
SPECIFICATION Spec
INVARIANTS TypeOK Survives LossesKnown InRange Settles
PROPERTIES SetsOne
