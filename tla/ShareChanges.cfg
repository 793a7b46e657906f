\* The page hears each change once; one public write at a time is enough.
CONSTANTS
    MaxChanges = 2
    MaxRuntimes = 1
    MaxPublicWrites = 1
    MaxNuisances = 0
SPECIFICATION PubSpec
\* A page may have nothing left to do.
CHECK_DEADLOCK FALSE
INVARIANTS
    ChangesAreServed
