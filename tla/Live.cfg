\* Two resets that go on, with one attempt more than the other can spoil; two runtimes of
\* one page, rows that change once and one more mishap of any kind; and two devices that
\* move, one edit and one mishap.
CONSTANTS
    c1 = c1  c2 = c2  c3 = c3
    r1 = r1  r2 = r2  r3 = r3
    t1 = t1  t2 = t2
    p1 = p1  p2 = p2
    NoPin = NoPin
    None = None
    Ids = {r1, r2}
    Targets = {t1, t2}
    Calls = {c1, c2}
    Inputs <- TwoTargets
    Capacity = 2
    MaxAttempts = 3
    Faults = {"drift"}
    MaxFaults = 1
    MaxChanges = 1
    MaxRuntimes = 2
    MaxPublicWrites = 2
    MaxNuisances = 1
    D = D  E = E  pokemon = pokemon  seat = seat  friend = friend
    Movers = {D, E}
    ListItems = {pokemon}
    BoardItems = {seat}
    HeldItems = {friend}
    NoRow = NoRow
    Removed = Removed
    Legacies <- AllCases
    MaxUserEdits = 1
    MaxMishaps = 1
SPECIFICATION PartsSpec
\* Resets end, a page has nothing left to do, and so have devices that have moved.
CHECK_DEADLOCK FALSE
INVARIANTS
    DebtsAreKnown
    NothingIsLost
PROPERTIES
    ReservationsEnd
    LateAcksConverge
    NewerRowsStand
    SentRowsArrive
    ConflictsAreReal
    MigrationsEnd
