\* Three events of one row, up to three flushes at once.
CONSTANTS
    Rows = {n}
    Qualifiers = {p}
    Owner = Owner
    Guest = Guest
    NoUser = NoUser
    Absent = Absent
    MaxFlushes = 3
    MaxListEvents = 3
SPECIFICATION ListSpec
\* A queue may be empty for good.
CHECK_DEADLOCK FALSE
INVARIANTS
    LastEditStands
