SPECIFICATION Spec

CONSTANTS
    None = None
    Start = Start
    Done = Done
    Rows <- MCRows
    Writable = {}
    MaxDate = 1
    MaxShifts = 0
    Limit = 1
    Kinds = {"postgres"}

INVARIANTS
    EmptyWhenNoMore
