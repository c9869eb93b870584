\* Four tasks, two of which may give up.
SPECIFICATION FairSpec
CONSTANTS
    Tasks = {t1, t2, t3, t4}
    Timed = {t1, t2}
    MaxSlots = 5
INVARIANTS TypeOK OverlapNeedsTimeOut
PROPERTY NeverWedged
\* Everything may have been acquired and released.
CHECK_DEADLOCK FALSE
