SPECIFICATION Spec
CONSTANTS
    Operators = {"telecom", "unicom"}
    Cards = {c1, c2}
    NoIccid = NoIccid
    dm_retry_num = 3
    MaxLocks = 1
INVARIANTS TypeOK NoReleaseAfterDelete RetriesBounded TelecomLockPaired
PROPERTIES SleepSparesRegistration TaskEnds
CHECK_DEADLOCK FALSE
