SPECIFICATION FairSpec
CONSTANTS
    ticker = ticker
    stopper = stopper
    hub = hub
    Editors = {hub}
    Savers = {ticker, stopper}
    Ticker = ticker
    Stopper = stopper
    Torn = Torn
    Absent = Absent
    MaxEdits = 2
    MaxFailures = 1
    MaxKills = 1
INVARIANTS TypeOK NeverTorn NothingMissed AnswerKept
PROPERTY EditsReachDisk
CHECK_DEADLOCK FALSE
