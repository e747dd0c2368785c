SPECIFICATION Spec
CONSTANTS
    ticker = ticker
    stopper = stopper
    hub = hub
    Editors = {hub}
    Savers = {ticker, stopper}
    Ticker = ticker
    Stopper = stopper
    Torn = Torn
    Absent = Absent
    MaxEdits = 2
    MaxFailures = 0
    MaxKills = 0
INVARIANTS CleanStopKeeps
