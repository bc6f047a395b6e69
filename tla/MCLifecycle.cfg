SPECIFICATION FairLifeSpec
CONSTANTS
    p1 = p1
    p2 = p2
    c1 = c1
    Null = Null
    Processes = {p1, p2}
    Clients = {c1}
    LastVersion = 2
    Statements <- MCStatements
    MaxDeaths = 1
    MaxFailures = 1
INVARIANTS RecordedIsApplied ServingHasSchema
PROPERTIES CleanExitLosesNothing SignalStops StartsSucceed
