SPECIFICATION FairMigrationSpec
CONSTANTS
    p1 = p1
    Null = Null
    Processes = {p1}
    LastVersion = 1
    Statements <- OneFile
    MaxDeaths = 1
PROPERTIES EventuallyServes
