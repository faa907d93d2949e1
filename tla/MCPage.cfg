CONSTANTS
    HistorySize = 3
    MadeUp = 2
    Metrics = {"cpu", "net"}
    ZeroShows = {"cpu"}
    Optional = {"disk"}
    MaxSnapshots = 2
    MaxConnects = 2
    Missing = Missing
    Null = Null
    NoText = NoText
    Text = Text
    Crash = Crash
    Hosts <- MCHosts
    CPUs <- MCCPUs
    Memories <- MCMemories
    Disks <- MCDisks
    Networks <- MCNetworks
    GPUs <- MCGPUs
    Dockers <- MCDockers
    Columns <- MCColumns
    PinnedStart = {"b"}
    PinnedEnd = {}
    CanHide = {"a", "c", "d", "e"}
    Listed = "any"
    AnyColumn = "any"
    None = "none"
    Listing <- MCListing
    Names <- MCNames
    Ranks = {1, 2}
    Matching <- MCMatching
    NoQuery = ""
    PageSizes = {1, 2}
    InitialSize = 2
    K = 10
    Units <- MCUnits
    Slip <- MCSlip
    MaxAmount = 20000
    PointPercents = {0, 1, 425, 427, 994, 995, 1000}
    PointRates = {0, 4, 5, 14, 15, 94, 95, 994, 995, 9994, 9995, 40000}
    Lowest <- MCLowest
    Highest = 1300
    Segments = 28
    Cores = {0, 1, 3, 8}
    Percents = {0, 1, 4, 5, 99, 100, 500, 1000}
    Rates = {0, 1, 2, 3, 7, 1999, 2000, 2001, 90000}
    Schemes = {"http", "https"}
    PageHost = "dashboard"
    Host = "nuc"
    Path = "grafana"
    Ports = {0, 80, 8080}
    Slashes = "//nuc"
SPECIFICATION PageSpec
INVARIANTS
    FewStepsBack
    RendersAreTold
    ColumnsKept
    TableTellsTheRows
    SectionsFit
    WrittenRight
    ShowsTheValue
    LeadsWhereItSays
CHECK_DEADLOCK FALSE
