SPECIFICATION PartsSpec
CONSTANTS
    Cpus = {1, 2}
    Types <- TwoTypes
    nr_slots <- UnequalSlots
    Events <- MixedEvents
    AnyCpu = 0
    NoTask = "none"
    Threads = {t1, t2, t3}
    Timed = {}
    Destroyers = {}
    Recursive = TRUE
    MaxCounter = 1
    MaxCalls = 2
    Nesting = {t1}
    Nobody = nobody
    Poison = poison
    Logs <- FourLogs
    Openers = {o1, o2}
    Printers = {p1, p2}
    Late = {p2}
    LogRecords = 1
    MaxFragments = 2
    TextLens = {1, 2}
    EarlyLen = 8
    NewLen = 9
    MaxRecords = 4
    Rdevs <- RegsDef
    Consumers = {"c1", "c2"}
    Of <- OneOfEach
    Supply <- SupplyDef
    Pin <- PinDef
    None = "none"
    Switchable = {"s", "a", "b", "d"}
    AlwaysOn = {}
    BootOn = {"d"}
    MaxEnables = 1
    MaxFailures = 1
    Voters = {v1, v2}
    Descs <- FourDescs
    CMin = 2
    CMax = 5
    uV_offset = 1
    Asked <- AnyRange
    PicCount = 2
    SwitchCount = 2
CHECK_DEADLOCK FALSE
INVARIANTS SlotsAreAccounted OpensFindTheirLog CamerasAreReady FragmentsInOnePlace
INVARIANTS ReadersKeepTheirPlace  CounterIsDepth NoSelfDeadlock
PROPERTIES EveryCallReturns LogCatchesUp OnlyMissedNotifyHangs VoltageSuitsAll
