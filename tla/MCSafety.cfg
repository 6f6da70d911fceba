SPECIFICATION SafetySpec
CONSTANTS
    Cpus = {1, 2}
    Types <- DataOnly
    nr_slots <- TwoSlots
    Events <- FilesAndDebugger
    AnyCpu = 0
    NoTask = "none"
    Files = {f1, f2}
    BpIds = {11, 12}
    Addrs = {a1, a2}
    WideType = "data"
    Free = Free
    Libraries = {"app", "mid", "base", "plug", "loop", "back"}
    Needs <- LibraryNeeds
    Nil = "null"
    MaxOpens = 2
    MaxDepth = 5
    Chars = {1, 2, 3}
    Lower <- LowerOf1
    Patterns <- SevenPatterns
    MaxPatterns = 3
    MaxText = 4
    Letters = {"a", "b"}
    Newline = "nl"
    MaxPattern = 3
    MaxFile = 4
    Flags = {TRUE, FALSE}
    Offload = {TRUE, FALSE}
    MaxBuffers = 2
    MaxRequests = 2
INVARIANTS DeviceIsSound LibrariesAreHeld MatchersAreRight
INVARIANTS  OnlyKnownStalls
