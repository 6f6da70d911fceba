SPECIFICATION RegSpec
CONSTANTS
    Rdevs <- RegsDef
    Consumers = {"c1", "c2"}
    Of <- BothOfA
    Supply <- SupplyDef
    Pin <- PinDef
    None = "none"
    Switchable = {"s", "a", "b", "d"}
    AlwaysOn = {}
    BootOn = {}
    MaxEnables = 2
    MaxFailures = 0
CHECK_DEADLOCK FALSE
INVARIANTS DeferralIsCounted
