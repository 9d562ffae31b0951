CONSTANTS
    embb = embb
    urllc = urllc
    video = video
    blog = blog
    control = control
    home = home
    std = std
    crit = crit
    Slice <- MCSlice
    Class <- MCClass
    Subscriber <- MCSubscriber
    Capacity <- MCCapacity
    Latency <- MCLatency
    Demands <- MCDemands
    MaxLatency <- MCMaxLatency
    Permitted <- MCPermitted
    Arp <- MCArp
    Spillover = FALSE
    Execute = TRUE
    Policies = {"reservation", "pricing"}
    Reserve <- MCReserve
    Exempt = {control}
    Value <- MCValue
    Price <- MCPrice
    Throttle = {embb}
    Floor <- MCFloor
    Loads <- MCLoads
    Slots = {1, 2, 3}
SPECIFICATION Spec
INVARIANTS
    TypeOK
    CapacityRespected
    ReserveKept
PROPERTIES
    AdmittedWithinLimit
    PreemptedOnlyByHigherPriority
    PreemptionTakesTheLeast
