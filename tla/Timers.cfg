SPECIFICATION Spec
CONSTANTS
    Timers = {t0, t1}
    ToneTimer = t0
    Advanced = {t0}
    PinTimers = {t1}
    PinChannels = {0}
    Clock = 2000000
    Times = {50, 200}
    Formats = {"us", "ms", "hz"}
    Cycles = {20}
    Tones = {0, 1000}
    Lasts = {0, 1}
    Shared = FALSE
    MaxCalls = 4
INVARIANTS
    CallsFresh
    PinsAsAsked
CHECK_DEADLOCK FALSE
