SPECIFICATION SketchSpec
CONSTANTS
    Names = {s, t}
    TextLen = 1
    FindLen = 2
    NewLen = 2
    HeapSize = 4
    MaxBlock = 4
    MaxFeed = 5
    MaxDigits = 4
    MaxTarget = 3
    MaxStop = 2
    LongBits = 8
    MaxEighths = 17
    MaxPlaces = 3
    Octets = {0, 7, 99, 255}
    Fields = {0, 31}
    MaxGroups4 = 5
    MaxGroups6 = 9
    Builders = {b1, b2}
    Algorithms = {"sha1", "sha256", "sha512", "sha3"}
    MaxMessage = 9
    StreamBuf = 3
    HexBuf = 3
    Secrets = {0, 5}
    Iterations = {1, 2}
    Careful = TRUE
    MaxCalls = 5
    LastDay = 24836
    AlarmDays = {58, 10956, 20665}
    Offsets = {1, 2, 3}
    MaxPasses = 4
    Stations = {sta1, sta2}
    IPv6 = FALSE
    MaxLeases = 3
    MaxQueries = 3
    PinLines = {5, 6}
    PinModes = {"LOW", "CHANGE"}
    BusClock = 160000000
    Speeds = {1000, 625000, 700000, 80000000}
    Dividers = {0, 1, 3, 64}
    Words = {1, 2}
SYMMETRY Alike
PROPERTY TextAsPromised
INVARIANTS
    
    
    DevicesRight
    StatusRight
CHECK_DEADLOCK FALSE
