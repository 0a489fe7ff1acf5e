SPECIFICATION Spec
CONSTANTS
    Tasks = {loop, eloop}
    EventIds = {connect, scan}
    AnyEvent = any
    Callbacks = {cb, fn}
    FuncCallbacks = {fn}
    QueueDepth = 2
    ListChanges = "quiet"
    MaxPosts = 3
    MaxListeners = 2
INVARIANTS
    EventsAccounted
PROPERTIES
    AllListenersCalled
    QueuedIsHandled
CHECK_DEADLOCK FALSE
