\* Two announcements and noise, a full bus, a full socket, an end of the daemon.
SPECIFICATION Spec
CONSTANTS
    Emitted = {"ProjectSwitched", "WindowTitleChanged"}
    UiKinds = {"Switch", "Get"}
    BusCapacity = 1
    SocketCapacity = 1
    MaxStamp = 2
    MaxSeq = 3
    MaxAsked = 2
    MaxStops = 1
INVARIANTS
    FreshWhenQuiet
    AtMostOnceInOrder
    OwedReplies
PROPERTIES
    NeverOlder
    SettlesFresh
\* Changes, events and requests run out.
CHECK_DEADLOCK FALSE
