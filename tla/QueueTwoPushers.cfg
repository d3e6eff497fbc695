\* Two pushers that help each other; the popper's callback may throw.
SPECIFICATION Spec
CONSTANTS
    p1 = p1 p2 = p2 c1 = c1 c2 = c2
    n1 = n1 n2 = n2 n3 = n3 n4 = n4 n5 = n5
    a = a b = b
    Pushers <- TwoPushers
    Poppers <- OnePopper
    Destructor = Destructor
    Script <- OneEach
    MaxPolls = 1
    ThrowingValues = {a}
    Nodes <- FiveNodes
    CountRange = 5
    MaxCopies = 6
    NULL = NULL
INVARIANTS
    ReferenceCounts
    CallbackValueStable
    HandledOnce
PROPERTY
    NobodyWaits
