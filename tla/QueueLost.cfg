\* Two pushers, of which one may be delayed.
SPECIFICATION Spec
CONSTANTS
    p1 = p1 p2 = p2 c1 = c1 c2 = c2
    n1 = n1 n2 = n2 n3 = n3 n4 = n4 n5 = n5
    a = a b = b
    Pushers <- TwoPushers
    Poppers <- OnePopper
    Destructor = Destructor
    Script <- OneEach
    MaxPolls = 2
    ThrowingValues = {}
    Nodes <- FiveNodes
    CountRange = 5
    MaxCopies = 7
    NULL = NULL
SYMMETRY NodeSymmetry
INVARIANT
    NothingLost
