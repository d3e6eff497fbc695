\* Two poppers that race for the head; they may defeat each other up to the bound.
SPECIFICATION Spec
CONSTANTS
    p1 = p1 p2 = p2 c1 = c1 c2 = c2
    n1 = n1 n2 = n2 n3 = n3 n4 = n4 n5 = n5
    a = a b = b
    Pushers <- OnePusher
    Poppers <- TwoPoppers
    Destructor = Destructor
    Script <- TwoValues
    MaxPolls = 2
    ThrowingValues = {}
    Nodes <- FourNodes
    CountRange = 5
    MaxCopies = 6
    NULL = NULL
SYMMETRY NodeSymmetry
CHECK_DEADLOCK FALSE
INVARIANTS
    TypeOK
    NoUseAfterFree
    AllReclaimed
    NothingLost
PROPERTY
    ImplementsQueue
