\* One object, whose clock advances at any pace or is set back.
SPECIFICATION Spec
CONSTANTS
    MinSystemClickCallPeriod = 4
    MaxWindUpSteps = 5
    TimePeriod = 3
    Epoch = 20
    Ticks <- SomeTicks
    MaxCalls = 7
INVARIANTS TimesAddUp NeverFarAhead WaitingEnds
CHECK_DEADLOCK FALSE
