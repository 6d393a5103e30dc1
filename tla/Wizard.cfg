SPECIFICATION Spec
CONSTANTS
    MayMiss <- AnyOfTheChain
    MaxFaults = 1
INVARIANTS
    PressFindsTheTableSettled
    PresentIsOnTheHost
    OnePassInstalls
    ButtonsAreOwed
PROPERTIES
    JobsWindDown
    ButtonsComeBack
