SPECIFICATION FairSpec
CONSTANTS
    hostA = hostA
    hostB = hostB
    Node = {hostA, hostB}
    Window = 4
    SeenCap = 4
    Deadlines = FALSE
    MaxLines <- FiveOfA
    MaxCrashes <- Nobody
    MaxLosses <- Nobody
    MaxBad <- Nobody
PROPERTIES ImplementsChannel Arrives WindowDrains
