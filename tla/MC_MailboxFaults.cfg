SPECIFICATION Spec
CONSTANTS
    hostA = hostA
    hostB = hostB
    Node = {hostA, hostB}
    Window = 2
    SeenCap = 2
    Deadlines = TRUE
    MaxLines <- TwoOfA
    MaxCrashes <- OnlyB
    MaxLosses <- OnlyA
    MaxBad <- OnlyB
INVARIANTS TypeOK AckSound AckChain NothingDropped OncePerFault
