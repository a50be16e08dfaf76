\* The sender's process dies once, between a publish and the save after it.
SPECIFICATION Spec
CONSTANTS
    hostA = hostA
    hostB = hostB
    Node = {hostA, hostB}
    Window = 2
    SeenCap = 2
    Deadlines = TRUE
    MaxLines <- TwoOfA
    MaxCrashes <- OnlyA
    MaxLosses <- Nobody
    MaxBad <- Nobody
INVARIANTS NothingDropped
