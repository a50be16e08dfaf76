SPECIFICATION Spec
CONSTANTS
    Writer = {mirrorA, mirrorB}
    Nobody = Nobody
    ver1 = ver1
    ver2 = ver2
    body1 = body1
    body2 = body2
    Version <- Versions
    Content <- Contents
    Fetch <- Fetches
    MaxDirectories = 3
SYMMETRY Alike
INVARIANTS TypeOK ManifestTells FailureLeavesNothing NotNested
