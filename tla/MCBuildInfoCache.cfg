SPECIFICATION Spec
CONSTANTS
    Names <- MCNames
    Codes <- MCCodes
    WithConstructor = {"t"}
    Args = {"x"}
    Versions <- MCVersions
    Path <- MCPath
    Place <- MCPlace
    Linked = {"s2"}
    ScriptName = "S"
    Commands = {p1, p2}
    Scripts <- MCScripts
    MaxTime = 2
SYMMETRY Symmetry
INVARIANTS
    ArtifactsAreOfTheScript
    OutdatedOnlyIfRaced
