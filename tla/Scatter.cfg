CONSTANTS
    Sessions = {"A", "B"}
    Backends = {b1, b2}
    Keys <- MCKeys
    Values <- MCValues
    SetValues = {"15s"}
    StartupParams <- MCStartupParams
    Nil = Nil
    Default = Default
    NoSession = NoSession
    NoShow = NoShow
SPECIFICATION Spec
PROPERTIES
    SessionSettingsRefined
SYMMETRY MCSymmetry
