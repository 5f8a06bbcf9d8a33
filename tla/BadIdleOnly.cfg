SPECIFICATION Spec
CONSTANTS
    Kinds = {"proxy", "direct", "header"}
    IdleTO = 2
    MaxSent = 2
    Window = 1
CHECK_DEADLOCK FALSE
PROPERTIES
    IdleOnly
