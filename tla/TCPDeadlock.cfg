CONSTANTS
    Incoming = {"a"}
    Address = {"b"}
    MaxPackets = 2
    MaxSends = 2
    None = "none"
SPECIFICATION Spec
PROPERTY ArrivedIsDispatched
CHECK_DEADLOCK FALSE
