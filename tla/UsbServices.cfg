SPECIFICATION Spec
CONSTANTS
    USB_MUX_CHANNELS = 1
    RX_SIZE = 1
    TX_SIZE = 1
    MAX_PAYLOAD = 1
    WINDOW_UNIT = 1
    SEQ = 8
    PORTS = 3
    Opens = {1, 2}
    Service = 7
    Up <- MCUp
    Down <- MCDown
    SOCKET = 1
    GUEST_WINDOW = 1
    GUEST_ISN = 7
    Versions = {1, 2}
    CONFIGS = 2
    MUX_CONFIG = 1
    MaxQueue = 2
    MaxFaults = 1
INVARIANTS ChannelsSound StreamsAreWhole WindowsKept SessionsAgree
PROPERTIES ServicesProgress
CHECK_DEADLOCK FALSE
