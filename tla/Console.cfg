SPECIFICATION Spec
CONSTANTS
    UART_NR = 2
    SerialPorts <- MCSerialPorts
    MAX_CONSOLE = 2
    CmdLines <- MCCmdLines
    Preferred <- MCPreferred
    Chars = {"a", "b", "NL"}
    MaxText = 5
    MaxPiece = 3
    BUF_SIZE = 2
    screen_width = 3
    screen_height = 3
    pitch = 3
    framebuffer_size = 10
    CHAR_WIDTH = 2
    CHAR_HEIGHT = 2
INVARIANT ActiveReady
INVARIANT LogFaithful
INVARIANT DeviceShows
CHECK_DEADLOCK FALSE
