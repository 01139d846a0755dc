\* The three windows; no WiFi network is in reach and nothing is typed.
CONSTANTS
    MaxNetworks = 0
    MinPassword = 2
    MaxPassword = 3
    Windows <- AllWindows
    ShownRows = 2
    Home = "halden.os"
    Pages = {"halden.os"}
    Hosts = {"halden.os"}
    MaxAddress = 1
    AddressKeys = {}
SPECIFICATION WMSpec
INVARIANT FocusedIsOpen
PROPERTIES DragStartsFocused OpenedGetsKeys
\* A shutdown ends every behaviour.
CHECK_DEADLOCK FALSE
