\* The browser's window, two networks in reach, both in the menu.
\* A host whose name begins with http is typed, so one key serves as host and as protocol.
CONSTANTS
    MaxNetworks = 2
    MinPassword = 1
    MaxPassword = 1
    Windows <- BrowserOnly
    ShownRows = 2
    Home = "halden.os"
    Pages = {"halden.os"}
    Hosts = {"halden.os", "http"}
    MaxAddress = 4
    AddressKeys = {"http", "/"}
SPECIFICATION WMSpec
INVARIANTS PromptOverMenu HostOfAddress
PROPERTIES SecuredNeedsPassword ConnectionKept
\* A shutdown ends every behaviour.
CHECK_DEADLOCK FALSE
