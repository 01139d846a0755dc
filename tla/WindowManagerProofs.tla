------------------------- MODULE WindowManagerProofs -------------------------
(***************************************************************************)
(* Proofs about WindowManager, Network and Browser, for every number of    *)
(* networks and passwords of every length.                                 *)
(***************************************************************************)
EXTENDS WindowManager, WellFoundedInduction, TLAPS

\* The windows and what points at them.
WindowsOK ==
    /\ win \in [Windows -> [open : BOOLEAN, minimized : BOOLEAN, maximized : BOOLEAN]]
    /\ {focused_app, current_drag} \subseteq Windows \cup {"APP_NONE"}
    /\ FocusedIsOpen

\* The menus and the prompt, which is over the menu of the networks.
PromptOK ==
    /\ menus \subseteq Menu /\ OneMenu
    /\ wifi_password_prompt \in BOOLEAN
    /\ selected_wifi_network \in -1..(MaxNetworks - 1)
    /\ wifi_password_len \in 0..MaxPassword
    /\ PromptOverMenu

\* The interface and the networks in reach, which are numbered from 0.
InterfaceOK ==
    /\ \E d \in Detected, c \in BOOLEAN :
          primary_interface = Interface(d.type, d.wifi_chip, c)
    /\ \E n \in 0..MaxNetworks : DOMAIN wifi_networks = 0..(n - 1)
    /\ \A i \in DOMAIN wifi_networks : wifi_networks[i] \in BOOLEAN
    /\ {selected_wifi_index, joined} \subseteq -1..(MaxNetworks - 1)

\* A page that came over the network means that there still is one.
BrowserOK ==
    /\ address_bar \in Seq({Home} \cup AddressKeys)
    /\ Len(address_bar) <= MaxAddress
    /\ address_bar_focused \in BOOLEAN
    /\ page \in Page
    /\ page \notin {"empty", "Network Error"} => primary_interface.connected

\* The inductive invariant: FocusedIsOpen, OneMenu and PromptOverMenu need each
\* other's types, and PromptOverMenu needs OneMenu.
DeskInv == WindowsOK /\ PromptOK /\ InterfaceOK /\ BrowserOK /\ halted \in BOOLEAN

WMInv == DeskInv /\ {mouse_left_btn, mouse_right_btn} \subseteq BOOLEAN
-----------------------------------------------------------------------------
(***************************************************************************)
(* The initial states.                                                     *)
(***************************************************************************)
LEMMA InterfaceFields ==
    ASSUME NEW type, NEW chip, NEW c
    PROVE  /\ Interface(type, chip, c).type = type
           /\ Interface(type, chip, c).wifi_chip = chip
           /\ Interface(type, chip, c).connected = c
BY DEF Interface

LEMMA DetectedInterface ==
    ASSUME NEW d \in Detected
    PROVE  \E c \in BOOLEAN : d = Interface(d.type, d.wifi_chip, c)
<1>1. ASSUME NEW type, NEW chip, NEW c \in BOOLEAN, d = Interface(type, chip, c)
      PROVE  \E b \in BOOLEAN : d = Interface(d.type, d.wifi_chip, b)
  <2>1. d.type = type /\ d.wifi_chip = chip
    BY <1>1, InterfaceFields
  <2> QED
    BY <1>1, <2>1
<1> QED
  BY <1>1, Zenon DEF Detected

LEMMA ScanFindsNetworks ==
    ASSUME NEW d, NEW networks \in scan_wifi_networks(d)
    PROVE  /\ \E n \in 0..MaxNetworks : DOMAIN networks = 0..(n - 1)
           /\ \A i \in DOMAIN networks : networks[i] \in BOOLEAN
<1>1. CASE d.wifi_chip = "WIFI_RTL8192"
  <2>1. PICK n \in 0..MaxNetworks : networks \in [0..(n - 1) -> BOOLEAN]
    BY <1>1 DEF scan_wifi_networks
  <2> QED
    BY <2>1, NetworkAssumption
<1>2. CASE d.wifi_chip # "WIFI_RTL8192"
  <2>1. networks = [i \in {} |-> FALSE]
    BY <1>2 DEF scan_wifi_networks
  <2>2. 0 \in 0..MaxNetworks /\ 0..(0 - 1) = {}
    BY NetworkAssumption
  <2> QED
    BY <2>1, <2>2
<1> QED
  BY <1>1, <1>2

LEMMA InitSound == WMInit => WMInv
<1> SUFFICES ASSUME WMInit PROVE WMInv
  OBVIOUS
<1> USE DEF WMInit
<1>1. WindowsOK
  <2>1. "APP_NONE" \notin AppID
    BY DEF AppID
  <2> QED
    BY <2>1, WindowsAssumption DEF WindowsOK, FocusedIsOpen
<1>2. PromptOK
  <2>1. menus \subseteq Menu /\ OneMenu
    BY DEF OneMenu
  <2>2. wifi_password_prompt \in BOOLEAN /\ PromptOverMenu
    BY DEF PromptOverMenu
  <2>3. selected_wifi_network \in -1..(MaxNetworks - 1) /\ wifi_password_len \in 0..MaxPassword
    BY NetworkAssumption
  <2> QED
    BY <2>1, <2>2, <2>3 DEF PromptOK
<1>3. InterfaceOK
  <2>1. primary_interface \in Detected /\ wifi_networks \in scan_wifi_networks(primary_interface)
    BY DEF network_init
  <2>2. \E d \in Detected, c \in BOOLEAN :
           primary_interface = Interface(d.type, d.wifi_chip, c)
    BY <2>1, DetectedInterface
  <2> QED
    BY <2>1, <2>2, ScanFindsNetworks, NetworkAssumption DEF InterfaceOK, network_init
<1>4. BrowserOK
  <2>1. address_bar = <<Home>> /\ address_bar_focused = FALSE /\ page = "empty"
    BY DEF browser_init
  <2>2. address_bar \in Seq({Home} \cup AddressKeys) /\ Len(address_bar) = 1
    BY <2>1
  <2> QED
    <3>1. page \in Page /\ page = "empty"
      BY <2>1 DEF Page
    <3>2. Len(address_bar) <= MaxAddress
      BY <2>2, BrowserAssumption
    <3> QED
      BY <2>1, <2>2, <3>1, <3>2 DEF BrowserOK
<1> QED
  BY <1>1, <1>2, <1>3, <1>4 DEF WMInv, DeskInv
-----------------------------------------------------------------------------
(***************************************************************************)
(* The network and the browser.                                            *)
(***************************************************************************)
LEMMA NetworksInBounds ==
    ASSUME InterfaceOK, NEW i \in DOMAIN wifi_networks
    PROVE  i \in 0..(MaxNetworks - 1)
BY NetworkAssumption DEF InterfaceOK

\* Of a connect: what it says keeps its type, no connection is lost, and a secured
\* network is only joined with a password that is long enough.
LEMMA ConnectSound ==
    ASSUME InterfaceOK, NEW index, NEW password, connect_to_wifi(index, password)
    PROVE  /\ InterfaceOK'
           /\ wifi_networks' = wifi_networks
           /\ primary_interface.connected => primary_interface'.connected
           /\ joined' # joined => joined' = index /\ PasswordFits(index, password)
<1>1. CASE index \notin DOMAIN wifi_networks
  BY <1>1 DEF connect_to_wifi, netvars, InterfaceOK
<1>2. CASE index \in DOMAIN wifi_networks
  <2>1. /\ selected_wifi_index' = index /\ wifi_networks' = wifi_networks
        /\ index \in 0..(MaxNetworks - 1)
    BY <1>2, NetworksInBounds DEF connect_to_wifi
  <2>2. CASE /\ PasswordFits(index, password)
             /\ primary_interface' =
                   [primary_interface EXCEPT !.connected = TRUE, !.ip = StaticIP]
             /\ joined' = index
    <3>1. PICK d \in Detected, c \in BOOLEAN :
                primary_interface = Interface(d.type, d.wifi_chip, c)
      BY DEF InterfaceOK
    <3>2. primary_interface' = Interface(d.type, d.wifi_chip, TRUE)
      BY <2>2, <3>1 DEF Interface
    <3>3. \E e \in Detected, b \in BOOLEAN :
             primary_interface' = Interface(e.type, e.wifi_chip, b)
      BY <3>2, Zenon
    <3>4. primary_interface'.connected
      BY <2>2, <3>1 DEF Interface
    <3>5. {selected_wifi_index', joined'} \subseteq -1..(MaxNetworks - 1)
      BY <2>1, <2>2, NetworkAssumption
    <3> QED
      BY <2>1, <2>2, <3>3, <3>4, <3>5 DEF InterfaceOK
  <2>3. CASE UNCHANGED <<primary_interface, joined>>
    <3>1. {selected_wifi_index', joined'} \subseteq -1..(MaxNetworks - 1)
      BY <2>1, <2>3, NetworkAssumption DEF InterfaceOK
    <3> QED
      BY <2>1, <2>3, <3>1 DEF InterfaceOK
  <2> QED
    BY <1>2, <2>2, <2>3 DEF connect_to_wifi, AfterFailure
<1> QED
  BY <1>1, <1>2

LEMMA PageFor ==
    ASSUME NEW url, NEW connected \in BOOLEAN
    PROVE  /\ http_get(url, connected) \in Page
           /\ http_get(url, connected) # "empty"
           /\ http_get(url, connected) = "Network Error" <=> ~connected
BY DEF http_get, Page

\* No other handler changes what the browser relies on.
LEMMA BrowserKept ==
    ASSUME BrowserOK, UNCHANGED brvars,
           primary_interface.connected => primary_interface'.connected
    PROVE  BrowserOK'
BY DEF BrowserOK, brvars

LEMMA ConnectedIsBoolean ==
    ASSUME InterfaceOK
    PROVE  primary_interface.connected \in BOOLEAN
<1>1. PICK d \in Detected, c \in BOOLEAN : primary_interface = Interface(d.type, d.wifi_chip, c)
  BY DEF InterfaceOK
<1> QED
  BY <1>1, InterfaceFields

LEMMA NavigationSound ==
    ASSUME InterfaceOK, BrowserOK, UNCHANGED <<netvars, address_bar>>,
           page' = http_get(address_bar, primary_interface.connected),
           address_bar_focused' \in BOOLEAN
    PROVE  BrowserOK'
<1>1. primary_interface.connected \in BOOLEAN /\ primary_interface' = primary_interface
  BY ConnectedIsBoolean DEF netvars
<1>2. page' \in Page /\ (page' # "Network Error" => primary_interface'.connected)
  BY <1>1, PageFor
<1> QED
  BY <1>2 DEF BrowserOK

LEMMA FocusBarSound ==
    ASSUME InterfaceOK, BrowserOK, UNCHANGED netvars, NEW b \in BOOLEAN, FocusBar(b)
    PROVE  BrowserOK'
BY DEF BrowserOK, FocusBar, netvars

LEMMA BrowserClickSound ==
    ASSUME InterfaceOK, BrowserOK, UNCHANGED netvars, NEW zone,
           handle_browser_click(zone, primary_interface.connected)
    PROVE  BrowserOK'
<1>1. CASE UNCHANGED brvars
  BY <1>1, BrowserKept DEF netvars
<1>2. CASE \E b \in BOOLEAN : FocusBar(b)
  BY <1>2, FocusBarSound
<1>3. CASE navigate_to_url(primary_interface.connected)
  BY <1>3, NavigationSound DEF navigate_to_url
<1> QED
  BY <1>1, <1>2, <1>3 DEF handle_browser_click

LEMMA LenIsNatural ==
    ASSUME NEW S, NEW s \in Seq(S)
    PROVE  Len(s) \in Nat
OBVIOUS

LEMMA Shorter ==
    ASSUME NEW S, NEW s \in Seq(S), NEW n \in 0..Len(s)
    PROVE  SubSeq(s, 1, n) \in Seq(S) /\ Len(SubSeq(s, 1, n)) = n
<1>1. \A i \in 1..n : s[i] \in S
  OBVIOUS
<1>2. SubSeq(s, 1, n) = [i \in 1..n |-> s[i]]
  OBVIOUS
<1> QED
  BY <1>1, <1>2

LEMMA ElementIn ==
    ASSUME NEW S, NEW s \in Seq(S), NEW i \in DOMAIN s
    PROVE  s[i] \in S
OBVIOUS

LEMMA Longer ==
    ASSUME NEW S, NEW s \in Seq(S), NEW e \in S
    PROVE  Append(s, e) \in Seq(S) /\ Len(Append(s, e)) = Len(s) + 1
OBVIOUS

LEMMA BrowserKeySound ==
    ASSUME InterfaceOK, BrowserOK, UNCHANGED netvars,
           handle_browser_keyboard(primary_interface.connected)
    PROVE  BrowserOK'
<1>1. CASE navigate_to_url(primary_interface.connected)
  BY <1>1, NavigationSound DEF navigate_to_url
<1>2. CASE /\ address_bar # <<>>
           /\ address_bar' = SubSeq(address_bar, 1, Len(address_bar) - 1)
           /\ UNCHANGED <<address_bar_focused, page>>
  <2>1. /\ address_bar' \in Seq({Home} \cup AddressKeys)
        /\ Len(address_bar') <= MaxAddress
    <3>1. /\ address_bar \in Seq({Home} \cup AddressKeys)
          /\ Len(address_bar) \in Nat /\ Len(address_bar) <= MaxAddress
      BY LenIsNatural, Zenon DEF BrowserOK
    <3>2. /\ address_bar' \in Seq({Home} \cup AddressKeys)
          /\ Len(address_bar') = Len(address_bar) - 1
      <4>1. Len(address_bar) - 1 \in 0..Len(address_bar)
        BY <1>2, <3>1
      <4> QED
        BY <1>2, <3>1, <4>1, Shorter, Zenon
    <3> QED
      BY <3>1, <3>2, BrowserAssumption
  <2> QED
    BY <1>2, <2>1 DEF BrowserOK, netvars
<1>3. CASE /\ Len(address_bar) < MaxAddress
           /\ \E c \in AddressKeys : address_bar' = Append(address_bar, c)
           /\ UNCHANGED <<address_bar_focused, page>>
  <2>1. /\ address_bar' \in Seq({Home} \cup AddressKeys)
        /\ Len(address_bar') <= MaxAddress
    <3>1. /\ address_bar \in Seq({Home} \cup AddressKeys)
          /\ Len(address_bar) \in Nat /\ Len(address_bar) <= MaxAddress
      BY LenIsNatural, Zenon DEF BrowserOK
    <3>2. PICK c \in {Home} \cup AddressKeys : address_bar' = Append(address_bar, c)
      BY <1>3
    <3>3. /\ address_bar' \in Seq({Home} \cup AddressKeys)
          /\ Len(address_bar') = Len(address_bar) + 1
      BY <3>1, <3>2, Longer, Zenon
    <3> QED
      BY <1>3, <3>1, <3>3, BrowserAssumption
  <2> QED
    BY <1>3, <2>1 DEF BrowserOK, netvars
<1> QED
  BY <1>1, <1>2, <1>3 DEF handle_browser_keyboard
-----------------------------------------------------------------------------
(***************************************************************************)
(* Every click keeps the invariant.                                        *)
(***************************************************************************)
LEMMA WindowsKept ==
    ASSUME WindowsOK, UNCHANGED <<win, focused_app, current_drag>>
    PROVE  WindowsOK'
BY DEF WindowsOK, FocusedIsOpen

LEMMA InterfaceKept ==
    ASSUME InterfaceOK, UNCHANGED netvars
    PROVE  InterfaceOK'
BY DEF InterfaceOK, netvars

\* Menus may close, except the one the prompt came from, and only one may open.
LEMMA MenusChange ==
    ASSUME PromptOK, UNCHANGED <<promptvars, wifi_networks>>,
           menus' \subseteq Menu, \A m, n \in menus' : m = n,
           wifi_password_prompt => menus' = menus
    PROVE  PromptOK'
BY DEF PromptOK, OneMenu, PromptOverMenu, promptvars

LEMMA MenusClose ==
    ASSUME PromptOK, UNCHANGED <<promptvars, wifi_networks>>,
           menus' \subseteq menus, ~wifi_password_prompt \/ menus' = menus
    PROVE  PromptOK'
<1>1. menus' \subseteq Menu /\ \A m, n \in menus' : m = n
  BY DEF PromptOK, OneMenu
<1> QED
  BY <1>1, MenusChange

\* The prompt goes: Enter, its Connect button, or Esc.
LEMMA PromptGoes ==
    ASSUME PromptOK, wifi_password_prompt' = FALSE, menus' \subseteq menus,
           UNCHANGED <<selected_wifi_network, wifi_password_len>>
    PROVE  PromptOK'
BY DEF PromptOK, OneMenu, PromptOverMenu

LEMMA DeskKept ==
    ASSUME DeskInv, UNCHANGED deskvars
    PROVE  DeskInv'
<1> USE DEF DeskInv, deskvars, winvars
<1>1. WindowsOK'
  BY WindowsKept
<1>2. InterfaceOK'
  BY InterfaceKept
<1>3. PromptOK'
  BY MenusClose DEF netvars
<1>4. BrowserOK'
  BY BrowserKept DEF netvars
<1> QED
  BY <1>1, <1>2, <1>3, <1>4

LEMMA PromptConnectSound ==
    ASSUME DeskInv, PromptConnect
    PROVE  DeskInv'
<1> USE DEF DeskInv, PromptConnect, winvars
<1>1. WindowsOK'
  BY WindowsKept
<1>2. InterfaceOK' /\ (primary_interface.connected => primary_interface'.connected)
  BY ConnectSound
<1>3. PromptOK'
  BY PromptGoes DEF PromptAfterConnect
<1>4. BrowserOK'
  BY <1>2, BrowserKept
<1> QED
  BY <1>1, <1>2, <1>3, <1>4

\* The taskbar and the menus, which no prompt covers.
LEMMA MenuButtonSound ==
    ASSUME DeskInv, ~wifi_password_prompt, NEW menu \in Menu, MenuButton(menu)
    PROVE  DeskInv'
<1> USE DEF DeskInv, MenuButton, winvars
<1>1. WindowsOK' /\ InterfaceOK'
  BY WindowsKept, InterfaceKept
<1>2. PromptOK'
  BY MenusChange DEF netvars, Toggled
<1>3. BrowserOK'
  BY BrowserKept DEF netvars
<1> QED
  BY <1>1, <1>2, <1>3

LEMMA NamesDiffer == "APP_NONE" \notin Windows
BY WindowsAssumption DEF AppID

LEMMA TaskButtonSound ==
    ASSUME DeskInv, ~wifi_password_prompt, NEW a \in Windows, TaskButton(a)
    PROVE  DeskInv'
<1> USE DEF DeskInv, TaskButton
<1>1. WindowsOK'
  BY NamesDiffer DEF WindowsOK, FocusedIsOpen
<1>2. InterfaceOK'
  BY InterfaceKept
<1>3. PromptOK'
  BY MenusClose DEF netvars
<1>4. BrowserOK'
  BY BrowserKept DEF netvars
<1> QED
  BY <1>1, <1>2, <1>3, <1>4

LEMMA OpenBrowserSound ==
    ASSUME InterfaceOK, BrowserOK, UNCHANGED netvars, open_browser(primary_interface.connected)
    PROVE  BrowserOK'
<1>1. primary_interface.connected \in BOOLEAN /\ primary_interface' = primary_interface
  BY ConnectedIsBoolean DEF netvars
<1>2. page' \in Page /\ (page' # "Network Error" => primary_interface'.connected)
  BY <1>1, PageFor DEF open_browser
<1>3. address_bar' = <<Home>> /\ address_bar_focused' = address_bar_focused
  BY DEF open_browser
<1>4. address_bar' \in Seq({Home} \cup AddressKeys) /\ Len(address_bar') = 1
  BY <1>3
<1>5. Len(address_bar') <= MaxAddress
  BY <1>4, BrowserAssumption
<1> QED
  BY <1>2, <1>3, <1>4, <1>5 DEF BrowserOK

LEMMA AppMenuItemSound ==
    ASSUME DeskInv, ~wifi_password_prompt, NEW a \in Windows, AppMenuItem(a)
    PROVE  DeskInv'
<1> USE DEF DeskInv, AppMenuItem
<1>1. WindowsOK'
  BY NamesDiffer DEF WindowsOK, FocusedIsOpen, Opened
<1>2. InterfaceOK'
  BY InterfaceKept
<1>3. PromptOK'
  BY MenusClose DEF netvars
<1>4. BrowserOK'
  BY BrowserKept, OpenBrowserSound DEF netvars
<1> QED
  BY <1>1, <1>2, <1>3, <1>4

LEMMA MenuItemSound ==
    ASSUME DeskInv, ~wifi_password_prompt, InstalledMenuItem \/ PowerMenuItem
    PROVE  DeskInv'
<1> USE DEF DeskInv, InstalledMenuItem, PowerMenuItem, winvars
<1>1. WindowsOK' /\ InterfaceOK'
  BY WindowsKept, InterfaceKept
<1>2. PromptOK'
  BY MenusClose DEF netvars
<1>3. BrowserOK'
  BY BrowserKept DEF netvars
<1> QED
  BY <1>1, <1>2, <1>3

LEMMA NetworkMenuRowSound ==
    ASSUME DeskInv, ~wifi_password_prompt, NEW i, NetworkMenuRow(i)
    PROVE  DeskInv'
<1> USE DEF DeskInv
<1>1. WindowsOK' /\ halted' \in BOOLEAN
  BY WindowsKept DEF NetworkMenuRow, winvars
<1>2. CASE /\ wifi_networks[i]
           /\ selected_wifi_network' = i
           /\ wifi_password_prompt' = TRUE
           /\ wifi_password_len' = 0
           /\ UNCHANGED <<menus, netvars>>
  <2>1. InterfaceOK' /\ UNCHANGED wifi_networks
    BY <1>2, InterfaceKept DEF netvars
  <2>2. i \in DOMAIN wifi_networks /\ i \in 0..(MaxNetworks - 1)
    BY NetworksInBounds DEF NetworkMenuRow
  <2>3. menus' = {"network"}
    BY <1>2 DEF NetworkMenuRow, PromptOK, OneMenu
  <2>4. PromptOK'
    <3>1. selected_wifi_network' \in -1..(MaxNetworks - 1) /\ wifi_password_len' \in 0..MaxPassword
      BY <1>2, <2>2, NetworkAssumption
    <3>2. PromptOverMenu'
      BY <1>2, <2>1, <2>2, <2>3 DEF PromptOverMenu
    <3> QED
      BY <1>2, <2>3, <3>1, <3>2 DEF PromptOK, OneMenu, Menu
  <2>5. BrowserOK'
    BY <1>2, BrowserKept DEF NetworkMenuRow, winvars, netvars
  <2> QED
    BY <1>1, <2>1, <2>4, <2>5
<1>3. CASE /\ connect_to_wifi(i, 0)
           /\ menus' = menus \ {"network"}
           /\ UNCHANGED promptvars
  <2>1. /\ InterfaceOK' /\ UNCHANGED wifi_networks
        /\ primary_interface.connected => primary_interface'.connected
    BY <1>3, ConnectSound
  <2>2. PromptOK'
    BY <1>3, <2>1, MenusClose
  <2>3. BrowserOK'
    BY <2>1, BrowserKept DEF NetworkMenuRow, winvars
  <2> QED
    BY <1>1, <2>1, <2>2, <2>3
<1> QED
  BY <1>2, <1>3 DEF NetworkMenuRow

\* Among the windows under a point, one is the first to be asked.
LEMMA FirstHitVisible ==
    ASSUME NEW under \in Under, under # {}
    PROVE  FirstHit(under) \in Visible
<1> DEFINE IsFirst(m) == Order[m] \in under /\ \A n \in 1..(m - 1) : Order[n] \notin under
<1>1. /\ under \subseteq Visible
      /\ \A a \in under : a \in {"APP_TERMINAL", "APP_BROWSER", "APP_FILEMANAGER"}
  BY WindowsAssumption DEF Under, Visible, AppID
<1>2. /\ Order[1] = "APP_TERMINAL" /\ Order[2] = "APP_BROWSER"
      /\ Order[3] = "APP_FILEMANAGER"
  BY DEF Order
<1>3. CASE "APP_TERMINAL" \in under
  <2>1. IsFirst(1)
    BY <1>2, <1>3
  <2> QED
    BY <1>1, <2>1 DEF FirstHit
<1>4. CASE "APP_TERMINAL" \notin under /\ "APP_BROWSER" \in under
  <2>1. IsFirst(2)
    BY <1>2, <1>4
  <2> QED
    BY <1>1, <2>1 DEF FirstHit
<1>5. CASE under \cap {"APP_TERMINAL", "APP_BROWSER"} = {}
  <2>1. IsFirst(3)
    BY <1>1, <1>2, <1>5
  <2> QED
    BY <1>1, <2>1 DEF FirstHit
<1> QED
  BY <1>3, <1>4, <1>5

\* A click in a window, over which there is no prompt.
LEMMA WindowClickSound ==
    ASSUME DeskInv, ~wifi_password_prompt, NEW right \in BOOLEAN, WindowClick(right)
    PROVE  DeskInv'
<1> USE DEF DeskInv
<1>1. InterfaceOK' /\ UNCHANGED netvars /\ halted' \in BOOLEAN
  BY InterfaceKept DEF WindowClick
<1>2. ASSUME menus' \subseteq menus
      PROVE  PromptOK'
  BY <1>1, <1>2, MenusClose DEF WindowClick, netvars
<1>3. CASE Background
  <2>1. WindowsOK' /\ BrowserOK'
    BY <1>1, <1>3, WindowsKept, BrowserKept DEF Background, winvars, netvars
  <2> QED
    BY <1>1, <1>2, <1>3, <2>1 DEF Background
<1>4. ASSUME NEW a \in Windows, NEW zone \in Zone, OwnClick(a, zone)
      PROVE  BrowserOK'
  BY <1>1, <1>4, BrowserKept, BrowserClickSound DEF OwnClick, netvars
<1>5. ASSUME NEW a \in Visible, NEW zone \in Zone, NEW box \in BoxFor(a, zone, right),
             focused_app = a, FocusedClick(a, zone, box)
      PROVE  DeskInv'
  <2>1. a \in Windows /\ win[a].open
    BY DEF Visible
  <2>2. BrowserOK' /\ menus' \subseteq menus
    BY <1>4, <1>5, <2>1 DEF FocusedClick
  <2>3. WindowsOK'
    <3> DEFINE w == After(win[a], box)
    <3>1. /\ win \in [Windows -> [open : BOOLEAN, minimized : BOOLEAN, maximized : BOOLEAN]]
          /\ {focused_app, current_drag} \subseteq Windows \cup {"APP_NONE"}
      BY DEF WindowsOK
    <3>2. /\ w \in [open : BOOLEAN, minimized : BOOLEAN, maximized : BOOLEAN]
          /\ box # "close" => w.open
          /\ box = "close" => w.maximized = win[a].maximized
      BY <2>1, <3>1 DEF After
    <3>3. CASE InTitleRow(a, w, zone) /\ zone = "close"
      <4>1. Close(a, w) /\ current_drag' = current_drag
        BY <1>5, <3>3 DEF FocusedClick
      <4>2. win' \in [Windows -> [open : BOOLEAN, minimized : BOOLEAN, maximized : BOOLEAN]]
        BY <2>1, <3>1, <3>2, <4>1 DEF Close
      <4>3. focused_app' = "APP_NONE" /\ FocusedIsOpen'
        BY <4>1, NamesDiffer DEF Close, FocusedIsOpen
      <4> QED
        BY <3>1, <4>1, <4>2, <4>3 DEF WindowsOK
    <3>4. CASE ~(InTitleRow(a, w, zone) /\ zone = "close")
      <4>1. /\ win' = [win EXCEPT ![a] = w]
            /\ DragFrom(a, w, zone) /\ focused_app' = focused_app
        BY <1>5, <3>4 DEF FocusedClick
      <4>2. win' \in [Windows -> [open : BOOLEAN, minimized : BOOLEAN, maximized : BOOLEAN]]
        BY <2>1, <3>1, <3>2, <4>1
      <4>3. {focused_app', current_drag'} \subseteq Windows \cup {"APP_NONE"}
        BY <2>1, <3>1, <4>1 DEF DragFrom
      <4>4. a # "APP_FILEMANAGER" /\ box = "close" => w.maximized
        BY <1>5, <3>4 DEF BoxFor, InTitleRow
      <4>5. FocusedIsOpen'
        BY <1>5, <2>1, <3>1, <3>2, <4>1, <4>4 DEF FocusedIsOpen
      <4> QED
        BY <4>2, <4>3, <4>5 DEF WindowsOK
    <3> QED
      BY <3>3, <3>4
  <2> QED
    BY <1>1, <1>2, <2>2, <2>3
<1>6. ASSUME NEW a \in Visible, NEW zone \in Zone, NEW box \in BoxFor(a, zone, right),
             UnfocusedClick(a, zone, box)
      PROVE  DeskInv'
  <2>1. a \in Windows /\ win[a].open
    BY DEF Visible
  <2>2. BrowserOK'
    BY <1>1, <1>4, <1>6, <2>1, BrowserKept DEF UnfocusedClick, netvars
  <2>3. WindowsOK'
    <3> DEFINE w == win[a]
    <3>1. /\ win \in [Windows -> [open : BOOLEAN, minimized : BOOLEAN, maximized : BOOLEAN]]
          /\ {focused_app, current_drag} \subseteq Windows \cup {"APP_NONE"}
      BY DEF WindowsOK
    <3>2. DragFrom(a, w, zone)
      BY <1>6 DEF UnfocusedClick
    <3>3. current_drag' \in Windows \cup {"APP_NONE"}
      BY <2>1, <3>1, <3>2 DEF DragFrom
    <3>4. CASE Close(a, w)
      <4>1. win' \in [Windows -> [open : BOOLEAN, minimized : BOOLEAN, maximized : BOOLEAN]]
        BY <2>1, <3>1, <3>4 DEF Close
      <4> QED
        BY <3>3, <3>4, <4>1, NamesDiffer DEF Close, FocusedIsOpen, WindowsOK
    <3>5. CASE focused_app' = a /\ UNCHANGED win
      BY <2>1, <3>1, <3>3, <3>5 DEF FocusedIsOpen, WindowsOK
    <3>6. CASE /\ ~InTitleRow(a, w, zone)
               /\ win' = [win EXCEPT ![a] = After(@, box)]
               /\ focused_app' = a
      <4>1. /\ After(w, box) \in [open : BOOLEAN, minimized : BOOLEAN, maximized : BOOLEAN]
            /\ box # "close" => After(w, box).open
            /\ box = "close" => After(w, box).maximized = w.maximized
        BY <2>1, <3>1 DEF After
      <4>2. win' \in [Windows -> [open : BOOLEAN, minimized : BOOLEAN, maximized : BOOLEAN]]
        BY <2>1, <3>1, <3>6, <4>1
      <4>3. a # "APP_FILEMANAGER" /\ box = "close" => w.maximized
        BY <1>6, <3>6 DEF BoxFor, InTitleRow
      <4>4. FocusedIsOpen'
        BY <2>1, <3>1, <3>6, <4>1, <4>3 DEF FocusedIsOpen
      <4> QED
        BY <2>1, <3>3, <3>6, <4>2, <4>4 DEF WindowsOK
    <3> QED
      BY <1>6, <3>4, <3>5, <3>6 DEF UnfocusedClick
  <2> QED
    BY <1>1, <1>2, <1>6, <2>2, <2>3 DEF UnfocusedClick
<1> QED
  BY <1>3, <1>5, <1>6, FirstHitVisible DEF WindowClick, Under

LEMMA HandleClickSound ==
    ASSUME DeskInv, NEW right \in BOOLEAN, handle_click(right)
    PROVE  DeskInv'
<1>1. CASE PromptConnect \/ UNCHANGED deskvars
  BY <1>1, PromptConnectSound, DeskKept
<1>2. CASE ~wifi_password_prompt /\ \E menu \in Menu : MenuButton(menu)
  BY <1>2, MenuButtonSound
<1>3. CASE ~wifi_password_prompt /\ \E a \in Windows : TaskButton(a) \/ AppMenuItem(a)
  BY <1>3, TaskButtonSound, AppMenuItemSound
<1>4. CASE ~wifi_password_prompt /\ (InstalledMenuItem \/ PowerMenuItem)
  BY <1>4, MenuItemSound
<1>5. CASE ~wifi_password_prompt /\ \E i \in DOMAIN wifi_networks : NetworkMenuRow(i)
  BY <1>5, NetworkMenuRowSound
<1>6. CASE ~wifi_password_prompt /\ WindowClick(right)
  BY <1>6, WindowClickSound
<1> QED
  BY <1>1, <1>2, <1>3, <1>4, <1>5, <1>6 DEF handle_click

LEMMA PromptKeySound ==
    ASSUME DeskInv, PromptKey
    PROVE  DeskInv'
<1> USE DEF DeskInv
<1>1. CASE PromptConnect
  BY <1>1, PromptConnectSound
<1>2. ASSUME UNCHANGED <<winvars, menus, selected_wifi_network, halted, netvars>>
      PROVE  WindowsOK' /\ InterfaceOK' /\ BrowserOK' /\ halted' \in BOOLEAN
  BY <1>2, WindowsKept, InterfaceKept, BrowserKept DEF winvars, netvars
<1>3. CASE /\ wifi_password_prompt' = FALSE
           /\ UNCHANGED <<winvars, menus, selected_wifi_network, wifi_password_len,
                          halted, netvars>>
  <2>1. PromptOK'
    BY <1>3, PromptGoes
  <2> QED
    BY <1>2, <1>3, <2>1
<1>4. CASE /\ \/ wifi_password_len > 0 /\ wifi_password_len' = wifi_password_len - 1
              \/ RoomInPrompt /\ wifi_password_len' = wifi_password_len + 1
           /\ UNCHANGED <<winvars, menus, wifi_password_prompt, selected_wifi_network,
                          halted, netvars>>
  <2>1. wifi_password_len' \in 0..MaxPassword
    BY <1>4, NetworkAssumption DEF PromptOK, RoomInPrompt
  <2>2. PromptOK'
    BY <1>4, <2>1 DEF PromptOK, OneMenu, PromptOverMenu, netvars
  <2> QED
    BY <1>2, <1>4, <2>2
<1> QED
  BY <1>1, <1>3, <1>4 DEF PromptKey

LEMMA BrowserKeyKeeps ==
    ASSUME DeskInv, BrowserKey
    PROVE  DeskInv'
<1> USE DEF DeskInv
<1>1. WindowsOK' /\ InterfaceOK' /\ halted' \in BOOLEAN
  BY WindowsKept, InterfaceKept DEF BrowserKey
<1>2. PromptOK'
  BY MenusClose DEF BrowserKey, netvars
<1>3. BrowserOK'
  BY BrowserKeySound DEF BrowserKey
<1> QED
  BY <1>1, <1>2, <1>3

\* The release of the left button ends a drag and touches nothing else.
LEMMA ReleaseSound ==
    ASSUME DeskInv, LeftRelease
    PROVE  DeskInv'
<1> USE DEF DeskInv, LeftRelease
<1>1. WindowsOK'
  BY DEF WindowsOK, FocusedIsOpen
<1>2. InterfaceOK'
  BY InterfaceKept
<1>3. PromptOK'
  BY MenusClose DEF netvars
<1>4. BrowserOK'
  BY BrowserKept DEF netvars
<1> QED
  BY <1>1, <1>2, <1>3, <1>4

LEMMA NextSound == WMInv /\ [WMNext]_vars => WMInv'
<1> SUFFICES ASSUME WMInv, [WMNext]_vars PROVE WMInv'
  OBVIOUS
<1> USE DEF WMInv
<1>1. CASE LeftPress
  BY <1>1, HandleClickSound DEF LeftPress
<1>2. CASE LeftRelease
  BY <1>2, ReleaseSound DEF LeftRelease
<1>3. CASE RightPress
  BY <1>3, HandleClickSound DEF RightPress
<1>4. CASE RightRelease
  BY <1>4, DeskKept DEF RightRelease
<1>5. CASE PromptKey
  BY <1>5, PromptKeySound DEF PromptKey
<1>6. CASE BrowserKey
  BY <1>6, BrowserKeyKeeps DEF BrowserKey
<1>7. CASE UNCHANGED vars
  BY <1>7, DeskKept DEF vars
<1> QED
  BY <1>1, <1>2, <1>3, <1>4, <1>5, <1>6, <1>7 DEF WMNext
-----------------------------------------------------------------------------
(***************************************************************************)
(* The theorems.                                                           *)
(***************************************************************************)
\* The conjunction of the invariants is inductive, whatever the windows of the
\* instance, the networks, the keys and the lengths.
THEOREM DesktopInductive == WMSpec => []WMInv
BY InitSound, NextSound, PTL DEF WMSpec

\* Every variable has its type; neither the password nor the address overflows.
THEOREM DesktopTypeCorrect == WMSpec => []WMTypeOK
<1>1. WMInv => WMTypeOK
  <2> SUFFICES ASSUME WMInv PROVE WMTypeOK
    OBVIOUS
  <2>1. \A i \in DOMAIN address_bar : address_bar[i] \in {Home} \cup AddressKeys
    BY ElementIn, Zenon DEF WMInv, DeskInv, BrowserOK
  <2> QED
    BY <2>1 DEF WMTypeOK, WMInv, DeskInv, WindowsOK, PromptOK, InterfaceOK, BrowserOK
<1> QED
  BY <1>1, DesktopInductive, PTL

\* At most one menu is open, whatever was clicked over it: handle_click tests
\* them in a fixed order, and a second one would be shadowed by the first.
THEOREM OneMenuAtATime == WMSpec => []OneMenu
<1>1. WMInv => OneMenu
  BY DEF WMInv, DeskInv, PromptOK
<1> QED
  BY <1>1, DesktopInductive, PTL

\* The prompt always stands over the menu of the networks, for a secured one.
THEOREM PromptStaysOverMenu == WMSpec => []PromptOverMenu
<1>1. WMInv => PromptOverMenu
  BY DEF WMInv, DeskInv, PromptOK
<1> QED
  BY <1>1, DesktopInductive, PTL

\* A terminal or browser that has the focus is open, or was closed while maximized.
THEOREM FocusStaysOnOpen == WMSpec => []FocusedIsOpen
<1>1. WMInv => FocusedIsOpen
  BY DEF WMInv, DeskInv, WindowsOK
<1> QED
  BY <1>1, DesktopInductive, PTL

LEMMA PromptTakesKeys ==
    ASSUME wifi_password_prompt \in BOOLEAN, KeyTarget = "prompt"
    PROVE  wifi_password_prompt
<1> SUFFICES ASSUME ~wifi_password_prompt PROVE FALSE
  OBVIOUS
<1>1. \A a \in Windows : a # "prompt"
  BY WindowsAssumption DEF AppID
<1> DEFINE desktop == Visible \cap {"APP_BROWSER", "APP_FILEMANAGER"}
<1>2. CASE desktop = {}
  BY <1>2 DEF KeyTarget
<1>3. CASE desktop # {}
  BY <1>1, <1>3 DEF KeyTarget
<1> QED
  BY <1>2, <1>3

\* Only a connect joins a network, and it asks the password's length: the prompt's
\* for a secured network, none for an open one.
THEOREM SecuredStaysSecured == WMSpec => SecuredNeedsPassword
<1> DEFINE Joins == joined' # joined /\ wifi_networks[joined'] =>
                       wifi_password_prompt /\ wifi_password_len >= MinPassword
<1>1. ASSUME WMInv, [WMNext]_vars PROVE Joins
  <2>1. CASE UNCHANGED joined
    BY <2>1
  <2>2. CASE wifi_password_prompt /\ PromptConnect
    BY <1>1, <2>2, ConnectSound DEF PromptConnect, PasswordFits, WMInv, DeskInv
  <2>3. CASE \E i \in DOMAIN wifi_networks : NetworkMenuRow(i)
    <3>1. PICK i \in DOMAIN wifi_networks : NetworkMenuRow(i)
      BY <2>3
    <3>2. CASE UNCHANGED netvars
      BY <3>2 DEF netvars
    <3>3. CASE ~wifi_networks[i] /\ connect_to_wifi(i, 0)
      BY <1>1, <3>3, ConnectSound DEF WMInv, DeskInv
    <3> QED
      BY <3>1, <3>2, <3>3 DEF NetworkMenuRow
  <2>4. ASSUME NEW right \in BOOLEAN, handle_click(right)
        PROVE  Joins
    BY <2>1, <2>2, <2>3, <2>4
       DEF handle_click, deskvars, netvars, MenuButton, TaskButton, AppMenuItem,
           InstalledMenuItem, PowerMenuItem, WindowClick
  <2>5. CASE PromptKey
    BY <1>1, <2>1, <2>2, <2>5, PromptTakesKeys DEF PromptKey, netvars, WMInv, DeskInv, PromptOK
  <2>6. CASE LeftRelease \/ RightRelease \/ BrowserKey \/ UNCHANGED vars
    BY <2>1, <2>6 DEF LeftRelease, RightRelease, BrowserKey, vars, deskvars, netvars
  <2> QED
    BY <1>1, <2>4, <2>5, <2>6 DEF WMNext, LeftPress, RightPress
<1>2. WMInv /\ [WMNext]_vars => [Joins]_vars
  BY <1>1
<1>3. SecuredNeedsPassword <=> [][Joins]_vars
  BY PTL DEF SecuredNeedsPassword
<1> QED
  BY <1>2, <1>3, DesktopInductive, PTL DEF WMSpec

\* A connection is never lost, and a page that is neither empty nor an error of the
\* network was fetched over one.
THEOREM ConnectionStays == WMSpec => ConnectionKept
<1> DEFINE Keeps == page' = "Network Error" => page \in {"empty", "Network Error"}
<1>1. ASSUME WMInv, [WMNext]_vars PROVE Keeps
  <2>1. BrowserOK /\ InterfaceOK /\ primary_interface.connected \in BOOLEAN
    BY <1>1, ConnectedIsBoolean DEF WMInv, DeskInv
  <2>2. CASE UNCHANGED page
    BY <2>1, <2>2 DEF BrowserOK
  <2>3. CASE \E url : page' = http_get(url, primary_interface.connected)
    BY <2>1, <2>3, PageFor DEF BrowserOK
  <2>4. UNCHANGED page \/ \E url : page' = http_get(url, primary_interface.connected)
    <3> USE DEF brvars, winvars
    <3>1. ASSUME NEW zone, handle_browser_click(zone, primary_interface.connected)
          PROVE  <2>4
      BY <3>1 DEF handle_browser_click, FocusBar, navigate_to_url
    <3>2. ASSUME NEW a, NEW zone, OwnClick(a, zone)
          PROVE  <2>4
      BY <3>1, <3>2 DEF OwnClick
    <3>3. ASSUME NEW right \in BOOLEAN, WindowClick(right)
          PROVE  <2>4
      BY <3>2, <3>3 DEF WindowClick, Background, FocusedClick, UnfocusedClick
    <3>4. ASSUME NEW right \in BOOLEAN, handle_click(right)
          PROVE  <2>4
      BY <3>3, <3>4
         DEF handle_click, PromptConnect, deskvars, MenuButton, TaskButton, AppMenuItem,
             open_browser, InstalledMenuItem, PowerMenuItem, NetworkMenuRow
    <3>5. CASE PromptKey
      BY <3>5 DEF PromptKey, PromptConnect
    <3>6. CASE BrowserKey
      BY <3>6 DEF BrowserKey, handle_browser_keyboard, navigate_to_url
    <3>7. CASE LeftRelease \/ RightRelease \/ UNCHANGED vars
      BY <3>7 DEF LeftRelease, RightRelease, vars, deskvars
    <3> QED
      BY <1>1, <3>4, <3>5, <3>6, <3>7 DEF WMNext, LeftPress, RightPress
  <2> QED
    BY <2>2, <2>3, <2>4
<1>2. WMInv /\ [WMNext]_vars => [Keeps]_vars
  BY <1>1
<1>3. ConnectionKept <=> [][Keeps]_vars
  BY PTL DEF ConnectionKept
<1> QED
  BY <1>2, <1>3, DesktopInductive, PTL DEF WMSpec

\* No click but the one on its entry in the app menu opens a window.
LEMMA OnlyTheMenuOpens ==
    ASSUME WMInv, [WMNext]_vars, NEW a \in Windows, ~win[a].open, win'[a].open
    PROVE  /\ ~wifi_password_prompt
           /\ AppMenuItem(a)
<1>1. win \in [Windows -> [open : BOOLEAN, minimized : BOOLEAN, maximized : BOOLEAN]]
  BY DEF WMInv, DeskInv, WindowsOK
<1>2. win' # win
  OBVIOUS
<1>3. ASSUME NEW b \in Windows, NEW w, win' = [win EXCEPT ![b] = w], w.open => win[b].open
      PROVE  FALSE
  BY <1>1, <1>3
<1>4. ASSUME NEW b \in Windows, NEW box
      PROVE  After(win[b], box).open => win[b].open
  BY <1>1 DEF After
<1>5. ASSUME NEW b \in Windows, NEW w, Close(b, w)
      PROVE  FALSE
  BY <1>1, <1>5 DEF Close
<1>6. ASSUME NEW right \in BOOLEAN, WindowClick(right)
      PROVE  FALSE
  <2>1. ASSUME NEW b \in Windows, NEW zone, NEW box,
               FocusedClick(b, zone, box) \/ UnfocusedClick(b, zone, box)
        PROVE  FALSE
    BY <1>2, <1>3, <1>4, <1>5, <2>1 DEF FocusedClick, UnfocusedClick
  <2>2. ASSUME NEW under \in Under, under # {}
        PROVE  FirstHit(under) \in Windows
    BY <2>2, FirstHitVisible DEF Visible
  <2>3. ASSUME NEW under \in Under
        PROVE  under \subseteq Windows
    BY DEF Under, Visible
  <2>4. ~Background
    BY <1>2 DEF Background, winvars
  <2> QED
    BY <1>6, <2>1, <2>2, <2>3, <2>4 DEF WindowClick
<1>7. ASSUME NEW b \in Windows, TaskButton(b)
      PROVE  FALSE
  <2>1. win' = [win EXCEPT ![b] = [win[b] EXCEPT !.minimized = ~@]] /\ win[b].open
    BY <1>1, <1>7 DEF TaskButton
  <2> QED
    BY <1>3, <2>1
<1>8. ASSUME NEW b \in Windows, AppMenuItem(b)
      PROVE  a = b
  BY <1>1, <1>8 DEF AppMenuItem, Opened
<1>9. ASSUME NEW right \in BOOLEAN, handle_click(right)
      PROVE  ~wifi_password_prompt /\ AppMenuItem(a)
  BY <1>2, <1>6, <1>7, <1>8, <1>9
     DEF handle_click, PromptConnect, deskvars, winvars, MenuButton, InstalledMenuItem,
         PowerMenuItem, NetworkMenuRow
<1>10. ~(RightRelease \/ PromptKey \/ BrowserKey \/ LeftRelease \/ UNCHANGED vars)
  BY <1>2 DEF RightRelease, PromptKey, PromptConnect, BrowserKey, LeftRelease, vars, deskvars, winvars
<1> QED
  BY <1>9, <1>10 DEF WMNext, LeftPress, RightPress

\* A browser or a file manager that is opened gets the keys at once.
THEOREM OpenedGetsTheKeys == WMSpec => OpenedGetsKeys
<1> DEFINE Gets == \A a \in Windows \ {"APP_TERMINAL"} :
                      ~win[a].open /\ win'[a].open => KeyTarget' = a
<1>1. ASSUME WMInv, [WMNext]_vars, NEW a \in Windows \ {"APP_TERMINAL"},
             ~win[a].open, win'[a].open
      PROVE  KeyTarget' = a
  <2>1. ~wifi_password_prompt /\ AppMenuItem(a)
    BY <1>1, OnlyTheMenuOpens
  <2>2. ~wifi_password_prompt' /\ focused_app' = a
    BY <2>1 DEF AppMenuItem, promptvars
  <2>3. win'[a].open /\ ~win'[a].minimized
    BY <1>1, <2>1 DEF AppMenuItem, Opened, WMInv, DeskInv, WindowsOK
  <2>4. a \in (Visible \cap {"APP_BROWSER", "APP_FILEMANAGER"})'
    BY <2>3, WindowsAssumption DEF Visible, AppID
  <2> QED
    BY <2>2, <2>3, <2>4 DEF KeyTarget
<1>2. WMInv /\ [WMNext]_vars => [Gets]_vars
  BY <1>1
<1>3. OpenedGetsKeys <=> [][Gets]_vars
  BY PTL DEF OpenedGetsKeys
<1> QED
  BY <1>2, <1>3, DesktopInductive, PTL DEF WMSpec

\* Whichever button starts a drag, it starts on a visible window that has the focus,
\* and on a maximized one only if that is the file manager's.
THEOREM DragsStartFocused == WMSpec => DragStartsFocused
<1> DEFINE Starts == current_drag' \notin {current_drag, "APP_NONE"} =>
                        /\ focused_app' = current_drag'
                        /\ current_drag' \in Visible'
                        /\ current_drag' # "APP_FILEMANAGER" => ~win'[current_drag'].maximized
<1>1. ASSUME WMInv, [WMNext]_vars PROVE Starts
  <2>1. win \in [Windows -> [open : BOOLEAN, minimized : BOOLEAN, maximized : BOOLEAN]]
    BY <1>1 DEF WMInv, DeskInv, WindowsOK
  <2>2. ASSUME NEW a \in Visible, NEW zone, NEW w, DragFrom(a, w, zone),
               ~(InTitleRow(a, w, zone) /\ zone = "title")
        PROVE  Starts
    BY <2>2 DEF DragFrom
  <2>3. ASSUME NEW a \in Visible, NEW zone, InTitleRow(a, win[a], zone), zone = "title",
               DragFrom(a, win[a], zone), focused_app' = a, UNCHANGED win
        PROVE  Starts
    BY <2>3 DEF DragFrom, InTitleRow, Visible
  <2>4. ASSUME NEW right \in BOOLEAN, NEW a \in Visible, NEW zone \in Zone,
               NEW box \in BoxFor(a, zone, right), focused_app = a, FocusedClick(a, zone, box)
        PROVE  Starts
    <3> DEFINE w == After(win[a], box)
    <3>1. CASE InTitleRow(a, w, zone) /\ zone = "close"
      BY <2>4, <3>1 DEF FocusedClick
    <3>2. CASE ~(InTitleRow(a, w, zone) /\ zone = "close")
      <4>1. /\ win' = [win EXCEPT ![a] = w] /\ focused_app' = a
            /\ DragFrom(a, w, zone)
        BY <2>4, <3>2 DEF FocusedClick
      <4>2. CASE InTitleRow(a, w, zone) /\ zone = "title"
        <5>1. box \in {"title", "body"}
          BY <2>4, <4>2 DEF BoxFor
        <5>2. w = win[a]
          BY <2>1, <5>1 DEF After, Visible
        <5>3. win' = win
          BY <2>1, <4>1, <5>2 DEF Visible
        <5> QED
          BY <2>3, <4>1, <4>2, <5>2, <5>3
      <4> QED
        BY <2>2, <4>1, <4>2
    <3> QED
      BY <3>1, <3>2
  <2>5. ASSUME NEW a \in Visible, NEW zone \in Zone, NEW box, UnfocusedClick(a, zone, box)
        PROVE  Starts
    <3>1. DragFrom(a, win[a], zone)
      BY <2>5 DEF UnfocusedClick
    <3>2. CASE InTitleRow(a, win[a], zone) /\ zone = "title"
      <4>1. focused_app' = a /\ UNCHANGED win
        BY <2>5, <3>2 DEF UnfocusedClick
      <4> QED
        BY <2>3, <3>1, <3>2, <4>1
    <3> QED
      BY <2>2, <3>1, <3>2
  <2>6. ASSUME UNCHANGED current_drag PROVE Starts
    BY <2>6
  <2>7. ASSUME NEW right \in BOOLEAN, WindowClick(right) PROVE Starts
    BY <2>4, <2>5, <2>6, <2>7, FirstHitVisible DEF WindowClick, Under, Background, winvars
  <2>8. ASSUME NEW right \in BOOLEAN, handle_click(right) PROVE Starts
    BY <2>6, <2>7, <2>8
       DEF handle_click, PromptConnect, deskvars, winvars, MenuButton, TaskButton, AppMenuItem,
           InstalledMenuItem, PowerMenuItem, NetworkMenuRow
  <2>9. CASE LeftRelease \/ RightRelease \/ PromptKey \/ BrowserKey \/ UNCHANGED vars
    BY <2>6, <2>9 DEF LeftRelease, RightRelease, PromptKey, PromptConnect, BrowserKey,
                      vars, deskvars, winvars
  <2> QED
    BY <1>1, <2>8, <2>9 DEF WMNext, LeftPress, RightPress
<1>2. WMInv /\ [WMNext]_vars => [Starts]_vars
  BY <1>1
<1>3. DragStartsFocused <=> [][Starts]_vars
  BY PTL DEF DragStartsFocused
<1> QED
  BY <1>2, <1>3, DesktopInductive, PTL DEF WMSpec
-----------------------------------------------------------------------------
(***************************************************************************)
(* The host of an address, for every address.                              *)
(***************************************************************************)
LEMMA FirstOfPositions ==
    ASSUME NEW P, P \subseteq Nat, P # {}
    PROVE  \E k \in P : \A n \in P : k <= n
<1>1. PICK k \in P : \A n \in P : ~(<<n, k>> \in OpToRel(<, Nat))
  BY NatLessThanWellFounded, WFMin
<1>2. \A n \in P : ~(n < k)
  BY <1>1 DEF OpToRel
<1> QED
  BY <1>2

\* Where the scan for a slash stops.
LEMMA FirstSlashFound ==
    ASSUME NEW S, NEW url \in Seq(S), Slashes(url) # {}
    PROVE  /\ FirstSlash(url) \in Slashes(url)
           /\ \A j \in Slashes(url) : FirstSlash(url) <= j
<1>1. Slashes(url) \subseteq Nat
  BY DEF Slashes
<1>2. \E i \in Slashes(url) : \A j \in Slashes(url) : i <= j
  BY <1>1, FirstOfPositions
<1> QED
  BY <1>2 DEF FirstSlash

LEMMA FirstSlashIs ==
    ASSUME NEW S, NEW url \in Seq(S), NEW i \in Slashes(url), \A j \in Slashes(url) : i <= j
    PROVE  FirstSlash(url) = i
<1>1. /\ FirstSlash(url) \in Slashes(url)
      /\ \A j \in Slashes(url) : FirstSlash(url) <= j
  BY FirstSlashFound
<1>2. Slashes(url) \subseteq Nat
  BY DEF Slashes
<1> QED
  BY <1>1, <1>2

LEMMA Slice ==
    ASSUME NEW S, NEW s \in Seq(S), NEW l \in Nat, l = Len(s),
           NEW m \in 1..(l + 1), NEW n \in (m - 1)..l
    PROVE  /\ SubSeq(s, m, n) \in Seq(S)
           /\ Len(SubSeq(s, m, n)) = n - m + 1
           /\ DOMAIN SubSeq(s, m, n) = 1..(n - m + 1)
           /\ \A i \in 1..(n - m + 1) : SubSeq(s, m, n)[i] = s[m + i - 1]
<1>1. \A i \in m..n : s[i] \in S
  OBVIOUS
<1>2. SubSeq(s, m, n) = [i \in 1..(n - m + 1) |-> s[m + i - 1]]
  OBVIOUS
<1>3. n - m + 1 \in Nat
  OBVIOUS
<1>4. \A i \in 1..(n - m + 1) : m + i - 1 \in m..n
  OBVIOUS
<1>5. [i \in 1..(n - m + 1) |-> s[m + i - 1]] \in Seq(S)
  BY <1>1, <1>3, <1>4
<1> QED
  BY <1>2, <1>3, <1>5

LEMMA SlashesOfSlice ==
    ASSUME NEW S, NEW s \in Seq(S), NEW l \in Nat, l = Len(s),
           NEW m \in 1..(l + 1), NEW n \in (m - 1)..l
    PROVE  Slashes(SubSeq(s, m, n)) = {i \in 1..(n - m + 1) : m + i - 1 \in Slashes(s)}
<1>1. /\ DOMAIN SubSeq(s, m, n) = 1..(n - m + 1)
      /\ \A i \in 1..(n - m + 1) : SubSeq(s, m, n)[i] = s[m + i - 1]
  BY Slice
<1>2. DOMAIN s = 1..l
  OBVIOUS
<1>3. \A i \in 1..(n - m + 1) : m + i - 1 \in 1..l
  OBVIOUS
<1> QED
  BY <1>1, <1>2, <1>3 DEF Slashes

\* The text before the first slash, or all of it.
LEMMA UpToSlashIs ==
    ASSUME NEW S, NEW s \in Seq(S), NEW l \in Nat, l = Len(s)
    PROVE  \E n \in 0..l : /\ UpToSlash(s) = SubSeq(s, 1, n)
                           /\ Slashes(SubSeq(s, 1, n)) = {}
                           /\ n < l => n + 1 \in Slashes(s)
<1>1. CASE Slashes(s) = {}
  <2>1. UpToSlash(s) = s /\ SubSeq(s, 1, l) = s
    BY <1>1 DEF UpToSlash
  <2>2. Slashes(SubSeq(s, 1, l)) = {}
    BY <1>1, <2>1, Zenon
  <2>3. l \in 0..l /\ ~(l < l)
    OBVIOUS
  <2> QED
    BY <2>1, <2>2, <2>3, Zenon
<1>2. CASE Slashes(s) # {}
  <2>1. PICK f \in Slashes(s) : f = FirstSlash(s) /\ \A j \in Slashes(s) : f <= j
    BY <1>2, FirstSlashFound
  <2>2. f \in 1..l
    BY DEF Slashes
  <2>3. f - 1 \in 0..l /\ UpToSlash(s) = SubSeq(s, 1, f - 1)
    BY <1>2, <2>1, <2>2 DEF UpToSlash
  <2>4. Slashes(SubSeq(s, 1, f - 1)) = {i \in 1..(f - 1) : i \in Slashes(s)}
    <3>1. 1 \in 1..(l + 1) /\ f - 1 \in (1 - 1)..l
      BY <2>2
    <3>2. Slashes(SubSeq(s, 1, f - 1)) = {i \in 1..(f - 1 - 1 + 1) : 1 + i - 1 \in Slashes(s)}
      BY <3>1, SlashesOfSlice
    <3>3. f - 1 - 1 + 1 = f - 1 /\ \A i \in 1..(f - 1) : 1 + i - 1 = i
      BY <2>2
    <3> QED
      BY <3>2, <3>3
  <2>5. Slashes(SubSeq(s, 1, f - 1)) = {}
    BY <2>1, <2>2, <2>4
  <2> QED
    BY <2>2, <2>3, <2>5
<1> QED
  BY <1>1, <1>2

\* Up to the second slash of a protocol there are no slashes but its own two.
LEMMA ProtocolHasTwoSlashes ==
    ASSUME NEW S, NEW url \in Seq(S), NEW l \in Nat, l = Len(url), NEW i \in 3..l
    PROVE  Slashes(SubSeq(url, 1, i)) = {i - 1, i} <=>
              /\ {i - 1, i} \subseteq Slashes(url)
              /\ \A j \in Slashes(url) : i - 1 <= j
<1>1. Slashes(SubSeq(url, 1, i)) = {j \in 1..i : j \in Slashes(url)}
  <2>1. 1 \in 1..(l + 1) /\ i \in (1 - 1)..l
    OBVIOUS
  <2>2. Slashes(SubSeq(url, 1, i)) = {j \in 1..(i - 1 + 1) : 1 + j - 1 \in Slashes(url)}
    BY <2>1, SlashesOfSlice
  <2>3. i - 1 + 1 = i /\ \A j \in 1..i : 1 + j - 1 = j
    OBVIOUS
  <2> QED
    BY <2>2, <2>3
<1>2. Slashes(url) \subseteq 1..l
  BY DEF Slashes
<1> QED
  BY <1>1, <1>2

\* What is looked up of an address with a protocol and of one without.
LEMMA HostLookedUp ==
    ASSUME address_bar \in Seq({Home} \cup AddressKeys)
    PROVE  HostOfAddress
<1> DEFINE url == address_bar
           S == {Home} \cup AddressKeys
           domain == Domain(url)
<1>1. PICK l \in Nat : l = Len(url)
  BY LenIsNatural
<1>2. url \in Seq(S) /\ Slashes(url) \subseteq 1..l
  BY <1>1 DEF Slashes
<1>3. ASSUME NEW i \in 3..l
      PROVE  i \in ProtocolEnd <=> /\ url[1] = "http"
                                   /\ {i - 1, i} \subseteq Slashes(url)
                                   /\ \A j \in Slashes(url) : i - 1 <= j
  BY <1>1, <1>2, <1>3, ProtocolHasTwoSlashes DEF ProtocolEnd
<1>4. ASSUME ProtocolEnd = {}, domain # url
      PROVE  FALSE
  <2>1. /\ url[1] = "http" /\ Slashes(url) # {}
        /\ FirstSlash(url) + 1 \in Slashes(url)
    BY <1>4 DEF Domain, HasProtocol
  <2>2. PICK f \in Slashes(url) : f = FirstSlash(url) /\ \A j \in Slashes(url) : f <= j
    BY <1>2, <2>1, FirstSlashFound
  <2>3. url[f] = "/" /\ f \in 1..l /\ f + 1 \in 1..l
    BY <1>2, <2>1, <2>2 DEF Slashes
  <2>4. f # 1
    BY <2>1, <2>3
  <2>5. f + 1 \in 3..l /\ (f + 1) - 1 = f
    BY <2>3, <2>4
  <2>6. {(f + 1) - 1, f + 1} \subseteq Slashes(url)
    BY <2>1, <2>2, <2>5
  <2>7. f + 1 \in ProtocolEnd
    BY <1>3, <2>1, <2>2, <2>5, <2>6
  <2> QED
    BY <1>4, <2>7
<1>5. ASSUME NEW i \in ProtocolEnd
      PROVE  \E n \in i..l : /\ domain = SubSeq(url, i + 1, n)
                             /\ Slashes(domain) = {}
                             /\ n < l => url[n + 1] = "/"
  <2>1. i \in 3..l
    BY <1>1 DEF ProtocolEnd
  <2>2. /\ url[1] = "http" /\ {i - 1, i} \subseteq Slashes(url)
        /\ \A j \in Slashes(url) : i - 1 <= j
    BY <1>3, <2>1
  <2>3. FirstSlash(url) = i - 1
    BY <1>2, <2>2, FirstSlashIs
  <2> DEFINE text == SubSeq(url, i + 1, l)
  <2>4. domain = UpToSlash(text)
    <3>1. url # <<>>
      BY <1>1, <2>1
    <3>2. HasProtocol(url)
      BY <2>2, <3>1 DEF HasProtocol
    <3>3. FirstSlash(url) + 1 = i /\ FirstSlash(url) + 2 = i + 1
      BY <2>1, <2>3
    <3> QED
      BY <1>1, <2>2, <3>2, <3>3 DEF Domain
  <2>5. i + 1 \in 1..(l + 1) /\ l \in ((i + 1) - 1)..l /\ l - (i + 1) + 1 = l - i /\ l - i \in Nat
    BY <2>1
  <2>6. /\ text \in Seq(S) /\ Len(text) = l - i
    BY <1>1, <1>2, <2>5, Slice
  <2>7. Slashes(text) = {k \in 1..(l - i) : (i + 1) + k - 1 \in Slashes(url)}
    BY <1>1, <1>2, <2>5, SlashesOfSlice
  <2>8. PICK n \in 0..(l - i) : /\ UpToSlash(text) = SubSeq(text, 1, n)
                                /\ Slashes(SubSeq(text, 1, n)) = {}
                                /\ n < l - i => n + 1 \in Slashes(text)
    <3> HIDE DEF text
    <3> QED
      BY <2>5, <2>6, UpToSlashIs
  <2>9. SubSeq(text, 1, n) = SubSeq(url, i + 1, i + n)
    <3>1. /\ DOMAIN SubSeq(text, 1, n) = 1..(n - 1 + 1)
          /\ \A k \in 1..(n - 1 + 1) : SubSeq(text, 1, n)[k] = text[1 + k - 1]
      <4>1. 1 \in 1..((l - i) + 1) /\ n \in (1 - 1)..(l - i)
        BY <2>5
      <4> HIDE DEF text
      <4> QED
        BY <2>5, <2>6, <4>1, Slice
    <3>2. \A k \in 1..(l - i) : text[k] = url[(i + 1) + k - 1]
      BY <1>1, <1>2, <2>5, Slice
    <3>3. i + n \in ((i + 1) - 1)..l
      BY <2>1
    <3>4. /\ DOMAIN SubSeq(url, i + 1, i + n) = 1..((i + n) - (i + 1) + 1)
          /\ \A k \in 1..((i + n) - (i + 1) + 1) :
                SubSeq(url, i + 1, i + n)[k] = url[(i + 1) + k - 1]
      BY <1>1, <1>2, <2>5, <3>3, Slice
    <3>5. n - 1 + 1 = n /\ (i + n) - (i + 1) + 1 = n /\ \A k \in 1..n : 1 + k - 1 = k /\ k \in 1..(l - i)
      BY <2>1
    <3>6. SubSeq(text, 1, n) \in Seq(S) /\ Len(SubSeq(text, 1, n)) = n
      <4>1. 1 \in 1..((l - i) + 1) /\ n \in (1 - 1)..(l - i) /\ n - 1 + 1 = n
        BY <2>5
      <4> HIDE DEF text
      <4> QED
        BY <2>5, <2>6, <4>1, Slice
    <3>7. SubSeq(url, i + 1, i + n) \in Seq(S) /\ Len(SubSeq(url, i + 1, i + n)) = n
      BY <1>1, <1>2, <2>5, <3>3, <3>5, Slice
    <3>8. \A k \in 1..n : SubSeq(text, 1, n)[k] = SubSeq(url, i + 1, i + n)[k]
      <4> HIDE DEF text
      <4> QED
        BY <3>1, <3>2, <3>4, <3>5
    <3> HIDE DEF text
    <3> DEFINE x == SubSeq(text, 1, n)
               y == SubSeq(url, i + 1, i + n)
    <3>9. x \in Seq(S) /\ y \in Seq(S) /\ Len(x) = n /\ Len(y) = n /\ \A k \in 1..n : x[k] = y[k]
      BY <3>6, <3>7, <3>8
    <3> HIDE DEF x, y
    <3>10. x = y
      BY <3>9
    <3> QED
      BY <3>10 DEF x, y
  <2>10. i + n \in i..l
    BY <2>1
  <2>11. i + n < l => url[i + n + 1] = "/"
    <3>1. SUFFICES ASSUME i + n < l PROVE i + n + 1 \in Slashes(url)
      BY DEF Slashes
    <3>2. n < l - i
      BY <2>1, <3>1
    <3>3. (i + 1) + (n + 1) - 1 \in Slashes(url)
      BY <2>7, <2>8, <3>2
    <3> QED
      BY <2>1, <3>3
  <2> HIDE DEF text
  <2> QED
    BY <2>4, <2>8, <2>9, <2>10, <2>11
<1> QED
  BY <1>1, <1>4, <1>5 DEF HostOfAddress

\* Whatever was typed, http_get looks up the text between the two slashes that end a
\* protocol and the next slash, and an address without one as it is.
THEOREM HostIsLookedUp == WMSpec => []HostOfAddress
<1>1. WMInv => HostOfAddress
  BY HostLookedUp DEF WMInv, DeskInv, BrowserOK
<1> QED
  BY <1>1, DesktopInductive, PTL
=============================================================================
