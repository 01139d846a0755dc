--------------------------- MODULE WindowManager ----------------------------
(***************************************************************************)
(* The desktop (system/applications.cpp): the windows of the three         *)
(* programs, the taskbar and its menus, the WiFi password prompt, and how  *)
(* handle_click and handle_app_keyboard route a click or a key.            *)
(*                                                                         *)
(* A click is named for what lies under the pointer.  Windows overlap and  *)
(* can be dragged anywhere, so a point may lie in any set of the visible   *)
(* windows, and in all the maximized ones.  A mouse packet that changes    *)
(* both buttons does what two packets do, left button first.               *)
(***************************************************************************)
EXTENDS Network, Browser

CONSTANTS Windows,    \* the windows of the instance
          ShownRows   \* 5, the networks the menu shows

AppID == {"APP_TERMINAL", "APP_BROWSER", "APP_FILEMANAGER"}

ASSUME WindowsAssumption == Windows \subseteq AppID /\ ShownRows \in Nat

VARIABLES win,            \* open, minimized and maximized of each window
          focused_app, current_drag,
          menus,          \* of the *_menu_open flags, those that are set
          wifi_password_prompt, selected_wifi_network, wifi_password_len,
          mouse_left_btn, mouse_right_btn,
          halted          \* system_shutdown or system_reboot was called

winvars == <<win, focused_app, current_drag, brvars>>
promptvars == <<wifi_password_prompt, selected_wifi_network, wifi_password_len>>
deskvars == <<winvars, menus, promptvars, halted, netvars>>
vars == <<deskvars, mouse_left_btn, mouse_right_btn>>

Menu == {"app", "power", "network"}   \* no code sets settings_menu_open

WMInit ==
    /\ network_init
    /\ browser_init
    /\ win = [a \in Windows |-> [open |-> FALSE, minimized |-> FALSE, maximized |-> FALSE]]
    /\ focused_app = "APP_NONE" /\ current_drag = "APP_NONE"
    /\ menus = {}
    /\ wifi_password_prompt = FALSE
    /\ selected_wifi_network = -1 /\ wifi_password_len = 0
    /\ mouse_left_btn = FALSE /\ mouse_right_btn = FALSE
    /\ halted = FALSE

Visible == {a \in Windows : win[a].open /\ ~win[a].minimized}
-----------------------------------------------------------------------------
\* Clicks on the prompt, the taskbar and the menus.

\* Mutant: the prompt stays open.
PromptKept == wifi_password_prompt

PromptAfterConnect == FALSE

PromptConnect ==
    /\ connect_to_wifi(selected_wifi_network, wifi_password_len)
    /\ wifi_password_prompt' = PromptAfterConnect
    /\ menus' = menus \ {"network"}
    /\ UNCHANGED <<winvars, selected_wifi_network, wifi_password_len, halted>>

Toggled(menu) == {menu} \ menus

MenuButton(menu) ==
    /\ menus' = Toggled(menu)
    /\ UNCHANGED <<winvars, promptvars, halted, netvars>>

TaskButton(a) ==
    /\ win[a].open
    /\ win' = [win EXCEPT ![a].minimized = ~@]
    /\ focused_app' = a
    /\ UNCHANGED <<current_drag, menus, promptvars, halted, netvars, brvars>>

\* Mutant: a window that was minimized stays so.
OpenedAsItWas(w) == [w EXCEPT !.open = TRUE]

\* open_terminal, open_browser, open_filemanager.
Opened(w) == [w EXCEPT !.open = TRUE, !.minimized = FALSE]

AppMenuItem(a) ==
    /\ "app" \in menus
    /\ win' = [win EXCEPT ![a] = Opened(@)]
    /\ IF a = "APP_BROWSER" THEN open_browser(primary_interface.connected)
       ELSE UNCHANGED brvars
    /\ focused_app' = a
    /\ menus' = menus \ {"app"}
    /\ UNCHANGED <<current_drag, promptvars, halted, netvars>>

\* The entry of an installed program only flips the mark its taskbar box shows.
InstalledMenuItem ==
    /\ "app" \in menus
    /\ menus' = menus \ {"app"}
    /\ UNCHANGED <<winvars, promptvars, halted, netvars>>

PowerMenuItem ==
    /\ "power" \in menus
    /\ halted' = TRUE
    /\ UNCHANGED <<winvars, menus, promptvars, netvars>>

\* The row at the height the click is tested at; the row is drawn 40 pixels
\* lower, where the click takes the next network.
NetworkMenuRow(i) ==
    /\ "network" \in menus
    /\ primary_interface.type = "NET_WIFI"
    /\ i \in DOMAIN wifi_networks /\ i < ShownRows
    /\ \/ /\ wifi_networks[i]
          /\ selected_wifi_network' = i
          /\ wifi_password_prompt' = TRUE
          /\ wifi_password_len' = 0
          /\ UNCHANGED <<menus, netvars>>
       \/ /\ ~wifi_networks[i]
          /\ connect_to_wifi(i, 0)
          /\ menus' = menus \ {"network"}
          /\ UNCHANGED promptvars
    /\ UNCHANGED <<winvars, halted>>
-----------------------------------------------------------------------------
\* Clicks on windows.

\* Where in a window a click can be: on the boxes and the draggable part of the
\* title row, on the rest of it, or below it.
Zone == {"minimize", "maximize", "close", "title", "row", "body"}

\* What a window's own handler makes of a click on one of its boxes.
After(w, box) ==
    [w EXCEPT !.minimized = @ \/ box = "minimize",
              !.maximized = IF box = "maximize" THEN ~@ ELSE @,
              !.open      = @ /\ box # "close"]

\* The box a window's own handler finds for a click that handle_click puts in
\* zone.  handle_click places the file manager by its unmaximized frame, and its
\* handler ignores the right button and its boxes while a dialog is open.
BoxFor(a, zone, right) ==
    IF a # "APP_FILEMANAGER" THEN {zone}
    ELSE {"body"} \cup
         IF right \/ zone = "title" THEN {}
         ELSE IF win[a].maximized \/ zone \in {"minimize", "maximize", "row"}
              THEN {"minimize", "maximize", "close"}
              ELSE {zone} \cap {"close"}

\* Mutant: a maximized window is dragged and closed like any other.
InEveryTitleRow(a, w, zone) == zone # "body"

\* handle_click itself acts on the title row of a window, maximized ones apart
\* (it does not ask the file manager).
InTitleRow(a, w, zone) ==
    zone # "body" /\ (a = "APP_FILEMANAGER" \/ ~w.maximized)

\* Mutant: the closed window keeps the focus.
FocusKept(a, w) == /\ win' = [win EXCEPT ![a] = [w EXCEPT !.open = FALSE]]
                   /\ focused_app' = a

Close(a, w) == /\ win' = [win EXCEPT ![a] = [w EXCEPT !.open = FALSE]]
               /\ focused_app' = "APP_NONE"

DragFrom(a, w, zone) ==
    current_drag' = IF InTitleRow(a, w, zone) /\ zone = "title" THEN a ELSE current_drag

\* What a click does in the window it reaches.
OwnClick(a, zone) ==
    IF a = "APP_BROWSER" THEN handle_browser_click(zone, primary_interface.connected)
    ELSE UNCHANGED brvars

\* The window that has the focus gets the click first, and all menus close.
FocusedClick(a, zone, box) ==
    LET w == After(win[a], box)
    IN  /\ OwnClick(a, zone)
        /\ \/ /\ InTitleRow(a, w, zone) /\ zone = "close"
              /\ Close(a, w)
              /\ UNCHANGED <<current_drag, menus>>
           \/ /\ ~(InTitleRow(a, w, zone) /\ zone = "close")
              /\ win' = [win EXCEPT ![a] = w]
              /\ DragFrom(a, w, zone)
              /\ menus' = {}
              /\ UNCHANGED focused_app

\* Any other window is raised; its own handler sees no click on its title row.
UnfocusedClick(a, zone, box) ==
    /\ \/ /\ InTitleRow(a, win[a], zone)
          /\ \/ zone = "close" /\ Close(a, win[a])
             \/ zone # "close" /\ focused_app' = a /\ UNCHANGED win
          /\ UNCHANGED brvars
       \/ /\ ~InTitleRow(a, win[a], zone)
          /\ win' = [win EXCEPT ![a] = After(@, box)]
          /\ focused_app' = a
          /\ OwnClick(a, zone)
    /\ DragFrom(a, win[a], zone)
    /\ UNCHANGED menus

Background == menus' = {} /\ UNCHANGED winvars

Order == <<"APP_TERMINAL", "APP_BROWSER", "APP_FILEMANAGER">>

\* The window of those under the pointer that an unfocused click goes to.
FirstHit(under) == LET k == CHOOSE m \in 1..3 : /\ Order[m] \in under
                                                /\ \A n \in 1..(m - 1) : Order[n] \notin under
                   IN  Order[k]

\* The sets of windows a point of the desktop can lie in.
Under == {S \in SUBSET Visible :
            \A a \in Visible : win[a].maximized /\ a # "APP_FILEMANAGER" => a \in S}

WindowClick(right) ==
    /\ \E under \in Under :
          \/ under = {} /\ Background
          \/ /\ focused_app \in under
             /\ \E zone \in Zone : \E box \in BoxFor(focused_app, zone, right) :
                   FocusedClick(focused_app, zone, box)
          \/ /\ under # {} /\ focused_app \notin under
             /\ LET a == FirstHit(under)
                IN  \E zone \in Zone : \E box \in BoxFor(a, zone, right) :
                       UnfocusedClick(a, zone, box)
    /\ UNCHANGED <<promptvars, halted, netvars>>

handle_click(right) ==
    \/ wifi_password_prompt /\ (PromptConnect \/ UNCHANGED deskvars)
    \/ /\ ~wifi_password_prompt
       /\ \/ \E menu \in Menu : MenuButton(menu)
          \/ \E a \in Windows : TaskButton(a) \/ AppMenuItem(a)
          \/ InstalledMenuItem \/ PowerMenuItem
          \/ \E i \in DOMAIN wifi_networks : NetworkMenuRow(i)
          \/ WindowClick(right)
          \/ UNCHANGED deskvars   \* the taskbar or a menu, beside every button
-----------------------------------------------------------------------------
LeftPress == /\ ~halted /\ ~mouse_left_btn
             /\ mouse_left_btn' = TRUE
             /\ handle_click(FALSE)
             /\ UNCHANGED mouse_right_btn

LeftRelease == /\ ~halted /\ mouse_left_btn
               /\ mouse_left_btn' = FALSE
               /\ current_drag' = "APP_NONE"
               /\ UNCHANGED <<win, focused_app, brvars, menus, promptvars, halted, netvars,
                              mouse_right_btn>>

RightPress == /\ ~halted /\ ~mouse_right_btn
              /\ mouse_right_btn' = TRUE
              /\ handle_click(TRUE)
              /\ UNCHANGED mouse_left_btn

RightRelease == /\ ~halted /\ mouse_right_btn
                /\ mouse_right_btn' = FALSE
                /\ UNCHANGED <<deskvars, mouse_left_btn>>

\* The part of the system a key typed now goes to: is_app_focused decides between
\* the shell and the desktop, handle_app_keyboard among the windows.
KeyTarget ==
    LET desktop == Visible \cap {"APP_BROWSER", "APP_FILEMANAGER"}
    IN  CASE wifi_password_prompt -> "prompt"
          [] ~wifi_password_prompt /\ desktop = {} -> "shell"
          [] ~wifi_password_prompt /\ desktop # {} ->
                IF /\ focused_app \in Windows \ {"APP_TERMINAL"}
                   /\ win[focused_app].open
                THEN focused_app
                ELSE IF "APP_FILEMANAGER" \in desktop THEN "APP_FILEMANAGER" ELSE "APP_BROWSER"

RoomInPrompt == wifi_password_len < MaxPassword

\* handle_wifi_password_input.
PromptKey ==
    /\ ~halted
    /\ KeyTarget = "prompt"
    /\ \/ PromptConnect                                        \* Enter
       \/ /\ wifi_password_prompt' = FALSE                     \* Esc
          /\ UNCHANGED <<winvars, menus, selected_wifi_network, wifi_password_len,
                         halted, netvars>>
       \/ /\ \/ wifi_password_len > 0 /\ wifi_password_len' = wifi_password_len - 1
             \/ RoomInPrompt /\ wifi_password_len' = wifi_password_len + 1
          /\ UNCHANGED <<winvars, menus, wifi_password_prompt, selected_wifi_network,
                         halted, netvars>>
    /\ UNCHANGED <<mouse_left_btn, mouse_right_btn>>

BrowserKey ==
    /\ ~halted
    /\ KeyTarget = "APP_BROWSER"
    /\ handle_browser_keyboard(primary_interface.connected)
    /\ UNCHANGED <<win, focused_app, current_drag, menus, promptvars, halted, netvars,
                   mouse_left_btn, mouse_right_btn>>

WMNext == \/ LeftPress \/ LeftRelease \/ RightPress \/ RightRelease
          \/ PromptKey \/ BrowserKey

WMSpec == WMInit /\ [][WMNext]_vars
-----------------------------------------------------------------------------
(***************************************************************************)
(* Properties.                                                             *)
(***************************************************************************)
\* Every variable has its type; the password fits wifi_password_input.
WMTypeOK ==
    /\ win \in [Windows -> [open : BOOLEAN, minimized : BOOLEAN, maximized : BOOLEAN]]
    /\ {focused_app, current_drag} \subseteq Windows \cup {"APP_NONE"}
    /\ menus \subseteq Menu
    /\ {wifi_password_prompt, mouse_left_btn, mouse_right_btn, halted} \subseteq BOOLEAN
    /\ selected_wifi_network \in -1..(MaxNetworks - 1)
    /\ wifi_password_len \in 0..MaxPassword
    /\ {selected_wifi_index, joined} \subseteq -1..(MaxNetworks - 1)
    /\ \E d \in Detected, c \in BOOLEAN :
          primary_interface = Interface(d.type, d.wifi_chip, c)
    /\ \A i \in DOMAIN address_bar : address_bar[i] \in {Home} \cup AddressKeys
    /\ Len(address_bar) <= MaxAddress
    /\ address_bar_focused \in BOOLEAN
    /\ page \in Page

\* At most one menu is open, whatever was clicked over it: handle_click tests
\* them in a fixed order, and a second one would be shadowed by the first.
OneMenu == \A m, n \in menus : m = n

\* While the password prompt is up, the menu it came from is open and the
\* network it asks for is a secured one of the list.
PromptOverMenu ==
    wifi_password_prompt =>
        /\ menus = {"network"}
        /\ selected_wifi_network \in DOMAIN wifi_networks
        /\ wifi_networks[selected_wifi_network]

\* A terminal or browser that has the focus is open, unless it was closed while
\* it was maximized: its own handler then closes it and leaves the focus behind.
FocusedIsOpen ==
    \A a \in Windows \ {"APP_FILEMANAGER"} :
        focused_app = a => win[a].open \/ win[a].maximized

\* A drag starts on a window that is visible, has the focus and, for the two that
\* handle_click asks, is not maximized - whatever button started it.
DragStartsFocused ==
    [][current_drag' \notin {current_drag, "APP_NONE"} =>
          /\ focused_app' = current_drag'
          /\ current_drag' \in Visible'
          /\ current_drag' # "APP_FILEMANAGER" => ~win'[current_drag'].maximized]_vars

\* A browser or file manager that is opened gets the keys, also when it was
\* minimized before it was closed and whichever windows are open beside it.
OpenedGetsKeys ==
    [][\A a \in Windows \ {"APP_TERMINAL"} :
          ~win[a].open /\ win'[a].open => KeyTarget' = a]_vars

\* No connection to a secured network comes about without a password of
\* MinPassword characters, through the prompt or past it.
SecuredNeedsPassword ==
    [][joined' # joined /\ wifi_networks[joined'] =>
          wifi_password_prompt /\ wifi_password_len >= MinPassword]_vars

\* An attempt to join another network, which keeps the network's index before it
\* is made, never costs the connection: once the browser has shown
\* anything else, it does not say that there is no network.
ConnectionKept ==
    [][page' = "Network Error" => page \in {"empty", "Network Error"}]_vars

\* Where in the address a protocol ends: at the first two slashes in a row after
\* an http, with no slash before them.
ProtocolEnd == {i \in 3..Len(address_bar) : /\ address_bar[1] = "http"
                                            /\ Slashes(SubSeq(address_bar, 1, i)) = {i - 1, i}}

\* Of an address with a protocol, what is looked up is the text from its end to the
\* next slash or the end of the address; any other address is looked up as it is,
\* slashes and all, whatever was typed and in whatever order.
HostOfAddress ==
    LET domain == Domain(address_bar)
    IN  /\ ProtocolEnd = {} => domain = address_bar
        /\ \A i \in ProtocolEnd : \E n \in i..Len(address_bar) :
              /\ domain = SubSeq(address_bar, i + 1, n)
              /\ Slashes(domain) = {}
              /\ n < Len(address_bar) => address_bar[n + 1] = "/"
=============================================================================
