-------------------------------- MODULE Menus --------------------------------
(***************************************************************************)
(* The rows of the app menu and of the network menu (applications.cpp).    *)
(* Drawing and clicking work the positions of the rows out separately, in  *)
(* draw_app_menu and draw_network_menu, and in handle_click.  All of it is *)
(* vertical: within a menu every row has the same columns.                 *)
(***************************************************************************)
EXTENDS Integers

CONSTANT fb_height

ASSUME MenusAssumption == fb_height \in Nat

\* Both menus stand 10 pixels above the taskbar.
MenuTop(menu_h) == fb_height - 50 - menu_h - 10

\* A row is 35 pixels high, and a click is tested against one pixel more.
Clicked(top) == top..(top + 35)

\* The first and the last line that is drawn of a row.
Edges(top) == {top, top + 34}

\* The points above the taskbar.
Desktop == 0..(fb_height - 51)

First(S) == {i \in S : \A j \in S : i <= j}
-----------------------------------------------------------------------------
\* The app menu: Terminal, Browser, File Manager, then the installed programs.
TerminalEntry == 1
Entries(apps) == 1..(3 + apps)

\* Mutant: the menu makes more room for a program than its row takes.
TallMenu(apps) == MenuTop(180 + apps * 60)

AppMenuTop(apps) == MenuTop(180 + apps * 40)

\* draw_app_menu.
DrawnEntry(entry, apps) ==
    AppMenuTop(apps) + IF entry <= 3 THEN 50 + 45 * (entry - 1) ELSE 185 + 40 * (entry - 4)

\* handle_click.
EntryTop(entry, apps) ==
    AppMenuTop(apps) + IF entry <= 3 THEN 5 + 45 * entry ELSE 25 + 40 * entry

\* The entry a click in the app menu is for, as a set of at most one.
EntryAt(y, apps) == First({e \in Entries(apps) : y \in Clicked(EntryTop(e, apps))})

\* Some line of the entry's row is on the screen, so its last one is.
Reachable(entry, apps) ==
    \E y \in Edges(EntryTop(entry, apps)) \cap Desktop : entry \in EntryAt(y, apps)
-----------------------------------------------------------------------------
\* The network menu shows the first networks, from 0 to shown - 1.
NetworkMenuTop == MenuTop(350)

\* draw_network_menu moves on to the next row before it draws one.
DrawnNetwork(i) == NetworkMenuTop + 95 + 40 * (i + 1)

\* handle_click.
NetworkTop(i) == NetworkMenuTop + 95 + 40 * i

NetworkAt(y, shown) == First({i \in 0..(shown - 1) : y \in Clicked(NetworkTop(i))})
=============================================================================
