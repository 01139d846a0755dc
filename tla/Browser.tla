------------------------------- MODULE Browser -------------------------------
(***************************************************************************)
(* The browser's own state and handlers (apps/browser.cpp), and the page   *)
(* it gets for an address (http_get in system/network.cpp).  Which clicks  *)
(* and keys reach the handlers is WindowManager's matter.                  *)
(*                                                                         *)
(* An address is a sequence of keys.  A key is a host, a slash, or "http", *)
(* which stands for any text that begins with http and has no slash.       *)
(***************************************************************************)
EXTENDS Integers, Sequences

CONSTANTS Home,         \* "halden.os"
          Pages,        \* the domains of dns_files
          Hosts,        \* the domains of dns_cache
          MaxAddress,   \* 126
          AddressKeys   \* what is typed, Enter and Backspace apart

ASSUME BrowserAssumption == MaxAddress \in Nat \ {0}

VARIABLES address_bar, address_bar_focused,
          page   \* what kind of page is shown

brvars == <<address_bar, address_bar_focused, page>>

Page == {"empty", "page", "Network Error", "DNS Error", "404 Not Found"}

browser_init == /\ address_bar = <<Home>>
                /\ address_bar_focused = FALSE
                /\ page = "empty"

Slashes(url) == {i \in DOMAIN url : url[i] = "/"}
FirstSlash(url) == CHOOSE i \in Slashes(url) : \A j \in Slashes(url) : i <= j
UpToSlash(text) ==
    IF Slashes(text) = {} THEN text ELSE SubSeq(text, 1, FirstSlash(text) - 1)
-----------------------------------------------------------------------------
\* Mutant: whatever stands before the first slash is taken for the protocol.
NoProtocolTest(url) == Slashes(url) # {}

HasProtocol(url) == url # <<>> /\ url[1] = "http" /\ Slashes(url) # {}

\* The text http_get looks up: what stands between a protocol's two slashes and the
\* next one, or else the whole address.
Domain(url) ==
    IF /\ HasProtocol(url)
       /\ FirstSlash(url) + 1 \in Slashes(url)
    THEN UpToSlash(SubSeq(url, FirstSlash(url) + 2, Len(url)))
    ELSE url

Names(domain, hosts) == Len(domain) = 1 /\ domain[1] \in hosts

http_get(url, connected) ==
    CASE ~connected -> "Network Error"
      [] connected /\ Names(Domain(url), Pages) -> "page"
      [] connected /\ ~Names(Domain(url), Pages \cup Hosts) -> "DNS Error"
      [] OTHER -> "404 Not Found"

\* The address is reset; whether the address bar has the keys is not.
open_browser(connected) ==
    /\ address_bar' = <<Home>>
    /\ page' = http_get(<<Home>>, connected)
    /\ UNCHANGED address_bar_focused

navigate_to_url(connected) ==
    /\ page' = http_get(address_bar, connected)
    /\ address_bar_focused' = FALSE
    /\ UNCHANGED address_bar

FocusBar(focused) ==
    /\ address_bar_focused' = focused
    /\ UNCHANGED <<address_bar, page>>

\* The boxes of the title row are window flags and leave the bar alone.  Below the
\* title row are the bar, the Go button, the room between them and the page.
handle_browser_click(zone, connected) ==
    \/ zone \in {"minimize", "maximize", "close"} /\ UNCHANGED brvars
    \/ zone \in {"title", "row", "body"} /\ FocusBar(FALSE)
    \/ /\ zone = "body"
       /\ FocusBar(TRUE) \/ navigate_to_url(connected) \/ UNCHANGED brvars

handle_browser_keyboard(connected) ==
    /\ address_bar_focused
    /\ \/ navigate_to_url(connected)
       \/ /\ \/ /\ address_bar # <<>>
                /\ address_bar' = SubSeq(address_bar, 1, Len(address_bar) - 1)
             \/ /\ Len(address_bar) < MaxAddress
                /\ \E c \in AddressKeys : address_bar' = Append(address_bar, c)
          /\ UNCHANGED <<address_bar_focused, page>>
=============================================================================
