------------------------------ MODULE Network -------------------------------
(***************************************************************************)
(* The network interface and its WiFi networks (system/network.cpp): what  *)
(* the scan at boot may find, and connect_to_wifi.  The adapter's answers  *)
(* are nondeterministic.  A password is its length.                        *)
(***************************************************************************)
EXTENDS Integers

CONSTANTS MaxNetworks,  \* bound on the networks a scan finds, at most 11 channels
          MinPassword,  \* 8
          MaxPassword   \* 63, what wifi_password_input holds

ASSUME NetworkAssumption == /\ MaxNetworks \in Nat
                            /\ MinPassword \in Nat /\ MaxPassword \in Nat

VARIABLES primary_interface,
          wifi_networks,        \* for each network found, whether it is secured
          selected_wifi_index,
          joined                \* history: the network of the last successful connect

netvars == <<primary_interface, wifi_networks, selected_wifi_index, joined>>

NetworkType == {"NET_NONE", "NET_ETHERNET", "NET_WIFI"}
Chipset == {"WIFI_NONE", "WIFI_RTL8192", "WIFI_GENERIC"}
NoIP == 0
StaticIP == 1   \* 192.168.1.100, the address every connection gets

Interface(type, chip, connected) ==
    [type |-> type, wifi_chip |-> chip, connected |-> connected,
     ip |-> IF connected THEN StaticIP ELSE NoIP]

\* What detect_network_hardware may find.  With no card at all it makes up a
\* connected Ethernet interface; a card it does not know leaves NET_NONE.
Detected ==
    { Interface("NET_NONE", "WIFI_NONE", FALSE),
      Interface("NET_ETHERNET", "WIFI_NONE", TRUE),
      Interface("NET_ETHERNET", "WIFI_NONE", FALSE),
      Interface("NET_WIFI", "WIFI_GENERIC", FALSE),
      Interface("NET_WIFI", "WIFI_RTL8192", FALSE) }

\* Only a Realtek adapter is scanned.
scan_wifi_networks(interface) ==
    IF interface.wifi_chip = "WIFI_RTL8192"
    THEN UNION {[0..(n - 1) -> BOOLEAN] : n \in 0..MaxNetworks}
    ELSE {[i \in {} |-> FALSE]}

network_init ==
    /\ primary_interface \in Detected
    /\ wifi_networks \in scan_wifi_networks(primary_interface)
    /\ selected_wifi_index = -1
    /\ joined = -1

\* Mutant: the length of the password is not tested.
AnyPassword(index, password) == TRUE

PasswordFits(index, password) ==
    wifi_networks[index] => password >= MinPassword

\* Mutant: the old connection is given up before the attempt.
Disconnected == [primary_interface EXCEPT !.connected = FALSE, !.ip = NoIP]

AfterFailure == primary_interface

\* The index is kept before the attempt (and the password, which nothing reads); a
\* failed one leaves the interface as it was.
connect_to_wifi(index, password) ==
    IF index \in DOMAIN wifi_networks
    THEN /\ selected_wifi_index' = index
         /\ \/ /\ PasswordFits(index, password)
               /\ primary_interface' =
                     [primary_interface EXCEPT !.connected = TRUE, !.ip = StaticIP]
               /\ joined' = index
            \/ \* too short, or the adapter's status bit is clear
               /\ \/ ~PasswordFits(index, password)
                  \/ primary_interface.wifi_chip = "WIFI_RTL8192"
               /\ primary_interface' = AfterFailure
               /\ UNCHANGED joined
         /\ UNCHANGED wifi_networks
    ELSE UNCHANGED netvars
=============================================================================
