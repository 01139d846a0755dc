------------------------------ MODULE Installer ------------------------------
(***************************************************************************)
(* The shell's install and run commands (system/commands.cpp), over the    *)
(* package manager, the Linux layer and the list of installed programs of  *)
(* the app menu (applications.cpp), which each of them feeds and none of   *)
(* them owns.                                                              *)
(*                                                                         *)
(* A name is a sequence of pieces, each standing for one character or for  *)
(* a text that fits the list; a type stands for its byte.  An entry is 40  *)
(* bytes, and a name is taken to end within it: the copy of a longer one   *)
(* runs into the next entry or, behind the last one, out of the list.      *)
(*                                                                         *)
(* The calls of Hlpkg and Port that no command makes are steps too: they   *)
(* are what the two parts offer.                                           *)
(***************************************************************************)
EXTENDS Port, Menus

CONSTANTS MaxApps,            \* MAX_INSTALLED_APPS
          Names,              \* names of .AppImage files, without the suffix
          NameSize,           \* 32, the bytes of an entry's name
          MaxPackages, SignatureValid(_), MaxUptime,
          FirstPackagePid,    \* 1000
          MaxPackagePid       \* bound on next_pid

AppType == {"hlpkg", "port"}   \* 1 and 2

ASSUME InstallerAssumption ==
    /\ MaxApps \in Nat
    /\ NameSize \in Nat \ {0, 1}
    /\ Names \subseteq Seq(STRING)
    /\ \A n \in Names : Len(n) < NameSize + 8       \* it ends within its entry
    /\ \A n \in Names, k \in 1..NameSize + 8 :     \* no key types such a byte
          k <= Len(n) => n[k] \notin AppType
    /\ MaxPackages \in Nat \ {0} /\ FirstPackagePid \in Nat \ {0}
    /\ \A t \in 0..MaxUptime : SignatureValid(t) \in BOOLEAN

VARIABLES packages, package_count, processes, process_count, next_pid,
          binary_storage_used, uptime_seconds, load_result,
          installed_apps,  \* its first installed_app_count entries
          reported         \* history: names and types of the installs reported successful

H == INSTANCE Hlpkg WITH FirstPid <- FirstPackagePid, MaxPid <- MaxPackagePid

pkgvars == <<packages, package_count, processes, process_count, next_pid,
             binary_storage_used, uptime_seconds, load_result>>
appvars == <<installed_apps, reported>>

Init == /\ init_port_system
        /\ H!init_hlpkg_system
        /\ installed_apps = <<>>
        /\ reported = {}

Listed(apps) == {apps[k].name : k \in DOMAIN apps}
-----------------------------------------------------------------------------
\* Mutant: the limit is one too low.
RoomOneLess == Len(installed_apps) + 1 < MaxApps

RoomForApp == Len(installed_apps) < MaxApps

NotListed(name) == name \notin Listed(installed_apps)

\* The name and the byte that ends it fit the entry's name.
Fits(name) == Len(name) < NameSize

\* The name a reader of the entry finds.  One that is too long is copied over the bytes
\* of the type, and the type is written after it: its first byte takes the place of
\* what was there of the name, and the other three, which are zero, end the name.
Stored(name, app_type) ==
    IF Fits(name) THEN name ELSE Append(SubSeq(name, 1, NameSize), app_type)

\* Without room, or with the name in the list, nothing happens, and nobody is told.
add_installed_app(name, app_type) ==
    installed_apps' =
        IF RoomForApp /\ NotListed(name)
        THEN Append(installed_apps, [name |-> Stored(name, app_type), type |-> app_type,
                                     active |-> FALSE])
        ELSE installed_apps

\* hlpkg install <file>.hlpkg; the file's name plays no part.
cmd_hlpkg_install ==
    /\ H!hlpkg_load
    /\ \/ /\ load_result' \in H!Slots
          /\ LET name == <<packages'[load_result'].name>>
             IN  /\ add_installed_app(name, "hlpkg")
                 /\ reported' = reported \cup {<<name, "hlpkg">>}
       \/ /\ load_result' \notin H!Slots
          /\ UNCHANGED appvars
    /\ UNCHANGED vars

\* hlpkg run <name>: the first loaded package of that name.
cmd_hlpkg_run ==
    /\ \E id \in H!Loaded : H!IsFirst(id, H!Loaded) /\ H!hlpkg_execute(id)
    /\ UNCHANGED <<vars, appvars>>

\* ports install <name>.AppImage
cmd_ports_install(name) ==
    /\ port_load_elf
    /\ add_installed_app(name, "port")
    /\ reported' = reported \cup {<<name, "port">>}
    /\ UNCHANGED pkgvars

\* A click on the program's entry of the app menu.
InstalledMenuItem(k) ==
    /\ k \in DOMAIN installed_apps
    /\ installed_apps' = [installed_apps EXCEPT ![k].active = ~@]
    /\ UNCHANGED <<vars, pkgvars, reported>>

PackageCalls ==
    /\ \/ \E id \in H!Slots : H!hlpkg_unload(id)
       \/ \E slot \in H!Slots :
             H!hlpkg_kill(slot) \/ H!hlpkg_suspend(slot) \/ H!hlpkg_resume(slot)
       \/ H!tick
    /\ UNCHANGED <<vars, appvars>>

PortCalls ==
    /\ \/ \E slot \in Slots :
             \/ port_kill(slot) \/ port_suspend(slot) \/ port_resume(slot)
             \/ \E m \in Mappings : port_add_path_mapping(slot, m)
       \/ \E m \in Mappings : port_add_library_mapping(m)
    /\ UNCHANGED <<pkgvars, appvars>>

InstallerNext ==
    \/ cmd_hlpkg_install \/ cmd_hlpkg_run
    \/ \E name \in Names : cmd_ports_install(name)
    \/ \E k \in 1..MaxApps : InstalledMenuItem(k)
    \/ PackageCalls \/ PortCalls

InstallerSpec == Init /\ [][InstallerNext]_<<vars, pkgvars, appvars>>
-----------------------------------------------------------------------------
(***************************************************************************)
(* Properties.                                                             *)
(***************************************************************************)
\* Every program whose install was reported successful is in the app menu, whichever
\* command installed it, under its own name if that fits and under what is left of it
\* if not - unless the list is full, when add_installed_app drops it without a word.
\* No name that fits is there twice.  A longer one is never there as it is, so the test
\* for a name that is there does not find it, and each install enters it again.
InstalledIsListed ==
    /\ \A j, k \in DOMAIN installed_apps :
          installed_apps[j].name = installed_apps[k].name =>
             j = k \/ ~Fits(installed_apps[j].name)
    /\ (\E r \in reported : Stored(r[1], r[2]) \notin Listed(installed_apps))
          => Len(installed_apps) >= MaxApps
    /\ \A r \in reported : ~Fits(r[1]) => r[1] \notin Listed(installed_apps)

\* Until the package manager's pids reach those of the Linux layer, no pid that ps
\* shows names a process of each.
PsNamesOneProcess ==
    next_pid <= FirstPid =>
        \A i \in Live, j \in H!Live : ported_processes[i].pid # processes[j].pid

\* The menu grows upwards, so its first entry is the first to leave the screen: the
\* terminal can be opened until the list of programs is full, and not after that.
TerminalReachable ==
    Reachable(TerminalEntry, Len(installed_apps)) <=> Len(installed_apps) < MaxApps
=============================================================================
