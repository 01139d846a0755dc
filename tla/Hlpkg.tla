-------------------------------- MODULE Hlpkg --------------------------------
(***************************************************************************)
(* The package manager (hlpkg/hlpkg.cpp): a table of packages that is      *)
(* handed out upwards and never compacted, a table of processes whose      *)
(* slots are reused, and a pool of binary buffers that packages own and    *)
(* the processes running them point into.                                  *)
(*                                                                         *)
(* hlpkg_load accepts a header only when its signature test passes, and    *)
(* that depends on the uptime alone: SignatureValid(t) says whether it does *)
(* at uptime t.                                                            *)
(***************************************************************************)
EXTENDS Integers, FiniteSets

CONSTANTS MaxPackages,  \* MAX_PACKAGES, the length of all three tables
          FirstPid,     \* 1000
          SignatureValid(_),  \* whether verify_signature succeeds at an uptime
          MaxUptime,    \* bound on uptime_seconds
          MaxPid        \* bound on next_pid

ASSUME HlpkgAssumption == /\ MaxPackages \in Nat \ {0}
                          /\ FirstPid \in Nat \ {0}
                          /\ \A t \in 0..MaxUptime : SignatureValid(t) \in BOOLEAN

VARIABLES packages, package_count, processes, process_count, next_pid,
          binary_storage_used, uptime_seconds,
          load_result   \* what the last hlpkg_load returned, if any

pkgvars == <<packages, package_count, binary_storage_used, load_result>>
procvars == <<processes, process_count, next_pid>>
vars == <<pkgvars, procvars, uptime_seconds>>

Slots == 0..(MaxPackages - 1)
None == -1
NotCalled == -2
PackageName == "sample_app"   \* the only name hlpkg_load gives
Status == {"PKG_NOT_LOADED", "PKG_RUNNING", "PKG_SUSPENDED"}

Package == [name : {PackageName}, loaded : BOOLEAN, binary_data : Slots \cup {None}]
Process == [pid : Nat, name : {PackageName}, status : Status,
            binary_data : Slots \cup {None}, start_time : Nat, cpu_time : Nat,
            in_use : BOOLEAN]

ZeroPackage == [name |-> PackageName, loaded |-> FALSE, binary_data |-> None]
ZeroProcess == [pid |-> 0, name |-> PackageName, status |-> "PKG_NOT_LOADED",
                binary_data |-> None, start_time |-> 0, cpu_time |-> 0,
                in_use |-> FALSE]

init_hlpkg_system ==
    /\ packages = [i \in Slots |-> ZeroPackage] /\ package_count = 0
    /\ processes = [i \in Slots |-> ZeroProcess] /\ process_count = 0
    /\ next_pid = FirstPid
    /\ binary_storage_used = [i \in Slots |-> FALSE]
    /\ uptime_seconds = 0
    /\ load_result = NotCalled

IsFirst(i, S) == i \in S /\ \A j \in S : i <= j

FreeStorage == {i \in Slots : ~binary_storage_used[i]}
FreeProcess == {i \in Slots : ~processes[i].in_use}

\* The slots the loops over processes look at, and the ones in use.
Live == {i \in Slots : i < process_count /\ processes[i].in_use}
Loaded == {k \in Slots : k < package_count /\ packages[k].loaded}
-----------------------------------------------------------------------------
\* Mutant: the buffer is not marked as taken.
BufferNotTaken(storage) == UNCHANGED binary_storage_used

TakeBuffer(storage) ==
    binary_storage_used' = [binary_storage_used EXCEPT ![storage] = TRUE]

CanLoad == /\ package_count < MaxPackages
           /\ FreeStorage # {}
           /\ SignatureValid(uptime_seconds)

NextPackage == package_count

hlpkg_load ==
    /\ \/ /\ CanLoad
          /\ \E storage \in FreeStorage :
                /\ IsFirst(storage, FreeStorage)
                /\ TakeBuffer(storage)
                /\ packages' = [packages EXCEPT ![NextPackage] =
                      [name |-> PackageName, loaded |-> TRUE, binary_data |-> storage]]
          /\ package_count' = package_count + 1
          /\ load_result' = package_count
       \/ /\ ~CanLoad
          /\ load_result' = None
          /\ UNCHANGED <<packages, package_count, binary_storage_used>>
    /\ UNCHANGED <<procvars, uptime_seconds>>

CountRaised(slot) == IF slot >= process_count THEN slot + 1 ELSE process_count

Runnable(id) == id < package_count /\ packages[id].loaded

\* Mutant: the pid is taken from the slot.
PidOfSlot(slot) == FirstPid + slot

PidOf(slot) == next_pid

NextPid == next_pid + 1

CpuTimeAtStart(slot) == 0

hlpkg_execute(id) ==
    /\ Runnable(id)
    /\ next_pid < MaxPid
    /\ \E slot \in FreeProcess :
          /\ IsFirst(slot, FreeProcess)
          /\ processes' = [processes EXCEPT ![slot] =
                [pid |-> PidOf(slot), name |-> packages[id].name, status |-> "PKG_RUNNING",
                 binary_data |-> packages[id].binary_data,
                 start_time |-> uptime_seconds, cpu_time |-> CpuTimeAtStart(slot),
                 in_use |-> TRUE]]
          /\ process_count' = CountRaised(slot)
    /\ next_pid' = NextPid
    /\ UNCHANGED <<pkgvars, uptime_seconds>>

SetStatus(slot, status) ==
    processes' = [processes EXCEPT ![slot].status = status]

hlpkg_kill(slot) ==
    /\ slot \in Live
    /\ processes' = [processes EXCEPT ![slot].status = "PKG_NOT_LOADED",
                                      ![slot].in_use = FALSE]
    /\ UNCHANGED <<pkgvars, process_count, next_pid, uptime_seconds>>

hlpkg_suspend(slot) ==
    /\ slot \in Live /\ processes[slot].status = "PKG_RUNNING"
    /\ SetStatus(slot, "PKG_SUSPENDED")
    /\ UNCHANGED <<pkgvars, process_count, next_pid, uptime_seconds>>

hlpkg_resume(slot) ==
    /\ slot \in Live /\ processes[slot].status = "PKG_SUSPENDED"
    /\ SetStatus(slot, "PKG_RUNNING")
    /\ UNCHANGED <<pkgvars, process_count, next_pid, uptime_seconds>>

\* Mutant: the processes of the package are left running.
NoneKilled(name) == {}

KilledWith(name) == {i \in Live : processes[i].name = name}

\* Every process with the package's name is dropped, its status left alone, and
\* the package's buffer goes back to the pool.
hlpkg_unload(id) ==
    /\ id \in Loaded
    /\ processes' = [i \in Slots |->
            [processes[i] EXCEPT !.in_use = @ /\ i \notin KilledWith(packages[id].name)]]
    /\ binary_storage_used' =
          [binary_storage_used EXCEPT ![packages[id].binary_data] = FALSE]
    /\ packages' = [packages EXCEPT ![id].loaded = FALSE, ![id].binary_data = None]
    /\ UNCHANGED <<package_count, load_result, process_count, next_pid, uptime_seconds>>

Running == {i \in Live : processes[i].status = "PKG_RUNNING"}

\* One second of the kernel's main loop: the clock, then hlpkg_tick.
tick ==
    /\ uptime_seconds < MaxUptime
    /\ uptime_seconds' = uptime_seconds + 1
    /\ processes' = [i \in Slots |->
            [processes[i] EXCEPT !.cpu_time = IF i \in Running THEN @ + 1 ELSE @]]
    /\ UNCHANGED <<pkgvars, process_count, next_pid>>

Next == \/ hlpkg_load
        \/ \E id \in Slots : hlpkg_execute(id) \/ hlpkg_unload(id)
        \/ \E slot \in Slots :
              hlpkg_kill(slot) \/ hlpkg_suspend(slot) \/ hlpkg_resume(slot)
        \/ tick

Spec == init_hlpkg_system /\ [][Next]_vars
-----------------------------------------------------------------------------
(***************************************************************************)
(* Properties.                                                             *)
(***************************************************************************)
\* Every variable has its type.
TypeOK == /\ packages \in [Slots -> Package]
          /\ package_count \in 0..MaxPackages
          /\ processes \in [Slots -> Process]
          /\ process_count \in 0..MaxPackages
          /\ next_pid \in Nat
          /\ binary_storage_used \in [Slots -> BOOLEAN]
          /\ uptime_seconds \in Nat
          /\ load_result \in Slots \cup {None, NotCalled}

\* No slot is in use above the high-water mark, so the loops that kill, suspend,
\* list or charge processes miss none.
NoneAboveMark == \A i \in Slots : processes[i].in_use => i < process_count

\* A pid names one process: the first match of the loops is the only one.  The
\* next pid is above all those any slot ever held.
PidsUnique ==
    /\ \A i, j \in Live : processes[i].pid = processes[j].pid => i = j
    /\ \A i \in Slots : processes[i].pid < next_pid

\* A pid that ps printed never comes to name a later process, not even the next
\* one of the same slot.
PidNeverReused ==
    [][\A i \in Slots : processes'[i].in_use /\ ~processes[i].in_use =>
          \A j \in Slots : processes'[i].pid # processes[j].pid]_vars

\* Each buffer marked as taken belongs to exactly one loaded package and each
\* loaded package owns one.
BuffersOwned ==
    /\ \A k \in Loaded : /\ packages[k].binary_data \in Slots
                         /\ binary_storage_used[packages[k].binary_data]
    /\ \A k, m \in Loaded : packages[k].binary_data = packages[m].binary_data => k = m
    /\ \A s \in Slots : binary_storage_used[s] =>
          \E k \in Loaded : packages[k].binary_data = s

\* No live process points into a buffer that was given back: unloading a package
\* ends every process that runs from its buffer, although processes keep no link
\* to their package and are found by name.
NoDanglingBinary ==
    \A i \in Live : \E k \in Loaded :
        packages[k].binary_data = processes[i].binary_data

\* A process is charged at most the time since it was started.
CpuTimeBounded ==
    \A i \in Live : processes[i].start_time + processes[i].cpu_time <= uptime_seconds

\* "hlpkg install <file.hlpkg>  Install a package" (system/commands.cpp:654): an
\* install is refused only for want of a slot or a buffer.  It is always refused:
\* at no uptime does the signature test accept the header hlpkg_load makes up.
InstallWorks ==
    [][hlpkg_load /\ package_count < MaxPackages /\ FreeStorage # {}
         => load_result' = package_count]_vars

\* A package slot is used once: what was unloaded is never loaded again into its
\* slot, so MAX_PACKAGES installs use the table up for good.
PackageSlotsUsedOnce ==
    [][/\ package_count' >= package_count
       /\ \A k \in 0..(package_count - 1) :
             packages'[k].loaded => packages'[k] = packages[k]]_vars
=============================================================================
