----------------------------- MODULE HlpkgProofs -----------------------------
(***************************************************************************)
(* Proofs about Hlpkg, for every length of the tables, every first pid and *)
(* every set of uptimes at which the signature test passes.                *)
(***************************************************************************)
EXTENDS Hlpkg, TLAPS

\* The inductive invariant: the properties of the runs, together.
IInv == /\ TypeOK
        /\ NoneAboveMark
        /\ PidsUnique
        /\ BuffersOwned
        /\ NoDanglingBinary
        /\ CpuTimeBounded

\* What hlpkg_load and hlpkg_unload change and the other calls leave alone.
Tables == <<packages, package_count, binary_storage_used>>
-----------------------------------------------------------------------------
(***************************************************************************)
(* Type correctness.                                                       *)
(***************************************************************************)
\* The tables as init_hlpkg_system leaves them have their types.
LEMMA TypeInit == init_hlpkg_system => TypeOK
BY HlpkgAssumption DEF init_hlpkg_system, TypeOK, Package, Process, ZeroPackage,
   ZeroProcess, Slots, None, NotCalled, Status

\* A process with a field replaced is a process, and the other fields stay.
LEMMA ProcessFields ==
    ASSUME NEW p \in Process
    PROVE  /\ \A s \in Status : [p EXCEPT !.status = s] \in Process
           /\ \A b \in BOOLEAN : [p EXCEPT !.in_use = b] \in Process
           /\ \A s \in Status, b \in BOOLEAN :
                 [p EXCEPT !.status = s, !.in_use = b] \in Process
           /\ \A c \in Nat : [p EXCEPT !.cpu_time = c] \in Process
<1>1. \A s \in Status : [p EXCEPT !.status = s] \in Process
  BY DEF Process
<1>2. \A b \in BOOLEAN : [p EXCEPT !.in_use = b] \in Process
  BY DEF Process
<1>3. \A s \in Status, b \in BOOLEAN : [p EXCEPT !.status = s, !.in_use = b] \in Process
  BY DEF Process
<1>4. \A c \in Nat : [p EXCEPT !.cpu_time = c] \in Process
  BY DEF Process
<1> QED BY <1>1, <1>2, <1>3, <1>4

\* An unloaded package is a package.
LEMMA PackageFields ==
    ASSUME NEW p \in Package
    PROVE  [p EXCEPT !.loaded = FALSE, !.binary_data = None] \in Package
BY DEF Package

\* Every call and every tick keeps the types; the limits of hlpkg_load and
\* hlpkg_execute are what keeps the counts within the tables.
LEMMA TypeNext == TypeOK /\ [Next]_vars => TypeOK'
<1> SUFFICES ASSUME TypeOK, [Next]_vars PROVE TypeOK'
    OBVIOUS
<1> USE HlpkgAssumption DEF TypeOK, Slots
<1>1. CASE hlpkg_load
  <2>1. CASE CanLoad
    <3>1. /\ package_count \in Slots
          /\ package_count' = package_count + 1
          /\ load_result' = package_count
      BY <1>1, <2>1 DEF hlpkg_load, CanLoad
    <3>2. PICK storage \in Slots :
             /\ binary_storage_used' = [binary_storage_used EXCEPT ![storage] = TRUE]
             /\ packages' = [packages EXCEPT ![package_count] =
                   [name |-> PackageName, loaded |-> TRUE, binary_data |-> storage]]
      BY <1>1, <2>1 DEF hlpkg_load, FreeStorage, TakeBuffer, NextPackage
    <3>3. packages' \in [Slots -> Package]
      BY <3>1, <3>2 DEF Package
    <3> QED BY <1>1, <3>1, <3>2, <3>3 DEF hlpkg_load, procvars
  <2>2. CASE ~CanLoad
    BY <1>1, <2>2 DEF hlpkg_load, None, NotCalled, procvars
  <2> QED BY <2>1, <2>2
<1>2. ASSUME NEW id \in Slots, hlpkg_execute(id) PROVE TypeOK'
  BY <1>2, SMTT(30) DEF hlpkg_execute, Runnable, FreeProcess, PidOf, NextPid, CountRaised,
     CpuTimeAtStart, pkgvars, Process, Package, Status
<1>3. ASSUME NEW id \in Slots, hlpkg_unload(id) PROVE TypeOK'
  <2>1. \A i \in Slots : processes'[i] = [processes[i] EXCEPT
            !.in_use = @ /\ i \notin KilledWith(packages[id].name)]
    BY <1>3 DEF hlpkg_unload
  <2>2. \A i \in Slots : processes'[i] \in Process
    <3> TAKE i \in Slots
    <3> DEFINE new == processes[i].in_use /\ i \notin KilledWith(packages[id].name)
    <3>1. processes[i] \in Process
      OBVIOUS
    <3>2. new \in BOOLEAN
      BY <3>1 DEF Process
    <3>3. processes'[i] = [processes[i] EXCEPT !.in_use = new]
      BY <2>1
    <3> HIDE DEF new
    <3> QED BY <3>1, <3>2, <3>3, ProcessFields
  <2>3. processes' \in [Slots -> Process]
    BY <1>3, <2>2, Zenon DEF hlpkg_unload
  <2>4. [packages[id] EXCEPT !.loaded = FALSE, !.binary_data = None] \in Package
    <3>1. packages[id] \in Package
      OBVIOUS
    <3> QED BY <3>1, PackageFields
  <2>5. packages' = [packages EXCEPT ![id] =
                       [packages[id] EXCEPT !.loaded = FALSE, !.binary_data = None]]
    BY <1>3, Zenon DEF hlpkg_unload
  <2>6. packages' \in [Slots -> Package]
    BY <2>4, <2>5
  <2> QED BY <1>3, <2>3, <2>6 DEF hlpkg_unload
<1>4. ASSUME NEW slot \in Slots, hlpkg_kill(slot) PROVE TypeOK'
  <2>1. [processes[slot] EXCEPT !.status = "PKG_NOT_LOADED", !.in_use = FALSE] \in Process
    <3>1. processes[slot] \in Process
      OBVIOUS
    <3> QED BY <3>1, ProcessFields DEF Status
  <2>2. processes' = [processes EXCEPT ![slot] =
          [processes[slot] EXCEPT !.status = "PKG_NOT_LOADED", !.in_use = FALSE]]
    BY <1>4, Zenon DEF hlpkg_kill
  <2> QED BY <1>4, <2>1, <2>2 DEF hlpkg_kill, pkgvars
<1>5. ASSUME NEW slot \in Slots, NEW status \in Status, SetStatus(slot, status)
      PROVE  processes' \in [Slots -> Process]
  <2>1. [processes[slot] EXCEPT !.status = status] \in Process
    <3>1. processes[slot] \in Process
      OBVIOUS
    <3> QED BY <3>1, ProcessFields
  <2>2. processes' = [processes EXCEPT ![slot] = [processes[slot] EXCEPT !.status = status]]
    BY <1>5, Zenon DEF SetStatus
  <2> QED BY <2>1, <2>2
<1>6. ASSUME NEW slot \in Slots, hlpkg_suspend(slot) \/ hlpkg_resume(slot) PROVE TypeOK'
  BY <1>5, <1>6 DEF hlpkg_suspend, hlpkg_resume, pkgvars, Status
<1>7. CASE tick
  <2>1. \A i \in Slots : processes'[i] = [processes[i] EXCEPT
            !.cpu_time = IF i \in Running THEN @ + 1 ELSE @]
    BY <1>7 DEF tick
  <2>2. \A i \in Slots : processes'[i] \in Process
    <3> TAKE i \in Slots
    <3> DEFINE new == IF i \in Running THEN processes[i].cpu_time + 1 ELSE processes[i].cpu_time
    <3>1. processes[i] \in Process
      OBVIOUS
    <3>2. new \in Nat
      BY <3>1 DEF Process
    <3>3. processes'[i] = [processes[i] EXCEPT !.cpu_time = new]
      BY <2>1
    <3> HIDE DEF new
    <3> QED BY <3>1, <3>2, <3>3, ProcessFields
  <2>3. processes' \in [Slots -> Process]
    BY <1>7, <2>2, Zenon DEF tick
  <2> QED BY <1>7, <2>3 DEF tick, pkgvars
<1>8. CASE UNCHANGED vars
  BY <1>8 DEF vars, pkgvars, procvars
<1> QED BY <1>1, <1>2, <1>3, <1>4, <1>6, <1>7, <1>8 DEF Next
-----------------------------------------------------------------------------
(***************************************************************************)
(* Steps that start no process.                                            *)
(***************************************************************************)
\* What every process keeps, and what no process gains, in a step other than
\* hlpkg_execute.
ProcessesKept ==
    /\ process_count' = process_count
    /\ next_pid' = next_pid
    /\ \A i \in Slots :
          /\ processes'[i].pid = processes[i].pid
          /\ processes'[i].binary_data = processes[i].binary_data
          /\ processes'[i].start_time = processes[i].start_time
          /\ processes'[i].in_use => processes[i].in_use
          /\ processes'[i].cpu_time + uptime_seconds
                <= processes[i].cpu_time + uptime_seconds'

\* Replacing the other fields of one process keeps these.
LEMMA StatusKeeps ==
    ASSUME NEW p \in Process
    PROVE  /\ \A s \in Status : LET q == [p EXCEPT !.status = s] IN
                 /\ q.pid = p.pid /\ q.binary_data = p.binary_data
                 /\ q.start_time = p.start_time /\ q.cpu_time = p.cpu_time
                 /\ q.in_use = p.in_use
           /\ \A b \in BOOLEAN : LET q == [p EXCEPT !.in_use = b] IN
                 /\ q.pid = p.pid /\ q.binary_data = p.binary_data
                 /\ q.start_time = p.start_time /\ q.cpu_time = p.cpu_time
                 /\ q.in_use = b
           /\ \A s \in Status, b \in BOOLEAN :
                 LET q == [p EXCEPT !.status = s, !.in_use = b] IN
                 /\ q.pid = p.pid /\ q.binary_data = p.binary_data
                 /\ q.start_time = p.start_time /\ q.cpu_time = p.cpu_time
                 /\ q.in_use = b
           /\ \A c \in Nat : LET q == [p EXCEPT !.cpu_time = c] IN
                 /\ q.pid = p.pid /\ q.binary_data = p.binary_data
                 /\ q.start_time = p.start_time /\ q.cpu_time = c
                 /\ q.in_use = p.in_use
BY DEF Process

\* Killing ends a process and charges none.
LEMMA KillKeeps ==
    ASSUME TypeOK, NEW slot \in Slots, hlpkg_kill(slot)
    PROVE  ProcessesKept
<1>1. processes[slot] \in Process /\ processes \in [Slots -> Process]
  BY DEF TypeOK
<1>2. processes' = [processes EXCEPT ![slot] =
        [processes[slot] EXCEPT !.status = "PKG_NOT_LOADED", !.in_use = FALSE]]
  BY Zenon DEF hlpkg_kill
<1>3. \A i \in Slots : i # slot => processes'[i] = processes[i]
  BY <1>1, <1>2
<1>4. processes'[slot] =
        [processes[slot] EXCEPT !.status = "PKG_NOT_LOADED", !.in_use = FALSE]
  BY <1>1, <1>2
<1>5. "PKG_NOT_LOADED" \in Status
  BY DEF Status
<1>6. \A i \in Slots : processes[i].cpu_time \in Nat /\ uptime_seconds \in Nat
  BY DEF TypeOK, Process
<1> QED BY <1>1, <1>3, <1>4, <1>5, <1>6, StatusKeeps DEF ProcessesKept, hlpkg_kill

\* Suspending and resuming change a status and nothing else.
LEMMA StatusChangeKeeps ==
    ASSUME TypeOK, NEW slot \in Slots, hlpkg_suspend(slot) \/ hlpkg_resume(slot)
    PROVE  ProcessesKept
<1>1. processes[slot] \in Process /\ processes \in [Slots -> Process]
  BY DEF TypeOK
<1>2. PICK status \in Status : SetStatus(slot, status)
  BY DEF hlpkg_suspend, hlpkg_resume, Status
<1>3. processes' = [processes EXCEPT ![slot] = [processes[slot] EXCEPT !.status = status]]
  BY <1>2, Zenon DEF SetStatus
<1>4. \A i \in Slots : i # slot => processes'[i] = processes[i]
  BY <1>1, <1>3
<1>5. processes'[slot] = [processes[slot] EXCEPT !.status = status]
  BY <1>1, <1>3
<1>6. \A i \in Slots : processes[i].cpu_time \in Nat /\ uptime_seconds \in Nat
  BY DEF TypeOK, Process
<1>7. /\ processes'[slot].pid = processes[slot].pid
      /\ processes'[slot].binary_data = processes[slot].binary_data
      /\ processes'[slot].start_time = processes[slot].start_time
      /\ processes'[slot].cpu_time = processes[slot].cpu_time
      /\ processes'[slot].in_use = processes[slot].in_use
  BY <1>1, <1>2, <1>5, StatusKeeps
<1>8. UNCHANGED <<process_count, next_pid, uptime_seconds>>
  BY DEF hlpkg_suspend, hlpkg_resume
<1> QED BY <1>4, <1>6, <1>7, <1>8 DEF ProcessesKept

\* Unloading ends the processes that carry the package's name and no others.
LEMMA UnloadKeeps ==
    ASSUME TypeOK, NEW id \in Slots, hlpkg_unload(id)
    PROVE  /\ ProcessesKept
           /\ \A i \in Slots : processes'[i].in_use => i \notin KilledWith(packages[id].name)
<1> DEFINE stays(i) == processes[i].in_use /\ i \notin KilledWith(packages[id].name)
<1>1. \A i \in Slots : processes'[i] = [processes[i] EXCEPT !.in_use = stays(i)]
  BY DEF hlpkg_unload
<1>2. \A i \in Slots : processes[i] \in Process
  BY DEF TypeOK
<1>3. \A i \in Slots : stays(i) \in BOOLEAN
  BY <1>2 DEF Process
<1>4. \A i \in Slots : processes[i].cpu_time \in Nat /\ uptime_seconds \in Nat
  BY DEF TypeOK, Process
<1>5. \A i \in Slots : stays(i) => processes[i].in_use /\ i \notin KilledWith(packages[id].name)
  OBVIOUS
<1> HIDE DEF stays
<1>6. \A i \in Slots :
         /\ processes'[i].pid = processes[i].pid
         /\ processes'[i].binary_data = processes[i].binary_data
         /\ processes'[i].start_time = processes[i].start_time
         /\ processes'[i].cpu_time = processes[i].cpu_time
         /\ processes'[i].in_use = stays(i)
  <2> SUFFICES ASSUME NEW i \in Slots
      PROVE  /\ processes'[i].pid = processes[i].pid
             /\ processes'[i].binary_data = processes[i].binary_data
             /\ processes'[i].start_time = processes[i].start_time
             /\ processes'[i].cpu_time = processes[i].cpu_time
             /\ processes'[i].in_use = stays(i)
      OBVIOUS
  <2>1. /\ processes[i] \in Process
        /\ stays(i) \in BOOLEAN
        /\ processes'[i] = [processes[i] EXCEPT !.in_use = stays(i)]
    BY <1>1, <1>2, <1>3
  <2> QED BY <2>1, StatusKeeps
<1>7. UNCHANGED <<process_count, next_pid, uptime_seconds>>
  BY DEF hlpkg_unload
<1>8. ProcessesKept
  BY <1>4, <1>5, <1>6, <1>7 DEF ProcessesKept
<1> QED BY <1>5, <1>6, <1>8

\* A second charges each running process one second.
LEMMA TickKeeps ==
    ASSUME TypeOK, tick
    PROVE  ProcessesKept
<1> DEFINE time(i) == IF i \in Running THEN processes[i].cpu_time + 1 ELSE processes[i].cpu_time
<1>1. \A i \in Slots : processes'[i] = [processes[i] EXCEPT !.cpu_time = time(i)]
  BY DEF tick
<1>2. \A i \in Slots : processes[i] \in Process
  BY DEF TypeOK
<1>3. \A i \in Slots : processes[i].cpu_time \in Nat /\ uptime_seconds \in Nat
  BY DEF TypeOK, Process
<1>4. \A i \in Slots : time(i) \in Nat /\ time(i) <= processes[i].cpu_time + 1
  BY <1>3
<1> HIDE DEF time
<1>5. \A i \in Slots :
         /\ processes'[i].pid = processes[i].pid
         /\ processes'[i].binary_data = processes[i].binary_data
         /\ processes'[i].start_time = processes[i].start_time
         /\ processes'[i].cpu_time = time(i)
         /\ processes'[i].in_use = processes[i].in_use
  <2> SUFFICES ASSUME NEW i \in Slots
      PROVE  /\ processes'[i].pid = processes[i].pid
             /\ processes'[i].binary_data = processes[i].binary_data
             /\ processes'[i].start_time = processes[i].start_time
             /\ processes'[i].cpu_time = time(i)
             /\ processes'[i].in_use = processes[i].in_use
      OBVIOUS
  <2>1. /\ processes[i] \in Process
        /\ time(i) \in Nat
        /\ processes'[i] = [processes[i] EXCEPT !.cpu_time = time(i)]
    BY <1>1, <1>2, <1>4
  <2> QED BY <2>1, StatusKeeps
<1>6. UNCHANGED <<process_count, next_pid>> /\ uptime_seconds' = uptime_seconds + 1
  BY DEF tick
<1> QED BY <1>3, <1>4, <1>5, <1>6 DEF ProcessesKept

\* In every step, processes only end or are charged, or one is started.
LEMMA StepKeeps ==
    ASSUME TypeOK, [Next]_vars
    PROVE  ProcessesKept \/ \E id \in Slots : hlpkg_execute(id)
<1>1. \A i \in Slots : processes[i].cpu_time \in Nat /\ uptime_seconds \in Nat
  BY DEF TypeOK, Process
<1>2. CASE UNCHANGED <<procvars, uptime_seconds>>
  BY <1>1, <1>2 DEF procvars, ProcessesKept
<1>3. hlpkg_load \/ UNCHANGED vars => UNCHANGED <<procvars, uptime_seconds>>
  BY DEF hlpkg_load, vars
<1> QED BY <1>2, <1>3, KillKeeps, StatusChangeKeeps, UnloadKeeps, TickKeeps DEF Next
-----------------------------------------------------------------------------
(***************************************************************************)
(* The step that starts one.                                               *)
(***************************************************************************)
\* What hlpkg_execute writes: a free slot gets the next pid, the package's
\* buffer and no cpu time, and the high-water mark covers it.
LEMMA ExecuteFacts ==
    ASSUME TypeOK, NEW id \in Slots, hlpkg_execute(id)
    PROVE  /\ id \in Loaded
           /\ UNCHANGED <<packages, package_count, binary_storage_used, uptime_seconds>>
           /\ next_pid' = next_pid + 1
           /\ \E slot \in Slots :
                 /\ ~processes[slot].in_use
                 /\ processes'[slot].pid = next_pid
                 /\ processes'[slot].binary_data = packages[id].binary_data
                 /\ processes'[slot].start_time = uptime_seconds
                 /\ processes'[slot].cpu_time = 0
                 /\ processes'[slot].in_use = TRUE
                 /\ slot < process_count' /\ process_count <= process_count'
                 /\ \A i \in Slots : i < process_count' => i < process_count \/ i <= slot
                 /\ \A i \in Slots : i # slot => processes'[i] = processes[i]
<1>1. PICK slot \in FreeProcess :
         /\ processes' = [processes EXCEPT ![slot] =
               [pid |-> next_pid, name |-> packages[id].name, status |-> "PKG_RUNNING",
                binary_data |-> packages[id].binary_data,
                start_time |-> uptime_seconds, cpu_time |-> 0, in_use |-> TRUE]]
         /\ process_count' = CountRaised(slot)
  BY DEF hlpkg_execute, PidOf, CpuTimeAtStart
<1>2. slot \in Slots /\ ~processes[slot].in_use /\ processes \in [Slots -> Process]
  BY DEF FreeProcess, TypeOK
<1>3. /\ slot < process_count' /\ process_count <= process_count'
      /\ \A i \in Slots : i < process_count' => i < process_count \/ i <= slot
  BY <1>1, <1>2, HlpkgAssumption DEF CountRaised, TypeOK, Slots
<1>4. id \in Loaded /\ next_pid' = next_pid + 1
  BY DEF hlpkg_execute, Runnable, Loaded, NextPid
<1>5. UNCHANGED <<packages, package_count, binary_storage_used, uptime_seconds>>
  BY DEF hlpkg_execute, pkgvars
<1> QED BY <1>1, <1>2, <1>3, <1>4, <1>5
-----------------------------------------------------------------------------
(***************************************************************************)
(* The parts of the invariant, one by one.                                 *)
(***************************************************************************)
\* The high-water mark stays above every process in use.
LEMMA NoneAboveMarkNext == IInv /\ [Next]_vars => NoneAboveMark'
<1> SUFFICES ASSUME IInv, [Next]_vars PROVE NoneAboveMark'
    OBVIOUS
<1>1. CASE ProcessesKept
  BY <1>1 DEF ProcessesKept, IInv, NoneAboveMark
<1>2. ASSUME NEW id \in Slots, hlpkg_execute(id) PROVE NoneAboveMark'
  <2>1. \A i \in Slots : i \in Int
    BY HlpkgAssumption DEF Slots
  <2>2. process_count \in Int /\ process_count' \in Int
    BY TypeNext DEF IInv, TypeOK
  <2>3. PICK slot \in Slots :
           /\ slot < process_count' /\ process_count <= process_count'
           /\ \A i \in Slots : i # slot => processes'[i] = processes[i]
    BY <1>2, ExecuteFacts DEF IInv
  <2> QED BY <2>1, <2>2, <2>3 DEF IInv, NoneAboveMark
<1> QED BY <1>1, <1>2, StepKeeps DEF IInv

\* A new process gets a pid above all others, and no pid ever changes.
LEMMA PidsUniqueNext == IInv /\ [Next]_vars => PidsUnique'
<1> SUFFICES ASSUME IInv, [Next]_vars PROVE PidsUnique'
    OBVIOUS
<1>1. \A i \in Slots : processes[i].pid \in Nat /\ next_pid \in Nat
  BY DEF IInv, TypeOK, Process
<1>2. CASE ProcessesKept
  BY <1>2 DEF ProcessesKept, IInv, PidsUnique, Live
<1>3. ASSUME NEW id \in Slots, hlpkg_execute(id) PROVE PidsUnique'
  <2>1. PICK slot \in Slots :
           /\ processes'[slot].pid = next_pid
           /\ \A i \in Slots : i # slot => processes'[i] = processes[i]
    BY <1>3, ExecuteFacts DEF IInv
  <2>2. \A i \in Slots : processes'[i].pid < next_pid + 1
    BY <1>1, <2>1 DEF IInv, PidsUnique
  <2>3. \A i \in Slots : i # slot => processes'[i].pid < next_pid
    BY <2>1 DEF IInv, PidsUnique
  <2>4. \A i \in Live' : i # slot => i \in Live
    BY <2>1 DEF IInv, NoneAboveMark, Live
  <2>5. \A i, j \in Live' : processes'[i].pid = processes'[j].pid => i = j
    <3> SUFFICES ASSUME NEW i \in Live', NEW j \in Live', i # j
                 PROVE  processes'[i].pid # processes'[j].pid
        OBVIOUS
    <3>1. i \in Slots /\ j \in Slots
      BY DEF Live
    <3>2. CASE i = slot \/ j = slot
      BY <1>1, <2>1, <2>3, <3>1, <3>2
    <3>3. CASE i # slot /\ j # slot
      BY <2>1, <2>4, <3>1, <3>3 DEF IInv, PidsUnique
    <3> QED BY <3>2, <3>3
  <2> QED BY <1>3, <2>2, <2>5, ExecuteFacts DEF IInv, PidsUnique
<1> QED BY <1>2, <1>3, StepKeeps DEF IInv

\* The clock moves with the charges, and a new process starts uncharged.
LEMMA CpuTimeBoundedNext == IInv /\ [Next]_vars => CpuTimeBounded'
<1> SUFFICES ASSUME IInv, [Next]_vars PROVE CpuTimeBounded'
    OBVIOUS
<1>1. \A i \in Slots : /\ processes[i].start_time \in Nat
                       /\ processes[i].cpu_time \in Nat
                       /\ processes'[i].cpu_time \in Nat
  BY TypeNext DEF IInv, TypeOK, Process
<1>2. uptime_seconds \in Nat /\ uptime_seconds' \in Nat
  BY TypeNext DEF IInv, TypeOK
<1>3. CASE ProcessesKept
  BY <1>1, <1>2, <1>3 DEF ProcessesKept, IInv, CpuTimeBounded, Live
<1>4. ASSUME NEW id \in Slots, hlpkg_execute(id) PROVE CpuTimeBounded'
  <2>1. PICK slot \in Slots :
           /\ processes'[slot].start_time = uptime_seconds
           /\ processes'[slot].cpu_time = 0
           /\ \A i \in Slots : i # slot => processes'[i] = processes[i]
    BY <1>4, ExecuteFacts DEF IInv
  <2>2. uptime_seconds' = uptime_seconds
    BY <1>4, ExecuteFacts DEF IInv
  <2>3. \A i \in Live' : i # slot => i \in Live
    BY <2>1 DEF IInv, NoneAboveMark, Live
  <2>4. \A i \in Live' : i \in Slots
    BY DEF Live
  <2> QED BY <1>1, <1>2, <2>1, <2>2, <2>3, <2>4 DEF IInv, CpuTimeBounded
<1> QED BY <1>3, <1>4, StepKeeps DEF IInv

\* hlpkg_load gives a package a buffer that no loaded package has, and
\* hlpkg_unload gives back the only package's mark.
LEMMA BuffersOwnedNext == IInv /\ [Next]_vars => BuffersOwned'
<1> SUFFICES ASSUME IInv, [Next]_vars PROVE BuffersOwned'
    OBVIOUS
<1> USE DEF Loaded
<1>1. CASE UNCHANGED Tables
  BY <1>1 DEF Tables, IInv, BuffersOwned
<1>2. CASE hlpkg_load /\ CanLoad
  <2>1. package_count' = package_count + 1 /\ package_count \in Slots
    BY <1>2, HlpkgAssumption DEF hlpkg_load, CanLoad, IInv, TypeOK, Slots
  <2>2. PICK storage \in FreeStorage :
           /\ binary_storage_used' = [binary_storage_used EXCEPT ![storage] = TRUE]
           /\ packages' = [packages EXCEPT ![package_count] =
                 [name |-> PackageName, loaded |-> TRUE, binary_data |-> storage]]
    BY <1>2 DEF hlpkg_load, TakeBuffer, NextPackage
  <2>3. /\ packages \in [Slots -> Package]
        /\ binary_storage_used \in [Slots -> BOOLEAN]
    BY DEF IInv, TypeOK
  <2>4. storage \in Slots /\ ~binary_storage_used[storage]
    BY DEF FreeStorage
  <2>5. packages'[package_count].loaded /\ packages'[package_count].binary_data = storage
    BY <2>1, <2>2, <2>3
  <2>6. \A k \in Slots : k # package_count => packages'[k] = packages[k]
    BY <2>1, <2>2, <2>3
  <2>7. Loaded' = Loaded \cup {package_count}
    BY <2>1, <2>5, <2>6 DEF Slots
  <2>8. package_count \notin Loaded
    BY <2>1 DEF Slots
  <2>9. \A k \in Loaded : k \in Slots /\ packages[k].binary_data # storage
    BY <2>4 DEF IInv, BuffersOwned
  <2>10. \A s \in Slots : binary_storage_used'[s] <=> binary_storage_used[s] \/ s = storage
    BY <2>2, <2>3, <2>4
  <2> HIDE DEF Loaded
  <2>11. \A k \in Loaded' : /\ packages'[k].binary_data \in Slots
                            /\ binary_storage_used'[packages'[k].binary_data]
    BY <2>4, <2>5, <2>6, <2>7, <2>8, <2>9, <2>10 DEF IInv, BuffersOwned
  <2>12. \A k, m \in Loaded' : packages'[k].binary_data = packages'[m].binary_data => k = m
    BY <2>4, <2>5, <2>6, <2>7, <2>8, <2>9 DEF IInv, BuffersOwned
  <2>13. \A s \in Slots : binary_storage_used'[s] =>
            \E k \in Loaded' : packages'[k].binary_data = s
    BY <2>5, <2>6, <2>7, <2>8, <2>9, <2>10 DEF IInv, BuffersOwned
  <2> QED BY <2>11, <2>12, <2>13 DEF BuffersOwned
<1>3. ASSUME NEW id \in Slots, hlpkg_unload(id) PROVE BuffersOwned'
  <2>1. /\ id \in Loaded /\ package_count' = package_count
        /\ packages' = [packages EXCEPT ![id] =
              [packages[id] EXCEPT !.loaded = FALSE, !.binary_data = None]]
        /\ binary_storage_used' =
              [binary_storage_used EXCEPT ![packages[id].binary_data] = FALSE]
    BY <1>3, Zenon DEF hlpkg_unload
  <2>2. /\ packages \in [Slots -> Package]
        /\ binary_storage_used \in [Slots -> BOOLEAN]
    BY DEF IInv, TypeOK
  <2>3. packages[id].binary_data \in Slots
    BY <2>1 DEF IInv, BuffersOwned
  <2>4. packages[id] \in Package
    BY <2>2
  <2>5. [packages[id] EXCEPT !.loaded = FALSE, !.binary_data = None].loaded = FALSE
    BY <2>4 DEF Package
  <2>6. packages'[id].loaded = FALSE
    BY <2>1, <2>2, <2>5
  <2>7. \A k \in Slots : k # id => packages'[k] = packages[k]
    BY <2>1, <2>2
  <2>8. Loaded' = Loaded \ {id}
    BY <2>1, <2>6, <2>7
  <2>9. \A k \in Loaded : k \in Slots
    OBVIOUS
  <2>10. \A s \in Slots : binary_storage_used'[s] <=>
            binary_storage_used[s] /\ s # packages[id].binary_data
    BY <2>1, <2>2, <2>3
  <2> HIDE DEF Loaded
  <2> QED BY <2>1, <2>3, <2>7, <2>8, <2>9, <2>10 DEF IInv, BuffersOwned
<1>4. hlpkg_load /\ ~CanLoad => UNCHANGED Tables
  BY DEF hlpkg_load, Tables
<1>5. \A id \in Slots : hlpkg_execute(id) \/ hlpkg_kill(id) \/ hlpkg_suspend(id)
                           \/ hlpkg_resume(id) => UNCHANGED Tables
  BY DEF hlpkg_execute, hlpkg_kill, hlpkg_suspend, hlpkg_resume, pkgvars, Tables
<1>6. tick \/ UNCHANGED vars => UNCHANGED Tables
  BY DEF tick, vars, pkgvars, Tables
<1> QED BY <1>1, <1>2, <1>3, <1>4, <1>5, <1>6 DEF Next

\* A process points into the buffer of a package that is loaded: it is started
\* from one, and ended with it.
LEMMA NoDanglingBinaryNext == IInv /\ [Next]_vars => NoDanglingBinary'
<1> SUFFICES ASSUME IInv, [Next]_vars PROVE NoDanglingBinary'
    OBVIOUS
<1>1. CASE ProcessesKept /\ \A k \in Loaded : k \in Loaded' /\ packages'[k] = packages[k]
  BY <1>1 DEF ProcessesKept, IInv, NoDanglingBinary, Live
<1>2. ASSUME NEW id \in Slots, hlpkg_unload(id) PROVE NoDanglingBinary'
  <2>1. PackageName = packages[id].name
    BY DEF IInv, TypeOK, Package
  <2>2. \A i \in Live : i \in KilledWith(packages[id].name)
    BY <2>1 DEF IInv, TypeOK, Process, KilledWith, Live
  <2>3. \A i \in Live' : i \in Live /\ i \notin KilledWith(packages[id].name)
    BY <1>2, UnloadKeeps DEF IInv, ProcessesKept, Live
  <2> QED BY <2>2, <2>3 DEF NoDanglingBinary
<1>3. ASSUME NEW id \in Slots, hlpkg_execute(id) PROVE NoDanglingBinary'
  <2>1. /\ id \in Loaded /\ Loaded' = Loaded /\ packages' = packages
    BY <1>3, ExecuteFacts DEF IInv, Loaded
  <2>2. PICK slot \in Slots :
           /\ processes'[slot].binary_data = packages[id].binary_data
           /\ \A i \in Slots : i # slot => processes'[i] = processes[i]
    BY <1>3, ExecuteFacts DEF IInv
  <2>3. \A i \in Live' : i # slot => i \in Live
    BY <2>2 DEF IInv, NoneAboveMark, Live
  <2>4. \A i \in Live' : i \in Slots
    BY DEF Live
  <2> QED BY <2>1, <2>2, <2>3, <2>4 DEF IInv, NoDanglingBinary
<1>4. CASE UNCHANGED Tables /\ ProcessesKept
  BY <1>1, <1>4 DEF Tables, Loaded
<1>5. CASE hlpkg_load
  <2>1. ProcessesKept
    <3>1. \A i \in Slots : processes[i].cpu_time \in Nat /\ uptime_seconds \in Nat
      BY DEF IInv, TypeOK, Process
    <3> QED BY <1>5, <3>1 DEF hlpkg_load, procvars, ProcessesKept
  <2>2. CASE CanLoad
    <3>1. package_count' = package_count + 1 /\ package_count \in Nat
      BY <1>5, <2>2 DEF hlpkg_load, IInv, TypeOK
    <3>2. \A k \in Slots : k # package_count => packages'[k] = packages[k]
      BY <1>5, <2>2 DEF hlpkg_load, NextPackage, IInv, TypeOK
    <3>3. \A k \in Loaded : k \in Slots /\ k < package_count /\ k \in Int
      BY DEF Loaded, Slots
    <3>4. \A k \in Loaded : k \in Loaded' /\ packages'[k] = packages[k]
      BY <3>1, <3>2, <3>3 DEF Loaded
    <3> QED BY <1>1, <2>1, <3>4
  <2>3. CASE ~CanLoad
    BY <1>4, <1>5, <2>1, <2>3 DEF hlpkg_load, Tables
  <2> QED BY <2>2, <2>3
<1>6. \A id \in Slots : hlpkg_kill(id) \/ hlpkg_suspend(id) \/ hlpkg_resume(id)
         => UNCHANGED Tables /\ ProcessesKept
  BY KillKeeps, StatusChangeKeeps DEF hlpkg_kill, hlpkg_suspend, hlpkg_resume, pkgvars,
     Tables, IInv
<1>7. tick => UNCHANGED Tables /\ ProcessesKept
  BY TickKeeps DEF tick, pkgvars, Tables, IInv
<1>8. CASE UNCHANGED vars
  BY <1>8 DEF vars, pkgvars, procvars, IInv, NoDanglingBinary, Live, Loaded
<1> QED BY <1>2, <1>3, <1>4, <1>5, <1>6, <1>7, <1>8 DEF Next
-----------------------------------------------------------------------------
(***************************************************************************)
(* The theorems.                                                           *)
(***************************************************************************)
\* The empty tables satisfy the invariant.
LEMMA InitInv == init_hlpkg_system => IInv
<1> SUFFICES ASSUME init_hlpkg_system PROVE IInv
    OBVIOUS
<1>1. TypeOK
  BY TypeInit
<1>2. \A i \in Slots : /\ processes[i].in_use = FALSE
                       /\ processes[i].pid = 0
                       /\ binary_storage_used[i] = FALSE
                       /\ packages[i].loaded = FALSE
  BY DEF init_hlpkg_system, ZeroProcess, ZeroPackage
<1>3. Live = {} /\ Loaded = {}
  BY <1>2 DEF Live, Loaded
<1>4. PidsUnique
  BY <1>2, <1>3, HlpkgAssumption DEF PidsUnique, init_hlpkg_system
<1> QED BY <1>1, <1>2, <1>3, <1>4 DEF IInv, NoneAboveMark, BuffersOwned,
           NoDanglingBinary, CpuTimeBounded

\* Every reachable state of the tables satisfies all the parts together.
THEOREM Inductive == Spec => []IInv
<1>1. init_hlpkg_system => IInv
  BY InitInv
<1>2. IInv /\ [Next]_vars => IInv'
  BY TypeNext, NoneAboveMarkNext, PidsUniqueNext, BuffersOwnedNext, NoDanglingBinaryNext,
     CpuTimeBoundedNext DEF IInv
<1> QED BY <1>1, <1>2, PTL DEF Spec

\* The tables, the counts and the clock keep their types: package_count and
\* process_count never pass the length of the tables.
THEOREM TypeCorrect == Spec => []TypeOK
BY Inductive, PTL DEF IInv

\* No process is in use where the loops over the process table do not look.
THEOREM LoopsMissNoProcess == Spec => []NoneAboveMark
BY Inductive, PTL DEF IInv

\* At any time a pid names at most one live process.
THEOREM PidsNameOneProcess == Spec => []PidsUnique
BY Inductive, PTL DEF IInv

\* The marks of the buffer pool are the buffers of the loaded packages.
THEOREM BuffersStayOwned == Spec => []BuffersOwned
BY Inductive, PTL DEF IInv

\* No sequence of loads, runs and unloads leaves a process in a buffer that no
\* loaded package owns.  The argument needs that all packages carry one name:
\* unloading any of them ends every process.
THEOREM NoProcessDangles == Spec => []NoDanglingBinary
BY Inductive, PTL DEF IInv

\* No process is charged more time than passed since it was started.
THEOREM CpuTimeStaysBounded == Spec => []CpuTimeBounded
BY Inductive, PTL DEF IInv

\* A pid that any slot ever held is never given to a new process.
THEOREM PidsAreNeverReused == Spec => PidNeverReused
<1> DEFINE A == \A i \in Slots : processes'[i].in_use /\ ~processes[i].in_use =>
                   \A j \in Slots : processes'[i].pid # processes[j].pid
<1>1. IInv /\ [Next]_vars => A
  <2> SUFFICES ASSUME IInv, [Next]_vars PROVE A
      OBVIOUS
  <2>1. \A j \in Slots : processes[j].pid < next_pid /\ processes[j].pid \in Nat
    BY DEF IInv, PidsUnique, TypeOK, Process
  <2>2. CASE ProcessesKept
    BY <2>2 DEF ProcessesKept
  <2>3. ASSUME NEW id \in Slots, hlpkg_execute(id) PROVE A
    <3>1. PICK slot \in Slots :
             /\ processes'[slot].pid = next_pid
             /\ \A i \in Slots : i # slot => processes'[i] = processes[i]
      BY <2>3, ExecuteFacts DEF IInv
    <3> QED BY <2>1, <3>1 DEF IInv, TypeOK
  <2> QED BY <2>2, <2>3, StepKeeps DEF IInv
<1>2. PidNeverReused <=> [][A]_vars
  BY PTL DEF PidNeverReused
<1> QED BY <1>1, <1>2, Inductive, PTL DEF Spec

\* The package table is written once: a slot below the count never holds a
\* package loaded later.
THEOREM PackageSlotsAreUsedOnce == Spec => PackageSlotsUsedOnce
<1> DEFINE A == /\ package_count' >= package_count
                /\ \A k \in 0..(package_count - 1) :
                      packages'[k].loaded => packages'[k] = packages[k]
<1>1. IInv /\ [Next]_vars => A
  <2> SUFFICES ASSUME IInv, [Next]_vars PROVE A
      OBVIOUS
  <2>1. /\ package_count \in 0..MaxPackages /\ MaxPackages \in Nat
        /\ packages \in [Slots -> Package]
    BY HlpkgAssumption DEF IInv, TypeOK
  <2>2. \A k \in 0..(package_count - 1) : k \in Slots /\ k # package_count
    BY <2>1 DEF Slots
  <2>3. CASE UNCHANGED Tables
    BY <2>1, <2>3 DEF Tables
  <2>4. CASE hlpkg_load /\ CanLoad
    <3>1. package_count' = package_count + 1
      BY <2>4 DEF hlpkg_load
    <3>2. \A k \in Slots : k # package_count => packages'[k] = packages[k]
      BY <2>1, <2>4 DEF hlpkg_load, NextPackage
    <3> QED BY <2>1, <2>2, <3>1, <3>2
  <2>5. ASSUME NEW id \in Slots, hlpkg_unload(id) PROVE A
    <3>1. packages' = [packages EXCEPT ![id] =
             [packages[id] EXCEPT !.loaded = FALSE, !.binary_data = None]]
      BY <2>5, Zenon DEF hlpkg_unload
    <3>2. packages[id] \in Package
      BY <2>1
    <3>3. [packages[id] EXCEPT !.loaded = FALSE, !.binary_data = None].loaded = FALSE
      BY <3>2 DEF Package
    <3>4. packages'[id].loaded = FALSE /\ package_count' = package_count
      BY <2>1, <2>5, <3>1, <3>3 DEF hlpkg_unload
    <3>5. \A k \in Slots : k # id => packages'[k] = packages[k]
      BY <2>1, <3>1
    <3> QED BY <2>1, <2>2, <3>4, <3>5
  <2>6. hlpkg_load /\ ~CanLoad => UNCHANGED Tables
    BY DEF hlpkg_load, Tables
  <2>7. \A id \in Slots : hlpkg_execute(id) \/ hlpkg_kill(id) \/ hlpkg_suspend(id)
                             \/ hlpkg_resume(id) => UNCHANGED Tables
    BY DEF hlpkg_execute, hlpkg_kill, hlpkg_suspend, hlpkg_resume, pkgvars, Tables
  <2>8. tick \/ UNCHANGED vars => UNCHANGED Tables
    BY DEF tick, vars, pkgvars, Tables
  <2> QED BY <2>3, <2>4, <2>5, <2>6, <2>7, <2>8 DEF Next
<1>2. PackageSlotsUsedOnce <=> [][A]_vars
  BY PTL DEF PackageSlotsUsedOnce
<1> QED BY <1>1, <1>2, Inductive, PTL DEF Spec
=============================================================================
