--------------------------- MODULE InstallerProofs ---------------------------
(***************************************************************************)
(* Proofs about Port and Installer, for every size of the tables and of    *)
(* the app menu, all pids to begin with, and all mappings and names.       *)
(* Installer's steps are shown to be steps of Port and of Hlpkg, so that   *)
(* what is proved of each of them holds of the two together.               *)
(***************************************************************************)
EXTENDS Installer, TLAPS, WellFoundedInduction

\* Port's inductive invariant.  A process has a pid, and it is one of those that were
\* handed out: without it the mark could stand above a slot that was never used.
PidsHandedOut == /\ next_port_pid >= FirstPid
                 /\ \A i \in Slots : LET p == ported_processes[i]
                                     IN  /\ p.in_use => p.pid # 0
                                         /\ p.pid # 0 => p.pid \in FirstPid..(next_port_pid - 1)

\* What MappingsAreOwn says, of every slot in use.
Own(i) == LET p == ported_processes[i]
          IN  \A k \in DOMAIN p.path_mappings :
                 \/ p.path_mappings[k] \in ToSet(default_paths)
                 \/ <<p.pid, p.path_mappings[k]>> \in asked

MappingsOwned == \A i \in Slots : ported_processes[i].in_use => Own(i)

PortInv == TypeOK /\ MarkExact /\ PidsHandedOut
-----------------------------------------------------------------------------
(***************************************************************************)
(* The Linux layer.                                                        *)
(***************************************************************************)
LEMMA FreshMappingsFit ==
    /\ FreshMappings \in Seq(Mapping) /\ Len(FreshMappings) <= MaxMappings
    /\ \A k \in DOMAIN FreshMappings : FreshMappings[k] \in ToSet(default_paths)
<1> DEFINE n == IF Len(default_paths) < MaxMappings THEN Len(default_paths) ELSE MaxMappings
<1>1. /\ n \in 0..Len(default_paths) /\ n <= MaxMappings
      /\ \A k \in 1..n : default_paths[k] \in ToSet(default_paths)
  BY PortAssumption DEF ToSet
<1>2. /\ SubSeq(default_paths, 1, n) \in Seq(Mapping) /\ Len(SubSeq(default_paths, 1, n)) = n
      /\ \A k \in 1..n : SubSeq(default_paths, 1, n)[k] = default_paths[k]
  BY <1>1, PortAssumption
<1> QED BY <1>1, <1>2 DEF FreshMappings

LEMMA PortInit == init_port_system => PortInv
<1> SUFFICES ASSUME init_port_system PROVE PortInv
  OBVIOUS
<1>1. ZeroProcess \in PortedProcess /\ Len(ZeroProcess.path_mappings) = 0
  BY DEF ZeroProcess, PortedProcess, PortStatus
<1>2. \A i \in Slots : ported_processes[i] = ZeroProcess
  BY DEF init_port_system
<1>3. TypeOK
  BY <1>1, <1>2, PortAssumption DEF init_port_system, TypeOK
<1>4. MarkExact /\ PidsHandedOut
  BY <1>2, PortAssumption DEF MarkExact, PidsHandedOut, ZeroProcess, init_port_system, Slots
<1> QED BY <1>3, <1>4 DEF PortInv

\* Replacing one process by one of the same pid, and in use only if that one was.
LEMMA SlotReplaced ==
    ASSUME PortInv, NEW slot \in Slots, NEW p \in PortedProcess,
           p.pid = ported_processes[slot].pid,
           p.in_use => ported_processes[slot].in_use,
           Len(p.path_mappings) <= MaxMappings, asked' \subseteq Nat \X Mappings,
           ported_processes' = [ported_processes EXCEPT ![slot] = p],
           UNCHANGED <<ported_count, next_port_pid, library_map>>
    PROVE  PortInv'
<1>1. \A i \in Slots : ported_processes'[i] = IF i = slot THEN p ELSE ported_processes[i]
  BY DEF PortInv, TypeOK
<1>2. TypeOK'
  BY <1>1 DEF PortInv, TypeOK
<1>3. MarkExact' /\ PidsHandedOut'
  BY <1>1 DEF PortInv, TypeOK, MarkExact, PidsHandedOut
<1> QED BY <1>2, <1>3 DEF PortInv

\* The slot taken is the first free one, so all below it are in use: it is not above
\* the mark, and the mark moves past it only when it stood at it.
LEMMA LoadInv == PortInv /\ port_load_elf => PortInv'
<1> SUFFICES ASSUME PortInv, port_load_elf PROVE PortInv'
  OBVIOUS
<1> DEFINE p == [pid |-> next_port_pid, status |-> "PORT_ACTIVE",
                 path_mappings |-> FreshMappings, in_use |-> TRUE]
<1>1. PICK slot \in FreeSlot :
         /\ ported_processes' = [ported_processes EXCEPT ![slot] = p]
         /\ ported_count' = IF slot >= ported_count THEN slot + 1 ELSE ported_count
  BY DEF port_load_elf, PidOf, MappingsAtStart
<1>2. slot \in Slots /\ \A j \in Slots : j < slot => ported_processes[j].in_use
  BY DEF FreeSlot, FirstOf, Free, Slots
<1>3. slot <= ported_count /\ ported_count < MaxPorts
  <2>1. ported_count \in Slots
    BY PortAssumption DEF PortInv, TypeOK, port_load_elf, Slots
  <2>2. ported_processes[ported_count].pid = 0
    BY <2>1, PortAssumption DEF PortInv, TypeOK, MarkExact, Slots
  <2>3. ~ported_processes[ported_count].in_use
    BY <2>1, <2>2 DEF PortInv, PidsHandedOut
  <2> QED BY <1>2, <2>1, <2>3 DEF Slots, port_load_elf
<1>4. p \in PortedProcess /\ p.pid = next_port_pid /\ Len(p.path_mappings) <= MaxMappings
  BY FreshMappingsFit DEF PortedProcess, PortStatus, PortInv, TypeOK
<1> HIDE DEF p
<1>5. \A i \in Slots : ported_processes'[i] = IF i = slot THEN p ELSE ported_processes[i]
  BY <1>1 DEF PortInv, TypeOK
<1>6. next_port_pid' = next_port_pid + 1 /\ library_map' = library_map /\ asked' = asked
  BY DEF port_load_elf
<1>7. TypeOK'
  BY <1>1, <1>2, <1>3, <1>4, <1>5, <1>6, PortAssumption DEF PortInv, TypeOK, Slots
<1>8. MarkExact' /\ PidsHandedOut'
  BY <1>1, <1>2, <1>3, <1>4, <1>5, <1>6, PortAssumption
     DEF PortInv, TypeOK, MarkExact, PidsHandedOut, Slots
<1> QED BY <1>7, <1>8 DEF PortInv

LEMMA KillInv ==
    ASSUME PortInv, NEW slot \in Slots, port_kill(slot)
    PROVE  PortInv'
<1> DEFINE p == [ported_processes[slot] EXCEPT !.status = "PORT_INACTIVE", !.in_use = FALSE]
<1>1. ported_processes' = [ported_processes EXCEPT ![slot] = p]
  BY Zenon DEF port_kill
<1>2. /\ p \in PortedProcess /\ p.pid = ported_processes[slot].pid /\ ~p.in_use
      /\ Len(p.path_mappings) <= MaxMappings
  BY DEF PortInv, TypeOK, PortedProcess, PortStatus
<1> HIDE DEF p
<1> QED BY <1>1, <1>2, SlotReplaced DEF port_kill, PortInv, TypeOK

LEMMA ChangeStatusInv ==
    ASSUME PortInv, NEW slot \in Slots, NEW from, NEW to \in PortStatus,
           ChangeStatus(slot, from, to)
    PROVE  PortInv'
<1> DEFINE p == [ported_processes[slot] EXCEPT !.status = to]
<1>1. ported_processes' = [ported_processes EXCEPT ![slot] = p]
  BY Zenon DEF ChangeStatus
<1>2. /\ p \in PortedProcess /\ p.pid = ported_processes[slot].pid
      /\ p.in_use = ported_processes[slot].in_use
      /\ Len(p.path_mappings) <= MaxMappings
  BY DEF PortInv, TypeOK, PortedProcess
<1> HIDE DEF p
<1> QED BY <1>1, <1>2, SlotReplaced DEF ChangeStatus, PortInv, TypeOK

\* The room is tested before the mapping is added.
LEMMA MappingInv ==
    ASSUME PortInv, NEW slot \in Slots, NEW m \in Mappings, port_add_path_mapping(slot, m)
    PROVE  PortInv'
<1> DEFINE ms == Append(ported_processes[slot].path_mappings, m)
           p == [ported_processes[slot] EXCEPT !.path_mappings = ms]
<1>1. ported_processes' = [ported_processes EXCEPT ![slot] = p]
  BY Zenon DEF port_add_path_mapping, AddMapping
<1>2. /\ ported_processes[slot] \in PortedProcess
      /\ ported_processes[slot].path_mappings \in Seq(Mapping)
      /\ Len(ported_processes[slot].path_mappings) < MaxMappings
      /\ m \in Mapping
  BY PortAssumption DEF PortInv, TypeOK, PortedProcess, port_add_path_mapping, RoomForMapping
<1>3. ms \in Seq(Mapping) /\ Len(ms) <= MaxMappings
  BY <1>2, PortAssumption
<1> HIDE DEF ms
<1>4. /\ p \in PortedProcess /\ p.pid = ported_processes[slot].pid
      /\ p.in_use = ported_processes[slot].in_use /\ Len(p.path_mappings) <= MaxMappings
  BY <1>2, <1>3 DEF PortedProcess
<1> HIDE DEF p
<1>5. asked' \subseteq Nat \X Mappings
  BY DEF PortInv, TypeOK, PortedProcess, port_add_path_mapping
<1> QED BY <1>1, <1>4, <1>5, SlotReplaced DEF port_add_path_mapping

LEMMA LibraryInv ==
    ASSUME PortInv, NEW m \in Mappings, port_add_library_mapping(m)
    PROVE  PortInv'
<1>1. library_map' = Append(library_map, m) /\ Len(library_map) < MaxLibs /\ m \in Mapping
  BY PortAssumption DEF port_add_library_mapping, AddMapping
<1>2. library_map' \in Seq(Mapping) /\ Len(library_map') <= MaxLibs
  BY <1>1, PortAssumption DEF PortInv, TypeOK
<1> QED BY <1>2 DEF PortInv, TypeOK, MarkExact, PidsHandedOut, port_add_library_mapping, procvars

LEMMA MappingsInit == init_port_system => MappingsOwned
  BY DEF init_port_system, MappingsOwned, ZeroProcess

LEMMA PortNext == PortInv /\ [Next]_vars => PortInv'
<1> SUFFICES ASSUME PortInv, [Next]_vars PROVE PortInv'
  OBVIOUS
<1>1. CASE port_load_elf
  BY <1>1, LoadInv
<1>2. ASSUME NEW slot \in Slots, port_kill(slot) PROVE PortInv'
  BY <1>2, KillInv
<1>3. ASSUME NEW slot \in Slots, port_suspend(slot) \/ port_resume(slot) PROVE PortInv'
  BY <1>3, ChangeStatusInv DEF port_suspend, port_resume, PortStatus
<1>4. ASSUME NEW slot \in Slots, NEW m \in Mappings, port_add_path_mapping(slot, m) PROVE PortInv'
  BY <1>4, MappingInv
<1>5. ASSUME NEW m \in Mappings, port_add_library_mapping(m) PROVE PortInv'
  BY <1>5, LibraryInv
<1>6. CASE UNCHANGED vars
  BY <1>6 DEF PortInv, TypeOK, MarkExact, PidsHandedOut, vars, procvars
<1> QED BY <1>1, <1>2, <1>3, <1>4, <1>5, <1>6 DEF Next

-----------------------------------------------------------------------------
(***************************************************************************)
(* Translations.                                                           *)
(***************************************************************************)
\* A set of positions that is not empty has a first one, and CHOOSE finds it.
LEMMA FirstPosition ==
    ASSUME NEW S, S \subseteq Nat, S # {}
    PROVE  \E k \in S : \A n \in S : k <= n
<1>1. PICK k \in S : \A n \in S : ~(<<n, k>> \in OpToRel(<, Nat))
  BY NatLessThanWellFounded, WFMin
<1>2. \A n \in S : ~(n < k)
  BY <1>1 DEF OpToRel
<1> QED BY <1>2

LEMMA AppendElements ==
    ASSUME NEW S, NEW s \in Seq(S), NEW e \in S
    PROVE  /\ Append(s, e) \in Seq(S)
           /\ Len(s) \in Nat /\ DOMAIN s = 1..Len(s)
           /\ DOMAIN Append(s, e) = 1..(Len(s) + 1)
           /\ \A k \in 1..Len(s) : Append(s, e)[k] = s[k]
OBVIOUS

LEMMA ConcatElements ==
    ASSUME NEW S, NEW s \in Seq(S), NEW t \in Seq(S)
    PROVE  /\ Len(s) \in Nat /\ DOMAIN s = 1..Len(s) /\ Len(t) \in Nat
           /\ DOMAIN (s \o t) = 1..(Len(s) + Len(t))
           /\ \A k \in 1..Len(s) : (s \o t)[k] = s[k]
OBVIOUS

\* The first of a process's mappings that covers the path translates it, whatever the
\* defaults are.
LEMMA FirstCovers ==
    ASSUME NEW ms \in Seq(Mapping), NEW p, NEW k \in DOMAIN ms, IsPrefix(ms[k][1], p),
           \A n \in 1..(k - 1) : ~IsPrefix(ms[n][1], p)
    PROVE  translate_path(p, ms) = ms[k][2] \o SubSeq(p, Len(ms[k][1]) + 1, Len(p))
<1> DEFINE known == ms \o default_paths
           Matches == {n \in DOMAIN known : IsPrefix(known[n][1], p)}
           Image(j) == known[j][2] \o SubSeq(p, Len(known[j][1]) + 1, Len(p))
<1>1. /\ Len(ms) \in Nat /\ DOMAIN ms = 1..Len(ms) /\ Len(default_paths) \in Nat
      /\ DOMAIN known = 1..(Len(ms) + Len(default_paths))
      /\ \A n \in 1..Len(ms) : known[n] = ms[n]
  <2>1. default_paths \in Seq(Mapping)
    BY PortAssumption
  <2>2. /\ Len(ms) \in Nat /\ DOMAIN ms = 1..Len(ms) /\ Len(default_paths) \in Nat
        /\ DOMAIN (ms \o default_paths) = 1..(Len(ms) + Len(default_paths))
        /\ \A n \in 1..Len(ms) : (ms \o default_paths)[n] = ms[n]
    BY <2>1, ConcatElements
  <2> QED BY <2>2
<1>2. translate_path(p, ms) =
         IF Matches = {} THEN <<"/halden">> \o p
         ELSE Image(CHOOSE m \in Matches : \A n \in Matches : m <= n)
  BY Zenon DEF translate_path
<1> HIDE DEF known
<1>3. Matches \subseteq Nat
  BY <1>1
<1>4. k \in Matches
  BY <1>1
<1>5. \A n \in Matches : k <= n
  <2> SUFFICES ASSUME NEW n \in Matches, n < k PROVE FALSE
    BY <1>1, <1>3
  <2>1. n \in 1..(k - 1) /\ n \in 1..Len(ms)
    BY <1>1
  <2>2. IsPrefix(ms[n][1], p)
    BY <1>1, <2>1
  <2> QED BY <2>1, <2>2
<1>6. (CHOOSE m \in Matches : \A n \in Matches : m <= n) = k
  BY <1>3, <1>4, <1>5
<1>7. translate_path(p, ms) = Image(k)
  BY <1>2, <1>4, <1>6
<1>8. known[k] = ms[k]
  BY <1>1
<1> QED BY <1>7, <1>8

\* A mapping behind one that covers the path does not count.
LEMMA AppendTranslates ==
    ASSUME NEW ms \in Seq(Mapping), NEW m \in Mapping, NEW p,
           \E k \in DOMAIN ms : IsPrefix(ms[k][1], p)
    PROVE  translate_path(p, Append(ms, m)) = translate_path(p, ms)
<1> DEFINE Matches == {k \in DOMAIN ms : IsPrefix(ms[k][1], p)}
<1>1. DOMAIN ms = 1..Len(ms) /\ Len(ms) \in Nat
  OBVIOUS
<1>2. Matches \subseteq Nat /\ Matches # {}
  BY <1>1
<1>3. PICK k \in Matches : \A n \in Matches : k <= n
  BY <1>2, FirstPosition, Zenon
<1>4. k \in DOMAIN ms /\ IsPrefix(ms[k][1], p)
  OBVIOUS
<1>5. \A n \in 1..(k - 1) : ~IsPrefix(ms[n][1], p)
  BY <1>1, <1>3
<1>6. PICK ns \in Seq(Mapping) : ns = Append(ms, m)
  BY AppendElements
<1>7. DOMAIN ns = 1..(Len(ms) + 1) /\ \A n \in 1..Len(ms) : ns[n] = ms[n]
  BY <1>6, AppendElements
<1>8. k \in DOMAIN ns /\ ns[k] = ms[k]
  BY <1>1, <1>4, <1>7
<1>9. \A n \in 1..(k - 1) : ~IsPrefix(ns[n][1], p)
  BY <1>1, <1>4, <1>5, <1>7
<1>10. translate_path(p, ms) = ms[k][2] \o SubSeq(p, Len(ms[k][1]) + 1, Len(p))
  BY <1>4, <1>5, FirstCovers, Zenon
<1>11. translate_path(p, ns) = ns[k][2] \o SubSeq(p, Len(ns[k][1]) + 1, Len(p))
  BY <1>4, <1>8, <1>9, FirstCovers, Zenon
<1> QED BY <1>6, <1>8, <1>10, <1>11

\* The same of library names.
LEMMA AppendNames ==
    ASSUME NEW map \in Seq(Mapping), NEW m \in Mapping, NEW k \in DOMAIN map
    PROVE  map_library(map[k][1], Append(map, m)) = map_library(map[k][1], map)
<1> DEFINE new == Append(map, m)
           lib == map[k][1]
           Firsts(q) == {j \in DOMAIN q : q[j][1] = lib /\ \A n \in 1..(j - 1) : q[n][1] # lib}
<1>1. /\ Len(map) \in Nat /\ DOMAIN map = 1..Len(map) /\ DOMAIN new = 1..(Len(map) + 1)
      /\ \A j \in 1..Len(map) : new[j] = map[j]
  OBVIOUS
<1> HIDE DEF new
<1>2. Firsts(new) = Firsts(map)
  <2>1. \A j \in 1..Len(map) : j \in Firsts(new) <=> j \in Firsts(map)
    <3> TAKE j \in 1..Len(map)
    <3>1. \A n \in 1..(j - 1) : new[n] = map[n]
      BY <1>1
    <3> QED BY <1>1, <3>1
  <2>2. Len(map) + 1 \notin Firsts(new)
    BY <1>1
  <2> QED BY <1>1, <2>1, <2>2
<1>3. \A j \in Firsts(map) : new[j][2] = map[j][2]
  BY <1>1
<1>4. map_library(lib, new) = {new[j][2] : j \in Firsts(new)}
  BY DEF map_library
<1>5. map_library(lib, map) = {map[j][2] : j \in Firsts(map)}
  BY DEF map_library
<1> HIDE DEF Firsts, lib
<1>6. {new[j][2] : j \in Firsts(map)} = {map[j][2] : j \in Firsts(map)}
  BY <1>3
<1> QED BY <1>2, <1>4, <1>5, <1>6 DEF new, lib

\* In a step of the Linux layer a process in use keeps its pid and its mappings, or
\* gains one behind them, which a caller added for it.
LEMMA MappingsGrow ==
    ASSUME PortInv, Next, NEW i \in Slots, ported_processes[i].in_use
    PROVE  /\ ported_processes'[i].pid = ported_processes[i].pid
           /\ \/ ported_processes'[i].path_mappings = ported_processes[i].path_mappings
              \/ \E m \in Mappings :
                    /\ ported_processes'[i].path_mappings =
                          Append(ported_processes[i].path_mappings, m)
                    /\ <<ported_processes[i].pid, m>> \in asked'
<1> DEFINE SamePid == ported_processes'[i].pid = ported_processes[i].pid
           Kept == /\ SamePid
                   /\ ported_processes'[i].path_mappings = ported_processes[i].path_mappings
<1>1. ported_processes \in [Slots -> PortedProcess]
  BY DEF PortInv, TypeOK
<1>2. ported_processes[i] \in PortedProcess
  BY <1>1
<1>3. CASE port_load_elf
  BY <1>1, <1>3 DEF port_load_elf, FreeSlot, FirstOf, Free
<1>4. ASSUME NEW slot \in Slots, port_kill(slot) PROVE Kept
  BY <1>1, <1>2, <1>4 DEF port_kill, PortedProcess
<1>5. ASSUME NEW slot \in Slots, NEW from, NEW to, ChangeStatus(slot, from, to) PROVE Kept
  BY <1>1, <1>2, <1>5 DEF ChangeStatus, PortedProcess
<1>6. ASSUME NEW slot \in Slots, NEW m \in Mappings, port_add_path_mapping(slot, m)
      PROVE  \/ Kept
             \/ /\ SamePid
                /\ ported_processes'[i].path_mappings =
                      Append(ported_processes[i].path_mappings, m)
                /\ <<ported_processes[i].pid, m>> \in asked'
  <2>1. CASE slot = i
    BY <1>1, <1>2, <1>6, <2>1 DEF port_add_path_mapping, AddMapping, PortedProcess
  <2>2. CASE slot # i
    BY <1>1, <1>6, <2>2 DEF port_add_path_mapping
  <2> QED BY <2>1, <2>2
<1>7. ASSUME NEW m \in Mappings, port_add_library_mapping(m) PROVE Kept
  BY <1>7 DEF port_add_library_mapping, procvars
<1> QED BY <1>3, <1>4, <1>5, <1>6, <1>7 DEF Next, port_suspend, port_resume

\* A process begins with defaults only, and what is added later was asked for with its
\* pid; what the slot held before plays no part.
LEMMA OwnedNext == PortInv /\ MappingsOwned /\ [Next]_vars => MappingsOwned'
<1>1. CASE UNCHANGED vars
  BY <1>1 DEF MappingsOwned, Own, vars, procvars
<1> SUFFICES ASSUME PortInv, MappingsOwned, Next, NEW i \in Slots, ported_processes'[i].in_use
             PROVE  Own(i)'
  BY <1>1 DEF MappingsOwned
<1>2. asked \subseteq asked'
  BY DEF Next, port_load_elf, port_kill, port_suspend, port_resume, ChangeStatus,
         port_add_path_mapping, port_add_library_mapping
<1>3. CASE ported_processes[i].in_use
  <2>1. PICK pid, ms : pid = ported_processes[i].pid /\ ms = ported_processes[i].path_mappings
    OBVIOUS
  <2>2. PICK ns : ns = ported_processes'[i].path_mappings
    OBVIOUS
  <2>3. ms \in Seq(Mapping)
    BY <2>1 DEF PortInv, TypeOK, PortedProcess
  <2>4. \A k \in DOMAIN ms : ms[k] \in ToSet(default_paths) \/ <<pid, ms[k]>> \in asked
    BY <1>3, <2>1 DEF MappingsOwned, Own
  <2>5. /\ ported_processes'[i].pid = pid
        /\ ns = ms \/ \E m \in Mapping : (ns = Append(ms, m) /\ <<pid, m>> \in asked')
    BY <1>3, <2>1, <2>2, MappingsGrow, PortAssumption
  <2>6. \A k \in DOMAIN ns : ns[k] \in ToSet(default_paths) \/ <<pid, ns[k]>> \in asked'
    <3>1. CASE ns = ms
      BY <1>2, <2>4, <3>1
    <3>2. ASSUME NEW m \in Mapping, ns = Append(ms, m), <<pid, m>> \in asked'
          PROVE  \A k \in DOMAIN ns : (k \in DOMAIN ms /\ ns[k] = ms[k]) \/ ns[k] = m
      BY <2>3, <3>2
    <3>3. \A k \in DOMAIN ns : \/ (k \in DOMAIN ms /\ ns[k] = ms[k])
                                \/ <<pid, ns[k]>> \in asked'
      BY <2>5, <3>1, <3>2
    <3> TAKE k \in DOMAIN ns
    <3>4. CASE k \in DOMAIN ms /\ ns[k] = ms[k]
      BY <1>2, <2>4, <3>4
    <3> QED BY <3>3, <3>4
  <2> QED BY <2>2, <2>5, <2>6 DEF Own
<1>4. CASE ~ported_processes[i].in_use
  <2>1. ported_processes \in [Slots -> PortedProcess]
    BY DEF PortInv, TypeOK
  <2>2. port_load_elf
    BY <1>4, <2>1 DEF Next, port_kill, port_suspend, port_resume, ChangeStatus,
       port_add_path_mapping, port_add_library_mapping, procvars, Live, PortedProcess
  <2>3. ported_processes'[i].path_mappings = FreshMappings
    BY <1>4, <2>1, <2>2 DEF port_load_elf, MappingsAtStart
  <2>4. PICK fresh : fresh = FreshMappings
    OBVIOUS
  <2>5. \A k \in DOMAIN fresh : fresh[k] \in ToSet(default_paths)
    BY <2>4, FreshMappingsFit
  <2> QED BY <2>3, <2>4, <2>5 DEF Own
<1> QED BY <1>3, <1>4

\* So no step changes a translation.
LEMMA ProcessTranslates ==
    ASSUME PortInv, Next, NEW i \in Live, NEW p,
           \E k \in DOMAIN ported_processes[i].path_mappings :
              IsPrefix(ported_processes[i].path_mappings[k][1], p)
    PROVE  translate_path(p, ported_processes'[i].path_mappings) =
           translate_path(p, ported_processes[i].path_mappings)
<1>1. PICK ms : ms = ported_processes[i].path_mappings
  OBVIOUS
<1>2. PICK ns : ns = ported_processes'[i].path_mappings
  OBVIOUS
<1>3. ms \in Seq(Mapping)
  BY <1>1 DEF Live, PortInv, TypeOK, PortedProcess
<1>4. ns = ms \/ \E m \in Mapping : ns = Append(ms, m)
  BY <1>1, <1>2, MappingsGrow, PortAssumption DEF Live
<1>5. \E k \in DOMAIN ms : IsPrefix(ms[k][1], p)
  BY <1>1
<1>6. translate_path(p, ns) = translate_path(p, ms)
  BY <1>3, <1>4, <1>5, AppendTranslates, Zenon
<1> QED BY <1>1, <1>2, <1>6, Zenon

LEMMA LibraryTranslates ==
    ASSUME PortInv, Next, NEW k \in DOMAIN library_map
    PROVE  map_library(library_map[k][1], library_map') =
           map_library(library_map[k][1], library_map)
<1>1. PICK map : map = library_map
  OBVIOUS
<1>2. PICK new : new = library_map'
  OBVIOUS
<1>3. map \in Seq(Mapping) /\ k \in DOMAIN map
  BY <1>1 DEF PortInv, TypeOK
<1>4. library_map' = library_map \/ \E m \in Mappings : library_map' = Append(library_map, m)
  BY DEF Next, port_load_elf, port_kill, port_suspend, port_resume, ChangeStatus,
         port_add_path_mapping, port_add_library_mapping, AddMapping, procvars
<1>5. new = map \/ \E m \in Mapping : new = Append(map, m)
  BY <1>1, <1>2, <1>4, PortAssumption
<1>6. map_library(map[k][1], new) = map_library(map[k][1], map)
  BY <1>3, <1>5, AppendNames, Zenon
<1> QED BY <1>1, <1>2, <1>6, Zenon
-----------------------------------------------------------------------------
(***************************************************************************)
(* The two parts together.                                                 *)
(***************************************************************************)
HP == INSTANCE HlpkgProofs WITH FirstPid <- FirstPackagePid, MaxPid <- MaxPackagePid

\* HP is H with its theorems.
LEMMA InitAgrees == H!init_hlpkg_system => HP!init_hlpkg_system
  BY DEF H!init_hlpkg_system, HP!init_hlpkg_system, H!Slots, HP!Slots, H!PackageName,
     HP!PackageName, H!ZeroPackage, HP!ZeroPackage, H!ZeroProcess, HP!ZeroProcess, H!None,
     HP!None, H!NotCalled, HP!NotCalled

LEMMA NextAgrees == [H!Next]_H!vars => [HP!Next]_HP!vars
  BY DEF H!pkgvars, HP!pkgvars, H!procvars, HP!procvars, H!vars, HP!vars, H!Slots,
     HP!Slots, H!None, HP!None, H!PackageName, HP!PackageName, H!IsFirst,
     HP!IsFirst, H!FreeStorage, HP!FreeStorage, H!FreeProcess, HP!FreeProcess,
     H!Live, HP!Live, H!Loaded, HP!Loaded, H!TakeBuffer, HP!TakeBuffer, H!CanLoad,
     HP!CanLoad, H!NextPackage, HP!NextPackage, H!hlpkg_load, HP!hlpkg_load,
     H!CountRaised, HP!CountRaised, H!Runnable, HP!Runnable, H!PidOf, HP!PidOf,
     H!NextPid, HP!NextPid, H!CpuTimeAtStart, HP!CpuTimeAtStart, H!hlpkg_execute,
     HP!hlpkg_execute, H!SetStatus, HP!SetStatus, H!hlpkg_kill, HP!hlpkg_kill,
     H!hlpkg_suspend, HP!hlpkg_suspend, H!hlpkg_resume, HP!hlpkg_resume,
     H!KilledWith, HP!KilledWith, H!hlpkg_unload, HP!hlpkg_unload, H!Running,
     HP!Running, H!tick, HP!tick, H!Next, HP!Next

LEMMA InvAgrees == HP!IInv => /\ \A i \in H!Slots : processes[i].pid < next_pid
                              /\ \A i \in H!Slots : processes[i].pid \in Nat
                              /\ next_pid \in Nat
  BY DEF HP!IInv, HP!PidsUnique, HP!TypeOK, HP!Process, HP!Slots, H!Slots

LEMMA Assumed == HP!HlpkgAssumption
  BY InstallerAssumption DEF HP!HlpkgAssumption

LEMMA PackageInit == H!init_hlpkg_system => HP!IInv
  BY HP!InitInv, InitAgrees, Assumed

LEMMA PackageNext == HP!IInv /\ [H!Next]_H!vars => HP!IInv'
  BY NextAgrees, Assumed, HP!TypeNext, HP!NoneAboveMarkNext, HP!PidsUniqueNext,
     HP!BuffersOwnedNext, HP!NoDanglingBinaryNext, HP!CpuTimeBoundedNext DEF HP!IInv

\* Every step of Installer is a step of the Linux layer, or leaves it alone.
LEMMA StepOfPort == [InstallerNext]_<<vars, pkgvars, appvars>> => [Next]_vars
  BY DEF InstallerNext, cmd_hlpkg_install, cmd_hlpkg_run, cmd_ports_install, InstalledMenuItem,
     PackageCalls, PortCalls, Next

\* And one of the package manager, or leaves that alone.
LEMMA StepOfPackages == [InstallerNext]_<<vars, pkgvars, appvars>> => [H!Next]_H!vars
<1> SUFFICES ASSUME [InstallerNext]_<<vars, pkgvars, appvars>> PROVE [H!Next]_H!vars
  OBVIOUS
<1>1. UNCHANGED pkgvars => UNCHANGED H!vars
  BY DEF pkgvars, H!vars, H!pkgvars, H!procvars
<1>2. CASE cmd_hlpkg_install
  BY <1>2 DEF cmd_hlpkg_install, H!Next
<1>3. CASE cmd_hlpkg_run
  BY <1>3 DEF cmd_hlpkg_run, H!Next, H!Loaded
<1>4. CASE PackageCalls
  BY <1>4 DEF PackageCalls, H!Next
<1> QED BY <1>1, <1>2, <1>3, <1>4
        DEF InstallerNext, cmd_ports_install, InstalledMenuItem, PortCalls
-----------------------------------------------------------------------------
(***************************************************************************)
(* The list of the app menu.                                               *)
(***************************************************************************)
AppName == Names \cup {<<H!PackageName>>}   \* what an install is called
Piece == STRING \cup {H!PackageName} \cup AppType
StoredName == {Stored(n, t) : n \in AppName, t \in AppType}
App == [name : StoredName, type : AppType, active : BOOLEAN]

\* The list holds names as they are stored: without it, a name that does not fit could
\* stand in the list as it is.
AppsInv == /\ installed_apps \in Seq(App) /\ Len(installed_apps) <= MaxApps
           /\ reported \subseteq AppName \X AppType
           /\ InstalledIsListed

\* A name that fits is stored as it is, and one that does not never looks like a name
\* that was given: the byte of the type is where that has one a key can type.
LEMMA StoredNames ==
    ASSUME NEW n \in AppName, NEW t \in AppType
    PROVE  /\ Fits(n) => Stored(n, t) = n
           /\ ~Fits(n) => /\ ~Fits(Stored(n, t))
                          /\ n \notin StoredName
<1>1. NameSize \in Nat /\ NameSize >= 2
  BY InstallerAssumption
<1>2. \A m \in AppName : m \in Seq(Piece)
  <2>1. <<H!PackageName>> \in Seq(Piece)
    <3>1. PICK name \in Piece : name = H!PackageName
      BY DEF Piece
    <3>2. <<name>> \in Seq(Piece)
      OBVIOUS
    <3> QED BY <3>1, <3>2
  <2>2. ASSUME NEW m \in Names PROVE m \in Seq(Piece)
    <3>1. PICK S : S = STRING
      OBVIOUS
    <3>2. m \in Seq(S)
      BY <3>1, InstallerAssumption
    <3>3. PICK P : P = Piece
      OBVIOUS
    <3>4. S \subseteq P
      BY <3>1, <3>3 DEF Piece
    <3>5. m \in Seq(P)
      BY <3>2, <3>4
    <3> QED BY <3>3, <3>5
  <2> QED BY <2>1, <2>2 DEF AppName
<1>3. ASSUME NEW m \in AppName, NEW u \in AppType, ~Fits(m)
      PROVE  /\ Len(Stored(m, u)) = NameSize + 1
             /\ Stored(m, u)[NameSize + 1] = u
  <2>1. Len(m) \in Nat /\ Len(m) >= NameSize
    BY <1>1, <1>2, <1>3 DEF Fits
  <2>2. m \in Seq(Piece)
    BY <1>2
  <2>3. PICK s : s = SubSeq(m, 1, NameSize)
    OBVIOUS
  <2>4. s \in Seq(Piece) /\ Len(s) = NameSize
    BY <1>1, <2>1, <2>3, <2>2
  <2>5. u \in Piece
    BY DEF Piece
  <2>6. Len(Append(s, u)) = NameSize + 1 /\ Append(s, u)[NameSize + 1] = u
    BY <1>1, <2>4, <2>5
  <2> QED BY <1>3, <2>3, <2>6 DEF Stored
<1>4. ASSUME ~Fits(n) PROVE ~Fits(Stored(n, t))
  BY <1>1, <1>3, <1>4 DEF Fits
<1>5. ASSUME ~Fits(n), NEW m \in AppName, NEW u \in AppType PROVE n # Stored(m, u)
  <2>1. Len(n) \in Nat /\ Len(n) >= NameSize
    BY <1>1, <1>2, <1>5 DEF Fits
  <2>2. CASE Fits(m)
    BY <1>5, <2>2 DEF Stored
  <2>3. CASE ~Fits(m)
    <3>1. n \in Names
      <4>1. Len(<<H!PackageName>>) = 1
        OBVIOUS
      <4>2. CASE n = <<H!PackageName>>
        BY <1>1, <2>1, <4>1, <4>2
      <4> QED BY <4>2 DEF AppName
    <3>2. NameSize + 1 <= Len(n) => n[NameSize + 1] \notin AppType
      BY <1>1, <3>1, InstallerAssumption
    <3>3. Len(Stored(m, u)) = NameSize + 1 /\ Stored(m, u)[NameSize + 1] = u
      BY <1>3, <2>3
    <3> QED BY <1>1, <3>2, <3>3
  <2> QED BY <2>2, <2>3
<1>6. Fits(n) => Stored(n, t) = n
  BY DEF Stored
<1>7. ASSUME ~Fits(n) PROVE n \notin StoredName
  BY <1>5, <1>7 DEF StoredName
<1> QED BY <1>4, <1>6, <1>7

LEMMA AppsInit == Init => AppsInv
<1> SUFFICES ASSUME Init PROVE AppsInv
  OBVIOUS
<1>1. installed_apps = <<>> /\ reported = {}
  BY DEF Init
<1> QED BY <1>1, InstallerAssumption DEF AppsInv, InstalledIsListed, Listed

LEMMA ListedStored ==
    ASSUME NEW apps \in Seq(App)
    PROVE  Listed(apps) \subseteq StoredName
<1>1. \A k \in DOMAIN apps : apps[k] \in App
  OBVIOUS
<1> QED BY <1>1 DEF Listed, App

\* A name that is not put in the list is in it already, or the list is full.
LEMMA AddKeepsApps ==
    ASSUME AppsInv, NEW name \in AppName, NEW type \in AppType,
           add_installed_app(name, type), reported' = reported \cup {<<name, type>>}
    PROVE  AppsInv'
<1> DEFINE stored == Stored(name, type)
           app == [name |-> stored, type |-> type, active |-> FALSE]
           n == Len(installed_apps)
<1>1. installed_apps \in Seq(App) /\ n \in Nat /\ DOMAIN installed_apps = 1..n
  BY DEF AppsInv
<1>2. stored \in StoredName /\ (Fits(name) => stored = name) /\ (~Fits(name) => ~Fits(stored))
  BY StoredNames DEF StoredName
<1>3. reported' \subseteq AppName \X AppType
  BY DEF AppsInv
<1>4. \A m \in AppName : ~Fits(m) => m \notin StoredName
  BY StoredNames DEF AppType
<1>5. ASSUME installed_apps' \in Seq(App)
      PROVE  \A r \in reported' : ~Fits(r[1]) => r[1] \notin Listed(installed_apps')
  <2>1. Listed(installed_apps') \subseteq StoredName
    BY <1>5, ListedStored
  <2> QED BY <1>3, <1>4, <2>1
<1>6. \A r \in reported' : r \in reported \/ (r[1] = name /\ r[2] = type)
  OBVIOUS
<1> HIDE DEF stored
<1>7. CASE RoomForApp /\ NotListed(name)
  <2>1. app \in App /\ app.name = stored
    BY <1>2 DEF App
  <2>2. installed_apps' = Append(installed_apps, app)
    BY <1>7 DEF add_installed_app, stored
  <2> HIDE DEF app
  <2>3. /\ installed_apps' \in Seq(App) /\ Len(installed_apps') = n + 1
        /\ DOMAIN installed_apps' = 1..(n + 1)
        /\ \A k \in 1..(n + 1) :
              installed_apps'[k] = IF k = n + 1 THEN app ELSE installed_apps[k]
    BY <1>1, <2>1, <2>2
  <2>4. Len(installed_apps') <= MaxApps
    BY <1>1, <1>7, <2>3, InstallerAssumption DEF RoomForApp
  <2>5. \A k \in 1..n : installed_apps[k].name # name
    BY <1>1, <1>7 DEF NotListed, Listed
  <2>6. \A j, k \in DOMAIN installed_apps' :
           installed_apps'[j].name = installed_apps'[k].name =>
              j = k \/ ~Fits(installed_apps'[j].name)
    BY <1>1, <1>2, <2>1, <2>3, <2>5 DEF AppsInv, InstalledIsListed
  <2>7. \A r \in reported : Stored(r[1], r[2]) \in Listed(installed_apps)
    BY <1>1, <1>7, InstallerAssumption DEF AppsInv, InstalledIsListed, RoomForApp
  <2>8. Listed(installed_apps) \subseteq Listed(installed_apps')
    BY <1>1, <2>3 DEF Listed
  <2>9. stored \in Listed(installed_apps')
    <3>1. n + 1 \in DOMAIN installed_apps' /\ installed_apps'[n + 1].name = stored
      BY <1>1, <2>1, <2>3
    <3> QED BY <3>1 DEF Listed
  <2>10. \A r \in reported' : Stored(r[1], r[2]) \in Listed(installed_apps')
    BY <1>6, <2>7, <2>8, <2>9 DEF stored
  <2> QED BY <1>3, <1>5, <2>3, <2>4, <2>6, <2>10 DEF AppsInv, InstalledIsListed
<1>8. CASE ~(RoomForApp /\ NotListed(name))
  <2>1. installed_apps' = installed_apps
    BY <1>8 DEF add_installed_app
  <2>2. name \in Listed(installed_apps) \/ n >= MaxApps
    BY <1>1, <1>8, InstallerAssumption DEF RoomForApp, NotListed
  <2>3. Listed(installed_apps) \subseteq StoredName
    BY <1>1, ListedStored
  <2>4. stored \in Listed(installed_apps) \/ n >= MaxApps
    BY <1>2, <1>4, <2>2, <2>3
  <2>5. ASSUME NEW r \in reported', Stored(r[1], r[2]) \notin Listed(installed_apps)
        PROVE  n >= MaxApps
    BY <1>6, <2>4, <2>5 DEF AppsInv, InstalledIsListed, stored
  <2>6. InstalledIsListed'
    BY <1>1, <1>5, <2>1, <2>5 DEF AppsInv, InstalledIsListed
  <2> QED BY <1>3, <2>1, <2>6 DEF AppsInv
<1> QED BY <1>7, <1>8

\* Starting or stopping a program from the menu changes neither names nor places.
LEMMA ClickKeepsApps ==
    ASSUME AppsInv, NEW k, InstalledMenuItem(k)
    PROVE  AppsInv'
<1> DEFINE app == [installed_apps[k] EXCEPT !.active = ~@]
<1>1. installed_apps' = [installed_apps EXCEPT ![k] = app] /\ reported' = reported
  BY Zenon DEF InstalledMenuItem
<1>2. /\ installed_apps \in Seq(App) /\ Len(installed_apps) \in Nat
      /\ DOMAIN installed_apps = 1..Len(installed_apps)
      /\ k \in 1..Len(installed_apps)
  BY DEF AppsInv, InstalledMenuItem
<1>3. installed_apps[k] \in App
  BY <1>2
<1>4. app \in App /\ app.name = installed_apps[k].name
  BY <1>3 DEF App
<1> HIDE DEF app
<1>5. /\ installed_apps' \in Seq(App) /\ Len(installed_apps') = Len(installed_apps)
      /\ DOMAIN installed_apps' = DOMAIN installed_apps
      /\ \A j \in DOMAIN installed_apps : installed_apps'[j].name = installed_apps[j].name
  BY <1>1, <1>2, <1>4
<1>6. Listed(installed_apps)' = Listed(installed_apps)
  BY <1>5 DEF Listed
<1>7. \A i, j \in DOMAIN installed_apps' :
         installed_apps'[i].name = installed_apps'[j].name =>
            i = j \/ ~Fits(installed_apps'[i].name)
  BY <1>5 DEF AppsInv, InstalledIsListed
<1> QED BY <1>1, <1>5, <1>6, <1>7 DEF AppsInv, InstalledIsListed

LEMMA InstallKeepsApps ==
    ASSUME AppsInv, HP!TypeOK', cmd_hlpkg_install
    PROVE  AppsInv'
<1>1. CASE UNCHANGED appvars
  BY <1>1 DEF AppsInv, InstalledIsListed, appvars
<1>2. CASE /\ load_result' \in H!Slots
           /\ LET name == <<packages'[load_result'].name>>
              IN  /\ add_installed_app(name, "hlpkg")
                  /\ reported' = reported \cup {<<name, "hlpkg">>}
  <2> DEFINE name == <<packages'[load_result'].name>>
  <2>1. name \in AppName
    BY <1>2 DEF HP!TypeOK, HP!Slots, H!Slots, HP!Package, HP!PackageName, H!PackageName, AppName
  <2>2. "hlpkg" \in AppType
    BY DEF AppType
  <2> HIDE DEF name
  <2>3. add_installed_app(name, "hlpkg") /\ reported' = reported \cup {<<name, "hlpkg">>}
    BY <1>2 DEF name
  <2> QED BY <2>1, <2>2, <2>3, AddKeepsApps
<1> QED BY <1>1, <1>2 DEF cmd_hlpkg_install
-----------------------------------------------------------------------------
(***************************************************************************)
(* Both parts and the list.                                                *)
(***************************************************************************)
InstallerInv == PortInv /\ MappingsOwned /\ HP!IInv /\ AppsInv

LEMMA InstallerNextInv ==
    InstallerInv /\ [InstallerNext]_<<vars, pkgvars, appvars>> => InstallerInv'
<1> SUFFICES ASSUME InstallerInv, [InstallerNext]_<<vars, pkgvars, appvars>>
             PROVE  InstallerInv'
  OBVIOUS
<1>1. PortInv'
  BY StepOfPort, PortNext DEF InstallerInv
<1>2. MappingsOwned'
  BY StepOfPort, OwnedNext DEF InstallerInv
<1>3. HP!IInv'
  BY StepOfPackages, PackageNext DEF InstallerInv
<1>4. HP!TypeOK'
  BY <1>3 DEF HP!IInv
<1>5. AppsInv
  BY DEF InstallerInv
<1>6. ASSUME UNCHANGED appvars PROVE AppsInv'
  BY <1>5, <1>6 DEF AppsInv, InstalledIsListed, appvars
<1>7. ASSUME cmd_hlpkg_install PROVE AppsInv'
  BY <1>4, <1>5, <1>7, InstallKeepsApps
<1>8. ASSUME NEW name \in Names, cmd_ports_install(name) PROVE AppsInv'
  BY <1>5, <1>8, AddKeepsApps DEF cmd_ports_install, AppName, AppType
<1>9. ASSUME NEW k, InstalledMenuItem(k) PROVE AppsInv'
  BY <1>5, <1>9, ClickKeepsApps
<1>10. AppsInv'
  BY <1>6, <1>7, <1>8, <1>9 DEF InstallerNext, cmd_hlpkg_run, PackageCalls, PortCalls, appvars
<1> QED BY <1>1, <1>2, <1>3, <1>10 DEF InstallerInv

\* Seen alone, the Linux layer behaves as its own specification says: no command does
\* to it what its own calls do not.
THEOREM InstallerImplementsPort == InstallerSpec => Spec
<1>1. Init => init_port_system
  BY DEF Init
<1> QED BY <1>1, StepOfPort, PTL DEF InstallerSpec, Spec

\* And so does the package manager.
THEOREM InstallerImplementsPackages == InstallerSpec => H!Spec
<1>1. Init => H!init_hlpkg_system
  BY DEF Init
<1> QED BY <1>1, StepOfPackages, PTL DEF InstallerSpec, H!Spec

LEMMA PackagesBehave == InstallerSpec => HP!Spec
<1>1. Init => HP!init_hlpkg_system
  BY InitAgrees DEF Init
<1>2. [InstallerNext]_<<vars, pkgvars, appvars>> => [HP!Next]_HP!vars
  BY StepOfPackages, NextAgrees
<1> QED BY <1>1, <1>2, PTL DEF InstallerSpec, HP!Spec

\* So what is proved of the package manager alone holds under the shell's commands: no
\* process runs from a buffer that was given back, no pid is handed out twice, and no
\* package slot is used again.
THEOREM PackagesStaySound ==
    InstallerSpec => /\ []H!NoDanglingBinary /\ []H!BuffersOwned
                     /\ H!PidNeverReused /\ H!PackageSlotsUsedOnce
<1>1. HP!NoDanglingBinary => H!NoDanglingBinary
  BY DEF HP!NoDanglingBinary, H!NoDanglingBinary, HP!Live, H!Live, HP!Loaded, H!Loaded,
     HP!Slots, H!Slots
<1>2. HP!BuffersOwned => H!BuffersOwned
  BY DEF HP!BuffersOwned, H!BuffersOwned, HP!Loaded, H!Loaded, HP!Slots, H!Slots
<1>3. HP!PidNeverReused => H!PidNeverReused
  BY PTL DEF HP!PidNeverReused, H!PidNeverReused, HP!Slots, H!Slots, HP!vars, H!vars,
     HP!pkgvars, H!pkgvars, HP!procvars, H!procvars
<1>4. HP!PackageSlotsUsedOnce => H!PackageSlotsUsedOnce
  BY PTL DEF HP!PackageSlotsUsedOnce, H!PackageSlotsUsedOnce, HP!vars, H!vars,
     HP!pkgvars, H!pkgvars, HP!procvars, H!procvars
<1> QED
  BY <1>1, <1>2, <1>3, <1>4, PackagesBehave, Assumed, HP!NoProcessDangles,
     HP!BuffersStayOwned, HP!PidsAreNeverReused, HP!PackageSlotsAreUsedOnce, PTL

\* What ties the two parts and the list together is inductive: the types, marks and
\* mappings of the Linux layer, the six invariants of the package manager, and a list without
\* doubles that misses a reported program only when it is full.
THEOREM InstallerInductive == InstallerSpec => []InstallerInv
<1>1. Init => InstallerInv
  BY PortInit, MappingsInit, PackageInit, AppsInit DEF Init, InstallerInv
<1> QED BY <1>1, InstallerNextInv, PTL DEF InstallerSpec

\* Every variable of the Linux layer keeps its type, and neither a process's mappings
\* nor the library names outgrow their arrays.
THEOREM PortTypeCorrect == InstallerSpec => []TypeOK
<1>1. InstallerInv => TypeOK
  BY DEF InstallerInv, PortInv
<1> QED BY <1>1, InstallerInductive, PTL

\* The loops over the Linux processes miss none, and the mark moves only when every slot
\* below it is in use.
THEOREM MarkStaysExact == InstallerSpec => []MarkExact
<1>1. InstallerInv => MarkExact
  BY DEF InstallerInv, PortInv
<1> QED BY <1>1, InstallerInductive, PTL

\* Whatever the order in which slots are used again, a process translates by the
\* defaults and by what was mapped for itself.
THEOREM MappingsStayOwn == InstallerSpec => []MappingsAreOwn
<1>1. InstallerInv => MappingsAreOwn
  BY DEF InstallerInv, MappingsOwned, Own, MappingsAreOwn, Live
<1> QED BY <1>1, InstallerInductive, PTL

\* A mapping added later takes precedence over none that is there, for every path and
\* library, whatever the calls.
THEOREM TranslationsStay == InstallerSpec => TranslationStable
<1> DEFINE Procs == \A i \in Live :
                LET old == ported_processes[i]
                    new == ported_processes'[i]
                IN  new # old /\ new.pid = old.pid =>
                       \A p \in Paths :
                          (\E k \in DOMAIN old.path_mappings :
                              IsPrefix(old.path_mappings[k][1], p))
                          => translate_path(p, new.path_mappings) =
                             translate_path(p, old.path_mappings)
           Libs == library_map' # library_map =>
                \A k \in DOMAIN library_map :
                   map_library(library_map[k][1], library_map') =
                   map_library(library_map[k][1], library_map)
<1>1. PortInv /\ Next => Procs /\ Libs
  BY ProcessTranslates, LibraryTranslates, Zenon
<1>2. PortInv /\ [Next]_vars => [Procs /\ Libs]_vars
  BY <1>1
<1>3. TranslationStable <=> [][Procs /\ Libs]_vars
  BY PTL DEF TranslationStable
<1>4. InstallerInv => PortInv
  BY DEF InstallerInv
<1>5. InstallerSpec => []PortInv
  BY <1>4, InstallerInductive, PTL
<1>6. InstallerSpec => [][Next]_vars
  BY StepOfPort, PTL DEF InstallerSpec
<1> QED BY <1>2, <1>3, <1>5, <1>6, PTL

\* A program reported as installed is in the app menu as what is stored of its name,
\* unless the list is full: once if its name fits, and if not, never under that name.
THEOREM InstalledStaysListed == InstallerSpec => []InstalledIsListed
<1>1. InstallerInv => InstalledIsListed
  BY DEF InstallerInv, AppsInv
<1> QED BY <1>1, InstallerInductive, PTL

\* A pid that ps shows names one process of the two parts, until the package manager
\* has handed out all the pids below those of the Linux layer.
THEOREM PsStaysUnambiguous == InstallerSpec => []PsNamesOneProcess
<1>1. InstallerInv => PsNamesOneProcess
  <2> SUFFICES ASSUME InstallerInv, next_pid <= FirstPid, NEW i \in Live, NEW j \in H!Live
               PROVE  ported_processes[i].pid # processes[j].pid
    BY DEF PsNamesOneProcess
  <2>1. ported_processes[i].pid >= FirstPid /\ ported_processes[i].pid \in Int
    BY PortAssumption DEF InstallerInv, PortInv, PidsHandedOut, TypeOK, Live
  <2>2. processes[j].pid < next_pid /\ processes[j].pid \in Nat /\ next_pid \in Nat
    BY InvAgrees DEF InstallerInv, H!Live
  <2> QED BY <2>1, <2>2, PortAssumption
<1> QED BY <1>1, InstallerInductive, PTL
-----------------------------------------------------------------------------
(***************************************************************************)
(* The rows of the two menus, for every height of the screen.              *)
(***************************************************************************)
\* Wherever a row of the app menu is drawn, a click on it is for that row, however
\* many programs are installed.
THEOREM EntriesTakeTheirClicks ==
    ASSUME NEW apps \in Nat, NEW e \in Entries(apps), NEW y \in Edges(DrawnEntry(e, apps))
    PROVE  EntryAt(y, apps) = {e}
<1> DEFINE Hit(k) == y \in Clicked(EntryTop(k, apps))
<1>1. fb_height \in Nat /\ AppMenuTop(apps) \in Int
  BY MenusAssumption DEF AppMenuTop, MenuTop
<1>2. e \in Int /\ 1 <= e /\ e <= 3 + apps
  BY DEF Entries
<1>3. \A k \in Entries(apps) : k \in Int /\ 1 <= k
  BY DEF Entries
<1>4. EntryTop(e, apps) \in Int /\ DrawnEntry(e, apps) \in Int /\ y \in Int
  BY <1>1, <1>2 DEF EntryTop, DrawnEntry, Edges
<1>5. DrawnEntry(e, apps) = EntryTop(e, apps)
  BY <1>1, <1>2 DEF EntryTop, DrawnEntry
<1>6. Hit(e)
  BY <1>4, <1>5 DEF Clicked, Edges
<1>7. ASSUME NEW k \in Entries(apps), k # e
      PROVE  ~Hit(k)
  BY <1>1, <1>2, <1>3, <1>4, <1>5, <1>7 DEF Clicked, Edges, EntryTop
<1>8. {k \in Entries(apps) : Hit(k)} = {e}
  BY <1>6, <1>7
<1> QED
  BY <1>2, <1>8 DEF EntryAt, First

\* A click on the row drawn for a network takes the next one, and none on the last
\* row, on every screen and for every list.
THEOREM RowsTakeTheNextNetwork ==
    ASSUME NEW shown \in Nat, NEW i \in 0..(shown - 1), NEW y \in Edges(DrawnNetwork(i))
    PROVE  NetworkAt(y, shown) = {i + 1} \cap (0..(shown - 1))
<1> DEFINE Hit(k) == y \in Clicked(NetworkTop(k))
<1>1. fb_height \in Nat /\ NetworkMenuTop \in Int
  BY MenusAssumption DEF NetworkMenuTop, MenuTop
<1>2. y \in {NetworkMenuTop + 95 + 40 * (i + 1), NetworkMenuTop + 95 + 40 * (i + 1) + 34}
  BY DEF Edges, DrawnNetwork
<1>3. \A k \in 0..(shown - 1) : Hit(k) <=> k = i + 1
  BY <1>1, <1>2 DEF Clicked, NetworkTop
<1>4. {k \in 0..(shown - 1) : Hit(k)} = {i + 1} \cap (0..(shown - 1))
  BY <1>3
<1> QED
  BY <1>4 DEF NetworkAt, First

\* The terminal's entry is on the screen while the list of programs is no longer than
\* the screen allows: on 768 lines, up to fifteen.
THEOREM TerminalLeavesTheScreen ==
    ASSUME NEW apps \in Nat
    PROVE  Reachable(TerminalEntry, apps) <=> 40 * apps + 156 <= fb_height
<1> DEFINE top == EntryTop(TerminalEntry, apps)
<1>1. fb_height \in Nat /\ top \in Int /\ top = fb_height - 190 - 40 * apps
  BY MenusAssumption DEF EntryTop, TerminalEntry, AppMenuTop, MenuTop
<1>2. 1 \in Entries(apps)
  BY DEF Entries
<1>3. ASSUME NEW y \in Edges(top)
      PROVE  EntryAt(y, apps) = {1}
  <2>1. DrawnEntry(1, apps) = top
    BY <1>1 DEF DrawnEntry, AppMenuTop, MenuTop
  <2> QED
    BY <1>2, <1>3, <2>1, EntriesTakeTheirClicks
<1>4. Reachable(TerminalEntry, apps) <=> Edges(top) \cap Desktop # {}
  BY <1>3 DEF Reachable, TerminalEntry
<1>5. Edges(top) \cap Desktop # {} <=> top + 34 >= 0
  BY <1>1 DEF Edges, Desktop
<1> QED
  BY <1>1, <1>4, <1>5

\* On a screen that holds all programs but the last of a full list, as 768 lines hold
\* fifteen of sixteen, the terminal can be opened exactly until the list is full.
THEOREM TerminalReachableUntilFull ==
    ASSUME 40 * (MaxApps - 1) + 156 <= fb_height, fb_height < 40 * MaxApps + 156
    PROVE  InstallerSpec => []TerminalReachable
<1>1. InstallerInv => TerminalReachable
  <2> SUFFICES ASSUME InstallerInv PROVE TerminalReachable
    OBVIOUS
  <2>1. Len(installed_apps) \in Nat /\ Len(installed_apps) <= MaxApps
    BY DEF InstallerInv, AppsInv
  <2>2. Reachable(TerminalEntry, Len(installed_apps))
           <=> 40 * Len(installed_apps) + 156 <= fb_height
    BY <2>1, TerminalLeavesTheScreen
  <2> QED BY <2>1, <2>2, InstallerAssumption, MenusAssumption DEF TerminalReachable
<1> QED BY <1>1, InstallerInductive, PTL
=============================================================================
