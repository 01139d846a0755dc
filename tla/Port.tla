-------------------------------- MODULE Port --------------------------------
(***************************************************************************)
(* The compatibility layer for Linux programs (port/port.cpp): a table of  *)
(* processes with reused slots, the path mappings each of them carries and *)
(* the table of library names.  No ELF file is read: port_load_elf makes   *)
(* up a header that always passes.                                         *)
(*                                                                         *)
(* A path is a sequence of pieces of text, so that a prefix need not end   *)
(* at a slash: "/libx" is <<"/lib", "x">>.                                 *)
(***************************************************************************)
EXTENDS Integers, Sequences, SequencesExt

CONSTANTS MaxPorts,       \* MAX_PORTS
          FirstPid,       \* 2000
          MaxMappings,    \* 16, the mappings of a process
          MaxLibs,        \* MAX_LIBS
          default_paths,  \* the mappings of a fresh process, in order
          default_libs,   \* the library names at boot, in order
          Paths,          \* Linux paths a program may pass
          Mappings,       \* mappings a caller adds, to paths and to libraries
          MaxPid          \* bound on next_port_pid

Path == Seq(STRING)
Mapping == Path \X Path   \* from, to

ASSUME PortAssumption ==
    /\ MaxPorts \in Nat \ {0} /\ FirstPid \in Nat \ {0}
    /\ MaxMappings \in Nat /\ MaxLibs \in Nat
    /\ Paths \subseteq Path /\ Mappings \subseteq Mapping
    /\ default_paths \in Seq(Mapping)
    /\ default_libs \in Seq(Mapping) /\ Len(default_libs) <= MaxLibs

VARIABLES ported_processes, ported_count, next_port_pid,
          library_map,    \* its first library_count entries
          asked           \* history: the mappings callers added, each with the pid

procvars == <<ported_processes, ported_count, next_port_pid>>
vars == <<procvars, library_map, asked>>

Slots == 0..(MaxPorts - 1)
PortStatus == {"PORT_INACTIVE", "PORT_ACTIVE", "PORT_SUSPENDED"}

ZeroProcess == [pid |-> 0, status |-> "PORT_INACTIVE", path_mappings |-> <<>>,
                in_use |-> FALSE]

FreshMappings == SubSeq(default_paths, 1,
    IF Len(default_paths) < MaxMappings THEN Len(default_paths) ELSE MaxMappings)

init_port_system ==
    /\ ported_processes = [i \in Slots |-> ZeroProcess]
    /\ ported_count = 0
    /\ next_port_pid = FirstPid
    /\ library_map = default_libs
    /\ asked = {}

\* The slots the loops over processes look at, and are in use.
Live == {i \in Slots : i < ported_count /\ ported_processes[i].in_use}
Free == {i \in Slots : ~ported_processes[i].in_use}

FirstOf(S) == {i \in S : \A j \in S : i <= j}
-----------------------------------------------------------------------------
\* The first mapping whose Linux path is a prefix decides, of the process's and then of
\* the defaults; without one the path moves below /halden.
translate_path(path, mappings) ==
    LET known == mappings \o default_paths
        matches == {k \in DOMAIN known : IsPrefix(known[k][1], path)}
    IN  IF matches = {} THEN <<"/halden">> \o path
        ELSE LET k == CHOOSE m \in matches : \A n \in matches : m <= n
             IN  known[k][2] \o SubSeq(path, Len(known[k][1]) + 1, Len(path))

\* The name the first entry for a library maps it to, as a set of at most one.
map_library(lib, map) ==
    {map[k][2] : k \in {m \in DOMAIN map :
        map[m][1] = lib /\ \A n \in 1..(m - 1) : map[n][1] # lib}}

\* Mutant: the last free slot is taken.
LastFree == {i \in Free : \A j \in Free : j <= i}

FreeSlot == FirstOf(Free)

\* Mutant: the pid is read as the getpid stub reads it, one behind the counter.
PidBehind(slot) == next_port_pid - 1

PidOf(slot) == next_port_pid

\* Mutant: a slot that was used before is not set up again.
MappingsKept(slot) == LET old == ported_processes[slot].path_mappings
                      IN  IF old = <<>> THEN FreshMappings ELSE old

MappingsAtStart(slot) == FreshMappings

\* Refused when the high-water mark is at the limit, also if slots are free.
port_load_elf ==
    /\ ported_count < MaxPorts
    /\ next_port_pid < MaxPid
    /\ \E slot \in FreeSlot :
          /\ ported_processes' = [ported_processes EXCEPT ![slot] =
                [pid |-> PidOf(slot), status |-> "PORT_ACTIVE",
                 path_mappings |-> MappingsAtStart(slot), in_use |-> TRUE]]
          /\ ported_count' = IF slot >= ported_count THEN slot + 1 ELSE ported_count
    /\ next_port_pid' = next_port_pid + 1
    /\ UNCHANGED <<library_map, asked>>

port_kill(slot) ==
    /\ slot \in Live
    /\ ported_processes' = [ported_processes EXCEPT ![slot].status = "PORT_INACTIVE",
                                                    ![slot].in_use = FALSE]
    /\ UNCHANGED <<ported_count, next_port_pid, library_map, asked>>

ChangeStatus(slot, from, to) ==
    /\ slot \in Live
    /\ ported_processes[slot].status = from
    /\ ported_processes' = [ported_processes EXCEPT ![slot].status = to]
    /\ UNCHANGED <<ported_count, next_port_pid, library_map, asked>>

port_suspend(slot) == ChangeStatus(slot, "PORT_ACTIVE", "PORT_SUSPENDED")
port_resume(slot)  == ChangeStatus(slot, "PORT_SUSPENDED", "PORT_ACTIVE")

\* Mutant: the new mapping is looked at first.
PrependMapping(mappings, m) == <<m>> \o mappings

AddMapping(mappings, m) == Append(mappings, m)

\* Mutant: the limit is tested one too late.
RoomOffByOne(slot) == Len(ported_processes[slot].path_mappings) <= MaxMappings

RoomForMapping(slot) == Len(ported_processes[slot].path_mappings) < MaxMappings

port_add_path_mapping(slot, m) ==
    /\ slot \in Live
    /\ RoomForMapping(slot)
    /\ ported_processes' =
          [ported_processes EXCEPT ![slot].path_mappings = AddMapping(@, m)]
    /\ asked' = asked \cup {<<ported_processes[slot].pid, m>>}
    /\ UNCHANGED <<ported_count, next_port_pid, library_map>>

port_add_library_mapping(m) ==
    /\ Len(library_map) < MaxLibs
    /\ library_map' = AddMapping(library_map, m)
    /\ UNCHANGED <<procvars, asked>>

Next == \/ port_load_elf
        \/ \E slot \in Slots :
              \/ port_kill(slot) \/ port_suspend(slot) \/ port_resume(slot)
              \/ \E m \in Mappings : port_add_path_mapping(slot, m)
        \/ \E m \in Mappings : port_add_library_mapping(m)

Spec == init_port_system /\ [][Next]_vars
-----------------------------------------------------------------------------
(***************************************************************************)
(* Properties.                                                             *)
(***************************************************************************)
PortedProcess == [pid : Nat, status : PortStatus, path_mappings : Seq(Mapping),
                  in_use : BOOLEAN]

\* Every variable has its type, and neither table of mappings outgrows its array.
TypeOK == /\ ported_processes \in [Slots -> PortedProcess]
          /\ \A i \in Slots : Len(ported_processes[i].path_mappings) <= MaxMappings
          /\ ported_count \in 0..MaxPorts
          /\ next_port_pid \in Nat
          /\ library_map \in Seq(Mapping) /\ Len(library_map) <= MaxLibs
          /\ asked \subseteq Nat \X Mappings

\* The loops over processes stop at ported_count, and they miss none: the slots
\* that were ever used are exactly those below it.  So port_load_elf refuses
\* (for good) from the first moment all the slots were in use at once.
MarkExact == \A i \in Slots : i < ported_count <=> ported_processes[i].pid # 0

\* A process translates by the defaults and by what was mapped for itself.  Slots are
\* used again, and a kill leaves the mappings of the process that ended where they
\* are; whatever the order of loads, mappings and kills, the next process in the slot
\* has none of them.
MappingsAreOwn ==
    \A i \in Live : LET p == ported_processes[i]
                    IN  \A k \in DOMAIN p.path_mappings :
                           \/ p.path_mappings[k] \in ToSet(default_paths)
                           \/ <<p.pid, p.path_mappings[k]>> \in asked

\* A path that some mapping of a process covers keeps its translation for the
\* process's life, and a library that is mapped keeps its name for ever: a
\* mapping added later never takes precedence over one that is there.
TranslationStable ==
    [][/\ \A i \in Live :
             LET old == ported_processes[i]
                 new == ported_processes'[i]
             IN  new # old /\ new.pid = old.pid =>
                    \A p \in Paths :
                       (\E k \in DOMAIN old.path_mappings :
                           IsPrefix(old.path_mappings[k][1], p))
                       => translate_path(p, new.path_mappings) =
                          translate_path(p, old.path_mappings)
       /\ library_map' # library_map =>
             \A k \in DOMAIN library_map :
                map_library(library_map[k][1], library_map') =
                map_library(library_map[k][1], library_map)]_vars
=============================================================================
