# Halden: a TLA+ project

Halden is a small freestanding operating system in C++: one address space, one
flow of control, a graphical desktop, an in-memory file system, a package
manager and a layer for Linux programs.  This directory holds TLA+ modules for
its core logic, the TLC configurations that check them on small instances, and
proofs that TLAPS checks.

Nothing in Halden runs concurrently.  `_start` (`kernel.cpp`) initialises the
subsystems in a fixed order and then loops: poll the keyboard and the mouse, and
about once a second advance `uptime_seconds` and call the ticks.  Each handler
runs to its end before the next event is read.  What is hard is therefore not
the interleaving of threads but **long sequences of events over state that is
kept in several places**: tables of slots and indices into them, paths and
parent indices, cached listings, flags that survive the closing of a window,
counters that only grow, high-water marks under reused slots.  One action of a
module is one call or one input event, with everything the handler does.

## Inventory

| Part (source) | State | Operations | Talks to |
|---|---|---|---|
| File system, `hlfs/fs.cpp` | node slots, `fs_node_count`, content buffers and their in-use flags | create, delete, rename, write, read, list; `init_hlfs` builds 96 nodes | called by the file manager, the shell and the browser |
| File manager, `apps/filemanager.cpp` | window flags, shown path, listing of slot indices, history, context menu, three name dialogs, delete confirmation, viewer | one handler per click or key | calls the file system; is raised, closed and dragged by the desktop |
| Package manager, `hlpkg/hlpkg.cpp` | packages, processes, binary buffers, `next_pid` | load, execute, kill, suspend, resume, unload, tick | shell commands, main loop |
| Linux layer, `port/port.cpp` | processes with path mappings, library table, `next_port_pid` | load, kill, suspend, resume, add a mapping, translate a path, system calls | shell commands |
| Desktop, `system/applications.cpp`, `apps/terminal.cpp` | focus, drag, menus, WiFi prompt, list of installed programs; `open`/`minimized`/`maximized` of each window | `handle_click`, keys, opening and closing, `add_installed_app` | mouse and keyboard handlers; the windows' own handlers; the network |
| Network, `system/network.cpp` | interface, networks found, pages, packet counters | detection, scan, `connect_to_wifi`, `http_get`, ping | desktop, shell, browser |
| Browser, `apps/browser.cpp` | address bar and its focus, page | opening, typing, Go, clicks | network; gets its clicks and keys from the desktop |
| Terminal and input, `system/terminal.cpp` | text shown, typed line, mouse packet, button state | printing, keys, three-byte mouse packets | shell, desktop |
| Shell, `system/commands.cpp` | current directory | `cd`, `ls`, `cat`, reports, installing and running programs | file names, network, both program tables, app menu |

What makes each part correct:

* **File system.** A path names one node; a node's parent is alive; a buffer is
  taken exactly while a live file owns it; slot indices, which callers keep, never
  come to mean another file; and seen from outside it is a map from paths to files.
* **File manager.** What is shown is what is there; a menu or dialog still acts
  on the file it was opened for; the viewer saves only to its file; one modal part at a time.
* **Package manager and Linux layer.** Pids are unique and never reused although
  slots are; the loops over the process tables miss no process; no process uses a
  buffer that was given back; no process translates paths by another's mappings; a mapping added later changes no translation that was there.
* **Installing.** What was reported as installed can be found in the app menu, as far as its name fits there; the
  two kinds of program together show no pid twice; the menu that grows keeps its entries on the screen.
* **Shell and terminal.** The line that Enter runs is the one behind the prompt, although line and
  text are kept apart, limited apart and cleared apart.
* **Mouse.** The driver finds the beginning of a packet again after lost bytes; the pointer
  follows the hand and stays on the screen; a dragged window hangs where it was taken.
* **Desktop, browser and network.** The focus and the drag are on windows
  that can have them; an opened window gets the keys; the host that is looked up is the
  one in the address; no secured network is joined without a password, and no attempt costs the connection.

`PROJECT.json` lists the components, and under `hazards` every place where this
can go wrong, with the properties that cover it or the reason why none does.

## Modules

| Module | Models | Extends |
|---|---|---|
| `HLFS` | `hlfs/fs.cpp`: the node table and every call on it | |
| `HLFSBoot` | the tree `init_hlfs` builds, node by node, in slot order | |
| `NameSpace` | abstract specification: a map from paths to files | |
| `HLFSRefinement` | the refinement mapping from `HLFS` to `NameSpace` | `HLFS` |
| `HLFSProofs` | proofs about `HLFS`, its listings, and that it implements `NameSpace` | `HLFSRefinement` |
| `FileManager` | the handlers of `apps/filemanager.cpp`, over the file system | `HLFS` |
| `FileManagerProofs` | proofs about `FileManager`, and about the file system under it | `FileManager`, `HLFSProofs` |
| `Signature` | `verify_signature`: 64-bit hash of a header, byte by byte | |
| `Hlpkg` | `hlpkg/hlpkg.cpp` | |
| `HlpkgProofs` | proofs about `Hlpkg` | `Hlpkg` |
| `Port` | `port/port.cpp` | |
| `Menus` | the rows of the app menu and the network menu, as drawn and as clicked | |
| `Installer` | `install` and `run` of the shell, the list of installed programs | `Port`, `Menus`; instance of `Hlpkg` |
| `InstallerProofs` | proofs about `Port`, `Installer` and the rows of both menus | `Installer`; instance of `HlpkgProofs` |
| `Network` | `connect_to_wifi` and what the boot scan may find | |
| `Browser` | `apps/browser.cpp` and the pages of `http_get` | |
| `WindowManager` | `handle_click`, focus, menus, prompt, button edges, keys | `Network`, `Browser` |
| `WindowManagerProofs` | proofs about `WindowManager` | `WindowManager` |
| `Commands` | what the shell makes of a line | |
| `Shell` | the text of the terminal, the typed line, the current directory | `Commands` |
| `ShellProofs` | proofs about `Shell` | `Shell` |
| `Screen` | the framebuffer and the movement of the pointer on it | |
| `Pointer` | `mouse_handler`: packets out of bytes that may be lost | `Screen` |
| `PointerProofs` | proofs about `Pointer` | `Pointer` |
| `Drag` | the position of a window that is dragged | `Screen` |
| `DragProofs` | proofs about `Drag` | `Drag` |
| `MC_*` | instances for TLC | |

Definitions carry the names of the functions and variables they model.  `map` in
`PROJECT.json` gives the lines of each.

### HLFS, HLFSBoot, NameSpace

`filesystem`, `fs_node_count`, `content_storage_used` and `content_storage_data`
are the arrays of the code.  A path is a sequence of components, `/` the empty
one; a typed name is a sequence too, because the dialogs accept `/`.  A node's
`content` says whether its pointer is set: it then points at the buffer of its
own slot.  The actions are `create_file_in_fs`, `delete_file_from_fs`,
`rename_file_in_fs` and `write_file_content`; `Refused` is a call that returns
failure and changes nothing.  `DirectoryContents` is the loop of `get_directory_contents`: it collects, from the first slot
to the last, those `Below` the path.  Left out: sizes, times and permissions, which no
code reads to decide anything; truncation of long texts and names; empty
components (leading, trailing and doubled slashes in a typed name).

`HLFSRefinement` maps the table to `NameSpace` by looking each path up with
`find_node_by_path`; `ImplementsNameSpace` says that every call is the same call
on the map.  That a rename moves only the directory itself, and not what is below
it, is part of the abstract specification, because it is what the code does.

### FileManager

Each action is a click or key that reaches one of the window's handlers, chosen by
what lies under the pointer.  `dialogs` is the set of dialog flags that are set.
What the desktop does to the window (open, close, minimize) is an action as well;
in particular `open_filemanager` resets path, history and listing and leaves menu,
dialogs and viewer as they were.  Left out: geometry, scrolling (nothing calls it),
the highlighted row.

### Hlpkg and Signature

`packages`, `processes` and `binary_storage_used` are the three tables, all of length
`MaxPackages`.  `hlpkg_load` makes up its header (every package is called
`sample_app`) and tests its signature.  That test depends on the uptime only, and
`Signature` computes it as the code does, over the 192 header bytes it hashes, keeping
the low 48 bits that are compared in three limbs; it fails at every uptime of the run
(finding `hlpkg_signature`), and no other can pass: the eight bytes of the timestamp move the hash by less
than 2^31, and at uptime 0 it is more than 2^46 away from the signature.  So that the rest of the package manager is still checked, the
outcome of the test at each uptime is the constant operator `SignatureValid`, which the run about the signature
gives the real test and every other one a test that passes.  Left out:
permission bits, and dependencies, of which a header never has any.

### Port and Installer

`path_mappings` is a sequence of pairs; a Linux path is a sequence of text pieces
so that a prefix may end inside a component, as in the code.  A path is looked up in the mappings of the process and
then in the defaults.  `port_load_elf`
refuses when the high-water mark is at the limit.  `asked` is history: the mappings that callers added, each with the pid
it was added for.  Left out: the ELF header, which
always passes, and the system call table, whose handlers keep no state.

`Installer` is the part of the shell that feeds both program tables and the app menu: `cmd_hlpkg_install` and
`cmd_ports_install` load a program and call `add_installed_app`, which drops what it has no room for and what is in
the list already without telling anybody.  A program's name is a sequence of pieces, and an entry's name holds `NameSize`
of them with the end (`char name[32]`).  The code copies a name of any length there and then writes the type, which lies
right behind the name: a name that does not fit keeps its first `NameSize` pieces, the type's first byte stands for one more, and the
zeros of its other bytes end it (`Stored`).  The test for a name that is there compares with what is stored.  Every name is
assumed to end within its entry, that is within 39 characters.  Left out are longer ones: they write into the next entry, or past the
array if theirs is the last, and with more than 54 characters the buffer of 64 in which `cmd_ports_install` puts the name and
`.AppImage` overflows, where what happens is undefined.  `PackageCalls` and `PortCalls` are the calls of the two parts that no command makes but
that they offer.  `reported` is history: the names whose install the user was told had succeeded, each with its type.

### Menus

Drawing and clicking work out the positions of the rows separately, and the module has both: `DrawnEntry` and
`EntryTop`, `DrawnNetwork` and `NetworkTop`.  `EntryAt` and `NetworkAt` give the row a click is for.  A row is looked at
by its first and its last line.  `Installer` uses the rows of the app menu.  Those of the network menu differ by one row between
drawing and clicking, which is arithmetic and no run's question: the theorem `RowsTakeTheNextNetwork` says what follows for a click.

### WindowManager, Network and Browser

A click is named for what lies under the pointer: a button of the prompt, the taskbar
or a menu, or a zone of a window.  Windows overlap and move, so a point may lie in any
set of the visible windows.  The focused window gets the click first, then terminal,
browser and file manager in that order; the window's own handler runs before
`handle_click` looks at its flags again, and `After` and `BoxFor` say what that handler
did.  The file manager is placed by its unmaximized frame even when maximized, as in the
code.  `LeftPress`, `LeftRelease`, `RightPress` and `RightRelease` are the button edges of
`mouse_handler`; a packet with two edges is two actions.  `KeyTarget` is where a key goes.
The networks found and whether the adapter accepts a connection are nondeterministic.
A password is its length.  `joined` is history: the network of the last connection that came about.

`Browser` has the browser's own handlers; `OwnClick` and `BrowserKey` are where the desktop calls them.  An address is a sequence of
keys, a key a host, a slash or the text `http`, and `Domain` is what `http_get` cuts out of it.  A page is of one of five kinds:
none yet, found, and the three errors.

### Commands and Shell

A line is a sequence of keys, a key a word, a blank or a slash; a fixed message is one character of the text.
`Printed` and `Directory` say what a line prints and where it leaves the shell; what the reporting commands
print, which depends on the machine, is any of `Reports`.  `Shell` keeps the text and the line in two places as the code
does, with a limit for each: what does not fit the text is dropped, and Backspace takes the last character of both.
Opening the terminal clears the text and not the line.  `echoed` is history: since the last prompt nothing was
dropped and no begun line was hidden.  Left out: scancodes and the state of Shift, which decide which character
is typed, and the pixels of the text.

### Screen, Pointer and Drag

`Pointer` is the byte stream.  The mouse is external: `Send` begins a packet, `Lose` takes a
byte away, as the boot menu does.  `mouse_byte` holds the bytes of the packet so far, and
`mouse_cycle` is their number.  The movement is the one signed byte, negated as the code
negates it and limited to 50; the signs and the overflow bits in the header are not read,
as in the code.  `calm` and `hand` serve the properties: a packet is calm if no byte of it was lost and only its header looks
like one, and `hand` is the movement behind the last one sent.  Left out: packets outside of the
graphical mode, which change nothing.

`Drag` takes over where a packet is complete: the pointer moves, then a held window follows, then
come the edges of the left button and of the right one, in this order, in one action.  It has the real
geometry of one window: boxes, title row, maximized frame, the edges `update_window_drag` tests.  A click is the
set of what it may do to the window; which other window or menu lies at a point is left open, so
another one may take any click that the routing lets it have.  `by` and `held` in the record of the
window are history.  `WindowManager` has all windows and menus without positions; `Drag` has the
positions of one.

## Runs

| Run | Question | Bounds | Result |
|---|---|---|---|
| `hlfs_tree` | do paths, parents, buffers and slots stay consistent, and does the table implement the map? | 3 boot nodes, 5 slots, paths of 2 components, a name with a slash, two texts | holds |
| `hlfs_boot_tree` | is what `init_hlfs` builds a tree? | its 96 nodes, 1 free slot | violated |
| `filemanager` | does the kept state agree with the file system, and does the viewer save only its file? | 4 slots, history of 2, two texts, a name with a slash | holds |
| `hlpkg` | buffers, dangling processes, pids | 2 slots each, 5 processes in all, 3 seconds | holds |
| `hlpkg_signature` | does an install work? | uptimes to 300 | violated |
| `installer` | are the Linux tables, both pid ranges and the app menu consistent, whichever command is used? | 2 Linux slots with 3 processes in all, 1 package slot with 2, a list of 2 programs, one name that fits and one that does not, 208 lines | holds |
| `desktop` | focus, drag, keys | 3 windows, no network in reach | holds |
| `browser` | prompt, connection, address | 1 window, up to 2 networks, addresses of 4 keys | holds |
| `pointer` | does the pointer follow the hand, and does one whole packet get over lost bytes? | 3 by 3 pixels for the pointer, movements 8, -127 and -128 | holds |
| `drag` | does a dragged window stay where it should? | screen 8 by 6, window 5 by 3, one column for each box | holds |
| `shell` | is what Enter runs what stands behind the prompt? | a line of 3 keys, a text of 11 | holds |
| `shell_ls_dns` | is the command that the page of halden.os recommends answered? | a line of 4 keys, a text of 14 | violated |

Why these bounds are enough to be worth something:

* Two free slots of the node table allow two nodes at one path, a child under a renamed
  parent, a create at a path a detached node holds, and a full table with dead slots.
  Two components are the least with a parent, a child and a grandparent.  The names
  include one with a slash.
* A history of 2 is filled, cut back and refused in a few events, as 32 is.  One free slot is enough for the file manager
  to create, delete and open a file while a menu, a dialog, the viewer or the history remembers another.  With a name that holds a
  slash a folder is made whose path is not its parent's with one component, and it is entered with the history empty, begun and full.
* Two slots are enough for a slot to be reused while the other is live, for the high-water
  mark to stand above a hole, and for the tables to be full.
* Two slots with three processes let a process take a slot in which another one left its mappings.  `NameSize` 2 has a name of one
  piece, which fits, and one of two, which just does not, as 32 characters do not fit 32 bytes.
* In `installer` the first pids are 19 and 20, so that the two ranges meet after one execution, as 1000 and 2000 do after a thousand.
  On 208 lines the second program of a list of two takes the terminal's entry off the screen, as the sixteenth of
  sixteen does on 768.  (768 is what the settings menu says of the screen, `applications.cpp:398`; the real height comes from
  the boot loader, and the theorem holds for each that fits its hypothesis.)
* The desktop needs all three windows, because the order in which they are asked differs
  with each; prompt and browser need only one.  With `MinPassword` and `MaxPassword` 1 there is a password that is too short, one that is
  long enough and a full array.  Two networks are the least for a connection to be there while another network is tried.
* Four keys are the shortest address with a protocol and a host, and one with a protocol, no host and a path.
* A text of 11 fills up in the middle of a line of 3, of an echo, of a message and of a prompt.
* Of the movements of `pointer`, 8 looks like a header and the others do not, and -128 has no positive counterpart in
  a byte; with three pixels the pointer meets an edge from each.
* In `drag` the window has two columns to be taken at, four columns and three rows to be moved in, and a
  title of two rows; the pointer reaches the taskbar and every edge, also with the window held back by one.
* The proofs do without all of these bounds.

Every bound is a constant: `MaxFiles`, `HistoryLimit`, `MaxDepth` (no path longer),
`MaxPackages`, `MaxUptime`, `MaxPid` and `MaxPackagePid` (no pid is handed out beyond), `MaxPorts`, `MaxMappings`, `MaxLibs`,
`MaxApps`, `NameSize`, `MaxNetworks`, `MinPassword`, `MaxPassword`, `ShownRows`, `MaxAddress`, `MaxText`, `MaxLine`, and `fb_width`,
`fb_height`, `Moves`, `Steps` and the sizes of the window.

Deadlock is unchecked only in `desktop` and `browser`, where a shutdown ends the system.

### What the violated runs show

* `hlfs_boot_tree`: `init_hlfs` creates `/hlfs/src/hlfs/fs.cpp` under the index of
  `/hlfs/src/system`, and nothing creates `/hlfs/src/hlfs`.  No directory lists the file.  (TLC also evaluates here
  what the proofs assume of the boot tree, on the real one, and finds it true.)
* `hlpkg_signature`: the signature test fails at every uptime, so every install is refused.
* `shell_ls_dns`: the page of halden.os tells its reader to type `ls /dns`; `cmd_ls` knows no directory by its path, and
  answers that there is no such file or directory.

Also worth knowing, though no text of the repository says otherwise, or no state shows it:

* after renaming `/a`, `/a/b` keeps its path, is
  listed nowhere, and still keeps its parent from being deleted (`DetachedByRenameOnly`);
* unloading a package ends
  the processes of *every* package, since all have one name; a package slot is used once, so
  `MAX_PACKAGES` installs use the table up for good (`PackageSlotsAreUsedOnce`);
* `port_load_elf`
  refuses for ever once all its slots were in use at once (`MarkExact`); after a thousand executions a package's process may have the pid
  of a Linux one (`PsNamesOneProcess` says until when not);
* a terminal or browser that
  is closed while maximized leaves the focus behind (`FocusedIsOpen` says exactly when);
* with sixteen programs installed, on a screen of 768 lines, the terminal's entry is above the screen's edge (`TerminalLeavesTheScreen`);
* a click on a row of the network menu takes the network of the next row, and on the last row none (theorem `RowsTakeTheNextNetwork`);
* a program whose name has 32 characters or more is listed with its first 32 and a byte of its type behind them, and as the test for its name does not
  find it, each further install of it takes another of the sixteen entries (`InstalledIsListed` says so);
* a folder whose name holds a slash is listed below its last slash and entered by its whole name, which leads somewhere else: `/a/b`, made in
  `/` under the name `a/b`, is listed in `/a`, and a click on it shows `/a/a/b` (`EnterLeadsToNode` says where each folder leads);
* an address with a path but without a protocol is looked up with its path, so it is not found (`HostOfAddress`);
* the right button begins a
  drag that its release does not end (`StrayDragIsRight`); a movement of more than 127 turns the pointer round, and one of -128
  down does (`FollowsHand` leaves both out);
* opening the terminal over a begun line shows a bare prompt, and Enter runs the hidden line with the next
  (`EnterRunsWhatIsShown` leaves it out); once the text is full, nothing more appears until the terminal is opened again;
* the file manager's history is not a browser's: opening a folder pushes the path that is left (`filemanager.cpp:462`) and Up
  the path that is reached (`:140`), so Forward after Back does not return to the folder, and Back out of the second folder skips the first;
* `help` lists `uptime`, which is no command.

### Mutants

Every property of a passing run has a mutant: an operator defined before the one it replaces, which
changes the code as a plausible bug would (a limit tested one too late, a lookup dropped, a reset
forgotten) and under which TLC finds the property violated.

## Fairness and liveness

`Pointer` states weak fairness of `mouse_handler`: the main loop calls it for ever, and a byte of the mouse
waits in the controller until it is read.  It states none of the mouse and none of the user.  `Resynchronises` therefore has
its conditions in the formula: the mouse keeps sending, and from some time on no byte is lost and no movement
looks like a header.  Without the last, a mouse that always moves by 8 keeps the driver out of step for ever.

The other specifications state no fairness.  The system acts when its user does, and nothing obliges a user to
click.  There is no queue, retry or background work that must eventually finish; the clock always goes on,
and nothing waits for it.

## Proofs

The modules `*Proofs` are checked by TLAPS for every value of the constants.

**HLFS.**  `HLFSInv` is the conjunction of `TypeOK`, `PathUnique`, `ParentAlive` and
`StorageExact`.  None of the parts is inductive alone.  That paths stay unique rests on
`find_node_by_path` finding every node in use, which needs `StorageExact` (nothing in use above the
high-water mark).  That parents stay alive rests on the check in `delete_file_from_fs` reaching every
child, which needs the same, and on the slot a create uses being nobody's parent yet, which needs
parent indices to be smaller than their nodes' (`ParentAlive`).  `FindNode` says what a lookup returns;
there is then one lemma per call, and `Inductive` joins them.  The assumptions are those of `HLFS`: at
least one slot, non-empty names, and of the boot tree only what TLC evaluates for the real one: distinct
paths, names that are their last components, parents that come earlier and are directories, `/` first.  `SlotsAreNeverReused` and `DriftIsExplained` are action properties from
the same invariant; the second needs that a node of one component's name lies directly below the directory it is joined to, and that a
node is never its own parent.

**The map.**  `ImplementsTheMap` proves that every behaviour of `HLFS` is one of `NameSpace`.  With the invariant, the
view shows at each path that is held the one slot that holds it (`ViewShown`); applied before and after a step, this
turns each call on the slots into the call on the map, with one lemma for each of the four.

A call is refined whatever path it is given (`Call`, `CallRefines`), not only those an instance enumerates.  So both, the invariant and the map,
carry over to every module whose actions make these calls.

**Listings.**  A directory's listing is what a loop over the slots collects.  `Round` is one round of it, and `Climb` the induction over its
rounds: a set of numbers that holds 0 and every successor holds them all, by its least counterexample, since the provers cannot use the
library's induction theorem, which takes an operator.  `CollectedAscending` then says of the loop that it lists the slots below the path, each once, in slot order.

**File manager.**  `OneModalAtATime` stands first: `OneModal` is inductive by itself.  `FMInv` joins it with `HLFSInv`, one part for the types of each group of
variables, `ListingFresh`, `TargetAlive` and `RowKept`.  Every event is one call on the file system or none (`EventCalls`), which gives
`HLFSInv` back.  `TargetAlive` and `RowKept` (the menu's row is that of its path in the directory of that path, whatever the window shows) need `OneModal`: a dialog
that deletes or renames could otherwise be open under a menu.  `ListingFresh` needs that a call is followed by a new listing, and that
a listing depends only on which slots are in use and on their paths.  `ViewersKeepTheirFile` needs that a viewer's path is a file's, and again `OneModal`.
`MenusStayAgreed` follows from `RowKept`.  `EnteringLeadsToTheNode` needs one fact more, that every path but that of `/` is
some directory's with the node's name behind it (`NamedBelow`; every call keeps it, the renames too).  For a folder whose name has one component
that directory is the one it is listed in; for any other the listing's directory with the whole name behind it is too long to be
the folder's path (`AddedName`).  `WindowReusesNoSlot`, `WindowDriftIsExplained` and
`WindowImplementsTheMap` are the theorems of the file system, under the window's events.

**Hlpkg.**  `IInv` joins the invariants of the run with the types, `NoneAboveMark` (the loops miss no process), `PidsUnique`
and `CpuTimeBounded` (no process is charged more
time than passed since its start), which are proved and not run.  `BuffersOwned` is inductive given the types: a
load takes a buffer whose mark is clear, which no loaded package can own.  `PidsUnique` is inductive
because its second part speaks of every slot and not only of live ones: the next pid is above all
that any slot ever held.  It also needs `NoneAboveMark`, since raising the mark must not bring an old
process back to life.  `NoDanglingBinary` needs that a process keeps its buffer (`ProcessesKept`, which
holds of every step that starts no process) and that unloading ends all processes of the package's name,
which every process carries.  `PidsAreNeverReused` and `PackageSlotsAreUsedOnce` are action properties from the
same invariant.  The assumption is that the tables have a slot and that the first pid is not 0.

**Port and Installer.**  `PortInv` joins `TypeOK`, `MarkExact` and `PidsHandedOut`: a process has a pid, and a pid is one of those that
were handed out.  Without it `MarkExact` is not inductive: the slot a load takes is the first free one, and that it does not lie
above the mark needs every slot in use below it to have a pid.  Each step of `Installer` is a step of `Port` and a step of `Hlpkg`
(`StepOfPort`, `StepOfPackages`), so the invariants of both hold of the two together; the one of `Hlpkg` comes with its proofs, by
instantiating `HlpkgProofs`.  `InstallerImplementsPort` and `InstallerImplementsPackages` say it of behaviours: seen alone, each part behaves as its own
specification says, so that `PackagesStaySound` has the theorems of the package manager for the commands of the shell.  `PsStaysUnambiguous` then puts the Linux pids at or above the first, the package pids below
the next.  `MappingsStayOwn` rests on a load setting the slot's mappings
anew, and on a live process growing by mappings asked for with its pid only (`MappingsOwned`).
`InstalledStaysListed` is about the list of the app menu, which needs its own invariant: that it is no longer than its array, and holds only names that
were given or what is left of them.  One that does not fit is never stored as it is, because the byte of the type stands where it has one that a key
can type (`StoredNames`).  `TranslationsStay` rests on the first mapping
that covers a path deciding, whatever stands behind it (`FirstCovers`).  `TerminalReachableUntilFull` assumes that the screen holds all
programs but the last of a full list.  `RowsTakeTheNextNetwork` is arithmetic on the two ways in which the rows of the network menu are placed.

**Desktop.**  `DeskInv` has four parts: windows with `FocusedIsOpen`; menus and prompt with `PromptOverMenu` and at most one menu;
the interface; the browser.  `PromptOverMenu` needs that there is at most one menu, or Connect would leave another open under the prompt; the browser's
part says that a page that came over the network means that there still is one, which is what `ConnectionKept` needs.
The action properties `SecuredNeedsPassword`, `ConnectionKept`, `OpenedGetsKeys` and `DragStartsFocused` follow from it, each by the
click or key that can disturb it.
`HostIsLookedUp` is about what `Domain` makes of an address, in the two cases of one with a protocol and one without; what it needs of sequences is
where the first slash of an address, or of the rest behind a protocol, lies (`FirstSlashIs`, `UpToSlashIs`).  `DesktopTypeCorrect`, that neither
password nor address outgrows its array, follows from the same invariant and is proved and not run.

**Shell.**  `ShellInv` joins the types and `EnterRunsWhatIsShown`, which is inductive with them: a key that fits lengthens
prompt and line alike, Backspace shortens both, and a prompt that fits the text ends it.

**Pointer.**  `PointerInv` joins the types and two facts about the wire.  `WireEnds`: the bytes under way are the last ones of the
hand's packet.  `CalmProgress`: in a calm packet, nine pairs are all there are of bytes kept and bytes to come.  A driver that
was one or two bytes late takes the new header for a movement, ends the packet it was in, and drops the calm movements that
follow; of the pairs with nothing to come the only one is nothing kept, which is `OnePacketIsEnough`.  `HandIsFollowed` is the arithmetic of one signed
byte and of an edge of the screen; `InStepUntilLoss` and `PointerMovesInSteps` are action properties from the same invariant, the second
being what `Drag` takes for granted with `Steps`.  Together they leave of `Resynchronises` only that the driver reads the bytes that wait.

**Drag.**  `DragInv` is the type invariant, `GrabHeld`, `StrayDragIsRight`, and that nothing is held while the left button is
up.  Without the last, `GrabHeld` is not inductive: the pointer could leave a held window behind.  `Sound` is the same of
any window, pointer and button, so that one lemma for each part of a packet carries it from the movement through both
buttons.  A drag begins sound because what is in its room stays where it is (`FitStays`), which is where `GrabHeld` needs
the type invariant.  `NothingJumps` follows from `GrabHeld` before and after, a click moving nothing, and the edges bringing no two points
further apart (`FitBringsTogether`).  The assumptions: the pointer and the window fit on the screen at boot,
which for the window is a framebuffer of at least 750 by 530, and the boxes lie right of the grip.

Only model-checked: `Resynchronises`, which is liveness under fairness, and what the hash of `Signature` computes, a long sum of given
bytes that TLC evaluates and that says nothing for other values.  Every invariant and every action property of the passing runs is proved.  One of the theorems has a
hypothesis beyond the assumptions of the modules, named above: `TerminalReachableUntilFull`.

## Not modelled

* Scancodes, the pixels of texts and windows, device registers: I/O, or conversions that no property is about.
* The texts of the reporting commands (`fetch`, `df`, `free`, `ps`, `help` and so on): they print tables and change nothing.
* `ping` and the packet counters: no code reads the counters (`get_network_stats` is never called), and an answer is not waited for.
* The settings menu: nothing sets its flag.
* Rendering in `apps/browser.cpp`: it keeps no state; the scroll offset is never anything but zero.
* `kernel.cpp`: the order of initialisation is the `Init` of the modules, its clock is `Hlpkg`'s `tick`, and its
  loop over the mouse is the fairness of `Pointer`.
* The boot menu and `system/utils.cpp`: drawing before the system starts, and stateless helpers used by their meaning.
* `system/filesystem.cpp`: an earlier copy of `hlfs/fs.cpp` that defines the same symbols.

## Plan

Done, in this order: the file system with its boot tree, abstract map and proofs; the file manager over it;
the package manager with its signature and proofs; the Linux layer; the desktop with the network; the mouse driver; the dragged window with proofs;
the shell and the terminal's text with proofs; the commands that install and run, over both program tables, with the app menu and proofs;
the browser within the desktop, with proofs of both; the proof that the file system implements the map; the proofs of the file manager, of the
mouse driver, and of what the installer inherits from its parts.

What could follow: `Drag` as a composition with `Pointer`, whose steps are proved to be Drag's; the desktop with the file manager inside it, so that
`OpenedGetsKeys` and `OneModal` meet; the shell's commands over the same processes as `Installer`, once one of
them changes more than the two program tables and the app menu.
