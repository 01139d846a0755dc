-------------------------- MODULE FileManagerProofs --------------------------
(***************************************************************************)
(* Proofs about FileManager, for every file system, every length of the    *)
(* history and every name and text that is typed.                          *)
(***************************************************************************)
EXTENDS FileManager, HLFSProofs

LEMMA InitModal == FMInit => OneModal
  BY DEF FMInit, OneModal

\* With nothing open over the list, or the menu about to close, opening a file
\* opens the viewer at most.
LEMMA OpenFileModal ==
    ASSUME OneModal, NEW idx, open_file_at_index(idx), ~viewer_open, dialogs = {},
           context_menu_type' = "CTX_NONE", dialogs' = dialogs
    PROVE  OneModal'
  BY DEF OneModal, open_file_at_index, viewvars

LEMMA ListClickModal ==
    ASSUME OneModal, NEW row, NEW soon, ListClick(row, soon)
    PROVE  OneModal'
<1>1. Idle /\ UNCHANGED menuvars /\ UNCHANGED dlgvars
  BY DEF ListClick
<1>2. CASE open_file_at_index(row)
  BY <1>1, <1>2, OpenFileModal DEF Idle, menuvars, dlgvars
<1>3. CASE UNCHANGED viewvars
  BY <1>1, <1>3 DEF OneModal, menuvars, dlgvars, viewvars
<1> QED
  BY <1>2, <1>3 DEF ListClick

\* The menu closes with every click; what it opens is alone.
LEMMA MenuClickModal ==
    ASSUME OneModal, NEW item, handle_context_menu_click(item)
    PROVE  OneModal'
<1>1. ~viewer_open /\ dialogs = {} /\ context_menu_type' = "CTX_NONE"
  BY DEF handle_context_menu_click, MenusAllowed, MenuClosed
<1>2. CASE open_file_at_index(context_menu_target_idx) /\ UNCHANGED dlgvars
  BY <1>1, <1>2, OpenFileModal DEF dlgvars
<1>3. ASSUME NEW flag, OpenDialog(flag)
      PROVE  OneModal'
  <2>1. dialogs' = {flag} /\ UNCHANGED viewvars
    BY <1>1, <1>3 DEF OpenDialog
  <2> QED
    BY <1>1, <2>1 DEF OneModal, viewvars
<1>4. CASE UNCHANGED <<dlgvars, viewvars>>
  BY <1>1, <1>4 DEF OneModal, dlgvars, viewvars
<1> QED
  BY <1>2, <1>3, <1>4 DEF handle_context_menu_click

LEMMA RightClickModal ==
    ASSUME OneModal, NEW row, handle_filemanager_rightclick(row)
    PROVE  OneModal'
  BY DEF OneModal, handle_filemanager_rightclick, MenusAllowed, dlgvars, viewvars

\* The dialogs' own events only take flags away, with the viewer closed.
LEMMA DialogModal ==
    ASSUME OneModal, dialogs' \subseteq dialogs,
           UNCHANGED <<viewer_open, viewer_editing, context_menu_type>>
    PROVE  OneModal'
  BY DEF OneModal

LEMMA DialogEventsModal ==
    ASSUME OneModal,
           DialogEnter \/ DialogCancel \/ \E yes \in BOOLEAN : DeleteConfirm(yes)
    PROVE  OneModal'
<1>1. CASE DialogEnter
  BY <1>1, DialogModal DEF DialogEnter, menuvars, viewvars
<1>2. CASE DialogCancel
  BY <1>2, DialogModal DEF DialogCancel, menuvars, viewvars
<1>3. CASE \E yes \in BOOLEAN : DeleteConfirm(yes)
  BY <1>3, DialogModal DEF DeleteConfirm, menuvars, viewvars
<1> QED
  BY <1>1, <1>2, <1>3

\* The viewer's own events leave it open or close it; text is typed in an open one.
LEMMA ViewerEventsModal ==
    ASSUME OneModal,
           \/ \E text \in Contents : handle_viewer_keyboard(text)
           \/ ViewerEditSave
           \/ ViewerClose
    PROVE  OneModal'
<1>1. CASE \E text \in Contents : handle_viewer_keyboard(text)
  BY <1>1 DEF OneModal, handle_viewer_keyboard, menuvars, dlgvars
<1>2. CASE ViewerEditSave
  BY <1>2 DEF OneModal, ViewerEditSave, menuvars, dlgvars
<1>3. CASE ViewerClose
  BY <1>3 DEF OneModal, ViewerClose, menuvars, dlgvars
<1> QED
  BY <1>1, <1>2, <1>3

LEMMA NavigationModal ==
    ASSUME OneModal, navigate_back \/ navigate_forward \/ navigate_up
    PROVE  OneModal'
  BY DEF OneModal, navigate_back, navigate_forward, navigate_up, menuvars, dlgvars, viewvars

\* Closing, minimizing and opening again leave what is open over the list, but for
\* the menu, which a click on the close box may dismiss.
LEMMA WindowModal ==
    ASSUME OneModal, open_filemanager \/ close_filemanager \/ set_filemanager_minimized
    PROVE  OneModal'
  BY DEF OneModal, open_filemanager, close_filemanager, set_filemanager_minimized,
         menuvars, dlgvars, viewvars

LEMMA StepModal == OneModal /\ [FMNext]_vars => OneModal'
<1> SUFFICES ASSUME OneModal, [FMNext]_vars PROVE OneModal'
  OBVIOUS
<1>1. CASE UNCHANGED vars
  BY <1>1 DEF OneModal, vars, fmvars, menuvars, dlgvars, viewvars
<1>2. ASSUME NEW n, TypeName(n)
      PROVE  OneModal'
  BY <1>2 DEF OneModal, TypeName, menuvars, viewvars
<1> QED
  BY <1>1, <1>2, ListClickModal, MenuClickModal, RightClickModal, DialogEventsModal,
     ViewerEventsModal, NavigationModal, WindowModal DEF FMNext
-----------------------------------------------------------------------------
(***************************************************************************)
(* The inductive invariant.                                                *)
(***************************************************************************)
\* FMTypeOK, in the parts the events change together.
WindowOK == /\ {filemanager_open, fm_minimized} \subseteq BOOLEAN
            /\ last_clicked_file \in Rows \cup {-1}

NavOK == /\ current_fm_path \in Seq(Comp)
         /\ file_list \in Seq(Slots)
         /\ navigation_history \in Seq(Seq(Comp))
         /\ Len(navigation_history) <= HistoryLimit
         /\ navigation_history_pos \in -1..(Len(navigation_history) - 1)
         /\ filemanager_open => navigation_history_pos >= 0

MenuOK == /\ context_menu_type \in {"CTX_NONE", "CTX_FILE", "CTX_EMPTY"}
          /\ context_menu_target \in Seq(Comp)
          /\ context_menu_target_idx \in Rows \cup {-1}

DialogOK == dialogs \subseteq DialogFlags /\ dialog_input \in Seq(Comp)

ViewerOK == /\ {viewer_open, viewer_editing} \subseteq BOOLEAN
            /\ viewer_path \in Seq(Comp)
            /\ viewer_content \in Contents

\* The row the open menu keeps is the row of its target in the target's own
\* directory, whatever directory the window shows by now: MenuAgrees without its
\* condition on the window, and inductive.
RowKept ==
    context_menu_type = "CTX_FILE" =>
        LET here == DirectoryContents(ParentPath(context_menu_target))
        IN  /\ context_menu_target_idx \in 0..(Len(here) - 1)
            /\ filesystem[here[context_menu_target_idx + 1]].path = context_menu_target

\* OneModal is what keeps TargetAlive and RowKept: the file system changes under a
\* dialog that then closes or under the viewer, never under an open menu.
FMInv == /\ HLFSInv
         /\ WindowOK /\ NavOK /\ MenuOK /\ DialogOK /\ ViewerOK
         /\ OneModal /\ ListingFresh /\ TargetAlive /\ RowKept
-----------------------------------------------------------------------------
(***************************************************************************)
(* The file system under the window.                                       *)
(***************************************************************************)
\* Every event makes at most one call on the file system.
LEMMA DialogEnterCalls ==
    ASSUME FMInv, DialogEnter
    PROVE  [Call]_fsvars
<1>1. current_fm_path \in Seq(Comp) /\ context_menu_target \in Seq(Comp)
      /\ dialog_input \in Seq(Comp)
  BY DEF FMInv, NavOK, MenuOK, DialogOK
<1>2. CASE UNCHANGED fsvars
  BY <1>2
<1>3. CASE dialog_input # <<>> /\ DialogCall(ActiveDialog, dialog_input)
  BY <1>1, <1>3 DEF DialogCall, Call, Typed, CreateTypes
<1> QED
  BY <1>2, <1>3 DEF DialogEnter

LEMMA EventCalls == FMInv /\ [FMNext]_vars => [Call]_fsvars
<1> SUFFICES ASSUME FMInv, [FMNext]_vars PROVE [Call]_fsvars
  OBVIOUS
<1>1. /\ context_menu_target \in Seq(Comp) /\ viewer_path \in Seq(Comp)
      /\ viewer_content \in Contents
  BY DEF FMInv, MenuOK, ViewerOK
<1>2. ASSUME NEW yes \in BOOLEAN, DeleteConfirm(yes) PROVE [Call]_fsvars
  BY <1>1, <1>2 DEF DeleteConfirm, Call
<1>3. CASE ViewerEditSave
  BY <1>1, <1>3 DEF ViewerEditSave, Call
<1>4. CASE open_filemanager \/ close_filemanager \/ set_filemanager_minimized
           \/ navigate_back \/ navigate_forward \/ navigate_up
           \/ DialogCancel \/ ViewerClose \/ UNCHANGED vars
  BY <1>4 DEF open_filemanager, close_filemanager, set_filemanager_minimized, navigate_back,
              navigate_forward, navigate_up, DialogCancel, ViewerClose, vars
<1>5. ASSUME NEW row, \/ \E soon \in BOOLEAN : ListClick(row, soon)
                      \/ handle_filemanager_rightclick(row)
                      \/ handle_context_menu_click(row)
                      \/ TypeName(row)
                      \/ handle_viewer_keyboard(row)
      PROVE  [Call]_fsvars
  BY <1>5 DEF ListClick, handle_filemanager_rightclick, handle_context_menu_click, TypeName,
              handle_viewer_keyboard
<1> QED
  BY <1>2, <1>3, <1>4, <1>5, DialogEnterCalls DEF FMNext

\* What the listing shows at a row: the one live node of a path directly below here.
LEMMA RowFacts ==
    ASSUME FMInv, filemanager_open, NEW row \in 0..(Len(file_list) - 1)
    PROVE  LET i == file_list[row + 1]
           IN  /\ i \in Below(current_fm_path)
               /\ i \in InUse /\ i # 0
               /\ filesystem[i] \in FSNode
               /\ Holds(i, filesystem[i].path)
               /\ Exists(filesystem[i].path)
               /\ find_node_by_path(filesystem[i].path) = i
<1> DEFINE i == file_list[row + 1]
           S == Below(current_fm_path)
<1>1. Ascending(Collected(S), S)
  BY CollectedAscending DEF Below
<1>2. file_list = Collected(S)
  BY DEF FMInv, ListingFresh, DirectoryContents
<1>3. file_list \in Seq(S)
  BY <1>1, <1>2 DEF Ascending
<1>4. i \in S
  BY <1>3
<1>5. /\ i \in Slots /\ i < fs_node_count /\ filesystem[i].in_use
      /\ filesystem[i].path # <<>>
  BY <1>4 DEF Below
<1>6. i \in InUse /\ i # 0 /\ filesystem[i] \in FSNode
  BY <1>5 DEF InUse, FMInv, HLFSInv, ParentAlive, TypeOK
<1>7. Holds(i, filesystem[i].path) /\ Exists(filesystem[i].path)
  BY <1>5 DEF Holds, Exists
<1>8. PICK p : p = filesystem[i].path
  OBVIOUS
<1>9. find_node_by_path(p) \in InUse /\ filesystem[find_node_by_path(p)].path = p
  BY <1>7, <1>8, FindNodeFacts DEF FMInv
<1>10. find_node_by_path(p) = i
  BY <1>6, <1>8, <1>9 DEF FMInv, HLFSInv, PathUnique
<1> QED
  BY <1>4, <1>6, <1>7, <1>8, <1>10

\* Reading a directory fills the list with slots.
LEMMA LoadedList ==
    ASSUME load_directory
    PROVE  file_list' \in Seq(Slots) /\ ListingFresh'
<1>1. PICK S : S = Below(current_fm_path)'
  OBVIOUS
<1>2. S \in SUBSET Slots
  BY <1>1 DEF Below
<1>3. Ascending(Collected(S), S)
  BY <1>2, CollectedAscending
<1>4. file_list' = Collected(S)
  BY <1>1 DEF load_directory, DirectoryContents
<1>5. file_list' \in Seq(S)
  BY <1>3, <1>4 DEF Ascending
<1>6. file_list' \in Seq(Slots)
  BY <1>2, <1>5
<1> QED
  BY <1>6 DEF ListingFresh, load_directory

\* As long as the nodes stay, the directory shown stays as it was read.
LEMMA ListingStays ==
    ASSUME ListingFresh, UNCHANGED <<filesystem, fs_node_count, current_fm_path, file_list>>,
           filemanager_open' => filemanager_open
    PROVE  ListingFresh'
  BY DEF ListingFresh, DirectoryContents, Below
-----------------------------------------------------------------------------
(***************************************************************************)
(* Where the window is and where it was.                                   *)
(***************************************************************************)
LEMMA Pushed ==
    ASSUME NavOK, NEW p \in Seq(Comp), push_navigation_history(p)
    PROVE  /\ navigation_history' \in Seq(Seq(Comp))
           /\ Len(navigation_history') <= HistoryLimit
           /\ navigation_history_pos' \in -1..(Len(navigation_history') - 1)
           /\ navigation_history_pos >= 0 => navigation_history_pos' >= 0
<1> DEFINE kept == SubSeq(navigation_history, 1, navigation_history_pos + 1)
<1>1. PICK l \in Nat : l = Len(navigation_history)
  BY DEF NavOK
<1>2. /\ navigation_history_pos \in -1..(l - 1) /\ l <= HistoryLimit
      /\ HistoryLimit \in Nat /\ navigation_history \in Seq(Seq(Comp))
  BY <1>1, HistoryLimitAssumption DEF NavOK
<1>3. kept \in Seq(Seq(Comp)) /\ Len(kept) = navigation_history_pos + 1
  <2>1. \A k \in 1..(navigation_history_pos + 1) : navigation_history[k] \in Seq(Comp)
    BY <1>1, <1>2
  <2> QED
    BY <1>1, <1>2, <2>1
<1>4. CASE navigation_history_pos < HistoryLimit - 1
  <2>1. /\ navigation_history' = Append(kept, p)
        /\ navigation_history_pos' = navigation_history_pos + 1
    BY <1>4 DEF push_navigation_history
  <2> HIDE DEF kept
  <2>2. Append(kept, p) \in Seq(Seq(Comp)) /\ Len(Append(kept, p)) = Len(kept) + 1
    BY <1>3
  <2> QED
    BY <1>2, <1>3, <1>4, <2>1, <2>2
<1>5. CASE ~(navigation_history_pos < HistoryLimit - 1)
  BY <1>2, <1>5 DEF push_navigation_history, NavOK
<1> QED
  BY <1>4, <1>5

\* Going to a position of the history.
LEMMA GoneTo ==
    ASSUME NavOK, NEW pos \in 0..(Len(navigation_history) - 1), GoTo(pos),
           UNCHANGED filemanager_open
    PROVE  NavOK' /\ ListingFresh'
<1>1. PICK l \in Nat : l = Len(navigation_history)
  BY DEF NavOK
<1>2. navigation_history[pos + 1] \in Seq(Comp)
  BY <1>1 DEF NavOK
<1>3. file_list' \in Seq(Slots) /\ ListingFresh'
  BY LoadedList DEF GoTo
<1> QED
  BY <1>1, <1>2, <1>3 DEF NavOK, GoTo

\* Going to a path that is kept in the history or whose parent is.
LEMMA WentTo ==
    ASSUME NavOK, NEW p \in Seq(Comp), push_navigation_history(p),
           current_fm_path' \in Seq(Comp), load_directory, UNCHANGED filemanager_open
    PROVE  NavOK' /\ ListingFresh'
<1>1. file_list' \in Seq(Slots) /\ ListingFresh'
  BY LoadedList
<1> QED
  BY <1>1, Pushed DEF NavOK

LEMMA NavStays ==
    ASSUME FMInv, UNCHANGED <<filesystem, fs_node_count, filemanager_open, navvars>>
    PROVE  NavOK' /\ ListingFresh'
<1>1. ListingFresh'
  BY ListingStays DEF FMInv, navvars
<1> QED
  BY <1>1 DEF FMInv, NavOK, navvars

\* The list is read again where the window is.
LEMMA Refreshed ==
    ASSUME NavOK, load_directory,
           UNCHANGED <<filemanager_open, current_fm_path, navigation_history,
                       navigation_history_pos>>
    PROVE  NavOK' /\ ListingFresh'
  BY LoadedList DEF NavOK

\* Opening a row, from the list or from the menu.
LEMMA OpenedRow ==
    ASSUME FMInv, filemanager_open, NEW idx, open_file_at_index(idx),
           UNCHANGED <<fsvars, filemanager_open>>
    PROVE  NavOK' /\ ListingFresh' /\ ViewerOK'
<1> DEFINE node == filesystem[file_list[idx + 1]]
           onList == idx \in 0..(Len(file_list) - 1)
<1>1. onList => node \in FSNode /\ (Readable(node.path) => read_file_content(node.path) \in Contents)
  <2> SUFFICES ASSUME onList
               PROVE  node \in FSNode /\ read_file_content(node.path) \in Contents
    OBVIOUS
  <2>1. PICK i : i = file_list[idx + 1]
    OBVIOUS
  <2>2. i \in InUse /\ filesystem[i] \in FSNode /\ find_node_by_path(filesystem[i].path) = i
    BY <2>1, RowFacts
  <2>3. content_storage_data[i] \in Contents
    BY <2>2 DEF InUse, FMInv, HLFSInv, TypeOK
  <2> QED
    BY <2>1, <2>2, <2>3 DEF read_file_content
<1> HIDE DEF node
<1>2. onList => node.name \in Seq(Comp) /\ node.path \in Seq(Comp)
  BY <1>1 DEF FSNode
<1>3. NavOK /\ ViewerOK /\ current_fm_path \in Seq(Comp)
  BY DEF FMInv, NavOK
<1>4. CASE /\ onList
           /\ push_navigation_history(current_fm_path)
           /\ current_fm_path' = EnteredPath(current_fm_path, node.name)
           /\ load_directory
           /\ UNCHANGED viewvars
  <2>1. EnteredPath(current_fm_path, node.name) \in Seq(Comp)
    BY <1>2, <1>3, <1>4, JoinType DEF EnteredPath
  <2>2. ViewerOK'
    BY <1>3, <1>4 DEF ViewerOK, viewvars
  <2> QED
    BY <1>3, <1>4, <2>1, <2>2, WentTo
<1>5. CASE /\ onList
           /\ Readable(node.path)
           /\ viewer_open' = TRUE /\ viewer_editing' = FALSE
           /\ viewer_path' = node.path
           /\ viewer_content' = read_file_content(node.path)
           /\ UNCHANGED navvars
  <2>1. ViewerOK'
    BY <1>1, <1>2, <1>5 DEF ViewerOK
  <2> QED
    BY <1>5, <2>1, NavStays DEF fsvars
<1>6. CASE UNCHANGED <<navvars, viewvars>>
  BY <1>3, <1>6, NavStays DEF fsvars, ViewerOK, viewvars
<1> QED
  BY <1>4, <1>5, <1>6 DEF open_file_at_index, node
-----------------------------------------------------------------------------
(***************************************************************************)
(* What menus and dialogs are about.                                       *)
(***************************************************************************)
\* A path is remembered for a choice that is still to be made.
Pending == \/ context_menu_type = "CTX_FILE"
           \/ dialogs \cap {"rename", "delete_confirm"} # {}

LEMMA TargetKept ==
    ASSUME TargetAlive, RowKept,
           UNCHANGED <<filesystem, fs_node_count, context_menu_target, context_menu_target_idx>>,
           context_menu_type' = "CTX_FILE" => context_menu_type = "CTX_FILE",
           Pending' => Pending
    PROVE  TargetAlive' /\ RowKept'
<1>1. TargetAlive'
  BY DEF TargetAlive, Pending, Exists, Holds, find_node_by_path
<1>2. RowKept'
  BY DEF RowKept, DirectoryContents, Below
<1> QED
  BY <1>1, <1>2

\* With no menu and no dialog there is nothing to remember.
LEMMA NoTarget ==
    ASSUME context_menu_type' = "CTX_NONE", dialogs' = {}
    PROVE  TargetAlive' /\ RowKept'
  BY DEF TargetAlive, RowKept

\* The menu that opens on a row remembers the file of that row.
LEMMA RowTaken ==
    ASSUME FMInv, filemanager_open, NEW row \in 0..(Len(file_list) - 1),
           UNCHANGED <<filesystem, fs_node_count>>,
           context_menu_target' = filesystem[file_list[row + 1]].path,
           context_menu_target_idx' = row
    PROVE  TargetAlive' /\ RowKept' /\ context_menu_target' \in Seq(Comp)
<1>1. PICK i : i = file_list[row + 1]
  OBVIOUS
<1>2. /\ i \in Below(current_fm_path) /\ i # 0 /\ filesystem[i] \in FSNode
      /\ Exists(filesystem[i].path) /\ find_node_by_path(filesystem[i].path) = i
  BY <1>1, RowFacts
<1>3. PICK p : p = filesystem[i].path
  OBVIOUS
<1>4. context_menu_target' = p /\ Exists(p) /\ find_node_by_path(p) = i
  BY <1>1, <1>2, <1>3
<1>5. Exists(context_menu_target)' /\ find_node_by_path(context_menu_target)' = i
  BY <1>4 DEF Exists, Holds, find_node_by_path
<1>6. DirectoryContents(ParentPath(context_menu_target))' = file_list
  <2>1. ParentPath(p) = current_fm_path
    BY <1>2, <1>3 DEF Below
  <2>2. file_list = Collected(Below(ParentPath(p)))
    BY <2>1 DEF FMInv, ListingFresh, DirectoryContents
  <2>3. Below(ParentPath(context_menu_target))' = Below(ParentPath(p))
    BY <1>4 DEF Below
  <2> QED
    BY <2>2, <2>3 DEF DirectoryContents
<1>7. RowKept'
  BY <1>1, <1>3, <1>4, <1>6 DEF RowKept
<1>8. TargetAlive'
  BY <1>2, <1>5 DEF TargetAlive
<1>9. p \in Seq(Comp)
  BY <1>2, <1>3 DEF FSNode
<1> QED
  BY <1>4, <1>7, <1>8, <1>9
-----------------------------------------------------------------------------
(***************************************************************************)
(* The events.                                                             *)
(***************************************************************************)
\* The parts of the invariant that no lemma above covers for every event.
RestInv == /\ WindowOK /\ NavOK /\ MenuOK /\ DialogOK /\ ViewerOK
           /\ ListingFresh /\ TargetAlive /\ RowKept

\* The window is opened, closed or minimized over whatever is open on it.
LEMMA FrameRest ==
    ASSUME FMInv,
           open_filemanager \/ close_filemanager \/ set_filemanager_minimized
    PROVE  RestInv'
<1> USE DEF FMInv
<1>1. CASE open_filemanager
  <2>1. NavOK' /\ ListingFresh'
    <3>1. current_fm_path' \in Seq(Comp) /\ navigation_history' = <<current_fm_path'>>
      BY <1>1 DEF open_filemanager
    <3>2. /\ navigation_history' \in Seq(Seq(Comp)) /\ Len(navigation_history') = 1
          /\ navigation_history_pos' = 0
      BY <1>1, <3>1 DEF open_filemanager
    <3>3. 1 <= HistoryLimit
      BY HistoryLimitAssumption
    <3> QED
      BY <1>1, <3>1, <3>2, <3>3, LoadedList DEF open_filemanager, NavOK
  <2>2. TargetAlive' /\ RowKept'
    BY <1>1, TargetKept DEF open_filemanager, fsvars, menuvars, dlgvars, Pending
  <2> QED
    BY <1>1, <2>1, <2>2
       DEF RestInv, open_filemanager, WindowOK, MenuOK, DialogOK, ViewerOK, menuvars, dlgvars, viewvars
<1>2. CASE close_filemanager
  <2>1. NavOK' /\ ListingFresh'
    <3>1. ListingFresh'
      BY <1>2, ListingStays DEF close_filemanager, fsvars, navvars
    <3> QED
      BY <1>2, <3>1 DEF close_filemanager, NavOK, navvars
  <2>2. TargetAlive' /\ RowKept'
    BY <1>2, TargetKept DEF close_filemanager, fsvars, dlgvars, Pending
  <2> QED
    BY <1>2, <2>1, <2>2
       DEF RestInv, close_filemanager, WindowOK, MenuOK, DialogOK, ViewerOK, dlgvars, viewvars
<1>3. CASE set_filemanager_minimized
  <2>1. NavOK' /\ ListingFresh'
    BY <1>3, NavStays DEF set_filemanager_minimized, fsvars
  <2>2. TargetAlive' /\ RowKept'
    BY <1>3, TargetKept DEF set_filemanager_minimized, fsvars, menuvars, dlgvars, Pending
  <2> QED
    BY <1>3, <2>1, <2>2
       DEF RestInv, set_filemanager_minimized, WindowOK, MenuOK, DialogOK, ViewerOK,
           menuvars, dlgvars, viewvars
<1> QED
  BY <1>1, <1>2, <1>3

LEMMA NavigationRest ==
    ASSUME FMInv, navigate_back \/ navigate_forward \/ navigate_up
    PROVE  RestInv'
<1> USE DEF FMInv
<1>1. UNCHANGED <<fsvars, winvars, last_clicked_file, menuvars, dlgvars, viewvars>>
  BY DEF navigate_back, navigate_forward, navigate_up
<1>2. TargetAlive' /\ RowKept'
  BY <1>1, TargetKept DEF fsvars, menuvars, dlgvars, Pending
<1>3. NavOK' /\ ListingFresh'
  <2>1. UNCHANGED filemanager_open
    BY <1>1 DEF winvars
  <2>2. PICK l \in Nat : l = Len(navigation_history)
    BY DEF NavOK
  <2>3. navigation_history_pos \in -1..(l - 1)
    BY <2>2 DEF NavOK
  <2>4. CASE navigate_back
    <3>1. navigation_history_pos - 1 \in 0..(l - 1) /\ GoTo(navigation_history_pos - 1)
      BY <2>3, <2>4 DEF navigate_back
    <3> QED
      BY <2>1, <2>2, <3>1, GoneTo
  <2>5. CASE navigate_forward
    <3>1. navigation_history_pos + 1 \in 0..(l - 1) /\ GoTo(navigation_history_pos + 1)
      BY <2>2, <2>3, <2>5 DEF navigate_forward
    <3> QED
      BY <2>1, <2>2, <3>1, GoneTo
  <2>6. CASE navigate_up
    <3>1. ParentPath(current_fm_path) \in Seq(Comp)
      BY <2>6, ParentPathType DEF navigate_up, NavOK
    <3>2. PICK p : p = ParentPath(current_fm_path)
      OBVIOUS
    <3>3. p \in Seq(Comp) /\ current_fm_path' = p /\ load_directory
      BY <2>6, <3>1, <3>2 DEF navigate_up
    <3>4. push_navigation_history(p)
      BY <2>6, <3>3 DEF navigate_up, push_navigation_history
    <3> QED
      BY <2>1, <3>3, <3>4, WentTo
  <2> QED
    BY <2>4, <2>5, <2>6
<1> QED
  BY <1>1, <1>2, <1>3
     DEF RestInv, WindowOK, MenuOK, DialogOK, ViewerOK, winvars, menuvars, dlgvars, viewvars

LEMMA ListClickRest ==
    ASSUME FMInv, NEW row \in Rows, NEW soon \in BOOLEAN, ListClick(row, soon)
    PROVE  RestInv'
<1> USE DEF FMInv
<1>1. /\ UNCHANGED <<fsvars, winvars, menuvars, dlgvars>>
      /\ filemanager_open /\ last_clicked_file' = row
  BY DEF ListClick, Idle, Visible
<1>2. TargetAlive' /\ RowKept'
  BY <1>1, TargetKept DEF fsvars, menuvars, dlgvars, Pending
<1>3. UNCHANGED <<filemanager_open, filesystem, fs_node_count>>
  BY <1>1 DEF winvars, fsvars
<1>4. NavOK' /\ ListingFresh' /\ ViewerOK'
  <2>1. CASE open_file_at_index(row)
    BY <1>1, <1>3, <2>1, OpenedRow
  <2>2. CASE UNCHANGED <<navvars, viewvars>>
    BY <1>3, <2>2, NavStays DEF ViewerOK, viewvars
  <2> QED
    BY <2>1, <2>2 DEF ListClick
<1> QED
  BY <1>1, <1>2, <1>4 DEF RestInv, WindowOK, MenuOK, DialogOK, winvars, menuvars, dlgvars

LEMMA RightClickRest ==
    ASSUME FMInv, NEW row \in Rows \cup {-1}, handle_filemanager_rightclick(row)
    PROVE  RestInv'
<1> USE DEF FMInv
<1>1. /\ UNCHANGED <<fsvars, winvars, navvars, last_clicked_file, dlgvars, viewvars>>
      /\ filemanager_open /\ dialogs = {}
  BY DEF handle_filemanager_rightclick, MenusAllowed, Visible
<1>2. UNCHANGED <<filemanager_open, filesystem, fs_node_count, dialogs>>
  BY <1>1 DEF winvars, fsvars, dlgvars
<1>3. NavOK' /\ ListingFresh'
  BY <1>1, <1>2, NavStays
<1>4. MenuOK' /\ TargetAlive' /\ RowKept'
  <2>1. CASE /\ context_menu_type' \in {"CTX_NONE", "CTX_EMPTY"}
             /\ UNCHANGED <<context_menu_target, context_menu_target_idx>>
    BY <1>1, <1>2, <2>1 DEF MenuOK, TargetAlive, RowKept
  <2>2. CASE /\ row \in 0..(Len(file_list) - 1)
             /\ context_menu_type' = "CTX_FILE"
             /\ context_menu_target' = filesystem[file_list[row + 1]].path
             /\ context_menu_target_idx' = row
    BY <1>1, <1>2, <2>2, RowTaken DEF MenuOK
  <2> QED
    BY <2>1, <2>2 DEF handle_filemanager_rightclick
<1> QED
  BY <1>1, <1>3, <1>4 DEF RestInv, WindowOK, DialogOK, ViewerOK, winvars, dlgvars, viewvars

LEMMA MenuClickRest ==
    ASSUME FMInv, NEW item, handle_context_menu_click(item)
    PROVE  RestInv'
<1> USE DEF FMInv
<1>1. /\ UNCHANGED <<fsvars, winvars, last_clicked_file>>
      /\ filemanager_open /\ dialogs = {} /\ MenuClosed
  BY DEF handle_context_menu_click, MenusAllowed, Visible
<1>2. UNCHANGED <<filemanager_open, filesystem, fs_node_count>>
  BY <1>1 DEF winvars, fsvars
<1>3. WindowOK' /\ MenuOK'
  BY <1>1 DEF WindowOK, MenuOK, MenuClosed, winvars
<1>4. ASSUME UNCHANGED dlgvars
      PROVE  DialogOK' /\ TargetAlive' /\ RowKept'
  BY <1>1, <1>4, NoTarget DEF DialogOK, MenuClosed, dlgvars
<1>5. CASE open_file_at_index(context_menu_target_idx) /\ UNCHANGED dlgvars
  BY <1>1, <1>2, <1>3, <1>4, <1>5, OpenedRow DEF RestInv
<1>6. ASSUME NEW flag \in DialogFlags, OpenDialog(flag),
             flag \in {"rename", "delete_confirm"} => context_menu_type = "CTX_FILE"
      PROVE  RestInv'
  <2>1. NavOK' /\ ListingFresh'
    BY <1>2, <1>6, NavStays DEF OpenDialog
  <2>2. ViewerOK' /\ DialogOK'
    <3>1. <<>> \in Seq(Comp)
      OBVIOUS
    <3> QED
      BY <1>6, <3>1 DEF OpenDialog, ViewerOK, DialogOK, viewvars
  <2>3. Pending' => Pending
    BY <1>1, <1>6 DEF OpenDialog, Pending, MenuClosed
  <2>4. TargetAlive' /\ RowKept'
    BY <1>1, <1>2, <2>3, TargetKept DEF MenuClosed
  <2> QED
    BY <1>3, <2>1, <2>2, <2>4 DEF RestInv
<1>7. CASE /\ load_directory
           /\ UNCHANGED <<current_fm_path, navigation_history, navigation_history_pos,
                          dlgvars, viewvars>>
  <2>1. NavOK' /\ ListingFresh'
    BY <1>2, <1>7, Refreshed
  <2>2. ViewerOK'
    BY <1>7 DEF ViewerOK, viewvars
  <2> QED
    BY <1>3, <1>4, <1>7, <2>1, <2>2 DEF RestInv
<1>8. CASE UNCHANGED <<navvars, dlgvars, viewvars>>
  <2>1. NavOK' /\ ListingFresh'
    BY <1>2, <1>8, NavStays
  <2>2. ViewerOK'
    BY <1>8 DEF ViewerOK, viewvars
  <2> QED
    BY <1>3, <1>4, <1>8, <2>1, <2>2 DEF RestInv
<1>9. {"new_file", "new_folder", "rename", "delete_confirm"} \subseteq DialogFlags
  BY DEF DialogFlags, NameDialogs
<1> QED
  BY <1>5, <1>6, <1>7, <1>8, <1>9 DEF handle_context_menu_click

LEMMA TypeNameRest ==
    ASSUME FMInv, NEW n \in Names \cup {<<>>}, TypeName(n)
    PROVE  RestInv'
<1> USE DEF FMInv
<1>1. /\ UNCHANGED <<fsvars, winvars, navvars, last_clicked_file, menuvars, dialogs, viewvars>>
      /\ dialog_input' = n
  BY DEF TypeName
<1>2. UNCHANGED <<filemanager_open, filesystem, fs_node_count>>
  BY <1>1 DEF winvars, fsvars
<1>3. n \in Seq(Comp)
  <2>1. <<>> \in Seq(Comp)
    OBVIOUS
  <2> QED
    BY <2>1, InputAssumption
<1>4. NavOK' /\ ListingFresh'
  BY <1>1, <1>2, NavStays
<1>5. TargetAlive' /\ RowKept'
  BY <1>1, <1>2, TargetKept DEF menuvars, Pending
<1> QED
  BY <1>1, <1>3, <1>4, <1>5
     DEF RestInv, WindowOK, MenuOK, DialogOK, ViewerOK, winvars, menuvars, viewvars

\* A dialog that makes its call closes, and nothing else is open.
LEMMA DialogAlone ==
    ASSUME FMInv, dialogs # {}
    PROVE  /\ context_menu_type = "CTX_NONE"
           /\ dialogs \cap NameDialogs # {} => dialogs = {ActiveDialog}
           /\ \A d \in dialogs : dialogs = {d}
<1>1. OneModal /\ dialogs \subseteq DialogFlags
  BY DEF FMInv, DialogOK
<1>2. \A d \in dialogs : dialogs = {d}
  BY <1>1 DEF OneModal
<1> QED
  BY <1>1, <1>2 DEF OneModal, ActiveDialog, NameDialogs

LEMMA DialogEnterRest ==
    ASSUME FMInv, DialogEnter
    PROVE  RestInv'
<1> USE DEF FMInv
<1>1. /\ dialogs \cap NameDialogs # {}
      /\ UNCHANGED <<current_fm_path, winvars, navigation_history, navigation_history_pos,
                     last_clicked_file, menuvars, viewvars>>
      /\ dialog_input' = <<>>
  BY DEF DialogEnter, KeysToDialog
<1>2. UNCHANGED filemanager_open
  BY <1>1 DEF winvars
<1>3. context_menu_type = "CTX_NONE" /\ dialogs = {ActiveDialog}
  BY <1>1, DialogAlone
<1>4. WindowOK' /\ MenuOK' /\ ViewerOK'
  BY <1>1 DEF WindowOK, MenuOK, ViewerOK, winvars, menuvars, viewvars
<1>5. <<>> \in Seq(Comp)
  OBVIOUS
<1>6. CASE dialog_input = <<>>
  <2>1. UNCHANGED <<fsvars, dialogs, file_list>>
    BY <1>6 DEF DialogEnter
  <2>2. NavOK' /\ ListingFresh'
    BY <1>1, <1>2, <2>1, NavStays DEF navvars, fsvars
  <2>3. TargetAlive' /\ RowKept'
    BY <1>1, <2>1, TargetKept DEF menuvars, fsvars, Pending
  <2> QED
    BY <1>1, <1>4, <1>5, <2>1, <2>2, <2>3 DEF RestInv, DialogOK
<1>7. CASE dialog_input # <<>>
  <2>1. dialogs' = {} /\ context_menu_type' = "CTX_NONE"
    BY <1>1, <1>3, <1>7 DEF DialogEnter, menuvars
  <2>2. TargetAlive' /\ RowKept'
    BY <2>1, NoTarget
  <2>3. NavOK' /\ ListingFresh'
    <3>1. CASE load_directory
      BY <1>1, <1>2, <3>1, Refreshed
    <3>2. CASE UNCHANGED <<fsvars, file_list>>
      BY <1>1, <1>2, <3>2, NavStays DEF navvars, fsvars
    <3> QED
      BY <1>7, <3>1, <3>2 DEF DialogEnter, ReloadedListing
  <2> QED
    BY <1>1, <1>4, <1>5, <2>1, <2>2, <2>3 DEF RestInv, DialogOK
<1> QED
  BY <1>6, <1>7

LEMMA DeleteConfirmRest ==
    ASSUME FMInv, NEW yes \in BOOLEAN, DeleteConfirm(yes)
    PROVE  RestInv'
<1> USE DEF FMInv
<1>1. /\ "delete_confirm" \in dialogs /\ dialogs' = dialogs \ {"delete_confirm"}
      /\ UNCHANGED <<current_fm_path, winvars, navigation_history, navigation_history_pos,
                     last_clicked_file, menuvars, dialog_input, viewvars>>
  BY DEF DeleteConfirm
<1>2. UNCHANGED filemanager_open
  BY <1>1 DEF winvars
<1>3. context_menu_type = "CTX_NONE" /\ dialogs = {"delete_confirm"}
  BY <1>1, DialogAlone
<1>4. dialogs' = {} /\ context_menu_type' = "CTX_NONE"
  BY <1>1, <1>3 DEF menuvars
<1>5. TargetAlive' /\ RowKept'
  BY <1>4, NoTarget
<1>6. NavOK' /\ ListingFresh'
  <2>1. CASE load_directory
    BY <1>1, <1>2, <2>1, Refreshed
  <2>2. CASE UNCHANGED <<fsvars, file_list>>
    BY <1>1, <1>2, <2>2, NavStays DEF navvars, fsvars
  <2> QED
    BY <2>1, <2>2 DEF DeleteConfirm, ReloadedListing
<1> QED
  BY <1>1, <1>4, <1>5, <1>6
     DEF RestInv, WindowOK, MenuOK, ViewerOK, DialogOK, winvars, menuvars, viewvars

LEMMA DialogCancelRest ==
    ASSUME FMInv, DialogCancel
    PROVE  RestInv'
<1> USE DEF FMInv
<1>1. /\ UNCHANGED <<fsvars, winvars, navvars, last_clicked_file, menuvars, dialog_input, viewvars>>
      /\ dialogs' \subseteq dialogs
  BY DEF DialogCancel
<1>2. NavOK' /\ ListingFresh'
  BY <1>1, NavStays DEF winvars, fsvars
<1>3. TargetAlive' /\ RowKept'
  BY <1>1, TargetKept DEF menuvars, fsvars, Pending
<1> QED
  BY <1>1, <1>2, <1>3
     DEF RestInv, WindowOK, MenuOK, ViewerOK, DialogOK, winvars, menuvars, viewvars

\* A save writes through the viewer's path: the nodes stay as they are.
LEMMA SaveKeepsNodes ==
    ASSUME HLFSInv, NEW p, NEW c, write_file_content(p, c)
    PROVE  /\ filesystem' = filesystem /\ fs_node_count' = fs_node_count
           /\ \A i \in Slots : content_storage_data'[i] # content_storage_data[i]
                  => i = find_node_by_path(p)
<1> DEFINE idx == find_node_by_path(p)
<1>1. idx \in InUse /\ idx \in Slots /\ HasContent(filesystem[idx].type)
  BY FindNodeFacts DEF write_file_content, IsFile, InUse
<1>2. filesystem[idx].content = TRUE
  BY <1>1 DEF HLFSInv, StorageExact, TypeOK, FSNode
<1>3. /\ filesystem' = [filesystem EXCEPT ![idx].content = TRUE]
      /\ content_storage_data' = [content_storage_data EXCEPT ![idx] = c]
      /\ fs_node_count' = fs_node_count
  BY DEF write_file_content
<1> HIDE DEF idx
<1>4. filesystem' = filesystem
  BY <1>1, <1>2, <1>3 DEF HLFSInv, TypeOK, FSNode
<1>5. \A i \in Slots : i # idx => content_storage_data'[i] = content_storage_data[i]
  BY <1>3 DEF HLFSInv, TypeOK
<1> QED
  BY <1>3, <1>4, <1>5 DEF idx

LEMMA ViewerRest ==
    ASSUME FMInv,
           \/ \E text \in Contents : handle_viewer_keyboard(text)
           \/ ViewerEditSave
           \/ ViewerClose
    PROVE  RestInv'
<1> USE DEF FMInv
<1>1. /\ viewer_open
      /\ UNCHANGED <<winvars, navvars, last_clicked_file, menuvars, dlgvars>>
  BY DEF handle_viewer_keyboard, ViewerEditSave, ViewerClose
<1>2. UNCHANGED <<filesystem, fs_node_count>>
  BY SaveKeepsNodes DEF handle_viewer_keyboard, ViewerEditSave, ViewerClose, fsvars
<1>3. NavOK' /\ ListingFresh'
  BY <1>1, <1>2, NavStays DEF winvars
<1>4. TargetAlive' /\ RowKept'
  BY <1>1, <1>2, TargetKept DEF menuvars, dlgvars, Pending
<1>5. ViewerOK'
  BY DEF handle_viewer_keyboard, ViewerEditSave, ViewerClose, ViewerOK
<1> QED
  BY <1>1, <1>3, <1>4, <1>5
     DEF RestInv, WindowOK, MenuOK, DialogOK, winvars, menuvars, dlgvars

LEMMA StutterRest ==
    ASSUME FMInv, UNCHANGED vars
    PROVE  RestInv'
<1> USE DEF FMInv
<1>1. UNCHANGED <<fsvars, winvars, navvars, last_clicked_file, menuvars, dlgvars, viewvars>>
  BY DEF vars, fmvars
<1>2. NavOK' /\ ListingFresh'
  BY <1>1, NavStays DEF winvars, fsvars
<1>3. TargetAlive' /\ RowKept'
  BY <1>1, TargetKept DEF menuvars, fsvars, dlgvars, Pending
<1> QED
  BY <1>1, <1>2, <1>3
     DEF RestInv, WindowOK, MenuOK, ViewerOK, DialogOK, winvars, menuvars, dlgvars, viewvars

\* Every event keeps the invariant.
LEMMA EventInv == FMInv /\ [FMNext]_vars => FMInv'
<1> SUFFICES ASSUME FMInv, [FMNext]_vars PROVE FMInv'
  OBVIOUS
<1>1. HLFSInv'
  BY EventCalls, CallInv DEF FMInv
<1>2. OneModal'
  BY StepModal DEF FMInv
<1>3. RestInv'
  BY FrameRest, NavigationRest, ListClickRest, RightClickRest, MenuClickRest, TypeNameRest,
     DialogEnterRest, DialogCancelRest, DeleteConfirmRest, ViewerRest, StutterRest
     DEF FMNext
<1>4. HLFSInv' /\ OneModal' /\ RestInv' => FMInv'
  BY DEF FMInv, RestInv
<1> QED
  BY <1>1, <1>2, <1>3, <1>4

LEMMA InitFM == FMInit => FMInv
<1> SUFFICES ASSUME FMInit PROVE FMInv
  OBVIOUS
<1>1. HLFSInv /\ OneModal
  BY InitInv, InitModal DEF FMInit
<1>2. <<>> \in Seq(Comp) /\ <<>> \in Seq(Slots) /\ <<>> \in Seq(Seq(Comp)) /\ Len(<<>>) = 0
  OBVIOUS
<1>3. HistoryLimit \in Nat /\ Empty \in Contents
  BY HistoryLimitAssumption, InputAssumption
<1>4. NavOK /\ ListingFresh
  BY <1>2, <1>3 DEF FMInit, NavOK, ListingFresh
<1>5. WindowOK /\ MenuOK /\ DialogOK /\ ViewerOK
  BY <1>2, <1>3 DEF FMInit, WindowOK, MenuOK, DialogOK, ViewerOK
<1>6. TargetAlive /\ RowKept
  BY DEF FMInit, TargetAlive, RowKept
<1> QED
  BY <1>1, <1>4, <1>5, <1>6 DEF FMInv
-----------------------------------------------------------------------------
(***************************************************************************)
(* The theorems.                                                           *)
(***************************************************************************)
\* No sequence of events, the window closed, minimized or opened again in between,
\* brings two of the viewer, the dialogs and the menu up together.
THEOREM OneModalAtATime == FMSpec => []OneModal
  BY InitModal, StepModal, PTL DEF FMSpec

\* The invariants of the window and of the file system under it are inductive together.
THEOREM FileManagerInductive == FMSpec => []FMInv
  BY InitFM, EventInv, PTL DEF FMSpec

\* Every variable keeps its type: no path of the history is past its array, no row
\* is read that the listing does not have, no text comes from outside the buffers.
THEOREM FileManagerTypeCorrect == FMSpec => []FMTypeOK
<1>1. FMInv => FMTypeOK
  BY DEF FMInv, HLFSInv, WindowOK, NavOK, MenuOK, DialogOK, ViewerOK, FMTypeOK
<1> QED
  BY <1>1, FileManagerInductive, PTL

\* The slot indices an open window keeps are those of the directory it shows.
THEOREM ListingStaysFresh == FMSpec => []ListingFresh
<1>1. FMInv => ListingFresh
  BY DEF FMInv
<1> QED
  BY <1>1, FileManagerInductive, PTL

\* The path a menu, a rename or a delete was opened on names a file, and never the
\* root, until the choice is made.
THEOREM TargetsStayAlive == FMSpec => []TargetAlive
<1>1. FMInv => TargetAlive
  BY DEF FMInv
<1> QED
  BY <1>1, FileManagerInductive, PTL

\* In the directory the menu was opened in, "Open" acts on the file "Rename" and
\* "Delete" act on.
THEOREM MenusStayAgreed == FMSpec => []MenuAgrees
<1>1. FMInv => MenuAgrees
  <2> SUFFICES ASSUME FMInv, filemanager_open, context_menu_type = "CTX_FILE",
                      current_fm_path = ParentPath(context_menu_target)
               PROVE  /\ context_menu_target_idx < Len(file_list)
                      /\ filesystem[file_list[context_menu_target_idx + 1]].path = context_menu_target
    BY DEF MenuAgrees
  <2>1. file_list = DirectoryContents(ParentPath(context_menu_target))
    BY DEF FMInv, ListingFresh
  <2>2. /\ context_menu_target_idx \in 0..(Len(file_list) - 1)
        /\ filesystem[file_list[context_menu_target_idx + 1]].path = context_menu_target
    BY <2>1 DEF FMInv, RowKept
  <2>3. Len(file_list) \in Nat
    BY DEF FMInv, NavOK
  <2> QED
    BY <2>2, <2>3
<1> QED
  BY <1>1, FileManagerInductive, PTL

\* While the viewer stays open its path names one slot, and only the text of that slot
\* changes.
THEOREM ViewersKeepTheirFile == FMSpec => ViewerKeepsItsFile
<1> DEFINE Keeps == viewer_open /\ viewer_open' =>
              /\ viewer_path' = viewer_path
              /\ filesystem' = filesystem
              /\ \A i \in Slots : content_storage_data'[i] # content_storage_data[i]
                     => i = find_node_by_path(viewer_path)
<1>1. ASSUME FMInv, [FMNext]_vars PROVE Keeps
  <2> SUFFICES ASSUME viewer_open, viewer_open'
               PROVE  Keeps
    OBVIOUS
  <2>1. dialogs = {} /\ context_menu_type = "CTX_NONE"
    BY <1>1 DEF FMInv, OneModal
  <2>2. ASSUME UNCHANGED <<fsvars, viewer_path>> PROVE Keeps
    BY <2>2 DEF fsvars
  <2>3. CASE open_filemanager \/ close_filemanager \/ set_filemanager_minimized
    BY <2>2, <2>3 DEF open_filemanager, close_filemanager, set_filemanager_minimized, viewvars
  <2>4. ~(navigate_back \/ navigate_forward \/ navigate_up \/ DialogCancel \/ ViewerClose \/ DialogEnter)
    BY <2>1 DEF navigate_back, navigate_forward, navigate_up, DialogCancel, ViewerClose,
                DialogEnter, KeysToDialog, Idle
  <2>5. ASSUME NEW x, \/ \E soon \in BOOLEAN : ListClick(x, soon)
                      \/ handle_filemanager_rightclick(x)
                      \/ handle_context_menu_click(x)
                      \/ TypeName(x)
                      \/ DeleteConfirm(x)
        PROVE  FALSE
    BY <2>1, <2>5 DEF ListClick, Idle, handle_filemanager_rightclick, handle_context_menu_click,
                      MenusAllowed, TypeName, KeysToDialog, DeleteConfirm
  <2>6. ASSUME NEW text, handle_viewer_keyboard(text) PROVE Keeps
    BY <2>2, <2>6 DEF handle_viewer_keyboard
  <2>7. CASE ViewerEditSave
    <3>1. UNCHANGED viewer_path
      BY <2>7 DEF ViewerEditSave
    <3>2. CASE write_file_content(viewer_path, viewer_content)
      BY <1>1, <3>1, <3>2, SaveKeepsNodes DEF FMInv
    <3>3. CASE UNCHANGED fsvars
      BY <2>2, <3>1, <3>3
    <3> QED
      BY <2>7, <3>2, <3>3 DEF ViewerEditSave
  <2>8. CASE UNCHANGED vars
    BY <2>2, <2>8 DEF vars, fmvars, viewvars
  <2> HIDE DEF Keeps
  <2> QED
    BY <1>1, <2>3, <2>4, <2>5, <2>6, <2>7, <2>8 DEF FMNext
<1>2. FMInv /\ [FMNext]_vars => [Keeps]_vars
  BY <1>1
<1>3. ViewerKeepsItsFile <=> [][Keeps]_vars
  BY PTL DEF ViewerKeepsItsFile
<1> QED
  BY <1>2, <1>3, FileManagerInductive, PTL DEF FMSpec
-----------------------------------------------------------------------------
\* The events of the window never hand a slot out twice.
THEOREM WindowReusesNoSlot == FMSpec => SlotNamesOneNode
<1>1. FMInv /\ [FMNext]_vars => [SlotsKept]_fsvars
  BY EventCalls, CallKeepsSlots DEF FMInv
<1> QED
  BY <1>1, SlotsAction, FileManagerInductive, PTL DEF FMSpec

\* In the window too, paths and parent indices drift apart only by the renaming of a
\* parent, or by a name with a slash in it.
THEOREM WindowDriftIsExplained == FMSpec => DetachedByRenameOnly
<1>1. FMInv /\ [FMNext]_vars => [AllExplained]_fsvars
  BY EventCalls, CallExplained DEF FMInv
<1> QED
  BY <1>1, DriftAction, FileManagerInductive, PTL DEF FMSpec

\* Whatever is clicked and typed, the files change as a plain map from paths to files
\* does under one call at a time: no event of the window shows through at another path.
THEOREM WindowImplementsTheMap == FMSpec => AnyCall!NSSpec
<1>1. FMInv /\ FMInv' /\ [FMNext]_vars => [AnyCall!NSNext]_FilesView
  BY EventCalls, CallRefines DEF FMInv
<1>2. FMInit => AnyCall!NSInit
  BY InitInv, RootHeld DEF FMInit, AnyCall!NSInit, AnyCall!Kind
<1> QED
  BY <1>1, <1>2, FileManagerInductive, PTL DEF FMSpec, AnyCall!NSSpec
-----------------------------------------------------------------------------
(***************************************************************************)
(* Entering a folder.                                                      *)
(***************************************************************************)
\* A node's path is its name behind that of some directory: the one it was made in, or
\* the part above the last slash of the path it was renamed from.
Named(node) == \E d \in Seq(Comp) : node.path = Join(d, node.name)

NamedBelow == \A i \in InUse \ {0} : Named(filesystem[i])

LEMMA PathSplit ==
    ASSUME NEW p \in Seq(Comp), p # <<>>
    PROVE  p = Join(ParentPath(p), <<p[Len(p)]>>)
<1>1. PICK l \in Nat : l = Len(p)
  OBVIOUS
<1>2. l > 0 /\ DOMAIN p = 1..l
  BY <1>1
<1>3. PICK q \in Seq(Comp) : q = SubSeq(p, 1, l - 1)
  BY <1>1, ParentPathType DEF ParentPath
<1>4. Len(q) = l - 1 /\ \A k \in 1..(l - 1) : q[k] = p[k]
  BY <1>1, <1>2, <1>3
<1>5. p = q \o <<p[l]>>
  BY <1>1, <1>2, <1>4
<1> QED
  BY <1>1, <1>3, <1>5 DEF Join, ParentPath

LEMMA InitNamed == FMInit => NamedBelow
<1> SUFFICES ASSUME FMInit, NEW i \in InUse \ {0} PROVE Named(filesystem[i])
  BY DEF NamedBelow
<1> DEFINE n == Len(BootTree)
<1>1. n \in 1..MaxFiles /\ MaxFiles \in Nat
  BY BootAssumption, MaxFilesAssumption
<1>2. filesystem[i] = IF i < n
          THEN Node(BootTree[i + 1].path, BootTree[i + 1].name,
                    BootTree[i + 1].type, BootTree[i + 1].parent)
          ELSE ZeroNode
  BY DEF FMInit, Init, InUse
<1>3. i < n
  BY <1>2 DEF ZeroNode, InUse
<1>4. i + 1 \in 2..n
  BY <1>1, <1>3 DEF InUse, Slots
<1>5. PICK p : p = BootTree[i + 1].path
  OBVIOUS
<1>6. p \in Seq(Comp) /\ p # <<>> /\ BootTree[i + 1].name = <<p[Len(p)]>>
  <2>1. p \in Seq(Comp)
    <3>1. PICK boot : boot = BootTree
      OBVIOUS
    <3>2. boot \in Seq(BootNode) /\ i + 1 \in 1..Len(boot)
      BY <1>4, <3>1, BootAssumption
    <3>3. boot[i + 1] \in BootNode
      BY <3>2
    <3> QED
      BY <1>5, <3>1, <3>3 DEF BootNode
  <2>2. p # <<>>
    BY <1>4, <1>5, BootAssumption
  <2>3. BootTree[i + 1].name = <<BootTree[i + 1].path[Len(BootTree[i + 1].path)]>>
    BY <1>4, BootAssumption
  <2> QED
    BY <1>5, <2>1, <2>2, <2>3
<1>7. filesystem[i].path = p /\ filesystem[i].name = <<p[Len(p)]>>
  BY <1>2, <1>3, <1>5, <1>6 DEF Node
<1>8. ParentPath(p) \in Seq(Comp) /\ p = Join(ParentPath(p), <<p[Len(p)]>>)
  BY <1>6, PathSplit, ParentPathType
<1> QED
  BY <1>7, <1>8 DEF Named

LEMMA CreateNamed ==
    ASSUME HLFSInv, NamedBelow, NEW p \in Seq(Comp), NEW n \in Typed,
           NEW t \in CreateTypes, create_file_in_fs(p, n, t)
    PROVE  NamedBelow'
<1> DEFINE par == find_node_by_path(p)
           node == Node(Join(p, n), n, t, par)
<1>1. fs_node_count \in Slots /\ fs_node_count \notin InUse
  BY MaxFilesAssumption
  DEF create_file_in_fs, create_node, HasRoom, HLFSInv, TypeOK, StorageExact, Slots, InUse
<1>2. filesystem' = [filesystem EXCEPT ![fs_node_count] = node]
  BY DEF create_file_in_fs, create_node, NextSlot
<1>3. Named(node)
  BY DEF Node, Named
<1> HIDE DEF node, par
<1>4. \A j \in Slots : filesystem'[j] = IF j = fs_node_count THEN node ELSE filesystem[j]
  BY <1>2 DEF HLFSInv, TypeOK
<1> QED
  BY <1>3, <1>4 DEF NamedBelow, InUse

LEMMA RenameNamed ==
    ASSUME HLFSInv, NamedBelow, NEW p \in Seq(Comp), NEW n \in Typed,
           rename_file_in_fs(p, n)
    PROVE  NamedBelow'
<1> DEFINE idx == find_node_by_path(p)
           q == RenamedPath(p, n)
<1>1. Exists(p) /\ idx # 0
  BY DEF rename_file_in_fs, CanRename
<1>2. idx \in InUse /\ idx \in Slots /\ filesystem[idx].path = p
  BY <1>1, FindNodeFacts DEF HLFSInv, InUse
<1>3. filesystem' = [filesystem EXCEPT ![idx].name = n, ![idx].path = q]
  BY DEF rename_file_in_fs
<1> HIDE DEF idx, q
<1>4. /\ \A j \in Slots : /\ j # idx => filesystem'[j] = filesystem[j]
                          /\ filesystem'[j].in_use = filesystem[j].in_use
      /\ filesystem'[idx].name = n /\ filesystem'[idx].path = q
  BY <1>2, <1>3 DEF HLFSInv, TypeOK, FSNode
<1>5. ParentPath(p) \in Seq(Comp)
  <2>1. p # <<>>
    BY <1>1, <1>2 DEF HLFSInv, PathUnique, ParentAlive
  <2> QED
    BY <2>1, ParentPathType
<1>6. Named(filesystem'[idx])
  BY <1>4, <1>5 DEF q, RenamedPath, Named
<1>7. \A j \in InUse' \ {0} : j \in InUse \ {0} /\ (j # idx => filesystem'[j] = filesystem[j])
  BY <1>4 DEF InUse
<1> QED
  BY <1>6, <1>7 DEF NamedBelow

LEMMA OthersNamed ==
    ASSUME HLFSInv, NamedBelow,
           \/ UNCHANGED filesystem
           \/ \E p \in Seq(Comp) : delete_file_from_fs(p)
    PROVE  NamedBelow'
<1>1. CASE UNCHANGED filesystem
  BY <1>1 DEF NamedBelow, InUse
<1>2. ASSUME NEW p \in Seq(Comp), delete_file_from_fs(p) PROVE NamedBelow'
  <2> DEFINE idx == find_node_by_path(p)
  <2>1. idx \in Slots
    BY <1>2, FindNodeFacts DEF HLFSInv, delete_file_from_fs, CanDelete, InUse
  <2>2. filesystem' = [filesystem EXCEPT ![idx].in_use = FALSE, ![idx].content = FALSE]
    BY <1>2 DEF delete_file_from_fs
  <2> HIDE DEF idx
  <2>3. \A j \in Slots : /\ filesystem'[j].in_use => filesystem[j].in_use
                         /\ filesystem'[j].path = filesystem[j].path
                         /\ filesystem'[j].name = filesystem[j].name
    BY <2>1, <2>2 DEF HLFSInv, TypeOK, FSNode
  <2> QED
    BY <2>3 DEF NamedBelow, Named, InUse
<1> QED
  BY <1>1, <1>2

LEMMA NamedNext == HLFSInv /\ NamedBelow /\ [Call]_fsvars => NamedBelow'
<1> SUFFICES ASSUME HLFSInv, NamedBelow, [Call]_fsvars PROVE NamedBelow'
  OBVIOUS
<1>1. ASSUME NEW p \in Seq(Comp), NEW n \in Typed, NEW t \in CreateTypes,
             create_file_in_fs(p, n, t)
      PROVE  NamedBelow'
  BY <1>1, CreateNamed
<1>2. ASSUME NEW p \in Seq(Comp), NEW n \in Typed, rename_file_in_fs(p, n)
      PROVE  NamedBelow'
  BY <1>2, RenameNamed
<1>3. ASSUME NEW p \in Seq(Comp), delete_file_from_fs(p) PROVE NamedBelow'
  BY <1>3, OthersNamed
<1>4. ASSUME NEW p \in Seq(Comp), NEW c \in Contents, write_file_content(p, c)
      PROVE  NamedBelow'
  BY <1>4, SaveKeepsNodes, OthersNamed
<1>5. CASE UNCHANGED fsvars
  BY <1>5, OthersNamed DEF fsvars
<1> QED
  BY <1>1, <1>2, <1>3, <1>4, <1>5 DEF Call

\* The path grew, and the history goes on from the one left behind or is full.
Entered == /\ Len(current_fm_path') > Len(current_fm_path)
           /\ \/ navigation_history_pos' = navigation_history_pos
              \/ navigation_history'[navigation_history_pos' + 1] = current_fm_path

\* What EnterLeadsToNode asks of a step.
LedToNode == Entered => \E k \in 1..Len(file_list) :
                           LET node == filesystem[file_list[k]]
                           IN  /\ node.type = "FILE_DIRECTORY"
                               /\ current_fm_path' = Join(current_fm_path, node.name)
                               /\ current_fm_path' = node.path <=> Len(node.name) = 1

\* Below a directory lies what has that directory's path and one component more, so a
\* name added to it gives that path only if it is one component; and then it does.
LEMMA AddedName ==
    ASSUME NEW node, Named(node), node.name \in Seq(Comp), node.path # <<>>
    PROVE  Join(ParentPath(node.path), node.name) = node.path <=> Len(node.name) = 1
<1>1. PICK d \in Seq(Comp) : node.path = Join(d, node.name)
  BY DEF Named
<1>2. PICK name \in Seq(Comp) : name = node.name
  OBVIOUS
<1>3. PICK path \in Seq(Comp) : path = node.path
  BY <1>1, <1>2, JoinType
<1>4. path = Join(d, name) /\ path # <<>>
  BY <1>1, <1>2, <1>3
<1>5. PICK up \in Seq(Comp) : up = ParentPath(path)
  BY <1>4, ParentPathType
<1>6. PICK l \in Nat, m \in Nat, u \in Nat : l = Len(path) /\ m = Len(name) /\ u = Len(up)
  OBVIOUS
<1>7. u = l - 1
  <2>1. l > 0
    BY <1>4, <1>6
  <2> QED
    BY <1>5, <1>6, <2>1 DEF ParentPath
<1>8. Len(Join(up, name)) = u + m
  BY <1>6, JoinLength DEF Join
<1>9. ASSUME Join(up, name) = path PROVE m = 1
  BY <1>6, <1>7, <1>8, <1>9
<1>10. ASSUME Len(name) = 1 PROVE Join(up, name) = path
  BY <1>4, <1>5, <1>10, ParentOfJoin
<1> QED
  BY <1>2, <1>3, <1>5, <1>6, <1>9, <1>10

LEMMA OpenedFolder ==
    ASSUME FMInv, NamedBelow, filemanager_open, NEW idx, open_file_at_index(idx)
    PROVE  LedToNode
<1> SUFFICES ASSUME Entered
             PROVE  \E k \in 1..Len(file_list) :
                       LET node == filesystem[file_list[k]]
                       IN  /\ node.type = "FILE_DIRECTORY"
                           /\ current_fm_path' = Join(current_fm_path, node.name)
                           /\ current_fm_path' = node.path <=> Len(node.name) = 1
  BY DEF LedToNode
<1>1. PICK l \in Nat : l = Len(current_fm_path)
  BY DEF FMInv, NavOK
<1>2. current_fm_path' # current_fm_path
  BY <1>1 DEF Entered
<1>3. PICK i : i = file_list[idx + 1]
  OBVIOUS
<1>4. /\ idx \in 0..(Len(file_list) - 1)
      /\ filesystem[i].type = "FILE_DIRECTORY"
      /\ current_fm_path' = Join(current_fm_path, filesystem[i].name)
  BY <1>2, <1>3 DEF open_file_at_index, EnteredPath, navvars
<1>5. i \in Below(current_fm_path) /\ i \in InUse /\ i # 0
  BY <1>3, <1>4, RowFacts
<1>6. ParentPath(filesystem[i].path) = current_fm_path /\ filesystem[i].path # <<>>
  BY <1>5 DEF Below
<1>7. Named(filesystem[i]) /\ filesystem[i].name \in Seq(Comp)
  BY <1>5 DEF NamedBelow, FMInv, HLFSInv, TypeOK, FSNode, InUse
<1>8. current_fm_path' = filesystem[i].path <=> Len(filesystem[i].name) = 1
  BY <1>4, <1>6, <1>7, AddedName
<1>9. Len(file_list) \in Nat
  BY DEF FMInv, NavOK
<1>10. idx + 1 \in 1..Len(file_list)
  BY <1>4, <1>9
<1> QED
  BY <1>3, <1>4, <1>8, <1>10

LEMMA StepLeads == FMInv /\ NamedBelow /\ [FMNext]_vars => LedToNode
<1> SUFFICES ASSUME FMInv, NamedBelow, [FMNext]_vars PROVE LedToNode
  OBVIOUS
<1>1. PICK l \in Nat : l = Len(current_fm_path)
  BY DEF FMInv, NavOK
<1>2. navigation_history_pos \in Int
  BY DEF FMInv, NavOK
<1>3. ASSUME Entered PROVE current_fm_path' # current_fm_path
  BY <1>1, <1>3 DEF Entered
<1>4. ASSUME UNCHANGED current_fm_path PROVE LedToNode
  BY <1>3, <1>4 DEF LedToNode
<1>5. CASE open_filemanager
  <2>1. Len(current_fm_path') = 0
    BY <1>5 DEF open_filemanager
  <2> QED
    BY <1>1, <2>1 DEF LedToNode, Entered
<1>6. CASE navigate_back
  BY <1>2, <1>6 DEF LedToNode, Entered, navigate_back, GoTo
<1>7. CASE navigate_forward
  <2>1. /\ current_fm_path' = navigation_history[navigation_history_pos + 1 + 1]
        /\ navigation_history' = navigation_history
        /\ navigation_history_pos' = navigation_history_pos + 1
    BY <1>7 DEF navigate_forward, GoTo
  <2>2. navigation_history'[navigation_history_pos' + 1] = current_fm_path'
    BY <2>1
  <2>3. navigation_history_pos' # navigation_history_pos
    BY <1>2, <2>1
  <2> QED
    BY <1>3, <2>2, <2>3 DEF LedToNode, Entered
<1>8. CASE navigate_up
  <2>1. current_fm_path' = ParentPath(current_fm_path) /\ current_fm_path # <<>>
    BY <1>8 DEF navigate_up
  <2>2. l > 0
    BY <1>1, <2>1 DEF FMInv, NavOK
  <2>3. Len(ParentPath(current_fm_path)) = l - 1
    BY <1>1, <2>2 DEF ParentPath, FMInv, NavOK
  <2> QED
    BY <1>1, <2>1, <2>3 DEF LedToNode, Entered
<1>9. ASSUME NEW row, NEW soon, ListClick(row, soon) PROVE LedToNode
  <2>1. filemanager_open
    BY <1>9 DEF ListClick, Idle, Visible
  <2> QED
    BY <1>4, <1>9, <2>1, OpenedFolder DEF ListClick, navvars
<1>10. ASSUME NEW item, handle_context_menu_click(item) PROVE LedToNode
  <2>1. filemanager_open
    BY <1>10 DEF handle_context_menu_click, MenusAllowed, Visible
  <2> QED
    BY <1>4, <1>10, <2>1, OpenedFolder DEF handle_context_menu_click, OpenDialog, navvars
<1>11. CASE close_filemanager \/ set_filemanager_minimized \/ DialogEnter \/ DialogCancel
            \/ ViewerEditSave \/ ViewerClose \/ UNCHANGED vars
  BY <1>4, <1>11 DEF close_filemanager, set_filemanager_minimized, DialogEnter, DialogCancel,
                     ViewerEditSave, ViewerClose, vars, fmvars, navvars
<1>12. ASSUME NEW x, \/ handle_filemanager_rightclick(x) \/ TypeName(x)
                     \/ DeleteConfirm(x) \/ handle_viewer_keyboard(x)
       PROVE  LedToNode
  BY <1>4, <1>12 DEF handle_filemanager_rightclick, TypeName, DeleteConfirm,
                     handle_viewer_keyboard, navvars
<1> QED
  BY <1>5, <1>6, <1>7, <1>8, <1>9, <1>10, <1>11, <1>12 DEF FMNext

\* Entering a folder leads to the folder that was listed exactly if its name holds no
\* slash, whatever was renamed before and however long the history is.
THEOREM EnteringLeadsToTheNode == FMSpec => EnterLeadsToNode
<1>1. FMInv /\ NamedBelow /\ [FMNext]_vars => NamedBelow'
  BY EventCalls, NamedNext DEF FMInv
<1>2. FMInv /\ NamedBelow /\ [FMNext]_vars => [LedToNode]_vars
  BY StepLeads
<1>3. EnterLeadsToNode <=> [][LedToNode]_vars
  BY PTL DEF EnterLeadsToNode, LedToNode, Entered
<1> QED
  BY <1>1, <1>2, <1>3, InitNamed, FileManagerInductive, PTL DEF FMSpec
=============================================================================
