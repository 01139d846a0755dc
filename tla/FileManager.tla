---------------------------- MODULE FileManager ----------------------------
(***************************************************************************)
(* The file manager window (apps/filemanager.cpp) on top of HLFS.  It      *)
(* keeps a listing of slot indices, a path, a history of paths, the path   *)
(* and the list position a context menu was opened on, and the text and    *)
(* path of an open viewer; all of them are used in later events than the   *)
(* ones that set them.  A click is named for what it hits; a line of       *)
(* typing is one step.                                                     *)
(***************************************************************************)
EXTENDS HLFS

CONSTANTS HistoryLimit,  \* slots of navigation_history
          MaxDepth       \* bound: components of a created or renamed path

ASSUME HistoryLimitAssumption == HistoryLimit \in Nat \ {0}

VARIABLES filemanager_open, fm_minimized,
          current_fm_path, file_list,
          navigation_history,      \* its first navigation_history_count entries
          navigation_history_pos,
          last_clicked_file,
          context_menu_type, context_menu_target, context_menu_target_idx,
          dialogs,                 \* the dialog flags that are set
          dialog_input,
          viewer_open, viewer_editing, viewer_path, viewer_content

winvars  == <<filemanager_open, fm_minimized>>
navvars  == <<current_fm_path, file_list, navigation_history, navigation_history_pos>>
menuvars == <<context_menu_type, context_menu_target, context_menu_target_idx>>
dlgvars  == <<dialogs, dialog_input>>
viewvars == <<viewer_open, viewer_editing, viewer_path, viewer_content>>
fmvars   == <<winvars, navvars, last_clicked_file, menuvars, dlgvars, viewvars>>
vars     == <<fsvars, fmvars>>

NameDialogs == {"new_file", "new_folder", "rename"}
DialogFlags == NameDialogs \cup {"delete_confirm"}

FMInit ==
    /\ Init
    /\ filemanager_open = FALSE /\ fm_minimized = FALSE
    /\ current_fm_path = <<>> /\ file_list = <<>>
    /\ navigation_history = <<>> /\ navigation_history_pos = -1
    /\ last_clicked_file = -1
    /\ context_menu_type = "CTX_NONE"
    /\ context_menu_target = <<>> /\ context_menu_target_idx = -1
    /\ dialogs = {} /\ dialog_input = <<>>
    /\ viewer_open = FALSE /\ viewer_editing = FALSE
    /\ viewer_path = <<>> /\ viewer_content = Empty
-----------------------------------------------------------------------------
\* The listing of the path as both are after the step.
load_directory == file_list' = DirectoryContents(current_fm_path)'

\* Mutant: the limit is not tested.
PushUnbounded(path) ==
    /\ navigation_history' =
          Append(SubSeq(navigation_history, 1, navigation_history_pos + 1), path)
    /\ navigation_history_pos' = navigation_history_pos + 1

\* Entries above the current position are dropped; a full history drops path.
push_navigation_history(path) ==
    IF navigation_history_pos < HistoryLimit - 1
    THEN /\ navigation_history' =
              Append(SubSeq(navigation_history, 1, navigation_history_pos + 1), path)
         /\ navigation_history_pos' = navigation_history_pos + 1
    ELSE UNCHANGED <<navigation_history, navigation_history_pos>>

GoTo(pos) == /\ navigation_history_pos' = pos
             /\ current_fm_path' = navigation_history[pos + 1]
             /\ load_directory
             /\ UNCHANGED navigation_history

\* The window receives clicks, and no modal part takes them first.
Visible == filemanager_open /\ ~fm_minimized
Idle == /\ Visible
        /\ ~viewer_open
        /\ dialogs = {}
        /\ context_menu_type = "CTX_NONE"

\* Only the path, the history and the listing are reset; a context menu, a
\* dialog and the viewer stay as they were.
open_filemanager ==
    /\ UNCHANGED fsvars
    /\ filemanager_open' = TRUE /\ fm_minimized' = FALSE
    /\ current_fm_path' = <<>>
    /\ navigation_history' = <<<<>>>> /\ navigation_history_pos' = 0
    /\ load_directory
    /\ UNCHANGED <<last_clicked_file, menuvars, dlgvars, viewvars>>

\* The close box.  A click that also reaches the window dismisses an open
\* context menu on its way; one that only raises the window does not.
close_filemanager ==
    /\ Visible
    /\ filemanager_open' = FALSE
    /\ context_menu_type' \in {context_menu_type, "CTX_NONE"}
    /\ UNCHANGED <<fsvars, fm_minimized, navvars, last_clicked_file, dlgvars,
                   viewvars, context_menu_target, context_menu_target_idx>>

\* The taskbar button, or the minimize box.
set_filemanager_minimized ==
    /\ filemanager_open
    /\ fm_minimized' = ~fm_minimized
    /\ UNCHANGED <<fsvars, filemanager_open, navvars, last_clicked_file,
                   menuvars, dlgvars, viewvars>>

navigate_back ==
    /\ UNCHANGED fsvars
    /\ Idle
    /\ navigation_history_pos > 0
    /\ GoTo(navigation_history_pos - 1)
    /\ UNCHANGED <<winvars, last_clicked_file, menuvars, dlgvars, viewvars>>

navigate_forward ==
    /\ UNCHANGED fsvars
    /\ Idle
    /\ navigation_history_pos < Len(navigation_history) - 1
    /\ GoTo(navigation_history_pos + 1)
    /\ UNCHANGED <<winvars, last_clicked_file, menuvars, dlgvars, viewvars>>

navigate_up ==
    /\ UNCHANGED fsvars
    /\ Idle
    /\ current_fm_path # <<>>
    /\ current_fm_path' = ParentPath(current_fm_path)
    /\ push_navigation_history(current_fm_path')
    /\ load_directory
    /\ UNCHANGED <<winvars, last_clicked_file, menuvars, dlgvars, viewvars>>

\* Mutant: the folder's stored path is not read again, its name is appended twice.
EnteredTwice(path, name) == Join(Join(path, name), name)

\* The path a folder is entered by: its name appended to where we are.
EnteredPath(path, name) == Join(path, name)

\* A folder is entered and the path left behind goes to the history; a file is
\* read into the viewer; a device, or a position off the list, does nothing.
open_file_at_index(list_idx) ==
    LET onList == list_idx \in 0..(Len(file_list) - 1)
        node   == filesystem[file_list[list_idx + 1]]
        enters == onList /\ node.in_use /\ node.type = "FILE_DIRECTORY"
        views  == onList /\ node.in_use /\ HasContent(node.type) /\ Readable(node.path)
    IN  \/ /\ enters
           /\ push_navigation_history(current_fm_path)
           /\ current_fm_path' = EnteredPath(current_fm_path, node.name)
           /\ load_directory
           /\ UNCHANGED viewvars
        \/ /\ views
           /\ viewer_open' = TRUE /\ viewer_editing' = FALSE
           /\ viewer_path' = node.path
           /\ viewer_content' = read_file_content(node.path)
           /\ UNCHANGED navvars
        \/ /\ ~enters /\ ~views
           /\ UNCHANGED <<navvars, viewvars>>

\* A click on a row; a second one on the same row within a second opens it.
ListClick(row, soon) ==
    /\ UNCHANGED fsvars
    /\ Idle
    /\ row \in 0..(Len(file_list) - 1)
    /\ last_clicked_file' = row
    /\ IF row = last_clicked_file /\ soon
       THEN open_file_at_index(row)
       ELSE UNCHANGED <<navvars, viewvars>>
    /\ UNCHANGED <<winvars, menuvars, dlgvars>>

\* Mutant: the viewer does not keep the right button to itself.
MenusOverViewer == Visible /\ dialogs = {}

MenusAllowed == Visible /\ ~viewer_open /\ dialogs = {}

\* A right click on a row, on the empty area below (row = -1), or anywhere
\* while a menu is open.
handle_filemanager_rightclick(row) ==
    /\ MenusAllowed
    /\ \/ /\ context_menu_type # "CTX_NONE"
          /\ context_menu_type' = "CTX_NONE"
          /\ UNCHANGED <<context_menu_target, context_menu_target_idx>>
       \/ /\ context_menu_type = "CTX_NONE"
          /\ row \in 0..(Len(file_list) - 1)
          /\ filesystem[file_list[row + 1]].in_use
          /\ context_menu_type' = "CTX_FILE"
          /\ context_menu_target' = filesystem[file_list[row + 1]].path
          /\ context_menu_target_idx' = row
       \/ /\ context_menu_type = "CTX_NONE"
          /\ row = -1
          /\ context_menu_type' = "CTX_EMPTY"
          /\ UNCHANGED <<context_menu_target, context_menu_target_idx>>
    /\ UNCHANGED <<fsvars, winvars, navvars, last_clicked_file, dlgvars, viewvars>>

\* Mutant: the menu stays open under the dialog it opened.
MenuKept == UNCHANGED menuvars

MenuClosed == /\ context_menu_type' = "CTX_NONE"
              /\ UNCHANGED <<context_menu_target, context_menu_target_idx>>

OpenDialog(flag) == /\ dialogs' = dialogs \cup {flag}
                    /\ dialog_input' = IF flag \in NameDialogs THEN <<>> ELSE dialog_input
                    /\ UNCHANGED <<navvars, viewvars>>

\* A click while a menu is open: item 0, 1 or 2, or anything else (item 3).
handle_context_menu_click(item) ==
    /\ UNCHANGED fsvars
    /\ MenusAllowed
    /\ MenuClosed
    /\ \/ /\ context_menu_type = "CTX_FILE"
          /\ \/ item = 0 /\ open_file_at_index(context_menu_target_idx) /\ UNCHANGED dlgvars
             \/ item = 1 /\ OpenDialog("rename")
             \/ item = 2 /\ OpenDialog("delete_confirm")
       \/ /\ context_menu_type = "CTX_EMPTY"
          /\ \/ item = 0 /\ OpenDialog("new_file")
             \/ item = 1 /\ OpenDialog("new_folder")
             \/ /\ item = 2
                /\ UNCHANGED <<current_fm_path, navigation_history,
                               navigation_history_pos, dlgvars, viewvars>>
                /\ load_directory
       \/ /\ context_menu_type # "CTX_NONE"
          /\ item = 3
          /\ UNCHANGED <<navvars, dlgvars, viewvars>>
    /\ UNCHANGED <<winvars, last_clicked_file>>
-----------------------------------------------------------------------------
\* Keys reach the window while it is open, minimized or not.
KeysToDialog == /\ filemanager_open
                /\ ~(viewer_open /\ viewer_editing)
                /\ dialogs \cap NameDialogs # {}

\* Bound: no path grows past MaxDepth components.
FitsDepth(n) ==
    /\ Len(current_fm_path) + Len(n) <= MaxDepth
    /\ "rename" \in dialogs => Len(context_menu_target) - 1 + Len(n) <= MaxDepth

TypeName(n) == /\ KeysToDialog
               /\ FitsDepth(n)
               /\ dialog_input' = n
               /\ UNCHANGED <<fsvars, winvars, navvars, last_clicked_file,
                              menuvars, dialogs, viewvars>>

\* The first flag of the three that handle_dialog_keyboard finds set.
ActiveDialog == IF "new_file" \in dialogs THEN "new_file"
                ELSE IF "new_folder" \in dialogs THEN "new_folder" ELSE "rename"

\* Mutant: the success of the call is ignored and the listing kept.
NotReloaded == UNCHANGED file_list

ReloadedListing == load_directory

\* The file system call a dialog makes on a non-empty name.
DialogCall(flag, name) ==
    \/ /\ flag = "new_file"
       /\ create_file_in_fs(current_fm_path, name, "FILE_REGULAR")
    \/ /\ flag = "new_folder"
       /\ create_file_in_fs(current_fm_path, name, "FILE_DIRECTORY")
    \/ /\ flag = "rename"
       /\ rename_file_in_fs(context_menu_target, name)

CanDialogCall(flag, name) ==
    IF flag = "rename" THEN CanRename(context_menu_target, name)
                       ELSE CanCreate(current_fm_path, name)

\* Enter, or the OK button.  An empty name leaves the dialog open; any other
\* closes it whether the call succeeds or not.
DialogEnter ==
    /\ \/ KeysToDialog
       \/ Visible /\ ~viewer_open /\ dialogs \cap NameDialogs # {}
    /\ UNCHANGED current_fm_path
    /\ dialog_input' = <<>>
    /\ IF dialog_input = <<>>
       THEN UNCHANGED <<fsvars, dialogs, file_list>>
       ELSE /\ dialogs' = dialogs \ {ActiveDialog}
            /\ IF CanDialogCall(ActiveDialog, dialog_input)
               THEN DialogCall(ActiveDialog, dialog_input) /\ ReloadedListing
               ELSE UNCHANGED <<fsvars, file_list>>
    /\ UNCHANGED <<winvars, navigation_history, navigation_history_pos,
                   last_clicked_file, menuvars, viewvars>>

DialogCancel ==
    /\ Visible /\ ~viewer_open /\ dialogs \cap NameDialogs # {}
    /\ dialogs' = dialogs \ NameDialogs
    /\ UNCHANGED <<fsvars, winvars, navvars, last_clicked_file, menuvars,
                   dialog_input, viewvars>>

\* The two buttons of the delete dialog.
DeleteConfirm(yes) ==
    /\ Visible /\ ~viewer_open
    /\ dialogs \cap NameDialogs = {} /\ "delete_confirm" \in dialogs
    /\ UNCHANGED current_fm_path
    /\ dialogs' = dialogs \ {"delete_confirm"}
    /\ IF yes /\ CanDelete(context_menu_target)
       THEN delete_file_from_fs(context_menu_target) /\ ReloadedListing
       ELSE UNCHANGED <<fsvars, file_list>>
    /\ UNCHANGED <<winvars, navigation_history, navigation_history_pos,
                   last_clicked_file, menuvars, dialog_input, viewvars>>

\* Typing in the viewer.
handle_viewer_keyboard(text) ==
    /\ filemanager_open /\ viewer_open /\ viewer_editing
    /\ viewer_content' = text
    /\ UNCHANGED <<fsvars, winvars, navvars, last_clicked_file, menuvars, dlgvars,
                   viewer_open, viewer_editing, viewer_path>>

\* Edit, and Save.  The result of the write is not looked at.
ViewerEditSave ==
    /\ Visible /\ viewer_open
    /\ viewer_editing' = ~viewer_editing
    /\ IF viewer_editing /\ IsFile(viewer_path)
       THEN write_file_content(viewer_path, viewer_content)
       ELSE UNCHANGED fsvars
    /\ UNCHANGED <<winvars, navvars, last_clicked_file, menuvars, dlgvars,
                   viewer_open, viewer_path, viewer_content>>

ViewerClose ==
    /\ Visible /\ viewer_open
    /\ viewer_open' = FALSE /\ viewer_editing' = FALSE
    /\ UNCHANGED <<fsvars, winvars, navvars, last_clicked_file, menuvars, dlgvars,
                   viewer_path, viewer_content>>

Rows == 0..(MaxFiles - 1)

FMNext == \/ open_filemanager
          \/ close_filemanager
          \/ set_filemanager_minimized
          \/ navigate_back
          \/ navigate_forward
          \/ navigate_up
          \/ \E row \in Rows, soon \in BOOLEAN : ListClick(row, soon)
          \/ \E row \in Rows \cup {-1} : handle_filemanager_rightclick(row)
          \/ \E item \in 0..3 : handle_context_menu_click(item)
          \/ \E n \in Names \cup {<<>>} : TypeName(n)
          \/ DialogEnter
          \/ DialogCancel
          \/ \E yes \in BOOLEAN : DeleteConfirm(yes)
          \/ \E text \in Contents : handle_viewer_keyboard(text)
          \/ ViewerEditSave
          \/ ViewerClose

FMSpec == FMInit /\ [][FMNext]_vars
-----------------------------------------------------------------------------
(***************************************************************************)
(* Properties.                                                             *)
(***************************************************************************)
\* Every variable has its type; the history never outgrows its array and the
\* position stays inside it.
FMTypeOK ==
    /\ TypeOK
    /\ {filemanager_open, fm_minimized, viewer_open, viewer_editing} \subseteq BOOLEAN
    /\ {current_fm_path, context_menu_target, viewer_path, dialog_input} \subseteq Seq(Comp)
    /\ file_list \in Seq(Slots)
    /\ navigation_history \in Seq(Seq(Comp))
    /\ Len(navigation_history) <= HistoryLimit
    /\ navigation_history_pos \in -1..(Len(navigation_history) - 1)
    /\ filemanager_open => navigation_history_pos >= 0
    /\ last_clicked_file \in Rows \cup {-1}
    /\ context_menu_type \in {"CTX_NONE", "CTX_FILE", "CTX_EMPTY"}
    /\ context_menu_target_idx \in Rows \cup {-1}
    /\ dialogs \subseteq DialogFlags
    /\ viewer_content \in Contents

\* At most one of the viewer, the dialogs and the menu is open, also after the
\* window was closed, minimized or opened again over them: the handlers decide
\* which one a click is for by testing the flags in a fixed order.
OneModal ==
    /\ viewer_open => dialogs = {} /\ context_menu_type = "CTX_NONE"
    /\ context_menu_type # "CTX_NONE" => dialogs = {}
    /\ \A d, e \in dialogs : d = e
    /\ viewer_editing => viewer_open

\* What the window shows is what the file system holds: no event leaves the
\* kept listing of slot indices behind the directory it was taken from.
ListingFresh == filemanager_open => file_list = DirectoryContents(current_fm_path)

\* The path a menu, a rename or a delete was opened on still names a file, and
\* never the root, when the choice is made, however many events lie between.
TargetAlive ==
    context_menu_type = "CTX_FILE" \/ dialogs \cap {"rename", "delete_confirm"} # {}
      => Exists(context_menu_target) /\ find_node_by_path(context_menu_target) # 0

\* While the viewer stays open its path names the same slot, and the only thing
\* that changes in the file system is the text of that slot.
ViewerKeepsItsFile ==
    [][viewer_open /\ viewer_open' =>
         /\ viewer_path' = viewer_path
         /\ filesystem' = filesystem
         /\ \A i \in Slots : content_storage_data'[i] # content_storage_data[i]
                => i = find_node_by_path(viewer_path)]_vars

\* A folder is entered by its stored name, not by its path, and the name may be from a
\* rename, or hold slashes.  When the path grows by a click - the history goes on from
\* the path left behind, or is full - it is the shown path with the name of a folder of
\* the listing behind it, and that is where the folder lies exactly if its name has no
\* slash: such a folder is listed below its last slash, and its whole name added there
\* leads to another place.
EnterLeadsToNode ==
    [][/\ Len(current_fm_path') > Len(current_fm_path)
       /\ \/ navigation_history_pos' = navigation_history_pos
          \/ navigation_history'[navigation_history_pos' + 1] = current_fm_path
       => \E k \in 1..Len(file_list) :
             LET node == filesystem[file_list[k]]
             IN  /\ node.type = "FILE_DIRECTORY"
                 /\ current_fm_path' = Join(current_fm_path, node.name)
                 /\ current_fm_path' = node.path <=> Len(node.name) = 1]_vars

\* As long as the window shows the directory the menu was opened in, the row
\* "Open" acts on and the path "Rename" and "Delete" act on are one file.  (After
\* the window is opened again over a menu it shows "/", and they may differ.)
MenuAgrees ==
    /\ filemanager_open
    /\ context_menu_type = "CTX_FILE"
    /\ current_fm_path = ParentPath(context_menu_target)
    => /\ context_menu_target_idx < Len(file_list)
       /\ filesystem[file_list[context_menu_target_idx + 1]].path = context_menu_target
=============================================================================
