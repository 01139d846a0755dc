------------------------------- MODULE Shell --------------------------------
(***************************************************************************)
(* The terminal (system/terminal.cpp, apps/terminal.cpp): the text it      *)
(* shows, of which only so much is kept until the screen is cleared, and   *)
(* the line being typed, which is kept apart from it.                      *)
(*                                                                         *)
(* A key comes here when no browser, file manager or prompt takes it       *)
(* (KeyTarget of WindowManager), whether or not a terminal is open: opening *)
(* one is all that clears the screen.                                      *)
(***************************************************************************)
EXTENDS Commands

CONSTANTS MaxText,     \* 4095, what terminal_buffer holds
          MaxLine,     \* 127, what kbd_buffer holds
          Keys,        \* what is typed, Enter and Backspace apart
          Prompt(_)    \* the prompt in a directory

ASSUME ShellAssumption == /\ MaxText \in Nat /\ MaxLine \in Nat
                          /\ Keys \subseteq Char
                          /\ \A dir \in Known : Prompt(dir) \in Seq(Char)

VARIABLES terminal_buffer, kbd_buffer, current_directory,
          echoed   \* history: since the last prompt nothing was dropped or hidden

vars == <<terminal_buffer, kbd_buffer, current_directory, echoed>>

Init == /\ terminal_buffer = <<>>
        /\ kbd_buffer = <<>>
        /\ current_directory = Root
        /\ echoed = FALSE

RoomInText == Len(terminal_buffer) < MaxText

\* terminal_write: what does not fit is dropped.  Several writes in a row drop what
\* one write of all their texts drops.
Written(text, str) ==
    LET room == MaxText - Len(text)
    IN  text \o SubSeq(str, 1, IF Len(str) <= room THEN Len(str) ELSE room)

Front(s) == SubSeq(s, 1, Len(s) - 1)
-----------------------------------------------------------------------------
\* Mutant: the typed line is one longer than its array.
LineOffByOne == Len(kbd_buffer) <= MaxLine

RoomInLine == Len(kbd_buffer) < MaxLine

\* A character goes to the line and is echoed; with the line full, neither.
TypeKey(c) ==
    /\ RoomInLine
    /\ kbd_buffer' = Append(kbd_buffer, c)
    /\ terminal_buffer' = Written(terminal_buffer, <<c>>)
    /\ echoed' = (echoed /\ RoomInText)
    /\ UNCHANGED current_directory

\* Mutant: the key is taken back from the line alone.
ShownKept == terminal_buffer

ShownTakenBack == IF terminal_buffer = <<>> THEN <<>> ELSE Front(terminal_buffer)

\* Backspace takes back one character of the line, and the last one shown,
\* whichever that is.
Backspace ==
    /\ kbd_buffer # <<>>
    /\ kbd_buffer' = Front(kbd_buffer)
    /\ terminal_buffer' = ShownTakenBack
    /\ UNCHANGED <<current_directory, echoed>>

LineAfterEnter == <<>>

\* Enter is shown if there is room, the line is run, and a new prompt follows.
Enter ==
    /\ \E text \in Printed(kbd_buffer, current_directory) :
          terminal_buffer' =
             Written(terminal_buffer,
                     NewLine \o text \o Prompt(Directory(kbd_buffer, current_directory)))
    /\ current_directory' = Directory(kbd_buffer, current_directory)
    /\ kbd_buffer' = LineAfterEnter
    /\ echoed' = (Len(terminal_buffer') < MaxText)

\* The screen is cleared and the line is not.
open_terminal ==
    /\ terminal_buffer' = Written(<<>>, Prompt(current_directory))
    /\ echoed' = (kbd_buffer = <<>> /\ Len(terminal_buffer') < MaxText)
    /\ UNCHANGED <<kbd_buffer, current_directory>>

Next == \/ \E c \in Keys : TypeKey(c)
        \/ Backspace \/ Enter \/ open_terminal

Spec == Init /\ [][Next]_vars
-----------------------------------------------------------------------------
(***************************************************************************)
(* Properties.                                                             *)
(***************************************************************************)
\* Neither array overflows, and the shell is in a directory that it knows.
ShellTypeOK ==
    /\ terminal_buffer \in Seq(Char) /\ Len(terminal_buffer) <= MaxText
    /\ kbd_buffer \in Seq(Char) /\ Len(kbd_buffer) <= MaxLine
    /\ current_directory \in Known
    /\ echoed \in BOOLEAN

\* The text ends with str.
EndsWith(text, str) ==
    /\ Len(str) <= Len(text)
    /\ \A i \in 1..Len(str) : text[Len(text) - Len(str) + i] = str[i]

\* What Enter would run is what stands behind the prompt of the directory the
\* shell is in - unless, since that prompt, the text was full or the terminal was
\* opened over a line begun before.
EnterRunsWhatIsShown ==
    echoed => EndsWith(terminal_buffer, Prompt(current_directory) \o kbd_buffer)

\* "ls /dns - View available web pages", the page of halden.os tells its reader to
\* type (network.cpp:215): the answer is not that there is no such directory.
PagesListed ==
    [][Enter /\ kbd_buffer = <<"ls", " ", "/", "dns">> =>
          ~EndsWith(terminal_buffer', NoSuchFile \o Prompt(current_directory))]_vars
=============================================================================
