------------------------------ MODULE MC_Shell ------------------------------
(***************************************************************************)
(* A small instance of Shell for TLC: one of the seventeen directories, one *)
(* file and one page, a line of three keys, and a text that is full after  *)
(* three commands.  One key is a whole word.                               *)
(***************************************************************************)
EXTENDS Shell

\* "root@halden:" is left out.
ShortPrompt(dir) == Append(dir, "#")

\* uname says nothing to an option it does not know.
SomePieces == Messages \cup Keys \cup Directories \cup Files \cup Pages \cup {"#", "report"}

SomeReports == {<<>>, <<"report", "\n">>}
=============================================================================
