------------------------------ MODULE Commands ------------------------------
(***************************************************************************)
(* What the shell makes of a line (system/commands.cpp): the directory it  *)
(* is in afterwards, and what it prints.                                   *)
(*                                                                         *)
(* A line is a sequence of keys.  A key is a word, a blank or a slash:     *)
(* "cd /dev" is <<"cd", " ", "/", "dev">>.  A path is such a sequence too, *)
(* and a fixed message is one character of the text it is printed to.      *)
(***************************************************************************)
EXTENDS Integers, Sequences

CONSTANTS Char,          \* what a text and a line are made of
          Directories,   \* the seventeen names cd and ls know below the root
          Files,         \* the names cat finds in files[], wherever it is
          ProcFiles,     \* of these, the ones it also finds below /proc
          Pages,         \* the files of dns_files
          Reports        \* texts the other commands may print

\* The fixed messages, and what stands between names.
Messages == {"/", "\n", ": No such file or directory", "listing", "total 0",
             "cat: missing operand", "contents", "cat: ", "cd: ", "bash: ",
             ": command not found"}

ASSUME CommandsAssumption == /\ Messages \cup Directories \subseteq Char
                             /\ \A text \in Reports : text \in Seq(Char)

Root == <<"/">>
Known == {Root} \cup {<<"/", d>> : d \in Directories}

NewLine == <<"\n">>
NoSuchFile == <<": No such file or directory", "\n">>

\* A line that is one word, and a line that begins with a word and a blank.
IsCommand(line, word) == line = <<word>>
TakesArgument(line, word) == Len(line) >= 2 /\ line[1] = word /\ line[2] = " "
Argument(line) == SubSeq(line, 3, Len(line))

Name(path) == path[Len(path)]
IsPathOf(path, dir) == \E d \in Directories : d = dir /\ path \in {<<d>>, <<"/", d>>}
-----------------------------------------------------------------------------
\* Everything before the last slash, of which a directory here has only one.
Parent(dir) ==
    LET slashes == {i \in DOMAIN dir : dir[i] = "/"}
        last    == CHOOSE i \in slashes : \A j \in slashes : j <= i
    IN  IF last = 1 THEN Root ELSE SubSeq(dir, 1, last - 1)

\* Where cd goes from dir; an argument it does not know leaves it there.
cmd_cd(arg, dir) ==
    CASE arg \in {<<>>, Root} -> Root
      [] arg = <<"..">>       -> Parent(dir)
      [] \E d \in Directories : IsPathOf(arg, d) -> <<"/", Name(arg)>>
      [] OTHER                -> dir

CdKnows(arg) == \/ arg \in {<<>>, Root, <<"..">>}
                \/ \E d \in Directories : IsPathOf(arg, d)

\* Without an argument, or with ".", ls prints one line for the directory the shell
\* is in; "-l" and "-la" print several; to every other argument it says no.
cmd_ls(arg, dir) ==
    CASE arg \in {<<>>, <<".">>}      -> <<"listing">> \o dir \o NewLine
      [] arg \in {<<"-l">>, <<"-la">>} -> <<"total 0", "\n", "listing">> \o dir \o NewLine
      [] OTHER                        -> arg \o NoSuchFile

\* Pages are found in /dns or by their full path, before anything else.
PageNamed(arg, dir) ==
    \/ Len(arg) = 4 /\ arg[1] = "/" /\ arg[2] = "dns" /\ arg[3] = "/" /\ arg[4] \in Pages
    \/ Len(arg) = 1 /\ dir = <<"/", "dns">> /\ arg[1] \in Pages

FileNamed(arg) ==
    \/ Len(arg) = 1 /\ arg[1] \in Files
    \/ Len(arg) = 4 /\ arg[1] = "/" /\ arg[2] = "proc" /\ arg[3] = "/" /\ arg[4] \in ProcFiles

cmd_cat(arg, dir) ==
    CASE arg = <<>> -> <<"cat: missing operand", "\n">>
      [] arg # <<>> /\ (PageNamed(arg, dir) \/ FileNamed(arg)) -> <<"contents", Name(arg)>>
      [] OTHER -> <<"cat: ">> \o arg \o NoSuchFile

\* What they print depends on the machine, the network and the package tables.
Reporting == {"fetch", "whoami", "hostname", "uname", "df", "free", "ps", "hlpkg",
              "ports", "help"}
ReportingWith == {"uname", "free", "ping", "hlpkg", "ports"}

\* The texts process_command may print for a line.
Printed(line, dir) ==
    CASE line = <<>> -> {<<>>}
      [] IsCommand(line, "cd") -> {<<>>}
      [] TakesArgument(line, "cd") ->
            {IF CdKnows(Argument(line)) THEN <<>> ELSE <<"cd: ">> \o Argument(line) \o NoSuchFile}
      [] IsCommand(line, "ls") -> {cmd_ls(<<>>, dir)}
      [] TakesArgument(line, "ls") -> {cmd_ls(Argument(line), dir)}
      [] IsCommand(line, "pwd") -> {dir \o NewLine}
      [] TakesArgument(line, "cat") -> {cmd_cat(Argument(line), dir)}
      [] TakesArgument(line, "echo") -> {Argument(line) \o NewLine}
      [] \/ \E word \in Reporting : IsCommand(line, word)
         \/ \E word \in ReportingWith : TakesArgument(line, word) -> Reports
      [] OTHER -> {<<"bash: ">> \o line \o <<": command not found", "\n">>}

\* The directory after a line.
Directory(line, dir) ==
    CASE IsCommand(line, "cd") -> Root
      [] TakesArgument(line, "cd") -> cmd_cd(Argument(line), dir)
      [] OTHER -> dir
=============================================================================
