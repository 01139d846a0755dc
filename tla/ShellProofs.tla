----------------------------- MODULE ShellProofs -----------------------------
(***************************************************************************)
(* Proofs about Shell and Commands, for every set of directories and files, *)
(* every length of the two arrays and whatever is typed.                   *)
(***************************************************************************)
EXTENDS Shell, TLAPS

(***************************************************************************)
(* Sequences.                                                              *)
(***************************************************************************)
LEMMA FirstOnes ==
    ASSUME NEW S, NEW s \in Seq(S), NEW n \in 0..Len(s)
    PROVE  /\ SubSeq(s, 1, n) \in Seq(S) /\ Len(SubSeq(s, 1, n)) = n
           /\ \A i \in 1..n : SubSeq(s, 1, n)[i] = s[i]
<1>1. \A i \in 1..n : s[i] \in S
  OBVIOUS
<1>2. SubSeq(s, 1, n) = [i \in 1..n |-> s[i]]
  OBVIOUS
<1> QED
  BY <1>1, <1>2

LEMMA Joined ==
    ASSUME NEW S, NEW s \in Seq(S), NEW t \in Seq(S)
    PROVE  /\ s \o t \in Seq(S) /\ Len(s \o t) = Len(s) + Len(t)
           /\ \A i \in 1..Len(s) : (s \o t)[i] = s[i]
           /\ \A i \in 1..Len(t) : (s \o t)[Len(s) + i] = t[i]
OBVIOUS

LEMMA WholeOf ==
    ASSUME NEW S, NEW s \in Seq(S)
    PROVE  SubSeq(s, 1, Len(s)) = s
<1>1. SubSeq(s, 1, Len(s)) = [i \in 1..Len(s) |-> s[i]]
  OBVIOUS
<1> QED
  BY <1>1

LEMMA SameSequence ==
    ASSUME NEW S, NEW s \in Seq(S), NEW t \in Seq(S), Len(s) = Len(t),
           \A i \in 1..Len(s) : s[i] = t[i]
    PROVE  s = t
OBVIOUS

LEMMA OneLong ==
    ASSUME NEW S, NEW s \in Seq(S), Len(s) = 1
    PROVE  s = <<s[1]>>
OBVIOUS

LEMMA Tuples ==
    ASSUME NEW S, NEW c \in S, NEW d \in S, NEW e \in S
    PROVE  /\ <<>> \in Seq(S) /\ <<c>> \in Seq(S)
           /\ <<c, d>> \in Seq(S) /\ <<c, d, e>> \in Seq(S)
OBVIOUS

\* A text ends with what was put to it last.
LEMMA EndsWithLast ==
    ASSUME NEW s \in Seq(Char), NEW t \in Seq(Char)
    PROVE  EndsWith(s \o t, t)
<1>1. /\ Len(s) \in Nat /\ Len(t) \in Nat /\ Len(s \o t) = Len(s) + Len(t)
      /\ \A i \in 1..Len(t) : (s \o t)[Len(s) + i] = t[i]
  BY Joined
<1> QED
  BY <1>1 DEF EndsWith

\* EndsWith, with the two lengths by name.
LEMMA EndsWithBy ==
    ASSUME NEW a, NEW b, NEW m \in Nat, NEW n \in Nat, Len(a) = m, Len(b) = n,
           n <= m, \A i \in 1..n : a[m - n + i] = b[i]
    PROVE  EndsWith(a, b)
BY DEF EndsWith

LEMMA EndsWithOneMore ==
    ASSUME NEW s \in Seq(Char), NEW t \in Seq(Char), EndsWith(s, t), NEW c \in Char
    PROVE  EndsWith(Append(s, c), Append(t, c))
<1>1. /\ Len(s) \in Nat /\ Len(t) \in Nat /\ Len(t) <= Len(s)
      /\ Len(Append(s, c)) = Len(s) + 1 /\ Len(Append(t, c)) = Len(t) + 1
  BY DEF EndsWith
<1>2. ASSUME NEW i \in 1..(Len(t) + 1)
      PROVE  Append(s, c)[Len(s) + 1 - (Len(t) + 1) + i] = Append(t, c)[i]
  <2>1. CASE i = Len(t) + 1
    BY <1>1, <2>1
  <2>2. CASE i \in 1..Len(t)
    <3>1. Len(s) - Len(t) + i \in 1..Len(s) /\ s[Len(s) - Len(t) + i] = t[i]
      BY <1>1, <2>2 DEF EndsWith
    <3>2. Append(t, c)[i] = t[i] /\ Append(s, c)[Len(s) - Len(t) + i] = s[Len(s) - Len(t) + i]
      BY <2>2, <3>1
    <3>3. Len(s) + 1 - (Len(t) + 1) + i = Len(s) - Len(t) + i
      BY <1>1
    <3> QED
      BY <3>1, <3>2, <3>3
  <2> QED
    BY <1>1, <2>1, <2>2
<1>3. Len(s) + 1 \in Nat /\ Len(t) + 1 \in Nat /\ Len(t) + 1 <= Len(s) + 1
  BY <1>1
<1> DEFINE a == Append(s, c)
           b == Append(t, c)
           m == Len(s) + 1
           n == Len(t) + 1
<1>4. Len(a) = m /\ Len(b) = n /\ \A i \in 1..n : a[m - n + i] = b[i]
  BY <1>1, <1>2
<1>5. m \in Nat /\ n \in Nat /\ n <= m
  BY <1>3
<1> HIDE DEF a, b, m, n
<1>6. EndsWith(a, b)
  BY <1>4, <1>5, EndsWithBy
<1> QED
  BY <1>6 DEF a, b

LEMMA EndsWithOneLess ==
    ASSUME NEW s \in Seq(Char), NEW t \in Seq(Char), EndsWith(s, t), t # <<>>
    PROVE  EndsWith(Front(s), Front(t))
<1>1. /\ Len(s) \in Nat /\ Len(t) \in Nat \ {0} /\ Len(t) <= Len(s)
      /\ Len(s) - 1 \in 0..Len(s) /\ Len(t) - 1 \in 0..Len(t)
  BY DEF EndsWith
<1>2. /\ Len(Front(s)) = Len(s) - 1 /\ \A i \in 1..(Len(s) - 1) : Front(s)[i] = s[i]
      /\ Len(Front(t)) = Len(t) - 1 /\ \A i \in 1..(Len(t) - 1) : Front(t)[i] = t[i]
  BY <1>1, FirstOnes DEF Front
<1>3. ASSUME NEW i \in 1..(Len(t) - 1)
      PROVE  Front(s)[Len(s) - 1 - (Len(t) - 1) + i] = Front(t)[i]
  <2>1. /\ Len(s) - Len(t) + i \in 1..(Len(s) - 1)
        /\ Len(s) - 1 - (Len(t) - 1) + i = Len(s) - Len(t) + i
        /\ s[Len(s) - Len(t) + i] = t[i]
    BY <1>1 DEF EndsWith
  <2> QED
    BY <1>2, <2>1
<1> QED
  BY <1>1, <1>2, <1>3 DEF EndsWith

LEMMA FrontOfJoined ==
    ASSUME NEW s \in Seq(Char), NEW t \in Seq(Char), t # <<>>
    PROVE  Front(s \o t) = s \o Front(t)
<1> DEFINE n == Len(t) - 1
<1>1. n \in 0..Len(t) /\ n \in Nat /\ Len(s) \in Nat /\ Len(t) = n + 1
  OBVIOUS
<1>2. /\ s \o t \in Seq(Char) /\ Len(s \o t) = Len(s) + n + 1
      /\ \A i \in 1..Len(s) : (s \o t)[i] = s[i]
      /\ \A i \in 1..(n + 1) : (s \o t)[Len(s) + i] = t[i]
  BY <1>1, Joined
<1>3. /\ Front(t) \in Seq(Char) /\ Len(Front(t)) = n
      /\ \A i \in 1..n : Front(t)[i] = t[i]
  BY <1>1, FirstOnes DEF Front
<1>4. /\ s \o Front(t) \in Seq(Char) /\ Len(s \o Front(t)) = Len(s) + n
      /\ \A i \in 1..Len(s) : (s \o Front(t))[i] = s[i]
      /\ \A i \in 1..n : (s \o Front(t))[Len(s) + i] = Front(t)[i]
  <2> DEFINE u == Front(t)
  <2>1. u \in Seq(Char) /\ Len(u) = n
    BY <1>3
  <2> HIDE DEF u, n
  <2>2. /\ s \o u \in Seq(Char) /\ Len(s \o u) = Len(s) + n
        /\ \A i \in 1..Len(s) : (s \o u)[i] = s[i]
        /\ \A i \in 1..n : (s \o u)[Len(s) + i] = u[i]
    BY <2>1, Joined
  <2> QED
    BY <2>2 DEF u
<1> HIDE DEF n
<1>5. /\ Front(s \o t) \in Seq(Char) /\ Len(Front(s \o t)) = Len(s) + n
      /\ \A i \in 1..(Len(s) + n) : Front(s \o t)[i] = (s \o t)[i]
  <2> DEFINE u == s \o t
  <2>1. u \in Seq(Char) /\ Len(u) - 1 = Len(s) + n /\ Len(s) + n \in 0..Len(u)
    BY <1>1, <1>2
  <2> HIDE DEF u
  <2>2. /\ Front(u) \in Seq(Char) /\ Len(Front(u)) = Len(s) + n
        /\ \A i \in 1..(Len(s) + n) : Front(u)[i] = u[i]
    BY <2>1, FirstOnes DEF Front
  <2> QED
    BY <2>2 DEF u
<1>6. ASSUME NEW i \in 1..(Len(s) + n)
      PROVE  Front(s \o t)[i] = (s \o Front(t))[i]
  <2>1. CASE i \in 1..Len(s)
    BY <1>2, <1>4, <1>5, <2>1
  <2>2. CASE i \notin 1..Len(s)
    <3>1. PICK j \in 1..n : i = Len(s) + j
      <4>1. i - Len(s) \in 1..n /\ i = Len(s) + (i - Len(s))
        BY <1>1, <2>2
      <4> QED
        BY <4>1
    <3>2. /\ (s \o t)[i] = t[j] /\ (s \o Front(t))[i] = Front(t)[j]
          /\ Front(t)[j] = t[j]
      BY <1>1, <1>2, <1>3, <1>4, <3>1
    <3> QED
      BY <1>5, <3>2
  <2> QED
    BY <2>1, <2>2
<1> QED
  BY <1>4, <1>5, <1>6, SameSequence

\* terminal_write neither overflows the array nor, while room is left after it,
\* drops anything.
LEMMA WrittenFits ==
    ASSUME NEW text \in Seq(Char), NEW str \in Seq(Char), Len(text) <= MaxText
    PROVE  /\ Written(text, str) \in Seq(Char)
           /\ Len(Written(text, str)) <= MaxText
           /\ Len(Written(text, str)) < MaxText => Written(text, str) = text \o str
<1> DEFINE room == MaxText - Len(text)
           n == IF Len(str) <= room THEN Len(str) ELSE room
<1>1. n \in 0..Len(str) /\ Len(text) + n <= MaxText /\ room \in Nat
  BY ShellAssumption
<1>2. SubSeq(str, 1, n) \in Seq(Char) /\ Len(SubSeq(str, 1, n)) = n
  BY <1>1, FirstOnes, Zenon
<1>3. Written(text, str) = text \o SubSeq(str, 1, n)
  BY DEF Written
<1>4. Written(text, str) \in Seq(Char) /\ Len(Written(text, str)) = Len(text) + n
  <2>1. /\ text \o SubSeq(str, 1, n) \in Seq(Char)
        /\ Len(text \o SubSeq(str, 1, n)) = Len(text) + Len(SubSeq(str, 1, n))
    BY <1>2, Joined, Zenon
  <2> QED
    BY <1>2, <1>3, <2>1, Zenon
<1>5. ASSUME Len(text) + n < MaxText
      PROVE  SubSeq(str, 1, n) = str
  <2>1. n = Len(str)
    BY <1>1, <1>5, ShellAssumption
  <2> QED
    BY <2>1, WholeOf, Zenon
<1> QED
  BY <1>1, <1>3, <1>4, <1>5
-----------------------------------------------------------------------------
(***************************************************************************)
(* The commands.                                                           *)
(***************************************************************************)
LEMMA KnownPaths ==
    ASSUME NEW dir \in Known
    PROVE  dir \in Seq(Char)
<1> "/" \in Char
  BY CommandsAssumption DEF Messages
<1>1. CASE dir = <<"/">>
  BY <1>1, Tuples
<1>2. ASSUME NEW d \in Directories, dir = <<"/", d>>
      PROVE  dir \in Seq(Char)
  <2>1. d \in Char
    BY CommandsAssumption
  <2> QED
    BY <1>2, <2>1, Tuples
<1> QED
  BY <1>1, <1>2 DEF Known, Root

\* cd leads from a directory the shell knows to one that it knows.
LEMMA CdStaysKnown ==
    ASSUME NEW arg, NEW dir \in Known
    PROVE  cmd_cd(arg, dir) \in Known
<1>1. Root \in Known
  BY DEF Known
<1>2. Parent(dir) \in Known
  <2> DEFINE slashes == {i \in DOMAIN dir : dir[i] = "/"}
             last    == CHOOSE i \in slashes : \A j \in slashes : j <= i
  <2>1. CASE dir = Root
    <3>1. slashes = {1}
      BY <2>1 DEF Root
    <3>2. last = 1
      BY <3>1
    <3> QED
      BY <1>1, <3>2 DEF Parent
  <2>2. ASSUME NEW d \in Directories, dir = <<"/", d>>
        PROVE  Parent(dir) = Root
    <3>1. DOMAIN dir = {1, 2} /\ dir[1] = "/"
      BY <2>2
    <3>2. last \in {1, 2}
      <4>1. CASE 2 \in slashes
        BY <3>1, <4>1
      <4>2. CASE 2 \notin slashes
        BY <3>1, <4>2
      <4> QED
        BY <4>1, <4>2
    <3>3. SubSeq(dir, 1, 1) = Root
      <4>1. dir \in Seq(Char) /\ 1 \in 0..Len(dir)
        BY <2>2, KnownPaths
      <4>2. /\ SubSeq(dir, 1, 1) \in Seq(Char) /\ Len(SubSeq(dir, 1, 1)) = 1
            /\ SubSeq(dir, 1, 1)[1] = "/"
        BY <3>1, <4>1, FirstOnes
      <4> QED
        BY <4>2, OneLong, Zenon DEF Root
    <3>4. Parent(dir) = IF last = 1 THEN Root ELSE SubSeq(dir, 1, last - 1)
      BY DEF Parent
    <3> HIDE DEF last
    <3> QED
      BY <3>2, <3>3, <3>4
  <2> QED
    BY <1>1, <2>1, <2>2 DEF Known
<1>3. ASSUME NEW d \in Directories, IsPathOf(arg, d)
      PROVE  <<"/", Name(arg)>> \in Known
  <2>1. Name(arg) = d
    BY <1>3 DEF IsPathOf, Name
  <2> QED
    BY <2>1 DEF Known
<1> QED
  BY <1>1, <1>2, <1>3 DEF cmd_cd

LEMMA DirectoryStaysKnown ==
    ASSUME NEW line, NEW dir \in Known
    PROVE  Directory(line, dir) \in Known
BY CdStaysKnown DEF Directory, Known

LEMMA LastOnes ==
    ASSUME NEW S, NEW s \in Seq(S), NEW m \in Nat \ {0}
    PROVE  SubSeq(s, m, Len(s)) \in Seq(S)
<1>1. CASE Len(s) - m + 1 \in Nat
  <2>1. SubSeq(s, m, Len(s)) = [i \in 1..(Len(s) - m + 1) |-> s[i + m - 1]]
    OBVIOUS
  <2>2. \A i \in 1..(Len(s) - m + 1) : s[i + m - 1] \in S
    OBVIOUS
  <2> QED
    BY <1>1, <2>1, <2>2
<1>2. CASE Len(s) - m + 1 \notin Nat
  BY <1>2
<1> QED
  BY <1>1, <1>2

\* The fixed texts.
LEMMA FixedTexts ==
    /\ NewLine \in Seq(Char) /\ NoSuchFile \in Seq(Char)
    /\ <<"listing">> \in Seq(Char) /\ <<"total 0", "\n", "listing">> \in Seq(Char)
    /\ <<"cat: missing operand", "\n">> \in Seq(Char) /\ <<"cat: ">> \in Seq(Char)
    /\ <<"cd: ">> \in Seq(Char) /\ <<"bash: ">> \in Seq(Char)
    /\ <<": command not found", "\n">> \in Seq(Char) /\ <<>> \in Seq(Char)
<1>1. \A c \in Messages : c \in Char
  BY CommandsAssumption
<1> QED
  BY <1>1, Tuples DEF Messages, NewLine, NoSuchFile

LEMMA ListingIsText ==
    ASSUME NEW arg \in Seq(Char), NEW dir \in Seq(Char)
    PROVE  cmd_ls(arg, dir) \in Seq(Char)
BY FixedTexts, Joined DEF cmd_ls

LEMMA CatIsText ==
    ASSUME NEW arg \in Seq(Char), NEW dir
    PROVE  cmd_cat(arg, dir) \in Seq(Char)
<1>1. CASE arg # <<>>
  <2>1. Name(arg) \in Char
    BY <1>1 DEF Name
  <2>2. <<"contents", Name(arg)>> \in Seq(Char)
    BY <2>1, CommandsAssumption, Tuples DEF Messages
  <2> QED
    BY <1>1, <2>2, FixedTexts, Joined DEF cmd_cat
<1>2. CASE arg = <<>>
  BY <1>2, FixedTexts DEF cmd_cat
<1> QED
  BY <1>1, <1>2

LEMMA PrintedIsText ==
    ASSUME NEW line \in Seq(Char), NEW dir \in Known, NEW text \in Printed(line, dir)
    PROVE  text \in Seq(Char)
<1> DEFINE arg == Argument(line)
<1>1. arg \in Seq(Char) /\ dir \in Seq(Char)
  BY LastOnes, KnownPaths DEF Argument
<1>2. /\ cmd_ls(<<>>, dir) \in Seq(Char) /\ cmd_ls(arg, dir) \in Seq(Char)
      /\ cmd_cat(arg, dir) \in Seq(Char)
  BY <1>1, FixedTexts, ListingIsText, CatIsText, Zenon
<1>3. /\ <<"cd: ">> \o arg \o NoSuchFile \in Seq(Char)
      /\ dir \o NewLine \in Seq(Char) /\ arg \o NewLine \in Seq(Char)
      /\ <<"bash: ">> \o line \o <<": command not found", "\n">> \in Seq(Char)
  BY <1>1, FixedTexts, Joined
<1>4. \A report \in Reports : report \in Seq(Char)
  BY CommandsAssumption
<1> QED
  BY <1>2, <1>3, <1>4, FixedTexts DEF Printed
-----------------------------------------------------------------------------
(***************************************************************************)
(* The terminal.                                                           *)
(***************************************************************************)
ShellInv == ShellTypeOK /\ EnterRunsWhatIsShown

LEMMA ShellInitSound == Init => ShellInv
<1> SUFFICES ASSUME Init PROVE ShellInv
  OBVIOUS
<1>1. terminal_buffer = <<>> /\ kbd_buffer = <<>> /\ current_directory \in Known
  BY DEF Init, Known
<1>2. echoed \in BOOLEAN /\ ~echoed
  BY DEF Init
<1>3. Len(terminal_buffer) <= MaxText /\ Len(kbd_buffer) <= MaxLine
  BY <1>1, ShellAssumption
<1> QED
  BY <1>1, <1>2, <1>3 DEF ShellInv, ShellTypeOK, EnterRunsWhatIsShown

LEMMA TypeKeySound ==
    ASSUME ShellInv, NEW c \in Keys, TypeKey(c)
    PROVE  ShellInv'
<1> DEFINE line == Prompt(current_directory) \o kbd_buffer
<1>1. /\ terminal_buffer \in Seq(Char) /\ Len(terminal_buffer) <= MaxText
      /\ kbd_buffer \in Seq(Char) /\ current_directory \in Known /\ echoed \in BOOLEAN
      /\ c \in Char /\ <<c>> \in Seq(Char)
  BY ShellAssumption DEF ShellInv, ShellTypeOK
<1>2. terminal_buffer' = Written(terminal_buffer, <<c>>)
  BY DEF TypeKey
<1>3. ShellTypeOK'
  <2>1. terminal_buffer' \in Seq(Char) /\ Len(terminal_buffer') <= MaxText
    BY <1>1, <1>2, WrittenFits
  <2>2. kbd_buffer' \in Seq(Char) /\ Len(kbd_buffer') <= MaxLine
    BY <1>1, ShellAssumption DEF TypeKey, RoomInLine
  <2> QED
    BY <1>1, <2>1, <2>2 DEF ShellTypeOK, TypeKey, RoomInText
<1>4. ASSUME echoed, Len(terminal_buffer) < MaxText, EndsWith(terminal_buffer, line)
      PROVE  EndsWith(terminal_buffer', Prompt(current_directory) \o Append(kbd_buffer, c))
  <2>1. line \in Seq(Char) /\ Prompt(current_directory) \in Seq(Char)
    BY <1>1, ShellAssumption, Joined
  <2>2. terminal_buffer' = Append(terminal_buffer, c)
    BY <1>1, <1>2, <1>4, ShellAssumption DEF Written
  <2>3. Prompt(current_directory) \o Append(kbd_buffer, c) = Append(line, c)
    BY <1>1, <2>1
  <2> HIDE DEF line
  <2>4. EndsWith(Append(terminal_buffer, c), Append(line, c))
    BY <1>1, <1>4, <2>1, EndsWithOneMore
  <2> QED
    BY <2>2, <2>3, <2>4
<1> QED
  BY <1>3, <1>4 DEF ShellInv, EnterRunsWhatIsShown, TypeKey, RoomInText

\* What is written behind a text, whole, is what the text ends with.
LEMMA PromptShown ==
    ASSUME NEW text \in Seq(Char), Len(text) <= MaxText, NEW before \in Seq(Char),
           NEW dir \in Known, Len(Written(text, before \o Prompt(dir))) < MaxText
    PROVE  EndsWith(Written(text, before \o Prompt(dir)), Prompt(dir) \o <<>>)
<1> DEFINE p == Prompt(dir)
<1>1. p \in Seq(Char) /\ before \o p \in Seq(Char)
  BY ShellAssumption, Joined
<1>2. Written(text, before \o p) = text \o (before \o p)
  BY <1>1, WrittenFits
<1>3. text \o before \in Seq(Char) /\ text \o (before \o p) = (text \o before) \o p
  BY <1>1
<1>4. p \o <<>> = p
  BY <1>1
<1> QED
  BY <1>1, <1>2, <1>3, <1>4, EndsWithLast

\* A text that ends with something has a last piece to take back.
LEMMA BackspaceSound ==
    ASSUME ShellInv, Backspace
    PROVE  ShellInv'
<1>1. /\ terminal_buffer \in Seq(Char) /\ Len(terminal_buffer) <= MaxText
      /\ kbd_buffer \in Seq(Char) /\ Len(kbd_buffer) <= MaxLine
      /\ current_directory \in Known /\ echoed \in BOOLEAN
  BY DEF ShellInv, ShellTypeOK
<1>2. ASSUME NEW s \in Seq(Char), s # <<>>
      PROVE  Front(s) \in Seq(Char) /\ Len(Front(s)) = Len(s) - 1 /\ Len(s) \in Nat
  <2> DEFINE n == Len(s) - 1
  <2>1. n \in 0..Len(s) /\ Len(s) \in Nat
    BY <1>2
  <2>2. Front(s) = SubSeq(s, 1, n)
    BY DEF Front
  <2> HIDE DEF n
  <2>3. Front(s) \in Seq(Char) /\ Len(Front(s)) = n
    BY <2>1, <2>2, FirstOnes
  <2> QED
    BY <2>1, <2>3 DEF n
<1>3. kbd_buffer # <<>> /\ kbd_buffer' = Front(kbd_buffer)
  BY DEF Backspace
<1>4. ShellTypeOK'
  <2>1. terminal_buffer' \in Seq(Char) /\ Len(terminal_buffer') <= MaxText
    BY <1>1, <1>2, ShellAssumption DEF Backspace, ShownTakenBack
  <2>2. kbd_buffer' \in Seq(Char) /\ Len(kbd_buffer') <= MaxLine
    BY <1>1, <1>2, <1>3, ShellAssumption
  <2> QED
    BY <1>1, <2>1, <2>2 DEF ShellTypeOK, Backspace
<1>5. ASSUME EndsWith(terminal_buffer, Prompt(current_directory) \o kbd_buffer)
      PROVE  EndsWith(terminal_buffer', Prompt(current_directory) \o Front(kbd_buffer))
  <2> DEFINE p == Prompt(current_directory)
  <2>1. p \in Seq(Char) /\ p \o kbd_buffer \in Seq(Char)
    BY <1>1, ShellAssumption, Joined
  <2>2. p \o kbd_buffer # <<>> /\ Len(p \o kbd_buffer) = Len(p) + Len(kbd_buffer)
    BY <1>1, <1>3, <2>1, Joined
  <2>3. EndsWith(Front(terminal_buffer), Front(p \o kbd_buffer))
    BY <1>1, <1>5, <2>1, <2>2, EndsWithOneLess
  <2>4. terminal_buffer # <<>>
    BY <1>1, <1>3, <1>5, <2>1, <2>2 DEF EndsWith
  <2>5. Front(p \o kbd_buffer) = p \o Front(kbd_buffer)
    BY <1>1, <1>3, <2>1, FrontOfJoined
  <2> QED
    BY <2>3, <2>4, <2>5 DEF Backspace, ShownTakenBack
<1> QED
  BY <1>4, <1>5 DEF ShellInv, EnterRunsWhatIsShown, Backspace

LEMMA EnterSound ==
    ASSUME ShellInv, Enter
    PROVE  ShellInv'
<1>1. /\ terminal_buffer \in Seq(Char) /\ Len(terminal_buffer) <= MaxText
      /\ kbd_buffer \in Seq(Char) /\ current_directory \in Known
  BY DEF ShellInv, ShellTypeOK
<1> DEFINE dir == Directory(kbd_buffer, current_directory)
<1>2. PICK text \in Printed(kbd_buffer, current_directory) :
         terminal_buffer' = Written(terminal_buffer, NewLine \o text \o Prompt(dir))
  BY DEF Enter
<1>3. dir \in Known /\ Prompt(dir) \in Seq(Char)
  BY <1>1, DirectoryStaysKnown, ShellAssumption
<1>4. NewLine \o text \in Seq(Char) /\ (NewLine \o text) \o Prompt(dir) \in Seq(Char)
  BY <1>1, <1>3, PrintedIsText, FixedTexts, Joined
<1>5. terminal_buffer' \in Seq(Char) /\ Len(terminal_buffer') <= MaxText
  BY <1>1, <1>2, <1>4, WrittenFits
<1>6. current_directory' = dir /\ kbd_buffer' = <<>> /\ echoed' = (Len(terminal_buffer') < MaxText)
  BY DEF Enter, LineAfterEnter
<1>7. ShellTypeOK'
  <2>1. echoed' \in BOOLEAN
    BY <1>6
  <2>2. kbd_buffer' \in Seq(Char) /\ Len(kbd_buffer') <= MaxLine
    <3>1. <<>> \in Seq(Char) /\ Len(<<>>) = 0
      OBVIOUS
    <3> QED
      BY <1>6, <3>1, ShellAssumption
  <2> QED
    BY <1>3, <1>5, <1>6, <2>1, <2>2 DEF ShellTypeOK
<1>8. Len(terminal_buffer') < MaxText => EndsWith(terminal_buffer', Prompt(dir) \o <<>>)
  BY <1>1, <1>2, <1>3, <1>4, PromptShown
<1> QED
  BY <1>6, <1>7, <1>8 DEF ShellInv, EnterRunsWhatIsShown

LEMMA OpenTerminalSound ==
    ASSUME ShellInv, open_terminal
    PROVE  ShellInv'
<1>1. /\ kbd_buffer \in Seq(Char) /\ Len(kbd_buffer) <= MaxLine /\ current_directory \in Known
  BY DEF ShellInv, ShellTypeOK
<1> DEFINE p == Prompt(current_directory)
<1>2. p \in Seq(Char) /\ <<>> \in Seq(Char) /\ Len(<<>>) <= MaxText /\ <<>> \o p = p
  BY <1>1, ShellAssumption
<1>3. terminal_buffer' = Written(<<>>, p) /\ UNCHANGED <<kbd_buffer, current_directory>>
  BY DEF open_terminal
<1>4. terminal_buffer' \in Seq(Char) /\ Len(terminal_buffer') <= MaxText
  BY <1>2, <1>3, WrittenFits
<1>5. echoed' \in BOOLEAN
  BY DEF open_terminal
<1>6. Len(Written(<<>>, <<>> \o p)) < MaxText =>
         EndsWith(Written(<<>>, <<>> \o p), p \o <<>>)
  BY <1>1, <1>2, PromptShown
<1>7. echoed' => kbd_buffer = <<>> /\ Len(terminal_buffer') < MaxText
  BY DEF open_terminal
<1>8. echoed' => EndsWith(terminal_buffer', Prompt(current_directory') \o kbd_buffer')
  BY <1>2, <1>3, <1>6, <1>7
<1> QED
  BY <1>1, <1>3, <1>4, <1>5, <1>8 DEF ShellInv, ShellTypeOK, EnterRunsWhatIsShown

LEMMA ShellNextSound == ShellInv /\ [Next]_vars => ShellInv'
<1> SUFFICES ASSUME ShellInv, [Next]_vars PROVE ShellInv'
  OBVIOUS
<1>1. CASE UNCHANGED vars
  BY <1>1 DEF vars, ShellInv, ShellTypeOK, EnterRunsWhatIsShown
<1> QED
  BY <1>1, TypeKeySound, BackspaceSound, EnterSound, OpenTerminalSound DEF Next
-----------------------------------------------------------------------------
(***************************************************************************)
(* The theorems.                                                           *)
(***************************************************************************)
\* Neither array overflows, and the shell is in a directory that it knows.
THEOREM ShellTypeCorrect == Spec => []ShellTypeOK
<1>1. ShellInv => ShellTypeOK
  BY DEF ShellInv
<1> QED
  BY <1>1, ShellInitSound, ShellNextSound, PTL DEF Spec

\* The line that Enter would run is the one behind the prompt, unless the text was
\* full or the terminal was opened over a line begun before.
THEOREM EnterRunsTheShownLine == Spec => []EnterRunsWhatIsShown
<1>1. ShellInv => EnterRunsWhatIsShown
  BY DEF ShellInv
<1> QED
  BY <1>1, ShellInitSound, ShellNextSound, PTL DEF Spec
=============================================================================
