------------------------------ MODULE History ------------------------------
(***************************************************************************)
(* The command history of the REPL (pkg/compiler/repl_luajit.go and        *)
(* repl_util.go): the commands in memory, the marker between those of      *)
(* earlier sessions and those of this one, and the file ~/.gijit.hist,     *)
(* which several sessions may have open and each may remove and write      *)
(* anew. A session can be killed at any point.                             *)
(*                                                                         *)
(* A source line is a text without structure; whether some lines are a     *)
(* complete statement is a nondeterministic choice. A file is the sequence *)
(* of its lines, all taken to be of one length. HOME is set, and lines are *)
(* read with the liner.                                                    *)
(***************************************************************************)
EXTENDS Integers, Sequences, FiniteSets, SequencesExt

CONSTANTS
    Session,    \* processes, each of which may be started again
    Text,       \* texts of source lines
    MaxStarts,  \* bound: how often a session is started
    MaxLines,   \* bound: lines in a history
    MaxPending  \* bound: lines of an incomplete statement

ASSUME SessionAssumption == IsFiniteSet(Session)
ASSUME BoundsAssumption == MaxStarts \in Nat /\ MaxLines \in Nat /\ MaxPending \in Nat

Blank == "blank"  \* a line without text
Gap == "gap"      \* bytes of a file that were never written

Piece == Text \cup {Blank, Gap}

Line == [text : Piece, by : 0 .. MaxStarts]

NoFile == 0
File == 1 .. Cardinality(Session) + 1

VARIABLES
    name,     \* the file that histFn names
    content,  \* [File -> its lines]
    starts,   \* how many sessions have been started
    pc,       \* [Session -> where it is]
    mine,     \* [Session -> which start this one is]
    history,  \* r.history, a line with the session that entered it
    start,    \* r.sessionStartAfter
    handle,   \* r.histFile: the file, O_APPEND, the offset
    raw,      \* r.cfg.RawLua
    pending,  \* r.prevSrc
    src,      \* what Read returned, for Eval
    next,     \* the next line a loop over history writes
    met       \* auxiliary: another session ran at the same time

disk == <<name, content>>
memory == <<mine, history, start, raw, pending>>
vars == <<disk, starts, pc, memory, handle, src, next, met>>

Closed == [file |-> NoFile, append |-> FALSE, at |-> 0]

Init ==
    /\ name = NoFile
    /\ content = [f \in File |-> <<>>]
    /\ starts = 0
    /\ pc = [s \in Session |-> "down"]
    /\ mine = [s \in Session |-> 0]
    /\ history = [s \in Session |-> <<>>]
    /\ start = [s \in Session |-> 0]
    /\ handle = [s \in Session |-> Closed]
    /\ raw = [s \in Session |-> FALSE]
    /\ pending = [s \in Session |-> <<>>]
    /\ src = [s \in Session |-> <<>>]
    /\ next = [s \in Session |-> 1]
    /\ met = [s \in Session |-> FALSE]
-----------------------------------------------------------------------------
(***************************************************************************)
(* The file system                                                         *)
(***************************************************************************)

\* A file that nothing refers to any more.
FreeFile == CHOOSE f \in File : f # name /\ \A s \in Session : handle[s].file # f

\* Defect: O_APPEND is missing.
OpenForAppend_AtStart(s) ==
    LET f == IF name = NoFile THEN FreeFile ELSE name
    IN  /\ name' = f
        /\ content' = IF name = NoFile THEN [content EXCEPT ![f] = <<>>] ELSE content
        /\ handle' = [handle EXCEPT ![s] = [file |-> f, append |-> FALSE, at |-> 0]]

\* os.OpenFile with O_CREATE and O_APPEND.
OpenForAppend(s) ==
    LET f == IF name = NoFile THEN FreeFile ELSE name
    IN  /\ name' = f
        /\ content' = IF name = NoFile THEN [content EXCEPT ![f] = <<>>] ELSE content
        /\ handle' = [handle EXCEPT ![s] = [file |-> f, append |-> TRUE, at |-> 0]]

\* A line written through a handle: at the end of the file or at the offset,
\* which may be inside of the file or, after another session emptied it, behind
\* its end. (A gap has no newlines: it is read with the line that follows.)
WriteLine(s, line) ==
    LET h == handle[s]
        old == content[h.file]
        gap == [i \in 1 .. h.at - Len(old) |-> [text |-> Gap, by |-> 0]]
        new == CASE h.append -> Append(old, line)
               []   ~h.append /\ h.at < Len(old) -> [old EXCEPT ![h.at + 1] = line]
               []   OTHER -> Append(old \o gap, line)
    IN  /\ content' = [content EXCEPT ![h.file] = new]
        /\ handle' = [handle EXCEPT ![s].at = @ + 1]
        /\ UNCHANGED name

\* readHistory: the pieces between newlines; the last one, after the last
\* newline, is dropped if it is blank.
ReadHistory ==
    LET splt == Append(IF name = NoFile THEN <<>> ELSE content[name],
                       [text |-> Blank, by |-> 0])
    IN  IF Last(splt).text = Blank THEN Front(splt) ELSE splt
-----------------------------------------------------------------------------
(***************************************************************************)
(* NewRepl, and the end of a session                                       *)
(***************************************************************************)

\* NewRepl reads the history, from a file that may not be there ...
Start(s) ==
    /\ pc[s] = "down"
    /\ starts < MaxStarts
    /\ starts' = starts + 1
    /\ mine' = [mine EXCEPT ![s] = starts + 1]
    /\ history' = [history EXCEPT ![s] = ReadHistory]
    /\ start' = [start EXCEPT ![s] = Len(ReadHistory)]
    /\ \E b \in BOOLEAN : raw' = [raw EXCEPT ![s] = b]
    /\ pc' = [pc EXCEPT ![s] = "open"]
    /\ met' = [r \in Session |->
                 IF r = s THEN \E q \in Session \ {s} : pc[q] # "down"
                 ELSE met[r] \/ pc[r] # "down"]
    /\ UNCHANGED <<disk, handle, pending, src, next>>

\* ... and opens the file for new history.
Open(s) ==
    /\ pc[s] = "open"
    /\ OpenForAppend(s)
    /\ pc' = [pc EXCEPT ![s] = "read"]
    /\ UNCHANGED <<starts, memory, src, next, met>>

\* The user leaves, or the process is killed between two system calls.
Stop(s) ==
    /\ pc[s] # "down"
    /\ pc' = [pc EXCEPT ![s] = "down"]
    /\ mine' = [mine EXCEPT ![s] = 0]
    /\ history' = [history EXCEPT ![s] = <<>>]
    /\ start' = [start EXCEPT ![s] = 0]
    /\ handle' = [handle EXCEPT ![s] = Closed]
    /\ raw' = [raw EXCEPT ![s] = FALSE]
    /\ pending' = [pending EXCEPT ![s] = <<>>]
    /\ src' = [src EXCEPT ![s] = <<>>]
    /\ next' = [next EXCEPT ![s] = 1]
    /\ met' = [met EXCEPT ![s] = FALSE]
    /\ UNCHANGED <<disk, starts>>
-----------------------------------------------------------------------------
(***************************************************************************)
(* Read                                                                    *)
(***************************************************************************)

\* Read returns the lines to evaluate; a command that is done returns "".
Return(s, lines) ==
    /\ src' = [src EXCEPT ![s] = lines]
    /\ pc' = [pc EXCEPT ![s] = "eval"]

\* A source line.
TypeLine(s) ==
    /\ pc[s] = "read"
    /\ \E t \in Text : Return(s, <<t>>)
    /\ UNCHANGED <<disk, starts, memory, handle, next, met>>

\* :source of a file of one line; a newline is added to what the file has.
SourceFile(s) ==
    /\ pc[s] = "read"
    /\ \E t \in Text : Return(s, <<t, Blank, Blank>>)
    /\ UNCHANGED <<disk, starts, memory, handle, next, met>>

\* A command that does not touch the history, or a request for a range that is
\* none; and :g, which ends the raw mode.
Command(s) ==
    /\ pc[s] = "read"
    /\ Return(s, <<Blank>>)
    /\ raw' \in {raw, [raw EXCEPT ![s] = FALSE]}
    /\ UNCHANGED <<disk, starts, mine, history, start, pending, handle, next, met>>

\* :r reads on.
RawMode(s) ==
    /\ pc[s] = "read"
    /\ raw' = [raw EXCEPT ![s] = TRUE]
    /\ UNCHANGED <<disk, starts, pc, mine, history, start, pending, handle, src, next, met>>

\* The texts of lines m to n of the history.
Texts(s, m, n) == [i \in 1 .. n - m + 1 |-> history[s][m + i - 1].text]

\* :n and :m-n. The lines of a range are joined, with a newline after the last.
Replay(s) ==
    /\ pc[s] = "read"
    /\ \E m, n \in 1 .. Len(history[s]) :
          \/ m = n /\ Return(s, Texts(s, m, m))
          \/ m <= n /\ Return(s, Append(Texts(s, m, n), Blank))
    /\ UNCHANGED <<disk, starts, memory, handle, next, met>>

\* Defect: the line after the marker counts as before it.
MarkerAfter_OffByOne(marker, beg, end) ==
    IF end <= marker THEN marker - (end - beg + 1)
    ELSE IF beg < marker THEN beg
    ELSE marker

\* Defect: a removal across the marker leaves it where it is.
MarkerAfter_NotAcross(marker, beg, end) ==
    IF end < marker THEN marker - (end - beg + 1) ELSE marker

\* The marker after the lines beg to end, counted from 0, were removed.
MarkerAfter(marker, beg, end) ==
    IF end < marker THEN marker - (end - beg + 1)
    ELSE IF beg < marker THEN beg
    ELSE marker

\* :rm m-n. removeCommands takes the lines out, closes and removes the file ...
RemoveLines(s) ==
    /\ pc[s] = "read"
    /\ \E m, n \in 1 .. Len(history[s]) :
          /\ m <= n
          /\ history' = [history EXCEPT ![s] = SubSeq(@, 1, m - 1) \o SubSeq(@, n + 1, Len(@))]
          /\ start' = [start EXCEPT ![s] = MarkerAfter(@, m - 1, n - 1)]
    /\ name' = NoFile
    /\ handle' = [handle EXCEPT ![s] = Closed]
    /\ pc' = [pc EXCEPT ![s] = "create"]
    /\ UNCHANGED <<content, starts, mine, raw, pending, src, next, met>>

\* ... creates it again ...
Create(s) ==
    /\ pc[s] = "create"
    /\ OpenForAppend(s)
    /\ pc' = [pc EXCEPT ![s] = "rewrite"]
    /\ UNCHANGED <<starts, memory, src, next, met>>

\* ... and writes what is left to it, line by line.
Rewrite(s) ==
    /\ pc[s] = "rewrite"
    /\ IF next[s] <= Len(history[s])
       THEN /\ WriteLine(s, history[s][next[s]])
            /\ next' = [next EXCEPT ![s] = @ + 1]
            /\ UNCHANGED <<pc, src>>
       ELSE /\ Return(s, <<Blank>>)
            /\ next' = [next EXCEPT ![s] = 1]
            /\ UNCHANGED <<disk, handle>>
    /\ UNCHANGED <<starts, memory, met>>

\* :clear empties the file, too, and goes on with a handle that does not append.
Clear(s) ==
    /\ pc[s] = "read"
    /\ history' = [history EXCEPT ![s] = <<>>]
    /\ start' = [start EXCEPT ![s] = 0]
    /\ LET f == IF name = NoFile THEN FreeFile ELSE name
       IN  /\ name' = f
           /\ content' = [content EXCEPT ![f] = <<>>]
           /\ handle' = [handle EXCEPT ![s] = [file |-> f, append |-> FALSE, at |-> 0]]
    /\ Return(s, <<Blank>>)
    /\ UNCHANGED <<starts, mine, raw, pending, next, met>>
-----------------------------------------------------------------------------
(***************************************************************************)
(* Eval                                                                    *)
(***************************************************************************)

\* What is evaluated: in Go mode with the lines of an incomplete statement.
Input(s) == IF raw[s] THEN src[s] ELSE pending[s] \o src[s]

IsBlank(lines) == \A i \in DOMAIN lines : lines[i] = Blank

\* Go source that needs another line.
Incomplete(s) ==
    /\ pc[s] = "eval"
    /\ ~raw[s]
    /\ ~IsBlank(Input(s))
    /\ Len(Input(s)) <= MaxPending
    /\ pending' = [pending EXCEPT ![s] = Input(s)]
    /\ src' = [src EXCEPT ![s] = <<>>]
    /\ pc' = [pc EXCEPT ![s] = "read"]
    /\ UNCHANGED <<disk, starts, mine, history, start, raw, handle, next, met>>

\* Go source that is empty, or that the compiler refuses.
Refuse(s) ==
    /\ pc[s] = "eval"
    /\ ~raw[s]
    /\ pending' = [pending EXCEPT ![s] = <<>>]
    /\ src' = [src EXCEPT ![s] = <<>>]
    /\ pc' = [pc EXCEPT ![s] = "read"]
    /\ UNCHANGED <<disk, starts, mine, history, start, raw, handle, next, met>>

\* The lines that are added to the history: without a blank one at the end.
Added(lines) ==
    IF Len(lines) > 1 /\ Last(lines) = Blank THEN Front(lines) ELSE lines

\* Go source that was translated, or whatever is read in raw mode.
Accept(s) ==
    /\ pc[s] = "eval"
    /\ raw[s] \/ ~IsBlank(Input(s))
    /\ LET lines == Added(Input(s))
       IN  /\ Len(history[s]) + Len(lines) <= MaxLines
           /\ history' = [history EXCEPT ![s] =
                            @ \o [i \in DOMAIN lines |-> [text |-> lines[i], by |-> mine[s]]]]
    /\ pending' = IF raw[s] THEN pending ELSE [pending EXCEPT ![s] = <<>>]
    /\ next' = [next EXCEPT ![s] = Len(history[s]) + 1]
    /\ src' = [src EXCEPT ![s] = <<>>]
    /\ pc' = [pc EXCEPT ![s] = "write"]
    /\ UNCHANGED <<disk, starts, mine, start, raw, handle, met>>

\* The new lines go to the file; then the code runs.
Write(s) ==
    /\ pc[s] = "write"
    /\ IF next[s] <= Len(history[s])
       THEN /\ WriteLine(s, history[s][next[s]])
            /\ next' = [next EXCEPT ![s] = @ + 1]
            /\ UNCHANGED pc
       ELSE /\ pc' = [pc EXCEPT ![s] = "read"]
            /\ next' = [next EXCEPT ![s] = 1]
            /\ UNCHANGED <<disk, handle>>
    /\ UNCHANGED <<starts, memory, src, met>>

Next ==
    \E s \in Session :
        \/ Start(s) \/ Open(s) \/ Stop(s)
        \/ TypeLine(s) \/ SourceFile(s) \/ Command(s) \/ RawMode(s) \/ Replay(s) \/ Clear(s)
        \/ RemoveLines(s) \/ Create(s) \/ Rewrite(s)
        \/ Incomplete(s) \/ Refuse(s) \/ Accept(s) \/ Write(s)

Spec == Init /\ [][Next]_vars
-----------------------------------------------------------------------------
\* The shape of the state: the marker, and the loops that write, stay within
\* the history, and whoever reads, evaluates or writes has a file open.
TypeOK ==
    /\ name \in File \cup {NoFile}
    /\ content \in [File -> Seq(Line)]
    /\ starts \in 0 .. MaxStarts
    /\ pc \in [Session -> {"down", "open", "read", "create", "rewrite", "eval", "write"}]
    /\ mine \in [Session -> 0 .. starts]
    /\ history \in [Session -> Seq(Line)]
    /\ handle \in [Session -> [file : File \cup {NoFile}, append : BOOLEAN, at : Nat]]
    /\ raw \in [Session -> BOOLEAN] /\ met \in [Session -> BOOLEAN]
    /\ pending \in [Session -> Seq(Piece)] /\ src \in [Session -> Seq(Piece)]
    /\ start \in [Session -> Nat] /\ next \in [Session -> Nat]
    /\ \A s \in Session :
          /\ start[s] <= Len(history[s])
          /\ next[s] \in 1 .. Len(history[s]) + 1
          /\ pc[s] \in {"read", "rewrite", "eval", "write"} => handle[s].file # NoFile

\* The marker separates the lines of earlier sessions from those of this one,
\* after any removals before, behind and across it (repl_luajit.go:264-271).
MarkerSeparates ==
    \A s \in Session : \A i \in DOMAIN history[s] :
        i > start[s] <=> history[s][i].by = mine[s]

\* Of a session that was alone: at the prompt the file has just its history; at
\* any other time a part from the beginning of it, so that killing the process
\* never brings back what was removed. ("Line history is stored in
\* $HOME/.gijit.hist, and is preserved across gi restarts", README.md:807.)
FileIsHistory ==
    \A s \in Session : ~met[s] /\ pc[s] # "down" =>
        /\ pc[s] \in {"open", "read", "eval"} => ReadHistory = history[s]
        /\ IsPrefix(ReadHistory, history[s])
=============================================================================
