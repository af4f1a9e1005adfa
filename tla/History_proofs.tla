--------------------------- MODULE History_proofs ---------------------------
(***************************************************************************)
(* The history of the REPL, for any number of sessions, starts, texts and  *)
(* lines: the marker separates old lines from new ones, whatever other     *)
(* sessions do to the file; and a session that was alone has its history   *)
(* in the file, or a beginning of it while it writes.                      *)
(***************************************************************************)
EXTENDS History, SequenceTheorems, FiniteSetTheorems, TLAPS

Place == {"down", "open", "read", "create", "rewrite", "eval", "write"}
Handle == [file : File \cup {NoFile}, append : BOOLEAN, at : Nat]

\* No line is of a session that was not started yet.
Dated(lines) == \A i \in 1 .. Len(lines) : lines[i].by <= starts

AllDated ==
    /\ \A f \in File : Dated(content[f])
    /\ \A s \in Session : Dated(history[s])

\* A loop over the history begins with its first line.
FromFirst == \A s \in Session : pc[s] \notin {"rewrite", "write"} => next[s] = 1

\* What is in the file that histFn names.
FileLines == IF name = NoFile THEN <<>> ELSE content[name]

\* A session that is and was alone, and its file, at every place of its loop.
InFile(s) ==
    /\ \A q \in Session \ {s} : pc[q] = "down"
    /\ pc[s] \in {"open", "read", "eval"} => FileLines = history[s]
    /\ pc[s] \in {"read", "eval", "rewrite", "write"} =>
          /\ handle[s].file = name
          /\ handle[s].append \/ handle[s].at = Len(content[name])
    /\ pc[s] = "create" => name = NoFile
    /\ pc[s] \in {"rewrite", "write"} =>
          content[name] = SubSeq(history[s], 1, next[s] - 1)

AllInFile == \A s \in Session : ~met[s] /\ pc[s] # "down" => InFile(s)

\* The inductive invariant.
Inv == TypeOK /\ MarkerSeparates /\ AllDated /\ FromFirst /\ AllInFile
-----------------------------------------------------------------------------
LEMMA BlankLine == [text |-> Blank, by |-> 0] \in Line
BY BoundsAssumption DEF Line, Piece

\* The session that entered a line is a number.
LEMMA LineBy ==
    ASSUME NEW lines \in Seq(Line), NEW i \in 1 .. Len(lines)
    PROVE  lines[i].by \in Nat
<1>1. lines[i] \in Line
  BY ElementOfSeq
<1> QED BY <1>1, BoundsAssumption DEF Line

\* No line of a sequence is of a session that was not started yet, and so
\* after another sequence or a line that is not, either, was added.
LEMMA AppendDated ==
    ASSUME NEW lines \in Seq(Line), Dated(lines), NEW e \in Line, e.by <= starts
    PROVE  Append(lines, e) \in Seq(Line) /\ Dated(Append(lines, e))
<1> DEFINE t == Append(lines, e)
<1>1. /\ t \in Seq(Line) /\ Len(t) = Len(lines) + 1 /\ Len(lines) \in Nat
      /\ \A i \in 1 .. Len(lines) : t[i] = lines[i]
      /\ t[Len(lines) + 1] = e
  BY AppendProperties, LenProperties
<1> HIDE DEF t
<1>2. Dated(t)
  BY <1>1 DEF Dated
<1> QED BY <1>1, <1>2 DEF t

LEMMA ConcatDated ==
    ASSUME NEW lines \in Seq(Line), Dated(lines), NEW more \in Seq(Line), Dated(more)
    PROVE  lines \o more \in Seq(Line) /\ Dated(lines \o more)
<1> DEFINE t == lines \o more
<1>1. /\ t \in Seq(Line) /\ Len(t) = Len(lines) + Len(more)
      /\ Len(lines) \in Nat /\ Len(more) \in Nat
      /\ \A i \in 1 .. Len(lines) + Len(more) :
            t[i] = IF i <= Len(lines) THEN lines[i] ELSE more[i - Len(lines)]
  BY ConcatProperties, LenProperties
<1> HIDE DEF t
<1>2. Dated(t)
  BY <1>1 DEF Dated
<1> QED BY <1>1, <1>2 DEF t

LEMMA ConcatFacts ==
    ASSUME NEW a \in Seq(Line), NEW b \in Seq(Line)
    PROVE  /\ a \o b \in Seq(Line)
           /\ Len(a) \in Nat /\ Len(b) \in Nat
           /\ Len(a \o b) = Len(a) + Len(b)
           /\ DOMAIN (a \o b) = 1 .. Len(a) + Len(b)
           /\ \A i \in 1 .. Len(a) : (a \o b)[i] = a[i]
           /\ \A i \in 1 .. Len(a) + Len(b) :
                 i > Len(a) => /\ i - Len(a) \in 1 .. Len(b)
                               /\ (a \o b)[i] = b[i - Len(a)]
<1> DEFINE t == a \o b
<1>1. /\ t \in Seq(Line) /\ Len(t) = Len(a) + Len(b)
      /\ Len(a) \in Nat /\ Len(b) \in Nat
      /\ \A i \in 1 .. Len(a) + Len(b) :
            t[i] = IF i <= Len(a) THEN a[i] ELSE b[i - Len(a)]
  BY ConcatProperties, LenProperties
<1> HIDE DEF t
<1>2. DOMAIN t = 1 .. Len(a) + Len(b)
  BY <1>1, LenProperties
<1> QED BY <1>1, <1>2 DEF t

LEMMA NoFileIsNone == NoFile \notin File
BY DEF NoFile, File

\* Reading the file gives its lines: what follows the last newline is blank.
LEMMA ReadsFile ==
    ASSUME TypeOK
    PROVE  ReadHistory = FileLines /\ FileLines \in Seq(Line)
<1> DEFINE e == [text |-> Blank, by |-> 0]
<1>1. FileLines \in Seq(Line)
  BY EmptySeq DEF TypeOK, FileLines
<1>2. e \in Line /\ e.text = Blank
  BY BlankLine
<1> HIDE DEF e
<1>3. Last(Append(FileLines, e)) = e
  BY <1>1, <1>2, AppendProperties DEF Last
<1>4. Front(Append(FileLines, e)) = FileLines
  <2> DEFINE t == Append(FileLines, e)
  <2>1. /\ t \in Seq(Line) /\ Len(t) = Len(FileLines) + 1
        /\ \A i \in 1 .. Len(FileLines) : t[i] = FileLines[i]
        /\ Len(FileLines) \in Nat
    BY <1>1, <1>2, AppendProperties, LenProperties
  <2> HIDE DEF t
  <2>2. \A i \in 1 .. Len(t) - 1 : t[i] \in Line
    BY <2>1, ElementOfSeq
  <2>3. /\ Front(t) \in Seq(Line)
        /\ Len(Front(t)) = Len(FileLines)
        /\ \A i \in 1 .. Len(FileLines) : Front(t)[i] = FileLines[i]
    BY <2>1, <2>2, SubSeqProperties DEF Front
  <2> QED BY <1>1, <2>3, SeqEqual DEF t
<1>5. ReadHistory = IF Last(Append(FileLines, e)).text = Blank
                    THEN Front(Append(FileLines, e)) ELSE Append(FileLines, e)
  BY DEF ReadHistory, FileLines, e
<1> QED BY <1>1, <1>2, <1>3, <1>4, <1>5

\* There is a file that nothing refers to: one more than there are sessions.
LEMMA FreeFileExists ==
    ASSUME TypeOK, name = NoFile
    PROVE  FreeFile \in File
<1>1. Cardinality(Session) \in Nat
  BY SessionAssumption, FS_CardinalityType
<1>2. IsFiniteSet(File) /\ Cardinality(File) = Cardinality(Session) + 1
  BY <1>1, FS_Interval DEF File
<1>3. \E f \in File : f # name /\ \A s \in Session : handle[s].file # f
  <2> SUFFICES ASSUME \A f \in File : \E s \in Session : handle[s].file = f
               PROVE  FALSE
    BY NoFileIsNone
  <2> DEFINE w == [f \in File |-> CHOOSE s \in Session : handle[s].file = f]
  <2>1. w \in [File -> Session] /\ \A f \in File : handle[w[f]].file = f
    OBVIOUS
  <2> HIDE DEF w
  <2>2. \E x, y \in File : x # y /\ w[x] = w[y]
    BY <1>1, <1>2, <2>1, SessionAssumption, FS_PigeonHole
  <2> QED BY <2>1, <2>2
<1> QED BY <1>3 DEF FreeFile
-----------------------------------------------------------------------------
LEMMA InitInv == Init => Inv
<1> SUFFICES ASSUME Init
             PROVE  Inv
  OBVIOUS
<1> USE EmptySeq, BoundsAssumption DEF Init
<1>1. TypeOK
  BY DEF TypeOK, Closed
<1>2. MarkerSeparates
  BY DEF MarkerSeparates
<1>3. AllDated /\ FromFirst /\ AllInFile
  BY DEF AllDated, Dated, FromFirst, AllInFile
<1> QED BY <1>1, <1>2, <1>3 DEF Inv

\* Reading, and evaluating without a change of the history.
LEMMA ReadingInv ==
    ASSUME Inv, NEW s \in Session, pc[s] \in {"read", "eval"},
           NEW p \in {"read", "eval"}, pc' = [pc EXCEPT ![s] = p],
           src' \in [Session -> Seq(Piece)], pending' \in [Session -> Seq(Piece)],
           raw' \in [Session -> BOOLEAN],
           UNCHANGED <<name, content, starts, mine, history, start, handle, next, met>>
    PROVE  Inv'
<1>1. TypeOK'
  BY DEF Inv, TypeOK
<1>2. MarkerSeparates'
  BY DEF Inv, MarkerSeparates
<1>3. AllDated' /\ FromFirst'
  BY DEF Inv, TypeOK, AllDated, Dated, FromFirst
<1>4. AllInFile'
  BY DEF Inv, TypeOK, AllInFile, InFile, FileLines
<1> QED BY <1>1, <1>2, <1>3, <1>4 DEF Inv

\* A session starts: all lines of the file are older than it.
LEMMA StartInv ==
    ASSUME Inv, NEW s \in Session, Start(s)
    PROVE  Inv'
<1> DEFINE lines == FileLines
<1>1. lines \in Seq(Line) /\ Len(lines) \in Nat
  BY ReadsFile, LenProperties DEF Inv
<1>2. Dated(lines)
  BY EmptySeq DEF Inv, TypeOK, AllDated, Dated, FileLines
<1>3. /\ pc[s] = "down" /\ starts < MaxStarts
      /\ starts' = starts + 1
      /\ mine' = [mine EXCEPT ![s] = starts + 1]
      /\ history' = [history EXCEPT ![s] = lines]
      /\ start' = [start EXCEPT ![s] = Len(lines)]
      /\ raw' \in [Session -> BOOLEAN]
      /\ pc' = [pc EXCEPT ![s] = "open"]
      /\ UNCHANGED <<name, content, handle, pending, src, next>>
  BY ReadsFile DEF Start, Inv, TypeOK, disk
<1>4. met' = [r \in Session |->
                IF r = s THEN \E q \in Session \ {s} : pc[q] # "down"
                ELSE met[r] \/ pc[r] # "down"]
  BY DEF Start
<1>5. next[s] = 1
  BY <1>3 DEF Inv, FromFirst
<1> HIDE DEF lines
<1>6. TypeOK'
  <2>1. /\ starts' \in 0 .. MaxStarts
        /\ mine' \in [Session -> 0 .. starts']
    BY <1>3, BoundsAssumption DEF Inv, TypeOK
  <2>2. /\ history' \in [Session -> Seq(Line)]
        /\ start' \in [Session -> Nat]
        /\ met' \in [Session -> BOOLEAN]
    BY <1>1, <1>3, <1>4 DEF Inv, TypeOK
  <2>3. ASSUME NEW r \in Session
        PROVE  /\ start'[r] <= Len(history'[r])
               /\ next'[r] \in 1 .. Len(history'[r]) + 1
               /\ pc'[r] \in {"read", "rewrite", "eval", "write"} => handle'[r].file # NoFile
    <3>1. CASE r = s
      BY <1>1, <1>3, <1>5, <3>1 DEF Inv, TypeOK
    <3>2. CASE r # s
      BY <1>3, <3>2 DEF Inv, TypeOK
    <3> QED BY <3>1, <3>2
  <2> QED BY <1>3, <2>1, <2>2, <2>3 DEF Inv, TypeOK
<1>7. MarkerSeparates'
  <2> SUFFICES ASSUME NEW r \in Session, NEW i \in DOMAIN history'[r]
               PROVE  i > start'[r] <=> history'[r][i].by = mine'[r]
    BY DEF MarkerSeparates
  <2>1. CASE r = s
    <3>0. history'[r] = lines /\ DOMAIN lines = 1 .. Len(lines)
      BY <1>1, <1>3, <2>1, LenProperties DEF Inv, TypeOK
    <3>1. i \in 1 .. Len(lines) /\ lines[i].by <= starts
      BY <1>2, <3>0 DEF Dated
    <3>2. lines[i].by \in Nat /\ starts \in Nat
      BY <1>1, <3>1, LineBy, BoundsAssumption DEF Inv, TypeOK
    <3> QED BY <1>1, <1>3, <2>1, <3>1, <3>2 DEF Inv, TypeOK
  <2>2. CASE r # s
    BY <1>3, <2>2 DEF Inv, TypeOK, MarkerSeparates
  <2> QED BY <2>1, <2>2
<1>8. AllDated'
  <2>1. \A x \in Nat : x <= starts => x <= starts'
    BY <1>3, BoundsAssumption DEF Inv, TypeOK
  <2>2. ASSUME NEW t \in Seq(Line), Dated(t)
        PROVE  \A i \in 1 .. Len(t) : t[i].by <= starts'
    <3>1. \A i \in 1 .. Len(t) : t[i].by \in Nat
      BY LineBy
    <3> QED BY <2>1, <2>2, <3>1 DEF Dated
  <2> QED BY <1>1, <1>2, <1>3, <2>2 DEF Inv, TypeOK, AllDated, Dated
<1>9. FromFirst'
  BY <1>3, <1>5 DEF Inv, TypeOK, FromFirst
<1>10. AllInFile'
  <2> SUFFICES ASSUME NEW r \in Session, ~met'[r], pc'[r] # "down"
               PROVE  InFile(r)'
    BY DEF AllInFile
  <2>1. r = s
    BY <1>3, <1>4 DEF Inv, TypeOK
  <2>2. \A q \in Session \ {s} : pc[q] = "down" /\ pc'[q] = "down"
    BY <1>3, <1>4, <2>1 DEF Inv, TypeOK
  <2>3. FileLines' = lines /\ history'[s] = lines /\ pc'[s] = "open"
    BY <1>3 DEF Inv, TypeOK, FileLines, lines
  <2> QED BY <2>1, <2>2, <2>3 DEF InFile
<1> QED BY <1>6, <1>7, <1>8, <1>9, <1>10 DEF Inv

\* Sessions end, also by being killed.
LEMMA StopInv ==
    ASSUME Inv, NEW s \in Session, Stop(s)
    PROVE  Inv'
<1> USE EmptySeq DEF Stop, disk
<1>1. TypeOK'
  BY DEF Inv, TypeOK, Closed
<1>2. MarkerSeparates'
  BY DEF Inv, TypeOK, MarkerSeparates
<1>3. AllDated' /\ FromFirst'
  <2>1. \A r \in Session : Len(history'[r]) = 0 \/ history'[r] = history[r]
    BY DEF Inv, TypeOK
  <2>2. FromFirst'
    BY DEF Inv, TypeOK, FromFirst
  <2> QED BY <2>1, <2>2 DEF Inv, AllDated, Dated
<1>4. AllInFile'
  <2> SUFFICES ASSUME NEW r \in Session, ~met'[r], pc'[r] # "down"
               PROVE  FALSE
    BY DEF AllInFile
  <2>1. r # s /\ ~met[r] /\ pc[r] # "down" /\ pc[s] # "down"
    BY DEF Inv, TypeOK
  <2> QED BY <2>1 DEF Inv, AllInFile, InFile
<1> QED BY <1>1, <1>2, <1>3, <1>4 DEF Inv
-----------------------------------------------------------------------------
\* Opening the file leaves its lines as they are, or creates it empty.
LEMMA OpenFacts ==
    ASSUME Inv, NEW s \in Session, OpenForAppend(s), UNCHANGED starts
    PROVE  /\ name' \in File
           /\ content' \in [File -> Seq(Line)]
           /\ \A f \in File : Dated(content[f])'
           /\ content'[name'] = FileLines
           /\ handle' \in [Session -> Handle]
           /\ handle' = [handle EXCEPT ![s] = [file |-> name', append |-> TRUE, at |-> 0]]
<1> USE DEF Inv, TypeOK
<1>1. /\ name' = IF name = NoFile THEN FreeFile ELSE name
      /\ content' = IF name = NoFile THEN [content EXCEPT ![name'] = <<>>] ELSE content
      /\ handle' = [handle EXCEPT ![s] = [file |-> name', append |-> TRUE, at |-> 0]]
  BY DEF OpenForAppend
<1>2. name' \in File
  BY <1>1, FreeFileExists
<1>3. content' \in [File -> Seq(Line)] /\ content'[name'] = FileLines
  BY <1>1, <1>2, EmptySeq DEF FileLines
<1>4. \A f \in File : Dated(content[f])'
  <2>1. \A f \in File : Len(content'[f]) = 0 \/ content'[f] = content[f]
    BY <1>1, <1>2, EmptySeq
  <2> QED BY <2>1 DEF AllDated, Dated
<1>5. handle' \in [Session -> Handle]
  BY <1>1, <1>2 DEF Handle
<1> QED BY <1>1, <1>2, <1>3, <1>4, <1>5

\* A session opens the file, at its start or after :rm.
LEMMA OpenInv ==
    ASSUME Inv, NEW s \in Session, Open(s) \/ Create(s)
    PROVE  Inv'
<1> DEFINE p == IF pc[s] = "open" THEN "read" ELSE "rewrite"
<1>1. /\ pc[s] \in {"open", "create"}
      /\ pc' = [pc EXCEPT ![s] = p]
      /\ OpenForAppend(s)
      /\ UNCHANGED <<starts, mine, history, start, raw, pending, src, next, met>>
  BY DEF Open, Create, memory
<1>2. /\ name' \in File
      /\ content' \in [File -> Seq(Line)]
      /\ \A f \in File : Dated(content[f])'
      /\ content'[name'] = FileLines
      /\ handle' \in [Session -> Handle]
      /\ handle' = [handle EXCEPT ![s] = [file |-> name', append |-> TRUE, at |-> 0]]
  BY <1>1, OpenFacts
<1>3. TypeOK'
  <2>1. \A q \in Session \ {s} : handle'[q] = handle[q] /\ pc'[q] = pc[q]
    BY <1>1, <1>2 DEF Inv, TypeOK
  <2>2. handle'[s].file # NoFile
    BY <1>2, NoFileIsNone DEF Inv, TypeOK
  <2> QED BY <1>1, <1>2, <2>1, <2>2 DEF Inv, TypeOK, Handle
<1>4. MarkerSeparates'
  BY <1>1 DEF Inv, MarkerSeparates
<1>5. AllDated' /\ FromFirst'
  BY <1>1, <1>2 DEF Inv, TypeOK, AllDated, Dated, FromFirst
<1>6. AllInFile'
  <2> SUFFICES ASSUME NEW r \in Session, ~met'[r], pc'[r] # "down"
               PROVE  InFile(r)'
    BY DEF AllInFile
  <2>1. ~met[r] /\ pc[r] # "down" /\ InFile(r)
    BY <1>1 DEF Inv, TypeOK, AllInFile
  <2>2. r = s
    BY <1>1, <2>1 DEF InFile
  <2>3. \A q \in Session \ {s} : pc'[q] = "down"
    BY <1>1, <2>1, <2>2 DEF Inv, TypeOK, InFile
  <2>4. name' # NoFile /\ FileLines' = FileLines
    BY <1>2, NoFileIsNone DEF FileLines
  <2>5. handle'[s].file = name' /\ handle'[s].append
    BY <1>2 DEF Inv, TypeOK
  <2>6. CASE pc[s] = "open"
    BY <1>1, <2>1, <2>2, <2>3, <2>4, <2>5, <2>6 DEF Inv, TypeOK, InFile
  <2>7. CASE pc[s] = "create"
    <3>1. FileLines = <<>> /\ next[s] = 1
      BY <2>1, <2>2, <2>7 DEF InFile, FileLines, Inv, FromFirst
    <3>2. SubSeq(history[s], 1, next[s] - 1) = <<>>
      BY <3>1, SubSeqEmpty
    <3> QED BY <1>1, <1>2, <2>2, <2>3, <2>5, <2>7, <3>1, <3>2 DEF Inv, TypeOK, InFile
  <2> QED BY <1>1, <2>6, <2>7
<1> QED BY <1>3, <1>4, <1>5, <1>6 DEF Inv

\* A line is written at one place of the file; at its end, unless another
\* session has changed the file.
LEMMA WriteFacts ==
    ASSUME Inv, NEW s \in Session, handle[s].file \in File,
           NEW line \in Line, line.by <= starts, WriteLine(s, line), UNCHANGED starts
    PROVE  /\ content' \in [File -> Seq(Line)]
           /\ \A f \in File : Dated(content[f])'
           /\ handle' \in [Session -> Handle]
           /\ \A q \in Session \ {s} : handle'[q] = handle[q]
           /\ handle'[s].file = handle[s].file
           /\ handle'[s].append = handle[s].append
           /\ handle'[s].at = handle[s].at + 1
           /\ handle[s].append \/ handle[s].at = Len(content[handle[s].file]) =>
                content'[handle[s].file] = Append(content[handle[s].file], line)
           /\ UNCHANGED name
<1> DEFINE h == handle[s]
           old == content[h.file]
           gap == [i \in 1 .. h.at - Len(old) |-> [text |-> Gap, by |-> 0]]
           new == CASE h.append -> Append(old, line)
                  []   ~h.append /\ h.at < Len(old) -> [old EXCEPT ![h.at + 1] = line]
                  []   OTHER -> Append(old \o gap, line)
           Good == /\ new \in Seq(Line) /\ Dated(new)
                   /\ h.append \/ h.at = Len(old) => new = Append(old, line)
<1>1. /\ content' = [content EXCEPT ![h.file] = new]
      /\ handle' = [handle EXCEPT ![s].at = @ + 1]
      /\ UNCHANGED name
  BY DEF WriteLine
<1>2. /\ h \in Handle /\ h.file \in File /\ h.at \in Nat /\ h.append \in BOOLEAN
      /\ old \in Seq(Line) /\ Len(old) \in Nat
  BY LenProperties DEF Inv, TypeOK, Handle
<1>3. /\ handle' \in [Session -> Handle]
      /\ \A q \in Session \ {s} : handle'[q] = handle[q]
      /\ handle'[s].file = h.file /\ handle'[s].append = h.append
      /\ handle'[s].at = h.at + 1
  <2>1. handle \in [Session -> Handle]
    BY DEF Inv, TypeOK, Handle
  <2> QED BY <1>1, <1>2, <2>1 DEF Handle
<1>4. Dated(old)
  BY <1>2 DEF Inv, AllDated
<1>5. ASSUME h.append
      PROVE  Good
  <2>1. new = Append(old, line)
    BY <1>5
  <2> HIDE DEF new, old
  <2>2. new \in Seq(Line) /\ Dated(new)
    BY <1>2, <1>4, <2>1, AppendDated
  <2> QED BY <1>2, <1>5, <2>1, <2>2
<1>6. ASSUME ~h.append /\ h.at < Len(old)
      PROVE  Good
  <2>1. new = [old EXCEPT ![h.at + 1] = line]
    BY <1>6
  <2>2. h.at + 1 \in 1 .. Len(old)
    BY <1>2, <1>6
  <2> DEFINE k == h.at + 1
  <2>3. new = [old EXCEPT ![k] = line] /\ k \in 1 .. Len(old)
    BY <2>1, <2>2
  <2> HIDE DEF new, old, k
  <2>4. /\ new \in Seq(Line) /\ Len(new) = Len(old)
        /\ \A j \in 1 .. Len(old) : new[j] = IF j = k THEN line ELSE old[j]
    BY <1>2, <2>3, ExceptSeq
  <2>5. Dated(new)
    BY <1>4, <2>4 DEF Dated
  <2> QED BY <1>2, <1>6, <2>4, <2>5
<1>7. ASSUME ~h.append /\ ~(h.at < Len(old))
      PROVE  Good
  <2>1. new = Append(old \o gap, line)
    BY <1>7
  <2> DEFINE n == h.at - Len(old)
             g == [text |-> Gap, by |-> 0]
  <2>2. n \in Nat /\ g \in Line /\ g.by = 0
    BY <1>2, <1>7, BoundsAssumption DEF Line, Piece
  <2>3. gap = [i \in 1 .. n |-> g]
    OBVIOUS
  <2> HIDE DEF n, g
  <2>4. gap \in [1 .. n -> Line]
    BY <2>2, <2>3
  <2>5. gap \in Seq(Line) /\ Len(gap) = n
    <3> HIDE DEF gap
    <3>1. gap \in Seq(Line)
      BY <2>2, <2>4, SeqDef
    <3>2. DOMAIN gap = 1 .. n /\ DOMAIN gap = 1 .. Len(gap) /\ Len(gap) \in Nat
      BY <2>4, <3>1, LenProperties
    <3> QED BY <2>2, <3>1, <3>2
  <2>6. \A i \in 1 .. n : gap[i].by = 0
    BY <2>2, <2>3
  <2> HIDE DEF new, old, gap
  <2>7. 0 <= starts
    BY BoundsAssumption DEF Inv, TypeOK
  <2>8. Dated(gap)
    BY <2>5, <2>6, <2>7 DEF Dated
  <2>9. old \o gap \in Seq(Line) /\ Dated(old \o gap)
    BY <1>2, <1>4, <2>5, <2>8, ConcatDated
  <2>10. new \in Seq(Line) /\ Dated(new)
    BY <2>1, <2>9, AppendDated
  <2>11. h.at = Len(old) => new = Append(old, line)
    <3> SUFFICES ASSUME h.at = Len(old)
                 PROVE  new = Append(old, line)
      OBVIOUS
    <3>1. n = 0
      BY <1>2 DEF n
    <3>2. gap = <<>>
      BY <2>5, <3>1, EmptySeq, SeqEqual
    <3> QED BY <1>2, <2>1, <3>2, ConcatEmptySeq
  <2> QED BY <1>7, <2>10, <2>11
<1>8. Good
  BY <1>2, <1>5, <1>6, <1>7
<1> HIDE DEF new
<1>9. content' \in [File -> Seq(Line)]
  BY <1>1, <1>2, <1>8 DEF Inv, TypeOK
<1>10. \A f \in File : Dated(content[f])'
  <2>1. \A f \in File : content'[f] = IF f = h.file THEN new ELSE content[f]
    BY <1>1, <1>2, <1>8 DEF Inv, TypeOK
  <2> QED BY <1>8, <2>1 DEF Inv, AllDated, Dated
<1>11. h.append \/ h.at = Len(old) => content'[h.file] = Append(old, line)
  BY <1>1, <1>2, <1>8 DEF Inv, TypeOK
<1> QED BY <1>1, <1>3, <1>9, <1>10, <1>11

\* A loop over the history writes its next line.
LEMMA LoopStep ==
    ASSUME Inv, NEW s \in Session, pc[s] \in {"rewrite", "write"},
           next[s] <= Len(history[s]),
           WriteLine(s, history[s][next[s]]),
           next' = [next EXCEPT ![s] = next[s] + 1],
           UNCHANGED <<starts, pc, mine, history, start, raw, pending, src, met>>
    PROVE  Inv'
<1> DEFINE n == next[s]
           line == history[s][n]
           f == handle[s].file
<1>1. /\ history[s] \in Seq(Line) /\ Len(history[s]) \in Nat
      /\ n \in 1 .. Len(history[s]) /\ line \in Line /\ line.by <= starts
      /\ f \in File
  BY LenProperties, ElementOfSeq DEF Inv, TypeOK, AllDated, Dated
<1>2. /\ content' \in [File -> Seq(Line)]
      /\ \A g \in File : Dated(content[g])'
      /\ handle' \in [Session -> Handle]
      /\ \A q \in Session \ {s} : handle'[q] = handle[q]
      /\ handle'[s].file = f
      /\ handle'[s].append = handle[s].append
      /\ handle'[s].at = handle[s].at + 1
      /\ handle[s].append \/ handle[s].at = Len(content[f]) =>
           content'[f] = Append(content[f], line)
      /\ UNCHANGED name
  BY <1>1, WriteFacts
<1>3. TypeOK'
  <2>1. next' \in [Session -> Nat]
        /\ \A r \in Session : next'[r] \in 1 .. Len(history[r]) + 1
    BY <1>1 DEF Inv, TypeOK
  <2>2. \A r \in Session : handle'[r].file = handle[r].file
    BY <1>2
  <2> QED BY <1>2, <2>1, <2>2 DEF Inv, TypeOK, Handle
<1>4. MarkerSeparates'
  BY DEF Inv, MarkerSeparates
<1>5. AllDated' /\ FromFirst'
  BY <1>2 DEF Inv, TypeOK, AllDated, Dated, FromFirst
<1>6. AllInFile'
  <2> SUFFICES ASSUME NEW r \in Session, ~met'[r], pc'[r] # "down"
               PROVE  InFile(r)'
    BY DEF AllInFile
  <2>1. InFile(r)
    BY DEF Inv, AllInFile
  <2>2. r = s
    BY <2>1 DEF InFile
  <2>3. /\ f = name
        /\ handle[s].append \/ handle[s].at = Len(content[f])
        /\ content[f] = SubSeq(history[s], 1, n - 1)
        /\ \A q \in Session \ {s} : pc'[q] = "down"
    BY <2>1, <2>2 DEF InFile
  <2>4. content'[f] = Append(content[f], line)
    BY <1>2, <2>3
  <2>5. content'[f] = SubSeq(history[s], 1, n)
    <3>1. \A i \in 1 .. n - 1 : history[s][i] \in Line
      BY <1>1, ElementOfSeq
    <3>2. SubSeq(history[s], 1, n - 1) \in Seq(Line)
      BY <1>1, <3>1, SubSeqProperties
    <3>3. Append(SubSeq(history[s], 1, n - 1), line)
            = SubSeq(history[s], 1, n - 1) \o <<line>>
      BY <1>1, <3>2, AppendIsConcat
    <3>4. 1 \in 1 .. Len(history[s]) /\ n \in 1 .. Len(history[s])
      BY <1>1
    <3>5. SubSeq(history[s], 1, n) = SubSeq(history[s], 1, n - 1) \o <<history[s][n]>>
      BY <1>1, <3>4, SubSeqRecursiveSecond
    <3> QED BY <2>3, <2>4, <3>3, <3>5
  <2>6. Len(content'[f]) = Len(content[f]) + 1
    BY <1>1, <2>4, AppendProperties DEF Inv, TypeOK
  <2>7. next'[s] - 1 = n
    BY <1>1 DEF Inv, TypeOK
  <2>8. handle'[s].append \/ handle'[s].at = Len(content'[f])
    BY <1>2, <2>3, <2>6
  <2> HIDE DEF f, n
  <2>9. /\ name' = f /\ handle'[s].file = f
        /\ pc'[s] \in {"rewrite", "write"}
    BY <1>2, <2>3
  <2>10. content'[f] = SubSeq(history'[s], 1, next'[s] - 1)
    BY ONLY <2>5, <2>7, history' = history
  <2> QED BY <2>2, <2>3, <2>8, <2>9, <2>10 DEF InFile
<1> QED BY <1>3, <1>4, <1>5, <1>6 DEF Inv

\* A loop over the history has written all of it.
LEMMA LoopEnd ==
    ASSUME Inv, NEW s \in Session, pc[s] \in {"rewrite", "write"},
           ~(next[s] <= Len(history[s])),
           NEW p \in {"read", "eval"}, pc' = [pc EXCEPT ![s] = p],
           next' = [next EXCEPT ![s] = 1], src' \in [Session -> Seq(Piece)],
           UNCHANGED <<name, content, starts, mine, history, start, handle, raw,
                       pending, met>>
    PROVE  Inv'
<1>1. history[s] \in Seq(Line) /\ Len(history[s]) \in Nat
  BY LenProperties DEF Inv, TypeOK
<1>2. next[s] - 1 = Len(history[s])
  BY <1>1 DEF Inv, TypeOK
<1>3. TypeOK'
  <2>1. \A r \in Session : Len(history[r]) \in Nat
    BY LenProperties DEF Inv, TypeOK
  <2>2. /\ next' \in [Session -> Nat]
        /\ \A r \in Session : next'[r] \in 1 .. Len(history[r]) + 1
    BY <2>1 DEF Inv, TypeOK
  <2>3. \A r \in Session :
           pc'[r] \in {"read", "rewrite", "eval", "write"} => handle[r].file # NoFile
    BY DEF Inv, TypeOK
  <2> QED BY <2>2, <2>3 DEF Inv, TypeOK
<1>4. MarkerSeparates'
  BY DEF Inv, MarkerSeparates
<1>5. AllDated' /\ FromFirst'
  BY DEF Inv, TypeOK, AllDated, Dated, FromFirst
<1>6. AllInFile'
  <2> SUFFICES ASSUME NEW r \in Session, ~met'[r], pc'[r] # "down"
               PROVE  InFile(r)'
    BY DEF AllInFile
  <2>1. InFile(r)
    BY DEF Inv, TypeOK, AllInFile
  <2>2. r = s
    BY <2>1 DEF InFile
  <2>3. content[name] = history[s]
    BY <1>1, <1>2, <2>1, <2>2, SubSeqFull DEF InFile
  <2>4. name # NoFile
    BY <2>1, <2>2 DEF InFile, Inv, TypeOK
  <2> QED BY <2>1, <2>2, <2>3, <2>4 DEF InFile, FileLines, Inv, TypeOK
<1> QED BY <1>3, <1>4, <1>5, <1>6 DEF Inv

LEMMA WritingInv ==
    ASSUME Inv, NEW s \in Session, Rewrite(s) \/ Write(s)
    PROVE  Inv'
<1> USE DEF disk, memory
<1>1. /\ pc[s] \in {"rewrite", "write"}
      /\ UNCHANGED <<starts, mine, history, start, raw, pending, met>>
  BY DEF Rewrite, Write
<1>2. CASE next[s] <= Len(history[s])
  BY <1>1, <1>2, LoopStep DEF Rewrite, Write
<1>3. CASE ~(next[s] <= Len(history[s])) /\ Rewrite(s)
  <2>1. src' \in [Session -> Seq(Piece)]
    <3>1. <<Blank>> \in Seq(Piece)
      BY DEF Piece
    <3> QED BY <1>3, <3>1 DEF Rewrite, Return, Inv, TypeOK
  <2>2. /\ pc' = [pc EXCEPT ![s] = "eval"]
        /\ next' = [next EXCEPT ![s] = 1]
        /\ UNCHANGED <<name, content, handle>>
    BY <1>3 DEF Rewrite, Return
  <2> QED BY <1>1, <1>3, <2>1, <2>2, LoopEnd
<1>4. CASE ~(next[s] <= Len(history[s])) /\ Write(s)
  <2>1. /\ pc' = [pc EXCEPT ![s] = "read"]
        /\ next' = [next EXCEPT ![s] = 1]
        /\ UNCHANGED <<name, content, handle, src>>
    BY <1>4 DEF Write
  <2>2. src' \in [Session -> Seq(Piece)]
    BY <2>1 DEF Inv, TypeOK
  <2> QED BY <1>1, <1>4, <2>1, <2>2, LoopEnd
<1> QED BY <1>2, <1>3, <1>4
-----------------------------------------------------------------------------
\* A history without its lines m to n.
LEMMA Removed ==
    ASSUME NEW h \in Seq(Line), NEW m \in 1 .. Len(h), NEW n \in 1 .. Len(h), m <= n
    PROVE  LET t == SubSeq(h, 1, m - 1) \o SubSeq(h, n + 1, Len(h))
           IN  /\ t \in Seq(Line)
               /\ Len(t) = Len(h) - (n - m + 1)
               /\ \A i \in 1 .. Len(t) :
                     t[i] = h[IF i < m THEN i ELSE i + (n - m + 1)]
<1> DEFINE x == SubSeq(h, 1, m - 1)
           y == SubSeq(h, n + 1, Len(h))
           t == x \o y
<1>1. Len(h) \in Nat
  BY LenProperties
<1>2. \A i \in 1 .. Len(h) : h[i] \in Line
  BY ElementOfSeq
<1>3. /\ x \in Seq(Line)
      /\ Len(x) = m - 1
      /\ \A i \in 1 .. m - 1 : x[i] = h[i]
  <2>1. \A i \in 1 .. m - 1 : h[i] \in Line
    BY <1>1, <1>2
  <2>2. /\ x \in Seq(Line)
        /\ Len(x) = IF 1 <= m - 1 THEN m - 1 - 1 + 1 ELSE 0
        /\ \A i \in 1 .. m - 1 - 1 + 1 : x[i] = h[1 + i - 1]
    BY <1>1, <2>1, SubSeqProperties
  <2> HIDE DEF x
  <2> QED BY <1>1, <2>2
<1>4. /\ y \in Seq(Line)
      /\ Len(y) = Len(h) - n
      /\ \A i \in 1 .. Len(h) - n : y[i] = h[i + n]
  <2>1. \A i \in n + 1 .. Len(h) : h[i] \in Line
    BY <1>1, <1>2
  <2>2. /\ y \in Seq(Line)
        /\ Len(y) = IF n + 1 <= Len(h) THEN Len(h) - (n + 1) + 1 ELSE 0
        /\ \A i \in 1 .. Len(h) - (n + 1) + 1 : y[i] = h[n + 1 + i - 1]
    BY <1>1, <2>1, SubSeqProperties
  <2> HIDE DEF y
  <2> QED BY <1>1, <2>2
<1> HIDE DEF x, y
<1>5. /\ t \in Seq(Line) /\ Len(t) = Len(x) + Len(y)
      /\ \A i \in 1 .. Len(x) + Len(y) :
            t[i] = IF i <= Len(x) THEN x[i] ELSE y[i - Len(x)]
  BY <1>3, <1>4, ConcatProperties
<1> HIDE DEF t
<1>6. ASSUME NEW i \in 1 .. Len(t)
      PROVE  t[i] = h[IF i < m THEN i ELSE i + (n - m + 1)]
  <2>1. CASE i < m
    BY <1>1, <1>3, <1>4, <1>5, <2>1
  <2>2. CASE ~(i < m)
    <3>1. t[i] = y[i - (m - 1)] /\ i - (m - 1) \in 1 .. Len(h) - n
      BY <1>1, <1>3, <1>4, <1>5, <2>2
    <3>2. y[i - (m - 1)] = h[i - (m - 1) + n]
      BY <1>4, <3>1
    <3>3. i - (m - 1) + n = i + (n - m + 1)
      BY <1>1
    <3> QED BY <2>2, <3>1, <3>2, <3>3
  <2> QED BY <2>1, <2>2
<1>7. Len(t) = Len(h) - (n - m + 1)
  BY <1>1, <1>3, <1>4, <1>5
<1> QED BY <1>5, <1>6, <1>7 DEF t, x, y

\* :rm takes lines out and moves the marker by those that were before it.
LEMMA RemoveInv ==
    ASSUME Inv, NEW s \in Session, RemoveLines(s)
    PROVE  Inv'
<1> DEFINE h == history[s]
           k == start[s]
<1>1. /\ h \in Seq(Line) /\ Len(h) \in Nat /\ DOMAIN h = 1 .. Len(h)
      /\ k \in Nat /\ k <= Len(h)
  BY LenProperties DEF Inv, TypeOK
<1>2. PICK m \in 1 .. Len(h), n \in 1 .. Len(h) :
         /\ m <= n
         /\ history' = [history EXCEPT ![s] = SubSeq(h, 1, m - 1) \o SubSeq(h, n + 1, Len(h))]
         /\ start' = [start EXCEPT ![s] = MarkerAfter(k, m - 1, n - 1)]
  BY DEF RemoveLines
<1> DEFINE t == SubSeq(h, 1, m - 1) \o SubSeq(h, n + 1, Len(h))
           d == n - m + 1
           j(i) == IF i < m THEN i ELSE i + d
           mark == MarkerAfter(k, m - 1, n - 1)
<1>3. /\ pc[s] = "read"
      /\ name' = NoFile
      /\ handle' = [handle EXCEPT ![s] = Closed]
      /\ pc' = [pc EXCEPT ![s] = "create"]
      /\ UNCHANGED <<content, starts, mine, raw, pending, src, next, met>>
  BY DEF RemoveLines
<1>4. /\ t \in Seq(Line) /\ Len(t) = Len(h) - d
      /\ \A i \in 1 .. Len(t) : t[i] = h[j(i)]
  BY <1>1, <1>2, Removed
<1>5. history' = [history EXCEPT ![s] = t] /\ start' = [start EXCEPT ![s] = mark]
  BY <1>2
<1>6. d \in Nat /\ mark \in Nat /\ mark <= Len(h) - d
  BY <1>1, <1>2 DEF MarkerAfter
<1>7. \A i \in 1 .. Len(h) - d : j(i) \in 1 .. Len(h) /\ (i > mark <=> j(i) > k)
  BY <1>1, <1>2 DEF MarkerAfter
<1>8. next[s] = 1
  BY <1>3 DEF Inv, FromFirst
<1> HIDE DEF t, d, mark, j
<1>9. TypeOK'
  <2>1. /\ history' \in [Session -> Seq(Line)]
        /\ start' \in [Session -> Nat]
        /\ handle' \in [Session -> Handle]
    BY <1>3, <1>4, <1>5, <1>6 DEF Inv, TypeOK, Closed, Handle
  <2>2. ASSUME NEW r \in Session
        PROVE  /\ start'[r] <= Len(history'[r])
               /\ next'[r] \in 1 .. Len(history'[r]) + 1
               /\ pc'[r] \in {"read", "rewrite", "eval", "write"} => handle'[r].file # NoFile
    <3>1. CASE r = s
      <4>1. start'[s] = mark /\ history'[s] = t /\ pc'[s] = "create" /\ next'[s] = 1
        BY <1>3, <1>5, <1>8 DEF Inv, TypeOK
      <4>2. mark <= Len(t) /\ Len(t) \in Nat
        BY <1>1, <1>4, <1>6
      <4> QED BY <3>1, <4>1, <4>2
    <3>2. CASE r # s
      BY <1>3, <1>5, <3>2 DEF Inv, TypeOK
    <3> QED BY <3>1, <3>2
  <2> QED BY <1>3, <2>1, <2>2 DEF Inv, TypeOK, Handle
<1>10. MarkerSeparates'
  <2> SUFFICES ASSUME NEW r \in Session, NEW i \in DOMAIN history'[r]
               PROVE  i > start'[r] <=> history'[r][i].by = mine'[r]
    BY DEF MarkerSeparates
  <2>1. CASE r = s
    <3>1. history'[r] = t /\ start'[r] = mark /\ mine'[r] = mine[s]
      BY <1>3, <1>5, <2>1 DEF Inv, TypeOK
    <3>2. i \in 1 .. Len(t) /\ i \in 1 .. Len(h) - d
      BY <1>4, <3>1, LenProperties
    <3>3. j(i) \in DOMAIN h /\ t[i] = h[j(i)] /\ (i > mark <=> j(i) > k)
      BY <1>1, <1>4, <1>7, <3>2
    <3>4. j(i) > k <=> h[j(i)].by = mine[s]
      BY <3>3 DEF Inv, MarkerSeparates
    <3> QED BY <3>1, <3>3, <3>4
  <2>2. CASE r # s
    BY <1>3, <1>5, <2>2 DEF Inv, TypeOK, MarkerSeparates
  <2> QED BY <2>1, <2>2
<1>11. AllDated'
  <2>1. Dated(t)
    <3>1. \A i \in 1 .. Len(h) : h[i].by <= starts
      BY DEF Inv, AllDated, Dated
    <3> QED BY <1>4, <1>7, <3>1 DEF Dated
  <2>2. \A r \in Session : history'[r] = t \/ history'[r] = history[r]
    BY <1>5 DEF Inv, TypeOK
  <2> QED BY <1>3, <2>1, <2>2 DEF Inv, AllDated, Dated
<1>12. FromFirst'
  BY <1>3 DEF Inv, TypeOK, FromFirst
<1>13. AllInFile'
  <2> SUFFICES ASSUME NEW r \in Session, ~met'[r], pc'[r] # "down"
               PROVE  InFile(r)'
    BY DEF AllInFile
  <2>1. InFile(r)
    BY <1>3 DEF Inv, TypeOK, AllInFile
  <2>2. r = s
    BY <1>3, <2>1 DEF InFile
  <2>3. pc'[s] = "create" /\ \A q \in Session \ {s} : pc'[q] = "down"
    BY <1>3, <2>1, <2>2 DEF InFile, Inv, TypeOK
  <2> QED BY <1>3, <2>2, <2>3 DEF InFile
<1> QED BY <1>9, <1>10, <1>11, <1>12, <1>13 DEF Inv

\* :clear empties the history and the file.
LEMMA ClearInv ==
    ASSUME Inv, NEW s \in Session, Clear(s)
    PROVE  Inv'
<1> DEFINE f == IF name = NoFile THEN FreeFile ELSE name
<1>1. /\ pc[s] = "read"
      /\ history' = [history EXCEPT ![s] = <<>>]
      /\ start' = [start EXCEPT ![s] = 0]
      /\ name' = f
      /\ content' = [content EXCEPT ![f] = <<>>]
      /\ handle' = [handle EXCEPT ![s] = [file |-> f, append |-> FALSE, at |-> 0]]
      /\ pc' = [pc EXCEPT ![s] = "eval"]
      /\ src' = [src EXCEPT ![s] = <<Blank>>]
      /\ UNCHANGED <<starts, mine, raw, pending, next, met>>
  BY DEF Clear, Return
<1>2. f \in File /\ f # NoFile
  BY FreeFileExists, NoFileIsNone DEF Inv, TypeOK
<1>3. next[s] = 1
  BY <1>1 DEF Inv, FromFirst
<1> HIDE DEF f
<1>4. TypeOK'
  <2>1. /\ content' \in [File -> Seq(Line)]
        /\ history' \in [Session -> Seq(Line)]
        /\ start' \in [Session -> Nat]
        /\ handle' \in [Session -> Handle]
    BY <1>1, <1>2, EmptySeq DEF Inv, TypeOK, Handle
  <2>2. src' \in [Session -> Seq(Piece)]
    <3>1. <<Blank>> \in Seq(Piece)
      BY DEF Piece
    <3> QED BY <1>1, <3>1 DEF Inv, TypeOK
  <2>3. ASSUME NEW r \in Session
        PROVE  /\ start'[r] <= Len(history'[r])
               /\ next'[r] \in 1 .. Len(history'[r]) + 1
               /\ pc'[r] \in {"read", "rewrite", "eval", "write"} => handle'[r].file # NoFile
    <3>1. CASE r = s
      <4>1. start'[s] = 0 /\ history'[s] = <<>> /\ next'[s] = 1 /\ handle'[s].file = f
        BY <1>1, <1>3 DEF Inv, TypeOK
      <4> QED BY <1>2, <3>1, <4>1, EmptySeq
    <3>2. CASE r # s
      BY <1>1, <3>2 DEF Inv, TypeOK
    <3> QED BY <3>1, <3>2
  <2> QED BY <1>1, <1>2, <2>1, <2>2, <2>3 DEF Inv, TypeOK, Handle
<1>5. MarkerSeparates'
  BY <1>1 DEF Inv, TypeOK, MarkerSeparates
<1>6. AllDated' /\ FromFirst'
  <2>1. /\ \A r \in Session : history'[r] = <<>> \/ history'[r] = history[r]
        /\ \A g \in File : content'[g] = <<>> \/ content'[g] = content[g]
    BY <1>1 DEF Inv, TypeOK
  <2>2. Dated(<<>>)'
    BY EmptySeq DEF Dated
  <2>3. AllDated'
    BY <1>1, <2>1, <2>2 DEF Inv, AllDated, Dated
  <2>4. FromFirst'
    BY <1>1 DEF Inv, TypeOK, FromFirst
  <2> QED BY <2>3, <2>4
<1>7. AllInFile'
  <2> SUFFICES ASSUME NEW r \in Session, ~met'[r], pc'[r] # "down"
               PROVE  InFile(r)'
    BY DEF AllInFile
  <2>1. InFile(r)
    BY <1>1 DEF Inv, TypeOK, AllInFile
  <2>2. r = s
    BY <1>1, <2>1 DEF InFile
  <2>3. /\ pc'[s] = "eval" /\ \A q \in Session \ {s} : pc'[q] = "down"
        /\ content'[name'] = <<>> /\ history'[s] = <<>> /\ name' # NoFile
        /\ handle'[s].file = name' /\ handle'[s].at = 0
    BY <1>1, <1>2, <2>1, <2>2 DEF InFile, Inv, TypeOK
  <2> QED BY <2>2, <2>3, EmptySeq DEF InFile, FileLines
<1> QED BY <1>4, <1>5, <1>6, <1>7 DEF Inv

\* What is evaluated, and added to the history, is a sequence of texts.
LEMMA AddedType ==
    ASSUME Inv, NEW s \in Session
    PROVE  Input(s) \in Seq(Piece) /\ Added(Input(s)) \in Seq(Piece)
<1>1. Input(s) \in Seq(Piece)
  <2>1. src[s] \in Seq(Piece) /\ pending[s] \in Seq(Piece)
    BY DEF Inv, TypeOK
  <2> QED BY <2>1, ConcatProperties DEF Input
<1> DEFINE t == Input(s)
<1> HIDE DEF t
<1>2. ASSUME t \in Seq(Piece), Len(t) > 1
      PROVE  Front(t) \in Seq(Piece)
  <2>1. Len(t) \in Nat /\ \A i \in 1 .. Len(t) - 1 : t[i] \in Piece
    BY <1>2, LenProperties, ElementOfSeq
  <2> QED BY <2>1, SubSeqProperties DEF Front
<1> QED BY <1>1, <1>2 DEF Added, t

\* Source that was accepted is added to the history, behind the marker.
LEMMA AcceptInv ==
    ASSUME Inv, NEW s \in Session, Accept(s)
    PROVE  Inv'
<1> DEFINE h == history[s]
           lines == Added(Input(s))
           new == [i \in DOMAIN lines |-> [text |-> lines[i], by |-> mine[s]]]
           t == h \o new
<1>1. /\ pc[s] = "eval"
      /\ history' = [history EXCEPT ![s] = t]
      /\ pending' = IF raw[s] THEN pending ELSE [pending EXCEPT ![s] = <<>>]
      /\ next' = [next EXCEPT ![s] = Len(h) + 1]
      /\ src' = [src EXCEPT ![s] = <<>>]
      /\ pc' = [pc EXCEPT ![s] = "write"]
      /\ UNCHANGED <<name, content, starts, mine, start, raw, handle, met>>
  BY DEF Accept, disk
<1>2. /\ lines \in Seq(Piece) /\ Len(lines) \in Nat /\ DOMAIN lines = 1 .. Len(lines)
      /\ \A i \in 1 .. Len(lines) : lines[i] \in Piece
  BY AddedType, LenProperties, ElementOfSeq
<1>3. /\ h \in Seq(Line) /\ Len(h) \in Nat /\ DOMAIN h = 1 .. Len(h)
      /\ mine[s] \in 0 .. starts /\ starts \in 0 .. MaxStarts
      /\ start[s] \in Nat /\ start[s] <= Len(h)
  BY LenProperties DEF Inv, TypeOK
<1> HIDE DEF lines
<1>4. /\ new \in Seq(Line) /\ Len(new) = Len(lines)
      /\ \A i \in 1 .. Len(lines) : new[i].by = mine[s]
  <2>1. mine[s] \in 0 .. MaxStarts
    BY <1>3, BoundsAssumption
  <2>2. new \in [1 .. Len(lines) -> Line]
    BY <1>2, <2>1 DEF Line
  <2>3. \A i \in 1 .. Len(lines) : new[i].by = mine[s]
    BY <1>2
  <2> HIDE DEF new
  <2>4. new \in Seq(Line)
    BY <1>2, <2>2, SeqDef
  <2>5. DOMAIN new = 1 .. Len(lines) /\ DOMAIN new = 1 .. Len(new) /\ Len(new) \in Nat
    BY <2>2, <2>4, LenProperties
  <2> QED BY <1>2, <2>3, <2>4, <2>5
<1> HIDE DEF new
<1>5. /\ t \in Seq(Line) /\ Len(t) = Len(h) + Len(new) /\ DOMAIN t = 1 .. Len(t)
      /\ \A i \in 1 .. Len(h) : t[i] = h[i]
      /\ \A i \in 1 .. Len(t) :
            i > Len(h) => i - Len(h) \in 1 .. Len(new) /\ t[i] = new[i - Len(h)]
  <2>1. h \in Seq(Line) /\ new \in Seq(Line)
    BY <1>3, <1>4
  <2> HIDE DEF h
  <2>2. /\ t \in Seq(Line) /\ Len(t) = Len(h) + Len(new)
        /\ DOMAIN t = 1 .. Len(h) + Len(new)
        /\ \A i \in 1 .. Len(h) : t[i] = h[i]
        /\ \A i \in 1 .. Len(h) + Len(new) :
              i > Len(h) => i - Len(h) \in 1 .. Len(new) /\ t[i] = new[i - Len(h)]
    BY ONLY <2>1, ConcatFacts DEF t
  <2> HIDE DEF t
  <2> QED BY ONLY <2>2
<1> HIDE DEF t
<1>6. \A i \in 1 .. Len(t) :
         \/ i \in 1 .. Len(h) /\ t[i] = h[i]
         \/ i > Len(h) /\ t[i].by = mine[s]
  <2> SUFFICES ASSUME NEW i \in 1 .. Len(t)
               PROVE  \/ i \in 1 .. Len(h) /\ t[i] = h[i]
                      \/ i > Len(h) /\ t[i].by = mine[s]
    OBVIOUS
  <2>1. CASE i <= Len(h)
    BY <1>3, <1>5, <2>1
  <2>2. CASE i > Len(h)
    <3>1. i - Len(h) \in 1 .. Len(lines) /\ t[i] = new[i - Len(h)]
      BY <1>4, <1>5, <2>2
    <3> QED BY <1>4, <2>2, <3>1
  <2> QED BY <1>3, <1>5, <2>1, <2>2
<1>7. TypeOK'
  <2>1. /\ history' \in [Session -> Seq(Line)]
        /\ next' \in [Session -> Nat]
        /\ pending' \in [Session -> Seq(Piece)]
        /\ src' \in [Session -> Seq(Piece)]
    BY <1>1, <1>3, <1>5, EmptySeq DEF Inv, TypeOK
  <2>2. ASSUME NEW r \in Session
        PROVE  /\ start'[r] <= Len(history'[r])
               /\ next'[r] \in 1 .. Len(history'[r]) + 1
               /\ pc'[r] \in {"read", "rewrite", "eval", "write"} => handle'[r].file # NoFile
    <3>1. CASE r = s
      <4>1. history'[s] = t /\ next'[s] = Len(h) + 1 /\ handle'[s].file # NoFile
        BY <1>1 DEF Inv, TypeOK
      <4> QED BY <1>1, <1>2, <1>3, <1>4, <1>5, <3>1, <4>1
    <3>2. CASE r # s
      BY <1>1, <3>2 DEF Inv, TypeOK
    <3> QED BY <3>1, <3>2
  <2> QED BY <1>1, <2>1, <2>2 DEF Inv, TypeOK
<1>8. MarkerSeparates'
  <2> SUFFICES ASSUME NEW r \in Session, NEW i \in DOMAIN history'[r]
               PROVE  i > start'[r] <=> history'[r][i].by = mine'[r]
    BY DEF MarkerSeparates
  <2>1. CASE r = s
    <3>1. history'[r] = t /\ start'[r] = start[s] /\ mine'[r] = mine[s]
      BY <1>1, <2>1 DEF Inv, TypeOK
    <3>2. i \in 1 .. Len(t)
      BY <1>5, <3>1
    <3>3. i \in 1 .. Len(h) => (i > start[s] <=> h[i].by = mine[s])
      BY <1>3 DEF Inv, MarkerSeparates
    <3> QED BY <1>3, <1>6, <3>1, <3>2, <3>3
  <2>2. CASE r # s
    BY <1>1, <2>2 DEF Inv, TypeOK, MarkerSeparates
  <2> QED BY <2>1, <2>2
<1>9. AllDated' /\ FromFirst'
  <2>1. Dated(t)
    <3>1. \A i \in 1 .. Len(h) : h[i].by <= starts
      BY DEF Inv, AllDated, Dated
    <3>2. mine[s] <= starts
      BY <1>3
    <3> QED BY <1>6, <3>1, <3>2 DEF Dated
  <2>2. \A r \in Session : history'[r] = t \/ history'[r] = history[r]
    BY <1>1 DEF Inv, TypeOK
  <2>3. FromFirst'
    BY <1>1 DEF Inv, TypeOK, FromFirst
  <2> QED BY <1>1, <2>1, <2>2, <2>3 DEF Inv, AllDated, Dated
<1>10. AllInFile'
  <2> SUFFICES ASSUME NEW r \in Session, ~met'[r], pc'[r] # "down"
               PROVE  InFile(r)'
    BY DEF AllInFile
  <2>1. InFile(r)
    BY <1>1 DEF Inv, TypeOK, AllInFile
  <2>2. r = s
    BY <1>1, <2>1 DEF InFile
  <2>3. content[name] = h
    BY <1>1, <2>1, <2>2 DEF InFile, FileLines, Inv, TypeOK
  <2>4. SubSeq(t, 1, Len(h)) = h
    <3>1. Len(new) \in Nat /\ \A i \in 1 .. Len(h) : t[i] = h[i] /\ t[i] \in Line
      BY <1>2, <1>3, <1>4, <1>5, ElementOfSeq
    <3>2. /\ SubSeq(t, 1, Len(h)) \in Seq(Line)
          /\ Len(SubSeq(t, 1, Len(h))) = Len(h)
          /\ \A i \in 1 .. Len(h) : SubSeq(t, 1, Len(h))[i] = t[i]
      BY <1>3, <3>1, SubSeqProperties
    <3> QED BY <1>3, <3>1, <3>2, SeqEqual
  <2>5. next'[s] - 1 = Len(h)
    BY <1>1, <1>3 DEF Inv, TypeOK
  <2>6. /\ pc'[s] = "write" /\ \A q \in Session \ {s} : pc'[q] = "down"
        /\ history'[s] = t
        /\ handle[s].file = name /\ (handle[s].append \/ handle[s].at = Len(content[name]))
    BY <1>1, <2>1, <2>2 DEF InFile, Inv, TypeOK
  <2>7. content'[name'] = SubSeq(history'[s], 1, next'[s] - 1)
    BY <1>1, <2>3, <2>4, <2>5, <2>6
  <2> QED BY <1>1, <2>2, <2>6, <2>7 DEF InFile
<1> QED BY <1>7, <1>8, <1>9, <1>10 DEF Inv
-----------------------------------------------------------------------------
\* The texts of a range of lines.
LEMMA TextsType ==
    ASSUME Inv, NEW s \in Session, NEW m \in 1 .. Len(history[s]),
           NEW n \in 1 .. Len(history[s]), m <= n
    PROVE  Texts(s, m, n) \in Seq(Piece)
<1>1. history[s] \in Seq(Line) /\ Len(history[s]) \in Nat
  BY LenProperties DEF Inv, TypeOK
<1>2. n - m + 1 \in Nat
  BY <1>1
<1>3. \A i \in 1 .. n - m + 1 : history[s][m + i - 1].text \in Piece
  <2> SUFFICES ASSUME NEW i \in 1 .. n - m + 1
               PROVE  history[s][m + i - 1].text \in Piece
    OBVIOUS
  <2>1. m + i - 1 \in 1 .. Len(history[s])
    BY <1>1
  <2>2. history[s][m + i - 1] \in Line
    BY <1>1, <2>1, ElementOfSeq
  <2> QED BY <2>2 DEF Line
<1>4. Texts(s, m, n) \in [1 .. n - m + 1 -> Piece]
  BY <1>3 DEF Texts
<1> QED BY <1>2, <1>4, SeqDef

\* What Read returns: one text, a range of them, or nothing but blanks.
LEMMA ReturnInv ==
    ASSUME Inv, NEW s \in Session, pc[s] = "read", NEW lines \in Seq(Piece), Return(s, lines),
           raw' \in [Session -> BOOLEAN],
           UNCHANGED <<name, content, starts, mine, history, start, pending, handle, next, met>>
    PROVE  Inv'
<1>1. /\ pc' = [pc EXCEPT ![s] = "eval"]
      /\ src' \in [Session -> Seq(Piece)]
      /\ pending' \in [Session -> Seq(Piece)]
  BY DEF Return, Inv, TypeOK
<1> QED BY <1>1, ReadingInv

LEMMA ReadActionsInv ==
    ASSUME Inv, NEW s \in Session,
           TypeLine(s) \/ SourceFile(s) \/ Command(s) \/ RawMode(s) \/ Replay(s)
    PROVE  Inv'
<1>1. raw \in [Session -> BOOLEAN]
  BY DEF Inv, TypeOK
<1>2. CASE TypeLine(s)
  <2>1. PICK t \in Text : Return(s, <<t>>)
    BY <1>2 DEF TypeLine
  <2>2. <<t>> \in Seq(Piece)
    BY DEF Piece
  <2> QED BY <1>1, <1>2, <2>1, <2>2, ReturnInv DEF TypeLine, disk, memory
<1>3. CASE SourceFile(s)
  <2>1. PICK t \in Text : Return(s, <<t, Blank, Blank>>)
    BY <1>3 DEF SourceFile
  <2>2. <<t, Blank, Blank>> \in Seq(Piece)
    BY DEF Piece
  <2> QED BY <1>1, <1>3, <2>1, <2>2, ReturnInv DEF SourceFile, disk, memory
<1>4. CASE Command(s)
  <2>1. <<Blank>> \in Seq(Piece)
    BY DEF Piece
  <2>2. raw' \in [Session -> BOOLEAN]
    BY <1>1, <1>4 DEF Command
  <2> QED BY <1>4, <2>1, <2>2, ReturnInv DEF Command, disk
<1>5. CASE RawMode(s)
  <2>1. /\ pc[s] = "read" /\ pc' = [pc EXCEPT ![s] = "read"]
        /\ raw' \in [Session -> BOOLEAN]
        /\ src' \in [Session -> Seq(Piece)] /\ pending' \in [Session -> Seq(Piece)]
    BY <1>5 DEF RawMode, Inv, TypeOK
  <2> QED BY <1>5, <2>1, ReadingInv DEF RawMode, disk
<1>6. CASE Replay(s)
  <2>1. PICK m \in 1 .. Len(history[s]), n \in 1 .. Len(history[s]) :
           \/ m = n /\ Return(s, Texts(s, m, m))
           \/ m <= n /\ Return(s, Append(Texts(s, m, n), Blank))
    BY <1>6 DEF Replay
  <2>2. m <= n
    BY <2>1, LenProperties DEF Inv, TypeOK
  <2>3. Texts(s, m, n) \in Seq(Piece) /\ Blank \in Piece
    BY <2>2, TextsType DEF Piece
  <2>4. Append(Texts(s, m, n), Blank) \in Seq(Piece)
    BY <2>3, AppendProperties
  <2>5. \E lines \in Seq(Piece) : Return(s, lines)
    BY <2>1, <2>3, <2>4
  <2> QED BY <1>1, <1>6, <2>5, ReturnInv DEF Replay, disk, memory
<1> QED BY <1>2, <1>3, <1>4, <1>5, <1>6

\* Source that is not complete yet is kept, and source that is refused is not.
LEMMA PendingInv ==
    ASSUME Inv, NEW s \in Session, Incomplete(s) \/ Refuse(s)
    PROVE  Inv'
<1>1. /\ pc[s] = "eval" /\ pc' = [pc EXCEPT ![s] = "read"]
      /\ src' = [src EXCEPT ![s] = <<>>]
      /\ \/ pending' = [pending EXCEPT ![s] = Input(s)]
         \/ pending' = [pending EXCEPT ![s] = <<>>]
      /\ UNCHANGED <<name, content, starts, mine, history, start, raw, handle, next, met>>
  BY DEF Incomplete, Refuse, disk
<1>2. Input(s) \in Seq(Piece)
  BY AddedType
<1>3. /\ src' \in [Session -> Seq(Piece)] /\ pending' \in [Session -> Seq(Piece)]
      /\ raw' \in [Session -> BOOLEAN]
  <2>1. pending' \in [Session -> Seq(Piece)]
    <3>1. CASE pending' = [pending EXCEPT ![s] = Input(s)]
      BY <1>2, <3>1 DEF Inv, TypeOK
    <3>2. CASE pending' = [pending EXCEPT ![s] = <<>>]
      BY <3>2, EmptySeq DEF Inv, TypeOK
    <3> QED BY <1>1, <3>1, <3>2
  <2>2. src' \in [Session -> Seq(Piece)] /\ raw' \in [Session -> BOOLEAN]
    BY <1>1, EmptySeq DEF Inv, TypeOK
  <2> QED BY <2>1, <2>2
<1> QED BY <1>1, <1>3, ReadingInv
-----------------------------------------------------------------------------
LEMMA InvNext == Inv /\ [Next]_vars => Inv'
<1> SUFFICES ASSUME Inv, [Next]_vars
             PROVE  Inv'
  OBVIOUS
<1>1. CASE UNCHANGED vars
  BY <1>1 DEF vars, disk, memory, Inv, TypeOK, MarkerSeparates, AllDated, Dated, FromFirst,
              AllInFile, InFile, FileLines
<1>2. ASSUME NEW s \in Session,
             \/ Start(s) \/ Open(s) \/ Stop(s)
             \/ TypeLine(s) \/ SourceFile(s) \/ Command(s) \/ RawMode(s) \/ Replay(s) \/ Clear(s)
             \/ RemoveLines(s) \/ Create(s) \/ Rewrite(s)
             \/ Incomplete(s) \/ Refuse(s) \/ Accept(s) \/ Write(s)
      PROVE  Inv'
  BY <1>2, StartInv, OpenInv, StopInv, ReadActionsInv, ClearInv, RemoveInv, WritingInv,
     PendingInv, AcceptInv
<1> QED BY <1>1, <1>2 DEF Next

\* What readHistory and the loops that write keep to: the marker and the loops
\* stay within the history, and whoever writes has a file (NewRepl, Read, Eval).
THEOREM HistoryTypeOK == Spec => []TypeOK
<1>1. Inv => TypeOK
  BY DEF Inv
<1> QED BY <1>1, InitInv, InvNext, PTL DEF Spec

\* The marker separates the lines of earlier sessions from those of this one
\* after any removals, while other sessions write to the file or remove it
\* (removeCommands and its caller, repl_luajit.go:255-274).
THEOREM Separation == Spec => []MarkerSeparates
<1>1. Inv => MarkerSeparates
  BY DEF Inv
<1> QED BY <1>1, InitInv, InvNext, PTL DEF Spec

LEMMA Prefix ==
    ASSUME NEW u \in Seq(Line), NEW t \in Seq(Line), Len(u) <= Len(t),
           \A i \in 1 .. Len(u) : u[i] = t[i]
    PROVE  IsPrefix(u, t)
<1>1. /\ Len(u) \in Nat /\ Len(t) \in Nat
      /\ \A i \in 1 .. Len(u) : u[i] \in Line /\ t[i] \in Line
  BY LenProperties, ElementOfSeq
<1> DEFINE a == SubSeq(u, 1, Len(u))
           b == SubSeq(t, 1, Len(u))
<1>2. a \in Seq(Line) /\ Len(a) = Len(u) /\ \A i \in 1 .. Len(u) : a[i] = u[i]
  BY <1>1, SubSeqProperties
<1>3. b \in Seq(Line) /\ Len(b) = Len(u) /\ \A i \in 1 .. Len(u) : b[i] = t[i]
  BY <1>1, SubSeqProperties
<1> HIDE DEF a, b
<1>4. a = b
  BY <1>2, <1>3, SeqEqual
<1> QED BY <1>4 DEF IsPrefix, a, b

\* The first lines of a history are a beginning of it.
LEMMA PrefixOf ==
    ASSUME NEW t \in Seq(Line), NEW k \in 0 .. Len(t)
    PROVE  IsPrefix(SubSeq(t, 1, k), t)
<1>1. Len(t) \in Nat /\ \A i \in 1 .. k : t[i] \in Line
  BY LenProperties, ElementOfSeq
<1> DEFINE u == SubSeq(t, 1, k)
<1>2. u \in Seq(Line) /\ Len(u) = k /\ \A i \in 1 .. k : u[i] = t[i]
  BY <1>1, SubSeqProperties
<1> HIDE DEF u
<1>3. IsPrefix(u, t)
  BY <1>1, <1>2, Prefix
<1> QED BY <1>3 DEF u

\* A session that is and was alone finds its history in the file at the prompt,
\* and a beginning of it wherever it is killed (Append, removeCommands).
THEOREM FileKeepsHistory == Spec => []FileIsHistory
<1>1. Inv => FileIsHistory
  <2> SUFFICES ASSUME Inv, NEW s \in Session, ~met[s], pc[s] # "down"
               PROVE  /\ pc[s] \in {"open", "read", "eval"} => ReadHistory = history[s]
                      /\ IsPrefix(ReadHistory, history[s])
    BY DEF FileIsHistory
  <2>1. InFile(s) /\ ReadHistory = FileLines
    BY ReadsFile DEF Inv, AllInFile
  <2>2. history[s] \in Seq(Line) /\ Len(history[s]) \in Nat
    BY LenProperties DEF Inv, TypeOK
  <2>3. CASE pc[s] \in {"open", "read", "eval"}
    <3>1. FileLines = history[s]
      BY <2>1, <2>3 DEF InFile
    <3>2. IsPrefix(history[s], history[s])
      BY <2>2, Prefix
    <3> QED BY <2>1, <3>1, <3>2
  <2>4. CASE pc[s] = "create"
    <3>1. FileLines = <<>>
      BY <2>1, <2>4 DEF InFile, FileLines
    <3>2. IsPrefix(<<>>, history[s])
      <4>1. SubSeq(history[s], 1, 0) = <<>> /\ 0 \in 0 .. Len(history[s])
        BY <2>2, SubSeqEmpty
      <4>2. IsPrefix(SubSeq(history[s], 1, 0), history[s])
        BY <2>2, <4>1, PrefixOf
      <4> QED BY <4>1, <4>2
    <3> QED BY <2>1, <2>4, <3>1, <3>2
  <2>5. CASE pc[s] \in {"rewrite", "write"}
    <3>1. FileLines = SubSeq(history[s], 1, next[s] - 1)
      BY <2>1, <2>5 DEF InFile, FileLines, Inv, TypeOK
    <3>2. next[s] - 1 \in 0 .. Len(history[s])
      BY <2>2 DEF Inv, TypeOK
    <3>3. IsPrefix(SubSeq(history[s], 1, next[s] - 1), history[s])
      BY <2>2, <3>2, PrefixOf
    <3> QED BY <2>1, <2>5, <3>1, <3>3
  <2> QED BY <2>3, <2>4, <2>5 DEF Inv, TypeOK
<1> QED BY <1>1, InitInv, InvNext, PTL DEF Spec
=============================================================================
