-------------------------- MODULE FileReader_proofs --------------------------
(***************************************************************************)
(* Theorems about FileReader and BufferedReader for every file, every      *)
(* interleaving with the node and every value of the constants.            *)
(***************************************************************************)
EXTENDS BufferedReader, TLAPS

\* The inductive invariant: what the properties need beyond themselves is that
\* a file seen empty has not been read from, and that without I/O errors the
\* reader only leaves "reading" when the position has caught up with the last
\* Stat.
SeenEmpty == fileSize = 0 => position = 0

CaughtUp == ~Faulty /\ pc \in {"waiting", "done"} => fileSize <= position

ResultIsPosition == pc \in {"done", "failed"} => result = position

IInv == TypeOK /\ ExactlyOnce /\ SeenEmpty /\ CaughtUp /\ ResultIsPosition

-----------------------------------------------------------------------------

\* What ReadLine and sendFunc do together: skip nothing or one newline byte, or
\* add the bytes up to the new position as one piece.
Skips ==
    /\ sent' = sent
    /\ position' # position => position' = position + 1 /\ position' \in newlines

Extends ==
    /\ position < position'
    /\ sent' = Append(sent, [from |-> position, to |-> position'])

\* Either way the pieces stay a partition of what was read.
LEMMA SendExtends ==
    ASSUME TypeOK, ExactlyOnce,
           start' = start, newlines' = newlines, position' \in position .. size,
           Skips \/ Extends
    PROVE  ExactlyOnce' /\ sent' \in Seq(Piece)
<1>1. CASE Skips
  <2>1. sent' = sent
    BY <1>1 DEF Skips
  <2>2. position <= position' /\ start \in Nat /\ position \in Nat /\ position' \in Nat
    BY DEF TypeOK
  <2>3. \A i \in 1 .. Len(sent) : sent[i] \in Piece
    BY DEF TypeOK
  <2>4. \A b \in start + 1 .. position' : b \in start + 1 .. position \/ b \in newlines
    BY <1>1, <2>2 DEF Skips
  <2> QED
    BY <2>1, <2>2, <2>3, <2>4 DEF ExactlyOnce, TypeOK, Piece
<1>2. CASE Extends
  <2> DEFINE p == [from |-> position, to |-> position']
  <2>1. sent' = Append(sent, p)
    BY <1>2 DEF Extends
  <2>2. position \in Nat /\ position' \in Nat /\ start \in Nat /\ start <= position /\ position < position'
    BY <1>2 DEF TypeOK, Extends
  <2>3. p \in Piece /\ sent \in Seq(Piece)
    BY <2>2 DEF Piece, TypeOK
  <2>4. sent' \in Seq(Piece) /\ Len(sent') = Len(sent) + 1 /\ Len(sent) \in Nat
    BY <2>1, <2>3
  <2>5. \A i \in 1 .. Len(sent) : sent'[i] = sent[i] /\ sent[i] \in Piece
    BY <2>1, <2>3
  <2>6. sent'[Len(sent) + 1] = p
    BY <2>1, <2>3
  <2> HIDE DEF p
  <2>7. p.from = position /\ p.to = position'
    BY DEF p
  <2>8. \A i \in 1 .. Len(sent') : i \in 1 .. Len(sent) \/ i = Len(sent) + 1
    BY <2>4
  <2>9. \A i \in 1 .. Len(sent') :
          start <= sent'[i].from /\ sent'[i].from < sent'[i].to /\ sent'[i].to <= position'
    <3> TAKE i \in 1 .. Len(sent')
    <3>1. CASE i \in 1 .. Len(sent)
      <4>1. sent'[i].from \in Nat /\ sent'[i].to \in Nat
        BY <3>1, <2>5 DEF Piece
      <4>2. start <= sent'[i].from /\ sent'[i].from < sent'[i].to /\ sent'[i].to <= position
        BY <3>1, <2>5 DEF ExactlyOnce
      <4> QED
        BY <2>2, <4>1, <4>2
    <3>2. CASE i = Len(sent) + 1
      BY <3>2, <2>2, <2>6, <2>7
    <3> QED
      BY <2>8, <3>1, <3>2
  <2>10. \A i, j \in 1 .. Len(sent') : i < j => sent'[i].to <= sent'[j].from
    <3> TAKE i, j \in 1 .. Len(sent')
    <3> HAVE i < j
    <3>1. i \in 1 .. Len(sent)
      BY <2>4, <2>8
    <3>2. CASE j \in 1 .. Len(sent)
      BY <3>1, <3>2, <2>5 DEF ExactlyOnce
    <3>3. CASE j = Len(sent) + 1
      BY <3>1, <3>3, <2>5, <2>6, <2>7 DEF ExactlyOnce
    <3> QED
      BY <2>8, <3>2, <3>3
  <2>11. \A b \in start + 1 .. position' :
           b \in newlines \/ \E i \in 1 .. Len(sent') : sent'[i].from < b /\ b <= sent'[i].to
    <3> TAKE b \in start + 1 .. position'
    <3>1. CASE b <= position
      <4>1. b \in start + 1 .. position
        BY <3>1, <2>2
      <4>2. CASE b \notin newlines
        <5>1. PICK i \in 1 .. Len(sent) : sent[i].from < b /\ b <= sent[i].to
          BY <4>1, <4>2 DEF ExactlyOnce
        <5> QED
          BY <5>1, <2>4, <2>5
      <4> QED
        BY <4>2
    <3>2. CASE position < b
      BY <3>2, <2>2, <2>4, <2>6, <2>7
    <3> QED
      BY <3>1, <3>2, <2>2
  <2> QED
    BY <2>4, <2>9, <2>10, <2>11 DEF ExactlyOnce
<1> QED
  BY <1>1, <1>2

LEMMA InitInv == Init => IInv
<1> SUFFICES ASSUME Init PROVE IInv
  OBVIOUS
<1>1. size \in Nat /\ start \in Nat /\ start <= size
  BY ConstantsAssumption DEF Init
<1>2. sent = <<>> /\ position = start /\ fileSize = size /\ pc = "reading" /\ result = -1
  BY DEF Init, Opened
<1>3. TypeOK
  BY <1>1, <1>2 DEF Init, TypeOK
<1>4. ExactlyOnce
  BY <1>1, <1>2 DEF ExactlyOnce
<1> QED
  BY <1>1, <1>2, <1>3, <1>4 DEF IInv, SeenEmpty, CaughtUp, ResultIsPosition, Faulty

\* An append touches only what lies beyond every piece.
LEMMA AppendInv == IInv /\ NodeAppend /\ UNCHANGED reader => IInv'
<1> SUFFICES ASSUME IInv, NodeAppend, UNCHANGED reader PROVE IInv'
  OBVIOUS
<1>1. PICK n \in size + 1 .. size + MaxWrite :
        \E N \in SUBSET (size + 1 .. n) : size' = n /\ newlines' = newlines \cup N
  BY DEF NodeAppend
<1>2. PICK N \in SUBSET (size + 1 .. n) : size' = n /\ newlines' = newlines \cup N
  BY <1>1
<1>3. mishaps' = mishaps /\ watch' = watch /\ start' = start
  BY DEF NodeAppend
<1>4. position' = position /\ fileSize' = fileSize /\ pc' = pc /\ result' = result /\ sent' = sent
  BY DEF reader
<1>5. size \in Nat /\ n \in Nat /\ size < n /\ size' = n
  BY <1>1, ConstantsAssumption DEF IInv, TypeOK
<1>6. TypeOK'
  BY <1>2, <1>3, <1>4, <1>5 DEF IInv, TypeOK
<1>7. ExactlyOnce'
  BY <1>2, <1>3, <1>4 DEF IInv, ExactlyOnce
<1> QED
  BY <1>3, <1>4, <1>6, <1>7 DEF IInv, SeenEmpty, CaughtUp, ResultIsPosition, Faulty

\* Every step of ReadFile, whatever it meets in the file.
LEMMA ReaderInv == IInv /\ ReaderStep /\ UNCHANGED file => IInv'
<1> SUFFICES ASSUME IInv, ReaderStep, UNCHANGED file PROVE IInv'
  OBVIOUS
<1> USE DEF IInv
<1>0. size' = size /\ newlines' = newlines /\ mishaps' = mishaps /\ watch' = watch /\ start' = start
  BY DEF file
<1>1. size \in Nat /\ start \in Nat /\ position \in Nat /\ fileSize \in Nat
      /\ start <= position /\ position <= size /\ fileSize <= size
  BY DEF TypeOK
<1>2. ASSUME position' = position, sent' = sent PROVE ExactlyOnce'
  BY <1>0, <1>2 DEF ExactlyOnce
<1>3. CASE ReadEmpty
  <2>1. ExactlyOnce'
    BY <1>2, <1>3 DEF ReadEmpty
  <2>2. TypeOK'
    BY <1>0, <1>3 DEF ReadEmpty, Return, TypeOK
  <2> QED
    BY <1>0, <1>1, <1>3, <2>1, <2>2
       DEF ReadEmpty, Return, SeenEmpty, CaughtUp, ResultIsPosition, Faulty
<1>4. CASE ReadLine
  <2>1. PICK n \in newlines :
          LineEnd(n) /\ position' = n /\ Send(n, n = position + 1)
    BY <1>4 DEF ReadLine
  <2>2. n \in position + 1 .. size
    BY <1>1, <2>1 DEF LineEnd, TypeOK
  <2>3. Skips \/ Extends
    BY <1>1, <2>1, <2>2 DEF Send, Skips, Extends
  <2>4. ExactlyOnce' /\ sent' \in Seq(Piece)
    BY <1>0, <1>1, <2>1, <2>2, <2>3, SendExtends
  <2>5. TypeOK'
    BY <1>0, <1>1, <1>4, <2>1, <2>2, <2>4 DEF ReadLine, TypeOK
  <2> QED
    BY <1>0, <1>4, <2>4, <2>5 DEF ReadLine, SeenEmpty, CaughtUp, ResultIsPosition, Faulty
<1>5. CASE ReadTail
  <2>1. position' = size /\ Send(size, size = position) /\ AtEOF(size) /\ fileSize' = fileSize
    BY <1>5 DEF ReadTail
  <2>2. Skips \/ Extends
    BY <1>1, <2>1 DEF Send, Skips, Extends
  <2>3. ExactlyOnce' /\ sent' \in Seq(Piece)
    BY <1>0, <1>1, <2>1, <2>2, SendExtends
  <2>4. pc' \in {"waiting", "done"} /\ (pc' = "done" => result' = size)
        /\ result' \in Nat \cup {-1}
    BY <1>1, <2>1 DEF AtEOF, Return, TypeOK
  <2>5. TypeOK'
    BY <1>0, <1>1, <2>1, <2>3, <2>4 DEF TypeOK
  <2> QED
    BY <1>0, <1>1, <1>5, <2>1, <2>3, <2>4, <2>5
       DEF ReadTail, SeenEmpty, CaughtUp, ResultIsPosition, Faulty
<1>6. CASE Reopen
  <2>1. ExactlyOnce'
    BY <1>2, <1>6 DEF Reopen
  <2>2. TypeOK'
    BY <1>0, <1>1, <1>6 DEF Reopen, TypeOK
  <2> QED
    BY <1>0, <1>1, <1>6, <2>1, <2>2 DEF Reopen, SeenEmpty, CaughtUp, ResultIsPosition, Faulty
<1>7. CASE Timeout \/ WaitFails
  <2>1. ExactlyOnce'
    BY <1>2, <1>7 DEF Timeout, WaitFails
  <2>2. TypeOK'
    BY <1>0, <1>1, <1>7 DEF Timeout, WaitFails, Return, TypeOK
  <2> QED
    BY <1>0, <1>7, <2>1, <2>2
       DEF Timeout, WaitFails, Return, SeenEmpty, CaughtUp, ResultIsPosition, Faulty
<1>8. CASE ReadFails
  <2>1. PICK n \in position + 1 .. size :
          position' = n /\ Send(n, FALSE) /\ Return(n, "failed")
    BY <1>8 DEF ReadFails
  <2>2. Extends
    BY <1>1, <2>1 DEF Send, Extends
  <2>3. ExactlyOnce' /\ sent' \in Seq(Piece)
    BY <1>0, <1>1, <2>1, <2>2, SendExtends
  <2>4. TypeOK'
    BY <1>0, <1>1, <1>8, <2>1, <2>3 DEF ReadFails, Return, TypeOK
  <2> QED
    BY <1>0, <1>8, <2>1, <2>3, <2>4
       DEF ReadFails, Return, SeenEmpty, CaughtUp, ResultIsPosition, Faulty
<1>9. CASE ReadFailsAsEOF
  <2>1. ExactlyOnce'
    BY <1>2, <1>9 DEF ReadFailsAsEOF
  <2>2. pc' \in {"waiting", "done"} /\ (pc' = "done" => result' = position)
        /\ result' \in Nat \cup {-1}
    BY <1>1, <1>9 DEF ReadFailsAsEOF, AtEOF, Return, TypeOK
  <2>3. TypeOK'
    BY <1>0, <1>1, <1>9, <2>2 DEF ReadFailsAsEOF, TypeOK
  <2> QED
    BY <1>0, <1>9, <2>1, <2>2, <2>3
       DEF ReadFailsAsEOF, SeenEmpty, CaughtUp, ResultIsPosition, Faulty
<1> QED
  BY <1>3, <1>4, <1>5, <1>6, <1>7, <1>8, <1>9 DEF ReaderStep, NormalStep, FaultyStep

LEMMA StutterInv == IInv /\ UNCHANGED vars => IInv'
BY DEF IInv, vars, TypeOK, ExactlyOnce, SeenEmpty, CaughtUp, ResultIsPosition, Faulty

\* IInv holds throughout.
THEOREM Invariance == Spec => []IInv
<1>1. IInv /\ [Next]_vars => IInv'
  BY AppendInv, ReaderInv, StutterInv DEF Next
<1> QED
  BY <1>1, InitInv, PTL DEF Spec

-----------------------------------------------------------------------------

\* The variables keep their types, whatever the reader meets.
THEOREM TypeCorrect == Spec => []TypeOK
<1>1. IInv => TypeOK
  BY DEF IInv
<1> QED
  BY <1>1, Invariance, PTL

\* ReadFile neither loses nor repeats a byte of the file, also when lines are
\* torn by the node's writes and when reads fail.
THEOREM SentExactlyOnce == Spec => []ExactlyOnce
<1>1. IInv => ExactlyOnce
  BY DEF IInv
<1> QED
  BY <1>1, Invariance, PTL

\* WaitForChanges never sleeps over unread bytes unless a read has failed.
THEOREM GrowthNoticed == Spec => []NoMissedGrowth
<1>1. IInv => NoMissedGrowth
  BY DEF IInv, NoMissedGrowth, CaughtUp, TypeOK, Faulty
<1> QED
  BY <1>1, Invariance, PTL

\* ReadFile returns the position to resume from, with nothing the last Stat
\* saw left behind.
THEOREM ReturnCoversFile == Spec => []ReturnsAfterAll
<1>1. IInv => ReturnsAfterAll
  BY DEF IInv, ReturnsAfterAll, CaughtUp, ResultIsPosition, TypeOK, Faulty
<1> QED
  BY <1>1, Invariance, PTL

-----------------------------------------------------------------------------
(* Whole lines: they need the node's writes to end with a newline.         *)

EndsWhole == WholeWrites /\ ~Faulty => size = 0 \/ size \in newlines

\* A piece is added by ReadLine alone: ReadTail finds nothing after the last
\* newline.
LEMMA WholeStep == IInv /\ EndsWhole /\ WholeLines /\ [Next]_vars => (EndsWhole /\ WholeLines)'
<1> SUFFICES ASSUME IInv, EndsWhole, WholeLines, [Next]_vars PROVE (EndsWhole /\ WholeLines)'
  OBVIOUS
<1>1. size \in Nat /\ position \in Nat /\ position <= size /\ sent \in Seq(Piece)
  BY DEF IInv, TypeOK
<1>2. mishaps' = mishaps
  BY DEF Next, NodeAppend, file, vars
<1>3. (WholeWrites <=> WholeWrites') /\ (Faulty <=> Faulty')
  BY <1>2 DEF WholeWrites, Faulty
<1>4. CASE ~WholeWrites \/ Faulty
  BY <1>3, <1>4 DEF EndsWhole, WholeLines
<1>5. CASE WholeWrites /\ ~Faulty
  <2> USE <1>5
  <2>1. ASSUME sent' = sent, newlines \subseteq newlines' PROVE WholeLines'
    BY <1>3, <2>1 DEF WholeLines
  <2>2. CASE NodeAppend /\ UNCHANGED reader
    <3>1. size' = 0 \/ size' \in newlines'
      BY <2>2 DEF NodeAppend, EndsInNewline
    <3>2. newlines \subseteq newlines'
      BY <2>2 DEF NodeAppend
    <3> QED
      BY <2>1, <2>2, <3>1, <3>2 DEF reader, EndsWhole
  <2>3. CASE ReaderStep /\ UNCHANGED file
    <3>1. newlines' = newlines /\ size' = size
      BY <2>3 DEF file
    <3>2. EndsWhole'
      BY <1>3, <3>1 DEF EndsWhole
    <3>3. CASE ReadLine
      <4>1. PICK n \in newlines : position' = n /\ Send(n, n = position + 1)
        BY <3>3 DEF ReadLine
      <4> DEFINE p == [from |-> position, to |-> n]
      <4>2. sent' = sent \/ sent' = Append(sent, p)
        BY <4>1 DEF Send
      <4>3. p.to \in newlines /\ p \in Piece
        BY <1>1, <4>1 DEF Piece, IInv, TypeOK
      <4> HIDE DEF p
      <4>4. CASE sent' = Append(sent, p)
        <5>1. Len(sent') = Len(sent) + 1 /\ Len(sent) \in Nat /\ sent'[Len(sent) + 1] = p
          BY <1>1, <4>3, <4>4
        <5>2. \A i \in 1 .. Len(sent) : sent'[i] = sent[i]
          BY <1>1, <4>3, <4>4
        <5>3. \A i \in 1 .. Len(sent) : sent[i].to \in newlines
          BY DEF WholeLines
        <5>4. \A i \in 1 .. Len(sent') : i \in 1 .. Len(sent) \/ i = Len(sent) + 1
          BY <5>1
        <5> QED
          BY <3>1, <3>2, <4>3, <5>1, <5>2, <5>3, <5>4 DEF WholeLines
      <4> QED
        BY <2>1, <3>1, <3>2, <4>2, <4>4
    <3>4. CASE ReadTail
      <4>1. size = position
        BY <1>1, <3>4 DEF ReadTail, EndsWhole
      <4> QED
        BY <2>1, <3>1, <3>2, <3>4, <4>1 DEF ReadTail, Send
    <3>5. CASE ReadEmpty \/ Reopen \/ Timeout
      BY <2>1, <3>1, <3>2, <3>5 DEF ReadEmpty, Reopen, Timeout
    <3> QED
      BY <2>3, <3>3, <3>4, <3>5
         DEF ReaderStep, NormalStep, FaultyStep, ReadFails, ReadFailsAsEOF, WaitFails
  <2>4. CASE UNCHANGED vars
    BY <1>3, <2>4 DEF vars, EndsWhole, WholeLines
  <2> QED
    BY <2>2, <2>3, <2>4 DEF Next
<1> QED
  BY <1>4, <1>5

\* When the node writes whole lines and no read fails, every string given to
\* sendFunc is a whole line.
THEOREM LinesAreWhole == Spec => []WholeLines
<1>1. Init => EndsWhole /\ WholeLines
  BY DEF Init, EndsInNewline, EndsWhole, Opened, WholeLines
<1> QED
  BY <1>1, WholeStep, Invariance, PTL DEF Spec

-----------------------------------------------------------------------------
(* BufferedReader implements FileReader.                                   *)

\* The inductive invariant: while ReadFile reads, the bytes between its position
\* and the offset of the file are those put aside and those in the buffer, in
\* this order, and no newline is among those put aside.
Adjacent ==
    /\ position + Length(fragments) + Length(buffer) = offset
    /\ Length(fragments) # 0 => fragments.from = position
    /\ Length(buffer) # 0 => buffer.to = offset
    /\ \A n \in newlines : n <= position \/ n > position + Length(fragments)

CursorInv == BufferedTypeOK /\ (pc = "reading" => Adjacent)

\* Bytes in memory that are put behind others keep their place in the file.
LEMMA JoinAdds ==
    ASSUME NEW a \in Piece, NEW b \in Piece,
           Length(a) \in Nat, Length(b) \in Nat
    PROVE  /\ Length(a) # 0 /\ Length(b) # 0 /\ a.to = b.from =>
                Length(Join(a, b)) = Length(a) + Length(b)
           /\ Length(a) # 0 => Join(a, b).from = a.from
           /\ Length(a) = 0 => Join(a, b) = b
           /\ Length(b) # 0 => Join(a, b).to = b.to
           /\ Length(a) # 0 /\ Length(b) = 0 => Join(a, b) = a
           /\ Length(a) # 0 /\ Length(b) # 0 => Join(a, b) = [from |-> a.from, to |-> b.to]
           /\ Join(a, b) \in Piece
BY DEF Join, Length, Piece

LEMMA CursorInit == BufferedInit => CursorInv
<1> SUFFICES ASSUME BufferedInit PROVE CursorInv
  OBVIOUS
<1>1. IInv /\ BufferedOpened(start) /\ Init
  BY InitInv DEF BufferedInit
<1>2. start \in 0 .. size /\ size \in Nat /\ newlines \subseteq 1 .. size
  BY <1>1 DEF IInv, TypeOK
<1>3. offset = start /\ position = start /\ buffer = NoBytes /\ fragments = NoBytes
  BY <1>1 DEF BufferedOpened, Opened
<1>4. NoBytes \in Piece /\ Length(NoBytes) = 0
  BY DEF NoBytes, Piece, Length
<1>5. Adjacent
  BY <1>2, <1>3, <1>4 DEF Adjacent
<1> QED
  BY <1>1, <1>2, <1>3, <1>4, <1>5, BufferAssumption DEF CursorInv, BufferedTypeOK, IInv

\* The node appends behind every byte read.
LEMMA CursorAppend ==
    CursorInv /\ IInv' /\ NodeAppend /\ UNCHANGED <<reader, cursor>> => CursorInv'
<1> SUFFICES ASSUME CursorInv, IInv', NodeAppend, UNCHANGED <<reader, cursor>>
             PROVE  CursorInv'
  OBVIOUS
<1>1. PICK n \in size + 1 .. size + MaxWrite :
        \E N \in SUBSET (size + 1 .. n) : size' = n /\ newlines' = newlines \cup N
  BY DEF NodeAppend
<1>2. PICK N \in SUBSET (size + 1 .. n) : size' = n /\ newlines' = newlines \cup N
  BY <1>1
<1>3. size \in Nat /\ n \in Nat /\ size < n /\ offset \in 0 .. size /\ position \in Nat
  BY <1>1, ConstantsAssumption DEF CursorInv, BufferedTypeOK, TypeOK
<1>4. pc' = pc /\ position' = position
      /\ offset' = offset /\ buffer' = buffer /\ fragments' = fragments
  BY DEF reader, cursor
<1>5. BufferedTypeOK'
  BY <1>2, <1>3, <1>4 DEF CursorInv, BufferedTypeOK, IInv
<1>6. ASSUME pc = "reading" PROVE Adjacent'
  <2>1. Adjacent
    BY <1>6 DEF CursorInv
  <2>2. Length(buffer) \in Nat /\ Length(fragments) \in Nat
    BY DEF CursorInv, BufferedTypeOK
  <2>3. \A m \in newlines' : m <= position \/ m > position + Length(fragments)
    <3> TAKE m \in newlines'
    <3>1. CASE m \in newlines
      BY <2>1, <3>1 DEF Adjacent
    <3>2. CASE m \in size + 1 .. n
      BY <1>3, <2>1, <2>2, <3>2 DEF Adjacent
    <3> QED
      BY <1>2, <3>1, <3>2
  <2> QED
    BY <1>4, <2>1, <2>3 DEF Adjacent
<1> QED
  BY <1>4, <1>5, <1>6 DEF CursorInv

\* Where the pieces in memory lie.
LEMMA Layout ==
    ASSUME CursorInv, pc = "reading"
    PROVE  /\ Adjacent /\ buffer \in Piece /\ fragments \in Piece
           /\ position \in Nat /\ offset \in Nat /\ size \in Nat /\ offset <= size
           /\ Length(buffer) \in Nat /\ Length(fragments) \in Nat
           /\ Length(fragments) = 0 => fragments.to = fragments.from
           /\ Length(fragments) # 0 => fragments.to = position + Length(fragments)
           /\ Length(buffer) # 0 => buffer.from = position + Length(fragments)
<1>1. Adjacent /\ BufferedTypeOK
  BY DEF CursorInv
<1>2. buffer \in Piece /\ fragments \in Piece /\ Length(buffer) \in 0 .. BufSize
      /\ Length(fragments) \in Nat /\ offset \in 0 .. size /\ BufSize \in Nat
      /\ size \in Nat /\ position \in Nat
  BY <1>1, BufferAssumption DEF BufferedTypeOK, TypeOK
<1>3. fragments.from \in Nat /\ fragments.to \in Nat /\ buffer.from \in Nat /\ buffer.to \in Nat
  BY <1>2 DEF Piece
<1>4. offset \in Nat /\ offset <= size /\ Length(buffer) \in Nat
  BY <1>2
<1>5. Length(fragments) = fragments.to - fragments.from /\ Length(buffer) = buffer.to - buffer.from
  BY DEF Length
<1>6. Length(fragments) = 0 => fragments.to = fragments.from
  BY <1>3, <1>5
<1>7. Length(fragments) # 0 => fragments.to = position + Length(fragments)
  BY <1>1, <1>2, <1>3, <1>5 DEF Adjacent
<1>8. Length(buffer) # 0 => buffer.from = position + Length(fragments)
  BY <1>1, <1>2, <1>3, <1>4, <1>5 DEF Adjacent
<1> QED
  BY <1>1, <1>2, <1>4, <1>6, <1>7, <1>8

\* Fill and BufferFull move bytes about in memory and are not seen.
LEMMA BytesMove ==
    CursorInv /\ IInv /\ (Fill \/ BufferFull) /\ UNCHANGED file =>
        UNCHANGED vars /\ CursorInv'
<1> SUFFICES ASSUME CursorInv, IInv, Fill \/ BufferFull, UNCHANGED file
             PROVE  UNCHANGED vars /\ CursorInv'
  OBVIOUS
<1>1. UNCHANGED vars
  BY DEF Fill, BufferFull, reader, file, vars
<1>2. pc = "reading" /\ Ends = {}
  BY DEF Fill, BufferFull, Searching
<1>3. position' = position /\ pc' = pc /\ size' = size /\ newlines' = newlines /\ TypeOK'
  BY <1>1 DEF vars, IInv, TypeOK
<1>4. /\ Adjacent /\ buffer \in Piece /\ fragments \in Piece
      /\ position \in Nat /\ offset \in Nat /\ size \in Nat /\ offset <= size
      /\ Length(buffer) \in Nat /\ Length(fragments) \in Nat
      /\ Length(fragments) # 0 => fragments.to = position + Length(fragments)
      /\ Length(buffer) # 0 => buffer.from = position + Length(fragments)
  BY <1>2, Layout
<1>5. BufSize \in Nat \ {0} /\ Length(buffer) \in 0 .. BufSize
  BY BufferAssumption DEF CursorInv, BufferedTypeOK
<1>6. CASE Fill
  <2>1. PICK k \in 1 .. BufSize - Length(buffer) :
          /\ offset + k <= size /\ offset' = offset + k
          /\ buffer' = Join(buffer, [from |-> offset, to |-> offset + k])
    BY <1>6 DEF Fill
  <2>2. fragments' = fragments
    BY <1>6 DEF Fill
  <2> DEFINE more == [from |-> offset, to |-> offset + k]
  <2>3. k \in Nat /\ k # 0 /\ Length(buffer) + k <= BufSize
    BY <1>4, <1>5, <2>1
  <2>4. more \in Piece /\ Length(more) = k /\ more.from = offset /\ more.to = offset + k
    BY <1>4, <2>3 DEF Piece, Length
  <2>5. buffer' = Join(buffer, more)
    BY <2>1
  <2> HIDE DEF more
  <2>6. Length(buffer') = Length(buffer) + k /\ buffer' \in Piece /\ buffer'.to = offset + k
    <3>1. CASE Length(buffer) = 0
      BY <1>4, <2>3, <2>4, <2>5, <3>1, JoinAdds
    <3>2. CASE Length(buffer) # 0
      <4>1. buffer.to = more.from
        BY <1>4, <2>4, <3>2 DEF Adjacent
      <4> QED
        BY <1>4, <2>3, <2>4, <2>5, <3>2, <4>1, JoinAdds
    <3> QED
      BY <3>1, <3>2
  <2>7. Length(buffer') \in 0 .. BufSize /\ offset' \in 0 .. size'
    BY <1>3, <1>4, <1>5, <2>1, <2>3, <2>6
  <2>8. BufferedTypeOK'
    BY <1>3, <1>4, <2>2, <2>6, <2>7 DEF BufferedTypeOK
  <2>9. Adjacent'
    BY <1>3, <1>4, <2>1, <2>2, <2>3, <2>6 DEF Adjacent
  <2> QED
    BY <1>1, <2>8, <2>9 DEF CursorInv
<1>7. CASE BufferFull
  <2>1. fragments' = Join(fragments, buffer) /\ buffer' = NoBytes /\ offset' = offset
    BY <1>7 DEF BufferFull
  <2>2. Length(buffer) # 0
    BY <1>5, <1>7 DEF BufferFull
  <2>3. /\ fragments' \in Piece /\ Length(fragments') = Length(fragments) + Length(buffer)
        /\ fragments'.from = position
    <3>1. CASE Length(fragments) = 0
      BY <1>4, <2>1, <2>2, <3>1, JoinAdds
    <3>2. CASE Length(fragments) # 0
      <4>1. fragments.to = buffer.from /\ fragments.from = position
        BY <1>4, <2>2, <3>2 DEF Adjacent
      <4> QED
        BY <1>4, <2>1, <2>2, <3>2, <4>1, JoinAdds
    <3> QED
      BY <3>1, <3>2
  <2>4. NoBytes \in Piece /\ Length(NoBytes) = 0
    BY DEF NoBytes, Piece, Length
  <2>5. \A n \in newlines : n <= position \/ n > position + Length(fragments')
    <3> TAKE n \in newlines
    <3>1. ~(buffer.from < n /\ n <= buffer.to) /\ n \in Nat
      BY <1>2, <1>4 DEF Ends, CursorInv, BufferedTypeOK, TypeOK
    <3>2. n <= position \/ n > position + Length(fragments)
      BY <1>4 DEF Adjacent
    <3>3. buffer.to = offset /\ offset = position + Length(fragments')
      BY <1>4, <2>2, <2>3 DEF Adjacent
    <3> QED
      BY <1>4, <2>2, <3>1, <3>2, <3>3
  <2>6. BufferedTypeOK'
    BY <1>3, <1>4, <1>5, <2>1, <2>3, <2>4 DEF BufferedTypeOK
  <2>7. Adjacent'
    BY <1>3, <1>4, <2>1, <2>3, <2>4, <2>5 DEF Adjacent
  <2> QED
    BY <1>1, <2>6, <2>7 DEF CursorInv
<1> QED
  BY <1>6, <1>7

\* A newline in the buffer: the line is FileReader's, the position its end.
LEMMA LineIsRead ==
    CursorInv /\ IInv /\ LineRead /\ UNCHANGED file =>
        ReadLine /\ (IInv' => CursorInv')
<1> SUFFICES ASSUME CursorInv, IInv, LineRead, UNCHANGED file
             PROVE  ReadLine /\ (IInv' => CursorInv')
  OBVIOUS
<1> DEFINE line(n) == Join(fragments, [from |-> buffer.from, to |-> n])
<1>1. /\ pc = "reading" /\ fileSize # 0 /\ fragments' = NoBytes
      /\ offset' = offset /\ fileSize' = fileSize
  BY DEF LineRead
<1>2. PICK n \in Ends :
        /\ \A m \in Ends : n <= m
        /\ buffer' = [buffer EXCEPT !.from = n]
        /\ position' = GetPosition(offset, buffer')
        /\ IF position' = position
           THEN AtEOF(position') /\ UNCHANGED sent
           ELSE /\ sent' = IF Length(line(n)) = 1 THEN sent ELSE Append(sent, line(n))
                /\ UNCHANGED <<pc, result>>
  BY DEF LineRead
<1>3. /\ Adjacent /\ buffer \in Piece /\ fragments \in Piece
      /\ position \in Nat /\ offset \in Nat /\ size \in Nat /\ offset <= size
      /\ Length(buffer) \in Nat /\ Length(fragments) \in Nat
      /\ Length(buffer) # 0 => buffer.from = position + Length(fragments)
  BY <1>1, Layout
<1>4. n \in newlines /\ n \in Nat /\ buffer.from < n /\ n <= buffer.to
      /\ buffer.from \in Nat /\ buffer.to \in Nat
  BY <1>2, <1>3 DEF Ends, Piece, IInv, TypeOK
<1>5. Length(buffer) # 0 /\ buffer.from = position + Length(fragments) /\ buffer.to = offset
  BY <1>3, <1>4 DEF Length, Adjacent
<1>6. buffer'.from = n /\ buffer'.to = offset /\ buffer' \in Piece
  BY <1>2, <1>3, <1>4, <1>5 DEF Piece
<1>7. Length(buffer') = offset - n /\ position' = n /\ n > position
  BY <1>2, <1>3, <1>4, <1>5, <1>6 DEF Length, GetPosition
<1>8. LineEnd(n)
  <2> SUFFICES ASSUME NEW m \in newlines, m > position PROVE n <= m
    BY <1>7 DEF LineEnd
  <2>1. m \in Nat /\ m > buffer.from
    BY <1>3, <1>5 DEF Adjacent, IInv, TypeOK
  <2>2. CASE m <= buffer.to
    BY <1>2, <2>1, <2>2 DEF Ends
  <2>3. CASE m > buffer.to
    BY <1>4, <2>1, <2>3
  <2> QED
    BY <1>4, <2>1, <2>2, <2>3
<1>9. line(n) = [from |-> position, to |-> n]
  <2> DEFINE rest == [from |-> buffer.from, to |-> n]
  <2>1. rest \in Piece /\ Length(rest) \in Nat /\ Length(rest) # 0 /\ rest.to = n
    BY <1>4 DEF Piece, Length
  <2>2. CASE Length(fragments) = 0
    <3>1. line(n) = rest
      <4> HIDE DEF rest
      <4> QED
        BY <1>3, <2>1, <2>2, JoinAdds DEF rest
    <3>2. buffer.from = position
      BY <1>3, <1>5, <2>2
    <3> QED
      BY <3>1, <3>2
  <2>3. CASE Length(fragments) # 0
    <3>1. line(n) = [from |-> fragments.from, to |-> n]
      BY <2>1, <2>3 DEF Join
    <3>2. fragments.from = position
      BY <1>3, <2>3 DEF Adjacent
    <3> QED
      BY <3>1, <3>2
  <2> QED
    BY <2>2, <2>3
<1>10. Length(line(n)) = n - position
  BY <1>9 DEF Length
<1>11. Send(n, n = position + 1) /\ pc' = pc /\ result' = result
  <2> HIDE DEF line
  <2>1. position' # position
    BY <1>3, <1>4, <1>7
  <2>2. (Length(line(n)) = 1) <=> (n = position + 1)
    BY <1>3, <1>4, <1>10
  <2>3. /\ sent' = IF Length(line(n)) = 1 THEN sent ELSE Append(sent, line(n))
        /\ UNCHANGED <<pc, result>>
    BY <1>2, <2>1
  <2> QED
    BY <1>9, <2>2, <2>3 DEF Send
<1>12. ReadLine
  BY <1>1, <1>4, <1>7, <1>8, <1>11 DEF ReadLine
<1>13. ASSUME IInv' PROVE CursorInv'
  <2>1. NoBytes \in Piece /\ Length(NoBytes) = 0
    BY DEF NoBytes, Piece, Length
  <2>2. size' = size /\ newlines' = newlines
    BY DEF file
  <2>3. Length(buffer') \in 0 .. BufSize
    <3>1. Length(buffer) \in 0 .. BufSize /\ BufSize \in Nat
      BY BufferAssumption DEF CursorInv, BufferedTypeOK
    <3>2. Length(buffer) = offset - buffer.from
      BY <1>5 DEF Length
    <3> QED
      BY <1>3, <1>4, <1>5, <1>7, <3>1, <3>2
  <2>4. BufferedTypeOK'
    BY <1>1, <1>3, <1>6, <1>13, <2>1, <2>2, <2>3 DEF BufferedTypeOK, IInv
  <2>5. Adjacent'
    <3>1. \A m \in newlines' : m \in Nat
      BY <2>2 DEF IInv, TypeOK
    <3>2. position' + Length(fragments') + Length(buffer') = offset'
      BY <1>1, <1>3, <1>4, <1>7, <2>1
    <3>3. Length(fragments') = 0 /\ buffer'.to = offset'
      BY <1>1, <1>6, <2>1
    <3>4. \A m \in newlines' : m <= position' \/ m > position' + Length(fragments')
      BY <1>4, <1>7, <3>1, <3>3
    <3> QED
      BY <3>2, <3>3, <3>4 DEF Adjacent
  <2> QED
    BY <2>4, <2>5 DEF CursorInv
<1> QED
  BY <1>12, <1>13

\* No byte more: what is in memory is FileReader's tail, and the position the
\* offset of the file.
LEMMA TailIsRead ==
    CursorInv /\ IInv /\ (EndOfFile \/ ReadError) /\ UNCHANGED file =>
        ReaderStep /\ (IInv' => CursorInv')
<1> SUFFICES ASSUME CursorInv, IInv, EndOfFile \/ ReadError, UNCHANGED file
             PROVE  ReaderStep /\ (IInv' => CursorInv')
  OBVIOUS
<1> DEFINE line == Join(fragments, buffer)
<1>1. /\ pc = "reading" /\ fileSize # 0 /\ Ends = {}
      /\ buffer' = NoBytes /\ fragments' = NoBytes
      /\ position' = GetPosition(offset, buffer')
      /\ offset' = offset /\ fileSize' = fileSize
  BY DEF EndOfFile, ReadError, ReadEnds, Searching
<1>2. /\ Adjacent /\ buffer \in Piece /\ fragments \in Piece
      /\ position \in Nat /\ offset \in Nat /\ size \in Nat /\ offset <= size
      /\ Length(buffer) \in Nat /\ Length(fragments) \in Nat
      /\ Length(fragments) # 0 => fragments.to = position + Length(fragments)
      /\ Length(buffer) # 0 => buffer.from = position + Length(fragments)
  BY <1>1, Layout
<1>3. NoBytes \in Piece /\ Length(NoBytes) = 0
  BY DEF NoBytes, Piece, Length
<1>4. position' = offset /\ position <= offset
  BY <1>1, <1>2, <1>3 DEF GetPosition, Adjacent
<1>5. \A m \in newlines : m <= position \/ m > offset
  <2> TAKE m \in newlines
  <2>1. m \in Nat /\ ~(buffer.from < m /\ m <= buffer.to)
    BY <1>1 DEF Ends, IInv, TypeOK
  <2>2. m <= position \/ m > position + Length(fragments)
    BY <1>2 DEF Adjacent
  <2>3. CASE Length(buffer) = 0
    BY <1>2, <2>1, <2>2, <2>3 DEF Adjacent
  <2>4. CASE Length(buffer) # 0
    BY <1>2, <2>1, <2>2, <2>4 DEF Adjacent
  <2> QED
    BY <2>3, <2>4
<1>6. ASSUME offset # position PROVE line = [from |-> position, to |-> offset]
  <2>1. CASE Length(fragments) = 0
    <3>1. Length(buffer) # 0
      BY <1>2, <1>6, <2>1 DEF Adjacent
    <3>2. line = buffer
      BY <2>1 DEF Join
    <3>3. buffer.from = position /\ buffer.to = offset
      BY <1>2, <2>1, <3>1 DEF Adjacent
    <3> QED
      BY <1>2, <3>2, <3>3 DEF Piece
  <2>2. CASE Length(fragments) # 0 /\ Length(buffer) = 0
    <3>1. line = fragments
      BY <2>2 DEF Join
    <3>2. fragments.from = position /\ fragments.to = offset
      BY <1>2, <2>2 DEF Adjacent
    <3> QED
      BY <1>2, <3>1, <3>2 DEF Piece
  <2>3. CASE Length(fragments) # 0 /\ Length(buffer) # 0
    BY <1>2, <2>3 DEF Join, Adjacent
  <2> QED
    BY <2>1, <2>2, <2>3
<1>7. ASSUME IInv' PROVE CursorInv'
  <2>1. size' = size /\ newlines' = newlines
    BY DEF file
  <2>2. BufferedTypeOK'
    BY <1>1, <1>2, <1>3, <1>7, <2>1, BufferAssumption DEF BufferedTypeOK, IInv
  <2>3. Adjacent'
    <3>1. \A m \in newlines' : m \in Nat
      BY <2>1 DEF IInv, TypeOK
    <3> QED
      BY <1>1, <1>2, <1>3, <1>4, <3>1 DEF Adjacent
  <2> QED
    BY <2>2, <2>3 DEF CursorInv
<1> HIDE DEF line
<1>8. CASE EndOfFile
  <2>1. offset = size
    BY <1>2, <1>8 DEF EndOfFile
  <2>2. \A m \in newlines : m <= position
    BY <1>5, <2>1 DEF IInv, TypeOK
  <2>3. /\ IF position' = position THEN AtEOF(position') /\ UNCHANGED sent
           ELSE sent' = Append(sent, line) /\ AtEOF(position')
    BY <1>8 DEF EndOfFile, ReadEnds, line
  <2>4. AtEOF(size)
    BY <1>4, <2>1, <2>3
  <2>5. Send(size, size = position)
    BY <1>4, <1>6, <2>1, <2>3 DEF Send
  <2>6. ReadTail
    BY <1>1, <1>4, <2>1, <2>2, <2>4, <2>5 DEF ReadTail
  <2> QED
    BY <1>7, <2>6 DEF ReaderStep, NormalStep
<1>9. CASE ReadError
  <2>1. /\ IF position' = position THEN AtEOF(position') /\ UNCHANGED sent
           ELSE sent' = Append(sent, line) /\ Return(position', "failed")
    BY <1>9 DEF ReadError, ReadEnds, line
  <2>2. Faulty
    BY <1>9 DEF ReadError
  <2>3. CASE position' = position
    <3>1. ReadFailsAsEOF
      BY <1>1, <2>1, <2>2, <2>3 DEF ReadFailsAsEOF
    <3> QED
      BY <1>7, <3>1 DEF ReaderStep, FaultyStep
  <2>4. CASE position' # position
    <3>1. offset \in position + 1 .. size
      BY <1>2, <1>4, <2>4
    <3>2. sent' = Append(sent, [from |-> position, to |-> offset])
      BY <1>4, <1>6, <2>1, <2>4
    <3>3. Return(offset, "failed")
      BY <1>4, <2>1, <2>4
    <3>4. Send(offset, FALSE)
      BY <3>2 DEF Send
    <3>5. ReadFails
      BY <1>1, <1>4, <1>5, <2>2, <3>1, <3>3, <3>4 DEF ReadFails
    <3> QED
      BY <1>7, <3>5 DEF ReaderStep, FaultyStep
  <2> QED
    BY <2>3, <2>4
<1> QED
  BY <1>8, <1>9

\* The steps that leave the buffer alone, or begin a new one.
LEMMA OtherSteps ==
    CursorInv /\ IInv /\ UNCHANGED file
    /\ (BufferedReopen \/ ((ReadEmpty \/ Timeout \/ WaitFails) /\ UNCHANGED cursor)) =>
        ReaderStep /\ (IInv' => CursorInv')
<1> SUFFICES ASSUME CursorInv, IInv, UNCHANGED file,
                    BufferedReopen \/ ((ReadEmpty \/ Timeout \/ WaitFails) /\ UNCHANGED cursor)
             PROVE  ReaderStep /\ (IInv' => CursorInv')
  OBVIOUS
<1>1. ReaderStep
  BY DEF BufferedReopen, ReaderStep, NormalStep, FaultyStep
<1>2. size' = size /\ newlines' = newlines /\ size \in Nat
  BY DEF file, IInv, TypeOK
<1>3. ASSUME IInv' PROVE CursorInv'
  <2>1. CASE BufferedReopen
    <3>1. /\ offset' = position /\ position' = position
          /\ buffer' = NoBytes /\ fragments' = NoBytes
      BY <2>1 DEF BufferedReopen, Reopen
    <3>2. NoBytes \in Piece /\ Length(NoBytes) = 0
      BY DEF NoBytes, Piece, Length
    <3>3. position \in 0 .. size /\ \A m \in newlines : m \in Nat
      BY DEF IInv, TypeOK
    <3>4. BufferedTypeOK'
      BY <1>2, <1>3, <3>1, <3>2, <3>3, BufferAssumption DEF BufferedTypeOK, IInv
    <3>5. Adjacent'
      BY <1>2, <3>1, <3>2, <3>3 DEF Adjacent
    <3> QED
      BY <3>4, <3>5 DEF CursorInv
  <2>2. CASE (ReadEmpty \/ Timeout \/ WaitFails) /\ UNCHANGED cursor
    <3>1. pc' # "reading"
      BY <2>2 DEF ReadEmpty, Timeout, WaitFails, Return
    <3>2. BufferedTypeOK'
      BY <1>2, <1>3, <2>2 DEF BufferedTypeOK, CursorInv, cursor, IInv
    <3> QED
      BY <3>1, <3>2 DEF CursorInv
  <2> QED
    BY <2>1, <2>2
<1> QED
  BY <1>1, <1>3

\* Every step of BufferedReader is a step of FileReader or is not seen there.
LEMMA BufferedStepMaps ==
    CursorInv /\ IInv /\ [BufferedNext]_allVars => [Next]_vars /\ (CursorInv /\ IInv)'
<1> SUFFICES ASSUME CursorInv, IInv, [BufferedNext]_allVars
             PROVE  [Next]_vars /\ CursorInv' /\ IInv'
  OBVIOUS
<1>1. [Next]_vars => IInv'
  BY AppendInv, ReaderInv, StutterInv DEF Next
<1>2. CASE NodeAppend /\ UNCHANGED <<reader, cursor>>
  <2>1. Next
    BY <1>2 DEF Next
  <2> QED
    BY <1>1, <1>2, <2>1, CursorAppend
<1>3. CASE (Fill \/ BufferFull) /\ UNCHANGED file
  BY <1>1, <1>3, BytesMove
<1>4. CASE LineRead /\ UNCHANGED file
  <2>1. Next
    BY <1>4, LineIsRead DEF Next, ReaderStep, NormalStep
  <2> QED
    BY <1>1, <1>4, <2>1, LineIsRead
<1>5. CASE (EndOfFile \/ ReadError) /\ UNCHANGED file
  <2>1. Next
    BY <1>5, TailIsRead DEF Next
  <2> QED
    BY <1>1, <1>5, <2>1, TailIsRead
<1>6. CASE /\ BufferedReopen \/ ((ReadEmpty \/ Timeout \/ WaitFails) /\ UNCHANGED cursor)
           /\ UNCHANGED file
  <2>1. Next
    BY <1>6, OtherSteps DEF Next
  <2> QED
    BY <1>1, <1>6, <2>1, OtherSteps
<1>7. CASE UNCHANGED allVars
  <2>1. UNCHANGED vars /\ UNCHANGED cursor
    BY <1>7 DEF allVars
  <2>2. IInv'
    BY <1>1, <2>1
  <2>3. CursorInv'
    BY <2>1, <2>2 DEF CursorInv, BufferedTypeOK, Adjacent, cursor, vars, IInv
  <2> QED
    BY <2>1, <2>2, <2>3
<1>8. \/ NodeAppend /\ UNCHANGED <<reader, cursor>>
      \/ BufferedStep /\ UNCHANGED file
      \/ UNCHANGED allVars
  BY DEF BufferedNext
<1>9. BufferedStep => \/ Fill \/ BufferFull \/ LineRead \/ EndOfFile \/ ReadError
                      \/ BufferedReopen
                      \/ (ReadEmpty \/ Timeout \/ WaitFails) /\ UNCHANGED cursor
  BY Zenon DEF BufferedStep
<1> QED
  BY <1>2, <1>3, <1>4, <1>5, <1>6, <1>7, <1>8, <1>9, Zenon

\* The buffered reader behaves like FileReader: so every theorem about Spec
\* holds of it.
THEOREM BufferedImplements == BufferedSpec => ImplementsFileReader
<1>1. BufferedInit => Init /\ CursorInv /\ IInv
  BY CursorInit, InitInv DEF BufferedInit
<1> QED
  BY <1>1, BufferedStepMaps, PTL DEF BufferedSpec, ImplementsFileReader, Spec

\* So with its buffer, whatever that holds, ReadFile loses and repeats no byte.
THEOREM BufferedExactlyOnce == BufferedSpec => []ExactlyOnce
BY BufferedImplements, SentExactlyOnce, PTL DEF ImplementsFileReader

\* The variables keep their types, the buffer its bound, and the file is never
\* read beyond its end.
THEOREM BufferedTypeCorrect == BufferedSpec => []BufferedTypeOK
<1>1. BufferedInit => CursorInv /\ IInv
  BY CursorInit, InitInv DEF BufferedInit
<1>2. CursorInv => BufferedTypeOK
  BY DEF CursorInv
<1> QED
  BY <1>1, <1>2, BufferedStepMaps, PTL DEF BufferedSpec

=============================================================================
