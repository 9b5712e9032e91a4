--------------------------- MODULE LogsList_proofs ---------------------------
(***************************************************************************)
(* What file_list.txt is worth.  RemembersRecorded fails (run logs_resume), *)
(* and needs two restarts to: the first process writes the list from its   *)
(* end on, the second over its beginning, and only the third reads what    *)
(* was lost.  Up to the first restart it holds, under every crash and      *)
(* every failing system call.                                              *)
(***************************************************************************)
EXTENDS LogsReader_proofs

\* While the first process runs, the list has the record of every position.
HasRecord(f) ==
    \E i \in LineStarts :
      list[i] = [name |-> f, position |-> recorded[f], left |-> Width(recorded[f])]

WholeList ==
    restarts = 0 =>
      /\ listPos = Len(list)
      /\ list # <<>> => list[Len(list)].left = 1
      /\ \A f \in File : recorded[f] > 0 => HasRecord(f)

ListIInv == WholeList /\ RemembersRecorded

-----------------------------------------------------------------------------

LEMMA AppendsAtEnd ==
    ASSUME NEW S, NEW bytes \in Seq(S), NEW new \in Seq(S)
    PROVE  LET all == Overwrite(bytes, Len(bytes), new)
           IN  /\ Len(all) = Len(bytes) + Len(new)
               /\ DOMAIN all = 1 .. Len(bytes) + Len(new)
               /\ \A i \in 1 .. Len(bytes) : all[i] = bytes[i]
               /\ \A i \in 1 .. Len(new) : all[Len(bytes) + i] = new[i]
<1> DEFINE m == Len(bytes)
           n == Len(new)
           before == SubSeq(bytes, 1, m)
           after == SubSeq(bytes, m + n + 1, m)
<1>1. m \in Nat /\ n \in Nat /\ \A i \in 1 .. m : bytes[i] \in S
  BY LenProperties, ElementOfSeq
<1>2. before \in Seq(S) /\ Len(before) = m /\ \A i \in 1 .. m : before[i] = bytes[i]
  BY <1>1, SubSeqProperties
<1>3. after \in Seq(S) /\ Len(after) = 0
  BY <1>1, SubSeqProperties
<1> HIDE DEF before, after
<1>4. /\ before \o new \in Seq(S) /\ Len(before \o new) = m + n
      /\ \A i \in 1 .. m : (before \o new)[i] = bytes[i]
      /\ \A i \in 1 .. n : (before \o new)[m + i] = new[i]
  <2>1. /\ before \o new \in Seq(S) /\ Len(before \o new) = m + n
        /\ \A i \in 1 .. m + n :
             (before \o new)[i] = IF i <= m THEN before[i] ELSE new[i - m]
    <3> HIDE DEF m, n
    <3>1. before \in Seq(S) /\ new \in Seq(S) /\ Len(before) = m /\ Len(new) = n
      BY <1>2 DEF n
    <3> QED
      BY <3>1, ConcatProperties
  <2>2. \A i \in 1 .. n : m + i \in 1 .. m + n /\ ~(m + i <= m) /\ (m + i) - m = i
    BY <1>1
  <2>3. \A i \in 1 .. m : i \in 1 .. m + n /\ i <= m
    BY <1>1
  <2> QED
    BY <1>2, <2>1, <2>2, <2>3
<1>5. after = <<>>
  BY <1>3, EmptySeq
<1>6. Overwrite(bytes, m, new) = (before \o new) \o after
  BY DEF Overwrite, before, after
<1>7. Overwrite(bytes, m, new) = before \o new
  BY <1>4, <1>5, <1>6, ConcatEmptySeq
<1>8. DOMAIN (before \o new) = 1 .. m + n
  BY <1>4, LenProperties
<1> QED
  BY <1>4, <1>7, <1>8

LEMMA WidthBounds == \A p \in Nat : Width(p) \in Nat /\ Width(p) > 1
<1> TAKE p \in Nat
<1>1. Width(p) \in Nat /\ Digits(p) \in Nat /\ PathLen \in Nat \ {0}
  BY WidthType, DigitsType, LogsAssumption
<1> QED
  BY <1>1 DEF Width

LEMMA InitList == Init => ListIInv
<1> SUFFICES ASSUME Init PROVE ListIInv
  OBVIOUS
<1>1. list = <<>> /\ listPos = 0 /\ \A f \in File : recorded[f] = 0
  BY DEF Init
<1>2. Len(<<>>) = 0
  BY EmptySeq
<1> QED
  BY <1>1, <1>2 DEF ListIInv, WholeList, RemembersRecorded

\* Steps that record nothing.
LEMMA NothingRecorded ==
    ASSUME ListIInv, UNCHANGED <<list, listPos, recorded, restarts>>,
           pc' \in {"select", "listed", "reading"} => pc \in {"select", "listed", "reading"},
           \A f \in DOMAIN fileMap : f \in DOMAIN fileMap' /\ fileMap'[f] = fileMap[f]
    PROVE  ListIInv'
<1>1. WholeList'
  BY DEF ListIInv, WholeList, HasRecord, LineStarts
<1>2. RemembersRecorded'
  BY DEF ListIInv, RemembersRecorded
<1> QED
  BY <1>1, <1>2 DEF ListIInv

LEMMA RecordList ==
    ASSUME Types, ListIInv, Record
    PROVE  ListIInv'
<1>1. /\ pc = "reading" /\ pc' = "select" /\ UNCHANGED restarts
      /\ list' = Overwrite(list, listPos, RecordBytes(cur, result))
      /\ listPos' = listPos + Width(result)
      /\ fileMap' = [fileMap EXCEPT ![cur] = result]
      /\ recorded' = [recorded EXCEPT ![cur] = result]
  BY DEF Record, PositionReturned
<1>2. cur \in DOMAIN fileMap /\ cur \in File
  BY <1>1, KnownFiles DEF Types, CurOK
<1>3. result \in Nat
  <2>1. result = position /\ position \in 0 .. size[cur] /\ size[cur] \in Nat
    BY <1>1, <1>2 DEF Record, Types, ReadingOK, NodeOK
  <2> QED
    BY <2>1
<1>4. /\ recorded \in [File -> Nat]
      /\ \A f \in File : recorded'[f] = IF f = cur THEN result ELSE recorded[f]
      /\ DOMAIN fileMap' = DOMAIN fileMap
      /\ \A f \in DOMAIN fileMap : fileMap'[f] = IF f = cur THEN result ELSE fileMap[f]
  BY <1>1, <1>2 DEF Types, HistoryOK
<1>5. RemembersRecorded'
  <2> SUFFICES ASSUME NEW f \in File, recorded'[f] > 0
               PROVE  f \in DOMAIN fileMap /\ fileMap'[f] >= recorded'[f]
    BY <1>4 DEF RemembersRecorded
  <2>1. CASE f = cur
    BY <1>2, <1>3, <1>4, <2>1
  <2>2. CASE f # cur
    <3>1. recorded'[f] = recorded[f]
      BY <1>4, <2>2
    <3>2. f \in DOMAIN fileMap /\ fileMap[f] >= recorded[f]
      BY <1>1, <2>2, <3>1 DEF ListIInv, RemembersRecorded
    <3> QED
      BY <1>4, <2>2, <3>1, <3>2
  <2> QED
    BY <2>1, <2>2
<1>6. WholeList'
  <2> SUFFICES ASSUME restarts = 0
               PROVE  /\ listPos' = Len(list')
                      /\ list' # <<>> => list'[Len(list')].left = 1
                      /\ \A f \in File : recorded'[f] > 0 => HasRecord(f)'
    BY <1>1 DEF WholeList
  <2> DEFINE m == Len(list)
             w == Width(result)
             new == RecordBytes(cur, result)
             Byte == [name : File, position : Nat, left : Nat]
  <2>1. m \in Nat /\ list \in Seq(Byte) /\ DOMAIN list = 1 .. m
    <3>1. list \in Seq(ListByte) /\ ListByte \subseteq Byte
      BY KnownFiles DEF Types, ListOK, ListByte
    <3> HIDE DEF Byte
    <3>2. list \in Seq(Byte)
      BY <3>1, SeqOfMore
    <3> QED
      BY <3>2, LenProperties
  <2>2. w \in Nat /\ w > 1
    BY <1>3, WidthBounds
  <2>3. new \in Seq(Byte) /\ Len(new) = w
    <3>1. \A n \in Nat : [name |-> cur, position |-> result, left |-> n] \in Byte
      BY <1>2, <1>3
    <3> HIDE DEF Byte
    <3> QED
      BY <1>3, <3>1, RecordBytesType
  <2>4. \A i \in 1 .. w : new[i] = [name |-> cur, position |-> result, left |-> w + 1 - i]
    BY DEF RecordBytes
  <2>5. listPos = m /\ list' = Overwrite(list, m, new)
    BY <1>1 DEF ListIInv, WholeList
  <2> HIDE DEF new, w, Byte
  <2>6. /\ Len(list') = m + w /\ DOMAIN list' = 1 .. m + w
        /\ \A i \in 1 .. m : list'[i] = list[i]
        /\ \A i \in 1 .. w : list'[m + i] = new[i]
    BY <2>1, <2>3, <2>5, AppendsAtEnd
  <2>7. listPos' = Len(list')
    BY <1>1, <2>5, <2>6 DEF w
  <2>8. list'[Len(list')].left = 1
    <3>1. w \in 1 .. w /\ w + 1 - w = 1
      BY <2>2
    <3>2. new[w] = [name |-> cur, position |-> result, left |-> w + 1 - w]
      BY <2>2, <2>4
    <3>3. new[w].left = 1
      BY <3>1, <3>2
    <3>4. list'[m + w] = new[w] /\ Len(list') = m + w
      BY <2>6, <3>1
    <3> QED
      BY <3>3, <3>4
  <2>9. m + 1 \in LineStarts'
    <3>1. m + 1 \in 1 .. m + w
      BY <2>1, <2>2
    <3>2. CASE m = 0
      BY <2>6, <3>1, <3>2 DEF LineStarts
    <3>3. CASE m # 0
      <4>1. m \in 1 .. m /\ (m + 1) - 1 = m
        BY <2>1, <3>3
      <4>2. list # <<>>
        BY <3>3, EmptySeq
      <4>3. list[m].left = 1
        BY <4>2 DEF ListIInv, WholeList
      <4>4. list'[(m + 1) - 1].left = 1
        BY <2>6, <4>1, <4>3
      <4> QED
        BY <2>6, <3>1, <4>4 DEF LineStarts
    <3> QED
      BY <3>2, <3>3
  <2>10. LineStarts \subseteq LineStarts'
    <3> SUFFICES ASSUME NEW i \in LineStarts PROVE i \in LineStarts'
      OBVIOUS
    <3>1. i \in 1 .. m /\ (i = 1 \/ list[i - 1].left = 1)
      BY <2>1 DEF LineStarts
    <3>2. i \in 1 .. m + w /\ (i # 1 => i - 1 \in 1 .. m)
      BY <2>1, <2>2, <3>1
    <3>3. i = 1 \/ list'[i - 1].left = 1
      BY <2>6, <3>1, <3>2
    <3> QED
      BY <2>6, <3>2, <3>3 DEF LineStarts
  <2>11. ASSUME NEW f \in File, recorded'[f] > 0 PROVE HasRecord(f)'
    <3>1. CASE f = cur
      <4>1. 1 \in 1 .. w /\ w + 1 - 1 = w
        BY <2>2
      <4>2. list'[m + 1] = [name |-> cur, position |-> result, left |-> w]
        BY <2>4, <2>6, <4>1
      <4>3. recorded'[f] = result
        BY <1>4, <3>1
      <4> QED
        BY <2>9, <3>1, <4>2, <4>3 DEF HasRecord, w
    <3>2. CASE f # cur
      <4>1. recorded'[f] = recorded[f] /\ HasRecord(f)
        BY <1>4, <2>11, <3>2 DEF ListIInv, WholeList
      <4>2. PICK i \in LineStarts :
              list[i] = [name |-> f, position |-> recorded[f], left |-> Width(recorded[f])]
        BY <4>1 DEF HasRecord
      <4>3. list'[i] = list[i] /\ i \in LineStarts'
        BY <2>1, <2>6, <2>10 DEF LineStarts
      <4> QED
        BY <4>1, <4>2, <4>3 DEF HasRecord
    <3> QED
      BY <3>1, <3>2
  <2> QED
    BY <2>7, <2>8, <2>11
<1> QED
  BY <1>5, <1>6 DEF ListIInv

\* The replay of a whole list finds every record; the largest position is taken.
LEMMA RestartList ==
    ASSUME Types, ListIInv, Restart, restarts' <= 1
    PROVE  ListIInv'
<1>1. /\ restarts \in Nat /\ restarts' = restarts + 1 /\ UNCHANGED <<list, recorded>>
      /\ fileMap' = [f \in {NameOf(list[i]) : i \in ListLines} \ {NoFile} |-> Max(PositionsOf(f))]
  BY Bounds DEF Restart, Types, ProcessOK, PositionsOf
<1>2. restarts = 0 /\ restarts' # 0
  BY <1>1
<1>3. ASSUME NEW f \in File, recorded[f] > 0
      PROVE  f \in DOMAIN fileMap' /\ fileMap'[f] >= recorded[f]
  <2>1. PICK i \in LineStarts :
          list[i] = [name |-> f, position |-> recorded[f], left |-> Width(recorded[f])]
    BY <1>2, <1>3 DEF ListIInv, WholeList, HasRecord
  <2>2. recorded[f] \in Nat /\ f # NoFile
    BY Bounds DEF Types, HistoryOK
  <2>3. i \in ListLines /\ NameOf(list[i]) = f /\ list[i].position = recorded[f]
    BY <2>1, <2>2, WidthBounds DEF ListLines, NameOf
  <2>4. f \in DOMAIN fileMap' /\ fileMap'[f] = Max(PositionsOf(f))
    BY <1>1, <2>2, <2>3
  <2>5. recorded[f] \in PositionsOf(f)
    BY <2>3 DEF PositionsOf
  <2>6. PositionsOf(f) \in SUBSET Nat /\ \A x \in PositionsOf(f) : x <= ever[f]
    <3> SUFFICES ASSUME NEW x \in PositionsOf(f) PROVE x \in Nat /\ x <= ever[f]
      OBVIOUS
    <3>1. PICK j \in ListLines : NameOf(list[j]) = f /\ x = list[j].position
      BY DEF PositionsOf
    <3>2. f = list[j].name
      BY <2>2, <3>1, LineIsByte
    <3> QED
      BY <3>1, <3>2, LineIsByte
  <2>7. ever[f] \in Nat
    BY DEF Types, HistoryOK
  <2>8. \A x \in PositionsOf(f) : x <= Max(PositionsOf(f))
    BY <2>5, <2>6, <2>7, MaxExists
  <2>9. Max(PositionsOf(f)) \in Nat
    BY <2>5, <2>6, <2>7, MaxExists
  <2> QED
    BY <2>2, <2>4, <2>5, <2>8, <2>9
<1> QED
  BY <1>1, <1>2, <1>3 DEF ListIInv, WholeList, RemembersRecorded

LEMMA ListStep ==
    ASSUME Types, ListIInv, [Next]_vars, restarts' <= 1
    PROVE  ListIInv'
<1> USE DEF node, mem, fr, history
<1>1. CASE Record
  BY <1>1, RecordList
<1>2. CASE Restart
  BY <1>2, RestartList
<1>3. CASE AddNewFiles
  <2>1. \A f \in DOMAIN fileMap : f \in DOMAIN fileMap' /\ fileMap'[f] = fileMap[f]
    BY <1>3 DEF AddNewFiles, OldPosition
  <2>2. /\ UNCHANGED <<list, listPos, recorded, restarts>>
        /\ pc' \in {"select", "listed", "reading"} => pc \in {"select", "listed", "reading"}
    BY <1>3 DEF AddNewFiles
  <2> QED
    BY <2>1, <2>2, NothingRecorded
<1>4. ASSUME ~Record, ~Restart, ~AddNewFiles PROVE ListIInv'
  <2>1. /\ UNCHANGED <<list, listPos, recorded, restarts, fileMap>>
        /\ pc' \in {"select", "listed", "reading"} => pc \in {"select", "listed", "reading"}
    BY <1>4 DEF Next, Node, ReaderStep, Environment, ReadDir, StartFile, StartFails, Read, Drop,
       Stop, Cancel, Crash, vars
  <2> QED
    BY <2>1, NothingRecorded
<1> QED
  BY <1>1, <1>2, <1>3, <1>4

\* Under every crash and every failing call, a process started again once takes
\* every file up from the position recorded last or a later one.
THEOREM RemembersThroughOneRestart == Spec /\ [](restarts <= 1) => []RemembersRecorded
<1>1. Init => ListIInv
  BY InitList
<1>2. Types /\ ListIInv /\ [Next]_vars /\ (restarts <= 1)' => ListIInv'
  BY ListStep
<1>3. ListIInv => RemembersRecorded
  BY DEF ListIInv
<1> QED
  BY <1>1, <1>2, <1>3, TypesInvariance, PTL DEF Spec

=============================================================================
