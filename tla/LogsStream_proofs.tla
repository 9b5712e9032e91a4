-------------------------- MODULE LogsStream_proofs --------------------------
(***************************************************************************)
(* LogsReader implements LineStream: while its process lives and no system *)
(* call fails, the lines of the whole directory are delivered one by one   *)
(* in the order the node wrote them.                                       *)
(***************************************************************************)
EXTENDS LogsReader_proofs

\* The node writes whole lines, file after file.
WrittenIsExact ==
    /\ \A i, j \in DOMAIN written : i < j =>
         \/ written[i].file < written[j].file
         \/ written[i].file = written[j].file /\ written[i].to <= written[j].from
    /\ \A i \in DOMAIN written :
         /\ written[i].file <= created
         /\ written[i].to = written[i].from + LineLen
         /\ written[i].to <= size[written[i].file]
    /\ \A f \in File : \A p \in Nat :
         Even(p) /\ p + LineLen <= size[f] => \E i \in DOMAIN written : written[i] = LineAt(f, p)

DeliveredIsPrefix ==
    /\ Len(Delivered) <= Len(written)
    /\ \A i \in DOMAIN Delivered : Delivered[i] = written[i]

UpTo(l, f, p) == l.file < f \/ (l.file = f /\ l.to <= p)

\* What has been delivered is what the node wrote up to position p of file f.
Cursor(f, p) ==
    \A i \in DOMAIN written : i <= Len(Delivered) <=> UpTo(written[i], f, p)

AtCursor ==
    Working => IF pc = "reading" THEN Cursor(cur, position)
                                 ELSE Cursor(lastFile.name, lastFile.position)

LastIsKnown ==
    \/ lastFile = [name |-> NoFile, position |-> 0]
    \/ /\ lastFile.name \in DOMAIN fileMap
       /\ fileMap[lastFile.name] = lastFile.position

ListingIsInterval ==
    pc = "listed" => queue = <<>> /\ \E n \in lastFile.name .. created : listing = 1 .. n

\* The files known are the first ones, and the last of them is the last queued
\* or, with nothing queued, the one being read or read last.
KnownUpTo(f) == DOMAIN fileMap = 1 .. f

MapIsInterval ==
    Working => KnownUpTo(IF queue # <<>> THEN queue[Len(queue)]
                         ELSE IF pc = "reading" THEN cur ELSE lastFile.name)

QueueIsInterval ==
    Working /\ queue # <<>> =>
      /\ \A i \in DOMAIN queue : queue[i] = queue[1] + i - 1
      /\ \A i \in DOMAIN queue :
           fileMap[queue[i]] = 0 \/ (pc # "reading" /\ queue[i] = lastFile.name)

\* The channel goes on from the file in hand, which the node has left for good:
\* its end has been read, or will be before the read times out.
QueueGoesOn ==
    Working /\ queue # <<>> =>
      IF pc = "reading"
      THEN /\ queue[1] = cur + 1
           /\ fileSize = size[cur]
           /\ readPc \in {"waiting", "done"} => position = size[cur]
      ELSE \/ queue[1] = lastFile.name
           \/ /\ queue[1] = lastFile.name + 1
              /\ lastFile.name # NoFile => lastFile.position = size[lastFile.name]

StreamIInv ==
    /\ WrittenIsExact /\ DeliveredIsPrefix /\ AtCursor
    /\ LastIsKnown /\ ListingIsInterval /\ MapIsInterval /\ QueueIsInterval /\ QueueGoesOn

-----------------------------------------------------------------------------

LEMMA WrittenFacts ==
    ASSUME Types
    PROVE  /\ written \in Seq(PieceOf) /\ Len(written) \in Nat
           /\ DOMAIN written = 1 .. Len(written)
           /\ \A i \in 1 .. Len(written) :
                /\ written[i] \in PieceOf
                /\ written[i].file \in File /\ written[i].file \in Nat \ {0}
                /\ written[i].from \in Nat /\ written[i].to \in Nat
           /\ Delivered \in Seq(PieceOf) /\ Len(Delivered) \in Nat
           /\ DOMAIN Delivered = 1 .. Len(Delivered)
<1>1. written \in Seq(PieceOf)
  BY DEF Types, NodeOK
<1>2. Len(written) \in Nat /\ DOMAIN written = 1 .. Len(written)
  BY <1>1, LenProperties
<1>3. \A i \in 1 .. Len(written) : written[i] \in PieceOf
  BY <1>1, ElementOfSeq
<1>4. Delivered \in Seq(PieceOf)
  BY DeliveredType
<1>5. Len(Delivered) \in Nat /\ DOMAIN Delivered = 1 .. Len(Delivered)
  BY <1>4, LenProperties
<1> QED
  BY <1>1, <1>2, <1>3, <1>4, <1>5, Bounds DEF PieceOf

\* Where the file in hand lies, for a reader that has not failed or restarted.
LEMMA LastFacts ==
    ASSUME Types, LastIsKnown
    PROVE  /\ lastFile.name \in Nat /\ lastFile.position \in Nat
           /\ lastFile.name <= created /\ created \in Nat
           /\ lastFile.name = NoFile => lastFile.position = 0
           /\ lastFile.name # NoFile =>
                /\ lastFile.name \in DOMAIN fileMap /\ lastFile.name \in File
                /\ lastFile.position = fileMap[lastFile.name]
                /\ lastFile.position <= size[lastFile.name] /\ size[lastFile.name] \in Nat
<1>1. created \in Nat
  BY Bounds DEF Types, NodeOK
<1>2. CASE lastFile = [name |-> NoFile, position |-> 0]
  BY <1>1, <1>2, Bounds
<1>3. CASE lastFile.name \in DOMAIN fileMap /\ fileMap[lastFile.name] = lastFile.position
  <2>1. lastFile.name \in 1 .. created /\ lastFile.name \in File
    BY <1>3, KnownFiles DEF Types, MapOK
  <2>2. /\ fileMap[lastFile.name] \in Nat /\ fileMap[lastFile.name] <= ever[lastFile.name]
        /\ ever[lastFile.name] \in Nat /\ ever[lastFile.name] <= size[lastFile.name]
        /\ size[lastFile.name] \in Nat
    BY <1>3, <2>1 DEF Types, MapOK, HistoryOK, NodeOK
  <2> QED
    BY <1>1, <1>3, <2>1, <2>2, Bounds
<1> QED
  BY <1>2, <1>3 DEF LastIsKnown

LEMMA QueueFacts ==
    ASSUME Types, queue # <<>>
    PROVE  /\ Len(queue) \in Nat \ {0} /\ DOMAIN queue = 1 .. Len(queue)
           /\ \A i \in 1 .. Len(queue) :
                /\ queue[i] \in DOMAIN fileMap /\ queue[i] \in File /\ queue[i] \in Nat
                /\ queue[i] <= created /\ created \in Nat
<1>1. queue \in Seq(DOMAIN fileMap)
  BY DEF Types, MapOK
<1>2. Len(queue) \in Nat \ {0} /\ DOMAIN queue = 1 .. Len(queue)
  BY <1>1, EmptySeq, LenProperties
<1>3. \A i \in 1 .. Len(queue) : queue[i] \in DOMAIN fileMap
  BY <1>1, ElementOfSeq
<1>4. created \in Nat
  BY Bounds DEF Types, NodeOK
<1>5. \A f \in DOMAIN fileMap : f \in File /\ f \in Nat /\ f <= created
  BY <1>4, KnownFiles, Bounds DEF Types, MapOK
<1> QED
  BY <1>2, <1>3, <1>4, <1>5

LEMMA ReadingFacts ==
    ASSUME Types, pc = "reading"
    PROVE  /\ cur \in File /\ cur \in Nat \ {0} /\ cur <= created /\ created \in Nat
           /\ size[cur] \in Nat /\ position \in Nat /\ position <= size[cur]
           /\ cur \in DOMAIN fileMap
<1>1. cur \in DOMAIN fileMap /\ cur \in File
  BY CurIsKnown DEF Types, CurOK
<1>2. cur \in 1 .. created /\ created \in Nat /\ size[cur] \in Nat
  BY <1>1, Bounds DEF Types, MapOK, NodeOK
<1> QED
  BY <1>1, <1>2, Bounds DEF Types, ReadingOK

\* A line written past (f, p) does not move the cursor.
LEMMA CursorKept ==
    ASSUME Types, DeliveredIsPrefix, WriteLine, Delivered' = Delivered, NEW f \in Nat, NEW p \in Nat,
           Cursor(f, p), f <= created, f = created => p <= size[f]
    PROVE  \A i \in DOMAIN written' : i <= Len(Delivered') <=> UpTo(written'[i], f, p)
<1> DEFINE n == Len(written)
           l == LineAt(created, size[created])
<1>1. created \in File /\ created \in Nat /\ size[created] \in Nat
  BY Bounds DEF WriteLine, Types, NodeOK
<1>2. l \in PieceOf /\ l.file = created /\ l.to = size[created] + LineLen
  BY <1>1 DEF LineAt, PieceOf, LineLen
<1>3. written' = Append(written, l)
  BY DEF WriteLine
<1>4. /\ n \in Nat /\ DOMAIN written' = 1 .. n + 1
      /\ \A i \in 1 .. n : written'[i] = written[i]
      /\ written'[n + 1] = l
  <2>1. /\ Append(written, l) \in Seq(PieceOf) /\ Len(Append(written, l)) = n + 1
        /\ \A i \in 1 .. n : Append(written, l)[i] = written[i]
        /\ Append(written, l)[n + 1] = l
    BY <1>2, WrittenFacts, AppendProperties
  <2> QED
    BY <1>3, <2>1, WrittenFacts, LenProperties
<1>5. ~UpTo(l, f, p)
  BY <1>1, <1>2 DEF UpTo, LineLen
<1>6. Len(Delivered) \in Nat /\ Len(Delivered) <= n
  BY WrittenFacts DEF DeliveredIsPrefix
<1>7. \A i \in 1 .. n : i <= Len(Delivered) <=> UpTo(written[i], f, p)
  BY WrittenFacts DEF Cursor
<1> HIDE DEF n, l
<1> SUFFICES ASSUME NEW i \in 1 .. n + 1
             PROVE  i <= Len(Delivered) <=> UpTo(written'[i], f, p)
  BY <1>4
<1>8. CASE i \in 1 .. n
  BY <1>4, <1>7, <1>8
<1>9. CASE i = n + 1
  <2>1. ~(i <= Len(Delivered)) /\ written'[i] = l
    BY <1>4, <1>6, <1>9
  <2> QED
    BY <1>5, <2>1
<1> QED
  BY <1>4, <1>8, <1>9

\* The node.
LEMMA EvenApart == \A p, q \in Nat : Even(p) /\ Even(q) /\ p < q => p + LineLen <= q
BY DEF Even, LineLen

LEMMA WriteLineExact ==
    ASSUME Types, AtLineStarts, WrittenIsExact, WriteLine
    PROVE  WrittenIsExact'
<1> DEFINE n == Len(written)
           l == LineAt(created, size[created])
<1>1. created \in File /\ created \in Nat /\ size[created] \in Nat /\ Even(size[created])
  BY Bounds DEF WriteLine, Types, NodeOK, AtLineStarts
<1>2. /\ l \in PieceOf /\ l.file = created /\ l.from = size[created]
      /\ l.to = size[created] + LineLen
  BY <1>1 DEF LineAt, PieceOf, LineLen
<1>3. /\ written' = Append(written, l) /\ UNCHANGED created
      /\ size' = [size EXCEPT ![created] = @ + LineLen]
  BY DEF WriteLine
<1>4. /\ n \in Nat /\ DOMAIN written' = 1 .. n + 1
      /\ \A i \in 1 .. n : written'[i] = written[i]
      /\ written'[n + 1] = l
  <2>1. /\ Append(written, l) \in Seq(PieceOf) /\ Len(Append(written, l)) = n + 1
        /\ \A i \in 1 .. n : Append(written, l)[i] = written[i]
        /\ Append(written, l)[n + 1] = l
    BY <1>2, WrittenFacts, AppendProperties
  <2> QED
    BY <1>3, <2>1, WrittenFacts, LenProperties
<1>5. /\ size \in [File -> Nat]
      /\ \A f \in File : size'[f] = IF f = created THEN size[f] + LineLen ELSE size[f]
  BY <1>1, <1>3 DEF Types, NodeOK
<1>6. DOMAIN written = 1 .. n
  BY WrittenFacts
<1>7. \A i \in 1 .. n : /\ written[i].file \in File /\ written[i].file \in Nat
                        /\ written[i].from \in Nat /\ written[i].to \in Nat
                        /\ written[i].file <= created
                        /\ written[i].to = written[i].from + LineLen
                        /\ written[i].to <= size[written[i].file]
  BY <1>6, WrittenFacts DEF WrittenIsExact
<1> HIDE DEF n, l
<1>8. ASSUME NEW i \in 1 .. n + 1, NEW j \in 1 .. n + 1, i < j
      PROVE  \/ written'[i].file < written'[j].file
             \/ written'[i].file = written'[j].file /\ written'[i].to <= written'[j].from
  <2>1. i \in 1 .. n /\ (j \in 1 .. n \/ j = n + 1)
    BY <1>4, <1>8
  <2>2. CASE j \in 1 .. n
    BY <1>4, <1>6, <1>8, <2>1, <2>2 DEF WrittenIsExact
  <2>3. CASE j = n + 1
    <3>1. written'[i] = written[i] /\ written'[j] = l
      BY <1>4, <2>1, <2>3
    <3>2. written[i].file < created \/ written[i].file = created
      BY <1>1, <1>7, <2>1
    <3> QED
      BY <1>1, <1>2, <1>7, <2>1, <3>1, <3>2
  <2> QED
    BY <2>1, <2>2, <2>3
<1>9. ASSUME NEW i \in 1 .. n + 1
      PROVE  /\ written'[i].file <= created
             /\ written'[i].to = written'[i].from + LineLen
             /\ written'[i].to <= size'[written'[i].file]
  <2>1. CASE i \in 1 .. n
    <3>1. written'[i] = written[i] /\ written[i].file \in File
      BY <1>4, <1>7, <2>1
    <3>2. size[written[i].file] \in Nat /\ size[written[i].file] <= size'[written[i].file]
      BY <1>5, <3>1 DEF LineLen
    <3>3. size'[written[i].file] \in Nat
      BY <1>5, <3>1 DEF LineLen
    <3> QED
      BY <1>7, <2>1, <3>1, <3>2, <3>3
  <2>2. CASE i = n + 1
    <3>1. written'[i] = l /\ size'[created] = size[created] + LineLen
      BY <1>1, <1>4, <1>5, <2>2
    <3>2. size[created] + LineLen \in Nat
      BY <1>1 DEF LineLen
    <3> QED
      BY <1>1, <1>2, <3>1, <3>2
  <2> QED
    BY <1>4, <2>1, <2>2
<1>10. ASSUME NEW f \in File, NEW p \in Nat, Even(p), p + LineLen <= size'[f]
       PROVE  \E i \in 1 .. n + 1 : written'[i] = LineAt(f, p)
  <2>1. CASE f = created /\ p = size[created]
    BY <1>4, <2>1 DEF l
  <2>2. CASE ~(f = created /\ p = size[created])
    <3>1. p + LineLen <= size[f]
      <4>1. CASE f # created
        BY <1>5, <1>10, <4>1
      <4>2. CASE f = created
        <5>1. p # size[f] /\ p + LineLen <= size[f] + LineLen /\ size[f] \in Nat
          BY <1>5, <1>10, <2>2, <4>2
        <5>2. p < size[f]
          BY <5>1 DEF LineLen
        <5> QED
          BY <1>1, <1>10, <4>2, <5>1, <5>2, EvenApart
      <4> QED
        BY <4>1, <4>2
    <3>2. PICK i \in 1 .. n : written[i] = LineAt(f, p)
      BY <1>6, <1>10, <3>1 DEF WrittenIsExact
    <3> QED
      BY <1>4, <3>2
  <2> QED
    BY <2>1, <2>2
<1> QED
  BY <1>3, <1>4, <1>8, <1>9, <1>10 DEF WrittenIsExact, LineAt

LEMMA DeliveredWhileWriting == Types /\ Node => Delivered' = Delivered
BY DEF Node, fr, history, Delivered, CurPieces

LEMMA NodeStream ==
    ASSUME Types, AtLineStarts, StreamIInv, Node
    PROVE  StreamIInv'
<1>1. UNCHANGED <<pc, fileMap, queue, lastFile, listing, cur, position, fileSize, readPc>>
  BY DEF Node, mem, fr
<1>2. Delivered' = Delivered
  BY DeliveredWhileWriting
<1>3. LastIsKnown' /\ MapIsInterval' /\ QueueIsInterval'
  BY <1>1 DEF StreamIInv, LastIsKnown, MapIsInterval, KnownUpTo, QueueIsInterval, Working
<1>4. created \in Nat /\ created' \in {created, created + 1}
  BY Bounds DEF Node, CreateFile, WriteLine, Types, NodeOK
<1>5. ListingIsInterval'
  <2> SUFFICES ASSUME pc = "listed"
               PROVE  queue = <<>> /\ \E n \in lastFile.name .. created' : listing = 1 .. n
    BY <1>1 DEF ListingIsInterval
  <2>1. PICK n \in lastFile.name .. created : queue = <<>> /\ listing = 1 .. n
    BY DEF StreamIInv, ListingIsInterval
  <2>2. lastFile.name \in Nat
    BY LastFacts DEF StreamIInv
  <2>3. n \in lastFile.name .. created'
    BY <1>4, <2>1, <2>2
  <2> QED
    BY <2>1, <2>3
<1>6. CASE CreateFile
  <2>1. UNCHANGED <<size, written>> /\ created' = created + 1
    BY <1>6 DEF CreateFile
  <2>2. WrittenIsExact'
    <3>1. \A i \in DOMAIN written : written[i].file <= created + 1
      BY <1>4, WrittenFacts DEF StreamIInv, WrittenIsExact
    <3> QED
      BY <2>1, <3>1 DEF StreamIInv, WrittenIsExact
  <2>3. DeliveredIsPrefix' /\ AtCursor' /\ QueueGoesOn'
    BY <1>1, <1>2, <2>1
       DEF StreamIInv, DeliveredIsPrefix, AtCursor, Cursor, QueueGoesOn, Working
  <2> QED
    BY <1>3, <1>5, <2>2, <2>3 DEF StreamIInv
<1>7. CASE WriteLine
  <2>1. WrittenIsExact'
    BY <1>7, WriteLineExact DEF StreamIInv
  <2>2. DeliveredIsPrefix'
    <3>1. LineAt(created, size[created]) \in PieceOf
      BY <1>7, Bounds DEF LineAt, PieceOf, LineLen, WriteLine, Types, NodeOK
    <3>2. /\ Len(written') = Len(written) + 1
          /\ \A i \in 1 .. Len(written) : written'[i] = written[i]
      BY <1>7, <3>1, WrittenFacts, AppendProperties DEF WriteLine
    <3> QED
      BY <1>2, <3>2, WrittenFacts DEF StreamIInv, DeliveredIsPrefix
  <2>3. AtCursor'
    <3>1. CASE pc = "reading"
      <4>1. Cursor(cur, position) /\ DeliveredIsPrefix
        BY <3>1 DEF StreamIInv, AtCursor, Working
      <4>2. \A i \in DOMAIN written' : i <= Len(Delivered') <=> UpTo(written'[i], cur, position)
        BY <1>2, <1>7, <3>1, <4>1, CursorKept, ReadingFacts
      <4> QED
        BY <1>1, <3>1, <4>2 DEF AtCursor, Cursor
    <3>2. CASE Working /\ pc # "reading"
      <4> DEFINE f == lastFile.name
                 p == lastFile.position
      <4>1. Cursor(f, p) /\ DeliveredIsPrefix
        BY <3>2 DEF StreamIInv, AtCursor, Working
      <4>2. f \in Nat /\ p \in Nat /\ f <= created /\ (f = created => p <= size[f])
        <5>1. created # NoFile
          BY <1>4, <1>7, Bounds DEF WriteLine
        <5> QED
          BY <3>2, <5>1, LastFacts DEF StreamIInv
      <4> HIDE DEF f, p
      <4>3. \A i \in DOMAIN written' : i <= Len(Delivered') <=> UpTo(written'[i], f, p)
        BY <1>2, <1>7, <4>1, <4>2, CursorKept
      <4> QED
        BY <1>1, <3>2, <4>3 DEF AtCursor, Cursor, f, p
    <3>3. CASE ~Working
      BY <1>1, <3>3 DEF AtCursor, Working
    <3> QED
      BY <3>1, <3>2, <3>3
  <2>4. QueueGoesOn'
    <3> SUFFICES ASSUME Working, queue # <<>> PROVE QueueGoesOn'
      BY <1>1 DEF QueueGoesOn, Working
    <3>1. queue[1] \in Nat /\ queue[1] <= created
      BY QueueFacts
    <3>2. \A f \in File : f # created => size'[f] = size[f]
      BY <1>7 DEF WriteLine, Types, NodeOK
    <3>3. CASE pc = "reading"
      <4>1. cur # created /\ cur \in File
        BY <1>4, <3>1, <3>3, ReadingFacts DEF StreamIInv, QueueGoesOn
      <4> QED
        BY <1>1, <3>2, <3>3, <4>1 DEF StreamIInv, QueueGoesOn
    <3>4. CASE pc # "reading"
      <4>1. CASE queue[1] = lastFile.name
        BY <1>1, <3>4, <4>1 DEF QueueGoesOn
      <4>2. CASE queue[1] = lastFile.name + 1
        <5>1. lastFile.name # created /\ (lastFile.name # NoFile => lastFile.name \in File)
          BY <1>4, <3>1, <3>4, <4>2, LastFacts DEF StreamIInv
        <5>2. CASE queue[1] = lastFile.name
          BY <4>1, <5>2
        <5>3. CASE queue[1] # lastFile.name
          BY <1>1, <3>2, <3>4, <4>2, <5>1, <5>3 DEF StreamIInv, QueueGoesOn
        <5> QED
          BY <5>2, <5>3
      <4> QED
        BY <3>4, <4>1, <4>2 DEF StreamIInv, QueueGoesOn
    <3> QED
      BY <3>3, <3>4
  <2> QED
    BY <1>3, <1>5, <2>1, <2>2, <2>3, <2>4 DEF StreamIInv
<1> QED
  BY <1>6, <1>7 DEF Node

\* The reader.
LEMMA NothingWritten ==
    ASSUME StreamIInv, UNCHANGED node
    PROVE  WrittenIsExact' /\ (Delivered' = Delivered => DeliveredIsPrefix')
BY DEF node, StreamIInv, WrittenIsExact, DeliveredIsPrefix

LEMMA LoopStream ==
    ASSUME Types, StreamIInv, UNCHANGED node, ReadDir \/ Stop \/ Cancel
    PROVE  StreamIInv'
<1>1. UNCHANGED <<created, size, written, fileMap, queue, lastFile, cur, position, fileSize, readPc>>
  BY DEF node, fr, mem, ReadDir, Stop, Cancel
<1>2. Delivered' = Delivered
  BY DEF fr, history, ReadDir, Stop, Cancel, Delivered, CurPieces
<1>3. WrittenIsExact' /\ DeliveredIsPrefix'
  BY <1>2, NothingWritten
<1>4. CASE Cancel
  <2>1. UNCHANGED <<pc, listing>>
    BY <1>4 DEF Cancel, mem
  <2> QED
    BY <1>1, <1>2, <1>3, <2>1
       DEF StreamIInv, AtCursor, Cursor, LastIsKnown, ListingIsInterval, MapIsInterval, KnownUpTo,
           QueueIsInterval, QueueGoesOn, Working
<1>5. CASE Stop
  <2>1. pc = "select" /\ pc' = "stopped"
    BY <1>5 DEF Stop
  <2> QED
    BY <1>1, <1>3, <2>1
       DEF StreamIInv, AtCursor, LastIsKnown, ListingIsInterval, MapIsInterval, QueueIsInterval,
           QueueGoesOn, Working
<1>6. CASE ReadDir
  <2>1. pc = "select" /\ pc' = "listed" /\ queue = <<>> /\ listing' = 1 .. created
    BY <1>6 DEF ReadDir
  <2>2. LastIsKnown'
    BY <1>1, <2>1 DEF StreamIInv, LastIsKnown
  <2>3. AtCursor'
    BY <1>1, <1>2, <2>1 DEF StreamIInv, AtCursor, Cursor, Working
  <2>4. MapIsInterval' /\ QueueIsInterval' /\ QueueGoesOn'
    BY <1>1, <2>1
       DEF StreamIInv, MapIsInterval, KnownUpTo, QueueIsInterval, QueueGoesOn, Working
  <2>5. ListingIsInterval'
    <3>1. created \in lastFile.name .. created
      BY <2>1, LastFacts DEF StreamIInv
    <3> QED
      BY <1>1, <2>1, <3>1 DEF ListingIsInterval
  <2> QED
    BY <1>3, <2>2, <2>3, <2>4, <2>5 DEF StreamIInv
<1> QED
  BY <1>4, <1>5, <1>6

LEMMA UpperPart ==
    ASSUME NEW S, NEW n \in Nat, NEW lo \in Nat, lo >= 1,
           S \subseteq 1 .. n, \A f \in 1 .. n : f \in S <=> f >= lo
    PROVE  S = lo .. n
<1>1. \A f : f \in lo .. n => f \in S
  OBVIOUS
<1>2. \A f : f \in S => f \in lo .. n
  OBVIOUS
<1> QED
  BY <1>1, <1>2

LEMMA AddNewFilesStream ==
    ASSUME Types, StreamIInv, UNCHANGED node, AddNewFiles
    PROVE  StreamIInv'
<1> DEFINE m == lastFile.name
<1>1. /\ pc = "listed" /\ pc' \in {"select", "blocked"} /\ queue' \in SortedByName(NewFiles)
      /\ fileMap' = [f \in DOMAIN fileMap \cup NewFiles |->
                       IF f \in NewFiles THEN OldPosition(f) ELSE fileMap[f]]
      /\ UNCHANGED <<created, size, written, lastFile, cur, position>>
  BY DEF AddNewFiles, node, fr
<1>2. Delivered' = Delivered
  BY DEF AddNewFiles, fr, history, Delivered, CurPieces
<1>3. WrittenIsExact' /\ DeliveredIsPrefix'
  BY <1>2, NothingWritten
<1>4. CASE pc' = "blocked"
  <2>1. LastIsKnown'
    BY <1>1 DEF StreamIInv, LastIsKnown, OldPosition
  <2> QED
    BY <1>3, <1>4, <2>1
       DEF StreamIInv, AtCursor, ListingIsInterval, MapIsInterval, QueueIsInterval, QueueGoesOn,
           Working
<1>5. CASE pc' = "select"
  <2>1. PICK n \in m .. created : queue = <<>> /\ listing = 1 .. n
    BY <1>1 DEF StreamIInv, ListingIsInterval
  <2>2. /\ m \in Nat /\ created \in Nat /\ m <= n /\ n <= created
        /\ m = NoFile => lastFile.position = 0
        /\ m # NoFile => /\ m \in File /\ lastFile.position = fileMap[m] /\ m \in DOMAIN fileMap
                         /\ lastFile.position <= size[m] /\ size[m] \in Nat
    BY <1>1, <2>1, LastFacts DEF StreamIInv
  <2>3. DOMAIN fileMap = 1 .. m
    BY <1>1, <2>1 DEF StreamIInv, MapIsInterval, KnownUpTo, Working
  <2>4. \A f \in 1 .. n : f \in NewFiles <=> f > m \/ (f = m /\ lastFile.position < size[m])
    BY <2>1, <2>2, <2>3 DEF NewFiles, IsLatestFileAndChangedSize
  <2>5. NewFiles \subseteq 1 .. n
    BY <2>1 DEF NewFiles
  <2> DEFINE grown == m # NoFile /\ lastFile.position < size[m]
             lo == IF grown THEN m ELSE m + 1
  <2>6. /\ NewFiles = lo .. n /\ lo \in Nat \ {0} /\ lo <= n + 1
        /\ lo = m \/ (lo = m + 1 /\ (m # NoFile => lastFile.position = size[m]))
    <3>1. CASE grown
      <4>1. m \in 1 .. n /\ m <= n + 1 /\ m \in Nat \ {0}
        BY <2>1, <2>2, <3>1, Bounds
      <4>2. NewFiles = m .. n
        <5>1. \A f \in 1 .. n : f \in NewFiles <=> f >= m
          BY <2>2, <2>4, <3>1, <4>1
        <5>2. n \in Nat /\ m \in Nat /\ m >= 1
          BY <2>1, <2>2, <4>1
        <5> QED
          BY <2>5, <5>1, <5>2, UpperPart
      <4> QED
        BY <3>1, <4>1, <4>2
    <3>2. CASE ~grown
      <4>1. m + 1 <= n + 1 /\ m + 1 \in Nat \ {0}
        BY <2>1, <2>2
      <4>2. NewFiles = m + 1 .. n
        <5>1. \A f \in 1 .. n : f \in NewFiles <=> f >= m + 1
          <6>1. \A f \in 1 .. n : f = m => m # NoFile
            BY Bounds
          <6>2. \A f \in 1 .. n : f \in NewFiles <=> f > m
            BY <2>4, <3>2, <6>1
          <6> QED
            BY <2>2, <6>2
        <5>2. n \in Nat /\ m + 1 \in Nat /\ m + 1 >= 1
          BY <2>1, <2>2, <4>1
        <5> QED
          BY <2>5, <5>1, <5>2, UpperPart
      <4>3. m # NoFile => lastFile.position = size[m]
        <5>1. lastFile.position \in Nat
          BY <1>1, LastFacts DEF StreamIInv
        <5> QED
          BY <2>2, <3>2, <5>1
      <4> QED
        BY <3>2, <4>1, <4>2, <4>3
    <3> QED
      BY <3>1, <3>2
  <2> HIDE DEF lo, grown
  <2>7. n \in Nat
    BY <2>1, <2>2
  <2>8. Len(queue') = n - lo + 1 /\ \A i \in 1 .. n - lo + 1 : queue'[i] = lo + i - 1
    BY <1>1, <2>6, <2>7, SortedInterval
  <2>9. DOMAIN queue' = 1 .. n - lo + 1 /\ (queue' = <<>> => n - lo + 1 = 0)
    <3>1. IsFiniteSet(lo .. n)
      BY <2>6, <2>7, FS_Interval
    <3>2. queue' \in Seq(lo .. n)
      BY <1>1, <2>6, <3>1, SortedType
    <3>3. queue' = <<>> => Len(queue') = 0
      BY EmptySeq
    <3> QED
      BY <2>8, <3>2, <3>3, LenProperties
  <2>10. DOMAIN fileMap' = 1 .. n
    <3>1. DOMAIN fileMap' = (1 .. m) \cup (lo .. n)
      BY <1>1, <2>3, <2>6
    <3> QED
      BY <2>2, <2>6, <2>7, <3>1
  <2>11. /\ m \in DOMAIN fileMap => fileMap'[m] = fileMap[m]
         /\ \A f \in lo .. n : fileMap'[f] = 0 \/ f = m
    <3>1. \A f \in lo .. n : f = m \/ f > m
      BY <2>2, <2>6, <2>7
    <3> QED
      BY <1>1, <2>2, <2>3, <2>6, <3>1 DEF OldPosition
  <2>12. LastIsKnown'
    BY <1>1, <1>5, <2>2, <2>3, <2>10, <2>11, Bounds DEF StreamIInv, LastIsKnown
  <2>13. AtCursor'
    BY <1>1, <1>2, <1>5 DEF StreamIInv, AtCursor, Cursor, Working
  <2>14. ListingIsInterval'
    BY <1>5 DEF ListingIsInterval
  <2>15. MapIsInterval'
    <3>1. CASE queue' = <<>>
      <4>1. n = m
        BY <2>2, <2>6, <2>7, <2>9, <3>1
      <4> QED
        BY <1>1, <1>5, <2>10, <3>1, <4>1 DEF MapIsInterval, KnownUpTo
    <3>2. CASE queue' # <<>>
      <4>1. n - lo + 1 \in 1 .. n - lo + 1
        <5>1. n - lo + 1 # 0
          <6>1. queue' \in Seq(lo .. n)
            BY <1>1, <2>6, <2>7, FS_Interval, SortedType
          <6> QED
            BY <2>8, <3>2, <6>1, EmptySeq
        <5> QED
          BY <2>6, <2>7, <5>1
      <4>2. queue'[Len(queue')] = n
        BY <2>6, <2>7, <2>8, <4>1
      <4> QED
        BY <2>10, <3>2, <4>2 DEF MapIsInterval, KnownUpTo
    <3> QED
      BY <3>1, <3>2
  <2>16. ASSUME queue' # <<>> PROVE 1 \in 1 .. n - lo + 1 /\ queue'[1] = lo
    <3>1. n - lo + 1 # 0
      <4>1. queue' \in Seq(lo .. n)
        BY <1>1, <2>6, <2>7, FS_Interval, SortedType
      <4> QED
        BY <2>8, <2>16, <4>1, EmptySeq
    <3> QED
      BY <2>6, <2>7, <2>8, <3>1
  <2>17. QueueIsInterval'
    <3> SUFFICES ASSUME queue' # <<>>, NEW i \in 1 .. n - lo + 1
                 PROVE  /\ queue'[i] = queue'[1] + i - 1
                        /\ fileMap'[queue'[i]] = 0 \/ queue'[i] = m
      BY <1>1, <1>5, <2>9 DEF QueueIsInterval
    <3>1. queue'[i] = lo + i - 1 /\ queue'[i] \in lo .. n /\ queue'[1] = lo
      BY <2>6, <2>7, <2>8, <2>16
    <3> QED
      BY <2>11, <3>1
  <2>18. QueueGoesOn'
    <3> SUFFICES ASSUME queue' # <<>>
                 PROVE  \/ queue'[1] = m
                        \/ /\ queue'[1] = m + 1
                           /\ m # NoFile => lastFile.position = size[m]
      BY <1>1, <1>5 DEF QueueGoesOn
    <3> QED
      BY <2>6, <2>16
  <2> QED
    BY <1>3, <2>12, <2>13, <2>14, <2>15, <2>17, <2>18 DEF StreamIInv
<1> QED
  BY <1>1, <1>4, <1>5

LEMMA StartFileStream ==
    ASSUME Types, StreamIInv, UNCHANGED node, StartFile
    PROVE  StreamIInv'
<1> DEFINE f == queue[1]
           L == lastFile.name
           k == Len(queue)
<1>1. /\ pc = "select" /\ pc' = "reading" /\ queue # <<>> /\ queue' = Tail(queue)
      /\ fileSize' = size[cur'] /\ readPc' = "reading" /\ position' = fileMap[cur']
      /\ UNCHANGED <<created, size, written, fileMap, lastFile>>
  BY DEF StartFile, node
<1>2. Delivered' = Delivered
  <2>1. pc # "reading" /\ cur = NoFile
    BY <1>1 DEF Types, CurOK
  <2>2. sent = <<>> /\ sent' = <<>> /\ UNCHANGED out
    BY <2>1 DEF Types, CurOK, StartFile, history
  <2>3. CurPieces = <<>> /\ CurPieces' = <<>>
    BY <2>2 DEF CurPieces
  <2> QED
    BY <2>2, <2>3 DEF Delivered
<1>3. WrittenIsExact' /\ DeliveredIsPrefix'
  BY <1>2, NothingWritten
<1>4. /\ cur' = f /\ k \in Nat \ {0} /\ DOMAIN queue = 1 .. k
      /\ Len(queue') = k - 1 /\ DOMAIN queue' = 1 .. k - 1
      /\ \A i \in 1 .. k - 1 : queue'[i] = queue[i + 1]
      /\ queue' = <<>> => k = 1
  <2>1. queue \in Seq(DOMAIN fileMap)
    BY DEF Types, MapOK
  <2>2. k \in Nat \ {0} /\ DOMAIN queue = 1 .. k
    BY <1>1, QueueFacts
  <2>3. /\ Tail(queue) \in Seq(DOMAIN fileMap) /\ Len(Tail(queue)) = k - 1
        /\ \A i \in 1 .. Len(Tail(queue)) : Tail(queue)[i] = queue[i + 1]
    BY <1>1, <2>1, HeadTailProperties
  <2>4. DOMAIN Tail(queue) = 1 .. k - 1
    BY <2>3, LenProperties
  <2>5. cur' = f
    BY <1>1, <2>1 DEF StartFile
  <2>6. Tail(queue) = <<>> => k - 1 = 0
    BY <2>3, EmptySeq
  <2> QED
    BY <1>1, <2>2, <2>3, <2>4, <2>5, <2>6
<1>5. /\ f \in Nat /\ f \in File /\ f \in DOMAIN fileMap
      /\ \A i \in 1 .. k : queue[i] \in Nat /\ queue[i] = f + i - 1
      /\ \A i \in 1 .. k : fileMap[queue[i]] = 0 \/ queue[i] = L
  <2>1. \A i \in 1 .. k : queue[i] \in Nat /\ queue[i] \in File /\ queue[i] \in DOMAIN fileMap
    BY <1>1, QueueFacts
  <2>2. 1 \in 1 .. k
    BY <1>4
  <2>3. /\ \A i \in 1 .. k : queue[i] = f + i - 1
        /\ \A i \in 1 .. k : fileMap[queue[i]] = 0 \/ queue[i] = L
    BY <1>1, <1>4 DEF StreamIInv, QueueIsInterval, Working
  <2> QED
    BY <2>1, <2>2, <2>3
<1>6. f = L \/ (f = L + 1 /\ (L # NoFile => lastFile.position = size[L]))
  BY <1>1 DEF StreamIInv, QueueGoesOn, Working
<1>7. /\ L \in Nat /\ lastFile.position \in Nat
      /\ L = NoFile => lastFile.position = 0
      /\ L # NoFile => L \in File /\ lastFile.position = fileMap[L]
  BY <1>1, LastFacts DEF StreamIInv
<1>8. Cursor(L, lastFile.position)
  BY <1>1 DEF StreamIInv, AtCursor, Working
<1>9. Cursor(f, fileMap[f])
  <2>1. CASE f = L
    BY <1>5, <1>7, <1>8, <2>1, Bounds
  <2>2. CASE f # L
    <3>1. fileMap[f] = 0 /\ f = L + 1
      <4>1. 1 \in 1 .. k
        BY <1>4
      <4> QED
        BY <1>5, <1>6, <2>2, <4>1
    <3>2. ASSUME NEW i \in DOMAIN written
          PROVE  UpTo(written[i], f, 0) <=> UpTo(written[i], L, lastFile.position)
      <4>1. /\ written[i].file \in Nat \ {0} /\ written[i].file \in File
            /\ written[i].from \in Nat /\ written[i].to \in Nat
        BY WrittenFacts
      <4>2. written[i].to = written[i].from + LineLen /\ written[i].to <= size[written[i].file]
        BY DEF StreamIInv, WrittenIsExact
      <4>3. written[i].to > 0
        BY <4>1, <4>2 DEF LineLen
      <4>4. UpTo(written[i], f, 0) <=> written[i].file <= L
        BY <1>7, <3>1, <4>1, <4>3 DEF UpTo
      <4>5. CASE written[i].file = L
        <5>1. L # NoFile /\ lastFile.position = size[L]
          BY <1>6, <2>2, <4>1, <4>5, Bounds
        <5> QED
          BY <1>7, <4>1, <4>2, <4>4, <4>5, <5>1 DEF UpTo
      <4>6. CASE written[i].file # L
        BY <1>7, <4>1, <4>4, <4>6 DEF UpTo
      <4> QED
        BY <4>5, <4>6
    <3> QED
      BY <1>8, <3>1, <3>2 DEF Cursor
  <2> QED
    BY <2>1, <2>2
<1>10. AtCursor'
  BY <1>1, <1>2, <1>4, <1>9 DEF AtCursor, Cursor
<1>11. LastIsKnown' /\ ListingIsInterval'
  BY <1>1 DEF StreamIInv, LastIsKnown, ListingIsInterval
<1> HIDE DEF f, L, k
<1>12. MapIsInterval'
  <2>1. DOMAIN fileMap = 1 .. queue[k]
    BY <1>1 DEF StreamIInv, MapIsInterval, KnownUpTo, Working, k
  <2>2. CASE queue' = <<>>
    <3>1. queue[k] = f
      BY <1>4, <2>2 DEF f
    <3> QED
      BY <1>1, <1>4, <2>1, <2>2, <3>1 DEF MapIsInterval, KnownUpTo
  <2>3. CASE queue' # <<>>
    <3>1. k - 1 # 0
      <4>1. Len(queue') # 0
        BY <1>1, <2>3, QueueTail, EmptySeq
      <4> QED
        BY <1>4, <4>1
    <3>2. k - 1 \in 1 .. k - 1 /\ (k - 1) + 1 = k
      BY <1>4, <3>1
    <3>3. queue'[Len(queue')] = queue[k]
      BY <1>4, <3>2
    <3> QED
      BY <1>1, <2>1, <2>3, <3>3 DEF MapIsInterval, KnownUpTo
  <2> QED
    BY <2>2, <2>3
<1>13. ASSUME queue' # <<>>
       PROVE  /\ queue'[1] = f + 1
              /\ \A i \in 1 .. k - 1 : queue'[i] = f + i /\ fileMap[queue'[i]] = 0
  <2>1. k - 1 # 0
    <3>1. Len(queue') # 0
      BY <1>1, <1>13, QueueTail, EmptySeq
    <3> QED
      BY <1>4, <3>1
  <2>2. ASSUME NEW i \in 1 .. k - 1 PROVE queue'[i] = f + i /\ fileMap[queue'[i]] = 0
    <3>1. i + 1 \in 1 .. k /\ queue'[i] = queue[i + 1]
      BY <1>4
    <3>2. queue'[i] = f + i
      BY <1>5, <3>1
    <3>3. queue'[i] # L
      BY <1>5, <1>6, <1>7, <3>2
    <3> QED
      BY <1>5, <3>1, <3>2, <3>3
  <2>3. 1 \in 1 .. k - 1
    BY <1>4, <2>1
  <2> QED
    BY <2>2, <2>3
<1>14. QueueIsInterval'
  <2> SUFFICES ASSUME queue' # <<>>, NEW i \in 1 .. k - 1
               PROVE  queue'[i] = queue'[1] + i - 1 /\ fileMap[queue'[i]] = 0
    BY <1>1, <1>4 DEF QueueIsInterval
  <2> QED
    BY <1>5, <1>13
<1>15. QueueGoesOn'
  BY <1>1, <1>4, <1>13 DEF QueueGoesOn
<1> QED
  BY <1>3, <1>10, <1>11, <1>12, <1>14, <1>15 DEF StreamIInv

\* The FileReader cuts off exactly the line at its position, and stops only at
\* the end of the file as it was last measured.
LEMMA NextLine ==
    ASSUME Types, AtLineStarts, pc = "reading", FR!NormalStep
    PROVE  /\ position < position' => position' = position + LineLen
           /\ fileSize = size[cur] =>
                /\ fileSize' = fileSize
                /\ (readPc \in {"waiting", "done"} => position = size[cur]) =>
                     (readPc' \in {"waiting", "done"} => position' = size[cur])
<1> DEFINE n == size[cur]
           N == {b \in 1 .. n : IsNewline(b)}
<1>1. /\ cur \in File /\ n \in Nat /\ position \in Nat /\ position <= n
      /\ Even(n) /\ Even(position) /\ fileSize \in Nat
      /\ fileSize = 0 => position = 0
  BY ReadingFacts DEF AtLineStarts, Types, ReadingOK
<1>2. \A b : b \in N <=> b \in 1 .. n /\ Even(b)
  BY DEF IsNewline, Even
<1>3. n > position => n \in N /\ position + LineLen \in N
  <2> SUFFICES ASSUME n > position PROVE n \in N /\ position + LineLen \in N
    OBVIOUS
  <2>1. position + LineLen <= n
    BY <1>1, EvenApart
  <2>2. Even(position + LineLen)
    BY <1>1, EvenAdd
  <2>3. position + LineLen \in 1 .. n /\ n \in 1 .. n
    BY <1>1, <2>1 DEF LineLen
  <2> QED
    BY <1>1, <1>2, <2>2, <2>3
<1>4. CASE FR!ReadEmpty \/ FR!Timeout
  BY <1>1, <1>4 DEF FR!ReadEmpty, FR!Timeout, FR!Return
<1>5. CASE FR!Reopen
  BY <1>1, <1>5 DEF FR!Reopen
<1>6. CASE FR!ReadLine
  <2>1. PICK e \in N : /\ e > position /\ \A b \in N : b > position => e <= b
                       /\ position' = e
    BY <1>6 DEF FR!ReadLine, FR!LineEnd
  <2>2. e \in Nat /\ e <= n /\ Even(e)
    BY <1>1, <1>2, <2>1
  <2>3. position + LineLen <= e
    BY <1>1, <2>1, <2>2, EvenApart
  <2>4. e <= position + LineLen
    <3>1. n > position
      BY <1>1, <2>1, <2>2
    <3>2. position + LineLen > position
      BY <1>1 DEF LineLen
    <3> QED
      BY <1>3, <2>1, <3>1, <3>2
  <2>5. position' = position + LineLen
    BY <1>1, <2>1, <2>2, <2>3, <2>4 DEF LineLen
  <2> QED
    BY <1>6, <2>5 DEF FR!ReadLine
<1>7. CASE FR!ReadTail
  <2>1. position' = n /\ fileSize' = fileSize /\ \A b \in N : b <= position
    BY <1>7 DEF FR!ReadTail
  <2>2. ~(n > position)
    BY <1>1, <1>3, <2>1
  <2> QED
    BY <1>1, <2>1, <2>2
<1> QED
  BY <1>4, <1>5, <1>6, <1>7 DEF FR!NormalStep

\* A line sent is the first one the node wrote and nobody was given yet.
LEMMA SendsNext ==
    ASSUME Types, AtLineStarts, StreamIInv, UNCHANGED node, Read, pc = "reading", FR!NormalStep,
           position < position', sent' = Append(sent, [from |-> position, to |-> position'])
    PROVE  Stream!Deliver /\ DeliveredIsPrefix' /\ AtCursor'
<1> DEFINE n == Len(Delivered)
           m == Len(written)
           e == position + LineLen
           line == LineAt(cur, position)
<1>1. /\ cur \in File /\ cur \in Nat /\ position \in Nat /\ Even(position)
      /\ position' = e /\ e \in Nat /\ e > position
      /\ UNCHANGED <<cur, pc, size, written>>
  <2>1. position' = e /\ position \in Nat
    BY NextLine, ReadingFacts
  <2>2. e \in Nat /\ e > position
    BY <2>1 DEF LineLen
  <2> QED
    BY <2>1, <2>2, ReadingFacts DEF AtLineStarts, Read, node
<1>2. e <= size[cur]
  <2>1. position' \in 0 .. size[cur] /\ size[cur] \in Nat
    BY ReadStep, ReadingFacts
  <2> QED
    BY <1>1, <2>1
<1>3. Delivered' = Append(Delivered, line) /\ line \in PieceOf
  <2>1. [from |-> position, to |-> e] \in [from : Nat, to : Nat]
    BY <1>1
  <2>2. sent' = Append(sent, [from |-> position, to |-> e])
    BY <1>1
  <2> QED
    BY <2>1, <2>2, DeliveredGrows DEF LineAt
<1>4. /\ n \in Nat /\ m \in Nat /\ DOMAIN written = 1 .. m /\ DOMAIN Delivered = 1 .. n /\ n <= m
      /\ \A i \in 1 .. m : /\ written[i].file \in Nat /\ written[i].from \in Nat
                           /\ written[i].to \in Nat /\ written[i].from < written[i].to
      /\ \A i \in 1 .. n : Delivered[i] = written[i]
  <2>1. \A i \in 1 .. m : written[i].to = written[i].from + LineLen
    BY WrittenFacts DEF StreamIInv, WrittenIsExact
  <2>2. \A i \in 1 .. m : written[i].from < written[i].to
    BY <2>1, WrittenFacts DEF LineLen
  <2>3. n <= m /\ \A i \in 1 .. n : Delivered[i] = written[i]
    BY WrittenFacts DEF StreamIInv, DeliveredIsPrefix
  <2> QED
    BY <2>2, <2>3, WrittenFacts
<1>5. /\ Len(Delivered') = n + 1 /\ DOMAIN Delivered' = 1 .. n + 1
      /\ \A i \in 1 .. n : Delivered'[i] = Delivered[i]
      /\ Delivered'[n + 1] = line
  <2>1. /\ Append(Delivered, line) \in Seq(PieceOf) /\ Len(Append(Delivered, line)) = n + 1
        /\ \A i \in 1 .. n : Append(Delivered, line)[i] = Delivered[i]
        /\ Append(Delivered, line)[n + 1] = line
    BY <1>3, WrittenFacts, AppendProperties
  <2> QED
    BY <1>3, <2>1, LenProperties
<1>6. \A i \in 1 .. m : i <= n <=> UpTo(written[i], cur, position)
  BY <1>4 DEF StreamIInv, AtCursor, Working, Cursor
<1>7. \A i, j \in 1 .. m : i < j =>
        \/ written[i].file < written[j].file
        \/ written[i].file = written[j].file /\ written[i].to <= written[j].from
  BY <1>4 DEF StreamIInv, WrittenIsExact
<1>8. PICK k \in 1 .. m : written[k] = line
  <2>1. \A f \in File : \A p \in Nat :
          Even(p) /\ p + LineLen <= size[f] => \E i \in DOMAIN written : written[i] = LineAt(f, p)
    BY DEF StreamIInv, WrittenIsExact
  <2> QED
    BY <1>1, <1>2, <1>4, <2>1
<1>9. line.file = cur /\ line.from = position /\ line.to = e
  BY DEF LineAt
<1> HIDE DEF n, m, e, line
<1>10. k = n + 1
  <2>1. ~(k <= n)
    BY <1>1, <1>6, <1>8, <1>9 DEF UpTo
  <2>2. \A j \in 1 .. m : j < k => j <= n
    <3> SUFFICES ASSUME NEW j \in 1 .. m, j < k PROVE UpTo(written[j], cur, position)
      BY <1>6
    <3> QED
      BY <1>7, <1>8, <1>9 DEF UpTo
  <2>3. ~(n + 1 < k)
    <3> SUFFICES ASSUME n + 1 < k PROVE FALSE
      OBVIOUS
    <3>1. n + 1 \in 1 .. m /\ ~(n + 1 <= n)
      BY <1>4
    <3> QED
      BY <2>2, <3>1
  <2> QED
    BY <1>4, <2>1, <2>3
<1>11. Stream!Deliver
  <2>1. n < m /\ written[n + 1] = line
    BY <1>4, <1>8, <1>10
  <2> QED
    BY <1>1, <1>3, <2>1 DEF Stream!Deliver, n, m
<1>12. DeliveredIsPrefix'
  <2>1. n + 1 <= m
    BY <1>4, <1>10
  <2>2. \A i \in 1 .. n + 1 : Delivered'[i] = written[i]
    <3> SUFFICES ASSUME NEW i \in 1 .. n + 1 PROVE Delivered'[i] = written[i]
      OBVIOUS
    <3>1. i \in 1 .. n \/ i = n + 1
      BY <1>4
    <3> QED
      BY <1>4, <1>5, <1>8, <1>10, <3>1
  <2> QED
    BY <1>1, <1>5, <2>1, <2>2 DEF DeliveredIsPrefix, m
<1>13. AtCursor'
  <2>1. ASSUME NEW i \in 1 .. m PROVE i <= n + 1 <=> UpTo(written[i], cur, e)
    <3>1. CASE i <= n
      <4>1. UpTo(written[i], cur, position)
        BY <1>6, <3>1
      <4>2. written[i].to \in Nat
        BY <1>4
      <4>3. UpTo(written[i], cur, e)
        BY <1>1, <4>1, <4>2 DEF UpTo
      <4> QED
        BY <1>4, <3>1, <4>3
    <3>2. CASE i = n + 1
      BY <1>1, <1>4, <1>8, <1>9, <1>10, <3>2 DEF UpTo
    <3>3. CASE k < i
      <4>1. \/ cur < written[i].file
            \/ cur = written[i].file /\ e <= written[i].from
        BY <1>7, <1>8, <1>9, <3>3
      <4>2. /\ written[i].file \in Nat /\ written[i].from \in Nat
            /\ written[i].to \in Nat /\ written[i].from < written[i].to
        BY <1>4
      <4>3. ~UpTo(written[i], cur, e)
        BY <1>1, <4>1, <4>2 DEF UpTo
      <4> QED
        BY <1>4, <1>10, <3>3, <4>3
    <3> QED
      BY <1>4, <1>10, <3>1, <3>2, <3>3
  <2> QED
    BY <1>1, <1>4, <1>5, <2>1 DEF AtCursor, Cursor
<1> QED
  BY <1>11, <1>12, <1>13

LEMMA ReadStream ==
    ASSUME Types, AtLineStarts, StreamIInv, UNCHANGED node, Read, FR!NormalStep
    PROVE  /\ StreamIInv'
           /\ Stream!Deliver \/ UNCHANGED <<written, Delivered>>
<1>1. /\ pc = "reading"
      /\ UNCHANGED <<created, size, written, pc, listing, fileMap, queue, lastFile, cur, out>>
  BY DEF Read, mem, node
<1>2. WrittenIsExact'
  BY NothingWritten
<1>3. LastIsKnown' /\ ListingIsInterval' /\ MapIsInterval' /\ QueueIsInterval'
  BY <1>1 DEF StreamIInv, LastIsKnown, ListingIsInterval, MapIsInterval, KnownUpTo,
              QueueIsInterval, Working
<1>4. QueueGoesOn'
  BY <1>1, NextLine DEF StreamIInv, QueueGoesOn, Working
<1>5. DeliveredIsPrefix' /\ AtCursor' /\ (Stream!Deliver \/ UNCHANGED <<written, Delivered>>)
  <2>1. CASE /\ position < position'
             /\ sent' = Append(sent, [from |-> position, to |-> position'])
    BY <1>1, <2>1, SendsNext
  <2>2. CASE UNCHANGED <<position, sent>>
    <3>1. Delivered' = Delivered
      BY <1>1, <2>2 DEF Delivered, CurPieces
    <3>2. DeliveredIsPrefix'
      BY <3>1, NothingWritten
    <3> QED
      BY <1>1, <2>2, <3>1, <3>2 DEF StreamIInv, AtCursor, Cursor, Working
  <2> QED
    BY <1>1, <2>1, <2>2, ReadLineOrNothing
<1> QED
  BY <1>2, <1>3, <1>4, <1>5 DEF StreamIInv

LEMMA RecordStream ==
    ASSUME Types, StreamIInv, UNCHANGED node, Record, Delivered' = Delivered
    PROVE  StreamIInv'
<1>1. /\ pc = "reading" /\ readPc = "done" /\ pc' = "select" /\ result = position
      /\ fileMap' = [fileMap EXCEPT ![cur] = position]
      /\ lastFile' = [name |-> cur, position |-> position]
      /\ UNCHANGED <<created, size, written, queue>>
  BY DEF Record, PositionReturned, Types, ReadingOK, node
<1>2. WrittenIsExact' /\ DeliveredIsPrefix'
  BY NothingWritten
<1>3. /\ DOMAIN fileMap' = DOMAIN fileMap /\ fileMap'[cur] = position
      /\ \A f \in DOMAIN fileMap : f # cur => fileMap'[f] = fileMap[f]
      /\ lastFile'.name = cur /\ lastFile'.position = position
      /\ cur \in DOMAIN fileMap /\ cur \in Nat
  BY <1>1, ReadingFacts
<1>4. AtCursor'
  BY <1>1, <1>3 DEF StreamIInv, AtCursor, Cursor, Working
<1>5. LastIsKnown' /\ ListingIsInterval'
  BY <1>1, <1>3 DEF LastIsKnown, ListingIsInterval
<1>6. MapIsInterval'
  BY <1>1, <1>3 DEF StreamIInv, MapIsInterval, KnownUpTo, Working
<1>7. ASSUME queue # <<>>
      PROVE  /\ queue[1] = cur + 1 /\ position = size[cur]
             /\ \A i \in DOMAIN queue : queue[i] = queue[1] + i - 1 /\ fileMap[queue[i]] = 0
  BY <1>1, <1>7 DEF StreamIInv, QueueGoesOn, QueueIsInterval, Working
<1>8. QueueIsInterval'
  <2> SUFFICES ASSUME queue # <<>>, NEW i \in DOMAIN queue
               PROVE  queue[i] = queue[1] + i - 1 /\ fileMap'[queue[i]] = 0
    BY <1>1 DEF QueueIsInterval
  <2>1. i \in Nat \ {0} /\ queue[i] \in DOMAIN fileMap
    BY QueueFacts
  <2>2. queue[i] # cur
    BY <1>3, <1>7, <2>1
  <2> QED
    BY <1>3, <1>7, <2>1, <2>2
<1>9. QueueGoesOn'
  BY <1>1, <1>3, <1>7 DEF QueueGoesOn
<1> QED
  BY <1>2, <1>4, <1>5, <1>6, <1>8, <1>9 DEF StreamIInv

-----------------------------------------------------------------------------

\* No system call has failed and the process is the first one.
Unharmed == faults = 0 /\ restarts = 0

LEMMA InitStream == Init => StreamIInv /\ Stream!Init
<1> SUFFICES ASSUME Init PROVE StreamIInv /\ Stream!Init
  OBVIOUS
<1>1. /\ written = <<>> /\ queue = <<>> /\ pc = "select" /\ fileMap = <<>>
      /\ lastFile = [name |-> NoFile, position |-> 0] /\ size = [f \in File |-> 0]
  BY DEF Init
<1>2. Delivered = <<>>
  <2>1. sent = <<>> /\ out = <<>>
    BY DEF Init
  <2>2. CurPieces = <<>>
    BY <2>1 DEF CurPieces
  <2> QED
    BY <2>1, <2>2 DEF Delivered
<1>3. Len(<<>>) = 0 /\ DOMAIN <<>> = {}
  BY EmptySeq
<1>4. WrittenIsExact /\ DeliveredIsPrefix
  <2>1. \A p \in Nat : ~(p + LineLen <= 0)
    BY DEF LineLen
  <2> QED
    BY <1>1, <1>2, <1>3, <2>1 DEF WrittenIsExact, DeliveredIsPrefix
<1>5. AtCursor /\ LastIsKnown /\ ListingIsInterval /\ QueueIsInterval /\ QueueGoesOn
  BY <1>1, <1>3 DEF AtCursor, Cursor, LastIsKnown, ListingIsInterval, QueueIsInterval, QueueGoesOn
<1>6. MapIsInterval
  <2>1. 1 .. NoFile = {}
    BY Bounds
  <2> QED
    BY <1>1, <1>3, <2>1 DEF MapIsInterval, KnownUpTo
<1> QED
  BY <1>1, <1>2, <1>4, <1>5, <1>6 DEF StreamIInv, Stream!Init

\* The node's lines are values that LineStream allows.
LEMMA NodeWrites ==
    ASSUME Types, AtLineStarts, Node
    PROVE  Stream!Write \/ UNCHANGED <<written, Delivered>>
<1>1. Delivered' = Delivered
  BY DeliveredWhileWriting
<1>2. CASE CreateFile
  BY <1>1, <1>2 DEF CreateFile
<1>3. CASE WriteLine
  <2> DEFINE bound == MaxLines * LineLen
             p == size[created]
  <2>1. bound \in Nat /\ Even(bound)
    <3>1. MaxLines \in Nat
      BY LogsAssumption
    <3> QED
      BY <3>1 DEF Even, LineLen
  <2>2. created \in File /\ p \in Nat /\ p < bound /\ Even(p)
    BY <1>3, Bounds DEF WriteLine, Types, NodeOK, AtLineStarts
  <2> HIDE DEF bound, p
  <2>3. p + LineLen <= bound
    BY <2>1, <2>2, EvenApart
  <2>4. p + LineLen \in 1 .. bound /\ p \in 0 .. bound
    BY <2>1, <2>2, <2>3 DEF LineLen
  <2>5. LineAt(created, p) \in [file : File, from : 0 .. bound, to : 1 .. bound]
    BY <2>2, <2>4 DEF LineAt
  <2> QED
    BY <1>1, <1>3, <2>5 DEF WriteLine, Stream!Write, p, bound
<1> QED
  BY <1>2, <1>3 DEF Node

\* A crash leaves what was delivered as it is, and nothing more is.
LEMMA PutAwayStream ==
    ASSUME Types, StreamIInv, UNCHANGED node, Crash, Delivered' = Delivered
    PROVE  StreamIInv'
<1>1. pc' = "down" /\ UNCHANGED <<fileMap, lastFile>>
  BY DEF Crash, mem
<1> QED
  BY <1>1, NothingWritten
     DEF StreamIInv, AtCursor, LastIsKnown, ListingIsInterval, MapIsInterval, QueueIsInterval,
         QueueGoesOn, Working

\* Every step keeps the invariant and is, on the lines, a step of LineStream.
LEMMA StreamStep ==
    ASSUME Types, AtLineStarts, StreamIInv, [Next]_vars, Unharmed, Unharmed'
    PROVE  StreamIInv' /\ [Stream!Next]_<<written, Delivered>>
<1>1. ~StartFails /\ (Read => FR!NormalStep) /\ ~Drop /\ ~Restart
  <2>1. ~StartFails /\ (Read => FR!NormalStep) /\ (Drop => readPc = "failed")
    BY NoFault DEF Unharmed
  <2>2. ~Drop
    BY <2>1 DEF Drop, AtLineStarts
  <2>3. ~Restart
    BY DEF Restart, Unharmed
  <2> QED
    BY <2>1, <2>2, <2>3
<1>2. CASE Node
  BY <1>2, NodeStream, NodeWrites DEF Stream!Next
<1>3. ASSUME ~Node PROVE UNCHANGED node
  BY <1>3 DEF Next, ReaderStep, Environment, vars, node
<1>4. CASE ~Node /\ Read
  BY <1>1, <1>3, <1>4, ReadStream DEF Stream!Next
<1>5. ASSUME ~Node, ~Read PROVE StreamIInv' /\ UNCHANGED <<written, Delivered>>
  <2>1. UNCHANGED node
    BY <1>3, <1>5
  <2>2. Delivered' = Delivered
    BY <1>1, <1>5, DeliveredKept
  <2>3. UNCHANGED written
    BY <2>1 DEF node
  <2>4. CASE ReadDir \/ Stop \/ Cancel
    BY <2>1, <2>3, <2>2, <2>4, LoopStream
  <2>5. CASE AddNewFiles
    BY <2>1, <2>2, <2>3, <2>5, AddNewFilesStream
  <2>6. CASE StartFile
    BY <2>1, <2>2, <2>3, <2>6, StartFileStream
  <2>7. CASE Record
    BY <2>1, <2>2, <2>3, <2>7, RecordStream
  <2>8. CASE Crash
    BY <2>1, <2>2, <2>3, <2>8, PutAwayStream
  <2>9. CASE UNCHANGED vars
    <3>1. UNCHANGED <<pc, listing, fileMap, queue, lastFile, cur, position, fileSize, readPc,
                      created, size, written>>
      BY <2>9 DEF vars
    <3> QED
      BY <2>2, <3>1
         DEF StreamIInv, WrittenIsExact, DeliveredIsPrefix, AtCursor, Cursor, LastIsKnown,
             ListingIsInterval, MapIsInterval, KnownUpTo, QueueIsInterval, QueueGoesOn, Working
  <2> QED
    BY <1>1, <1>5, <2>4, <2>5, <2>6, <2>7, <2>8, <2>9 DEF Next, ReaderStep, Environment
<1> QED
  BY <1>2, <1>4, <1>5

\* As long as its process lives and no system call fails, the reader implements
\* LineStream over the whole directory: the lines of all files are given to
\* sendFunc one at a time in the order the node wrote them, none skipped and none
\* twice, however appends, new files, scans and timeouts fall.
THEOREM ImplementsLineStream == Spec /\ []Unharmed => StreamInOrder
<1>1. Init => StreamIInv /\ Stream!Init
  BY InitStream
<1>2. /\ Types /\ Aligned /\ StreamIInv /\ [Next]_vars /\ Unharmed /\ Unharmed'
      => StreamIInv' /\ [Stream!Next]_<<written, Delivered>>
  BY StreamStep DEF Aligned, Unharmed
<1> QED
  BY <1>1, <1>2, TypesInvariance, OrderInvariance, PTL DEF Spec, StreamInOrder, Stream!Spec

=============================================================================
