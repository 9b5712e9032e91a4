-------------------------- MODULE LogsReader_proofs --------------------------
(***************************************************************************)
(* Theorems about LogsReader for every number of files, lines, restarts,   *)
(* crashes and failing system calls, every channel capacity and every      *)
(* length of a path.                                                       *)
(***************************************************************************)
EXTENDS LogsReader, WellFoundedInduction, SequenceTheorems, FiniteSetTheorems, TLAPS

\* A byte of file_list.txt names a file that exists and a position up to which
\* that file has been sent, whatever has been written over its record.
ListByte ==
    {b \in [name : 1 .. created, position : Nat, left : Nat] : b.position <= ever[b.name]}

NodeOK ==
    /\ created \in 0 .. NumFiles
    /\ size \in [File -> Nat]
    /\ written \in Seq(PieceOf)

ProcessOK ==
    /\ pc \in {"select", "listed", "blocked", "reading", "down", "stopped", "panicked"}
    /\ cancelled \in BOOLEAN
    /\ restarts \in 0 .. MaxRestarts
    /\ faults \in 0 .. MaxFaults

ListOK ==
    /\ list \in Seq(ListByte)
    /\ listPos \in 0 .. Len(list)

MapOK ==
    /\ listing \subseteq 1 .. created
    /\ DOMAIN fileMap \subseteq 1 .. created
    /\ \A f \in DOMAIN fileMap : fileMap[f] \in Nat /\ fileMap[f] <= ever[f]
    /\ queue \in Seq(DOMAIN fileMap)
    /\ lastFile \in [name : File \cup {NoFile}, position : Nat]

HistoryOK ==
    /\ out \in Seq(PieceOf)
    /\ ever \in [File -> Nat]
    /\ \A f \in File : ever[f] <= size[f]
    /\ recorded \in [File -> Nat]

CurOK ==
    /\ cur = NoFile \/ cur \in DOMAIN fileMap
    /\ pc = "reading" <=> cur # NoFile
    /\ cur = NoFile => sent = <<>>

\* What a FileReader knows of the file being read.  ReadEmpty returns 0, which
\* is the position only because a file that was empty has nothing before it.
ReadingOK ==
    pc = "reading" =>
      /\ position \in 0 .. size[cur]
      /\ fileSize \in 0 .. size[cur]
      /\ readPc \in {"reading", "waiting", "done", "failed"}
      /\ result \in Nat \cup {-1}
      /\ sent \in Seq([from : Nat, to : Nat])
      /\ fileSize = 0 => position = 0
      /\ readPc = "done" => result = position

Types == NodeOK /\ ProcessOK /\ ListOK /\ MapOK /\ HistoryOK /\ CurOK /\ ReadingOK

-----------------------------------------------------------------------------
(* Order within one process, as long as no system call fails.              *)

Even(n) == n % LineLen = 0

EvenByte == {b \in [name : File, position : Nat, left : Nat] : Even(b.position)}

\* A line is one byte and its newline, so that no string sent is blank.
AtLineStarts ==
    /\ \A f \in File : Even(size[f])
    /\ \A f \in DOMAIN fileMap : Even(fileMap[f])
    /\ list \in Seq(EvenByte)
    /\ pc = "reading" => Even(position) /\ readPc # "failed"

Working == pc \in {"select", "listed", "reading"}

\* Nothing delivered is past position p of file f, and the last piece ends there
\* if it is of that file.
Before(f, p) ==
    \A i \in DOMAIN Delivered :
      \/ Delivered[i].file < f
      \/ /\ Delivered[i].file = f
         /\ Delivered[i].to <= p
         /\ i = Len(Delivered) => Delivered[i].to = p

BeforePosition == pc = "reading" => Before(cur, position)

BeforeLastFile ==
    pc \in {"select", "listed"} /\ Delivered # <<>> =>
      /\ lastFile.name \in DOMAIN fileMap
      /\ Before(lastFile.name, fileMap[lastFile.name])

\* The channel holds files in order, none before what has been delivered.
QueueAhead ==
    Working =>
      /\ \A i, j \in DOMAIN queue : i < j => queue[i] < queue[j]
      /\ pc = "reading" => \A i \in DOMAIN queue : cur < queue[i]
      /\ pc \in {"select", "listed"} /\ Delivered # <<>> =>
           \A i \in DOMAIN queue : lastFile.name <= queue[i]

\* A directory scan misses no file: once a process has acted on one, the files
\* it knows are the first ones.
KnowsFirstFiles ==
    Working /\ (Delivered # <<>> \/ queue # <<>> \/ pc = "reading") =>
      \A f \in DOMAIN fileMap : 1 .. f \subseteq DOMAIN fileMap

ListingIsComplete ==
    pc = "listed" =>
      /\ queue = <<>>
      /\ DOMAIN fileMap \subseteq listing
      /\ \A f \in listing : 1 .. f \subseteq listing

Aligned == faults = 0 => AtLineStarts

Increasing ==
    \A i, j \in DOMAIN Delivered : i < j =>
      \/ Delivered[i].file < Delivered[j].file
      \/ /\ Delivered[i].file = Delivered[j].file
         /\ Delivered[i].to <= Delivered[j].from
         /\ j = i + 1 => Delivered[i].to = Delivered[j].from

Ordered ==
    /\ Increasing
    /\ BeforePosition /\ BeforeLastFile
    /\ QueueAhead /\ KnowsFirstFiles /\ ListingIsComplete

InOrder == faults = 0 => Ordered

-----------------------------------------------------------------------------
(* Constants, numbers and sequences.                                       *)

LEMMA Bounds ==
    /\ NumFiles \in Nat /\ MaxRestarts \in Nat /\ MaxFaults \in Nat
    /\ PathLen \in Nat
    /\ NoFile = 0 /\ File = 1 .. NumFiles
BY LogsAssumption DEF NoFile, File

LEMMA LeastExists ==
    ASSUME NEW S \in SUBSET Nat, S # {}
    PROVE  \E s \in S : \A x \in S : s <= x
<1> DEFINE R == OpToRel(<, Nat)
<1>1. IsWellFoundedOn(R, Nat)
  BY NatLessThanWellFounded
<1>2. \A x, y \in Nat : <<x, y>> \in R <=> x < y
  BY DEF OpToRel
<1> HIDE DEF R
<1>3. PICK s \in S : \A x \in S : ~ (<<x, s>> \in R)
  BY <1>1, WFMin
<1>4. \A x \in S : x \in Nat /\ ~(x < s)
  BY <1>2, <1>3
<1> QED
  BY <1>4

LEMMA MaxExists ==
    ASSUME NEW S \in SUBSET Nat, S # {}, NEW m \in Nat, \A x \in S : x <= m
    PROVE  Max(S) \in S /\ \A x \in S : x <= Max(S)
<1> DEFINE T == {m - x : x \in S}
<1>1. \A x \in S : x \in Nat /\ m - x \in Nat /\ m - x \in T
  OBVIOUS
<1>2. \A t \in T : \E x \in S : t = m - x
  OBVIOUS
<1> HIDE DEF T
<1>3. T \in SUBSET Nat /\ T # {}
  BY <1>1, <1>2
<1>4. PICK t \in T : \A y \in T : t <= y
  BY <1>3, LeastExists
<1>5. PICK s \in S : t = m - s
  BY <1>2
<1>6. \A x \in S : x <= s
  BY <1>1, <1>4, <1>5
<1> QED
  BY <1>1, <1>6 DEF Max

LEMMA DigitsType == \A p \in Nat : Digits(p) \in Nat
<1> TAKE p \in Nat
<1>1. IsFiniteSet(1 .. p)
  BY FS_Interval
<1>2. Cardinality({k \in 1 .. p : Radix ^ k <= p}) \in Nat
  BY <1>1, FS_Subset, FS_CardinalityType
<1> QED
  BY <1>2 DEF Digits

LEMMA WidthType == \A p \in Nat : Width(p) \in Nat
<1> TAKE p \in Nat
<1>1. Digits(p) \in Nat
  BY DigitsType
<1> QED
  BY <1>1, Bounds DEF Width

\* Overwrite makes up no byte and ends where the write did or later.
LEMMA OverwriteKeeps ==
    ASSUME NEW S, NEW bytes \in Seq(S), NEW new \in Seq(S), NEW o \in 0 .. Len(bytes)
    PROVE  /\ Overwrite(bytes, o, new) \in Seq(S)
           /\ o + Len(new) <= Len(Overwrite(bytes, o, new))
<1> DEFINE before == SubSeq(bytes, 1, o)
           after == SubSeq(bytes, o + Len(new) + 1, Len(bytes))
<1>1. Len(bytes) \in Nat /\ Len(new) \in Nat /\ \A i \in 1 .. Len(bytes) : bytes[i] \in S
  BY LenProperties, ElementOfSeq
<1>2. before \in Seq(S) /\ Len(before) = o
  BY <1>1, SubSeqProperties
<1>3. after \in Seq(S)
  BY <1>1, SubSeqProperties
<1> HIDE DEF before, after
<1>4. /\ before \o new \in Seq(S)
      /\ Len(before \o new) = o + Len(new)
  BY <1>2, ConcatProperties
<1>5. /\ (before \o new) \o after \in Seq(S)
      /\ Len((before \o new) \o after) = o + Len(new) + Len(after)
  BY <1>3, <1>4, ConcatProperties
<1>6. Len(after) \in Nat
  BY <1>3, LenProperties
<1>7. Overwrite(bytes, o, new) = (before \o new) \o after
  BY DEF Overwrite, before, after
<1> QED
  BY <1>1, <1>5, <1>6, <1>7

LEMMA SeqOfMore ==
    \A S, T : S \subseteq T => Seq(S) \subseteq Seq(T)
OBVIOUS

LEMMA RecordBytesType ==
    ASSUME NEW f, NEW p \in Nat, NEW S,
           \A n \in Nat : [name |-> f, position |-> p, left |-> n] \in S
    PROVE  RecordBytes(f, p) \in Seq(S) /\ Len(RecordBytes(f, p)) = Width(p)
<1>1. Width(p) \in Nat
  BY WidthType
<1> DEFINE w == Width(p)
<1> HIDE DEF w
<1>2. \A k \in 1 .. w : w + 1 - k \in Nat
  BY <1>1 DEF w
<1>3. \A k \in 1 .. w : [name |-> f, position |-> p, left |-> w + 1 - k] \in S
  BY <1>2
<1>4. [k \in 1 .. w |-> [name |-> f, position |-> p, left |-> w + 1 - k]] \in Seq(S)
  BY <1>1, <1>3 DEF w
<1> QED
  BY <1>1, <1>4 DEF RecordBytes, w

\* A sorted channel of the names lo to n holds them one after the other.
LEMMA SortedInterval ==
    ASSUME NEW lo \in Nat, NEW n \in Nat, lo <= n + 1, NEW q \in SortedByName(lo .. n)
    PROVE  /\ Len(q) = n - lo + 1
           /\ \A i \in 1 .. n - lo + 1 : q[i] = lo + i - 1
<1> DEFINE k == n - lo + 1
<1>1. k \in Nat /\ Cardinality(lo .. n) = k
  BY FS_Interval
<1>2. q \in [1 .. k -> lo .. n] /\ \A i, j \in 1 .. k : i < j => q[i] < q[j]
  BY <1>1 DEF SortedByName
<1>3. \A i \in 1 .. k : q[i] \in Nat /\ lo <= q[i] /\ q[i] <= n
  BY <1>2
<1>4. k = n - lo + 1
  OBVIOUS
<1> HIDE DEF k
<1>5. \A i \in 1 .. k : lo + i - 1 <= q[i]
  <2> DEFINE B == {i \in 1 .. k : q[i] < lo + i - 1}
  <2> SUFFICES ASSUME B # {} PROVE FALSE
    BY <1>3
  <2>1. \A x : x \in B <=> x \in 1 .. k /\ q[x] < lo + x - 1
    OBVIOUS
  <2> HIDE DEF B
  <2>2. B \in SUBSET Nat
    BY <1>1, <2>1
  <2>3. PICK b \in B : \A x \in B : b <= x
    BY <2>2, LeastExists
  <2>4. b \in 1 .. k /\ q[b] < lo + b - 1
    BY <2>1
  <2>5. b # 1
    BY <1>1, <1>3, <2>4
  <2>6. b - 1 \in 1 .. k /\ b - 1 < b /\ b - 1 \notin B
    BY <1>1, <2>3, <2>4, <2>5
  <2>7. ~(q[b - 1] < lo + (b - 1) - 1) /\ q[b - 1] < q[b]
    BY <1>2, <2>1, <2>4, <2>6
  <2> QED
    BY <1>1, <1>3, <2>4, <2>6, <2>7
<1>6. \A i \in 1 .. k : q[i] <= lo + i - 1
  <2> DEFINE B == {i \in 1 .. k : q[i] > lo + i - 1}
  <2> SUFFICES ASSUME B # {} PROVE FALSE
    BY <1>3
  <2>1. \A x : x \in B <=> x \in 1 .. k /\ q[x] > lo + x - 1
    OBVIOUS
  <2> HIDE DEF B
  <2>2. B \in SUBSET Nat /\ \A x \in B : x <= k
    BY <1>1, <2>1
  <2>3. Max(B) \in B /\ \A x \in B : x <= Max(B)
    BY <1>1, <2>2, MaxExists
  <2>4. PICK b \in B : \A x \in B : x <= b
    BY <2>3
  <2>5. b \in 1 .. k /\ q[b] > lo + b - 1
    BY <2>1
  <2>6. b # k
    BY <1>1, <1>3, <1>4, <2>5
  <2>7. b + 1 \in 1 .. k /\ b < b + 1 /\ b + 1 \notin B
    BY <1>1, <2>2, <2>4, <2>5, <2>6
  <2>8. ~(q[b + 1] > lo + (b + 1) - 1) /\ q[b] < q[b + 1]
    BY <1>2, <2>1, <2>5, <2>7
  <2> QED
    BY <1>1, <1>3, <2>5, <2>7, <2>8
<1>7. \A i \in 1 .. k : q[i] = lo + i - 1
  BY <1>1, <1>3, <1>5, <1>6
<1>8. Len(q) = k
  BY <1>1, <1>2
<1> QED
  BY <1>4, <1>7, <1>8

LEMMA SortedType ==
    ASSUME NEW S, IsFiniteSet(S), NEW q \in SortedByName(S)
    PROVE  q \in Seq(S) /\ \A i, j \in DOMAIN q : i < j => q[i] < q[j]
<1>1. Cardinality(S) \in Nat
  BY FS_CardinalityType
<1> QED
  BY <1>1 DEF SortedByName

-----------------------------------------------------------------------------
(* Types.                                                                  *)

LEMMA KnownFiles ==
    Types => 1 .. created \subseteq File /\ \A f \in DOMAIN fileMap : f \in File
<1> SUFFICES ASSUME Types
             PROVE  1 .. created \subseteq File /\ \A f \in DOMAIN fileMap : f \in File
  OBVIOUS
<1>1. created \in 0 .. NumFiles /\ DOMAIN fileMap \subseteq 1 .. created
  BY DEF Types, NodeOK, MapOK
<1>2. 1 .. created \subseteq File
  BY <1>1, Bounds
<1> QED
  BY <1>1, <1>2

LEMMA CurIsKnown == Types => cur = NoFile \/ (cur \in File /\ pc = "reading")
BY KnownFiles DEF Types, CurOK

LEMMA TypesImply == Types => TypeOK /\ ResumesAtSent
<1> SUFFICES ASSUME Types PROVE TypeOK /\ ResumesAtSent
  OBVIOUS
<1>1. NodeOK /\ ProcessOK /\ ListOK /\ MapOK /\ HistoryOK /\ CurOK /\ ReadingOK
  BY DEF Types
<1>2. \A f \in DOMAIN fileMap : fileMap[f] \in 0 .. size[f] /\ fileMap[f] <= ever[f]
  BY <1>1, KnownFiles DEF MapOK, HistoryOK, NodeOK
<1>3. pc = "reading" => FR!TypeOK
  <2> SUFFICES ASSUME pc = "reading" PROVE FR!TypeOK
    OBVIOUS
  <2>1. cur \in File
    BY <1>1, CurIsKnown DEF CurOK
  <2>2. size[cur] \in Nat /\ 0 \in 0 .. size[cur]
    BY <1>1, <2>1 DEF NodeOK
  <2>3. {b \in 1 .. size[cur] : IsNewline(b)} \subseteq 1 .. size[cur]
    OBVIOUS
  <2> QED
    BY <1>1, <2>2, <2>3 DEF ReadingOK, FR!TypeOK, FR!Mishaps, FR!Piece
<1>4. cur \in File \cup {NoFile}
  BY CurIsKnown
<1> QED
  BY <1>1, <1>2, <1>3, <1>4
     DEF NodeOK, ProcessOK, ListOK, MapOK, HistoryOK, CurOK, TypeOK, ResumesAtSent

LEMMA CurPiecesType == Types => CurPieces \in Seq(PieceOf)
<1> SUFFICES ASSUME Types PROVE CurPieces \in Seq(PieceOf)
  OBVIOUS
<1>1. CASE cur = NoFile
  <2>1. sent = <<>>
    BY <1>1 DEF Types, CurOK
  <2>2. CurPieces = <<>>
    BY <2>1 DEF CurPieces
  <2> QED
    BY <2>2
<1>2. CASE cur # NoFile
  <2>1. cur \in File /\ sent \in Seq([from : Nat, to : Nat])
    BY <1>2, CurIsKnown DEF Types, ReadingOK
  <2>2. Len(sent) \in Nat /\ DOMAIN sent = 1 .. Len(sent)
    BY <2>1, LenProperties
  <2>3. \A i \in 1 .. Len(sent) : sent[i] \in [from : Nat, to : Nat]
    BY <2>1, ElementOfSeq
  <2>4. \A i \in 1 .. Len(sent) :
          [file |-> cur, from |-> sent[i].from, to |-> sent[i].to] \in PieceOf
    BY <2>1, <2>3 DEF PieceOf
  <2> QED
    BY <2>2, <2>4 DEF CurPieces
<1> QED
  BY <1>1, <1>2

LEMMA DeliveredType == Types => Delivered \in Seq(PieceOf)
BY CurPiecesType, ConcatProperties DEF Types, HistoryOK, Delivered

LEMMA InitTypes == Init => Types
<1> SUFFICES ASSUME Init PROVE Types
  OBVIOUS
<1>1. NodeOK /\ ProcessOK
  <2>1. cancelled \in BOOLEAN
    BY Zenon DEF Init
  <2>2. written \in Seq(PieceOf)
    BY EmptySeq DEF Init
  <2> QED
    BY <2>1, <2>2, Bounds DEF Init, NodeOK, ProcessOK
<1>2. ListOK
  <2>1. Len(<<>>) = 0 /\ <<>> \in Seq(ListByte)
    BY EmptySeq
  <2> QED
    BY <2>1 DEF Init, ListOK
<1>3. MapOK
  <2>1. DOMAIN <<>> = {}
    BY EmptySeq
  <2>2. <<>> \in Seq(DOMAIN <<>>)
    BY EmptySeq
  <2>3. [name |-> NoFile, position |-> 0] \in [name : File \cup {NoFile}, position : Nat]
    OBVIOUS
  <2> QED
    BY <2>1, <2>2, <2>3 DEF Init, MapOK
<1>4. HistoryOK
  BY EmptySeq DEF Init, HistoryOK
<1>5. CurOK /\ ReadingOK
  BY DEF Init, CurOK, ReadingOK
<1> QED
  BY <1>1, <1>2, <1>3, <1>4, <1>5 DEF Types

\* What is left of a file that is put away: all it sent, and how far.
LEMMA LeaveFileTypes ==
    ASSUME Types, LeaveFile
    PROVE  /\ out' \in Seq(PieceOf)
           /\ ever' \in [File -> Nat]
           /\ \A f \in File : ever[f] <= ever'[f] /\ ever'[f] <= size[f]
           /\ cur # NoFile => position <= ever'[cur]
           /\ cur' = NoFile /\ sent' = <<>>
<1>1. out' \in Seq(PieceOf)
  BY DeliveredType DEF LeaveFile
<1>2. ever \in [File -> Nat] /\ size \in [File -> Nat] /\ \A f \in File : ever[f] <= size[f]
  BY DEF Types, NodeOK, HistoryOK
<1>3. cur \in File => position \in Nat /\ position <= size[cur]
  <2> SUFFICES ASSUME cur \in File PROVE position \in Nat /\ position <= size[cur]
    OBVIOUS
  <2>1. cur # NoFile
    BY Bounds
  <2>2. position \in 0 .. size[cur]
    BY <2>1, CurIsKnown DEF Types, ReadingOK
  <2> QED
    BY <1>2, <2>2
<1>4. \A f \in File : /\ SentUpTo(f) \in Nat
                      /\ ever[f] <= SentUpTo(f) /\ SentUpTo(f) <= size[f]
                      /\ f = cur => position <= SentUpTo(f)
  BY <1>2, <1>3 DEF SentUpTo
<1>5. ever' = [f \in File |-> SentUpTo(f)] /\ cur' = NoFile /\ sent' = <<>>
  BY DEF LeaveFile, NoFileReader
<1>6. cur = NoFile \/ cur \in File
  BY CurIsKnown
<1> HIDE DEF Types, LeaveFile, SentUpTo
<1>7. ever' \in [File -> Nat] /\ \A f \in File : ever[f] <= ever'[f] /\ ever'[f] <= size[f]
  BY <1>4, <1>5
<1>8. cur # NoFile => position <= ever'[cur]
  BY <1>4, <1>5, <1>6
<1> QED
  BY <1>1, <1>5, <1>7, <1>8

\* What file_list.txt says stays true when files are created or sent.
LEMMA KeptBytes ==
    ASSUME created \in Nat, created' \in Nat, created <= created', created <= NumFiles,
           ever \in [File -> Nat], ever' \in [File -> Nat],
           \A f \in File : ever[f] <= ever'[f]
    PROVE  ListByte \subseteq ListByte'
<1> SUFFICES ASSUME NEW b \in ListByte PROVE b \in ListByte'
  OBVIOUS
<1>1. /\ b \in [name : 1 .. created, position : Nat, left : Nat]
      /\ b.position <= ever[b.name]
  BY DEF ListByte
<1>2. b.name \in File /\ b.name \in 1 .. created' /\ b.position \in Nat
  BY <1>1, Bounds
<1>3. b.position <= ever'[b.name]
  BY <1>1, <1>2
<1>4. b \in [name : 1 .. created', position : Nat, left : Nat]
  BY <1>1, <1>2
<1> QED
  BY <1>3, <1>4 DEF ListByte

\* So does what the map says.
LEMMA MapStaysOK ==
    ASSUME MapOK, UNCHANGED <<listing, fileMap, queue, lastFile>>,
           created \in Nat, created' \in Nat, created <= created', created <= NumFiles,
           ever \in [File -> Nat], ever' \in [File -> Nat],
           \A f \in File : ever[f] <= ever'[f]
    PROVE  MapOK'
<1>1. 1 .. created \subseteq 1 .. created' /\ 1 .. created \subseteq File
  BY Bounds
<1>2. \A f \in DOMAIN fileMap : fileMap[f] \in Nat /\ fileMap[f] <= ever'[f]
  <2> SUFFICES ASSUME NEW f \in DOMAIN fileMap PROVE fileMap[f] \in Nat /\ fileMap[f] <= ever'[f]
    OBVIOUS
  <2>1. f \in File /\ fileMap[f] \in Nat /\ fileMap[f] <= ever[f]
    BY <1>1 DEF MapOK
  <2>2. ever[f] \in Nat /\ ever'[f] \in Nat /\ ever[f] <= ever'[f]
    BY <2>1
  <2> QED
    BY <2>1, <2>2
<1> QED
  BY <1>1, <1>2 DEF MapOK

LEMMA NodeTypes == Types /\ Node => Types'
<1> SUFFICES ASSUME Types, Node PROVE Types'
  OBVIOUS
<1> USE DEF Node, mem, fr, history
<1>1. /\ created \in Nat /\ created' \in 0 .. NumFiles /\ created <= created'
      /\ size' \in [File -> Nat] /\ \A f \in File : size[f] <= size'[f]
      /\ written' \in Seq(PieceOf)
  <2>1. CASE CreateFile
    BY <2>1, Bounds DEF CreateFile, Types, NodeOK
  <2>2. CASE WriteLine
    <3>1. created \in File /\ created \in 0 .. NumFiles /\ size \in [File -> Nat] /\ LineLen \in Nat
      BY <2>2, Bounds DEF WriteLine, Types, NodeOK, LineLen
    <3>2. LineAt(created, size[created]) \in PieceOf
      BY <3>1 DEF LineAt, PieceOf
    <3>3. written' \in Seq(PieceOf)
      BY <2>2, <3>2, AppendProperties DEF WriteLine, Types, NodeOK
    <3> QED
      BY <2>2, <3>1, <3>3, Bounds DEF WriteLine
  <2> QED
    BY <2>1, <2>2
<1>2. NodeOK' /\ ProcessOK'
  <2>1. NodeOK'
    BY <1>1 DEF NodeOK
  <2>2. ProcessOK'
    BY Zenon DEF Types, ProcessOK
  <2> QED
    BY <2>1, <2>2
<1>3. created \in 0 .. NumFiles /\ ever \in [File -> Nat]
  BY DEF Types, NodeOK, HistoryOK
<1>4. ListOK' /\ MapOK'
  <2>1. \A f \in File : ever[f] <= ever'[f]
    BY <1>3
  <2>2. list' \in Seq(ListByte')
    <3>1. ListByte \subseteq ListByte'
      BY <1>1, <1>3, <2>1, Bounds, KeptBytes
    <3> QED
      BY <3>1, SeqOfMore DEF Types, ListOK
  <2>3. MapOK'
    BY <1>1, <1>3, <2>1, Bounds, MapStaysOK DEF Types
  <2> QED
    BY <2>2, <2>3 DEF Types, ListOK
<1>5. HistoryOK'
  <2>1. \A f \in File : ever[f] \in Nat /\ ever[f] <= size[f] /\ size[f] \in Nat
    BY <1>3 DEF Types, HistoryOK, NodeOK
  <2>2. \A f \in File : ever[f] <= size'[f]
    BY <1>1, <2>1
  <2> QED
    BY <2>2 DEF Types, HistoryOK
<1>6. CurOK'
  BY DEF Types, CurOK
<1>7. ReadingOK'
  <2> SUFFICES ASSUME pc = "reading" PROVE ReadingOK'
    BY DEF ReadingOK
  <2>1. cur \in File
    BY CurIsKnown DEF Types, CurOK
  <2>2. size[cur] \in Nat /\ size'[cur] \in Nat /\ size[cur] <= size'[cur]
    BY <1>1, <2>1 DEF Types, NodeOK
  <2>3. position \in 0 .. size[cur] /\ fileSize \in 0 .. size[cur]
    BY DEF Types, ReadingOK
  <2>4. position \in 0 .. size'[cur] /\ fileSize \in 0 .. size'[cur]
    BY <2>2, <2>3
  <2> QED
    BY <2>4 DEF Types, ReadingOK
<1> QED
  BY <1>2, <1>4, <1>5, <1>6, <1>7 DEF Types

\* The steps that touch neither a file nor the list.
LEMMA LoopTypes == Types /\ UNCHANGED node /\ (ReadDir \/ Stop \/ Cancel) => Types'
<1> SUFFICES ASSUME Types, UNCHANGED node, ReadDir \/ Stop \/ Cancel PROVE Types'
  OBVIOUS
<1> USE DEF node, mem, fr, history
<1>1. UNCHANGED <<created, size, written, list, fileMap, queue, lastFile, listPos, cur, position,
                  fileSize, readPc, result, sent, out, ever, recorded, restarts, faults>>
  BY DEF ReadDir, Stop, Cancel
<1>2. listing' \in {listing, 1 .. created}
  BY DEF ReadDir, Stop, Cancel
<1>3. cancelled' \in BOOLEAN
  BY Zenon DEF Types, ProcessOK, ReadDir, Stop, Cancel
<1>4. /\ pc' \in {"select", "listed", "blocked", "reading", "down", "stopped", "panicked"}
      /\ pc' = "reading" <=> pc = "reading"
  BY DEF Types, ProcessOK, ReadDir, Stop, Cancel
<1>5. NodeOK' /\ HistoryOK'
  BY <1>1 DEF Types, NodeOK, HistoryOK
<1>6. ProcessOK'
  BY <1>1, <1>3, <1>4 DEF Types, ProcessOK
<1>7. ListOK'
  <2>1. ListByte' = ListByte
    BY <1>1 DEF ListByte
  <2> QED
    BY <1>1, <2>1 DEF Types, ListOK
<1>8. MapOK'
  BY <1>1, <1>2 DEF Types, MapOK
<1>9. CurOK' /\ ReadingOK'
  BY <1>1, <1>4 DEF Types, CurOK, ReadingOK
<1> QED
  BY <1>5, <1>6, <1>7, <1>8, <1>9 DEF Types

LEMMA AddNewFilesTypes == Types /\ UNCHANGED node /\ AddNewFiles => Types'
<1> SUFFICES ASSUME Types, UNCHANGED node, AddNewFiles PROVE Types'
  OBVIOUS
<1> USE DEF node, fr, history
<1>1. UNCHANGED <<created, size, written, list, lastFile, listPos, cur, position, fileSize, readPc,
                  result, sent, out, ever, recorded, restarts, faults>>
  BY DEF AddNewFiles
<1>2. /\ pc' \in {"blocked", "select"} /\ pc = "listed"
  BY DEF AddNewFiles
<1>3. cur = NoFile
  BY <1>2 DEF Types, CurOK
<1>4. NodeOK' /\ HistoryOK'
  BY <1>1 DEF Types, NodeOK, HistoryOK
<1>5. ProcessOK'
  <2>1. cancelled' \in BOOLEAN
    BY Zenon DEF Types, ProcessOK, AddNewFiles
  <2> QED
    BY <1>1, <1>2, <2>1 DEF Types, ProcessOK
<1>6. ListOK'
  <2>1. ListByte' = ListByte
    BY <1>1 DEF ListByte
  <2> QED
    BY <1>1, <2>1 DEF Types, ListOK
<1>7. NewFiles \subseteq 1 .. created /\ listing' = {}
  BY DEF NewFiles, Types, MapOK, AddNewFiles
<1>8. /\ DOMAIN fileMap' = DOMAIN fileMap \cup NewFiles
      /\ \A f \in DOMAIN fileMap' :
           fileMap'[f] = IF f \in NewFiles THEN OldPosition(f) ELSE fileMap[f]
  BY DEF AddNewFiles
<1>9. \A f \in DOMAIN fileMap' : fileMap'[f] \in Nat /\ fileMap'[f] <= ever[f]
  <2> SUFFICES ASSUME NEW f \in DOMAIN fileMap'
               PROVE  fileMap'[f] \in Nat /\ fileMap'[f] <= ever[f]
    OBVIOUS
  <2>1. f \in File
    BY <1>7, <1>8, KnownFiles
  <2>2. ever[f] \in Nat
    BY <2>1 DEF Types, HistoryOK
  <2>3. fileMap'[f] = IF f \in DOMAIN fileMap THEN fileMap[f] ELSE 0
    BY <1>8 DEF OldPosition
  <2> QED
    BY <2>2, <2>3 DEF Types, MapOK
<1>10. queue' \in Seq(DOMAIN fileMap')
  <2>1. IsFiniteSet(1 .. created)
    BY FS_Interval DEF Types, NodeOK
  <2>2. IsFiniteSet(NewFiles)
    BY <1>7, <2>1, FS_Subset
  <2>3. queue' \in SortedByName(NewFiles)
    BY DEF AddNewFiles
  <2>4. queue' \in Seq(NewFiles)
    BY <2>2, <2>3, SortedType
  <2> QED
    BY <1>8, <2>4, SeqOfMore
<1>11. MapOK'
  BY <1>1, <1>7, <1>8, <1>9, <1>10 DEF Types, MapOK
<1>12. CurOK' /\ ReadingOK'
  BY <1>1, <1>2, <1>3 DEF Types, CurOK, ReadingOK
<1> QED
  BY <1>4, <1>5, <1>6, <1>11, <1>12 DEF Types

LEMMA QueueTail ==
    Types /\ queue # <<>> => Head(queue) \in DOMAIN fileMap /\ Tail(queue) \in Seq(DOMAIN fileMap)
BY HeadTailProperties DEF Types, MapOK

LEMMA StartTypes == Types /\ UNCHANGED node /\ (StartFile \/ StartFails) => Types'
<1> SUFFICES ASSUME Types, UNCHANGED node, StartFile \/ StartFails PROVE Types'
  OBVIOUS
<1> USE DEF node, fr, history
<1>1. UNCHANGED <<created, size, written, list, cancelled, listing, fileMap, lastFile, listPos, out, ever,
                  recorded, restarts>>
  BY DEF StartFile, StartFails
<1>2. pc = "select" /\ queue # <<>> /\ queue' = Tail(queue)
  BY DEF StartFile, StartFails
<1>3. cur = NoFile
  BY <1>2 DEF Types, CurOK
<1>4. NodeOK' /\ HistoryOK'
  BY <1>1 DEF Types, NodeOK, HistoryOK
<1>5. ListOK'
  <2>1. ListByte' = ListByte
    BY <1>1 DEF ListByte
  <2> QED
    BY <1>1, <2>1 DEF Types, ListOK
<1>6. MapOK'
  BY <1>1, <1>2, QueueTail DEF Types, MapOK
<1>7. cancelled' \in BOOLEAN
  BY <1>1, Zenon DEF Types, ProcessOK
<1>8. CASE StartFile
  <2>1. /\ pc' = "reading" /\ cur' = Head(queue) /\ position' = fileMap[cur']
        /\ fileSize' = size[cur'] /\ readPc' = "reading" /\ result' = -1 /\ sent' = <<>>
        /\ UNCHANGED faults
    BY <1>8 DEF StartFile
  <2>2. cur' \in DOMAIN fileMap /\ cur' \in File
    BY <1>2, <2>1, QueueTail, KnownFiles
  <2>3. fileMap[cur'] \in Nat /\ fileMap[cur'] <= ever[cur']
    BY <2>2 DEF Types, MapOK
  <2>4. ever[cur'] \in Nat /\ ever[cur'] <= size[cur'] /\ size[cur'] \in Nat
    BY <2>2 DEF Types, HistoryOK, NodeOK
  <2>5. ProcessOK'
    BY <1>1, <1>7, <2>1 DEF Types, ProcessOK
  <2>6. CurOK'
    BY <1>1, <2>1, <2>2, Bounds DEF CurOK
  <2>7. position' \in 0 .. size'[cur'] /\ fileSize' \in 0 .. size'[cur']
    BY <1>1, <2>1, <2>3, <2>4
  <2>8. fileSize' = 0 => position' = 0
    BY <2>1, <2>3, <2>4
  <2>9. sent' \in Seq([from : Nat, to : Nat])
    BY <2>1, EmptySeq
  <2>10. ReadingOK'
    BY <2>1, <2>7, <2>8, <2>9 DEF ReadingOK
  <2> QED
    BY <1>4, <1>5, <1>6, <2>5, <2>6, <2>10 DEF Types
<1>9. CASE StartFails
  <2>1. UNCHANGED <<pc, cur, position, fileSize, readPc, result, sent>>
    BY <1>9 DEF StartFails
  <2>2. faults' \in 0 .. MaxFaults
    BY <1>9, Bounds DEF StartFails, Fault, Types, ProcessOK
  <2>3. ProcessOK'
    BY <1>1, <1>7, <2>1, <2>2 DEF Types, ProcessOK
  <2>4. CurOK' /\ ReadingOK'
    BY <1>1, <1>2, <2>1 DEF Types, CurOK, ReadingOK
  <2> QED
    BY <1>4, <1>5, <1>6, <2>3, <2>4 DEF Types
<1> QED
  BY <1>8, <1>9

\* One step of the FileReader.
LEMMA ReadStep ==
    ASSUME Types, pc = "reading", FR!NormalStep \/ FR!FaultyStep
    PROVE  /\ position \in Nat /\ position' \in 0 .. size[cur] /\ position <= position'
           /\ fileSize' \in 0 .. size[cur]
           /\ readPc' \in {"reading", "waiting", "done", "failed"}
           /\ result' \in Nat \cup {-1}
           /\ sent' \in Seq([from : Nat, to : Nat])
           /\ fileSize' = 0 => position' = 0
           /\ readPc' = "done" => result' = position'
<1> DEFINE n == size[cur]
<1>1. cur \in File /\ n \in Nat
  BY CurIsKnown DEF Types, NodeOK, CurOK
<1>2. /\ position \in 0 .. n
      /\ fileSize \in 0 .. n
      /\ readPc \in {"reading", "waiting", "done", "failed"}
      /\ result \in Nat \cup {-1}
      /\ sent \in Seq([from : Nat, to : Nat])
      /\ fileSize = 0 => position = 0
      /\ readPc = "done" => result = position
  BY DEF Types, ReadingOK
<1>3. \A e \in Nat : Append(sent, [from |-> position, to |-> e]) \in Seq([from : Nat, to : Nat])
  BY <1>1, <1>2, AppendProperties
<1>4. \A e \in Nat : \A blank : FR!Send(e, blank) => sent' \in Seq([from : Nat, to : Nat])
  BY <1>2, <1>3 DEF FR!Send
<1> HIDE DEF n
<1>5. CASE FR!ReadEmpty
  BY <1>1, <1>2, <1>5 DEF FR!ReadEmpty, FR!Return, n
<1>6. CASE FR!ReadLine
  <2>1. PICK e \in 1 .. n : e > position /\ position' = e /\ FR!Send(e, e = position + 1)
    BY <1>6 DEF FR!ReadLine, FR!LineEnd, n
  <2>2. UNCHANGED <<fileSize, readPc, result>> /\ fileSize # 0 /\ readPc = "reading"
    BY <1>6 DEF FR!ReadLine
  <2>3. sent' \in Seq([from : Nat, to : Nat])
    BY <1>4, <2>1
  <2> QED
    BY <1>1, <1>2, <2>1, <2>2, <2>3 DEF n
<1>7. CASE FR!ReadTail
  <2>1. /\ readPc = "reading" /\ fileSize # 0
        /\ position' = n /\ UNCHANGED fileSize
        /\ FR!Send(n, n = position)
        /\ readPc' = "waiting" /\ UNCHANGED result
    BY <1>7 DEF FR!ReadTail, FR!AtEOF, n
  <2>2. sent' \in Seq([from : Nat, to : Nat])
    BY <1>1, <1>4, <2>1
  <2> QED
    BY <1>1, <1>2, <2>1, <2>2 DEF n
<1>8. CASE FR!Reopen \/ FR!Timeout
  BY <1>1, <1>2, <1>8 DEF FR!Reopen, FR!Timeout, FR!Return, n
<1>9. CASE FR!ReadFails
  <2>1. PICK e \in position + 1 .. n :
          position' = e /\ FR!Send(e, FALSE) /\ readPc' = "failed" /\ result' = e
    BY <1>9 DEF FR!ReadFails, FR!Return, n
  <2>2. UNCHANGED fileSize /\ fileSize # 0
    BY <1>9 DEF FR!ReadFails
  <2>3. e \in Nat /\ e <= n /\ position <= e
    BY <1>1, <1>2, <2>1
  <2>4. sent' \in Seq([from : Nat, to : Nat])
    BY <1>4, <2>1, <2>3
  <2> QED
    BY <1>1, <1>2, <2>1, <2>2, <2>3, <2>4 DEF n
<1>10. CASE FR!ReadFailsAsEOF
  BY <1>1, <1>2, <1>10 DEF FR!ReadFailsAsEOF, FR!AtEOF, n
<1>11. CASE FR!WaitFails
  BY <1>1, <1>2, <1>11 DEF FR!WaitFails, FR!Return, n
<1> QED
  BY <1>5, <1>6, <1>7, <1>8, <1>9, <1>10, <1>11 DEF FR!NormalStep, FR!FaultyStep

LEMMA ReadTypes == Types /\ UNCHANGED node /\ Read => Types'
<1> SUFFICES ASSUME Types, UNCHANGED node, Read PROVE Types'
  OBVIOUS
<1> USE DEF node, mem
<1>1. UNCHANGED <<created, size, written, list, pc, cancelled, listing, fileMap, queue, lastFile, listPos,
                  cur, out, ever, recorded, restarts>>
  BY DEF Read
<1>2. pc = "reading" /\ (FR!NormalStep \/ FR!FaultyStep)
  BY DEF Read
<1>3. faults' \in 0 .. MaxFaults
  BY Bounds DEF Read, Fault, Types, ProcessOK
<1>4. NodeOK' /\ HistoryOK'
  BY <1>1 DEF Types, NodeOK, HistoryOK
<1>5. ProcessOK'
  <2>1. cancelled' \in BOOLEAN
    BY <1>1, Zenon DEF Types, ProcessOK
  <2> QED
    BY <1>1, <1>3, <2>1 DEF Types, ProcessOK
<1>6. ListOK'
  <2>1. ListByte' = ListByte
    BY <1>1 DEF ListByte
  <2> QED
    BY <1>1, <2>1 DEF Types, ListOK
<1>7. MapOK'
  BY <1>1 DEF Types, MapOK
<1>8. CurOK'
  BY <1>1, <1>2 DEF Types, CurOK
<1>9. ReadingOK'
  BY <1>1, <1>2, ReadStep DEF ReadingOK
<1> QED
  BY <1>4, <1>5, <1>6, <1>7, <1>8, <1>9 DEF Types

LEMMA IdleReadingOK == cur' = NoFile /\ sent' = <<>> /\ pc' # "reading" => CurOK' /\ ReadingOK'
BY DEF CurOK, ReadingOK

LEMMA RecordTypes == Types /\ UNCHANGED node /\ Record => Types'
<1> SUFFICES ASSUME Types, UNCHANGED node, Record PROVE Types'
  OBVIOUS
<1> USE DEF node
<1>1. UNCHANGED <<created, size, written, cancelled, listing, queue, restarts, faults>>
  BY DEF Record
<1>2. /\ pc = "reading" /\ readPc = "done" /\ pc' = "select" /\ LeaveFile
      /\ list' = Overwrite(list, listPos, RecordBytes(cur, result))
      /\ listPos' = listPos + Width(result)
      /\ fileMap' = [fileMap EXCEPT ![cur] = result]
      /\ lastFile' = [name |-> cur, position |-> result]
      /\ recorded' = [recorded EXCEPT ![cur] = result]
  BY DEF Record, PositionReturned
<1>3. cur \in DOMAIN fileMap /\ cur \in File /\ cur \in 1 .. created /\ cur # NoFile
  BY <1>2, KnownFiles DEF Types, CurOK, MapOK
<1>4. result = position /\ position \in Nat
  <2>1. result = position /\ position \in 0 .. size[cur]
    BY <1>2 DEF Types, ReadingOK
  <2> QED
    BY <1>3, <2>1 DEF Types, NodeOK
<1>5. /\ out' \in Seq(PieceOf)
      /\ ever' \in [File -> Nat]
      /\ \A f \in File : ever[f] <= ever'[f] /\ ever'[f] <= size[f]
      /\ position <= ever'[cur]
      /\ cur' = NoFile /\ sent' = <<>>
  BY <1>2, <1>3, LeaveFileTypes
<1>6. /\ created \in Nat /\ created <= NumFiles /\ ever \in [File -> Nat]
      /\ recorded \in [File -> Nat]
      /\ listPos \in 0 .. Len(list) /\ list \in Seq(ListByte)
  BY Bounds DEF Types, NodeOK, HistoryOK, ListOK
<1>7. NodeOK'
  BY <1>1 DEF Types, NodeOK
<1>8. ProcessOK'
  <2>1. cancelled' \in BOOLEAN
    BY <1>1, Zenon DEF Types, ProcessOK
  <2> QED
    BY <1>1, <1>2, <2>1 DEF Types, ProcessOK
<1>9. HistoryOK'
  BY <1>1, <1>2, <1>3, <1>4, <1>5, <1>6 DEF HistoryOK
<1>10. ListOK'
  <2>1. ListByte \subseteq ListByte'
    BY <1>1, <1>5, <1>6, KeptBytes
  <2>2. list \in Seq(ListByte')
    BY <1>6, <2>1, SeqOfMore
  <2>3. \A n \in Nat : [name |-> cur, position |-> result, left |-> n] \in ListByte'
    BY <1>1, <1>3, <1>4, <1>5 DEF ListByte
  <2>4. /\ RecordBytes(cur, result) \in Seq(ListByte')
        /\ Len(RecordBytes(cur, result)) = Width(result)
    BY <1>4, <2>3, RecordBytesType
  <2>5. /\ Overwrite(list, listPos, RecordBytes(cur, result)) \in Seq(ListByte')
        /\ listPos + Len(RecordBytes(cur, result))
             <= Len(Overwrite(list, listPos, RecordBytes(cur, result)))
    BY <1>6, <2>2, <2>4, OverwriteKeeps
  <2>6. list' \in Seq(ListByte') /\ listPos' <= Len(list') /\ Len(list') \in Nat
    BY <1>2, <2>4, <2>5, LenProperties
  <2>7. listPos' \in Nat
    <3>1. Width(result) \in Nat
      BY <1>4, WidthType
    <3>2. listPos \in Nat
      BY <1>6
    <3> QED
      BY <1>2, <3>1, <3>2
  <2> QED
    BY <2>6, <2>7 DEF ListOK
<1>11. MapOK'
  <2>1. DOMAIN fileMap' = DOMAIN fileMap
    BY <1>2
  <2>2. \A f \in DOMAIN fileMap : fileMap'[f] = IF f = cur THEN position ELSE fileMap[f]
    BY <1>2, <1>4
  <2>3. \A f \in DOMAIN fileMap : fileMap'[f] \in Nat /\ fileMap'[f] <= ever'[f]
    <3> SUFFICES ASSUME NEW f \in DOMAIN fileMap
                 PROVE  fileMap'[f] \in Nat /\ fileMap'[f] <= ever'[f]
      OBVIOUS
    <3>1. f \in File /\ fileMap[f] \in Nat /\ fileMap[f] <= ever[f]
      BY KnownFiles DEF Types, MapOK
    <3>2. ever[f] \in Nat /\ ever'[f] \in Nat /\ ever[f] <= ever'[f]
      BY <1>5, <1>6, <3>1
    <3> QED
      BY <1>4, <1>5, <2>2, <3>1, <3>2
  <2>4. lastFile' \in [name : File \cup {NoFile}, position : Nat]
    BY <1>2, <1>3, <1>4
  <2> QED
    BY <1>1, <2>1, <2>3, <2>4 DEF Types, MapOK
<1>12. CurOK' /\ ReadingOK'
  BY <1>2, <1>5, IdleReadingOK
<1> QED
  BY <1>7, <1>8, <1>9, <1>10, <1>11, <1>12 DEF Types

LEMMA PutAwayTypes == Types /\ UNCHANGED node /\ (Drop \/ Crash) => Types'
<1> SUFFICES ASSUME Types, UNCHANGED node, Drop \/ Crash PROVE Types'
  OBVIOUS
<1> USE DEF node, mem
<1>1. UNCHANGED <<created, size, written, list, cancelled, listing, fileMap, queue, lastFile, listPos,
                  recorded, restarts>>
  BY DEF Drop, Crash
<1>2. LeaveFile /\ pc' \in {"select", "down"}
  BY DEF Drop, Crash
<1>3. faults' \in 0 .. MaxFaults
  BY Bounds DEF Drop, Crash, Fault, Types, ProcessOK
<1>4. /\ out' \in Seq(PieceOf)
      /\ ever' \in [File -> Nat]
      /\ \A f \in File : ever[f] <= ever'[f] /\ ever'[f] <= size[f]
      /\ cur' = NoFile /\ sent' = <<>>
  BY <1>2, LeaveFileTypes
<1>5. /\ created \in Nat /\ created <= NumFiles /\ ever \in [File -> Nat]
  BY Bounds DEF Types, NodeOK, HistoryOK
<1>6. NodeOK' /\ HistoryOK'
  BY <1>1, <1>4 DEF Types, NodeOK, HistoryOK
<1>7. ProcessOK'
  <2>1. cancelled' \in BOOLEAN
    BY <1>1, Zenon DEF Types, ProcessOK
  <2> QED
    BY <1>1, <1>2, <1>3, <2>1 DEF Types, ProcessOK
<1>8. ListOK'
  <2>1. ListByte \subseteq ListByte'
    BY <1>1, <1>4, <1>5, KeptBytes
  <2> QED
    BY <1>1, <2>1, SeqOfMore DEF Types, ListOK
<1>9. MapOK'
  BY <1>1, <1>4, <1>5, MapStaysOK DEF Types
<1>10. CurOK' /\ ReadingOK'
  BY <1>2, <1>4, IdleReadingOK
<1> QED
  BY <1>6, <1>7, <1>8, <1>9, <1>10 DEF Types

-----------------------------------------------------------------------------
(* Starting again: what file_list.txt says is true of every line of it,    *)
(* and the position taken for a file is the largest of those.              *)

LEMMA LineIsByte ==
    ASSUME Types, NEW i \in ListLines
    PROVE  /\ i \in 1 .. Len(list)
           /\ list[i] \in ListByte
           /\ list[i].name \in File /\ list[i].position \in Nat
           /\ list[i].position <= ever[list[i].name]
           /\ NameOf(list[i]) \in {NoFile, list[i].name}
<1>1. list \in Seq(ListByte)
  BY DEF Types, ListOK
<1>2. i \in 1 .. Len(list)
  BY <1>1, LenProperties DEF ListLines, LineStarts
<1>3. list[i] \in ListByte
  BY <1>1, <1>2, ElementOfSeq
<1>4. /\ list[i].name \in 1 .. created /\ list[i].position \in Nat
      /\ list[i].position <= ever[list[i].name]
  BY <1>3 DEF ListByte
<1> QED
  BY <1>2, <1>3, <1>4, KnownFiles DEF NameOf

PositionsOf(f) == {list[i].position : i \in {j \in ListLines : NameOf(list[j]) = f}}

LEMMA PositionsAreSent ==
    ASSUME Types, NEW i0 \in ListLines, NameOf(list[i0]) # NoFile
    PROVE  LET f == NameOf(list[i0])
           IN  /\ f \in 1 .. created
               /\ Max(PositionsOf(f)) \in PositionsOf(f)
               /\ Max(PositionsOf(f)) \in Nat
               /\ Max(PositionsOf(f)) <= ever[f]
<1> DEFINE f == NameOf(list[i0])
           S == PositionsOf(f)
<1>1. f = list[i0].name /\ list[i0] \in ListByte
  BY LineIsByte
<1>2. f \in 1 .. created /\ f \in File
  BY <1>1, KnownFiles DEF ListByte
<1>3. ever[f] \in Nat
  BY <1>2 DEF Types, HistoryOK
<1>4. ASSUME NEW x \in S PROVE x \in Nat /\ x <= ever[f]
  <2>1. PICK j \in ListLines : NameOf(list[j]) = f /\ x = list[j].position
    BY DEF PositionsOf
  <2>2. f = list[j].name
    BY <1>2, <2>1, LineIsByte, Bounds
  <2> QED
    BY <2>1, <2>2, LineIsByte
<1>5. list[i0].position \in S
  BY DEF PositionsOf
<1> HIDE DEF f, S
<1>6. S \in SUBSET Nat /\ S # {} /\ \A x \in S : x <= ever[f]
  BY <1>4, <1>5
<1>7. Max(S) \in S
  BY <1>3, <1>6, MaxExists
<1>8. Max(S) \in Nat /\ Max(S) <= ever[f]
  BY <1>6, <1>7
<1> QED
  BY <1>2, <1>7, <1>8 DEF f, S

LEMMA RestartTypes == Types /\ UNCHANGED node /\ Restart => Types'
<1> SUFFICES ASSUME Types, UNCHANGED node, Restart PROVE Types'
  OBVIOUS
<1> USE DEF node, fr
<1>1. /\ UNCHANGED <<created, size, written, list, cur, position, fileSize, readPc, result, sent, ever,
                     recorded, faults>>
      /\ pc \in {"down", "stopped"} /\ pc' \in {"select", "panicked"}
      /\ restarts < MaxRestarts /\ restarts' = restarts + 1
      /\ cancelled' = FALSE /\ queue' = <<>> /\ listing' = {} /\ listPos' = 0 /\ out' = <<>>
  BY DEF Restart
<1>2. /\ fileMap' = [f \in {NameOf(list[i]) : i \in ListLines} \ {NoFile} |-> Max(PositionsOf(f))]
      /\ lastFile' = IF ListLines = {} THEN [name |-> NoFile, position |-> 0]
                     ELSE LET b == list[Max(ListLines)]
                          IN  [name |-> NameOf(b), position |-> b.position]
  BY DEF Restart, PositionsOf
<1>3. cur = NoFile
  BY <1>1 DEF Types, CurOK
<1>4. NodeOK'
  BY <1>1 DEF Types, NodeOK
<1>5. ProcessOK'
  <2>1. cancelled' \in BOOLEAN
    BY <1>1, Zenon
  <2> QED
    BY <1>1, <2>1, Bounds DEF Types, ProcessOK
<1>6. HistoryOK'
  BY <1>1, EmptySeq DEF Types, HistoryOK
<1>7. ListOK'
  <2>1. ListByte' = ListByte
    BY <1>1 DEF ListByte
  <2>2. Len(list) \in Nat
    BY LenProperties DEF Types, ListOK
  <2> QED
    BY <1>1, <2>1, <2>2 DEF Types, ListOK
<1>8. MapOK'
  <2>1. \A f \in DOMAIN fileMap' :
          f \in 1 .. created /\ fileMap'[f] \in Nat /\ fileMap'[f] <= ever[f]
    <3> SUFFICES ASSUME NEW f \in DOMAIN fileMap'
                 PROVE  f \in 1 .. created /\ fileMap'[f] \in Nat /\ fileMap'[f] <= ever[f]
      OBVIOUS
    <3>1. PICK i \in ListLines : f = NameOf(list[i])
      BY <1>2
    <3>2. f # NoFile /\ fileMap'[f] = Max(PositionsOf(f))
      BY <1>2
    <3> QED
      BY <3>1, <3>2, PositionsAreSent
  <2>2. lastFile' \in [name : File \cup {NoFile}, position : Nat]
    <3>1. CASE ListLines = {}
      BY <1>2, <3>1
    <3>2. CASE ListLines # {}
      <4>1. \A i \in ListLines : i \in Nat /\ i <= Len(list)
        BY LineIsByte
      <4>2. Len(list) \in Nat
        BY LenProperties DEF Types, ListOK
      <4>3. Max(ListLines) \in ListLines
        BY <3>2, <4>1, <4>2, MaxExists
      <4> DEFINE i == Max(ListLines)
      <4> HIDE DEF i
      <4>4. i \in ListLines /\ lastFile' = [name |-> NameOf(list[i]), position |-> list[i].position]
        BY <1>2, <3>2, <4>3 DEF i
      <4>5. NameOf(list[i]) \in File \cup {NoFile} /\ list[i].position \in Nat
        BY <4>4, LineIsByte
      <4> QED
        BY <4>4, <4>5
    <3> QED
      BY <3>1, <3>2
  <2>3. queue' \in Seq(DOMAIN fileMap')
    BY <1>1, EmptySeq
  <2> QED
    BY <1>1, <2>1, <2>2, <2>3 DEF MapOK
<1>9. CurOK' /\ ReadingOK'
  <2>1. cur' = NoFile /\ sent' = <<>> /\ pc' # "reading"
    BY <1>1, <1>3 DEF Types, CurOK
  <2> QED
    BY <2>1, IdleReadingOK
<1> QED
  BY <1>4, <1>5, <1>6, <1>7, <1>8, <1>9 DEF Types

LEMMA TypesStep == Types /\ [Next]_vars => Types'
<1> SUFFICES ASSUME Types, [Next]_vars PROVE Types'
  OBVIOUS
<1>1. CASE Node
  BY <1>1, NodeTypes
<1>2. CASE ReaderStep
  BY <1>2, LoopTypes, AddNewFilesTypes, StartTypes, ReadTypes, RecordTypes, PutAwayTypes
     DEF ReaderStep
<1>3. CASE Environment
  BY <1>3, LoopTypes, PutAwayTypes, RestartTypes DEF Environment
<1>4. CASE UNCHANGED vars
  <2>1. UNCHANGED <<created, size, written, list, pc, cancelled, listing, fileMap, queue, lastFile, listPos,
                    cur, position, fileSize, readPc, result, sent, out, ever, recorded, restarts,
                    faults>>
    BY <1>4 DEF vars
  <2>2. ListByte' = ListByte
    BY <2>1 DEF ListByte
  <2>3. ProcessOK'
    BY <2>1, Zenon DEF Types, ProcessOK
  <2>4. NodeOK' /\ ListOK' /\ HistoryOK'
    BY <2>1, <2>2 DEF Types, NodeOK, ListOK, HistoryOK
  <2>5. MapOK' /\ CurOK' /\ ReadingOK'
    BY <2>1 DEF Types, MapOK, CurOK, ReadingOK
  <2> QED
    BY <2>3, <2>4, <2>5 DEF Types
<1> QED
  BY <1>1, <1>2, <1>3, <1>4 DEF Next

LEMMA TypesInvariance == Spec => []Types
<1>1. Types /\ [Next]_vars => Types'
  BY TypesStep
<1> QED
  BY <1>1, InitTypes, PTL DEF Spec

\* Every variable of the reader keeps its type: what an overwritten
\* file_list.txt, a crash or a failing call leaves behind is still a map from
\* files that exist to positions inside them.
THEOREM TypeCorrect == Spec => []TypeOK
<1>1. Types => TypeOK
  BY TypesImply
<1> QED
  BY <1>1, TypesInvariance, PTL

\* However records overwrite one another, markFileAsRead never takes a position
\* past what some process has already sent: a restart may repeat lines, it
\* leaves none out.
THEOREM RestartSkipsNothing == Spec => []ResumesAtSent
<1>1. Types => ResumesAtSent
  BY TypesImply
<1> QED
  BY <1>1, TypesInvariance, PTL

-----------------------------------------------------------------------------
(* Without failing system calls every position is the start of a line.     *)

LEMMA EvenAdd == \A n \in Nat : Even(n) => Even(n + LineLen)
BY DEF Even, LineLen

LEMMA EvenZero == Even(0)
BY DEF Even, LineLen

\* A FileReader at the start of a line sends the next one, or nothing.
LEMMA ReadLineOrNothing ==
    ASSUME Types, pc = "reading", AtLineStarts, FR!NormalStep
    PROVE  /\ Even(position') /\ readPc' # "failed"
           /\ \/ UNCHANGED <<position, sent>>
              \/ /\ position < position'
                 /\ sent' = Append(sent, [from |-> position, to |-> position'])
<1> DEFINE n == size[cur]
<1>1. cur \in File /\ n \in Nat /\ position \in 0 .. n
  BY CurIsKnown DEF Types, NodeOK, CurOK, ReadingOK
<1>2. Even(n) /\ Even(position) /\ readPc # "failed"
  BY <1>1 DEF AtLineStarts
<1> HIDE DEF n
<1>3. CASE FR!ReadEmpty \/ FR!Reopen \/ FR!Timeout
  BY <1>2, <1>3 DEF FR!ReadEmpty, FR!Reopen, FR!Timeout, FR!Return
<1>4. CASE FR!ReadLine
  <2>1. PICK e \in 1 .. n : /\ Even(e) /\ e > position /\ position' = e
                            /\ FR!Send(e, e = position + 1)
    BY <1>4 DEF FR!ReadLine, FR!LineEnd, IsNewline, Even, n
  <2>2. e # position + 1
    BY <1>1, <1>2, <2>1 DEF Even, LineLen
  <2>3. readPc' # "failed"
    BY <1>2, <1>4 DEF FR!ReadLine
  <2> QED
    BY <1>1, <2>1, <2>2, <2>3 DEF FR!Send
<1>5. CASE FR!ReadTail
  <2>1. /\ \A b \in 1 .. n : Even(b) => b <= position
        /\ position' = n /\ FR!Send(n, n = position)
        /\ readPc' = "waiting"
    BY <1>5 DEF FR!ReadTail, FR!AtEOF, IsNewline, Even, n
  <2>2. n = position
    BY <1>1, <1>2, <2>1
  <2> QED
    BY <1>2, <2>1, <2>2 DEF FR!Send
<1> QED
  BY <1>3, <1>4, <1>5 DEF FR!NormalStep

\* As long as no call fails, faults stays 0 and none of the failing steps is
\* taken.
LEMMA NoFault ==
    ASSUME Types, [Next]_vars, faults' = 0
    PROVE  /\ faults = 0
           /\ ~StartFails
           /\ Read => FR!NormalStep
           /\ Drop => readPc = "failed"
<1>1. faults \in Nat
  BY Bounds DEF Types, ProcessOK
<1>2. ~Fault
  BY <1>1 DEF Fault
<1>3. faults = 0
  BY <1>1, <1>2 DEF Next, Node, ReaderStep, Environment, ReadDir, AddNewFiles, StartFile,
     StartFails, Read, Record, Drop, Stop, Cancel, Crash, Restart, vars, history
<1> QED
  BY <1>2, <1>3 DEF StartFails, Read, Drop

LEMMA InitAligned == Init => Aligned
<1> SUFFICES ASSUME Init PROVE AtLineStarts
  BY DEF Aligned
<1>1. DOMAIN <<>> = {} /\ <<>> \in Seq(EvenByte)
  BY EmptySeq
<1> QED
  BY <1>1, EvenZero DEF Init, AtLineStarts

LEMMA AlignedStep == Types /\ Aligned /\ [Next]_vars => Aligned'
<1> SUFFICES ASSUME Types, AtLineStarts, [Next]_vars, faults' = 0, faults = 0
             PROVE  AtLineStarts'
  BY NoFault DEF Aligned
<1> USE DEF node, mem, fr, history
<1>1. CASE Node
  <2>1. UNCHANGED <<fileMap, list, pc, position, readPc>>
    BY <1>1 DEF Node
  <2>2. \A f \in File : Even(size'[f])
    <3>1. CASE CreateFile
      BY <3>1 DEF CreateFile, AtLineStarts
    <3>2. CASE WriteLine
      <4>1. \A f \in File : size'[f] = size[f] \/ size'[f] = size[f] + LineLen
        BY <3>2 DEF WriteLine, Types, NodeOK
      <4> QED
        BY <4>1, EvenAdd DEF AtLineStarts, Types, NodeOK
    <3> QED
      BY <1>1, <3>1, <3>2 DEF Node
  <2> QED
    BY <2>1, <2>2 DEF AtLineStarts
<1>2. CASE UNCHANGED node /\ (ReadDir \/ Stop \/ Cancel)
  <2>1. UNCHANGED <<size, fileMap, list, position, readPc>> /\ (pc' = "reading" <=> pc = "reading")
    BY <1>2 DEF ReadDir, Stop, Cancel
  <2> QED
    BY <2>1 DEF AtLineStarts
<1>3. CASE UNCHANGED node /\ AddNewFiles
  <2>1. /\ DOMAIN fileMap' = DOMAIN fileMap \cup NewFiles
        /\ \A f \in DOMAIN fileMap' :
             fileMap'[f] = IF f \in NewFiles THEN OldPosition(f) ELSE fileMap[f]
        /\ UNCHANGED <<size, list>> /\ pc' # "reading"
    BY <1>3 DEF AddNewFiles
  <2>2. \A f \in DOMAIN fileMap' : Even(fileMap'[f])
    BY <2>1, EvenZero DEF AtLineStarts, OldPosition
  <2> QED
    BY <2>1, <2>2 DEF AtLineStarts
<1>4. CASE UNCHANGED node /\ StartFile
  <2>1. /\ UNCHANGED <<size, fileMap, list>>
        /\ queue # <<>> /\ position' = fileMap[Head(queue)] /\ readPc' = "reading"
    BY <1>4 DEF StartFile
  <2>2. Even(position')
    BY <2>1, QueueTail DEF AtLineStarts
  <2> QED
    BY <2>1, <2>2 DEF AtLineStarts
<1>5. CASE UNCHANGED node /\ Read
  <2>1. UNCHANGED <<size, fileMap, list>> /\ pc = "reading" /\ FR!NormalStep
    BY <1>5, NoFault DEF Read
  <2> QED
    BY <2>1, ReadLineOrNothing DEF AtLineStarts
<1>6. CASE UNCHANGED node /\ Record
  <2>1. /\ pc = "reading" /\ pc' = "select" /\ UNCHANGED size
        /\ list' = Overwrite(list, listPos, RecordBytes(cur, result))
        /\ fileMap' = [fileMap EXCEPT ![cur] = result]
    BY <1>6 DEF Record, PositionReturned
  <2>2. result = position /\ cur \in File /\ position \in 0 .. size[cur]
    BY <1>6, CurIsKnown DEF Record, Types, ReadingOK, CurOK
  <2>3. Even(result) /\ result \in Nat
    BY <2>1, <2>2 DEF AtLineStarts, Types, NodeOK
  <2>4. \A k \in Nat : [name |-> cur, position |-> result, left |-> k] \in EvenByte
    BY <2>2, <2>3 DEF EvenByte
  <2>5. RecordBytes(cur, result) \in Seq(EvenByte)
    BY <2>3, <2>4, RecordBytesType
  <2>6. listPos \in 0 .. Len(list) /\ list \in Seq(EvenByte)
    BY DEF Types, ListOK, AtLineStarts
  <2>7. list' \in Seq(EvenByte)
    BY <2>1, <2>5, <2>6, OverwriteKeeps
  <2>8. \A f \in DOMAIN fileMap' : Even(fileMap'[f])
    BY <2>1, <2>3 DEF AtLineStarts
  <2> QED
    BY <2>1, <2>7, <2>8 DEF AtLineStarts
<1>7. CASE UNCHANGED node /\ (Drop \/ Crash)
  <2>1. UNCHANGED <<size, fileMap, list>> /\ pc' # "reading"
    BY <1>7 DEF Drop, Crash
  <2> QED
    BY <2>1 DEF AtLineStarts
<1>8. CASE UNCHANGED node /\ Restart
  <2>1. /\ UNCHANGED <<size, list>> /\ pc' # "reading"
        /\ fileMap' = [f \in {NameOf(list[i]) : i \in ListLines} \ {NoFile} |-> Max(PositionsOf(f))]
    BY <1>8 DEF Restart, PositionsOf
  <2>2. \A f \in DOMAIN fileMap' : Even(fileMap'[f])
    <3> SUFFICES ASSUME NEW f \in DOMAIN fileMap' PROVE Even(fileMap'[f])
      OBVIOUS
    <3>1. PICK i \in ListLines : f = NameOf(list[i])
      BY <2>1
    <3>2. f # NoFile /\ fileMap'[f] = Max(PositionsOf(f))
      BY <2>1
    <3>3. fileMap'[f] \in PositionsOf(f)
      BY <3>1, <3>2, PositionsAreSent
    <3>4. PICK j \in ListLines : fileMap'[f] = list[j].position
      BY <3>3 DEF PositionsOf
    <3>5. list[j] \in EvenByte
      BY LineIsByte, ElementOfSeq DEF AtLineStarts
    <3> QED
      BY <3>4, <3>5 DEF EvenByte
  <2> QED
    BY <2>1, <2>2 DEF AtLineStarts
<1>9. CASE UNCHANGED vars
  <2>1. UNCHANGED <<size, fileMap, list, pc, position, readPc>>
    BY <1>9 DEF vars
  <2> QED
    BY <2>1 DEF AtLineStarts
<1> QED
  BY <1>1, <1>2, <1>3, <1>4, <1>5, <1>6, <1>7, <1>8, <1>9, NoFault
     DEF Next, ReaderStep, Environment

-----------------------------------------------------------------------------
(* What has been delivered.                                                *)

LEMMA NothingRead == ASSUME sent = <<>> PROVE CurPieces = <<>>
BY DEF CurPieces

LEMMA DeliveredKept ==
    ASSUME Types, [Next]_vars, ~Restart, Read => UNCHANGED sent
    PROVE  Delivered' = Delivered
<1> USE DEF node, mem, fr, history
<1>1. out \in Seq(PieceOf)
  BY DEF Types, HistoryOK
<1>2. CASE UNCHANGED <<out, cur, sent>>
  BY <1>2 DEF Delivered, CurPieces
<1>3. CASE LeaveFile
  <2>1. out' = Delivered /\ sent' = <<>>
    BY <1>3 DEF LeaveFile, NoFileReader
  <2>2. CurPieces' = <<>>
    BY <2>1 DEF CurPieces
  <2>3. Delivered' = out' \o CurPieces'
    BY DEF Delivered
  <2> QED
    BY <2>1, <2>2, <2>3, DeliveredType, ConcatEmptySeq
<1>4. CASE StartFile
  <2>1. out' = out /\ sent' = <<>> /\ sent = <<>>
    BY <1>4 DEF StartFile, Types, CurOK
  <2>2. CurPieces' = <<>> /\ CurPieces = <<>>
    BY <2>1 DEF CurPieces
  <2> QED
    BY <2>1, <2>2 DEF Delivered
<1>5. CASE Read
  BY <1>2, <1>5 DEF Read
<1>6. CASE Record \/ Drop \/ Crash
  BY <1>3, <1>6 DEF Record, Drop, Crash
<1>7. CASE Node \/ ReadDir \/ AddNewFiles \/ StartFails \/ Stop \/ Cancel \/ UNCHANGED vars
  BY <1>2, <1>7 DEF Node, ReadDir, AddNewFiles, StartFails, Stop, Cancel, vars
<1> QED
  BY <1>4, <1>5, <1>6, <1>7 DEF Next, ReaderStep, Environment

LEMMA DeliveredGrows ==
    ASSUME Types, pc = "reading", Read,
           NEW piece \in [from : Nat, to : Nat], sent' = Append(sent, piece)
    PROVE  LET p == [file |-> cur, from |-> piece.from, to |-> piece.to]
           IN  p \in PieceOf /\ Delivered' = Append(Delivered, p)
<1> DEFINE Of(i) == [file |-> cur, from |-> sent[i].from, to |-> sent[i].to]
           p == [file |-> cur, from |-> piece.from, to |-> piece.to]
<1>1. sent \in Seq([from : Nat, to : Nat]) /\ cur \in File
  BY CurIsKnown DEF Types, ReadingOK, CurOK
<1>2. p \in PieceOf
  BY <1>1 DEF PieceOf
<1>3. Len(sent) \in Nat /\ DOMAIN sent = 1 .. Len(sent)
  BY <1>1, LenProperties
<1>4. /\ sent' \in Seq([from : Nat, to : Nat]) /\ Len(sent') = Len(sent) + 1
      /\ \A i \in 1 .. Len(sent) : sent'[i] = sent[i]
      /\ sent'[Len(sent) + 1] = piece
  BY <1>1, AppendProperties
<1>5. DOMAIN sent' = 1 .. Len(sent) + 1
  BY <1>4, LenProperties
<1>6. UNCHANGED <<out, cur>>
  BY DEF Read, mem
<1>7. CurPieces' = [i \in 1 .. Len(sent) + 1 |->
                      IF i \in 1 .. Len(sent) THEN CurPieces[i] ELSE p]
  BY <1>3, <1>4, <1>5, <1>6 DEF CurPieces
<1>8. CurPieces \in Seq(PieceOf) /\ Len(CurPieces) = Len(sent)
  <2>1. CurPieces \in Seq(PieceOf) /\ DOMAIN CurPieces = 1 .. Len(sent)
    BY <1>3, CurPiecesType DEF CurPieces
  <2> QED
    BY <1>3, <2>1, LenProperties
<1> HIDE DEF p
<1>9. CurPieces' = Append(CurPieces, p)
  <2> DEFINE app == Append(CurPieces, p)
  <2>1. /\ app \in Seq(PieceOf) /\ Len(app) = Len(sent) + 1
        /\ \A i \in 1 .. Len(sent) : app[i] = CurPieces[i]
        /\ app[Len(sent) + 1] = p
    BY <1>2, <1>8, AppendProperties
  <2>2. DOMAIN app = 1 .. Len(sent) + 1 /\ app = [i \in DOMAIN app |-> app[i]]
    BY <2>1, LenProperties
  <2> HIDE DEF app
  <2>3. \A i \in 1 .. Len(sent) + 1 : app[i] = IF i \in 1 .. Len(sent) THEN CurPieces[i] ELSE p
    BY <1>3, <2>1
  <2>4. app = CurPieces'
    BY <1>7, <2>2, <2>3
  <2> QED
    BY <2>4 DEF app
<1>10. out \in Seq(PieceOf)
  BY DEF Types, HistoryOK
<1>11. out \o Append(CurPieces, p) = Append(out \o CurPieces, p)
  <2>1. <<p>> \in Seq(PieceOf) /\ out \o CurPieces \in Seq(PieceOf)
    BY <1>2, <1>8, <1>10, ConcatProperties
  <2>2. Append(CurPieces, p) = CurPieces \o <<p>>
    BY <1>2, <1>8, AppendIsConcat
  <2>3. Append(out \o CurPieces, p) = (out \o CurPieces) \o <<p>>
    BY <1>2, <2>1, AppendIsConcat
  <2>4. out \o (CurPieces \o <<p>>) = (out \o CurPieces) \o <<p>>
    BY <1>8, <1>10, <2>1, ConcatAssociative
  <2> QED
    BY <2>2, <2>3, <2>4
<1> QED
  BY <1>2, <1>6, <1>9, <1>11 DEF Delivered, p

-----------------------------------------------------------------------------
(* The order in which a process delivers.                                  *)

LEMMA InitOrdered == Init => InOrder
<1> SUFFICES ASSUME Init PROVE Ordered
  BY DEF InOrder
<1>1. CurPieces = <<>>
  BY DEF Init, CurPieces
<1>2. Delivered = <<>>
  <2>1. out = <<>> /\ <<>> \in Seq(PieceOf)
    BY DEF Init
  <2> QED
    BY <1>1, <2>1, ConcatEmptySeq DEF Delivered
<1>3. DOMAIN <<>> = {}
  BY EmptySeq
<1>4. pc = "select" /\ queue = <<>>
  BY DEF Init
<1>5. Increasing /\ BeforePosition /\ BeforeLastFile /\ ListingIsComplete
  BY <1>2, <1>3, <1>4 DEF Increasing, BeforePosition, BeforeLastFile, ListingIsComplete
<1>6. QueueAhead /\ KnowsFirstFiles
  BY <1>2, <1>3, <1>4 DEF QueueAhead, KnowsFirstFiles
<1> QED
  BY <1>5, <1>6 DEF Ordered

\* Once the process stops working nothing but what it delivered matters.
LEMMA NotWorking ==
    ASSUME Ordered, Delivered' = Delivered, ~Working'
    PROVE  Ordered'
BY DEF Ordered, Increasing, BeforePosition, BeforeLastFile, QueueAhead, KnowsFirstFiles,
       ListingIsComplete, Working

\* A step that leaves the reader's place in the directory alone.
LEMMA SamePlace ==
    ASSUME Ordered, Delivered' = Delivered,
           UNCHANGED <<pc, fileMap, queue, lastFile, listing, cur, position>>
    PROVE  Ordered'
BY DEF Ordered, Increasing, BeforePosition, Before, BeforeLastFile, QueueAhead, KnowsFirstFiles,
       ListingIsComplete, Working

LEMMA ReadDirOrdered ==
    ASSUME Types, Ordered, UNCHANGED node, ReadDir, Delivered' = Delivered
    PROVE  Ordered'
<1>1. /\ pc = "select" /\ pc' = "listed" /\ queue = <<>> /\ listing' = 1 .. created
      /\ UNCHANGED <<fileMap, queue, lastFile>>
  BY DEF ReadDir
<1>2. DOMAIN fileMap \subseteq 1 .. created /\ created \in Nat
  BY Bounds DEF Types, MapOK, NodeOK
<1>3. Increasing' /\ BeforePosition'
  BY <1>1 DEF Ordered, Increasing, BeforePosition
<1>4. BeforeLastFile'
  BY <1>1 DEF Ordered, BeforeLastFile, Before
<1>5. QueueAhead' /\ KnowsFirstFiles'
  BY <1>1 DEF Ordered, QueueAhead, KnowsFirstFiles, Working
<1>6. ListingIsComplete'
  BY <1>1, <1>2 DEF ListingIsComplete
<1> QED
  BY <1>3, <1>4, <1>5, <1>6 DEF Ordered

LEMMA AddNewFilesOrdered ==
    ASSUME Types, Ordered, AddNewFiles, Delivered' = Delivered
    PROVE  Ordered'
<1>1. /\ pc = "listed" /\ pc' \in {"select", "blocked"} /\ queue' \in SortedByName(NewFiles)
      /\ DOMAIN fileMap' = DOMAIN fileMap \cup NewFiles
      /\ \A f \in DOMAIN fileMap : fileMap'[f] = fileMap[f]
      /\ UNCHANGED lastFile
  BY DEF AddNewFiles, OldPosition
<1>2. /\ DOMAIN fileMap \subseteq listing
      /\ listing \subseteq 1 .. created /\ created \in Nat
      /\ \A f \in listing : 1 .. f \subseteq listing
  BY <1>1, Bounds DEF Ordered, ListingIsComplete, Types, MapOK, NodeOK
<1>3. DOMAIN fileMap' = listing
  BY <1>1, <1>2 DEF NewFiles
<1>4. /\ queue' \in Seq(NewFiles)
      /\ \A i, j \in DOMAIN queue' : i < j => queue'[i] < queue'[j]
  <2>1. IsFiniteSet(1 .. created)
    BY <1>2, FS_Interval
  <2>2. NewFiles \subseteq 1 .. created
    BY <1>2 DEF NewFiles
  <2>3. IsFiniteSet(NewFiles)
    BY <2>1, <2>2, FS_Subset
  <2> QED
    BY <1>1, <2>3, SortedType
<1>5. Increasing' /\ BeforePosition' /\ ListingIsComplete'
  BY <1>1 DEF Ordered, Increasing, BeforePosition, ListingIsComplete
<1>6. BeforeLastFile'
  <2> SUFFICES ASSUME Delivered # <<>>
               PROVE  (lastFile.name \in DOMAIN fileMap /\ Before(lastFile.name, fileMap[lastFile.name]))'
    BY <1>1 DEF BeforeLastFile
  <2>1. /\ lastFile.name \in DOMAIN fileMap
        /\ Before(lastFile.name, fileMap[lastFile.name])
    BY <1>1 DEF Ordered, BeforeLastFile
  <2> QED
    BY <1>1, <2>1 DEF Before
<1>7. QueueAhead'
  <2>1. ASSUME Delivered # <<>>, NEW i \in DOMAIN queue' PROVE lastFile.name <= queue'[i]
    <3>1. lastFile.name \in DOMAIN fileMap /\ 1 .. lastFile.name \subseteq DOMAIN fileMap
      BY <1>1, <2>1 DEF Ordered, BeforeLastFile, KnowsFirstFiles, Working
    <3>2. queue'[i] \in NewFiles
      BY <1>4, ElementOfSeq, LenProperties
    <3>3. queue'[i] \in 1 .. created /\ lastFile.name \in 1 .. created
      BY <1>2, <3>1, <3>2 DEF NewFiles
    <3>4. queue'[i] \notin DOMAIN fileMap \/ queue'[i] = lastFile.name
      BY <3>2 DEF NewFiles, IsLatestFileAndChangedSize
    <3> QED
      BY <1>2, <3>1, <3>3, <3>4
  <2> QED
    BY <1>1, <1>4, <2>1 DEF QueueAhead
<1>8. KnowsFirstFiles'
  BY <1>2, <1>3 DEF KnowsFirstFiles
<1> QED
  BY <1>5, <1>6, <1>7, <1>8 DEF Ordered

LEMMA PieceTypes ==
    ASSUME Types, NEW i \in DOMAIN Delivered
    PROVE  /\ Delivered[i].file \in Nat /\ Delivered[i].from \in Nat /\ Delivered[i].to \in Nat
           /\ Len(Delivered) \in Nat /\ i \in 1 .. Len(Delivered)
<1>1. Delivered \in Seq(PieceOf)
  BY DeliveredType
<1>2. i \in 1 .. Len(Delivered) /\ Len(Delivered) \in Nat
  BY <1>1, LenProperties
<1>3. Delivered[i] \in PieceOf
  BY <1>1, <1>2, ElementOfSeq
<1> QED
  BY <1>2, <1>3, Bounds DEF PieceOf

LEMMA StartFileOrdered ==
    ASSUME Types, Ordered, StartFile, Delivered' = Delivered
    PROVE  Ordered'
<1> DEFINE f == Head(queue)
<1>1. /\ pc = "select" /\ pc' = "reading" /\ queue # <<>> /\ queue' = Tail(queue)
      /\ cur' = f /\ position' = fileMap[f]
      /\ UNCHANGED <<fileMap, lastFile>>
  BY DEF StartFile
<1>2. queue \in Seq(DOMAIN fileMap)
  BY DEF Types, MapOK
<1>3. /\ f = queue[1] /\ Len(queue) \in Nat \ {0} /\ DOMAIN queue = 1 .. Len(queue)
      /\ DOMAIN queue' = 1 .. Len(queue) - 1
      /\ \A i \in 1 .. Len(queue) - 1 : queue'[i] = queue[i + 1]
  <2>1. Len(queue) \in Nat \ {0} /\ DOMAIN queue = 1 .. Len(queue)
    BY <1>1, <1>2, EmptySeq, LenProperties
  <2>2. /\ Tail(queue) \in Seq(DOMAIN fileMap) /\ Len(Tail(queue)) = Len(queue) - 1
        /\ \A i \in 1 .. Len(Tail(queue)) : Tail(queue)[i] = queue[i + 1]
    BY <1>1, <1>2, HeadTailProperties
  <2>3. DOMAIN Tail(queue) = 1 .. Len(queue) - 1
    BY <2>2, LenProperties
  <2>4. f = queue[1]
    BY <1>1, <1>2
  <2> QED
    BY <1>1, <2>1, <2>2, <2>3, <2>4
<1> HIDE DEF f
<1>4. f \in DOMAIN fileMap /\ f \in Nat /\ fileMap[f] \in Nat
  <2>1. f \in DOMAIN fileMap
    BY <1>1, QueueTail DEF f
  <2> QED
    BY <2>1, KnownFiles, Bounds DEF Types, MapOK
<1>5. Increasing' /\ BeforeLastFile' /\ ListingIsComplete'
  BY <1>1 DEF Ordered, Increasing, BeforeLastFile, ListingIsComplete
<1>6. BeforePosition'
  <2> SUFFICES Before(f, fileMap[f])
    BY <1>1 DEF BeforePosition, Before
  <2>1. CASE Delivered = <<>>
    BY <2>1, EmptySeq DEF Before
  <2>2. CASE Delivered # <<>>
    <3>1. /\ lastFile.name \in DOMAIN fileMap
          /\ Before(lastFile.name, fileMap[lastFile.name])
      BY <1>1, <2>2 DEF Ordered, BeforeLastFile
    <3>2. lastFile.name <= f
      BY <1>1, <1>3, <2>2 DEF Ordered, QueueAhead, Working
    <3>3. lastFile.name \in Nat
      BY <3>1, KnownFiles, Bounds
    <3>4. CASE lastFile.name = f
      BY <3>1, <3>4
    <3>5. CASE lastFile.name < f
      <4>1. \A i \in DOMAIN Delivered : Delivered[i].file \in Nat /\ Delivered[i].file <= lastFile.name
        BY <3>1, <3>3, PieceTypes DEF Before
      <4> QED
        BY <1>4, <3>3, <3>5, <4>1 DEF Before
    <3> QED
      BY <1>4, <3>2, <3>3, <3>4, <3>5
  <2> QED
    BY <2>1, <2>2
<1>7. QueueAhead'
  <2>1. \A i, j \in 1 .. Len(queue) : i < j => queue[i] < queue[j]
    BY <1>1, <1>3 DEF Ordered, QueueAhead, Working
  <2>2. \A i \in 1 .. Len(queue) - 1 : i + 1 \in 1 .. Len(queue) /\ 1 \in 1 .. Len(queue) /\ 1 < i + 1
    BY <1>3
  <2>3. \A i \in DOMAIN queue' : f < queue'[i]
    BY <1>3, <2>1, <2>2
  <2>4. \A i, j \in DOMAIN queue' : i < j => queue'[i] < queue'[j]
    BY <1>3, <2>1, <2>2
  <2> QED
    BY <1>1, <2>3, <2>4 DEF QueueAhead
<1>8. KnowsFirstFiles'
  BY <1>1 DEF Ordered, KnowsFirstFiles, Working
<1> QED
  BY <1>5, <1>6, <1>7, <1>8 DEF Ordered

LEMMA SendOrdered ==
    ASSUME Types, Ordered, Read, pc = "reading",
           position \in Nat, position' \in Nat, position < position',
           sent' = Append(sent, [from |-> position, to |-> position'])
    PROVE  Ordered'
<1>1. UNCHANGED <<pc, fileMap, queue, lastFile, listing, cur>>
  BY DEF Read, mem
<1>2. PICK p \in PieceOf : /\ p.file = cur /\ p.from = position /\ p.to = position'
                           /\ Delivered' = Append(Delivered, p)
  <2>1. PICK e \in Nat : e = position' /\ position < e
    OBVIOUS
  <2>2. [from |-> position, to |-> e] \in [from : Nat, to : Nat]
    OBVIOUS
  <2> DEFINE p == [file |-> cur, from |-> position, to |-> e]
  <2>3. p \in PieceOf /\ Delivered' = Append(Delivered, p)
    BY <2>1, <2>2, DeliveredGrows
  <2> QED
    BY <2>1, <2>3
<1> DEFINE n == Len(Delivered)
<1>3. Delivered \in Seq(PieceOf)
  BY DeliveredType
<1>4. n \in Nat /\ DOMAIN Delivered = 1 .. n
  BY <1>3, LenProperties
<1>5. /\ Len(Delivered') = n + 1 /\ DOMAIN Delivered' = 1 .. n + 1
      /\ \A i \in 1 .. n : Delivered'[i] = Delivered[i]
      /\ Delivered'[n + 1] = p
  <2>1. /\ Append(Delivered, p) \in Seq(PieceOf)
        /\ Len(Append(Delivered, p)) = n + 1
        /\ \A i \in 1 .. n : Append(Delivered, p)[i] = Delivered[i]
        /\ Append(Delivered, p)[n + 1] = p
    BY <1>3, AppendProperties
  <2>2. DOMAIN Append(Delivered, p) = 1 .. n + 1
    BY <2>1, LenProperties
  <2> QED
    BY <1>2, <2>1, <2>2
<1>6. \A i \in 1 .. n : /\ Delivered[i].file \in Nat /\ Delivered[i].to \in Nat
                        /\ \/ Delivered[i].file < cur
                           \/ /\ Delivered[i].file = cur /\ Delivered[i].to <= position
                              /\ i = n => Delivered[i].to = position
  BY <1>4, PieceTypes DEF Ordered, BeforePosition, Before
<1>7. cur \in Nat
  BY CurIsKnown, Bounds DEF Types, CurOK
<1>8. \A i, j \in 1 .. n : i < j =>
        \/ Delivered[i].file < Delivered[j].file
        \/ /\ Delivered[i].file = Delivered[j].file
           /\ Delivered[i].to <= Delivered[j].from
           /\ j = i + 1 => Delivered[i].to = Delivered[j].from
  BY <1>4 DEF Ordered, Increasing
<1> HIDE DEF n
<1>9. Increasing'
  <2> SUFFICES ASSUME NEW i \in 1 .. n + 1, NEW j \in 1 .. n + 1, i < j
               PROVE  \/ Delivered'[i].file < Delivered'[j].file
                      \/ /\ Delivered'[i].file = Delivered'[j].file
                         /\ Delivered'[i].to <= Delivered'[j].from
                         /\ j = i + 1 => Delivered'[i].to = Delivered'[j].from
    BY <1>5 DEF Increasing
  <2>1. i \in 1 .. n /\ (j \in 1 .. n \/ j = n + 1)
    BY <1>4
  <2>2. CASE j \in 1 .. n
    BY <1>5, <1>8, <2>1, <2>2
  <2>3. CASE j = n + 1
    <3>1. Delivered'[i] = Delivered[i] /\ Delivered'[j] = p /\ (j = i + 1 => i = n)
      BY <1>4, <1>5, <2>1, <2>3
    <3> QED
      BY <1>2, <1>6, <2>1, <3>1
  <2> QED
    BY <2>1, <2>2, <2>3
<1>10. BeforePosition'
  <2> SUFFICES ASSUME NEW i \in 1 .. n + 1
               PROVE  \/ Delivered'[i].file < cur
                      \/ /\ Delivered'[i].file = cur
                         /\ Delivered'[i].to <= position'
                         /\ i = n + 1 => Delivered'[i].to = position'
    BY <1>1, <1>5 DEF BeforePosition, Before
  <2>1. CASE i \in 1 .. n
    <3>1. i # n + 1 /\ Delivered'[i] = Delivered[i]
      BY <1>4, <1>5, <2>1
    <3> QED
      BY <1>6, <2>1, <3>1
  <2>2. CASE i = n + 1
    BY <1>2, <1>5, <2>2
  <2> QED
    BY <1>4, <2>1, <2>2
<1>11. BeforeLastFile' /\ QueueAhead' /\ KnowsFirstFiles' /\ ListingIsComplete'
  BY <1>1 DEF Ordered, BeforeLastFile, QueueAhead, KnowsFirstFiles, ListingIsComplete, Working
<1> QED
  BY <1>9, <1>10, <1>11 DEF Ordered

LEMMA RecordOrdered ==
    ASSUME Types, Ordered, Record, Delivered' = Delivered
    PROVE  Ordered'
<1>1. /\ pc = "reading" /\ pc' = "select" /\ UNCHANGED queue
      /\ fileMap' = [fileMap EXCEPT ![cur] = result]
      /\ lastFile' = [name |-> cur, position |-> result]
  BY DEF Record, PositionReturned
<1>2. result = position /\ cur \in DOMAIN fileMap
  BY CurIsKnown DEF Record, Types, ReadingOK, CurOK
<1>3. DOMAIN fileMap' = DOMAIN fileMap /\ fileMap'[cur] = position /\ lastFile'.name = cur
  BY <1>1, <1>2
<1>4. Increasing' /\ BeforePosition' /\ ListingIsComplete'
  BY <1>1 DEF Ordered, Increasing, BeforePosition, ListingIsComplete
<1>5. BeforeLastFile'
  BY <1>1, <1>2, <1>3 DEF Ordered, BeforePosition, BeforeLastFile, Before
<1>6. QueueAhead'
  <2>1. \A i \in DOMAIN queue : cur < queue[i]
    BY <1>1 DEF Ordered, QueueAhead, Working
  <2>2. \A i \in DOMAIN queue : queue[i] \in Nat
    <3>1. queue \in Seq(DOMAIN fileMap)
      BY DEF Types, MapOK
    <3>2. \A i \in DOMAIN queue : queue[i] \in DOMAIN fileMap
      BY <3>1, ElementOfSeq, LenProperties
    <3> QED
      BY <3>2, KnownFiles, Bounds
  <2>3. cur \in Nat
    BY <1>2, KnownFiles, Bounds
  <2>4. \A i \in DOMAIN queue : cur <= queue[i]
    BY <2>1, <2>2, <2>3
  <2> QED
    BY <1>1, <1>3, <2>4 DEF Ordered, QueueAhead, Working
<1>7. KnowsFirstFiles'
  BY <1>1, <1>3 DEF Ordered, KnowsFirstFiles, Working
<1> QED
  BY <1>4, <1>5, <1>6, <1>7 DEF Ordered

LEMMA RestartOrdered == ASSUME Types, Restart PROVE Ordered'
<1>1. out' = <<>> /\ queue' = <<>> /\ pc' \in {"select", "panicked"} /\ UNCHANGED sent
  BY DEF Restart, fr
<1>2. sent' = <<>>
  BY <1>1 DEF Restart, Types, CurOK
<1>3. CurPieces' = <<>> /\ Delivered' = out' \o CurPieces'
  BY <1>2 DEF CurPieces, Delivered
<1>4. Delivered' = <<>>
  BY <1>1, <1>3, EmptySeq, ConcatEmptySeq
<1>5. DOMAIN <<>> = {}
  BY EmptySeq
<1>6. Increasing' /\ BeforePosition' /\ BeforeLastFile' /\ ListingIsComplete'
  BY <1>1, <1>4, <1>5 DEF Increasing, BeforePosition, BeforeLastFile, ListingIsComplete
<1>7. QueueAhead' /\ KnowsFirstFiles'
  BY <1>1, <1>4, <1>5 DEF QueueAhead, KnowsFirstFiles
<1> QED
  BY <1>6, <1>7 DEF Ordered

LEMMA OrderedStep == Types /\ Aligned /\ InOrder /\ [Next]_vars => InOrder'
<1> SUFFICES ASSUME Types, AtLineStarts, Ordered, [Next]_vars, faults' = 0,
                    ~StartFails, Read => FR!NormalStep, Drop => readPc = "failed"
             PROVE  Ordered'
  BY NoFault DEF Aligned, InOrder
<1> USE DEF node, mem, fr, history
<1>1. CASE Restart
  BY <1>1, RestartOrdered
<1>2. CASE Read /\ ~(UNCHANGED sent)
  <2>1. pc = "reading" /\ FR!NormalStep
    BY <1>2 DEF Read
  <2>2. /\ position < position'
        /\ sent' = Append(sent, [from |-> position, to |-> position'])
    BY <1>2, <2>1, ReadLineOrNothing
  <2>3. cur \in File /\ size[cur] \in Nat
    BY <2>1, CurIsKnown DEF Types, CurOK, NodeOK
  <2>4. position \in Nat /\ position' \in Nat
    BY <2>1, <2>3, ReadStep
  <2> QED
    BY <1>2, <2>1, <2>2, <2>4, SendOrdered
<1>3. ASSUME ~Restart, Read => UNCHANGED sent PROVE Ordered'
  <2>1. Delivered' = Delivered
    BY <1>3, DeliveredKept
  <2>2. CASE Node \/ Cancel \/ UNCHANGED vars
    BY <2>1, <2>2, SamePlace DEF Node, Cancel, vars
  <2>3. CASE UNCHANGED node /\ ReadDir
    BY <2>1, <2>3, ReadDirOrdered
  <2>4. CASE AddNewFiles
    BY <2>1, <2>4, AddNewFilesOrdered
  <2>5. CASE StartFile
    BY <2>1, <2>5, StartFileOrdered
  <2>6. CASE Read
    <3>1. pc = "reading" /\ FR!NormalStep
      BY <2>6 DEF Read
    <3>2. UNCHANGED position
      <4>1. ~(sent' = Append(sent, [from |-> position, to |-> position']) /\ position < position')
        <5> SUFFICES ASSUME position < position',
                            sent' = Append(sent, [from |-> position, to |-> position'])
                     PROVE  FALSE
          OBVIOUS
        <5>1. cur \in File /\ size[cur] \in Nat
          BY <3>1, CurIsKnown DEF Types, CurOK, NodeOK
        <5>2. [from |-> position, to |-> position'] \in [from : Nat, to : Nat]
          BY <3>1, <5>1, ReadStep
        <5>3. Len(sent') = Len(sent) + 1 /\ Len(sent) \in Nat
          BY <3>1, <5>2, AppendProperties, LenProperties DEF Types, ReadingOK
        <5> QED
          BY <1>3, <2>6, <5>3
      <4> QED
        BY <3>1, <4>1, ReadLineOrNothing
    <3> QED
      BY <2>1, <2>6, <3>2, SamePlace DEF Read
  <2>7. CASE Record
    BY <2>1, <2>7, RecordOrdered
  <2>8. CASE Drop
    <3>1. FALSE
      BY <2>8 DEF Drop, AtLineStarts
    <3> QED
      BY <3>1
  <2>9. CASE Stop \/ Crash
    BY <2>1, <2>9, NotWorking DEF Stop, Crash, Working
  <2> QED
    BY <1>3, <2>2, <2>3, <2>4, <2>5, <2>6, <2>7, <2>8, <2>9 DEF Next, ReaderStep, Environment
<1> QED
  BY <1>1, <1>2, <1>3

LEMMA OrderInvariance == Spec => [](Aligned /\ InOrder)
<1>1. Init => Aligned /\ InOrder
  BY InitAligned, InitOrdered
<1>2. Types /\ Aligned /\ InOrder /\ [Next]_vars => Aligned' /\ InOrder'
  BY AlignedStep, OrderedStep
<1> QED
  BY <1>1, <1>2, TypesInvariance, PTL DEF Spec

\* What one process gives to sendFunc is strictly increasing, without a gap
\* inside a file, as long as no system call fails: addNewFilesToReader never
\* queues a file behind the one it has last read, whatever file_list.txt made
\* the process start from.
THEOREM DeliversInOrder == Spec => []NeverGoesBack
<1>1. InOrder => NeverGoesBack
  BY DEF InOrder, Ordered, Increasing, NeverGoesBack
<1> QED
  BY <1>1, OrderInvariance, PTL

=============================================================================
