------------------------- MODULE ConsoleReader_proofs -------------------------
(***************************************************************************)
(* Theorems about the console reader for every chain of blocks, every      *)
(* capacity of the channel, and any number of crashes and torn lines.      *)
(***************************************************************************)
EXTENDS ConsoleReader, SequenceTheorems, FiniteSetTheorems, TLAPS

-----------------------------------------------------------------------------
(* The log: each line stands after the one that precedes it in its block.  *)

LastLine(h) == Len(BlockLines(h))

Follows(h, k, i) == k > 1 => i > 1 /\ log[i - 1] = BlockLines(h)[k - 1]

LogInOrder ==
    \A i \in 1 .. Len(log) : \E h \in Height : \E k \in 1 .. LastLine(h) :
      log[i] = BlockLines(h)[k] /\ Follows(h, k, i)

NextInOrder ==
    /\ at \in [height : FirstHeight .. LastHeight + 1, index : Nat \ {0}]
    /\ at.height \in Height => at.index \in 1 .. LastLine(at.height)
                               /\ Follows(at.height, at.index, Len(log) + 1)
    /\ at.height \notin Height => at.index = 1

\* What can be in the channel, torn or not.
ChannelLine ==
    {l \in Line : /\ l.kind \in {"BEGIN", "END"} => l.height \in 1 .. LastHeight
                  /\ l.kind \in {"BLOCK", "VSET"} => l.height \in Height \cup {0}
                  /\ l.kind = "TX" => l.height \in Height}

OutBlock == {FromProto(b) : b \in {c \in Block : c.height # 0}}

LogTypes == log \in Seq(Line) /\ LogInOrder /\ NextInOrder

ReaderTypes ==
    /\ read \in 0 .. Len(log)
    /\ lines \in Seq(ChannelLine) /\ Len(lines) <= Capacity
    /\ height \in 0 .. LastHeight
    /\ block \in Block
    /\ status \in {"reading", "ended", "failed", "panicked"}
    /\ out \in Seq(OutBlock)

FaultTypes == crashes \in Nat /\ torn \in Nat /\ crashes + torn <= MaxFaults

Types == LogTypes /\ ReaderTypes /\ FaultTypes

-----------------------------------------------------------------------------
(* What the console reader holds, against the line of the log that it      *)
(* took last.                                                              *)

\* The block of height h after k of its lines.
Partial(h, k) ==
    [height |-> h,
     txs    |-> [i \in 1 .. IF k < Txs[h] + 2 THEN k - 2 ELSE Txs[h] |-> <<h, i>>],
     vset   |-> IF h \in Vsets /\ k >= Txs[h] + 3 THEN h ELSE 0,
     fields |-> "all"]

\* Once a BEGIN was taken, it is that of the block which line c belongs to, and
\* the block has grown by the lines up to c.
OnLog(c) ==
    height > 0 =>
      /\ height \in Height
      /\ c \in 1 .. Len(log)
      /\ \E k \in 1 .. LastLine(height) :
           /\ log[c] = BlockLines(height)[k]
           /\ 1 < k /\ k < LastLine(height) => block = Partial(height, k)

-----------------------------------------------------------------------------
(* While no line is torn.                                                  *)

Taken == read - Len(lines)

Rising ==
    /\ \A i \in 1 .. Len(out) - 1 : out[i].number < out[i + 1].number
    /\ status = "reading" /\ out # <<>> =>
         /\ out[Len(out)].number <= height
         /\ out[Len(out)].number = height => log[Taken].kind = "END"

Untorn ==
    torn = 0 =>
      /\ Len(lines) <= read
      /\ \A i \in 1 .. Len(lines) : lines[i] = log[Taken + i]
      /\ status = "reading" => OnLog(Taken)
      /\ Rising

-----------------------------------------------------------------------------
(* With torn lines: a damaged block is charged to one of them.             *)

\* from: where in the log the queued lines come from; spoilt: the positions
\* that the source has torn since it resumed.
Position(from) == IF from = <<>> THEN read ELSE from[1] - 1

\* A torn END has another height, and no other line is taken for an END.
IsTorn(l, whole) == l.kind = "END" => whole.kind = "END" /\ l.height # whole.height

Explained(from, spoilt) ==
    /\ from \in Seq(Nat) /\ Len(from) = Len(lines)
    /\ spoilt \subseteq 1 .. read /\ Cardinality(spoilt) <= torn
    /\ \A i \in 1 .. Len(from) :
         /\ from[i] \in 1 .. read
         /\ from[i] \notin spoilt => lines[i] = log[from[i]]
         /\ from[i] \in spoilt => IsTorn(lines[i], log[from[i]])
    /\ \A i, j \in 1 .. Len(from) : i < j => from[i] < from[j]
    /\ \A p \in Position(from) + 1 .. read : p \in spoilt \/ \E i \in 1 .. Len(from) : from[i] = p

Tainted(c) == IF status = "reading" /\ ~OnLog(c) THEN 1 ELSE 0

Charged(c, spoilt) == Cardinality(Damaged) + Tainted(c) <= Cardinality(spoilt \cap (1 .. c))

DamageIsCharged ==
    \E from \in Seq(Nat), spoilt \in SUBSET Nat :
      Explained(from, spoilt) /\ Charged(Position(from), spoilt)

-----------------------------------------------------------------------------
(* The lines of a block.                                                   *)

\* Line k of block h.
LineAt(h, k) ==
    IF k = 1 THEN MkLine("BEGIN", h, 0)
    ELSE IF k = 2 THEN MkLine("BLOCK", h, 0)
    ELSE IF k <= Txs[h] + 2 THEN MkLine("TX", h, k - 2)
    ELSE IF h \in Vsets /\ k = Txs[h] + 3 THEN MkLine("VSET", h, 0)
    ELSE MkLine("END", h, 0)

Updates(h) == IF h \in Vsets THEN 1 ELSE 0

\* Heights are positive numbers, and each has a number of transactions.
LEMMA Heights ==
    /\ FirstHeight \in Nat \ {0} /\ LastHeight \in Nat /\ FirstHeight <= LastHeight
    /\ MaxFaults \in Nat /\ Capacity \in Nat \ {0}
    /\ \A h \in Height : /\ h \in Nat /\ FirstHeight <= h /\ h <= LastHeight /\ 1 <= h
                         /\ Txs[h] \in Nat /\ Updates(h) \in 0 .. 1
<1>1. {LastHeight, MaxFaults} \subseteq Nat
  BY ConsoleAssumption
<1>2. LastHeight \in Nat /\ MaxFaults \in Nat
  BY <1>1
<1>3. Txs \in [Height -> Nat]
  BY ConsoleAssumption
<1>4. FirstHeight \in Nat \ {0} /\ FirstHeight <= LastHeight /\ Capacity \in Nat \ {0}
  BY ConsoleAssumption
<1> QED
  BY <1>2, <1>3, <1>4 DEF Height, Updates

LEMMA BlockLinesShape ==
    ASSUME NEW h \in Height
    PROVE  /\ BlockLines(h) \in Seq(Line)
           /\ LastLine(h) = Txs[h] + 3 + Updates(h)
           /\ \A k \in 1 .. LastLine(h) : BlockLines(h)[k] = LineAt(h, k)
<1> DEFINE first == <<MkLine("BEGIN", h, 0), MkLine("BLOCK", h, 0)>>
           txs   == [i \in 1 .. Txs[h] |-> MkLine("TX", h, i)]
           vset  == IF h \in Vsets THEN <<MkLine("VSET", h, 0)>> ELSE <<>>
           last  == <<MkLine("END", h, 0)>>
<1>1. h \in Nat /\ Txs[h] \in Nat /\ Updates(h) \in 0 .. 1
  BY Heights
<1>2. /\ first \in Seq(Line) /\ Len(first) = 2
      /\ first[1] = MkLine("BEGIN", h, 0) /\ first[2] = MkLine("BLOCK", h, 0)
  <2>1. MkLine("BEGIN", h, 0) \in Line /\ MkLine("BLOCK", h, 0) \in Line
    BY <1>1 DEF MkLine, Line
  <2> QED
    BY <2>1
<1>3. /\ txs \in Seq(Line) /\ Len(txs) = Txs[h]
      /\ \A i \in 1 .. Txs[h] : txs[i] = MkLine("TX", h, i)
  <2>1. \A i \in 1 .. Txs[h] : MkLine("TX", h, i) \in Line
    BY <1>1 DEF MkLine, Line
  <2>2. txs \in [1 .. Txs[h] -> Line]
    BY <2>1
  <2>3. txs \in Seq(Line)
    BY <1>1, <2>2, SeqDef
  <2> HIDE DEF txs
  <2>4. Len(txs) = Txs[h]
    BY <1>1, <2>2, <2>3, LenProperties
  <2> QED
    BY <2>3, <2>4 DEF txs
<1>4. /\ vset \in Seq(Line) /\ Len(vset) = Updates(h)
      /\ h \in Vsets => vset[1] = MkLine("VSET", h, 0)
  <2>1. MkLine("VSET", h, 0) \in Line
    BY <1>1 DEF MkLine, Line
  <2>2. CASE h \in Vsets
    <3>1. vset = <<MkLine("VSET", h, 0)>> /\ Updates(h) = 1
      BY <2>2 DEF Updates
    <3> QED
      BY <2>1, <3>1
  <2>3. CASE h \notin Vsets
    <3>1. vset = <<>> /\ Updates(h) = 0
      BY <2>3 DEF Updates
    <3> QED
      BY <2>3, <3>1
  <2> QED
    BY <2>2, <2>3
<1>5. last \in Seq(Line) /\ Len(last) = 1 /\ last[1] = MkLine("END", h, 0)
  <2>1. MkLine("END", h, 0) \in Line
    BY <1>1 DEF MkLine, Line
  <2> QED
    BY <2>1
<1>6. BlockLines(h) = ((first \o txs) \o vset) \o last
  BY DEF BlockLines
<1> HIDE DEF first, txs, vset, last
<1>7. /\ first \o txs \in Seq(Line)
      /\ Len(first \o txs) = 2 + Txs[h]
      /\ \A i \in 1 .. 2 + Txs[h] :
           (first \o txs)[i] = IF i <= 2 THEN first[i] ELSE txs[i - 2]
  <2>1. /\ first \o txs \in Seq(Line)
        /\ Len(first \o txs) = Len(first) + Len(txs)
        /\ \A i \in 1 .. Len(first) + Len(txs) :
             (first \o txs)[i] = IF i <= Len(first) THEN first[i] ELSE txs[i - Len(first)]
    BY <1>2, <1>3, ConcatProperties
  <2> QED
    BY <1>2, <1>3, <2>1
<1> DEFINE body == first \o txs
<1> HIDE DEF body
<1>8. /\ body \o vset \in Seq(Line)
      /\ Len(body \o vset) = 2 + Txs[h] + Updates(h)
      /\ \A i \in 1 .. 2 + Txs[h] + Updates(h) :
           (body \o vset)[i] = IF i <= 2 + Txs[h] THEN body[i] ELSE vset[i - (2 + Txs[h])]
  <2>0. body \in Seq(Line) /\ Len(body) = 2 + Txs[h]
    BY <1>7 DEF body
  <2>1. /\ body \o vset \in Seq(Line)
        /\ Len(body \o vset) = Len(body) + Len(vset)
        /\ \A i \in 1 .. Len(body) + Len(vset) :
             (body \o vset)[i] = IF i <= Len(body) THEN body[i] ELSE vset[i - Len(body)]
    BY <1>4, <2>0, ConcatProperties
  <2> QED
    BY <1>4, <2>0, <2>1
<1> DEFINE most == body \o vset
<1> HIDE DEF most
<1>9. /\ BlockLines(h) \in Seq(Line)
      /\ LastLine(h) = Txs[h] + 3 + Updates(h)
      /\ \A i \in 1 .. LastLine(h) :
           BlockLines(h)[i] = IF i <= 2 + Txs[h] + Updates(h) THEN most[i]
                              ELSE last[i - (2 + Txs[h] + Updates(h))]
  <2>0. most \in Seq(Line) /\ Len(most) = 2 + Txs[h] + Updates(h)
    BY <1>8 DEF most
  <2>1. /\ most \o last \in Seq(Line)
        /\ Len(most \o last) = Len(most) + Len(last)
        /\ \A i \in 1 .. Len(most) + Len(last) :
             (most \o last)[i] = IF i <= Len(most) THEN most[i] ELSE last[i - Len(most)]
    BY <1>5, <2>0, ConcatProperties
  <2>2. BlockLines(h) = most \o last
    BY <1>6 DEF most, body
  <2>3. LastLine(h) = Len(most \o last)
    BY <2>2 DEF LastLine
  <2>4. LastLine(h) = Txs[h] + 3 + Updates(h)
    BY <1>1, <1>5, <2>0, <2>1, <2>3
  <2> QED
    BY <1>1, <1>5, <2>0, <2>1, <2>2, <2>4
<1>10. /\ \A i \in 1 .. 2 + Txs[h] : body[i] = IF i <= 2 THEN first[i] ELSE txs[i - 2]
       /\ \A i \in 1 .. 2 + Txs[h] + Updates(h) :
            most[i] = IF i <= 2 + Txs[h] THEN body[i] ELSE vset[i - (2 + Txs[h])]
  BY <1>7, <1>8 DEF body, most
<1>11. ASSUME NEW k \in 1 .. LastLine(h)
       PROVE  BlockLines(h)[k] = LineAt(h, k)
  <2>0. k \in Nat /\ 1 <= k /\ k <= Txs[h] + 3 + Updates(h)
    BY <1>1, <1>9
  <2>1. CASE k <= 2
    <3>1. BlockLines(h)[k] = first[k]
      BY <1>1, <1>9, <1>10, <2>1
    <3> QED
      BY <1>2, <2>1, <3>1 DEF LineAt
  <2>2. CASE 2 < k /\ k <= Txs[h] + 2
    <3>1. k \in 1 .. 2 + Txs[h] /\ k \in 1 .. 2 + Txs[h] + Updates(h)
      BY <1>1, <2>2
    <3>4. BlockLines(h)[k] = txs[k - 2]
      BY <1>1, <1>9, <1>10, <2>2, <3>1
    <3>2. k - 2 \in 1 .. Txs[h]
      BY <1>1, <2>2
    <3>3. txs[k - 2] = MkLine("TX", h, k - 2)
      BY <1>3, <3>2
    <3> QED
      BY <2>2, <3>3, <3>4 DEF LineAt
  <2>3. CASE h \in Vsets /\ k = Txs[h] + 3
    <3>1. Updates(h) = 1
      BY <2>3 DEF Updates
    <3>2. BlockLines(h)[k] = vset[k - (2 + Txs[h])]
      <4>1. k \in 1 .. 2 + Txs[h] + Updates(h) /\ ~(k <= 2 + Txs[h])
        BY <1>1, <2>3, <3>1
      <4>2. BlockLines(h)[k] = most[k]
        BY <1>1, <1>9, <4>1
      <4> QED
        BY <1>10, <4>1, <4>2
    <3>3. k - (2 + Txs[h]) = 1
      BY <1>1, <2>3
    <3>4. LineAt(h, k) = MkLine("VSET", h, 0)
      BY <1>1, <2>3 DEF LineAt
    <3> QED
      BY <1>4, <2>3, <3>2, <3>3, <3>4
  <2>4. CASE k > Txs[h] + 2 /\ ~(h \in Vsets /\ k = Txs[h] + 3)
    <3>1. k = 2 + Txs[h] + Updates(h) + 1
      <4>1. (h \in Vsets /\ Updates(h) = 1) \/ Updates(h) = 0
        BY DEF Updates
      <4> QED
        BY <1>1, <2>0, <2>4, <4>1
    <3>4. k - (2 + Txs[h] + Updates(h)) = 1 /\ ~(k <= 2 + Txs[h] + Updates(h))
      BY <1>1, <3>1
    <3>2. BlockLines(h)[k] = last[1]
      BY <1>9, <3>4
    <3>3. LineAt(h, k) = MkLine("END", h, 0)
      BY <1>1, <2>4 DEF LineAt
    <3> QED
      BY <1>5, <3>2, <3>3
  <2> QED
    BY <1>1, <1>9, <2>1, <2>2, <2>3, <2>4
<1> QED
  BY <1>9, <1>11

LEMMA LastLineType ==
    ASSUME NEW h \in Height
    PROVE  LastLine(h) \in Nat /\ LastLine(h) >= 3
<1>1. Txs[h] \in Nat /\ Updates(h) \in 0 .. 1
  BY Heights
<1>2. LastLine(h) = Txs[h] + 3 + Updates(h)
  BY BlockLinesShape
<1> QED
  BY <1>1, <1>2

\* What each line of a block is, by its kind.
LEMMA LineKinds ==
    ASSUME NEW h \in Height, NEW k \in 1 .. LastLine(h), NEW l, l = BlockLines(h)[k]
    PROVE  /\ l \in Line /\ l.height = h /\ l.kind # "INVALID"
           /\ LastLine(h) = Txs[h] + 3 + Updates(h)
           /\ l.kind = "BEGIN" <=> k = 1
           /\ l.kind = "BLOCK" <=> k = 2
           /\ l.kind = "TX" <=> k \in 3 .. Txs[h] + 2
           /\ l.kind = "VSET" <=> h \in Vsets /\ k = Txs[h] + 3
           /\ l.kind = "END" <=> k = LastLine(h)
           /\ l.index = IF k \in 3 .. Txs[h] + 2 THEN k - 2 ELSE 0
<1>1. h \in Nat /\ Txs[h] \in Nat /\ Updates(h) = IF h \in Vsets THEN 1 ELSE 0
  BY Heights DEF Updates
<1>2. LastLine(h) = Txs[h] + 3 + Updates(h) /\ l = LineAt(h, k)
  BY BlockLinesShape
<1>3. l \in Line
  BY <1>2, BlockLinesShape, ElementOfSeq DEF LastLine
<1>4. k \in Nat /\ 1 <= k /\ k <= LastLine(h)
  BY <1>1, <1>2
<1> QED
  BY <1>1, <1>2, <1>3, <1>4 DEF LineAt, MkLine

\* No line occurs twice on the chain.
LEMMA SameLine ==
    ASSUME NEW g \in Height, NEW j \in 1 .. LastLine(g),
           NEW h \in Height, NEW k \in 1 .. LastLine(h),
           BlockLines(g)[j] = BlockLines(h)[k]
    PROVE  g = h /\ j = k
<1> DEFINE l == BlockLines(g)[j]
<1>1. l.height = g /\ l.height = h
  BY LineKinds
<1> HIDE DEF l
<1>2. g = h /\ Txs[h] \in Nat /\ Updates(h) \in 0 .. 1
  BY <1>1, Heights
<1>3. /\ l.kind = "BEGIN" <=> j = 1
      /\ l.kind = "BLOCK" <=> j = 2
      /\ l.kind = "VSET" <=> g \in Vsets /\ j = Txs[g] + 3
      /\ l.kind = "END" <=> j = LastLine(g)
      /\ l.index = IF j \in 3 .. Txs[g] + 2 THEN j - 2 ELSE 0
      /\ LastLine(g) = Txs[g] + 3 + Updates(g)
  BY LineKinds DEF l
<1>4. /\ l.kind = "BEGIN" <=> k = 1
      /\ l.kind = "BLOCK" <=> k = 2
      /\ l.kind = "VSET" <=> h \in Vsets /\ k = Txs[h] + 3
      /\ l.kind = "END" <=> k = LastLine(h)
      /\ l.index = IF k \in 3 .. Txs[h] + 2 THEN k - 2 ELSE 0
  BY LineKinds DEF l
<1> QED
  BY <1>2, <1>3, <1>4

-----------------------------------------------------------------------------
(* Types.                                                                  *)

LEMMA TypesImply == Types => TypeOK
<1> SUFFICES ASSUME Types PROVE TypeOK
  OBVIOUS
<1>1. log \in Seq(Line) /\ NextInOrder
  BY DEF Types, LogTypes
<1>2. at.height \in FirstHeight .. LastHeight + 1
  BY <1>1 DEF NextInOrder
<1>3. at.height \in Height => at.index \in 1 .. Len(BlockLines(at.height))
  BY <1>1 DEF NextInOrder, LastLine
<1>4. lines \in Seq(Line)
  <2>1. ChannelLine \subseteq Line /\ lines \in Seq(ChannelLine)
    BY DEF Types, ReaderTypes, ChannelLine
  <2> QED
    BY <2>1, SeqMonotonic
<1>5. \A i \in DOMAIN out : out[i].payload \in Block
  <2>1. out \in Seq(OutBlock)
    BY DEF Types, ReaderTypes
  <2> SUFFICES ASSUME NEW i \in DOMAIN out PROVE out[i].payload \in Block
    OBVIOUS
  <2>2. out[i] \in OutBlock
    BY <2>1, LenProperties, ElementOfSeq
  <2> QED
    BY <2>2 DEF OutBlock, FromProto
<1> QED
  BY <1>1, <1>2, <1>3, <1>4, <1>5 DEF Types, ReaderTypes, FaultTypes, TypeOK

LEMMA InitTypes == Init => Types
<1> SUFFICES ASSUME Init PROVE Types
  OBVIOUS
<1>1. Len(log) = 0 /\ Len(lines) = 0
  BY DEF Init
<1>2. log \in Seq(Line) /\ lines \in Seq(ChannelLine) /\ out \in Seq(OutBlock)
  BY DEF Init
<1>3. LogInOrder
  BY <1>1 DEF LogInOrder
<1>4. NextInOrder
  <2>1. at = [height |-> FirstHeight, index |-> 1] /\ FirstHeight \in Height
    BY Heights DEF Init, Height
  <2>2. 1 \in 1 .. LastLine(FirstHeight)
    BY <2>1, Heights, BlockLinesShape
  <2>3. FirstHeight \in FirstHeight .. LastHeight + 1
    BY Heights
  <2> QED
    BY <2>1, <2>2, <2>3 DEF NextInOrder, Follows
<1>5. block \in Block
  <2>1. <<>> \in Seq(Height \X Nat)
    OBVIOUS
  <2> QED
    BY <2>1 DEF Init, NoBlock, Block
<1> QED
  BY <1>1, <1>2, <1>3, <1>4, <1>5, Heights
     DEF Init, Types, LogTypes, ReaderTypes, FaultTypes

\* The lines of the log, by LogInOrder.
LEMMA LogLine ==
    ASSUME Types, NEW i \in 1 .. Len(log)
    PROVE  \E h \in Height : \E k \in 1 .. LastLine(h) :
             log[i] = BlockLines(h)[k] /\ Follows(h, k, i)
BY DEF Types, LogTypes, LogInOrder

LEMMA LogIsOfTheChannel ==
    ASSUME Types, NEW i \in 1 .. Len(log)
    PROVE  log[i] \in ChannelLine
<1>1. PICK h \in Height : \E k \in 1 .. LastLine(h) : log[i] = BlockLines(h)[k]
  BY LogLine
<1>2. PICK k \in 1 .. LastLine(h) : log[i] = BlockLines(h)[k]
  BY <1>1
<1>3. log[i] \in Line /\ log[i].height = h
  BY <1>2, LineKinds
<1>4. h \in 1 .. LastHeight
  BY Heights
<1> QED
  BY <1>3, <1>4 DEF ChannelLine

LEMMA HeadsAreOfTheChannel ==
    ASSUME Types, NEW i \in 1 .. Len(log), NEW l \in DataHeads(log[i])
    PROVE  l \in ChannelLine /\ IsTorn(l, log[i])
<1>1. PICK h \in Height : \E k \in 1 .. LastLine(h) : log[i] = BlockLines(h)[k]
  BY LogLine
<1>2. PICK k \in 1 .. LastLine(h) : log[i] = BlockLines(h)[k]
  BY <1>1
<1>3. log[i] \in Line /\ log[i].height = h /\ log[i].kind # "INVALID"
  BY <1>2, LineKinds
<1>4. h \in 1 .. LastHeight /\ h \in Nat
  BY Heights
<1>5. CASE log[i].kind \in {"BEGIN", "END"}
  <2>1. PICK n \in NumberHeads(h) : l = [log[i] EXCEPT !.height = n]
    BY <1>3, <1>5 DEF DataHeads
  <2>2. n \in 1 .. LastHeight /\ n # h
    BY <1>4, Heights DEF NumberHeads
  <2> QED
    BY <1>3, <1>5, <2>1, <2>2 DEF IsTorn, Line, ChannelLine
<1>6. CASE log[i].kind = "BLOCK"
  <2>1. l = [log[i] EXCEPT !.index = 1] \/ l = MkLine("BLOCK", 0, 1)
    BY <1>3, <1>6 DEF DataHeads
  <2> QED
    BY <1>3, <1>6, <2>1 DEF IsTorn, Line, ChannelLine, MkLine
<1>7. CASE log[i].kind = "TX"
  <2>1. l = [log[i] EXCEPT !.index = 0]
    BY <1>3, <1>7 DEF DataHeads
  <2> QED
    BY <1>3, <1>7, <2>1 DEF IsTorn, Line, ChannelLine
<1>8. CASE log[i].kind = "VSET"
  <2>1. l = [log[i] EXCEPT !.height = 0]
    BY <1>3, <1>8 DEF DataHeads
  <2> QED
    BY <1>3, <1>8, <2>1 DEF IsTorn, Line, ChannelLine
<1> QED
  BY <1>3, <1>5, <1>6, <1>7, <1>8 DEF Line

\* The node writes the line that follows, in the block it is at.
LEMMA WriteLineLog ==
    ASSUME Types, WriteLine
    PROVE  LogTypes' /\ Len(log') = Len(log) + 1 /\ Len(log) \in Nat
           /\ \A i \in 1 .. Len(log) : log'[i] = log[i]
<1>0. PICK h \in Height, k \in Nat, n \in Nat : h = at.height /\ k = at.index /\ n = Len(log)
  <2>1. at.height \in Height /\ at.index \in Nat /\ Len(log) \in Nat
    BY LenProperties DEF WriteLine, Types, LogTypes, NextInOrder
  <2> QED
    BY <2>1
<1> DEFINE l == BlockLines(h)[k]
<1>1. /\ h \in Height /\ k \in 1 .. LastLine(h) /\ Follows(h, k, n + 1)
      /\ at \in [height : FirstHeight .. LastHeight + 1, index : Nat \ {0}]
      /\ log \in Seq(Line) /\ LogInOrder
  BY <1>0 DEF WriteLine, Types, LogTypes, NextInOrder
<1>2. l \in Line
  BY <1>1, LineKinds
<1>3. log' = Append(log, l)
  BY <1>0 DEF WriteLine
<1> HIDE DEF l
<1>4. /\ log' \in Seq(Line) /\ Len(log') = n + 1
      /\ \A i \in 1 .. n : log'[i] = log[i]
  BY <1>0, <1>1, <1>2, <1>3, AppendProperties, LenProperties
<1>5. log'[n + 1] = l
  BY <1>0, <1>1, <1>2, <1>3, AppendProperties
<1>6. LogInOrder'
  <2>1. ASSUME NEW i \in 1 .. Len(log')
        PROVE  \E g \in Height : \E j \in 1 .. LastLine(g) :
                 log'[i] = BlockLines(g)[j] /\ Follows(g, j, i)'
    <3>1. CASE i \in 1 .. n
      <4>1. PICK g \in Height : \E j \in 1 .. LastLine(g) :
              log[i] = BlockLines(g)[j] /\ Follows(g, j, i)
        BY <1>0, <1>1, <3>1 DEF LogInOrder
      <4>2. PICK j \in 1 .. LastLine(g) : log[i] = BlockLines(g)[j] /\ Follows(g, j, i)
        BY <4>1
      <4>3. Follows(g, j, i)'
        BY <1>4, <3>1, <4>2 DEF Follows
      <4> QED
        BY <1>4, <3>1, <4>2, <4>3
    <3>2. CASE i = n + 1
      <4>1. Follows(h, k, i)'
        BY <1>1, <1>4, <3>2 DEF Follows
      <4> QED
        BY <1>1, <1>5, <3>2, <4>1 DEF l
    <3> QED
      BY <1>4, <3>1, <3>2
  <2> QED
    BY <2>1 DEF LogInOrder
<1>7. NextInOrder'
  <2>1. h \in Nat /\ FirstHeight <= h /\ h <= LastHeight /\ FirstHeight \in Nat /\ LastHeight \in Nat
    BY <1>1, Heights
  <2>2. LastLine(h) \in Nat
    BY <1>1, LastLineType
  <2>3. CASE k = LastLine(h)
    <3>1. at' = [height |-> h + 1, index |-> 1]
      BY <1>0, <2>3 DEF WriteLine, LastLine
    <3>2. h + 1 \in Height => 1 \in 1 .. LastLine(h + 1)
      BY LastLineType
    <3> QED
      BY <2>1, <3>1, <3>2 DEF NextInOrder, Follows
  <2>4. CASE k # LastLine(h)
    <3>1. at' = [height |-> h, index |-> k + 1]
      BY <1>0, <1>1, <2>4 DEF WriteLine, LastLine
    <3>2. k + 1 \in 1 .. LastLine(h)
      BY <1>1, <2>2, <2>4
    <3>3. Follows(h, k + 1, n + 2)'
      <4>1. n + 2 > 1 /\ (n + 2) - 1 = n + 1 /\ (k + 1) - 1 = k
        OBVIOUS
      <4>2. log'[(n + 2) - 1] = BlockLines(h)[(k + 1) - 1]
        BY <1>5, <4>1 DEF l
      <4> QED
        BY <4>1, <4>2 DEF Follows
    <3>6. Follows(h, k + 1, Len(log) + 1)'
      BY <1>4, <3>3
    <3>4. at' \in [height : FirstHeight .. LastHeight + 1, index : Nat \ {0}]
      BY <1>1, <2>1, <3>1
    <3>5. at'.height = h /\ at'.index = k + 1
      BY <3>1
    <3> QED
      BY <1>1, <3>2, <3>4, <3>5, <3>6 DEF NextInOrder
  <2> QED
    BY <2>3, <2>4
<1> QED
  BY <1>0, <1>4, <1>6, <1>7 DEF LogTypes

\* It is at the next height only when it has written a part of its block.
LEMMA NodeRestartLog == Types /\ NodeRestart => LogTypes' /\ log' = log
<1> SUFFICES ASSUME Types, NodeRestart PROVE LogTypes' /\ log' = log
  OBVIOUS
<1>1. log' = log
  BY DEF NodeRestart
<1>2. /\ at \in [height : FirstHeight .. LastHeight + 1, index : Nat \ {0}]
      /\ at.height \notin Height => at.index = 1
  BY DEF Types, LogTypes, NextInOrder
<1>3. PICK h \in at.height - 1 .. at.height + 1 :
        /\ h >= FirstHeight
        /\ h > at.height => at.index > 1
        /\ at' = [height |-> h, index |-> 1]
  BY DEF NodeRestart
<1>4. h \in FirstHeight .. LastHeight + 1
  BY <1>2, <1>3, Heights DEF Height
<1>5. h \in Height => 1 \in 1 .. LastLine(h)
  BY LastLineType
<1>6. NextInOrder'
  BY <1>3, <1>4, <1>5 DEF NextInOrder, Follows
<1>7. LogInOrder' /\ log' \in Seq(Line)
  BY <1>1 DEF Types, LogTypes, LogInOrder, Follows
<1> QED
  BY <1>1, <1>6, <1>7 DEF LogTypes

\* A line taken from the channel is its first.
LEMMA TakeFacts ==
    ASSUME Types, NEW kind, Take(kind)
    PROVE  /\ status = "reading"
           /\ Len(lines) \in Nat \ {0} /\ Len(lines') = Len(lines) - 1
           /\ lines' \in Seq(ChannelLine)
           /\ \A i \in 1 .. Len(lines') : lines'[i] = lines[i + 1]
           /\ Head(lines) = lines[1] /\ Head(lines) \in ChannelLine /\ Head(lines).kind = kind
           /\ LogTypes' /\ FaultTypes'
           /\ UNCHANGED <<log, at, read, crashes, torn>>
<1>1. /\ status = "reading" /\ lines # <<>> /\ lines' = Tail(lines) /\ Head(lines).kind = kind
      /\ UNCHANGED <<log, at, read, crashes, torn>>
  BY DEF Take, node
<1>2. lines \in Seq(ChannelLine)
  BY DEF Types, ReaderTypes
<1>3. Len(lines) \in Nat \ {0}
  BY <1>1, <1>2, EmptySeq
<1>4. /\ Head(lines) \in ChannelLine /\ Tail(lines) \in Seq(ChannelLine)
      /\ Len(Tail(lines)) = Len(lines) - 1
      /\ \A i \in 1 .. Len(Tail(lines)) : Tail(lines)[i] = lines[i + 1]
  BY <1>1, <1>2, HeadTailProperties
<1>5. Head(lines) = lines[1]
  BY <1>1, <1>2
<1>6. LogTypes' /\ FaultTypes'
  BY <1>1 DEF Types, LogTypes, LogInOrder, NextInOrder, Follows, FaultTypes
<1> QED
  BY <1>1, <1>3, <1>4, <1>5, <1>6

\* What ReadBlock makes of a line is a block of the types of a block.
LEMMA ReadBlockTypes == Types /\ ReadBlock => Types'
<1> SUFFICES ASSUME Types, ReadBlock PROVE Types'
  OBVIOUS
<1> DEFINE l == Head(lines)
<1>1. /\ read \in 0 .. Len(log) /\ Len(lines) <= Capacity /\ Capacity \in Nat
      /\ height \in 0 .. LastHeight /\ block \in Block /\ out \in Seq(OutBlock)
  BY Heights DEF Types, ReaderTypes
<1>2. ASSUME NEW kind, Take(kind), height' \in 0 .. LastHeight, block' \in Block,
             status' \in {"reading", "ended", "failed", "panicked"}, out' \in Seq(OutBlock)
      PROVE  Types'
  <2>1. /\ LogTypes' /\ FaultTypes' /\ read' = read /\ log' = log
        /\ lines' \in Seq(ChannelLine) /\ Len(lines') = Len(lines) - 1 /\ Len(lines) \in Nat
    BY <1>2, TakeFacts
  <2>2. ReaderTypes'
    BY <1>1, <1>2, <2>1 DEF ReaderTypes
  <2> QED
    BY <2>1, <2>2 DEF Types
<1>3. ASSUME NEW kind, Take(kind), Fail \/ Panic
      PROVE  Types'
  <2>1. status' \in {"failed", "panicked"} /\ UNCHANGED <<height, block, out>>
    BY <1>3 DEF Fail, Panic
  <2> QED
    BY <1>1, <1>2, <1>3, <2>1
<1>4. CASE TakeInvalid
  BY <1>3, <1>4 DEF TakeInvalid
<1>5. CASE TakeBegin
  <2>1. Take("BEGIN")
    BY <1>5 DEF TakeBegin
  <2>2. CASE Fail
    BY <1>3, <2>1, <2>2
  <2>3. CASE height' = l.height /\ UNCHANGED <<block, status, out>>
    <3>1. l \in ChannelLine /\ l.kind = "BEGIN" /\ status = "reading"
      BY <2>1, TakeFacts
    <3>2. l.height \in 0 .. LastHeight
      BY <3>1 DEF ChannelLine
    <3> QED
      BY <1>1, <1>2, <2>1, <2>3, <3>1, <3>2
  <2> QED
    BY <1>5, <2>2, <2>3 DEF TakeBegin
<1>6. CASE TakeBlock
  <2>1. Take("BLOCK")
    BY <1>6 DEF TakeBlock
  <2>2. l \in ChannelLine /\ l.kind = "BLOCK" /\ status = "reading"
    BY <2>1, TakeFacts
  <2>3. l.height \in Height \cup {0}
    BY <2>2 DEF ChannelLine
  <2>4. /\ block' = [height |-> l.height, txs |-> <<>>, vset |-> 0,
                     fields |-> IF l.index = 0 THEN "all" ELSE "some"]
        /\ UNCHANGED <<height, status, out>>
    BY <1>6 DEF TakeBlock
  <2>5. <<>> \in Seq(Height \X Nat)
    OBVIOUS
  <2>6. block' \in Block
    BY <2>3, <2>4, <2>5 DEF Block
  <2> QED
    BY <1>1, <1>2, <2>1, <2>2, <2>4, <2>6
<1>7. CASE TakeTx
  <2>1. Take("TX")
    BY <1>7 DEF TakeTx
  <2>2. l \in ChannelLine /\ l.kind = "TX" /\ status = "reading"
    BY <2>1, TakeFacts
  <2>3. <<l.height, l.index>> \in Height \X Nat
    BY <2>2 DEF ChannelLine, Line
  <2>4. CASE Panic
    BY <1>3, <2>1, <2>4
  <2>5. CASE /\ block' = [block EXCEPT !.txs = Append(@, <<l.height, l.index>>)]
             /\ UNCHANGED <<height, status, out>>
    <3>1. block.txs \in Seq(Height \X Nat)
      BY <1>1 DEF Block
    <3>2. Append(block.txs, <<l.height, l.index>>) \in Seq(Height \X Nat)
      BY <2>3, <3>1, AppendProperties
    <3>3. block' \in Block
      BY <1>1, <2>5, <3>2 DEF Block
    <3> QED
      BY <1>1, <1>2, <2>1, <2>2, <2>5, <3>3
  <2> QED
    BY <1>7, <2>4, <2>5 DEF TakeTx
<1>8. CASE TakeValidatorSetUpdate
  <2>1. Take("VSET")
    BY <1>8 DEF TakeValidatorSetUpdate
  <2>2. l \in ChannelLine /\ l.kind = "VSET" /\ status = "reading"
    BY <2>1, TakeFacts
  <2>3. CASE Panic
    BY <1>3, <2>1, <2>3
  <2>4. CASE block' = [block EXCEPT !.vset = l.height] /\ UNCHANGED <<height, status, out>>
    <3>1. l.height \in Height \cup {0}
      BY <2>2 DEF ChannelLine
    <3>2. block' \in Block
      BY <1>1, <2>4, <3>1 DEF Block
    <3> QED
      BY <1>1, <1>2, <2>1, <2>2, <2>4, <3>2
  <2> QED
    BY <1>8, <2>3, <2>4 DEF TakeValidatorSetUpdate
<1>9. CASE TakeEnd
  <2>1. Take("END")
    BY <1>9 DEF TakeEnd
  <2>2. status = "reading"
    BY <2>1, TakeFacts
  <2>3. CASE Fail \/ Panic
    BY <1>3, <2>1, <2>3
  <2>4. CASE /\ block.height # 0
             /\ out' = Append(out, FromProto(block))
             /\ UNCHANGED <<height, block, status>>
    <3>1. FromProto(block) \in OutBlock
      BY <1>1, <2>4 DEF OutBlock
    <3>2. out' \in Seq(OutBlock)
      BY <1>1, <2>4, <3>1, AppendProperties
    <3> QED
      BY <1>1, <1>2, <2>1, <2>2, <2>4, <3>2
  <2>5. \/ Fail \/ Panic
        \/ /\ block.height # 0
           /\ out' = Append(out, FromProto(block))
           /\ UNCHANGED <<height, block, status>>
    BY <1>9 DEF TakeEnd
  <2> QED
    BY <2>3, <2>4, <2>5
<1> QED
  BY <1>4, <1>5, <1>6, <1>7, <1>8, <1>9 DEF ReadBlock

\* A line enters the channel as the node wrote it, or torn.
LEMMA SourceTypes == Types /\ (HandOn \/ HandOnTorn) => Types'
<1> SUFFICES ASSUME Types, HandOn \/ HandOnTorn PROVE Types'
  OBVIOUS
<1>1. /\ read \in 0 .. Len(log) /\ Len(log) \in Nat
      /\ lines \in Seq(ChannelLine) /\ Len(lines) <= Capacity /\ Len(lines) \in Nat
      /\ Capacity \in Nat /\ MaxFaults \in Nat /\ crashes \in Nat /\ torn \in Nat
      /\ crashes + torn <= MaxFaults
  BY Heights, LenProperties DEF Types, LogTypes, ReaderTypes, FaultTypes
<1>2. read < Len(log) /\ read' = read + 1
      /\ UNCHANGED <<log, at, height, block, status, out, crashes>>
  BY DEF HandOn, HandOnTorn, node, cr
<1>3. read + 1 \in 1 .. Len(log)
  BY <1>1, <1>2
<1>4. LogTypes'
  BY <1>2 DEF Types, LogTypes, LogInOrder, NextInOrder, Follows
<1>5. FaultTypes'
  <2>1. torn' = torn \/ (torn' = torn + 1 /\ crashes + torn < MaxFaults)
    BY DEF HandOn, HandOnTorn
  <2> QED
    BY <1>1, <1>2, <2>1 DEF FaultTypes
<1>6. \/ lines' = lines
      \/ Len(lines) < Capacity /\ \E l \in ChannelLine : lines' = Append(lines, l)
  <2>1. log[read + 1] \in ChannelLine
    BY <1>3, LogIsOfTheChannel
  <2>2. \A l \in DataHeads(log[read + 1]) : l \in ChannelLine
    BY <1>3, HeadsAreOfTheChannel
  <2>3. MkLine("INVALID", 0, 0) \in ChannelLine
    BY DEF MkLine, ChannelLine, Line
  <2>4. CASE HandOn
    BY <2>1, <2>4 DEF HandOn
  <2>5. CASE HandOnTorn
    <3>1. \/ lines' = lines
          \/ /\ Len(lines) < Capacity
             /\ \E l \in DataHeads(log[read + 1]) \cup {MkLine("INVALID", 0, 0)} :
                  lines' = Append(lines, l)
      BY <1>2, <2>5 DEF HandOnTorn
    <3> QED
      BY <2>2, <2>3, <3>1
  <2> QED
    BY <2>4, <2>5
<1>7. lines' \in Seq(ChannelLine) /\ Len(lines') <= Capacity
  <2>1. CASE lines' = lines
    BY <1>1, <2>1
  <2>2. CASE Len(lines) < Capacity /\ \E l \in ChannelLine : lines' = Append(lines, l)
    <3>1. PICK l \in ChannelLine : lines' = Append(lines, l)
      BY <2>2
    <3>2. lines' \in Seq(ChannelLine) /\ Len(lines') = Len(lines) + 1
      BY <1>1, <3>1, AppendProperties
    <3> QED
      BY <1>1, <2>2, <3>2
  <2> QED
    BY <1>6, <2>1, <2>2
<1>8. ReaderTypes'
  BY <1>1, <1>2, <1>3, <1>7 DEF Types, ReaderTypes
<1> QED
  BY <1>4, <1>5, <1>8 DEF Types

LEMMA ReaderRestartTypes == Types /\ ReaderRestart => Types'
<1> SUFFICES ASSUME Types, ReaderRestart PROVE Types'
  OBVIOUS
<1>1. /\ UNCHANGED <<log, at, torn>> /\ crashes + torn < MaxFaults /\ crashes' = crashes + 1
      /\ lines' = <<>> /\ height' = 0 /\ block' = NoBlock /\ status' = "reading" /\ out' = <<>>
  BY DEF ReaderRestart, node
<1>2. LogTypes'
  BY <1>1 DEF Types, LogTypes, LogInOrder, NextInOrder, Follows
<1>3. FaultTypes'
  BY <1>1, Heights DEF Types, FaultTypes
<1>4. read' \in 0 .. Len(log')
  <2>1. PICK r \in 0 .. read : read' = r
    BY DEF ReaderRestart
  <2>2. read \in 0 .. Len(log) /\ Len(log) \in Nat
    BY LenProperties DEF Types, LogTypes, ReaderTypes
  <2> QED
    BY <1>1, <2>1, <2>2
<1>5. block' \in Block
  <2>1. <<>> \in Seq(Height \X Nat)
    OBVIOUS
  <2> QED
    BY <1>1, <2>1 DEF NoBlock, Block
<1>6. lines' \in Seq(ChannelLine) /\ Len(lines') = 0 /\ out' \in Seq(OutBlock)
  BY <1>1
<1>7. ReaderTypes'
  BY <1>1, <1>4, <1>5, <1>6, Heights DEF ReaderTypes
<1> QED
  BY <1>2, <1>3, <1>7 DEF Types

LEMMA EndOfLinesTypes == Types /\ EndOfLines => Types'
<1> SUFFICES ASSUME Types, EndOfLines PROVE Types'
  OBVIOUS
<1>1. /\ UNCHANGED <<log, at, read, lines, height, block, out, crashes, torn>>
      /\ status' = "ended"
  BY DEF EndOfLines, node
<1>2. LogTypes' /\ FaultTypes'
  BY <1>1 DEF Types, LogTypes, LogInOrder, NextInOrder, Follows, FaultTypes
<1>3. ReaderTypes'
  BY <1>1 DEF Types, ReaderTypes
<1> QED
  BY <1>2, <1>3 DEF Types

LEMMA TypesStep == Types /\ [Next]_vars => Types'
<1> SUFFICES ASSUME Types, [Next]_vars PROVE Types'
  OBVIOUS
<1>1. CASE WriteLine
  <2>1. LogTypes' /\ Len(log') = Len(log) + 1 /\ Len(log) \in Nat
    BY <1>1, WriteLineLog
  <2>2. UNCHANGED <<read, lines, height, block, status, out, crashes, torn>>
    BY <1>1 DEF WriteLine, cr
  <2> QED
    BY <2>1, <2>2 DEF Types, ReaderTypes, FaultTypes
<1>2. CASE NodeRestart
  <2>1. LogTypes' /\ log' = log
    BY <1>2, NodeRestartLog
  <2>2. UNCHANGED <<read, lines, height, block, status, out, torn>>
        /\ crashes' = crashes + 1 /\ crashes + torn < MaxFaults
    BY <1>2 DEF NodeRestart, cr
  <2>3. ReaderTypes'
    BY <2>1, <2>2 DEF Types, ReaderTypes
  <2>4. FaultTypes'
    BY <2>2, Heights DEF Types, FaultTypes
  <2> QED
    BY <2>1, <2>3, <2>4 DEF Types
<1>3. CASE UNCHANGED vars
  BY <1>3 DEF vars, Types, LogTypes, LogInOrder, NextInOrder, Follows, ReaderTypes, FaultTypes
<1> QED
  BY <1>1, <1>2, <1>3, SourceTypes, ReadBlockTypes, EndOfLinesTypes,
     ReaderRestartTypes DEF Next

LEMMA TypesInvariance == Spec => []Types
BY InitTypes, TypesStep, PTL DEF Spec

\* The lines, the block being built and the channel's bound, for every chain.
THEOREM TypeCorrect == Spec => []TypeOK
BY TypesInvariance, TypesImply, PTL

-----------------------------------------------------------------------------
(* ReadBlock goes along the log.                                           *)

LEMMA PartialIsABlock ==
    ASSUME NEW h \in Height
    PROVE  Partial(h, LastLine(h) - 1) = NodeBlock(h)
<1>1. Txs[h] \in Nat /\ Updates(h) = IF h \in Vsets THEN 1 ELSE 0
  BY Heights DEF Updates
<1>2. LastLine(h) - 1 = Txs[h] + 2 + Updates(h)
  BY <1>1, BlockLinesShape
<1>3. ~(LastLine(h) - 1 < Txs[h] + 2)
  BY <1>1, <1>2
<1>4. h \in Vsets => LastLine(h) - 1 >= Txs[h] + 3
  BY <1>1, <1>2
<1> QED
  BY <1>3, <1>4 DEF Partial, NodeBlock

\* Where the line after c stands in its block, and c with it.
LEMMA NextOnLog ==
    ASSUME Types, NEW c \in Nat, c + 1 \in 1 .. Len(log)
    PROVE  \E h \in Height : \E k \in 1 .. LastLine(h) :
             /\ log[c + 1] = BlockLines(h)[k]
             /\ OnLog(c) /\ height > 0 /\ k > 1 =>
                  /\ height = h /\ log[c].kind # "END"
                  /\ k > 2 => block = Partial(h, k - 1)
<1>1. PICK h \in Height : \E k \in 1 .. LastLine(h) :
        log[c + 1] = BlockLines(h)[k] /\ Follows(h, k, c + 1)
  BY LogLine
<1>2. PICK k \in 1 .. LastLine(h) : log[c + 1] = BlockLines(h)[k] /\ Follows(h, k, c + 1)
  BY <1>1
<1>3. ASSUME OnLog(c), height > 0, k > 1
      PROVE  /\ height = h /\ log[c].kind # "END"
             /\ k > 2 => block = Partial(h, k - 1)
  <2>1. log[c] = BlockLines(h)[k - 1]
    BY <1>2, <1>3 DEF Follows
  <2>2. height \in Height
    BY <1>3 DEF OnLog
  <2>3. PICK j \in 1 .. LastLine(height) :
          /\ log[c] = BlockLines(height)[j]
          /\ 1 < j /\ j < LastLine(height) => block = Partial(height, j)
    BY <1>3 DEF OnLog
  <2>4. LastLine(h) \in Nat /\ k \in Nat /\ k <= LastLine(h)
    BY LastLineType
  <2>5. k - 1 \in 1 .. LastLine(h) /\ k - 1 < LastLine(h)
    BY <1>3, <2>4
  <2>6. height = h /\ j = k - 1
    <3>1. BlockLines(height)[j] = BlockLines(h)[k - 1]
      BY <2>1, <2>3
    <3> QED
      BY <2>2, <2>5, <3>1, SameLine
  <2>7. log[c].kind # "END"
    BY <2>1, <2>5, LineKinds
  <2> QED
    BY <2>3, <2>4, <2>5, <2>6, <2>7
<1> QED
  BY <1>2, <1>3

\* What the next line of the log does to a reader that is on the log before it.
Begins(c) == height < height' /\ out' = out

Goes(c) == height' = height /\ out' = out /\ (height > 0 => log[c].kind # "END")

Ends(c) ==
    /\ height \in Height /\ height' = height
    /\ log[c].kind # "END" /\ log[c + 1].kind = "END"
    /\ block = NodeBlock(height) /\ out' = Append(out, FromProto(block))

LEMMA Progress ==
    ASSUME Types, ReadBlock, status' = "reading",
           NEW c \in Nat, c + 1 \in 1 .. Len(log), Head(lines) = log[c + 1], OnLog(c)
    PROVE  OnLog(c + 1)' /\ (Begins(c) \/ Goes(c) \/ Ends(c))
<1>0. PICK h \in Height : \E k \in 1 .. LastLine(h) :
        /\ log[c + 1] = BlockLines(h)[k]
        /\ height > 0 /\ k > 1 =>
             /\ height = h /\ log[c].kind # "END"
             /\ k > 2 => block = Partial(h, k - 1)
  BY NextOnLog
<1>1. PICK k \in 1 .. LastLine(h) :
        /\ log[c + 1] = BlockLines(h)[k]
        /\ height > 0 /\ k > 1 =>
             /\ height = h /\ log[c].kind # "END"
             /\ k > 2 => block = Partial(h, k - 1)
  BY <1>0
<1> DEFINE l == Head(lines)
<1>2. /\ h \in Nat /\ h >= 1 /\ Txs[h] \in Nat /\ Updates(h) = (IF h \in Vsets THEN 1 ELSE 0)
      /\ LastLine(h) = Txs[h] + 3 + Updates(h) /\ k \in Nat /\ height \in Nat
  <2>1. Txs[h] \in Nat /\ h \in Nat /\ h >= 1 /\ LastHeight \in Nat
    BY Heights
  <2>2. LastLine(h) = Txs[h] + 3 + Updates(h)
    BY BlockLinesShape
  <2>3. height \in 0 .. LastHeight
    BY DEF Types, ReaderTypes
  <2>4. LastLine(h) \in Nat
    BY LastLineType
  <2> QED
    BY <2>1, <2>2, <2>3, <2>4 DEF Updates
<1>3. /\ l.height = h /\ l.kind # "INVALID"
      /\ l.kind = "BEGIN" <=> k = 1
      /\ l.kind = "BLOCK" <=> k = 2
      /\ l.kind = "TX" <=> k \in 3 .. Txs[h] + 2
      /\ l.kind = "VSET" <=> h \in Vsets /\ k = Txs[h] + 3
      /\ l.kind = "END" <=> k = LastLine(h)
      /\ l.index = IF k \in 3 .. Txs[h] + 2 THEN k - 2 ELSE 0
  BY <1>1, LineKinds
<1>4. status = "reading" /\ log' = log /\ ~Fail /\ ~Panic
  <2>1. \E kind : Take(kind)
    BY DEF ReadBlock, TakeInvalid, TakeBegin, TakeBlock, TakeTx, TakeValidatorSetUpdate, TakeEnd
  <2> QED
    BY <2>1, TakeFacts DEF Fail, Panic
<1> HIDE DEF l
\* It is enough to know the block in the middle of a block's lines.
<1>5. ASSUME height' > 0 => height' = h,
             height' > 0 /\ 1 < k /\ k < LastLine(h) => block' = Partial(h, k)
      PROVE  OnLog(c + 1)'
  <2> SUFFICES ASSUME height' > 0
               PROVE  /\ height' \in Height
                      /\ c + 1 \in 1 .. Len(log')
                      /\ \E j \in 1 .. LastLine(height') :
                           /\ log'[c + 1] = BlockLines(height')[j]
                           /\ 1 < j /\ j < LastLine(height') => block' = Partial(height', j)
    BY DEF OnLog
  <2>1. height' = h
    BY <1>5
  <2> QED
    BY <1>1, <1>4, <1>5, <2>1
<1>6. CASE TakeInvalid
  BY <1>4, <1>6 DEF TakeInvalid
<1>7. CASE TakeBegin
  <2>1. l.kind = "BEGIN"
    BY <1>7 DEF TakeBegin, Take, l
  <2>2. ~(l.height <= height) /\ height' = l.height /\ out' = out
    BY <1>4, <1>7 DEF TakeBegin, l
  <2>3. height < height' /\ height' = h /\ k = 1
    BY <1>2, <1>3, <2>1, <2>2
  <2>4. OnLog(c + 1)'
    BY <1>5, <2>3
  <2> QED
    BY <2>2, <2>3, <2>4 DEF Begins
<1>8. CASE TakeBlock
  <2>1. l.kind = "BLOCK"
    BY <1>8 DEF TakeBlock, Take, l
  <2>2. /\ block' = [height |-> l.height, txs |-> <<>>, vset |-> 0,
                     fields |-> IF l.index = 0 THEN "all" ELSE "some"]
        /\ UNCHANGED <<height, out>>
    BY <1>8 DEF TakeBlock, l
  <2>3. k = 2 /\ l.index = 0 /\ l.height = h
    BY <1>2, <1>3, <2>1
  <2>4. block' = Partial(h, k)
    <3>1. (IF k < Txs[h] + 2 THEN k - 2 ELSE Txs[h]) = 0 /\ ~(k >= Txs[h] + 3)
      BY <1>2, <2>3
    <3>2. [i \in 1 .. 0 |-> <<h, i>>] = <<>>
      OBVIOUS
    <3> QED
      BY <2>2, <2>3, <3>1, <3>2 DEF Partial
  <2>5. height > 0 => height = h /\ log[c].kind # "END"
    BY <1>1, <2>3
  <2> QED
    BY <1>5, <2>2, <2>4, <2>5 DEF Goes
<1>9. CASE TakeTx
  <2>1. l.kind = "TX"
    BY <1>9 DEF TakeTx, Take, l
  <2>2. /\ block' = [block EXCEPT !.txs = Append(@, <<l.height, l.index>>)]
        /\ UNCHANGED <<height, out>>
    BY <1>4, <1>9 DEF TakeTx, l
  <2>3. k \in 3 .. Txs[h] + 2 /\ l.index = k - 2 /\ l.height = h /\ k > 2 /\ k > 1
    BY <1>2, <1>3, <2>1
  <2>4. ASSUME height > 0 PROVE block' = Partial(h, k)
    <3>1. block = Partial(h, k - 1)
      BY <1>1, <2>3, <2>4
    <3>2. (IF k - 1 < Txs[h] + 2 THEN (k - 1) - 2 ELSE Txs[h]) = k - 3 /\ ~(k - 1 >= Txs[h] + 3)
      BY <1>2, <2>3
    <3>3. (IF k < Txs[h] + 2 THEN k - 2 ELSE Txs[h]) = k - 2 /\ ~(k >= Txs[h] + 3)
      BY <1>2, <2>3
    <3>4. block = [height |-> h, txs |-> [i \in 1 .. k - 3 |-> <<h, i>>], vset |-> 0, fields |-> "all"]
      BY <3>1, <3>2 DEF Partial
    <3>5. Append([i \in 1 .. k - 3 |-> <<h, i>>], <<h, k - 2>>) = [i \in 1 .. k - 2 |-> <<h, i>>]
      <4> DEFINE some == [i \in 1 .. k - 3 |-> <<h, i>>]
                 more == [i \in 1 .. k - 2 |-> <<h, i>>]
                 T == {h} \X Nat
      <4>1. k - 3 \in Nat /\ k - 2 \in Nat /\ (k - 3) + 1 = k - 2
        BY <1>2, <2>3
      <4>2. some \in [1 .. k - 3 -> T] /\ more \in [1 .. k - 2 -> T] /\ <<h, k - 2>> \in T
        BY <4>1
      <4>3. some \in Seq(T) /\ more \in Seq(T)
        BY <4>1, <4>2, SeqDef
      <4>4. Len(some) = k - 3 /\ Len(more) = k - 2
        <5> HIDE DEF some, more, T
        <5>1. DOMAIN some = 1 .. k - 3 /\ DOMAIN more = 1 .. k - 2
          BY <4>2
        <5>2. DOMAIN some = 1 .. Len(some) /\ DOMAIN more = 1 .. Len(more)
              /\ Len(some) \in Nat /\ Len(more) \in Nat
          BY <4>3, LenProperties
        <5> QED
          BY <4>1, <5>1, <5>2
      <4>5. \A i \in 1 .. k - 3 : some[i] = <<h, i>>
        OBVIOUS
      <4>6. \A i \in 1 .. k - 2 : more[i] = <<h, i>>
        OBVIOUS
      <4> HIDE DEF some, more, T
      <4>7. /\ Append(some, <<h, k - 2>>) \in Seq(T)
            /\ Len(Append(some, <<h, k - 2>>)) = Len(some) + 1
            /\ \A i \in 1 .. Len(some) : Append(some, <<h, k - 2>>)[i] = some[i]
            /\ Append(some, <<h, k - 2>>)[Len(some) + 1] = <<h, k - 2>>
        BY <4>2, <4>3, AppendProperties
      <4>8. \A i \in 1 .. k - 2 : Append(some, <<h, k - 2>>)[i] = more[i]
        <5> SUFFICES ASSUME NEW i \in 1 .. k - 2
                     PROVE  Append(some, <<h, k - 2>>)[i] = more[i]
          OBVIOUS
        <5>1. CASE i = k - 2
          BY <4>1, <4>4, <4>6, <4>7, <5>1
        <5>2. CASE i # k - 2
          <6>1. i \in 1 .. k - 3
            BY <4>1, <5>2
          <6> QED
            BY <4>4, <4>5, <4>6, <4>7, <6>1
        <5> QED
          BY <5>1, <5>2
      <4>9. Append(some, <<h, k - 2>>) = more
        BY <4>1, <4>3, <4>4, <4>7, <4>8, SeqEqual
      <4> QED
        BY <4>9 DEF some, more
    <3> QED
      BY <2>2, <2>3, <3>3, <3>4, <3>5 DEF Partial
  <2>5. height > 0 => height = h /\ log[c].kind # "END"
    BY <1>1, <2>3
  <2> QED
    BY <1>5, <2>2, <2>4, <2>5 DEF Goes
<1>10. CASE TakeValidatorSetUpdate
  <2>1. l.kind = "VSET"
    BY <1>10 DEF TakeValidatorSetUpdate, Take, l
  <2>2. block' = [block EXCEPT !.vset = l.height] /\ UNCHANGED <<height, out>>
    BY <1>4, <1>10 DEF TakeValidatorSetUpdate, l
  <2>3. h \in Vsets /\ k = Txs[h] + 3 /\ l.height = h /\ k > 2 /\ k > 1
    BY <1>2, <1>3, <2>1
  <2>4. ASSUME height > 0 PROVE block' = Partial(h, k)
    <3>1. block = Partial(h, k - 1)
      BY <1>1, <2>3, <2>4
    <3>2. ~(k - 1 < Txs[h] + 2) /\ ~(k - 1 >= Txs[h] + 3) /\ ~(k < Txs[h] + 2) /\ k >= Txs[h] + 3
      BY <1>2, <2>3
    <3> QED
      BY <2>2, <2>3, <3>1, <3>2 DEF Partial
  <2>5. height > 0 => height = h /\ log[c].kind # "END"
    BY <1>1, <2>3
  <2> QED
    BY <1>5, <2>2, <2>4, <2>5 DEF Goes
<1>11. CASE TakeEnd
  <2>1. l.kind = "END"
    BY <1>11 DEF TakeEnd, Take, l
  <2>2. /\ l.height = height
        /\ out' = Append(out, FromProto(block)) /\ UNCHANGED <<height, block>>
    BY <1>4, <1>11 DEF TakeEnd, l
  <2>3. k = LastLine(h) /\ k > 2 /\ k > 1 /\ height = h /\ height > 0
    BY <1>2, <1>3, <2>1, <2>2
  <2>4. block = NodeBlock(h) /\ log[c].kind # "END"
    BY <1>1, <2>3, PartialIsABlock
  <2>5. OnLog(c + 1)'
    BY <1>5, <2>2, <2>3
  <2> QED
    BY <2>1, <2>2, <2>3, <2>4, <2>5 DEF Ends, l
<1> QED
  BY <1>6, <1>7, <1>8, <1>9, <1>10, <1>11 DEF ReadBlock

-----------------------------------------------------------------------------
(* Up the chain.                                                           *)

\* What the reader is told of the log stands when the log grows.
LEMMA OnLogKept ==
    ASSUME Types, NEW c, OnLog(c),
           height' = height, block' = block, Len(log') \in Nat, Len(log) \in Nat, Len(log) <= Len(log'),
           \A i \in 1 .. Len(log) : log'[i] = log[i]
    PROVE  OnLog(c)'
BY DEF OnLog

LEMMA InitUntorn == Init => Untorn
BY DEF Init, Untorn, Taken, OnLog, Rising

\* Lines enter the channel in the order of the log and leave it in that order.
LEMMA UntornStep == Types /\ Types' /\ Untorn /\ [Next]_vars => Untorn'
<1> SUFFICES ASSUME Types, Types', Untorn, [Next]_vars, torn' = 0 PROVE Untorn'
  BY DEF Untorn
<1>1. torn \in Nat
  BY DEF Types, FaultTypes
<1>2. ~HandOnTorn
  BY <1>1 DEF HandOnTorn
<1>3. torn = 0
  <2>1. CASE ReadBlock
    <3>1. \E kind : Take(kind)
      BY <2>1 DEF ReadBlock, TakeInvalid, TakeBegin, TakeBlock, TakeTx, TakeValidatorSetUpdate, TakeEnd
    <3> QED
      BY <3>1 DEF Take
  <2> QED
    BY <1>2, <2>1 DEF Next, WriteLine, NodeRestart, HandOn, EndOfLines, ReaderRestart, vars
<1>4. /\ Len(lines) <= read /\ (status = "reading" => OnLog(Taken)) /\ Rising
      /\ \A i \in 1 .. Len(lines) : lines[i] = log[Taken + i]
  BY <1>3 DEF Untorn
<1>5. /\ Len(log) \in Nat /\ Len(lines) \in Nat /\ Len(out) \in Nat /\ read \in 0 .. Len(log)
      /\ lines \in Seq(ChannelLine) /\ out \in Seq(OutBlock) /\ height \in Nat
  BY Heights, LenProperties DEF Types, LogTypes, ReaderTypes
\* Steps of the node and of the source leave what the console reader holds.
<1>6. ASSUME UNCHANGED <<height, block, status, out>>, Len(log') \in Nat, Len(log) <= Len(log'),
             \A i \in 1 .. Len(log) : log'[i] = log[i], Taken' = Taken
      PROVE  (status' = "reading" => OnLog(Taken)') /\ Rising'
  <2>0. Taken \in Nat
    BY <1>4, <1>5 DEF Taken
  <2> PICK c \in Nat : c = Taken
    BY <2>0
  <2>1. status' = "reading" => OnLog(c)'
    BY <1>4, <1>5, <1>6, OnLogKept
  <2>2. Rising'
    <3> SUFFICES ASSUME status = "reading", out # <<>>, out[Len(out)].number = height
                 PROVE  log'[c].kind = "END"
      BY <1>4, <1>6 DEF Rising
    <3>1. log[c].kind = "END"
      BY <1>4 DEF Rising
    <3>2. out[Len(out)].number > 0
      <4>1. Len(out) \in 1 .. Len(out)
        BY <1>5, EmptySeq
      <4>2. out[Len(out)] \in OutBlock
        BY <1>5, <4>1, ElementOfSeq
      <4> QED
        BY <4>2, Heights DEF OutBlock, FromProto, Block
    <3>3. c \in 1 .. Len(log)
      BY <1>4, <3>2 DEF OnLog
    <3> QED
      BY <1>6, <3>1, <3>3
  <2> QED
    BY <1>6, <2>1, <2>2
<1>7. CASE WriteLine \/ NodeRestart \/ UNCHANGED vars
  <2>1. UNCHANGED <<read, lines, height, block, status, out>>
    BY <1>7 DEF WriteLine, NodeRestart, vars, cr
  <2>2. /\ Len(log') \in Nat /\ Len(log) <= Len(log')
        /\ \A i \in 1 .. Len(log) : log'[i] = log[i]
    <3>1. CASE WriteLine
      BY <3>1, WriteLineLog
    <3>2. CASE log' = log
      BY <1>5, <3>2
    <3> QED
      BY <1>7, <3>1, <3>2 DEF NodeRestart, vars
  <2>3. Taken' = Taken
    BY <2>1 DEF Taken
  <2>4. \A i \in 1 .. Len(lines) : Taken + i \in 1 .. Len(log)
    BY <1>4, <1>5 DEF Taken
  <2>5. \A i \in 1 .. Len(lines') : lines'[i] = log'[(Taken + i)']
    BY <1>4, <2>1, <2>2, <2>3, <2>4
  <2> QED
    BY <1>4, <1>6, <2>1, <2>2, <2>3, <2>5 DEF Untorn
<1>8. CASE HandOn
  <2>1. /\ read' = read + 1 /\ read + 1 \in 1 .. Len(log) /\ lines' = Append(lines, log[read + 1])
        /\ UNCHANGED <<log, height, block, status, out>>
    BY <1>5, <1>8 DEF HandOn, node, cr
  <2>2. /\ Len(lines') = Len(lines) + 1
        /\ \A i \in 1 .. Len(lines) : lines'[i] = lines[i]
        /\ lines'[Len(lines) + 1] = log[read + 1]
    <3>1. log[read + 1] \in ChannelLine
      BY <2>1, LogIsOfTheChannel
    <3> QED
      BY <1>5, <2>1, <3>1, AppendProperties
  <2>3. Taken' = Taken /\ Taken + (Len(lines) + 1) = read + 1
    BY <1>5, <2>1, <2>2 DEF Taken
  <2>4. \A i \in 1 .. Len(lines') : lines'[i] = log'[(Taken + i)']
    <3> SUFFICES ASSUME NEW i \in 1 .. Len(lines') PROVE lines'[i] = log[Taken + i]
      BY <2>1, <2>3
    <3>1. i \in 1 .. Len(lines) \/ i = Len(lines) + 1
      BY <1>5, <2>2
    <3> QED
      BY <1>4, <2>2, <2>3, <3>1
  <2> QED
    BY <1>4, <1>5, <1>6, <2>1, <2>2, <2>3, <2>4 DEF Untorn
<1>9. CASE ReadBlock
  <2>1. PICK kind : Take(kind)
    BY <1>9 DEF ReadBlock, TakeInvalid, TakeBegin, TakeBlock, TakeTx, TakeValidatorSetUpdate, TakeEnd
  <2>2. /\ status = "reading"
        /\ Len(lines) \in Nat \ {0} /\ Len(lines') = Len(lines) - 1
        /\ \A i \in 1 .. Len(lines') : lines'[i] = lines[i + 1]
        /\ Head(lines) = lines[1]
        /\ log' = log /\ read' = read
    BY <2>1, TakeFacts
  <2>0. Taken \in Nat
    BY <1>4, <1>5 DEF Taken
  <2>3. PICK c \in Nat : c = Taken
    BY <2>0
  <2>4. Taken' = c + 1 /\ c + 1 \in 1 .. Len(log) /\ Len(lines') <= read'
    BY <1>4, <1>5, <2>2, <2>3 DEF Taken
  <2>5. Head(lines) = log[c + 1] /\ OnLog(c)
    BY <1>4, <2>2, <2>3
  <2>6. \A i \in 1 .. Len(lines') : lines'[i] = log'[(Taken + i)']
    <3> SUFFICES ASSUME NEW i \in 1 .. Len(lines') PROVE lines'[i] = log[c + 1 + i]
      BY <2>2, <2>4
    <3>1. i + 1 \in 1 .. Len(lines) /\ c + (i + 1) = c + 1 + i
      BY <2>2
    <3> QED
      BY <1>4, <2>2, <2>3, <3>1
  <2>7. CASE status' = "reading"
    <3>1. OnLog(c + 1)' /\ (Begins(c) \/ Goes(c) \/ Ends(c))
      BY <1>9, <2>4, <2>5, <2>7, Progress
    <3>2. OnLog(Taken)'
      BY <2>4, <3>1
    <3>3. /\ \A i \in 1 .. Len(out) - 1 : out[i].number < out[i + 1].number
          /\ out # <<>> =>
               /\ out[Len(out)].number <= height
               /\ out[Len(out)].number = height => log[c].kind = "END"
      BY <1>4, <2>2, <2>3 DEF Rising
    <3>4. out # <<>> => out[Len(out)].number \in Nat \ {0}
      <4> SUFFICES ASSUME out # <<>> PROVE out[Len(out)].number \in Nat \ {0}
        OBVIOUS
      <4>1. Len(out) \in 1 .. Len(out)
        BY <1>5, EmptySeq
      <4>2. out[Len(out)] \in OutBlock
        BY <1>5, <4>1, ElementOfSeq
      <4> QED
        BY <4>2, Heights DEF OutBlock, FromProto, Block
    <3>5. height' \in Nat
      BY Heights DEF Types, ReaderTypes
    <3>6. Rising'
      <4>1. CASE Begins(c)
        <5>1. out # <<>> => out[Len(out)].number < height'
          <6> SUFFICES ASSUME out # <<>> PROVE out[Len(out)].number < height'
            OBVIOUS
          <6> DEFINE m == out[Len(out)].number
          <6>1. m \in Nat \ {0} /\ m <= height /\ (m = height => log[c].kind = "END") /\ height \in Nat
            BY <1>5, <3>3, <3>4
          <6> HIDE DEF m
          <6>2. m < height'
            BY <6>1, <3>5, <4>1 DEF Begins
          <6> QED
            BY <6>2 DEF m
        <5> QED
          BY <3>3, <3>4, <3>5, <4>1, <5>1 DEF Begins, Rising
      <4>2. CASE Goes(c)
        <5>1. out # <<>> => out[Len(out)].number # height
          <6> SUFFICES ASSUME out # <<>> PROVE out[Len(out)].number # height
            OBVIOUS
          <6> DEFINE m == out[Len(out)].number
          <6>1. m \in Nat \ {0} /\ m <= height /\ (m = height => log[c].kind = "END") /\ height \in Nat
            BY <1>5, <3>3, <3>4
          <6> HIDE DEF m
          <6>2. m # height
            BY <6>1, <4>2 DEF Goes
          <6> QED
            BY <6>2 DEF m
        <5> QED
          BY <3>3, <4>2, <5>1 DEF Goes, Rising
      <4>3. CASE Ends(c)
        <5> DEFINE b == FromProto(block)
        <5>1. b.number = height /\ b \in OutBlock
          <6>1. block.height = height /\ height # 0
            BY <4>3, Heights DEF Ends, NodeBlock
          <6>2. block \in Block
            BY DEF Types, ReaderTypes
          <6> QED
            BY <6>1, <6>2 DEF FromProto, OutBlock
        <5>2. out' = Append(out, b) /\ height' = height /\ log[c + 1].kind = "END"
              /\ log[c].kind # "END"
          BY <4>3 DEF Ends
        <5> HIDE DEF b
        <5>3. /\ Len(out') = Len(out) + 1 /\ out'[Len(out) + 1] = b
              /\ \A i \in 1 .. Len(out) : out'[i] = out[i]
          BY <1>5, <5>1, <5>2, AppendProperties
        <5>4. out # <<>> => out[Len(out)].number < height
          <6> SUFFICES ASSUME out # <<>> PROVE out[Len(out)].number < height
            OBVIOUS
          <6> DEFINE m == out[Len(out)].number
          <6>1. m \in Nat \ {0} /\ m <= height /\ (m = height => log[c].kind = "END") /\ height \in Nat
            BY <1>5, <3>3, <3>4
          <6> HIDE DEF m
          <6>2. m < height
            BY <6>1, <5>2
          <6> QED
            BY <6>2 DEF m
        <5>5. ASSUME NEW i \in 1 .. Len(out') - 1
              PROVE  out'[i].number < out'[i + 1].number
          <6>1. i \in 1 .. Len(out) /\ (i \in 1 .. Len(out) - 1 \/ i = Len(out))
            BY <1>5, <5>3
          <6>2. CASE i \in 1 .. Len(out) - 1
            <7>1. i + 1 \in 1 .. Len(out)
              BY <1>5, <6>2
            <7> QED
              BY <3>3, <5>3, <6>1, <6>2, <7>1
          <6>3. CASE i = Len(out)
            <7>1. out # <<>>
              BY <6>1, <6>3, EmptySeq
            <7> QED
              BY <5>1, <5>3, <5>4, <6>1, <6>3, <7>1
          <6> QED
            BY <6>1, <6>2, <6>3
        <5>6. out'[Len(out')].number = height
          BY <5>1, <5>3
        <5> QED
          BY <1>5, <2>2, <2>4, <5>2, <5>5, <5>6 DEF Rising
      <4> QED
        BY <3>1, <4>1, <4>2, <4>3
    <3> QED
      BY <2>4, <2>6, <3>2, <3>6 DEF Untorn
  <2>8. CASE status' # "reading"
    <3>1. out' = out
      BY <1>9, <2>2, <2>8 DEF ReadBlock, TakeInvalid, TakeBegin, TakeBlock, TakeTx,
                       TakeValidatorSetUpdate, TakeEnd, Fail, Panic
    <3>2. Rising'
      BY <1>4, <2>8, <3>1 DEF Rising
    <3> QED
      BY <2>4, <2>6, <2>8, <3>2 DEF Untorn
  <2> QED
    BY <2>7, <2>8
<1>10. CASE ReaderRestart
  <2>1. lines' = <<>> /\ out' = <<>> /\ height' = 0 /\ read' \in Nat
    BY <1>10 DEF ReaderRestart
  <2>2. Len(lines') = 0 /\ Len(out') = 0
    BY <2>1
  <2>3. OnLog(Taken)' /\ Rising'
    BY <2>1, <2>2 DEF OnLog, Rising
  <2> QED
    BY <2>1, <2>2, <2>3 DEF Untorn
<1>11. CASE EndOfLines
  <2>1. UNCHANGED <<log, read, lines, out>> /\ status' = "ended"
    BY <1>11 DEF EndOfLines, node
  <2>2. Taken' = Taken
    BY <2>1 DEF Taken
  <2>3. \A i \in 1 .. Len(lines') : lines'[i] = log'[(Taken + i)']
    BY <1>4, <2>1, <2>2
  <2>4. Rising'
    BY <1>4, <2>1 DEF Rising
  <2> QED
    BY <1>4, <2>1, <2>3, <2>4 DEF Untorn
<1> QED
  BY <1>2, <1>7, <1>8, <1>9, <1>10, <1>11 DEF Next

LEMMA UntornInvariance == Spec => [](Types /\ Untorn)
<1>1. Types /\ Untorn /\ [Next]_vars => (Types /\ Untorn)'
  BY TypesStep, UntornStep
<1>2. Init => Types /\ Untorn
  BY InitTypes, InitUntorn
<1> QED
  BY <1>1, <1>2, PTL DEF Spec

\* The header's previous id and the last irreversible number are of the height
\* below, which is only not so at the first height.
LEMMA RisingIsUpTheChain == Types /\ Untorn => ChainGoesUp
<1> SUFFICES ASSUME Types, Untorn, torn = 0, NEW i \in 1 .. Len(out) - 1
             PROVE  /\ out[i].number < out[i + 1].number
                    /\ out[i + 1].number = out[i].number + 1 => out[i + 1].previousId = out[i].id
                    /\ out[i + 1].libNum < out[i + 1].number
  BY DEF ChainGoesUp
<1>1. out \in Seq(OutBlock) /\ Len(out) \in Nat
  BY LenProperties DEF Types, ReaderTypes
<1>2. i \in 1 .. Len(out) /\ i + 1 \in 1 .. Len(out)
  BY <1>1
<1>3. out[i] \in OutBlock /\ out[i + 1] \in OutBlock
  BY <1>1, <1>2, ElementOfSeq
<1>4. PICK b \in Block : b.height # 0 /\ out[i] = FromProto(b)
  BY <1>3 DEF OutBlock
<1>5. PICK d \in Block : d.height # 0 /\ out[i + 1] = FromProto(d)
  BY <1>3 DEF OutBlock
<1>6. b.height \in Height /\ d.height \in Height
  BY <1>4, <1>5 DEF Block
<1>7. out[i].number < out[i + 1].number
  BY DEF Untorn, Rising
<1>8. b.height < d.height /\ d.height # FirstHeight /\ b.height \in Nat /\ d.height \in Nat
  BY <1>4, <1>5, <1>6, <1>7, Heights DEF FromProto
<1> QED
  BY <1>4, <1>5, <1>7, <1>8 DEF FromProto

\* While no line is torn, ReadBlock never returns a height again nor goes back,
\* whatever the crashes of the node and of the reader.
THEOREM UpTheChain == Spec => []ChainGoesUp
BY UntornInvariance, RisingIsUpTheChain, PTL

LEMMA NilBlockStep ==
    ASSUME Types, Untorn, torn = 0, TakeEnd, block = NoBlock
    PROVE  status' = "failed"
<1>1. status = "reading" /\ lines # <<>> /\ Head(lines).kind = "END"
  BY DEF TakeEnd, Take
<1>2. CASE Head(lines).height # height
  BY <1>2 DEF TakeEnd, Fail
<1>3. CASE Head(lines).height = height
  <2>1. lines \in Seq(ChannelLine) /\ Len(lines) \in Nat \ {0} /\ Head(lines) = lines[1]
    BY <1>1, EmptySeq, LenProperties DEF Types, ReaderTypes
  <2>2. Head(lines) \in ChannelLine
    BY <1>1, <2>1, HeadTailProperties
  <2>3. height > 0
    BY <1>1, <1>3, <2>2, Heights DEF ChannelLine
  <2> DEFINE c == Taken
  <2>4. Len(log) \in Nat /\ read \in 0 .. Len(log)
    BY LenProperties DEF Types, LogTypes, ReaderTypes
  <2>5. Len(lines) <= read /\ lines[1] = log[c + 1] /\ OnLog(c)
    BY <1>1, <2>1 DEF Untorn
  <2>6. c \in Nat /\ c + 1 \in 1 .. Len(log)
    BY <2>1, <2>4, <2>5 DEF Taken
  <2> HIDE DEF c
  <2>7. PICK h \in Height : \E k \in 1 .. LastLine(h) :
          /\ log[c + 1] = BlockLines(h)[k]
          /\ k > 1 => height = h /\ (k > 2 => block = Partial(h, k - 1))
    BY <2>3, <2>5, <2>6, NextOnLog
  <2>8. PICK k \in 1 .. LastLine(h) :
          /\ log[c + 1] = BlockLines(h)[k]
          /\ k > 1 => height = h /\ (k > 2 => block = Partial(h, k - 1))
    BY <2>7
  <2>9. k = LastLine(h)
    BY <1>1, <2>1, <2>5, <2>8, LineKinds
  <2>10. k > 2
    BY <2>9, LastLineType
  <2>11. block.height = h /\ h # 0
    BY <2>8, <2>10, Heights DEF Partial
  <2> QED
    BY <2>11 DEF NoBlock
<1> QED
  BY <1>2, <1>3

\* The nil block that ReadBlock does not see (NilBlockRejected) takes a torn line:
\* no crash of the node, and no reader resumed inside a block, comes to an END
\* without the BLOCK before it and panics there.
THEOREM NilBlockNeedsTear == Spec /\ [](torn = 0) => NilBlockRejected
<1>1. Types /\ Untorn /\ torn = 0 /\ [Next]_vars
      => [TakeEnd /\ block = NoBlock => status' = "failed"]_vars
  BY NilBlockStep
<1> QED
  BY <1>1, UntornInvariance, PTL DEF Spec, NilBlockRejected

-----------------------------------------------------------------------------
(* Every damaged block is charged to a torn line.                          *)

\* The torn lines up to a position, as the position goes on.
LEMMA CreditGrows ==
    ASSUME NEW n \in Nat, NEW S, S \subseteq 1 .. n, NEW c \in Nat, NEW d \in Nat, c <= d
    PROVE  /\ Cardinality(S \cap (1 .. c)) \in Nat /\ Cardinality(S \cap (1 .. d)) \in Nat
           /\ Cardinality(S \cap (1 .. c)) <= Cardinality(S \cap (1 .. d))
           /\ (\E q \in S : c < q /\ q <= d) =>
                Cardinality(S \cap (1 .. c)) + 1 <= Cardinality(S \cap (1 .. d))
<1> DEFINE C == S \cap (1 .. c)
           D == S \cap (1 .. d)
<1>1. IsFiniteSet(1 .. n)
  BY FS_Interval
<1>2. C \subseteq 1 .. n /\ D \subseteq 1 .. n /\ C \subseteq D
  OBVIOUS
<1>3. IsFiniteSet(D) /\ IsFiniteSet(C)
  BY <1>1, <1>2, FS_Subset
<1>4. Cardinality(C) \in Nat /\ Cardinality(D) \in Nat /\ Cardinality(C) <= Cardinality(D)
  BY <1>2, <1>3, FS_Subset, FS_CardinalityType
<1>5. ASSUME NEW q \in S, c < q, q <= d
      PROVE  Cardinality(C) + 1 <= Cardinality(D)
  <2>1. q \in D /\ q \notin C
    BY <1>5
  <2> HIDE DEF C, D
  <2>2. Cardinality(C \cup {q}) = Cardinality(C) + 1
    BY <1>3, <2>1, FS_AddElement
  <2>3. C \cup {q} \in SUBSET D
    BY <1>2, <2>1
  <2>4. Cardinality(C \cup {q}) <= Cardinality(D)
    BY <1>3, <2>3, FS_Subset
  <2> QED
    BY <2>2, <2>4
<1> QED
  BY <1>4, <1>5

LEMMA CreditType ==
    ASSUME NEW n \in Nat, NEW S, S \subseteq 1 .. n, NEW c \in Nat
    PROVE  /\ IsFiniteSet(S) /\ Cardinality(S) \in Nat
           /\ Cardinality(S \cap (1 .. c)) \in Nat
           /\ Cardinality(S \cap (1 .. c)) <= Cardinality(S)
<1>1. IsFiniteSet(1 .. n)
  BY FS_Interval
<1>2. IsFiniteSet(S)
  BY <1>1, FS_Subset
<1>3. S \cap (1 .. c) \in SUBSET S
  OBVIOUS
<1> QED
  BY <1>2, <1>3, FS_Subset, FS_CardinalityType

LEMMA DamagedIsFinite ==
    ASSUME Types
    PROVE  IsFiniteSet(Damaged) /\ Cardinality(Damaged) \in Nat
<1>1. Len(out) \in Nat /\ Damaged \subseteq 1 .. Len(out)
  BY LenProperties DEF Types, ReaderTypes, Damaged
<1>2. IsFiniteSet(1 .. Len(out))
  BY <1>1, FS_Interval
<1> QED
  BY <1>1, <1>2, FS_Subset, FS_CardinalityType

\* A block returned adds at most one to the damage, and nothing if it is whole.
LEMMA DamageOfOne ==
    ASSUME Types, NEW b \in OutBlock, out' = Append(out, b)
    PROVE  /\ Cardinality(Damaged') <= Cardinality(Damaged) + 1 /\ Cardinality(Damaged') \in Nat
           /\ b.payload = NodeBlock(b.number) => Damaged' = Damaged
<1>1. out \in Seq(OutBlock) /\ Len(out) \in Nat /\ DOMAIN out = 1 .. Len(out)
  BY LenProperties DEF Types, ReaderTypes
<1>2. /\ Len(out') = Len(out) + 1 /\ out'[Len(out) + 1] = b
      /\ \A i \in 1 .. Len(out) : out'[i] = out[i]
      /\ out' \in Seq(OutBlock)
  BY <1>1, AppendProperties
<1>3. DOMAIN out' = 1 .. Len(out) + 1
  BY <1>2, LenProperties
<1>4. Damaged' = IF b.payload = NodeBlock(b.number) THEN Damaged ELSE Damaged \cup {Len(out) + 1}
  <2>1. \A i \in 1 .. Len(out) : i \in Damaged' <=> i \in Damaged
    BY <1>1, <1>2, <1>3 DEF Damaged
  <2>2. Len(out) + 1 \in Damaged' <=> b.payload # NodeBlock(b.number)
    BY <1>1, <1>2, <1>3 DEF Damaged
  <2>3. Damaged \subseteq 1 .. Len(out) /\ Damaged' \subseteq 1 .. Len(out) + 1
    BY <1>1, <1>3 DEF Damaged
  <2> DEFINE N == 1 .. Len(out)
             m == Len(out) + 1
             D == Damaged'
  <2>4. 1 .. Len(out) + 1 = N \cup {m} /\ m \notin N
    BY <1>1
  <2>5. /\ \A i \in N : i \in D <=> i \in Damaged
        /\ m \in D <=> b.payload # NodeBlock(b.number)
        /\ Damaged \subseteq N /\ D \subseteq N \cup {m} /\ m \notin N
    BY <2>1, <2>2, <2>3, <2>4
  <2> HIDE DEF N, m, D
  <2>6. D = IF b.payload = NodeBlock(b.number) THEN Damaged ELSE Damaged \cup {m}
    <3>1. CASE b.payload = NodeBlock(b.number)
      <4>1. \A x : x \in D <=> x \in Damaged
        BY <2>5, <3>1
      <4> QED
        BY <3>1, <4>1
    <3>2. CASE b.payload # NodeBlock(b.number)
      <4>1. \A x : x \in D <=> x \in Damaged \cup {m}
        BY <2>5, <3>2
      <4> QED
        BY <3>2, <4>1
    <3> QED
      BY <3>1, <3>2
  <2> QED
    BY <2>6 DEF D, m
<1>5. IsFiniteSet(Damaged) /\ Cardinality(Damaged) \in Nat
  BY DamagedIsFinite
<1>6. /\ Cardinality(Damaged \cup {Len(out) + 1}) <= Cardinality(Damaged) + 1
      /\ Cardinality(Damaged \cup {Len(out) + 1}) \in Nat
  <2>1. Cardinality(Damaged \cup {Len(out) + 1}) =
          IF Len(out) + 1 \in Damaged THEN Cardinality(Damaged) ELSE Cardinality(Damaged) + 1
    BY <1>5, FS_AddElement
  <2> QED
    BY <1>5, <2>1
<1> QED
  BY <1>4, <1>5, <1>6

LEMMA PositionType ==
    ASSUME Types, NEW from, NEW spoilt, Explained(from, spoilt)
    PROVE  /\ read \in Nat /\ Len(from) \in Nat /\ Position(from) \in 0 .. read
           /\ from = <<>> => Len(from) = 0 /\ Position(from) = read
           /\ from # <<>> => Len(from) > 0 /\ from[1] = Position(from) + 1 /\ Position(from) < read
<1>1. read \in Nat
  BY LenProperties DEF Types, LogTypes, ReaderTypes
<1>2. from \in Seq(Nat) /\ Len(from) \in Nat
  BY LenProperties DEF Explained
<1>3. CASE from = <<>>
  BY <1>1, <1>2, <1>3 DEF Position
<1>4. CASE from # <<>>
  <2>1. Len(from) > 0 /\ 1 \in 1 .. Len(from)
    BY <1>2, <1>4, EmptySeq
  <2>2. from[1] \in 1 .. read
    BY <2>1 DEF Explained
  <2> QED
    BY <1>1, <1>2, <1>4, <2>1, <2>2 DEF Position
<1> QED
  BY <1>3, <1>4

\* Steps of the node.
LEMMA LogGrows ==
    ASSUME Types, NEW from, NEW spoilt, Explained(from, spoilt), Charged(Position(from), spoilt),
           UNCHANGED <<read, lines, height, block, status, out, torn>>,
           Len(log') \in Nat, Len(log) <= Len(log'),
           \A i \in 1 .. Len(log) : log'[i] = log[i]
    PROVE  Explained(from, spoilt)' /\ Charged(Position(from), spoilt)'
<1>1. read \in 0 .. Len(log) /\ Len(log) \in Nat
  BY LenProperties DEF Types, LogTypes, ReaderTypes
<1>2. \A i \in 1 .. Len(from) : log'[from[i]] = log[from[i]]
  <2>1. \A i \in 1 .. Len(from) : from[i] \in 1 .. read
    BY DEF Explained
  <2> QED
    BY <1>1, <2>1
<1>3. Position(from)' = Position(from)
  BY DEF Position
<1>4. Explained(from, spoilt)'
  BY <1>2, <1>3 DEF Explained
<1>5. PICK c \in Nat : c = Position(from)
  BY <1>1, PositionType
<1>6. OnLog(c) => OnLog(c)'
  BY <1>1, OnLogKept
<1>7. Damaged' = Damaged
  BY DEF Damaged
<1>8. /\ Cardinality(Damaged) \in Nat /\ Cardinality(spoilt \cap (1 .. c)) \in Nat
      /\ Cardinality(Damaged) + Tainted(c) <= Cardinality(spoilt \cap (1 .. c))
  <2>1. spoilt \subseteq 1 .. read /\ read \in Nat
    BY <1>1 DEF Explained
  <2>2. Cardinality(spoilt \cap (1 .. c)) \in Nat
    BY <2>1, CreditType
  <2> QED
    BY <1>5, <2>2, DamagedIsFinite DEF Charged
<1>9. Tainted(c) \in {0, 1} /\ Tainted(c)' \in {0, 1} /\ (Tainted(c) = 0 => Tainted(c)' = 0)
  BY <1>6 DEF Tainted
<1>10. Cardinality(Damaged') + Tainted(c)' <= Cardinality(spoilt \cap (1 .. c))
  BY <1>7, <1>8, <1>9
<1> QED
  BY <1>3, <1>4, <1>5, <1>10 DEF Charged

\* A line enters the channel from the position after the last one read; more is
\* spoilt with that position when it is torn.
LEMMA LineQueues ==
    ASSUME Types, NEW from, NEW spoilt, Explained(from, spoilt), Charged(Position(from), spoilt),
           NEW r \in Nat, r = read + 1, read' = r, r <= Len(log),
           NEW l \in ChannelLine, lines' = Append(lines, l),
           UNCHANGED <<log, height, block, status, out>>,
           NEW more, spoilt \subseteq more, more \subseteq spoilt \cup {r},
           r \notin more => l = log[r],
           r \in more => IsTorn(l, log[r]),
           Cardinality(more) <= torn'
    PROVE  /\ Append(from, r) \in Seq(Nat)
           /\ Explained(Append(from, r), more)' /\ Charged(Position(Append(from, r)), more)'
<1>1. /\ read \in Nat /\ Len(lines) \in Nat /\ lines \in Seq(ChannelLine)
      /\ from \in Seq(Nat) /\ Len(from) = Len(lines) /\ spoilt \subseteq 1 .. read
  BY LenProperties DEF Types, LogTypes, ReaderTypes, Explained
<1>2. PICK n \in Nat : n = Len(lines)
  BY <1>1
<1> DEFINE next == Append(from, r)
<1>3. /\ next \in Seq(Nat) /\ next # <<>> /\ Len(next) = n + 1
      /\ \A i \in 1 .. n : next[i] = from[i]
      /\ next[n + 1] = r
  BY <1>1, <1>2, AppendProperties
<1>4. /\ Len(lines') = n + 1
      /\ \A i \in 1 .. n : lines'[i] = lines[i]
      /\ lines'[n + 1] = l
  BY <1>1, <1>2, AppendProperties
<1> HIDE DEF next
<1>5. /\ \A i \in 1 .. n :
           /\ from[i] \in 1 .. read
           /\ from[i] \notin spoilt => lines[i] = log[from[i]]
           /\ from[i] \in spoilt => IsTorn(lines[i], log[from[i]])
      /\ \A i, j \in 1 .. n : i < j => from[i] < from[j]
      /\ \A q \in Position(from) + 1 .. read : q \in spoilt \/ \E i \in 1 .. n : from[i] = q
  BY <1>1, <1>2 DEF Explained
<1>6. \A i \in 1 .. n + 1 : i \in 1 .. n \/ i = n + 1
  OBVIOUS
<1>7. Position(next)' = Position(from) /\ Position(from) \in 0 .. read
  <2>1. Position(from) \in 0 .. read
    BY PositionType
  <2>2. Position(next)' = next[1] - 1
    BY <1>3 DEF Position
  <2>3. CASE from = <<>>
    <3>1. n = 0 /\ next[1] = r
      BY <1>1, <1>2, <1>3, <2>3
    <3> QED
      BY <1>1, <1>2, <2>1, <2>2, <2>3, <3>1 DEF Position
  <2>4. CASE from # <<>>
    <3>1. 1 \in 1 .. n
      BY <1>1, <1>2, <2>4, EmptySeq
    <3> QED
      BY <1>3, <2>1, <2>2, <2>4, <3>1 DEF Position
  <2> QED
    BY <2>3, <2>4
<1>8. \A q \in 1 .. read : q \in more <=> q \in spoilt
  BY <1>1
<1>9. Explained(next, more)'
  <2>1. more \subseteq 1 .. read'
    BY <1>1
  <2>2. ASSUME NEW i \in 1 .. n + 1
        PROVE  /\ next[i] \in 1 .. read'
               /\ next[i] \notin more => lines'[i] = log'[next[i]]
               /\ next[i] \in more => IsTorn(lines'[i], log'[next[i]])
    <3>1. CASE i \in 1 .. n
      <4>1. from[i] \in 1 .. read /\ from[i] \in 1 .. read'
        BY <1>1, <1>5, <3>1
      <4> QED
        BY <1>3, <1>4, <1>5, <1>8, <3>1, <4>1
    <3>2. CASE i = n + 1
      BY <1>1, <1>2, <1>3, <1>4, <3>2
    <3> QED
      BY <3>1, <3>2, <1>6
  <2>3. ASSUME NEW i \in 1 .. n + 1, NEW j \in 1 .. n + 1, i < j
        PROVE  next[i] < next[j]
    <3>1. i \in 1 .. n
      BY <2>3
    <3>2. CASE j \in 1 .. n
      BY <1>3, <1>5, <2>3, <3>1, <3>2
    <3>3. CASE j = n + 1
      <4>1. from[i] \in 1 .. read
        BY <1>5, <3>1
      <4> QED
        BY <1>1, <1>2, <1>3, <3>1, <3>3, <4>1
    <3> QED
      BY <1>6, <3>2, <3>3
  <2>4. ASSUME NEW q \in Position(from) + 1 .. read'
        PROVE  q \in more \/ \E i \in 1 .. n + 1 : next[i] = q
    <3>1. CASE q = r
      BY <1>3, <3>1
    <3>2. CASE q # r
      <4>1. q \in Position(from) + 1 .. read
        BY <1>1, <1>2, <1>7, <3>2
      <4>2. CASE q \in spoilt
        BY <4>2
      <4>3. CASE \E i \in 1 .. n : from[i] = q
        BY <1>3, <4>3
      <4> QED
        BY <1>5, <4>1, <4>2, <4>3
    <3> QED
      BY <3>1, <3>2
  <2> QED
    BY <1>3, <1>4, <1>7, <2>1, <2>2, <2>3, <2>4 DEF Explained
<1>10. Charged(Position(next), more)'
  <2> PICK c \in Nat : c = Position(from)
    BY <1>1, <1>7
  <2>1. more \cap (1 .. c) = spoilt \cap (1 .. c)
    BY <1>1, <1>7, <1>8
  <2>2. Damaged' = Damaged /\ Tainted(c)' = Tainted(c)
    BY DEF Damaged, Tainted, OnLog
  <2>3. Cardinality(Damaged) + Tainted(c) <= Cardinality(spoilt \cap (1 .. c))
    BY DEF Charged
  <2> QED
    BY <1>7, <2>1, <2>2, <2>3 DEF Charged
<1> QED
  BY <1>2, <1>3, <1>9, <1>10 DEF next

\* A line of which the channel gets nothing.
LEMMA LineIsLost ==
    ASSUME Types, NEW from, NEW spoilt, Explained(from, spoilt), Charged(Position(from), spoilt),
           NEW r \in Nat, r = read + 1, read' = r, lines' = lines, torn' = torn + 1,
           UNCHANGED <<log, height, block, status, out>>
    PROVE  Explained(from, spoilt \cup {r})' /\ Charged(Position(from), spoilt \cup {r})'
<1>1. /\ read \in Nat /\ torn \in Nat /\ spoilt \subseteq 1 .. read /\ Cardinality(spoilt) <= torn
      /\ from \in Seq(Nat) /\ Len(from) = Len(lines) /\ Len(from) \in Nat
  BY LenProperties DEF Types, LogTypes, ReaderTypes, FaultTypes, Explained
<1> DEFINE more == spoilt \cup {r}
<1>2. /\ \A i \in 1 .. Len(from) :
           /\ from[i] \in 1 .. read
           /\ from[i] \notin spoilt => lines[i] = log[from[i]]
           /\ from[i] \in spoilt => IsTorn(lines[i], log[from[i]])
      /\ \A i, j \in 1 .. Len(from) : i < j => from[i] < from[j]
      /\ \A q \in Position(from) + 1 .. read : q \in spoilt \/ \E i \in 1 .. Len(from) : from[i] = q
  BY DEF Explained
<1>3. Cardinality(more) <= torn' /\ more \subseteq 1 .. read'
  <2>1. IsFiniteSet(spoilt) /\ Cardinality(spoilt) \in Nat
    BY <1>1, CreditType
  <2>2. Cardinality(more) = IF r \in spoilt THEN Cardinality(spoilt) ELSE Cardinality(spoilt) + 1
    BY <2>1, FS_AddElement
  <2>3. Cardinality(more) <= torn'
    BY <1>1, <2>1, <2>2
  <2> QED
    BY <1>1, <2>3
<1>4. \A q \in 1 .. read : q \in more <=> q \in spoilt
  BY <1>1
<1> HIDE DEF more
<1>5. /\ Position(from) \in 0 .. read
      /\ from = <<>> => Position(from)' = r /\ Position(from) = read
      /\ from # <<>> => Position(from)' = Position(from)
  <2>1. Position(from) \in 0 .. read
    BY PositionType
  <2> QED
    BY <2>1 DEF Position
<1>6. Explained(from, more)'
  <2>1. ASSUME NEW i \in 1 .. Len(from)
        PROVE  /\ from[i] \in 1 .. read'
               /\ from[i] \notin more => lines'[i] = log'[from[i]]
               /\ from[i] \in more => IsTorn(lines'[i], log'[from[i]])
    <3>1. from[i] \in 1 .. read /\ (from[i] \in more <=> from[i] \in spoilt)
      BY <1>2, <1>4
    <3> QED
      BY <1>1, <1>2, <3>1
  <2>2. ASSUME NEW q \in Position(from)' + 1 .. read'
        PROVE  q \in more \/ \E i \in 1 .. Len(from) : from[i] = q
    <3>1. CASE q = r
      BY <3>1 DEF more
    <3>2. CASE q # r
      <4>0. from # <<>>
        BY <1>1, <1>5, <3>2
      <4>1. q \in Position(from) + 1 .. read
        BY <1>1, <1>5, <3>2, <4>0
      <4> QED
        BY <1>2, <4>1 DEF more
    <3> QED
      BY <3>1, <3>2
  <2> QED
    BY <1>1, <1>2, <1>3, <2>1, <2>2 DEF Explained
<1>7. Charged(Position(from), more)'
  <2> PICK c \in Nat : c = Position(from)
    BY <1>1, <1>5
  <2>1. Damaged' = Damaged /\ Tainted(c)' = Tainted(c) /\ Tainted(c) \in {0, 1}
    BY DEF Damaged, Tainted, OnLog
  <2>2. /\ Cardinality(Damaged) \in Nat
        /\ Cardinality(Damaged) + Tainted(c) <= Cardinality(spoilt \cap (1 .. c))
    BY DamagedIsFinite DEF Charged
  <2>3. Cardinality(spoilt \cap (1 .. c)) = Cardinality(more \cap (1 .. c))
    <3>1. more \cap (1 .. c) = spoilt \cap (1 .. c)
      BY <1>1, <1>5 DEF more
    <3> QED
      BY <3>1
  <2>4. CASE from # <<>>
    <3>1. Cardinality(Damaged') + Tainted(c)' <= Cardinality(more \cap (1 .. c))
      BY <2>1, <2>2, <2>3
    <3> QED
      BY <1>5, <2>4, <3>1 DEF Charged
  <2>5. CASE from = <<>>
    <3>1. r \in more /\ c < r /\ more \subseteq 1 .. r
      BY <1>1, <1>3, <1>5, <2>5 DEF more
    <3>2. /\ Cardinality(more \cap (1 .. c)) \in Nat /\ Cardinality(more \cap (1 .. r)) \in Nat
          /\ Cardinality(more \cap (1 .. c)) + 1 <= Cardinality(more \cap (1 .. r))
      <4>1. c <= r /\ \E q \in more : c < q /\ q <= r
        BY <3>1
      <4> QED
        BY <3>1, <4>1, CreditGrows
    <3>3. Tainted(r)' \in {0, 1}
      BY DEF Tainted
    <3>4. Cardinality(Damaged') + Tainted(r)' <= Cardinality(more \cap (1 .. r))
      BY <2>1, <2>2, <2>3, <3>2, <3>3
    <3> QED
      BY <1>5, <2>5, <3>4 DEF Charged
  <2> QED
    BY <2>4, <2>5
<1> QED
  BY <1>6, <1>7 DEF more

LEMMA SourceCharged == Types /\ DamageIsCharged /\ (HandOn \/ HandOnTorn) => DamageIsCharged'
<1> SUFFICES ASSUME Types, DamageIsCharged, HandOn \/ HandOnTorn PROVE DamageIsCharged'
  OBVIOUS
<1>1. PICK from \in Seq(Nat), spoilt \in SUBSET Nat :
        Explained(from, spoilt) /\ Charged(Position(from), spoilt)
  BY DEF DamageIsCharged
<1>2. /\ read \in Nat /\ Len(log) \in Nat /\ torn \in Nat
      /\ read < Len(log) /\ read' = read + 1 /\ UNCHANGED <<log, height, block, status, out>>
  BY LenProperties DEF HandOn, HandOnTorn, node, cr, Types, LogTypes, ReaderTypes, FaultTypes
<1>3. read + 1 \in Nat
  BY <1>2
<1>4. PICK r \in Nat : r = read + 1
  BY <1>3
<1>5. r \in 1 .. Len(log) /\ r <= Len(log) /\ read' = r
  BY <1>2, <1>4
<1>6. log[r] \in ChannelLine
  BY <1>5, LogIsOfTheChannel
<1>7. spoilt \subseteq 1 .. read /\ Cardinality(spoilt) <= torn /\ r \notin spoilt
  BY <1>1, <1>2, <1>4 DEF Explained
<1>8. CASE HandOn
  <2>1. lines' = Append(lines, log[r]) /\ torn' = torn
    BY <1>4, <1>8 DEF HandOn
  <2>2. /\ Append(from, r) \in Seq(Nat)
        /\ Explained(Append(from, r), spoilt)' /\ Charged(Position(Append(from, r)), spoilt)'
    BY <1>1, <1>2, <1>4, <1>5, <1>6, <1>7, <2>1, LineQueues
  <2> QED
    BY <2>2 DEF DamageIsCharged
<1>9. CASE HandOnTorn
  <2> DEFINE more == spoilt \cup {r}
  <2>1. torn' = torn + 1
    BY <1>9 DEF HandOnTorn
  <2>2. more \in SUBSET Nat /\ Cardinality(more) <= torn'
    <3>1. IsFiniteSet(spoilt) /\ Cardinality(spoilt) \in Nat
      BY <1>2, <1>7, CreditType
    <3>2. Cardinality(more) = Cardinality(spoilt) + 1
      BY <1>7, <3>1, FS_AddElement
    <3>3. Cardinality(more) <= torn'
      BY <1>2, <1>7, <2>1, <3>1, <3>2
    <3> QED
      BY <3>3
  <2>3. \/ lines' = lines
        \/ \E l \in DataHeads(log[r]) \cup {MkLine("INVALID", 0, 0)} : lines' = Append(lines, l)
    BY <1>5, <1>9 DEF HandOnTorn
  <2>4. CASE lines' = lines
    <3>1. Explained(from, more)' /\ Charged(Position(from), more)'
      BY <1>1, <1>2, <1>4, <1>5, <2>1, <2>4, LineIsLost
    <3> QED
      BY <2>2, <3>1 DEF DamageIsCharged
  <2>5. CASE \E l \in DataHeads(log[r]) \cup {MkLine("INVALID", 0, 0)} : lines' = Append(lines, l)
    <3>1. PICK l \in DataHeads(log[r]) \cup {MkLine("INVALID", 0, 0)} : lines' = Append(lines, l)
      BY <2>5
    <3>2. l \in ChannelLine /\ IsTorn(l, log[r])
      <4>1. CASE l \in DataHeads(log[r])
        BY <1>5, <4>1, HeadsAreOfTheChannel
      <4>2. CASE l = MkLine("INVALID", 0, 0)
        BY <4>2 DEF MkLine, ChannelLine, Line, IsTorn
      <4> QED
        BY <3>1, <4>1, <4>2
    <3>3. r \in more /\ spoilt \subseteq more /\ more \subseteq spoilt \cup {r}
      OBVIOUS
    <3> HIDE DEF more
    <3>4. /\ Append(from, r) \in Seq(Nat)
          /\ Explained(Append(from, r), more)' /\ Charged(Position(Append(from, r)), more)'
      <4>1. /\ Explained(from, spoilt) /\ Charged(Position(from), spoilt)
            /\ UNCHANGED <<log, height, block, status, out>>
            /\ (r \notin more => l = log[r]) /\ (r \in more => IsTorn(l, log[r]))
            /\ Cardinality(more) <= torn' /\ l \in ChannelLine
        BY <1>1, <1>2, <2>2, <3>2, <3>3
      <4> QED
        BY <1>4, <1>5, <3>1, <3>3, <4>1, LineQueues
    <3> QED
      BY <2>2, <3>4 DEF DamageIsCharged
  <2> QED
    BY <2>3, <2>4, <2>5
<1> QED
  BY <1>8, <1>9

\* Nothing is damaged nor queued when the reader starts.
Starts == read \in Nat /\ torn \in Nat /\ lines = <<>> /\ height = 0 /\ out = <<>>

LEMMA StartsWhole == Starts => DamageIsCharged
<1> SUFFICES ASSUME Starts PROVE DamageIsCharged
  OBVIOUS
<1> USE DEF Starts
<1>1. Len(lines) = 0 /\ Len(<<>>) = 0 /\ <<>> \in Seq(Nat) /\ DOMAIN out = {}
  OBVIOUS
<1>2. Damaged = {} /\ Cardinality({}) = 0 /\ {} \cap (1 .. read) = {}
  BY <1>1, FS_EmptySet DEF Damaged
<1>3. Position(<<>>) = read
  BY DEF Position
<1>4. Explained(<<>>, {})
  BY <1>1, <1>2, <1>3 DEF Explained
<1>5. Tainted(read) = 0
  BY DEF Tainted, OnLog
<1>6. Charged(Position(<<>>), {})
  BY <1>2, <1>3, <1>5 DEF Charged
<1> QED
  BY <1>1, <1>4, <1>6 DEF DamageIsCharged

\* What ReadBlock returns, it returns for an END of the height it is at.
Returns ==
    /\ Head(lines).kind = "END" /\ Head(lines).height = height
    /\ block.height # 0 /\ out' = Append(out, FromProto(block))
    /\ UNCHANGED <<height, block, status>>

LEMMA ReadBlockReturns ==
    ASSUME Types, ReadBlock
    PROVE  out' = out \/ Returns
<1>1. CASE TakeEnd
  <2>1. Head(lines).kind = "END"
    BY <1>1 DEF TakeEnd, Take
  <2>2. \/ Fail \/ Panic
        \/ /\ Head(lines).height = height /\ block.height # 0
           /\ out' = Append(out, FromProto(block)) /\ UNCHANGED <<height, block, status>>
    BY <1>1 DEF TakeEnd
  <2> QED
    BY <2>1, <2>2 DEF Fail, Panic, Returns
<1>2. CASE ~TakeEnd
  BY <1>2 DEF ReadBlock, TakeInvalid, TakeBegin, TakeBlock, TakeTx, TakeValidatorSetUpdate,
              Fail, Panic
<1> QED
  BY <1>1, <1>2

\* After the END of a block, the reader is on the log whatever the block.
LEMMA EndMends ==
    ASSUME Types, Returns, log' = log, NEW p \in 1 .. Len(log), Head(lines) = log[p]
    PROVE  OnLog(p)'
<1>1. PICK h \in Height : \E k \in 1 .. LastLine(h) : log[p] = BlockLines(h)[k]
  BY LogLine
<1>2. PICK k \in 1 .. LastLine(h) : log[p] = BlockLines(h)[k]
  BY <1>1
<1>3. k = LastLine(h) /\ log[p].height = h
  BY <1>2, LineKinds DEF Returns
<1>4. height' = h
  BY <1>3 DEF Returns
<1>5. ~(k < LastLine(h))
  BY <1>3, LastLineType
<1>6. \E j \in 1 .. LastLine(h) :
        log'[p] = BlockLines(h)[j] /\ (1 < j /\ j < LastLine(h) => block' = Partial(h, j))
  BY <1>2, <1>5
<1> QED
  BY <1>4, <1>6 DEF OnLog

\* A torn END is only taken for one of a reader that is off the log.
LEMMA TornEndOffTheLog ==
    ASSUME Types, Returns, lines # <<>>, NEW c \in Nat, c + 1 \in 1 .. Len(log),
           IsTorn(Head(lines), log[c + 1])
    PROVE  ~OnLog(c)
<1> SUFFICES ASSUME OnLog(c) PROVE FALSE
  OBVIOUS
<1>1. Head(lines) \in ChannelLine
  BY HeadTailProperties DEF Types, ReaderTypes
<1>2. Head(lines).kind = "END" /\ height = Head(lines).height
  BY DEF Returns
<1>3. height > 0
  BY <1>1, <1>2, Heights DEF ChannelLine
<1>4. log[c + 1].kind = "END" /\ log[c + 1].height # height
  BY <1>2 DEF IsTorn
<1>5. PICK h \in Height : \E k \in 1 .. LastLine(h) :
        log[c + 1] = BlockLines(h)[k] /\ (k > 1 => height = h)
  BY <1>3, NextOnLog
<1>6. PICK k \in 1 .. LastLine(h) : log[c + 1] = BlockLines(h)[k] /\ (k > 1 => height = h)
  BY <1>5
<1>7. k = LastLine(h) /\ log[c + 1].height = h
  BY <1>4, <1>6, LineKinds
<1>8. k > 1
  BY <1>7, LastLineType
<1> QED
  BY <1>4, <1>6, <1>7, <1>8

\* The positions between a line taken and the next one in the channel are those
\* of lines the channel got nothing of.
LEMMA TakeExplained ==
    ASSUME Types, NEW from, NEW spoilt, Explained(from, spoilt), NEW kind, Take(kind)
    PROVE  /\ Tail(from) \in Seq(Nat) /\ Explained(Tail(from), spoilt)'
           /\ Position(from) \in Nat /\ Position(from) + 1 \in 1 .. read
           /\ Position(Tail(from))' \in Position(from) + 1 .. read
           /\ \A q \in Position(from) + 2 .. Position(Tail(from))' : q \in spoilt
           /\ Position(from) + 1 \notin spoilt => Head(lines) = log[Position(from) + 1]
           /\ Position(from) + 1 \in spoilt => IsTorn(Head(lines), log[Position(from) + 1])
<1>1. /\ Len(lines) \in Nat \ {0} /\ Len(lines') = Len(lines) - 1 /\ Head(lines) = lines[1]
      /\ \A i \in 1 .. Len(lines') : lines'[i] = lines[i + 1]
      /\ UNCHANGED <<log, at, read, crashes, torn>>
  BY TakeFacts
<1>2. /\ from \in Seq(Nat) /\ Len(from) = Len(lines)
      /\ spoilt \subseteq 1 .. read /\ Cardinality(spoilt) <= torn
      /\ \A i \in 1 .. Len(lines) :
           /\ from[i] \in 1 .. read
           /\ from[i] \notin spoilt => lines[i] = log[from[i]]
           /\ from[i] \in spoilt => IsTorn(lines[i], log[from[i]])
      /\ \A i, j \in 1 .. Len(lines) : i < j => from[i] < from[j]
      /\ \A q \in Position(from) + 1 .. read :
           q \in spoilt \/ \E i \in 1 .. Len(lines) : from[i] = q
  BY DEF Explained
<1>3. from # <<>>
  BY <1>1, <1>2
<1>4. PICK n \in Nat : n + 1 = Len(lines)
  <2>1. Len(lines) - 1 \in Nat /\ (Len(lines) - 1) + 1 = Len(lines)
    BY <1>1
  <2> QED
    BY <2>1
<1> DEFINE rest == Tail(from)
<1>5. /\ rest \in Seq(Nat) /\ Len(rest) = n /\ Len(lines') = n
      /\ \A i \in 1 .. n : rest[i] = from[i + 1]
  BY <1>1, <1>2, <1>3, <1>4, HeadTailProperties
<1> HIDE DEF rest
<1>6. read \in Nat /\ Position(from) \in Nat /\ from[1] = Position(from) + 1 /\ Position(from) < read
  BY <1>3, PositionType
<1>7. PICK c \in Nat : c = Position(from)
  BY <1>6
<1>8. \A i \in 1 .. n : i + 1 \in 1 .. Len(lines) /\ i \in 1 .. Len(lines)
  BY <1>4
<1>9. PICK d \in Nat : d = Position(rest)' /\ c + 1 <= d /\ d <= read
                      /\ (rest # <<>> => 1 \in 1 .. n /\ rest[1] = d + 1) /\ (rest = <<>> => n = 0 /\ d = read)
  <2>1. CASE rest = <<>>
    <3>1. Position(rest)' = read /\ n = 0
      BY <1>1, <1>5, <2>1 DEF Position
    <3> QED
      BY <1>6, <1>7, <2>1, <3>1
  <2>2. CASE rest # <<>>
    <3>1. 1 \in 1 .. n
      BY <1>5, <2>2, EmptySeq
    <3>2. 1 \in 1 .. Len(lines) /\ 2 \in 1 .. Len(lines) /\ rest[1] = from[2]
      BY <1>4, <1>5, <3>1
    <3>3. from[2] \in 1 .. read /\ from[1] < from[2]
      BY <1>2, <3>2
    <3>4. Position(rest)' = from[2] - 1
      BY <2>2, <3>2 DEF Position
    <3>5. from[2] - 1 \in Nat /\ c + 1 <= from[2] - 1 /\ from[2] - 1 <= read
          /\ rest[1] = (from[2] - 1) + 1
      BY <1>6, <1>7, <3>2, <3>3
    <3> QED
      BY <2>2, <3>1, <3>4, <3>5
  <2> QED
    BY <2>1, <2>2
<1>10. Explained(rest, spoilt)'
  <2>1. ASSUME NEW i \in 1 .. n
        PROVE  /\ rest[i] \in 1 .. read
               /\ rest[i] \notin spoilt => lines'[i] = log[rest[i]]
               /\ rest[i] \in spoilt => IsTorn(lines'[i], log[rest[i]])
    <3>1. i + 1 \in 1 .. Len(lines) /\ rest[i] = from[i + 1] /\ lines'[i] = lines[i + 1]
      BY <1>1, <1>5, <1>8
    <3> QED
      BY <1>2, <3>1
  <2>2. ASSUME NEW i \in 1 .. n, NEW j \in 1 .. n, i < j
        PROVE  rest[i] < rest[j]
    <3>1. i + 1 \in 1 .. Len(lines) /\ j + 1 \in 1 .. Len(lines) /\ i + 1 < j + 1
      BY <1>8, <2>2
    <3> QED
      BY <1>2, <1>5, <3>1
  <2>3. ASSUME NEW q \in d + 1 .. read
        PROVE  q \in spoilt \/ \E i \in 1 .. n : rest[i] = q
    <3>1. q \in Position(from) + 1 .. read /\ q # from[1]
      BY <1>6, <1>7, <1>9
    <3>2. CASE \E i \in 1 .. Len(lines) : from[i] = q
      <4>1. PICK i \in 1 .. Len(lines) : from[i] = q
        BY <3>2
      <4>2. i # 1
        BY <3>1, <4>1
      <4>3. i - 1 \in 1 .. n /\ (i - 1) + 1 = i
        BY <1>4, <4>2
      <4> QED
        BY <1>5, <4>1, <4>3
    <3> QED
      BY <1>2, <3>1, <3>2
  <2> QED
    BY <1>1, <1>2, <1>5, <1>9, <2>1, <2>2, <2>3 DEF Explained
<1>11. \A q \in c + 2 .. d : q \in spoilt
  <2> SUFFICES ASSUME NEW q \in c + 2 .. d, q \notin spoilt PROVE FALSE
    OBVIOUS
  <2>1. q \in Position(from) + 1 .. read /\ q \in Nat
    BY <1>6, <1>7, <1>9
  <2>2. PICK i \in 1 .. Len(lines) : from[i] = q
    BY <1>2, <2>1
  <2>3. i # 1
    BY <1>6, <1>7, <2>2
  <2>4. i - 1 \in 1 .. n /\ (i - 1) + 1 = i
    BY <1>4, <2>3
  <2>5. rest[i - 1] = q /\ rest # <<>>
    BY <1>5, <1>9, <2>2, <2>4
  <2>6. i - 1 = 1 \/ 1 < i - 1
    BY <2>4
  <2>7. CASE i - 1 = 1
    BY <1>9, <2>5, <2>7
  <2>8. CASE 1 < i - 1
    <3>1. 2 \in 1 .. Len(lines) /\ 2 < i /\ rest[1] = from[2]
      BY <1>4, <1>5, <1>9, <2>4, <2>5, <2>8
    <3>2. from[2] < from[i]
      BY <1>2, <3>1
    <3> QED
      BY <1>9, <2>2, <2>5, <3>1, <3>2
  <2> QED
    BY <2>6, <2>7, <2>8
<1>12. 1 \in 1 .. Len(lines)
  BY <1>1
<1>13. /\ c + 1 \notin spoilt => lines[1] = log[c + 1]
       /\ c + 1 \in spoilt => IsTorn(lines[1], log[c + 1])
  BY <1>2, <1>6, <1>7, <1>12
<1>14. c + 1 \in 1 .. read /\ d \in c + 1 .. read
  BY <1>6, <1>7, <1>9
<1> QED
  BY <1>1, <1>5, <1>7, <1>9, <1>10, <1>11, <1>13, <1>14 DEF rest

\* What ReadBlock returns is whole when the reader is on the log and the line is
\* not torn; when it is not, a torn line is there to be charged, or the reader
\* was off the log and the END brings it back.
LEMMA ReadBlockCharged == Types /\ Types' /\ DamageIsCharged /\ ReadBlock => DamageIsCharged'
<1> SUFFICES ASSUME Types, Types', DamageIsCharged, ReadBlock PROVE DamageIsCharged'
  OBVIOUS
<1>1. PICK from \in Seq(Nat), spoilt \in SUBSET Nat :
        Explained(from, spoilt) /\ Charged(Position(from), spoilt)
  BY DEF DamageIsCharged
<1>2. PICK kind : Take(kind)
  BY DEF ReadBlock, TakeInvalid, TakeBegin, TakeBlock, TakeTx, TakeValidatorSetUpdate, TakeEnd
<1>3. /\ Tail(from) \in Seq(Nat) /\ Explained(Tail(from), spoilt)'
      /\ Position(from) \in Nat /\ Position(from) + 1 \in 1 .. read
      /\ Position(Tail(from))' \in Position(from) + 1 .. read
      /\ \A q \in Position(from) + 2 .. Position(Tail(from))' : q \in spoilt
      /\ Position(from) + 1 \notin spoilt => Head(lines) = log[Position(from) + 1]
      /\ Position(from) + 1 \in spoilt => IsTorn(Head(lines), log[Position(from) + 1])
  BY <1>1, <1>2, TakeExplained
<1>4. /\ read \in Nat /\ read \in 0 .. Len(log) /\ Len(log) \in Nat
      /\ log' = log /\ status = "reading" /\ lines # <<>>
  BY <1>2, TakeFacts, LenProperties DEF Types, LogTypes, ReaderTypes, Take
<1>5. PICK c \in Nat, d \in Nat : c = Position(from) /\ d = Position(Tail(from))'
  BY <1>3, <1>4
<1>6. c + 1 \in 1 .. Len(log) /\ c < d /\ c + 1 <= d /\ c <= d
  BY <1>3, <1>4, <1>5
\* The damage and the credit, before and after.
<1> DEFINE D == Cardinality(Damaged)
           E == Cardinality(Damaged')
           C == Cardinality(spoilt \cap (1 .. c))
           M == Cardinality(spoilt \cap (1 .. d))
           T == Tainted(c)
           U == Tainted(d)'
<1>7. /\ D \in Nat /\ D + T <= C /\ C \in Nat /\ M \in Nat /\ C <= M
      /\ (\E q \in spoilt : c < q /\ q <= d) => C + 1 <= M
  <2>1. spoilt \subseteq 1 .. read
    BY <1>1 DEF Explained
  <2>2. D \in Nat
    BY DamagedIsFinite
  <2>3. D + T <= C
    BY <1>1, <1>5 DEF Charged
  <2>4. /\ C \in Nat /\ M \in Nat /\ C <= M
        /\ (\E q \in spoilt : c < q /\ q <= d) => C + 1 <= M
    BY <1>4, <1>6, <2>1, CreditGrows
  <2> QED
    BY <2>2, <2>3, <2>4
<1>8. /\ T \in {0, 1} /\ U \in {0, 1}
      /\ T = 0 <=> OnLog(c)
      /\ (status' # "reading" \/ OnLog(d)') => U = 0
  BY <1>4 DEF Tainted
<1>9. out' = out \/ Returns
  BY ReadBlockReturns
<1>10. out' = out => E = D
  BY DEF Damaged
<1>11. ASSUME Returns
       PROVE  /\ E \in Nat /\ E <= D + 1
              /\ block = NodeBlock(height) => E = D
  <2>1. FromProto(block) \in OutBlock /\ out' = Append(out, FromProto(block))
    BY <1>11 DEF Returns, OutBlock, Types, ReaderTypes
  <2>2. /\ Cardinality(Damaged') <= Cardinality(Damaged) + 1 /\ Cardinality(Damaged') \in Nat
        /\ FromProto(block).payload = NodeBlock(FromProto(block).number) => Damaged' = Damaged
    BY <2>1, DamageOfOne
  <2>3. block = NodeBlock(height) => FromProto(block).payload = NodeBlock(FromProto(block).number)
    BY DEF FromProto, NodeBlock
  <2> QED
    BY <2>2, <2>3
<1>12. E \in Nat /\ E <= D + 1
  BY <1>7, <1>9, <1>10, <1>11
\* On the log, and the next line whole: the damage stays.
<1>13. ASSUME OnLog(c), c + 1 \notin spoilt
       PROVE  E = D /\ (status' = "reading" => OnLog(c + 1)')
  <2>1. Head(lines) = log[c + 1]
    BY <1>3, <1>5, <1>13
  <2>2. CASE status' = "reading"
    <3>1. OnLog(c + 1)' /\ (Begins(c) \/ Goes(c) \/ Ends(c))
      BY <1>6, <1>13, <2>1, <2>2, Progress
    <3>2. CASE Begins(c) \/ Goes(c)
      BY <1>10, <3>1, <3>2 DEF Begins, Goes
    <3>3. CASE Ends(c)
      <4>1. block = NodeBlock(height)
        BY <3>3 DEF Ends
      <4> QED
        BY <1>9, <1>10, <1>11, <3>1, <4>1
    <3> QED
      BY <3>1, <3>2, <3>3
  <2>3. CASE status' # "reading"
    <3>1. out' = out
      BY <1>4, <1>9, <2>3 DEF Returns
    <3> QED
      BY <1>10, <2>3, <3>1
  <2> QED
    BY <2>2, <2>3
<1> HIDE DEF D, E, C, M, T, U
<1>14. E + U <= M
  <2>1. CASE c + 1 \in spoilt
    <3>1. C + 1 <= M
      BY <1>6, <1>7, <2>1
    <3>2. Returns => T = 1
      <4> SUFFICES ASSUME Returns PROVE ~OnLog(c)
        BY <1>8
      <4>1. IsTorn(Head(lines), log[c + 1])
        BY <1>3, <1>5, <2>1
      <4> QED
        BY <1>4, <1>6, <4>1, TornEndOffTheLog
    <3>3. E = D \/ T = 1
      BY <1>9, <1>10, <3>2
    <3> QED
      BY <1>7, <1>8, <1>12, <3>1, <3>3
  <2>2. CASE c + 1 \notin spoilt /\ d # c + 1
    <3>1. d \in spoilt
      <4>1. d \in c + 2 .. d
        BY <1>6, <2>2
      <4> QED
        BY <1>3, <1>5, <4>1
    <3>2. C + 1 <= M
      BY <1>6, <1>7, <3>1
    <3>3. E = D \/ T = 1
      BY <1>8, <1>13, <2>2
    <3> QED
      BY <1>7, <1>8, <1>12, <3>2, <3>3
  <2>3. CASE c + 1 \notin spoilt /\ d = c + 1
    <3>1. CASE OnLog(c)
      <4>1. E = D /\ U = 0
        BY <1>8, <1>13, <2>3, <3>1
      <4> QED
        BY <1>7, <1>8, <3>1, <4>1
    <3>2. CASE ~OnLog(c)
      <4>1. T = 1
        BY <1>8, <3>2
      <4>2. CASE out' = out
        BY <1>7, <1>8, <1>10, <4>1, <4>2
      <4>3. CASE Returns
        <5>1. OnLog(d)'
          BY <1>3, <1>4, <1>5, <1>6, <2>3, <4>3, EndMends
        <5>2. U = 0
          BY <1>8, <5>1
        <5> QED
          BY <1>7, <1>12, <4>1, <5>2
      <4> QED
        BY <1>9, <4>2, <4>3
    <3> QED
      BY <3>1, <3>2
  <2> QED
    BY <2>1, <2>2, <2>3
<1>15. Charged(Position(Tail(from)), spoilt)'
  BY <1>5, <1>14 DEF Charged, E, M, U
<1> QED
  BY <1>3, <1>15 DEF DamageIsCharged

LEMMA ChargedStep == Types /\ Types' /\ DamageIsCharged /\ [Next]_vars => DamageIsCharged'
<1> SUFFICES ASSUME Types, Types', DamageIsCharged, [Next]_vars PROVE DamageIsCharged'
  OBVIOUS
<1>1. CASE WriteLine \/ NodeRestart \/ UNCHANGED vars
  <2>1. UNCHANGED <<read, lines, height, block, status, out, torn>>
    BY <1>1 DEF WriteLine, NodeRestart, vars, cr
  <2>2. /\ Len(log') \in Nat /\ Len(log) <= Len(log')
        /\ \A i \in 1 .. Len(log) : log'[i] = log[i]
    <3>1. CASE WriteLine
      BY <3>1, WriteLineLog
    <3>2. CASE log' = log
      BY <3>2, LenProperties DEF Types, LogTypes
    <3> QED
      BY <1>1, <3>1, <3>2 DEF NodeRestart, vars
  <2>3. PICK from \in Seq(Nat), spoilt \in SUBSET Nat :
          Explained(from, spoilt) /\ Charged(Position(from), spoilt)
    BY DEF DamageIsCharged
  <2>4. Explained(from, spoilt)' /\ Charged(Position(from), spoilt)'
    BY <2>1, <2>2, <2>3, LogGrows
  <2> QED
    BY <2>4 DEF DamageIsCharged
<1>2. CASE ReaderRestart
  <2>1. lines' = <<>> /\ height' = 0 /\ out' = <<>>
    BY <1>2 DEF ReaderRestart
  <2>2. read' \in Nat /\ torn' \in Nat
    BY LenProperties DEF Types, LogTypes, ReaderTypes, FaultTypes
  <2>3. Starts'
    BY <2>1, <2>2 DEF Starts
  <2> QED
    BY <2>3, StartsWhole, PTL
<1>3. CASE EndOfLines
  <2>1. PICK from \in Seq(Nat), spoilt \in SUBSET Nat :
          Explained(from, spoilt) /\ Charged(Position(from), spoilt)
    BY DEF DamageIsCharged
  <2>2. UNCHANGED <<log, read, lines, height, block, out, torn>> /\ status' = "ended"
    BY <1>3 DEF EndOfLines, node
  <2>3. Explained(from, spoilt)'
    BY <2>1, <2>2 DEF Explained, Position
  <2>4. PICK c \in Nat : c = Position(from)
    <3>1. read \in Nat
      BY LenProperties DEF Types, LogTypes, ReaderTypes
    <3> QED
      BY <2>1, <3>1, PositionType
  <2>5. Position(from)' = c
    BY <2>2, <2>4 DEF Position
  <2>6. Tainted(c)' = 0 /\ Tainted(c) \in {0, 1}
    BY <2>2 DEF Tainted
  <2>7. Damaged' = Damaged /\ Cardinality(Damaged) \in Nat
    BY <2>2, DamagedIsFinite DEF Damaged
  <2>8. Cardinality(Damaged) + Tainted(c) <= Cardinality(spoilt \cap (1 .. c))
    BY <2>1, <2>4 DEF Charged
  <2>9. Cardinality(spoilt \cap (1 .. c)) \in Nat
    <3>1. read \in Nat /\ spoilt \subseteq 1 .. read
      BY <2>1, LenProperties DEF Explained, Types, LogTypes, ReaderTypes
    <3> QED
      BY <3>1, CreditType
  <2>10. (Cardinality(Damaged) + Tainted(c))' <= Cardinality(spoilt \cap (1 .. c))
    BY <2>6, <2>7, <2>8, <2>9
  <2>11. Charged(Position(from), spoilt)'
    BY <2>5, <2>10 DEF Charged
  <2> QED
    BY <2>3, <2>11 DEF DamageIsCharged
<1> QED
  BY <1>1, <1>2, <1>3, SourceCharged, ReadBlockCharged DEF Next

LEMMA ChargedInvariance == Spec => [](Types /\ DamageIsCharged)
<1>1. Types /\ DamageIsCharged /\ [Next]_vars => (Types /\ DamageIsCharged)'
  BY TypesStep, ChargedStep
<1>2. Init => Types /\ DamageIsCharged
  BY InitTypes, StartsWhole DEF Init, Starts
<1> QED
  BY <1>1, <1>2, PTL DEF Spec

LEMMA ChargedBoundsDamage == Types /\ DamageIsCharged => BlocksAreWhole
<1> SUFFICES ASSUME Types, DamageIsCharged PROVE BlocksAreWhole
  OBVIOUS
<1>1. PICK from \in Seq(Nat), spoilt \in SUBSET Nat :
        Explained(from, spoilt) /\ Charged(Position(from), spoilt)
  BY DEF DamageIsCharged
<1>2. read \in Nat /\ torn \in Nat /\ spoilt \subseteq 1 .. read /\ Cardinality(spoilt) <= torn
  BY <1>1, LenProperties DEF Types, LogTypes, ReaderTypes, FaultTypes, Explained
<1>3. PICK c \in Nat : c = Position(from)
  BY <1>1, <1>2, PositionType
<1>4. /\ Cardinality(spoilt) \in Nat /\ Cardinality(spoilt \cap (1 .. c)) \in Nat
      /\ Cardinality(spoilt \cap (1 .. c)) <= Cardinality(spoilt)
  BY <1>2, CreditType
<1>5. Cardinality(Damaged) \in Nat /\ Tainted(c) \in {0, 1}
  BY DamagedIsFinite DEF Tainted
<1>6. Cardinality(Damaged) + Tainted(c) <= Cardinality(spoilt \cap (1 .. c))
  BY <1>1, <1>3 DEF Charged
<1> QED
  BY <1>2, <1>4, <1>5, <1>6 DEF BlocksAreWhole

\* For every chain, every capacity of the channel and any number of crashes of
\* the node and of the reader, ReadBlock returns no more damaged blocks than
\* lines were torn; none when no line is.
THEOREM OnlyTornLinesDamage == Spec => []BlocksAreWhole
BY ChargedInvariance, ChargedBoundsDamage, PTL

=============================================================================
