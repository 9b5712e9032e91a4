-------------------------- MODULE NodeRunner_proofs --------------------------
(***************************************************************************)
(* Theorems about NodeRunner for every line length, pipe and buffer size,  *)
(* and every order in which the node, the goroutines and the timer run.    *)
(***************************************************************************)
EXTENDS NodeRunner, SequenceTheorems, TLAPS

\* The inductive invariant.  ReturnIsFinal needs that the timer is armed at
\* most once, so that a timer which can still fire has killed nothing.
Reaped == main \in {"draining", "returned"} => proc = "reaped"

Received == main = "returned" => reader = "done"

ArmedOnce == canceller # "gone" => timer = "none"

KilledByTimer == killed => timer = "fired"

\* The refinement of LineStream needs that what was handed on ends a line, up to
\* the last one, which the node may have left unfinished.
WholeButLast == handed % LineLen = 0 \/ (handed = written /\ proc # "running")

IInv ==
    /\ TypeOK /\ CleanEndIsComplete
    /\ Reaped /\ Received /\ ArmedOnce /\ KilledByTimer
    /\ WholeButLast

-----------------------------------------------------------------------------
(* Line numbers: LineCount(n) is the one number q with n units in q lines  *)
(* and not in q - 1.                                                       *)

LEMMA LineLenPositive == LineLen \in Nat \ {0}
BY RunnerAssumption

LEMMA NextLineStart ==
    \A q, r \in Int : q < r => q * LineLen + LineLen <= r * LineLen
<1> SUFFICES ASSUME NEW q \in Int, NEW r \in Int, q < r
             PROVE  q * LineLen + LineLen <= r * LineLen
  OBVIOUS
<1>1. (r - q - 1) * LineLen >= 0
  BY LineLenPositive
<1>2. (r - q - 1) * LineLen = r * LineLen - q * LineLen - LineLen
  BY LineLenPositive
<1>3. q * LineLen \in Int /\ r * LineLen \in Int
  BY LineLenPositive
<1> QED
  BY <1>1, <1>2, <1>3, LineLenPositive

LEMMA LineCountBounds ==
    \A n \in Nat : /\ LineCount(n) \in Nat
                  /\ n <= LineCount(n) * LineLen
                  /\ LineCount(n) * LineLen < n + LineLen
<1> SUFFICES ASSUME NEW n \in Nat
             PROVE  /\ LineCount(n) \in Nat
                    /\ n <= LineCount(n) * LineLen
                    /\ LineCount(n) * LineLen < n + LineLen
  OBVIOUS
<1>1. n + LineLen - 1 \in Nat
  BY LineLenPositive
<1>2. \A m \in Nat : /\ m \div LineLen \in Nat
                     /\ m = LineLen * (m \div LineLen) + (m % LineLen)
                     /\ m % LineLen \in 0 .. LineLen - 1
  BY LineLenPositive
<1> QED
  BY <1>1, <1>2, LineLenPositive DEF LineCount

LEMMA LineCountType == \A n \in Nat : LineCount(n) \in Nat
BY LineCountBounds

LEMMA LineCountUnique ==
    \A n, q \in Nat : n <= q * LineLen /\ q * LineLen < n + LineLen => LineCount(n) = q
<1> SUFFICES ASSUME NEW n \in Nat, NEW q \in Nat, n <= q * LineLen, q * LineLen < n + LineLen
             PROVE  LineCount(n) = q
  OBVIOUS
<1> DEFINE r == LineCount(n)
<1>1. r \in Nat /\ n <= r * LineLen /\ r * LineLen < n + LineLen
  BY LineCountBounds
<1> HIDE DEF r
<1>2. ~(q < r) /\ ~(r < q)
  BY <1>1, NextLineStart, LineLenPositive
<1>3. r = q
  BY <1>1, <1>2
<1> QED
  BY <1>3 DEF r

\* A multiple of the line length is the end of the line it counts.
LEMMA LineEnd ==
    \A n \in Nat : n % LineLen = 0 <=> \E q \in Nat : n = q * LineLen
<1> SUFFICES ASSUME NEW n \in Nat PROVE n % LineLen = 0 <=> \E q \in Nat : n = q * LineLen
  OBVIOUS
<1> DEFINE d == n \div LineLen
           m == n % LineLen
<1>1. d \in Nat /\ n = d * LineLen + m /\ m \in 0 .. LineLen - 1
  BY LineLenPositive
<1>2. ASSUME m = 0 PROVE \E q \in Nat : n = q * LineLen
  <2> HIDE DEF d, m
  <2>1. d * LineLen \in Int
    BY <1>1, LineLenPositive
  <2>2. n = d * LineLen
    BY <1>1, <1>2, <2>1
  <2> QED
    BY <1>1, <2>2
<1>3. ASSUME NEW q \in Nat, n = q * LineLen PROVE m = 0
  <2> HIDE DEF d, m
  <2>1. ~(q < d) /\ ~(d < q)
    BY <1>1, <1>3, NextLineStart, LineLenPositive
  <2> QED
    BY <1>1, <1>3, <2>1, LineLenPositive
<1> QED
  BY <1>2, <1>3

LEMMA LineCountAtEnd ==
    \A q \in Nat : q * LineLen \in Nat => LineCount(q * LineLen) = q
BY LineCountUnique, LineLenPositive

LEMMA LineCountGrows ==
    \A m, n \in Nat : m <= n => LineCount(m) <= LineCount(n)
<1> SUFFICES ASSUME NEW m \in Nat, NEW n \in Nat, m <= n PROVE LineCount(m) <= LineCount(n)
  OBVIOUS
<1> DEFINE q == LineCount(m)
           r == LineCount(n)
<1>1. q \in Nat /\ q * LineLen < m + LineLen /\ r \in Nat /\ n <= r * LineLen
  BY LineCountBounds
<1> HIDE DEF q, r
<1>2. ~(r < q)
  BY <1>1, NextLineStart, LineLenPositive
<1>3. q <= r
  BY <1>1, <1>2
<1> QED
  BY <1>3 DEF q, r

-----------------------------------------------------------------------------

LEMMA InitInv == Init => IInv
<1> SUFFICES ASSUME Init PROVE IInv
  OBVIOUS
<1>1. child \in BOOLEAN
  <2>1. child = FALSE \/ child = HasChildren
    BY DEF Init
  <2>2. HasChildren \in BOOLEAN
    BY RunnerAssumption
  <2> QED
    BY <2>1, <2>2
<1>2. filtered \in BOOLEAN /\ cancelled \in BOOLEAN /\ readEnd \in BOOLEAN /\ killed \in BOOLEAN
  BY Zenon DEF Init
<1>3. written \in Nat /\ taken \in 0 .. written /\ handed \in 0 .. taken
  BY DEF Init
<1>4. TypeOK
  BY <1>1, <1>2, <1>3 DEF Init, TypeOK
<1>5. CleanEndIsComplete /\ Reaped /\ Received /\ ArmedOnce /\ KilledByTimer
  BY DEF Init, CleanEndIsComplete, Reaped, Received, ArmedOnce, KilledByTimer
<1>6. WholeButLast
  BY RunnerAssumption DEF Init, WholeButLast
<1> QED
  BY <1>4, <1>5, <1>6 DEF IInv

\* The node writes only while it runs, and so never after a clean end.
LEMMA EnvironmentInv == IInv /\ (Write \/ Exit \/ ChildExits \/ Cancel) => IInv'
<1> SUFFICES ASSUME IInv, Write \/ Exit \/ ChildExits \/ Cancel PROVE IInv'
  OBVIOUS
<1> USE DEF IInv, proc_vars, output_vars, Reaped, Received, ArmedOnce, KilledByTimer, WholeButLast
<1>1. CASE Write
  BY <1>1 DEF Write, TypeOK, CleanEndIsComplete
<1>2. CASE Exit
  BY <1>2 DEF Exit, TypeOK, CleanEndIsComplete
<1>3. CASE ChildExits
  BY <1>3 DEF ChildExits, TypeOK, CleanEndIsComplete
<1>4. CASE Cancel
  BY <1>4 DEF Cancel, TypeOK, CleanEndIsComplete
<1> QED
  BY <1>1, <1>2, <1>3, <1>4

LEMMA MainInv == IInv /\ Main => IInv'
<1> SUFFICES ASSUME IInv, Main PROVE IInv'
  OBVIOUS
<1> USE DEF IInv, proc_vars, output_vars, Reaped, Received, ArmedOnce, KilledByTimer, WholeButLast
<1>1. CASE WaitReturns
  BY <1>1 DEF WaitReturns, TypeOK, CleanEndIsComplete
<1>2. CASE StartReturns
  BY <1>2 DEF StartReturns, TypeOK, CleanEndIsComplete
<1> QED
  BY <1>1, <1>2 DEF Main

\* Lines are handed on out of what was read, and what was read was written.
LEMMA LineReaderInv == IInv /\ LineReader => IInv'
<1> SUFFICES ASSUME IInv, LineReader PROVE IInv'
  OBVIOUS
<1> USE DEF IInv, proc_vars, output_vars, Reaped, Received, ArmedOnce, KilledByTimer, WholeButLast
<1>0. written \in Nat /\ taken \in Nat /\ handed \in Nat /\ taken <= written /\ handed <= taken
  BY DEF TypeOK
<1>1. CASE HandLine
  <2>1. PICK n \in handed + 1 .. taken : handed' = n /\ n % LineLen = 0
    BY <1>1 DEF HandLine, LineEnds
  <2>2. handed' \in 0 .. taken /\ handed' % LineLen = 0
    BY <1>0, <2>1
  <2> QED
    BY <1>1, <2>2 DEF HandLine, TypeOK, CleanEndIsComplete
<1>2. CASE Fill
  <2>1. PICK n \in taken + 1 .. taken + BufferCap : n <= written /\ taken' = n
    BY <1>2 DEF Fill
  <2>2. taken' \in 0 .. written /\ handed \in 0 .. taken'
    BY <1>0, <2>1, RunnerAssumption
  <2> QED
    BY <1>2, <2>2 DEF Fill, TypeOK, CleanEndIsComplete
<1>3. CASE EndOfFile
  BY <1>0, <1>3 DEF EndOfFile, AtEnd, TypeOK, CleanEndIsComplete
<1>4. CASE ReadError
  BY <1>4 DEF ReadError, TypeOK, CleanEndIsComplete
<1>5. CASE HandRest
  BY <1>0, <1>5 DEF HandRest, AtEnd, TypeOK, CleanEndIsComplete
<1> QED
  BY <1>1, <1>2, <1>3, <1>4, <1>5 DEF LineReader

LEMMA CancellerInv == IInv /\ (Canceller \/ TimerFires) => IInv'
<1> SUFFICES ASSUME IInv, Canceller \/ TimerFires PROVE IInv'
  OBVIOUS
<1> USE DEF IInv, proc_vars, output_vars, Reaped, Received, ArmedOnce, KilledByTimer, WholeButLast
<1>1. CASE SignalInt
  BY <1>1 DEF SignalInt, TypeOK, CleanEndIsComplete
<1>2. CASE ArmTimer
  BY <1>2 DEF ArmTimer, TypeOK, CleanEndIsComplete
<1>3. CASE TimerFires
  BY <1>3 DEF TimerFires, TypeOK, CleanEndIsComplete
<1> QED
  BY <1>1, <1>2, <1>3 DEF Canceller

LEMMA StutterInv == IInv /\ UNCHANGED vars => IInv'
BY DEF IInv, vars, TypeOK, CleanEndIsComplete, Reaped, Received, ArmedOnce, KilledByTimer, WholeButLast

\* IInv holds throughout.
THEOREM Invariance == Spec => []IInv
<1>1. IInv /\ [Next]_vars => IInv'
  BY EnvironmentInv, MainInv, LineReaderInv, CancellerInv, StutterInv DEF Next
<1> QED
  BY <1>1, InitInv, PTL DEF Spec

-----------------------------------------------------------------------------

\* The variables keep their types, and handed <= taken <= written.
THEOREM TypeCorrect == Spec => []TypeOK
<1>1. IInv => TypeOK
  BY DEF IInv
<1> QED
  BY <1>1, Invariance, PTL

\* A line reader that ends without an error has handed on all that the node
\* ever wrote.
THEOREM CleanEnd == Spec => []CleanEndIsComplete
<1>1. IInv => CleanEndIsComplete
  BY DEF IInv
<1> QED
  BY <1>1, Invariance, PTL

\* After Start has returned nothing touches the consumer, the line reader or
\* the process: neither a late line nor a late timer.
THEOREM NothingAfterReturn == Spec => ReturnIsFinal
<1> DEFINE Quiet == UNCHANGED <<handed, reader, proc, killed>>
<1>1. ASSUME IInv, [Next]_vars, main = "returned" PROVE Quiet
  <2> USE DEF proc_vars, output_vars
  <2>1. proc = "reaped" /\ reader = "done"
    BY <1>1 DEF IInv, Reaped, Received
  <2>2. CASE Write \/ Exit \/ ChildExits \/ Cancel
    BY <2>1, <2>2 DEF Write, Exit, ChildExits, Cancel
  <2>3. CASE Main
    BY <1>1, <2>3 DEF Main, WaitReturns, StartReturns
  <2>4. CASE LineReader
    BY <2>1, <2>4 DEF LineReader, HandLine, Fill, HandRest, EndOfFile, ReadError
  <2>5. CASE Canceller
    BY <2>5 DEF Canceller, SignalInt, ArmTimer
  <2>6. CASE TimerFires
    <3>1. killed = FALSE
      BY <1>1, <2>6 DEF TimerFires, IInv, KilledByTimer, TypeOK
    <3> QED
      BY <2>1, <2>6, <3>1 DEF TimerFires
  <2>7. CASE UNCHANGED vars
    BY <2>7 DEF vars
  <2> QED
    BY <1>1, <2>2, <2>3, <2>4, <2>5, <2>6, <2>7 DEF Next
<1>2. IInv /\ [Next]_vars => [main = "returned" => Quiet]_vars
  BY <1>1
<1> QED
  BY <1>2, Invariance, PTL DEF Spec, ReturnIsFinal

-----------------------------------------------------------------------------
(* The refinement of LineStream.                                           *)

\* What n units give is a sequence of as many lines as they count.
LEMMA LinesInType ==
    ASSUME NEW n \in Nat
    PROVE  /\ LinesIn(n) \in Seq([from : Int, to : Int])
           /\ Len(LinesIn(n)) = LineCount(n)
           /\ \A k \in 1 .. LineCount(n) :
                LinesIn(n)[k] = [from |-> (k - 1) * LineLen,
                                 to |-> IF k * LineLen <= n THEN k * LineLen ELSE n]
<1> DEFINE line(k) == [from |-> (k - 1) * LineLen,
                       to |-> IF k * LineLen <= n THEN k * LineLen ELSE n]
<1>1. LineCount(n) \in Nat
  BY LineCountBounds
<1>2. \A k \in 1 .. LineCount(n) : line(k) \in [from : Int, to : Int]
  <2> TAKE k \in 1 .. LineCount(n)
  <2>1. k \in Int /\ k - 1 \in Int /\ LineLen \in Int /\ n \in Int
    BY <1>1, LineLenPositive
  <2>2. k * LineLen \in Int /\ (k - 1) * LineLen \in Int
    BY <2>1
  <2> QED
    BY <2>1, <2>2
<1>3. LinesIn(n) = [k \in 1 .. LineCount(n) |-> line(k)]
  BY DEF LinesIn
<1> HIDE DEF line
<1>4. LinesIn(n) \in [1 .. LineCount(n) -> [from : Int, to : Int]]
  BY <1>2, <1>3
<1>5. LinesIn(n) \in Seq([from : Int, to : Int])
  <2> DEFINE T == [from : Int, to : Int]
  <2>1. LinesIn(n) \in [1 .. LineCount(n) -> T]
    BY <1>4
  <2> HIDE DEF T
  <2>2. LinesIn(n) \in Seq(T)
    BY <1>1, <2>1, SeqDef
  <2> QED
    BY <2>2 DEF T
<1>6. Len(LinesIn(n)) = LineCount(n)
  BY <1>1, <1>4, <1>5, LenProperties
<1>7. \A k \in 1 .. LineCount(n) : LinesIn(n)[k] = line(k)
  BY <1>3
<1> QED
  BY <1>5, <1>6, <1>7 DEF line

\* Behind q whole lines, up to one line's units more are one line more.
LEMMA OneLineMore ==
    ASSUME NEW q \in Nat, NEW m \in Nat, m = q * LineLen,
           NEW n \in Nat, m < n, n <= m + LineLen
    PROVE  /\ LineCount(m) = q /\ LineCount(n) = q + 1
           /\ LinesIn(n) = Append(LinesIn(m), [from |-> m, to |-> n])
<1> DEFINE e == (q + 1) * LineLen
           last == [from |-> m, to |-> n]
           a == Append(LinesIn(m), last)
<1>1. e = m + LineLen /\ e \in Nat /\ LineLen \in Nat \ {0}
  BY LineLenPositive
<1>2. LineCount(m) = q
  BY LineCountAtEnd
<1>3. LineCount(n) = q + 1
  <2>1. q + 1 \in Nat /\ n <= e /\ e < n + LineLen
    BY <1>1
  <2> QED
    BY <2>1, LineCountUnique
<1>4. /\ LinesIn(n) \in Seq([from : Int, to : Int]) /\ Len(LinesIn(n)) = q + 1
      /\ \A k \in 1 .. q + 1 :
           LinesIn(n)[k] = [from |-> (k - 1) * LineLen,
                            to |-> IF k * LineLen <= n THEN k * LineLen ELSE n]
  BY <1>3, LinesInType
<1>5. /\ LinesIn(m) \in Seq([from : Int, to : Int]) /\ Len(LinesIn(m)) = q
      /\ \A k \in 1 .. q :
           LinesIn(m)[k] = [from |-> (k - 1) * LineLen,
                            to |-> IF k * LineLen <= m THEN k * LineLen ELSE m]
  BY <1>2, LinesInType
<1>6. last \in [from : Int, to : Int]
  OBVIOUS
<1>7. LinesIn(n)[q + 1] = last
  <2>1. q + 1 \in 1 .. q + 1 /\ (q + 1) - 1 = q
    OBVIOUS
  <2>2. LinesIn(n)[q + 1] = [from |-> q * LineLen, to |-> IF e <= n THEN e ELSE n]
    BY <1>4, <2>1
  <2>3. (IF e <= n THEN e ELSE n) = n
    BY <1>1
  <2> QED
    BY <2>2, <2>3
<1>8. \A k \in 1 .. q : LinesIn(n)[k] = LinesIn(m)[k]
  <2> TAKE k \in 1 .. q
  <2>1. k \in Int /\ k * LineLen \in Int
    BY <1>1
  <2>2. k * LineLen <= m
    <3>1. CASE k = q
      BY <3>1
    <3>2. CASE k < q
      BY <1>1, <2>1, <3>2, NextLineStart
    <3> QED
      BY <3>1, <3>2
  <2>3. k * LineLen <= n /\ k \in 1 .. q + 1
    BY <2>1, <2>2
  <2> QED
    BY <1>4, <1>5, <2>2, <2>3
<1> HIDE DEF e, last
<1>9. /\ a \in Seq([from : Int, to : Int]) /\ Len(a) = q + 1 /\ a[q + 1] = last
      /\ \A k \in 1 .. q : a[k] = LinesIn(m)[k]
  <2> DEFINE T == [from : Int, to : Int]
             lines == LinesIn(m)
  <2>1. lines \in Seq(T) /\ Len(lines) = q /\ last \in T
    BY <1>5, <1>6
  <2> HIDE DEF T, lines
  <2>2. /\ Append(lines, last) \in Seq(T) /\ Len(Append(lines, last)) = q + 1
        /\ Append(lines, last)[q + 1] = last
        /\ \A k \in 1 .. q : Append(lines, last)[k] = lines[k]
    BY <2>1, AppendProperties
  <2> QED
    BY <2>2 DEF T, lines
<1>10. LinesIn(n) = a
  <2> HIDE DEF a
  <2>1. ASSUME NEW k \in 1 .. Len(a) PROVE LinesIn(n)[k] = a[k]
    <3>1. k \in 1 .. q \/ k = q + 1
      BY <1>9
    <3> QED
      BY <1>7, <1>8, <1>9, <3>1
  <2> QED
    BY <1>4, <1>9, <2>1, SeqEqual
<1> QED
  BY <1>2, <1>3, <1>10 DEF last

\* The whole lines among w units.
LEMMA WholeLinesIn ==
    ASSUME NEW w \in Nat
    PROVE  \E p \in Nat : /\ w - (w % LineLen) = p * LineLen
                          /\ p * LineLen \in Nat
                          /\ p * LineLen <= w /\ w < p * LineLen + LineLen
<1> DEFINE d == w \div LineLen
           r == w % LineLen
<1>1. d \in Nat /\ w = d * LineLen + r /\ r \in 0 .. LineLen - 1
  BY LineLenPositive
<1> HIDE DEF d, r
<1>2. d * LineLen \in Int
  BY <1>1, LineLenPositive
<1>3. d * LineLen \in Nat
  BY <1>1, <1>2, LineLenPositive
<1>4. w - r = d * LineLen /\ d * LineLen <= w /\ w < d * LineLen + LineLen
  BY <1>1, <1>2, LineLenPositive
<1> QED
  BY <1>1, <1>3, <1>4 DEF r

\* Every whole line is finished.
LEMMA FinishedLines ==
    ASSUME TypeOK
    PROVE  /\ Finished \in Nat /\ Finished <= written
           /\ \A q \in Nat : q * LineLen <= written => q * LineLen <= Finished
<1>1. written \in Nat
  BY DEF TypeOK
<1>2. CASE proc = "running"
  <2>1. PICK p \in Nat : /\ written - (written % LineLen) = p * LineLen
                         /\ p * LineLen \in Nat
                         /\ p * LineLen <= written /\ written < p * LineLen + LineLen
    BY <1>1, WholeLinesIn
  <2>2. Finished = p * LineLen
    BY <1>2, <2>1 DEF Finished
  <2>3. ASSUME NEW q \in Nat, q * LineLen <= written PROVE q * LineLen <= p * LineLen
    <3>1. q * LineLen \in Int /\ p * LineLen \in Int
      BY LineLenPositive
    <3>2. ~(p < q)
      BY <1>1, <2>1, <2>3, <3>1, NextLineStart, LineLenPositive
    <3>3. q = p \/ q < p
      BY <3>2
    <3>4. CASE q < p
      BY <3>1, <3>4, NextLineStart, LineLenPositive
    <3> QED
      BY <3>1, <3>3, <3>4
  <2> QED
    BY <2>1, <2>2, <2>3
<1>3. CASE proc # "running"
  <2>1. Finished = written
    BY <1>3 DEF Finished
  <2> QED
    BY <1>1, <2>1
<1> QED
  BY <1>2, <1>3

\* A step of the line reader hands on nothing or the next finished line, whole
\* unless it is the last one of a node that is gone.
LEMMA HandsOnOneLine ==
    ASSUME IInv, LineReader
    PROVE  \/ handed' = handed
           \/ /\ handed < handed' /\ handed' <= Finished
              /\ \E q \in Nat : handed = q * LineLen
              /\ \/ handed' = handed + LineLen
                 \/ handed' = Finished /\ handed' < handed + LineLen
<1>1. written \in Nat /\ taken \in 0 .. written /\ handed \in 0 .. taken /\ handed \in Nat
  BY DEF IInv, TypeOK
<1>2. Finished \in Nat /\ \A q \in Nat : q * LineLen <= written => q * LineLen <= Finished
  BY FinishedLines DEF IInv
<1>3. CASE HandLine
  <2>1. PICK n \in LineEnds : handed' = n /\ \A m \in LineEnds : n <= m
    BY <1>3 DEF HandLine
  <2>2. n \in handed + 1 .. taken /\ n \in Nat /\ n % LineLen = 0
    BY <1>1, <2>1 DEF LineEnds
  <2>3. handed % LineLen = 0
    BY <1>1, <2>2 DEF IInv, WholeButLast
  <2>4. PICK q \in Nat : handed = q * LineLen
    BY <1>1, <2>3, LineEnd
  <2>5. PICK r \in Nat : n = r * LineLen
    BY <2>2, LineEnd
  <2> DEFINE e == (q + 1) * LineLen
  <2>6. e = handed + LineLen /\ e \in Nat
    BY <1>1, <2>4, LineLenPositive
  <2>7. e <= n
    <3>1. q < r
      <4>1. ~(r <= q)
        BY <1>1, <2>2, <2>4, <2>5, NextLineStart, LineLenPositive
      <4> QED
        BY <4>1
    <3> QED
      BY <3>1, <2>4, <2>5, <2>6, NextLineStart
  <2>8. e % LineLen = 0
    <3>1. q + 1 \in Nat
      OBVIOUS
    <3> QED
      BY <3>1, <2>6, LineEnd
  <2> HIDE DEF e
  <2>9. e \in LineEnds
    BY <1>1, <2>2, <2>6, <2>7, <2>8, LineLenPositive DEF LineEnds
  <2>10. n = e
    BY <2>1, <2>2, <2>6, <2>7, <2>9
  <2>11. n <= Finished
    <3>1. n <= written
      BY <1>1, <2>2
    <3> QED
      BY <1>2, <2>5, <3>1
  <2> QED
    BY <1>1, <2>1, <2>2, <2>4, <2>6, <2>10, <2>11
<1>4. CASE HandRest
  <2>1. handed < taken /\ handed' = taken /\ taken = written /\ proc # "running"
    BY <1>4 DEF HandRest, AtEnd
  <2>9. LineEnds = {}
    BY <1>4 DEF HandRest
  <2>2. handed % LineLen = 0
    BY <1>1, <2>1 DEF IInv, WholeButLast
  <2>3. PICK q \in Nat : handed = q * LineLen
    BY <1>1, <2>2, LineEnd
  <2> DEFINE e == (q + 1) * LineLen
  <2>4. q + 1 \in Nat /\ e = handed + LineLen /\ e \in Nat
    BY <1>1, <2>3, LineLenPositive
  <2>5. e % LineLen = 0
    BY <2>4, LineEnd
  <2>6. ~(e <= taken)
    <3> HIDE DEF e
    <3> QED
      BY <1>1, <2>4, <2>5, <2>9, LineLenPositive DEF LineEnds
  <2>7. Finished = taken
    BY <2>1 DEF Finished
  <2>8. taken < handed + LineLen /\ taken <= Finished
    BY <1>1, <2>4, <2>6, <2>7, LineLenPositive
  <2> QED
    BY <2>1, <2>3, <2>7, <2>8
<1>5. CASE Fill \/ EndOfFile \/ ReadError
  BY <1>5 DEF Fill, EndOfFile, ReadError, output_vars
<1> QED
  BY <1>3, <1>4, <1>5 DEF LineReader

LEMMA CountsOneLine ==
    ASSUME IInv, LineReader
    PROVE  handed' = handed \/ LineCount(handed') = LineCount(handed) + 1
<1>1. handed \in Nat /\ handed' \in Nat /\ Finished \in Nat
  BY LineReaderInv, FinishedLines DEF IInv, TypeOK
<1>2. CASE /\ handed < handed'
           /\ \E q \in Nat : handed = q * LineLen
           /\ handed' = handed + LineLen \/ handed' < handed + LineLen
  <2>1. PICK q \in Nat : handed = q * LineLen
    BY <1>2
  <2>2. handed' <= handed + LineLen
    BY <1>1, <1>2, LineLenPositive
  <2> QED
    BY <1>1, <1>2, <2>1, <2>2, OneLineMore
<1> QED
  BY <1>2, HandsOnOneLine

\* Handing a finished line on is the stream's Deliver.
LEMMA Delivers ==
    ASSUME IInv, LineReader
    PROVE  [Stream!Next]_<<LinesIn(Finished), LinesIn(handed)>>
<1>1. written' = written /\ proc' = proc
  BY DEF LineReader, HandLine, Fill, HandRest, EndOfFile, ReadError, proc_vars
<1>2. Finished' = Finished
  BY <1>1 DEF Finished
<1>3. handed \in Nat /\ handed' \in Nat /\ Finished \in Nat
  BY LineReaderInv, FinishedLines DEF IInv, TypeOK
<1>4. CASE handed' = handed
  BY <1>2, <1>4
<1>5. CASE /\ handed < handed' /\ handed' <= Finished
           /\ \E q \in Nat : handed = q * LineLen
           /\ \/ handed' = handed + LineLen
              \/ handed' = Finished /\ handed' < handed + LineLen
  <2> DEFINE line == [from |-> handed, to |-> handed']
             L == LinesIn(Finished)
  <2>1. PICK q \in Nat : handed = q * LineLen
    BY <1>5
  <2>2. handed' <= handed + LineLen
    BY <1>3, <1>5, LineLenPositive
  <2>3. /\ LineCount(handed) = q /\ LineCount(handed') = q + 1
        /\ LinesIn(handed') = Append(LinesIn(handed), line)
    BY <1>3, <1>5, <2>1, <2>2, OneLineMore
  <2>4. q + 1 <= LineCount(Finished) /\ LineCount(Finished) \in Nat
    <3>1. LineCount(handed') <= LineCount(Finished)
      BY <1>3, <1>5, LineCountGrows
    <3> QED
      BY <1>3, <2>3, <3>1, LineCountType
  <2>5. Len(LinesIn(handed)) = q /\ Len(L) = LineCount(Finished)
    BY <1>3, <2>3, LinesInType
  <2>6. L[q + 1] = line
    <3> DEFINE e == (q + 1) * LineLen
    <3>1. q + 1 \in 1 .. LineCount(Finished) /\ (q + 1) - 1 = q
      BY <2>4
    <3>2. L[q + 1] = [from |-> q * LineLen, to |-> IF e <= Finished THEN e ELSE Finished]
      BY <1>3, <3>1, LinesInType
    <3>3. e = handed + LineLen
      BY <1>3, <2>1, LineLenPositive
    <3>4. (IF e <= Finished THEN e ELSE Finished) = handed'
      <4> HIDE DEF e
      <4> QED
        BY <1>3, <1>5, <3>3, LineLenPositive
    <3> QED
      BY <2>1, <3>2, <3>4
  <2> HIDE DEF line, L
  <2>7. Len(LinesIn(handed)) < Len(L) /\ L' = L
    BY <1>2, <2>4, <2>5 DEF L
  <2>8. LinesIn(handed)' = Append(LinesIn(handed), L[Len(LinesIn(handed)) + 1])
    BY <2>3, <2>5, <2>6
  <2>9. Stream!Deliver
    BY <2>7, <2>8 DEF Stream!Deliver, L
  <2> QED
    BY <2>9 DEF Stream!Next
<1> QED
  BY <1>4, <1>5, HandsOnOneLine

\* Finishing a line is the stream's Write.
LEMMA Finishes ==
    ASSUME handed' = handed, Finished' \in Nat, Finished' <= MaxWritten,
           NEW p \in Nat, Finished = p * LineLen, Finished \in Nat,
           Finished <= Finished', Finished' <= Finished + LineLen
    PROVE  [Stream!Next]_<<LinesIn(Finished), LinesIn(handed)>>
<1>1. CASE Finished' = Finished
  BY <1>1
<1>2. CASE Finished < Finished'
  <2> DEFINE line == [from |-> Finished, to |-> Finished']
  <2>1. LinesIn(Finished') = Append(LinesIn(Finished), line)
    BY <1>2, OneLineMore
  <2>2. line \in [from : 0 .. MaxWritten, to : 1 .. MaxWritten]
    BY <1>2, RunnerAssumption
  <2>3. Stream!Write
    BY <2>1, <2>2 DEF Stream!Write
  <2> QED
    BY <2>3 DEF Stream!Next
<1> QED
  BY <1>1, <1>2

\* The node never writes more than the bound.
WithinBound == written <= MaxWritten

LEMMA WithinBoundStep == IInv /\ WithinBound /\ [Next]_vars => WithinBound'
<1> SUFFICES ASSUME IInv, WithinBound, [Next]_vars PROVE WithinBound'
  OBVIOUS
<1> USE DEF WithinBound, proc_vars
<1>1. CASE Write
  BY <1>1, RunnerAssumption DEF Write, IInv, TypeOK
<1>2. CASE Exit \/ ChildExits \/ Cancel \/ Main \/ Canceller \/ TimerFires \/ UNCHANGED vars
  BY <1>2 DEF Exit, ChildExits, Cancel, Main, WaitReturns, StartReturns, Canceller, SignalInt,
              ArmTimer, TimerFires, vars
<1>3. CASE LineReader
  BY <1>3 DEF LineReader, HandLine, Fill, HandRest, EndOfFile, ReadError
<1> QED
  BY <1>1, <1>2, <1>3 DEF Next

\* Steps of the runner are steps of the stream or leave it as it is: a line is
\* finished by the node's writes or by its end, and delivered by the line reader.
LEMMA StreamStep ==
    IInv /\ WithinBound /\ [Next]_vars =>
        [Stream!Next]_<<LinesIn(Finished), LinesIn(handed)>>
<1> SUFFICES ASSUME IInv, WithinBound, [Next]_vars
             PROVE  [Stream!Next]_<<LinesIn(Finished), LinesIn(handed)>>
  OBVIOUS
<1>1. written \in Nat /\ MaxWritten \in Nat /\ written <= MaxWritten
  BY RunnerAssumption DEF IInv, TypeOK, WithinBound
<1>2. ASSUME Finished' = Finished, handed' = handed
      PROVE  [Stream!Next]_<<LinesIn(Finished), LinesIn(handed)>>
  BY <1>2
<1>3. PICK p \in Nat : /\ written - (written % LineLen) = p * LineLen
                       /\ p * LineLen \in Nat
                       /\ p * LineLen <= written /\ written < p * LineLen + LineLen
  BY <1>1, WholeLinesIn
<1>4. CASE Write
  <2>1. /\ proc = "running" /\ proc' = proc /\ handed' = handed
        /\ written' = written + 1 /\ written' <= MaxWritten /\ written' \in Nat
    BY <1>1, <1>4 DEF Write, output_vars
  <2>2. PICK r \in Nat : /\ written' - (written' % LineLen) = r * LineLen
                         /\ r * LineLen \in Nat
                         /\ r * LineLen <= written' /\ written' < r * LineLen + LineLen
    BY <2>1, WholeLinesIn
  <2>3. Finished = p * LineLen /\ Finished' = r * LineLen
    BY <1>3, <2>1, <2>2 DEF Finished
  <2>4. ~(r < p)
    BY <1>1, <1>3, <2>1, <2>2, NextLineStart, LineLenPositive
  <2>5. ~(p + 1 < r)
    <3>1. (p + 1) * LineLen = p * LineLen + LineLen /\ p + 1 \in Int
      BY <1>3, LineLenPositive
    <3>2. p + 1 < r => (p + 1) * LineLen + LineLen <= r * LineLen
      BY <3>1, NextLineStart
    <3> QED
      BY <1>1, <1>3, <2>1, <2>2, <3>1, <3>2, LineLenPositive
  <2>6. r = p \/ r = p + 1
    BY <2>4, <2>5
  <2>7. r * LineLen = p * LineLen \/ r * LineLen = p * LineLen + LineLen
    BY <1>3, <2>6, LineLenPositive
  <2> QED
    BY <1>1, <1>3, <2>1, <2>2, <2>3, <2>7, Finishes, LineLenPositive
<1>5. CASE Exit \/ TimerFires
  <2>1. written' = written /\ handed' = handed
    BY <1>5 DEF Exit, TimerFires, output_vars
  <2>2. CASE proc = "running"
    <3>1. proc' # "running"
      BY <1>5, <2>2 DEF Exit, TimerFires
    <3>2. Finished = p * LineLen /\ Finished' = written
      BY <1>3, <2>1, <2>2, <3>1 DEF Finished
    <3> QED
      BY <1>1, <1>3, <2>1, <3>2, Finishes, LineLenPositive
  <2>3. CASE proc # "running"
    <3>1. proc' = proc
      BY <1>5, <2>3 DEF Exit, TimerFires
    <3>2. Finished' = Finished
      BY <2>1, <3>1 DEF Finished
    <3> QED
      BY <1>2, <2>1, <3>2
  <2> QED
    BY <2>2, <2>3
<1>6. CASE LineReader
  BY <1>6, Delivers
<1>7. CASE ChildExits \/ Cancel \/ Main \/ Canceller \/ UNCHANGED vars
  <2>1. UNCHANGED <<written, handed>>
    BY <1>7 DEF ChildExits, Cancel, Main, WaitReturns, StartReturns, Canceller, SignalInt,
                ArmTimer, vars, proc_vars, output_vars
  <2>2. (proc' = "running") <=> (proc = "running")
    BY <1>7 DEF ChildExits, Cancel, Main, WaitReturns, StartReturns, Canceller, SignalInt,
                ArmTimer, vars, proc_vars
  <2>3. Finished' = Finished
    BY <2>1, <2>2 DEF Finished
  <2> QED
    BY <1>2, <2>1, <2>3
<1> QED
  BY <1>4, <1>5, <1>6, <1>7 DEF Next

\* The runner is a stream of lines: whatever the pipe and the buffer cut, and
\* whoever ends first, lines are handed on whole, one by one and in order; only
\* the line in which the node ends may be a part of one.
THEOREM ImplementsLineStream == Spec => StreamInOrder
<1>1. Init => Stream!Init /\ WithinBound
  <2> SUFFICES ASSUME Init PROVE Stream!Init /\ WithinBound
    OBVIOUS
  <2>1. LineCount(0) = 0
    BY LineCountUnique, LineLenPositive
  <2>2. LinesIn(0) = <<>>
    <3>1. LinesIn(0) \in Seq([from : Int, to : Int]) /\ Len(LinesIn(0)) = 0
      BY <2>1, LinesInType
    <3> QED
      BY <3>1, EmptySeq
  <2>3. written = 0 /\ handed = 0 /\ Finished = 0
    <3>1. written = 0 /\ handed = 0
      BY DEF Init
    <3>2. PICK p \in Nat : /\ 0 - (0 % LineLen) = p * LineLen
                           /\ p * LineLen \in Nat
                           /\ p * LineLen <= 0 /\ 0 < p * LineLen + LineLen
      BY WholeLinesIn
    <3>3. 0 - (0 % LineLen) = 0
      BY <3>2
    <3> QED
      BY <3>1, <3>3 DEF Finished
  <2> QED
    BY <2>2, <2>3, RunnerAssumption DEF Stream!Init, WithinBound
<1> QED
  BY <1>1, StreamStep, WithinBoundStep, Invariance, PTL DEF Spec, StreamInOrder, Stream!Spec

-----------------------------------------------------------------------------
(* What it takes to lose output.                                           *)

\* With the reader's result received, all that was written was handed on.
NothingLeft == reader = "done" => handed = written /\ proc # "running"

LEMMA NothingLeftStep ==
    ASSUME IInv, NothingLeft, reader # "aborted", [Next]_vars
    PROVE  NothingLeft'
<1> USE DEF NothingLeft, proc_vars, output_vars
<1>1. CASE Write \/ Exit \/ ChildExits \/ Cancel
  BY <1>1 DEF Write, Exit, ChildExits, Cancel
<1>2. CASE WaitReturns
  BY <1>2 DEF WaitReturns
<1>3. CASE StartReturns
  <2>1. reader = "eof" /\ UNCHANGED <<handed, written, proc>>
    BY <1>3 DEF StartReturns
  <2> QED
    BY <2>1 DEF IInv, CleanEndIsComplete
<1>4. CASE LineReader
  BY <1>4 DEF LineReader, HandLine, Fill, HandRest, EndOfFile, ReadError
<1>5. CASE Canceller \/ TimerFires
  BY <1>5 DEF Canceller, SignalInt, ArmTimer, TimerFires
<1>6. CASE UNCHANGED vars
  BY <1>6 DEF vars
<1> QED
  BY <1>1, <1>2, <1>3, <1>4, <1>5, <1>6 DEF Next, Main

\* OutputNotLost fails because Wait closes the pipe under the line reader, and
\* for no other reason: if no read of the closed end fails, all that the node
\* wrote was handed on when Start returns, in every order of the node's exit, the
\* end of its children, Wait, the last reads and the timer.
THEOREM LostOnlyByClosing == Spec /\ [](reader # "aborted") => []OutputNotLost
<1>1. Init => NothingLeft
  BY DEF Init, NothingLeft
<1>2. IInv /\ NothingLeft /\ reader # "aborted" /\ [Next]_vars => NothingLeft'
  BY NothingLeftStep
<1>3. IInv /\ NothingLeft => OutputNotLost
  BY DEF IInv, Received, NothingLeft, OutputNotLost
<1> QED
  BY <1>1, <1>2, <1>3, Invariance, PTL DEF Spec

=============================================================================
