--------------------------- MODULE ReaderApp_proofs --------------------------
(***************************************************************************)
(* Theorems about the shutdown of the reader app in its three modes, for   *)
(* every capacity, line length and order of the goroutines.                *)
(***************************************************************************)
EXTENDS ReaderApp, NodeRunner_proofs, TLAPS

\* The inductive invariant goes back from the end of the program along what has
\* to precede it: the plugin terminated, Stop returned, the source returned, its
\* line reader done, the node reaped.
SendsWhileReading == sending => reader = "reading"

RunnerReturned ==
    /\ main \in {"draining", "returned"} => proc = "reaped"
    /\ main = "returned" => reader = "done"

ClosedAfterSource == Closed => reader # "reading" /\ (mode = "node" => main = "returned")

ShutdownAfterStop == plugin # "running" /\ ~GaveUp => source = "ended"

ExitsAfterPlugin == start = "exited" => plugin = "terminated"

AppIInv ==
    /\ SendsWhileReading /\ RunnerReturned /\ ClosedAfterSource
    /\ ShutdownAfterStop /\ ExitsAfterPlugin

-----------------------------------------------------------------------------

LEMMA AppInitInv == AppInit => AppIInv
BY Zenon DEF AppInit, Init, AppIInv, SendsWhileReading, RunnerReturned, ClosedAfterSource,
             ShutdownAfterStop, ExitsAfterPlugin, Closed, GaveUp

\* What an app action must leave alone for the conjuncts about the source.
LEMMA SourceKept ==
    AppIInv /\ UNCHANGED <<main, proc, reader, sending, source, mode>>
      => SendsWhileReading' /\ RunnerReturned' /\ ClosedAfterSource'
BY DEF AppIInv, SendsWhileReading, RunnerReturned, ClosedAfterSource, Closed

\* And for those about the plugin and the start command.
LEMMA PluginKept ==
    AppIInv /\ UNCHANGED <<readLoop, plugin, source, start>>
      => ShutdownAfterStop' /\ ExitsAfterPlugin'
BY DEF AppIInv, ShutdownAfterStop, ExitsAfterPlugin, GaveUp

\* Writers come and go; the node does not come back once it was reaped.
LEMMA OutsideInv == AppIInv /\ (Outside \/ Signal) => AppIInv'
<1> SUFFICES ASSUME AppIInv, Outside \/ Signal PROVE AppIInv'
  OBVIOUS
<1>1. CASE Outside
  <2>1. UNCHANGED <<readLoop, plugin, source, start, mode, sending>>
    BY <1>1 DEF Outside, GrowthTurns, app, lines
  <2>2. UNCHANGED <<main, reader>> /\ (proc' = proc \/ proc = "running")
    BY <1>1 DEF Outside, GrowthTurns, Write, Exit, ChildExits, LogWrite, vars
  <2>3. SendsWhileReading' /\ RunnerReturned' /\ ClosedAfterSource'
    BY <2>1, <2>2 DEF AppIInv, SendsWhileReading, RunnerReturned, ClosedAfterSource, Closed
  <2> QED
    BY <2>1, <2>3, PluginKept DEF AppIInv
<1>2. CASE Signal
  <2>1. UNCHANGED <<main, proc, reader, sending, source, mode, plugin, readLoop>>
        /\ start' = "closing"
    BY <1>2 DEF Signal, vars, proc_vars, output_vars, lines
  <2>2. ShutdownAfterStop' /\ ExitsAfterPlugin'
    BY <2>1 DEF AppIInv, ShutdownAfterStop, ExitsAfterPlugin, GaveUp
  <2> QED
    BY <2>1, <2>2, SourceKept DEF AppIInv
<1> QED
  BY <1>1, <1>2

\* A line is handed on by a reader that goes on reading, and the reader ends
\* only when its last line was sent.
LEMMA HandOnInv == AppIInv /\ (HandOn \/ NewReaderFails \/ Send) => AppIInv'
<1> SUFFICES ASSUME AppIInv, HandOn \/ NewReaderFails \/ Send PROVE AppIInv'
  OBVIOUS
<1>1. UNCHANGED <<readLoop, plugin, source, start, mode>>
  BY DEF HandOn, NewReaderFails, Send, app, lines
<1>2. UNCHANGED <<main, proc>>
  BY DEF HandOn, NewReaderFails, Send, LogsHand, LogsEnd, LineReader, HandLine, Fill, HandRest,
         EndOfFile, ReadError, vars, proc_vars
<1>3. ShutdownAfterStop' /\ ExitsAfterPlugin'
  BY <1>1, PluginKept
<1>4. CASE Send
  <2>1. reader' = reader /\ sending' = FALSE
    BY <1>4 DEF Send, vars
  <2> QED
    BY <1>1, <1>2, <1>3, <2>1
       DEF AppIInv, SendsWhileReading, RunnerReturned, ClosedAfterSource, Closed
<1>5. CASE NewReaderFails
  <2>1. reader = "reading" /\ reader' = "aborted" /\ sending' = sending /\ ~sending
    BY <1>5 DEF NewReaderFails, app
  <2> QED
    BY <1>1, <1>2, <1>3, <2>1
       DEF AppIInv, SendsWhileReading, RunnerReturned, ClosedAfterSource, Closed
<1>6. CASE HandOn
  <2>1. reader = "reading"
    BY <1>6 DEF HandOn, LogsHand, LogsEnd, LineReader, HandLine, Fill, HandRest, EndOfFile, ReadError
  <2>2. reader' = "reading" \/ (handed' = handed /\ reader' \in {"eof", "aborted"})
    BY <1>6, <2>1 DEF HandOn, LogsHand, LogsEnd, LineReader, HandLine, Fill, HandRest, EndOfFile,
                      ReadError, output_vars
  <2>3. sending' => handed' # handed
    BY <1>6 DEF HandOn
  <2> QED
    BY <1>1, <1>2, <1>3, <2>1, <2>2, <2>3
       DEF AppIInv, SendsWhileReading, RunnerReturned, ClosedAfterSource, Closed
<1> QED
  BY <1>4, <1>5, <1>6

\* The runner reaps the node, then waits for the line reader, then returns.
LEMMA RunnerInv == AppIInv /\ (RunnerMain \/ RunnerCanceller \/ RunnerTimer) => AppIInv'
<1> SUFFICES ASSUME AppIInv, RunnerMain \/ RunnerCanceller \/ RunnerTimer PROVE AppIInv'
  OBVIOUS
<1>1. UNCHANGED <<readLoop, plugin, source, start, mode, sending>> /\ mode = "node"
  BY DEF RunnerMain, RunnerCanceller, RunnerTimer, app, lines
<1>2. ShutdownAfterStop' /\ ExitsAfterPlugin'
  BY <1>1, PluginKept
<1>3. CASE RunnerMain
  <2>1. CASE WaitReturns
    <3>1. main = "waiting" /\ main' = "draining" /\ proc' = "reaped" /\ reader' = reader
      BY <2>1 DEF WaitReturns
    <3> QED
      BY <1>1, <1>2, <3>1 DEF AppIInv, SendsWhileReading, RunnerReturned, ClosedAfterSource, Closed
  <2>2. CASE StartReturns
    <3>1. /\ main = "draining" /\ main' = "returned" /\ proc' = proc
          /\ reader \in {"eof", "aborted"} /\ reader' = "done"
      BY <2>2 DEF StartReturns, proc_vars
    <3> QED
      BY <1>1, <1>2, <3>1 DEF AppIInv, SendsWhileReading, RunnerReturned, ClosedAfterSource, Closed
  <2> QED
    BY <1>3, <2>1, <2>2 DEF RunnerMain, Main
<1>4. CASE RunnerCanceller \/ RunnerTimer
  <2>1. UNCHANGED <<main, reader>> /\ (proc' = proc \/ proc = "running")
    BY <1>4 DEF RunnerCanceller, RunnerTimer, Canceller, SignalInt, ArmTimer, TimerFires,
                proc_vars, output_vars
  <2> QED
    BY <1>1, <1>2, <2>1 DEF AppIInv, SendsWhileReading, RunnerReturned, ClosedAfterSource, Closed
<1> QED
  BY <1>3, <1>4

\* Stop follows the end of the source, and Shutdown follows Stop.
LEMMA SourceInv == AppIInv /\ (SourceReturns \/ StopReturns) => AppIInv'
<1> SUFFICES ASSUME AppIInv, SourceReturns \/ StopReturns PROVE AppIInv'
  OBVIOUS
<1>1. UNCHANGED <<main, proc, reader, sending, mode, readLoop, start>>
  BY DEF SourceReturns, StopReturns, vars, proc_vars, output_vars, lines
<1>2. CASE SourceReturns
  <2>1. source = "running" /\ source' = "stopping" /\ plugin' = plugin
    BY <1>2 DEF SourceReturns
  <2>2. reader # "reading" /\ (mode = "node" => main = "returned")
    BY <1>2 DEF SourceReturns, SourceOver, AppIInv, RunnerReturned
  <2> QED
    BY <1>1, <2>1, <2>2 DEF AppIInv, SendsWhileReading, RunnerReturned, ClosedAfterSource,
                            ShutdownAfterStop, ExitsAfterPlugin, Closed, GaveUp
<1>3. CASE StopReturns
  <2>1. source = "stopping" /\ source' = "ended"
        /\ plugin' = IF plugin = "running" THEN "terminating" ELSE plugin
    BY <1>3 DEF StopReturns
  <2> QED
    BY <1>1, <2>1 DEF AppIInv, SendsWhileReading, RunnerReturned, ClosedAfterSource,
                      ShutdownAfterStop, ExitsAfterPlugin, Closed, GaveUp
<1> QED
  BY <1>2, <1>3

\* The plugin terminates by itself only when it gives up.
LEMMA PluginInv == AppIInv /\ (ReadLoop \/ GiveUp \/ PluginTerminated) => AppIInv'
<1> SUFFICES ASSUME AppIInv, ReadLoop \/ GiveUp \/ PluginTerminated PROVE AppIInv'
  OBVIOUS
<1>1. UNCHANGED <<main, proc, reader, sending, source, mode, start>>
  BY DEF ReadLoop, GiveUp, PluginTerminated, vars, proc_vars, output_vars
<1>2. SendsWhileReading' /\ RunnerReturned' /\ ClosedAfterSource'
  BY <1>1, SourceKept
<1>3. CASE ReadLoop
  <2>1. plugin' = plugin /\ (GaveUp => GaveUp')
    BY <1>3 DEF ReadLoop, GaveUp
  <2> QED
    BY <1>1, <1>2, <2>1 DEF AppIInv, ShutdownAfterStop, ExitsAfterPlugin
<1>4. CASE GiveUp
  <2>1. GaveUp' /\ (plugin = "terminated" => plugin' = "terminated")
    BY <1>4 DEF GiveUp, GaveUp
  <2> QED
    BY <1>1, <1>2, <2>1 DEF AppIInv, ShutdownAfterStop, ExitsAfterPlugin
<1>5. CASE PluginTerminated
  <2>1. plugin = "terminating" /\ plugin' = "terminated" /\ readLoop' = readLoop
    BY <1>5 DEF PluginTerminated, lines
  <2> QED
    BY <1>1, <1>2, <2>1 DEF AppIInv, ShutdownAfterStop, ExitsAfterPlugin, GaveUp
<1> QED
  BY <1>3, <1>4, <1>5

\* The callbacks touch neither; the program ends after the plugin has.
LEMMA RunInv == AppIInv /\ (Callback \/ StartCommand) => AppIInv'
<1> SUFFICES ASSUME AppIInv, Callback \/ StartCommand PROVE AppIInv'
  OBVIOUS
<1>1. UNCHANGED <<main, proc, reader, sending, source, mode, plugin, readLoop>>
  BY DEF Callback, AppShutdown, CancelSource, Cancel, StartCommand, SeesTerminating, Exits,
         vars, proc_vars, output_vars, app, lines
<1>2. start' = "exited" => plugin = "terminated" \/ start = "exited"
  BY DEF Callback, AppShutdown, CancelSource, StartCommand, SeesTerminating, Exits, Terminated, app
<1> QED
  BY <1>1, <1>2, SourceKept DEF AppIInv, ShutdownAfterStop, ExitsAfterPlugin, GaveUp

LEMMA AppIInvStep == AppIInv /\ [AppNext]_app_vars => AppIInv'
<1>1. AppIInv /\ UNCHANGED app_vars => AppIInv'
  BY SourceKept, PluginKept DEF app_vars, vars, app, lines, AppIInv
<1> QED
  BY <1>1, OutsideInv, HandOnInv, RunnerInv, SourceInv, PluginInv, RunInv DEF AppNext, Program

\* AppIInv holds throughout.
THEOREM AppInvariance == AppSpec => []AppIInv
BY AppInitInv, AppIInvStep, PTL DEF AppSpec

-----------------------------------------------------------------------------

\* In every mode the channel of lines is closed while nobody sends on it.
THEOREM ClosedInPeace == AppSpec => []NoSendOnClosed
<1>1. AppIInv => NoSendOnClosed
  BY DEF AppIInv, SendsWhileReading, ClosedAfterSource, NoSendOnClosed
<1> QED
  BY <1>1, AppInvariance, PTL

\* Unless the plugin gives up, the program leaves no running node behind.
THEOREM NoOrphan == AppSpec => []NodeIsStopped
<1>1. AppIInv => NodeIsStopped
  BY DEF AppIInv, RunnerReturned, ClosedAfterSource, ShutdownAfterStop, ExitsAfterPlugin,
         NodeIsStopped, Closed
<1> QED
  BY <1>1, AppInvariance, PTL

-----------------------------------------------------------------------------
(* Lines on their way: each line that the source handed on has been read,  *)
(* is in the channel, or is being sent.                                    *)

InSend == IF sending THEN 1 ELSE 0

OnTheWay == read + queued + InSend

\* Of the runner's invariant, what the logs reader in its place keeps as well.
SourceTypes ==
    IF mode = "logs"
    THEN TypeOK /\ handed = taken /\ handed % LineLen = 0
    ELSE IInv

AppTypes ==
    /\ mode \in {"stdin", "node", "logs"}
    /\ sending \in BOOLEAN
    /\ queued \in 0 .. Capacity
    /\ read \in Nat
    /\ readLoop \in {"reading", "failed", "drained", "done"}
    /\ plugin \in {"running", "terminating", "terminated"}
    /\ appDown \in BOOLEAN
    /\ source \in {"running", "stopping", "ended"}
    /\ start \in {"waiting", "closing", "exited"}
    /\ signalled \in BOOLEAN

\* A plugin that gave up drops lines, but nobody makes any up.
NoneInvented == OnTheWay <= LineCount(handed)

NoneDropped == ~GaveUp => OnTheWay = LineCount(handed)

\* The read loop ends with an empty channel, which Stop has waited for.
LoopEndsEmpty == readLoop \in {"drained", "done"} => Closed /\ queued = 0

StopWaits == source = "ended" => readLoop \in {"drained", "done"}

LinesIInv ==
    /\ AppIInv
    /\ SourceTypes /\ AppTypes
    /\ NoneInvented /\ NoneDropped
    /\ LoopEndsEmpty /\ StopWaits

LEMMA LinesInitInv == AppInit => LinesIInv
<1> SUFFICES ASSUME AppInit PROVE LinesIInv
  OBVIOUS
<1>1. IInv
  BY InitInv DEF AppInit
<1>2. SourceTypes
  BY <1>1, LineLenPositive DEF SourceTypes, IInv, AppInit, Init
<1>3. AppTypes
  <2>1. sending \in BOOLEAN /\ appDown \in BOOLEAN /\ signalled \in BOOLEAN
    BY Zenon DEF AppInit
  <2> QED
    BY <2>1, AppAssumption DEF AppInit, AppTypes
<1>4. OnTheWay = 0 /\ handed = 0
  BY DEF AppInit, Init, OnTheWay, InSend
<1>5. LineCount(0) = 0
  BY LineCountUnique, LineLenPositive
<1>6. NoneInvented /\ NoneDropped
  BY <1>4, <1>5 DEF NoneInvented, NoneDropped
<1>7. LoopEndsEmpty /\ StopWaits
  BY DEF AppInit, LoopEndsEmpty, StopWaits
<1> QED
  BY <1>2, <1>3, <1>6, <1>7, AppInitInv DEF LinesIInv

\* The mode is chosen once.
LEMMA ModeKept == AppNext => mode' = mode
BY DEF AppNext, Outside, GrowthTurns, Signal, Program, HandOn, NewReaderFails, Send, RunnerMain,
       RunnerCanceller, RunnerTimer, SourceReturns, StopReturns, ReadLoop, GiveUp,
       PluginTerminated, Callback, AppShutdown, CancelSource, StartCommand, SeesTerminating,
       Exits, app

\* Outside the logs mode the source's steps are the runner's.
LEMMA RunnerSteps == mode # "logs" /\ AppNext => [Next]_vars
<1> SUFFICES ASSUME mode # "logs", AppNext PROVE [Next]_vars
  OBVIOUS
<1>1. CASE Outside
  BY <1>1 DEF Outside, GrowthTurns, LogWrite, Next
<1>2. CASE HandOn
  BY <1>2 DEF HandOn, Next
<1>3. CASE RunnerMain \/ RunnerCanceller \/ RunnerTimer \/ Callback
  BY <1>3 DEF RunnerMain, RunnerCanceller, RunnerTimer, Callback, AppShutdown, CancelSource, Next
<1>4. CASE Signal \/ Send \/ SourceReturns \/ StopReturns \/ ReadLoop \/ GiveUp
           \/ PluginTerminated \/ StartCommand
  BY <1>4 DEF Signal, Send, SourceReturns, StopReturns, ReadLoop, GiveUp, PluginTerminated,
              StartCommand, SeesTerminating, Exits
<1>5. CASE NewReaderFails
  BY <1>5 DEF NewReaderFails
<1> QED
  BY <1>1, <1>2, <1>3, <1>4, <1>5 DEF AppNext, Program

LEMMA RunnerInvStep == IInv /\ [Next]_vars => IInv'
BY EnvironmentInv, MainInv, LineReaderInv, CancellerInv, StutterInv DEF Next

\* A line that the logs reader hands on is one line more.
LEMMA LogsHandOne ==
    ASSUME handed \in Nat, handed % LineLen = 0, LogsHand
    PROVE  /\ handed' % LineLen = 0
           /\ LineCount(handed') = LineCount(handed) + 1
<1>1. PICK q \in Nat : handed = q * LineLen
  BY LineEnd
<1>2. q + 1 \in Nat /\ handed' = (q + 1) * LineLen /\ handed' \in Nat
  BY <1>1, LineLenPositive DEF LogsHand
<1>3. handed' % LineLen = 0
  BY <1>2, LineEnd
<1>4. LineCount(handed) = q
  BY <1>1, LineCountAtEnd
<1>5. LineCount(handed') = q + 1
  BY <1>2, LineCountAtEnd
<1> QED
  BY <1>3, <1>4, <1>5

LEMMA SourceTypesStep == LinesIInv /\ AppNext => SourceTypes'
<1> SUFFICES ASSUME LinesIInv, AppNext PROVE SourceTypes'
  OBVIOUS
<1>1. CASE mode # "logs"
  BY <1>1, ModeKept, RunnerSteps, RunnerInvStep DEF LinesIInv, SourceTypes
<1>2. CASE mode = "logs"
  <2>1. TypeOK /\ handed = taken /\ handed % LineLen = 0
    BY <1>2 DEF LinesIInv, SourceTypes
  <2>2. mode' = mode
    BY ModeKept
  <2>3. CASE LogsHand
    <3>1. handed' \in 0 .. taken' /\ taken' \in 0 .. written' /\ handed' = taken'
      BY <2>1, <2>3, LineLenPositive DEF LogsHand, TypeOK, proc_vars
    <3>2. handed' % LineLen = 0
      BY <2>1, <2>3, LogsHandOne DEF TypeOK
    <3>3. TypeOK'
      BY <2>1, <2>3, <3>1 DEF LogsHand, TypeOK, proc_vars
    <3> QED
      BY <1>2, <2>2, <3>1, <3>2, <3>3 DEF SourceTypes
  <2>4. CASE LogWrite \/ LogsEnd \/ NewReaderFails \/ Cancel \/ UNCHANGED vars
    <3>1. handed' = handed /\ taken' = taken
      BY <2>4 DEF LogWrite, LogsEnd, NewReaderFails, Cancel, vars, output_vars
    <3>2. TypeOK'
      <4>1. CASE LogWrite
        BY <2>1, <4>1 DEF LogWrite, TypeOK, output_vars
      <4>2. CASE LogsEnd
        BY <2>1, <4>2 DEF LogsEnd, TypeOK, proc_vars, output_vars
      <4>3. CASE NewReaderFails
        BY <2>1, <4>3 DEF NewReaderFails, TypeOK, proc_vars, output_vars
      <4>4. CASE Cancel
        BY <2>1, <4>4 DEF Cancel, TypeOK, proc_vars, output_vars
      <4>5. CASE UNCHANGED vars
        BY <2>1, <4>5 DEF vars, TypeOK
      <4> QED
        BY <2>4, <4>1, <4>2, <4>3, <4>4, <4>5
    <3> QED
      BY <1>2, <2>1, <2>2, <3>1, <3>2 DEF SourceTypes
  <2> QED
    BY <1>2, <2>3, <2>4 DEF AppNext, Outside, GrowthTurns, Signal, Program, HandOn, Send, RunnerMain,
       RunnerCanceller, RunnerTimer, SourceReturns, StopReturns, ReadLoop, GiveUp,
       PluginTerminated, Callback, AppShutdown, CancelSource, StartCommand, SeesTerminating, Exits
<1> QED
  BY <1>1, <1>2

\* The conjuncts about lines and the read loop.
LinesCounted == AppTypes /\ NoneInvented /\ NoneDropped /\ LoopEndsEmpty /\ StopWaits

\* The source hands on one line, or none, and sends it unless the plugin is
\* terminating, which without giving up it is only after the source has ended.
LEMMA HandOnLines == LinesIInv /\ HandOn /\ SourceTypes' => LinesCounted'
<1> SUFFICES ASSUME LinesIInv, HandOn, SourceTypes' PROVE LinesCounted'
  OBVIOUS
<1>1. /\ UNCHANGED <<mode, queued, read, readLoop, plugin, appDown, source, start, signalled>>
      /\ ~sending /\ sending' = (handed' # handed /\ plugin = "running")
  BY DEF HandOn, lines
<1>2. AppTypes'
  <2>1. sending' \in BOOLEAN
    BY Zenon, <1>1
  <2> QED
    BY <1>1, <2>1 DEF LinesIInv, AppTypes
<1>3. /\ handed \in Nat /\ handed' \in Nat /\ read \in Nat /\ queued \in Nat
      /\ LineCount(handed) \in Nat
  BY LineCountType DEF LinesIInv, SourceTypes, IInv, TypeOK, AppTypes
<1>4. handed' = handed \/ LineCount(handed') = LineCount(handed) + 1
  <2>1. CASE mode = "logs"
    <3>1. LogsHand \/ LogsEnd
      BY <2>1 DEF HandOn
    <3>2. handed % LineLen = 0
      BY <2>1 DEF LinesIInv, SourceTypes
    <3> QED
      BY <1>3, <3>1, <3>2, LogsHandOne DEF LogsEnd, output_vars
  <2>2. CASE mode # "logs"
    <3>1. IInv /\ LineReader
      BY <2>2 DEF HandOn, LinesIInv, SourceTypes
    <3> QED
      BY <3>1, CountsOneLine
  <2> QED
    BY <2>1, <2>2
<1>5. plugin = "running" \/ GaveUp
  <2>1. reader = "reading"
    BY DEF HandOn, LogsHand, LogsEnd, LineReader, HandLine, Fill, HandRest, EndOfFile, ReadError
  <2> QED
    BY <2>1 DEF LinesIInv, AppIInv, ClosedAfterSource, ShutdownAfterStop, Closed
<1>6. OnTheWay = read + queued /\ OnTheWay' = read + queued + InSend'
  BY <1>1, <1>3 DEF OnTheWay, InSend
<1>7. NoneInvented' /\ NoneDropped'
  <2>1. CASE handed' = handed
    <3>1. InSend' = 0
      BY <1>1, <2>1 DEF InSend
    <3> QED
      BY <1>1, <1>3, <1>6, <2>1, <3>1 DEF LinesIInv, NoneInvented, NoneDropped, GaveUp
  <2>2. CASE handed' # handed /\ LineCount(handed') = LineCount(handed) + 1
    <3>1. InSend' \in {0, 1} /\ (~GaveUp => InSend' = 1)
      BY <1>1, <1>5, <2>2 DEF InSend
    <3> QED
      BY <1>1, <1>3, <1>6, <2>2, <3>1 DEF LinesIInv, NoneInvented, NoneDropped, GaveUp
  <2> QED
    BY <1>4, <2>1, <2>2
<1>8. LoopEndsEmpty' /\ StopWaits'
  BY <1>1 DEF LinesIInv, LoopEndsEmpty, StopWaits, Closed
<1> QED
  BY <1>2, <1>7, <1>8 DEF LinesCounted

\* A line sent is in the channel, a line read is out of it; the read loop ends
\* when the channel is closed and empty, and only Stop waits for that.
LEMMA PluginLines ==
    LinesIInv /\ (Send \/ ReadLoop \/ GiveUp \/ StopReturns \/ SourceReturns) => LinesCounted'
<1> SUFFICES ASSUME LinesIInv, Send \/ ReadLoop \/ GiveUp \/ StopReturns \/ SourceReturns
             PROVE  LinesCounted'
  OBVIOUS
<1>1. handed' = handed /\ UNCHANGED <<mode, appDown, start, signalled>>
  BY DEF Send, ReadLoop, GiveUp, StopReturns, SourceReturns, vars
<1>2. LineCount(handed) \in Nat /\ read \in Nat /\ queued \in Nat /\ Capacity \in Nat
  BY LineCountType, AppAssumption DEF LinesIInv, SourceTypes, IInv, TypeOK, AppTypes
<1>3. CASE Send
  <2>1. /\ sending /\ ~sending' /\ sending' = FALSE /\ queued < Capacity /\ queued' = queued + 1
        /\ UNCHANGED <<read, readLoop, plugin, source>>
    BY <1>3 DEF Send
  <2>2. ~Closed
    BY <2>1 DEF LinesIInv, AppIInv, SendsWhileReading, ClosedAfterSource
  <2>3. OnTheWay' = OnTheWay
    BY <1>2, <2>1 DEF OnTheWay, InSend
  <2>4. AppTypes'
    <3>1. sending' \in BOOLEAN
      BY Zenon, <2>1
    <3> QED
      BY <1>1, <1>2, <2>1, <3>1 DEF LinesIInv, AppTypes
  <2>5. NoneInvented' /\ NoneDropped'
    BY <1>1, <2>1, <2>3 DEF LinesIInv, NoneInvented, NoneDropped, GaveUp
  <2>6. LoopEndsEmpty' /\ StopWaits'
    BY <2>1, <2>2 DEF LinesIInv, LoopEndsEmpty, StopWaits, Closed
  <2> QED
    BY <2>4, <2>5, <2>6 DEF LinesCounted
<1>4. CASE ReadLoop
  <2>1. UNCHANGED <<sending, plugin, source>>
    BY <1>4 DEF ReadLoop
  <2>2. CASE queued > 0 /\ queued' = queued - 1 /\ readLoop' = readLoop
             /\ readLoop = "reading" /\ read' = read + 1
    <3>1. OnTheWay' = OnTheWay
      BY <1>2, <2>1, <2>2 DEF OnTheWay, InSend
    <3>2. AppTypes'
      BY <1>1, <1>2, <2>1, <2>2 DEF LinesIInv, AppTypes
    <3> QED
      BY <1>1, <2>1, <2>2, <3>1, <3>2
         DEF LinesIInv, LinesCounted, NoneInvented, NoneDropped, GaveUp, LoopEndsEmpty, StopWaits, Closed
  <2>3. CASE queued > 0 /\ queued' = queued - 1 /\ readLoop' = readLoop
             /\ readLoop = "failed" /\ read' = read
    <3>1. OnTheWay' = OnTheWay - 1 /\ OnTheWay \in Int
      BY <1>2, <2>1, <2>3 DEF OnTheWay, InSend
    <3>2. AppTypes'
      BY <1>1, <1>2, <2>1, <2>3 DEF LinesIInv, AppTypes
    <3> QED
      BY <1>1, <1>2, <2>1, <2>3, <3>1, <3>2
         DEF LinesIInv, LinesCounted, NoneInvented, NoneDropped, GaveUp, LoopEndsEmpty, StopWaits, Closed
  <2>4. CASE queued = 0 /\ Closed /\ queued' = queued /\ read' = read
             /\ (\/ readLoop = "reading" /\ readLoop' = "done"
                 \/ readLoop = "failed" /\ readLoop' = "drained")
    <3>1. OnTheWay' = OnTheWay
      BY <2>1, <2>4 DEF OnTheWay, InSend
    <3>2. AppTypes'
      BY <1>1, <2>1, <2>4 DEF LinesIInv, AppTypes
    <3> QED
      BY <1>1, <2>1, <2>4, <3>1, <3>2
         DEF LinesIInv, LinesCounted, NoneInvented, NoneDropped, GaveUp, LoopEndsEmpty, StopWaits, Closed
  <2> QED
    BY <1>4, <2>2, <2>3, <2>4 DEF ReadLoop
<1>5. CASE GiveUp
  <2>1. /\ readLoop = "reading" /\ readLoop' = "failed" /\ UNCHANGED <<sending, queued, read, source>>
        /\ plugin' \in {"terminating", plugin}
    BY <1>5 DEF GiveUp
  <2>2. OnTheWay' = OnTheWay
    BY <2>1 DEF OnTheWay, InSend
  <2>3. AppTypes'
    BY <1>1, <2>1 DEF LinesIInv, AppTypes
  <2> QED
    BY <1>1, <2>1, <2>2, <2>3
       DEF LinesIInv, LinesCounted, NoneInvented, NoneDropped, GaveUp, LoopEndsEmpty, StopWaits, Closed
<1>6. CASE StopReturns \/ SourceReturns
  <2>1. /\ UNCHANGED <<sending, queued, read, readLoop>> /\ plugin' \in {"terminating", plugin}
        /\ \/ source' = "stopping"
           \/ source' = "ended" /\ readLoop \in {"drained", "done"}
    BY <1>6 DEF StopReturns, SourceReturns, lines
  <2>2. OnTheWay' = OnTheWay
    BY <2>1 DEF OnTheWay, InSend
  <2>3. AppTypes'
    BY <1>1, <2>1 DEF LinesIInv, AppTypes
  <2> QED
    BY <1>1, <2>1, <2>2, <2>3
       DEF LinesIInv, LinesCounted, NoneInvented, NoneDropped, GaveUp, LoopEndsEmpty, StopWaits, Closed
<1> QED
  BY <1>3, <1>4, <1>5, <1>6

\* The others touch neither the lines nor the read loop.
LEMMA OtherLines ==
    LinesIInv /\ ( Outside \/ Signal \/ NewReaderFails \/ RunnerMain \/ RunnerCanceller \/ RunnerTimer
                  \/ PluginTerminated \/ Callback \/ StartCommand \/ UNCHANGED app_vars )
      => LinesCounted'
<1> SUFFICES ASSUME LinesIInv,
                    Outside \/ Signal \/ NewReaderFails \/ RunnerMain \/ RunnerCanceller \/ RunnerTimer
                    \/ PluginTerminated \/ Callback \/ StartCommand \/ UNCHANGED app_vars
             PROVE  LinesCounted'
  OBVIOUS
<1>1. UNCHANGED <<mode, sending, queued, read, readLoop, source>>
  BY DEF Outside, GrowthTurns, Signal, NewReaderFails, RunnerMain, RunnerCanceller, RunnerTimer, PluginTerminated,
         Callback, AppShutdown, CancelSource, StartCommand, SeesTerminating, Exits, app_vars, app, lines
<1>2. handed' = handed
  BY DEF Outside, GrowthTurns, Write, Exit, ChildExits, LogWrite, Signal, NewReaderFails, RunnerMain, Main,
         WaitReturns, StartReturns, RunnerCanceller, Canceller, SignalInt, ArmTimer, RunnerTimer,
         TimerFires, PluginTerminated, Callback, AppShutdown, CancelSource, Cancel, StartCommand,
         SeesTerminating, Exits, app_vars, vars, output_vars
<1>3. /\ plugin' \in {plugin, "terminated"}
      /\ start' \in {start, "closing", "exited"}
  BY DEF Outside, GrowthTurns, Signal, NewReaderFails, RunnerMain, RunnerCanceller, RunnerTimer, PluginTerminated,
         Callback, AppShutdown, CancelSource, StartCommand, SeesTerminating, Exits, app_vars, app
<1>4. (appDown' = appDown \/ appDown' = TRUE) /\ (signalled' = signalled \/ signalled' = TRUE)
  BY DEF Outside, GrowthTurns, Signal, NewReaderFails, RunnerMain, RunnerCanceller, RunnerTimer, PluginTerminated,
         Callback, AppShutdown, CancelSource, StartCommand, SeesTerminating, Exits, app_vars, app
<1>5. AppTypes'
  <2>1. appDown \in BOOLEAN /\ signalled \in BOOLEAN /\ sending \in BOOLEAN
    BY DEF LinesIInv, AppTypes
  <2>2. appDown' \in BOOLEAN /\ signalled' \in BOOLEAN /\ sending' \in BOOLEAN
    BY Zenon, <1>1, <1>4, <2>1
  <2> QED
    BY <1>1, <1>3, <2>2 DEF LinesIInv, AppTypes
<1>6. OnTheWay' = OnTheWay
  BY <1>1 DEF OnTheWay, InSend
<1> QED
  BY <1>1, <1>2, <1>5, <1>6
     DEF LinesIInv, LinesCounted, NoneInvented, NoneDropped, GaveUp, LoopEndsEmpty, StopWaits, Closed

\* LinesIInv holds throughout.
THEOREM LinesInvariance == AppSpec => []LinesIInv
<1>1. LinesIInv /\ [AppNext]_app_vars => SourceTypes'
  <2>1. LinesIInv /\ UNCHANGED app_vars => SourceTypes'
    <3> SUFFICES ASSUME LinesIInv, UNCHANGED app_vars PROVE SourceTypes'
      OBVIOUS
    <3>1. UNCHANGED vars /\ mode' = mode
      BY DEF app_vars, app
    <3>2. IInv => IInv'
      BY <3>1, StutterInv
    <3>3. TypeOK /\ handed = taken /\ handed % LineLen = 0
            => (TypeOK /\ handed = taken /\ handed % LineLen = 0)'
      BY <3>1 DEF vars, TypeOK
    <3> QED
      BY <3>1, <3>2, <3>3 DEF LinesIInv, SourceTypes
  <2> QED
    BY <2>1, SourceTypesStep
<1>2. LinesIInv /\ [AppNext]_app_vars => AppIInv'
  BY AppIInvStep DEF LinesIInv
<1>3. LinesIInv /\ [AppNext]_app_vars => LinesCounted'
  BY <1>1, HandOnLines, PluginLines, OtherLines DEF AppNext, Program
<1>4. LinesIInv /\ [AppNext]_app_vars => LinesIInv'
  BY <1>1, <1>2, <1>3 DEF LinesIInv, LinesCounted
<1> QED
  BY <1>4, LinesInitInv, PTL DEF AppSpec

-----------------------------------------------------------------------------

GrowingType == growing \in BOOLEAN

LEMMA GrowingTypeStep == GrowingType /\ [AppNext]_app_vars => GrowingType'
<1> SUFFICES ASSUME GrowingType, [AppNext]_app_vars PROVE GrowingType'
  OBVIOUS
<1>1. growing' = growing \/ growing' = ~growing
  BY DEF AppNext, Outside, GrowthTurns, Signal, Program, HandOn, NewReaderFails, Send, RunnerMain,
         RunnerCanceller, RunnerTimer, SourceReturns, StopReturns, ReadLoop, GiveUp,
         PluginTerminated, Callback, AppShutdown, CancelSource, StartCommand, SeesTerminating,
         Exits, app, app_vars
<1> QED
  BY Zenon, <1>1 DEF GrowingType

\* The variables keep their types, and no more lines are read and queued than
\* were handed on.
THEOREM AppTypeCorrect == AppSpec => []AppTypeOK
<1>1. LinesIInv /\ GrowingType => AppTypeOK
  <2> SUFFICES ASSUME LinesIInv, GrowingType PROVE AppTypeOK
    OBVIOUS
  <2>1. TypeOK /\ AppTypes
    BY DEF LinesIInv, SourceTypes, IInv
  <2>2. handed \in Nat /\ read + queued \in Nat /\ LineCount(handed) \in Nat
    BY <2>1, LineCountType DEF TypeOK, AppTypes
  <2>3. read + queued <= LineCount(handed)
    BY <2>2, <2>1 DEF LinesIInv, NoneInvented, OnTheWay, InSend, AppTypes
  <2>4. (read + queued) * LineLen < handed + LineLen
    <3> DEFINE r == read + queued
               q == LineCount(handed)
    <3>1. q * LineLen < handed + LineLen
      BY <2>2, LineCountBounds
    <3>2. r \in Nat /\ q \in Nat /\ r <= q
      BY <2>2, <2>3
    <3> HIDE DEF r, q
    <3>3. r * LineLen <= q * LineLen
      <4>1. CASE r = q
        BY <3>2, <4>1, LineLenPositive
      <4>2. CASE r < q
        <5>1. r * LineLen + LineLen <= q * LineLen
          BY <3>2, <4>2, NextLineStart
        <5> QED
          BY <3>2, <5>1, LineLenPositive
      <4> QED
        BY <3>2, <4>1, <4>2
    <3>4. r * LineLen < handed + LineLen
      BY <2>2, <3>1, <3>2, <3>3, LineLenPositive
    <3> QED
      BY <3>4 DEF r
  <2> QED
    BY <2>1, <2>4 DEF AppTypeOK, AppTypes, GrowingType
<1>2. AppInit => GrowingType
  BY Zenon DEF AppInit, GrowingType
<1> QED
  BY <1>1, <1>2, GrowingTypeStep, LinesInvariance, PTL DEF AppSpec

\* Unless the plugin gives up, the program ends only after every line handed on
\* went through ReadBlock.
THEOREM AllReadBeforeExit == AppSpec => []HandedIsRead
<1>1. LinesIInv => HandedIsRead
  <2> SUFFICES ASSUME LinesIInv, start = "exited", ~GaveUp PROVE read = LineCount(handed)
    BY DEF HandedIsRead
  <2>1. source = "ended"
    BY DEF LinesIInv, AppIInv, ExitsAfterPlugin, ShutdownAfterStop
  <2>2. queued = 0
    BY <2>1 DEF LinesIInv, LoopEndsEmpty, StopWaits
  <2>3. ~sending
    BY <2>1 DEF LinesIInv, AppIInv, SendsWhileReading, ClosedAfterSource, Closed
  <2> QED
    BY <2>2, <2>3 DEF LinesIInv, NoneDropped, OnTheWay, InSend, AppTypes
<1> QED
  BY <1>1, LinesInvariance, PTL

=============================================================================
