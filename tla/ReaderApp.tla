------------------------------ MODULE ReaderApp ------------------------------
(***************************************************************************)
(* cmd/firecosmos/cli/reader.go and start.go: the reader app feeds the     *)
(* lines of its source to the mindreader plugin, and the two end together. *)
(* The source is standard input, a Cosmos node run by NodeRunner, whose    *)
(* variables and actions this module takes over, or the logs reader, of    *)
(* which only what it promises is kept.                                    *)
(*                                                                         *)
(* The plugin and the launcher are outside the repository, and modelled by *)
(* how they are used: LogLine puts a line into a channel that the plugin's *)
(* read loop empties through ReadBlock; Stop closes the channel and waits  *)
(* for the loop; Shutdown ends the plugin.                                 *)
(***************************************************************************)
EXTENDS NodeRunner

CONSTANT Capacity   \* of the plugin's channel of lines

ASSUME AppAssumption == Capacity \in Nat \ {0}

VARIABLES
    mode,           \* reader-mode
    growing,        \* the log file in hand is never left alone for maxDuration
    sending,        \* the source is inside LogLine, past its first check
    queued,         \* lines in the channel
    read,           \* lines that ReadBlock has taken
    readLoop,       \* "reading", "failed" and then "drained", or "done"
    plugin,         \* its Shutter: "running", "terminating" or "terminated"
    appDown,        \* the app's own Shutter was shut down
    source,         \* its goroutine: "running", "stopping" in Stop, "ended"
    start,          \* start command: "waiting", "closing" or "exited"
    signalled       \* a termination signal came first

lines    == <<queued, read, readLoop>>
app      == <<mode, growing, sending, lines, plugin, appDown, source, start, signalled>>
app_vars == <<vars, app>>

Closed == source # "running"

GaveUp == readLoop \in {"failed", "drained"}

-----------------------------------------------------------------------------
(* Outside: who writes to the source, and the operator.                    *)

LogWrite ==
    /\ mode = "logs"
    /\ written < MaxWritten
    /\ written' = written + 1
    /\ UNCHANGED <<filtered, proc, child, cancelled, output_vars, main, reader, canceller, timer, killed>>

\* The node begins or ceases to append to the file in hand in every maxDuration.
GrowthTurns ==
    /\ mode = "logs"
    /\ growing' = ~growing
    /\ UNCHANGED <<vars, mode, sending, lines, plugin, appDown, source, start, signalled>>

Outside ==
    \/ /\ \/ mode # "logs" /\ start # "exited" /\ Write
          \/ mode # "logs" /\ (Exit \/ ChildExits)
          \/ LogWrite
       /\ UNCHANGED app
    \/ GrowthTurns

\* runStartCommand's select takes the signal: launch.Close will follow.
Signal ==
    /\ start = "waiting"
    /\ start' = "closing"
    /\ signalled' = TRUE
    /\ UNCHANGED <<vars, mode, growing, sending, lines, plugin, appDown, source>>

-----------------------------------------------------------------------------
(* The source.                                                             *)

\* The logs reader hands on the next line of its files.
LogsHand ==
    /\ reader = "reading"
    /\ handed + LineLen <= written
    /\ handed' = handed + LineLen
    /\ taken' = handed'
    /\ UNCHANGED <<proc_vars, cancelled, readEnd, main, reader, canceller, timer, killed>>

\* It ends when its context is done, which it sees between two files only, and
\* ReadFile leaves a file only after maxDuration without growth.
LogsEnd ==
    /\ reader = "reading"
    /\ cancelled
    /\ ~growing
    /\ reader' = "eof"
    /\ UNCHANGED <<proc_vars, cancelled, output_vars, main, canceller, timer, killed>>

NewReaderFails ==
    /\ mode = "logs"
    /\ reader = "reading"
    /\ handed = 0
    /\ ~sending
    /\ reader' = "aborted"
    /\ UNCHANGED <<proc_vars, cancelled, output_vars, main, canceller, timer, killed, app>>

\* A line goes to LogLine, which drops it when the plugin is terminating.
HandOn ==
    /\ ~sending
    /\ IF mode = "logs" THEN LogsHand \/ LogsEnd ELSE LineReader
    /\ sending' = (handed' # handed /\ plugin = "running")
    /\ UNCHANGED <<mode, growing, lines, plugin, appDown, source, start, signalled>>

\* LogLine's send, for which the source waits while the channel is full.
Send ==
    /\ sending
    /\ queued < Capacity
    /\ sending' = FALSE
    /\ queued' = queued + 1
    /\ UNCHANGED <<vars, mode, growing, read, readLoop, plugin, appDown, source, start, signalled>>

RunnerMain == mode = "node" /\ Main /\ UNCHANGED app

RunnerCanceller == mode = "node" /\ Canceller /\ UNCHANGED app

RunnerTimer == mode = "node" /\ TimerFires /\ UNCHANGED app

SourceOver == IF mode = "node" THEN main = "returned" ELSE reader \in {"eof", "aborted"}

\* Mutant: Shutdown before Stop.
ShutdownFirst ==
    /\ source = "running"
    /\ SourceOver
    /\ source' = "stopping"
    /\ plugin' = IF plugin = "running" THEN "terminating" ELSE plugin
    /\ UNCHANGED <<vars, mode, growing, sending, lines, appDown, start, signalled>>

\* startFrom... has returned: Stop closes the channel.
SourceReturns ==
    /\ source = "running"
    /\ SourceOver
    /\ source' = "stopping"
    /\ UNCHANGED <<vars, mode, growing, sending, lines, plugin, appDown, start, signalled>>

\* Mutant: the goroutine ends with Stop.
StopOnly ==
    /\ source = "stopping"
    /\ readLoop \in {"drained", "done"}
    /\ source' = "ended"
    /\ UNCHANGED <<vars, mode, growing, sending, lines, plugin, appDown, start, signalled>>

\* Stop returns once the read loop has ended; then Shutdown.
StopReturns ==
    /\ source = "stopping"
    /\ readLoop \in {"drained", "done"}
    /\ source' = "ended"
    /\ plugin' = IF plugin = "running" THEN "terminating" ELSE plugin
    /\ UNCHANGED <<vars, mode, growing, sending, lines, appDown, start, signalled>>

-----------------------------------------------------------------------------
(* The plugin.                                                             *)

ReadLoop ==
    /\ \/ /\ queued > 0
          /\ queued' = queued - 1
          /\ \/ readLoop = "reading" /\ read' = read + 1
             \/ readLoop = "failed" /\ UNCHANGED read
          /\ UNCHANGED readLoop
       \/ /\ queued = 0
          /\ Closed
          /\ \/ readLoop = "reading" /\ readLoop' = "done"
             \/ readLoop = "failed" /\ readLoop' = "drained"
          /\ UNCHANGED <<queued, read>>
    /\ UNCHANGED <<vars, mode, growing, sending, plugin, appDown, source, start, signalled>>

\* ReadBlock fails, a block is not stored or is the stop block: the plugin
\* shuts itself down and empties the channel from now on.
GiveUp ==
    /\ readLoop = "reading"
    /\ readLoop' = "failed"
    /\ plugin' = IF plugin = "running" THEN "terminating" ELSE plugin
    /\ UNCHANGED <<vars, mode, growing, sending, queued, read, appDown, source, start, signalled>>

PluginTerminated ==
    /\ plugin = "terminating"
    /\ plugin' = "terminated"
    /\ UNCHANGED <<vars, mode, growing, sending, lines, appDown, source, start, signalled>>

-----------------------------------------------------------------------------
(* Run, its callbacks and the start command.                               *)

\* Mutant: OnTerminated cancels the source and leaves the app as it is.
CancelOnly ==
    /\ plugin # "running"
    /\ Cancel
    /\ UNCHANGED app

\* The plugin's OnTerminated callback shuts the app down, before or after the
\* plugin's Terminated channel is closed; launch.Close does the same.
AppShutdown ==
    /\ ~appDown
    /\ plugin # "running" \/ signalled
    /\ appDown' = TRUE
    /\ UNCHANGED <<vars, mode, growing, sending, lines, plugin, source, start, signalled>>

\* Mutant: no OnTerminating callback, only Run's defer.
CancelAtReturn ==
    /\ plugin = "terminated"
    /\ Cancel
    /\ UNCHANGED app

\* The app's OnTerminating callback, or Run's defer.
CancelSource ==
    /\ appDown \/ plugin = "terminated"
    /\ Cancel
    /\ UNCHANGED app

\* The select takes launch.Terminating.
SeesTerminating ==
    /\ start = "waiting"
    /\ appDown
    /\ start' = "closing"
    /\ UNCHANGED <<vars, mode, growing, sending, lines, plugin, appDown, source, signalled>>

\* Mutant: the Terminated method of the embedded Shutter.
TerminatedOfShutter == appDown

Terminated == plugin = "terminated"

\* WaitForTermination returns and with it the program ends.
Exits ==
    /\ start = "closing"
    /\ Terminated
    /\ start' = "exited"
    /\ UNCHANGED <<vars, mode, growing, sending, lines, plugin, appDown, source, signalled>>

Callback == AppShutdown \/ CancelSource

StartCommand == SeesTerminating \/ Exits

-----------------------------------------------------------------------------

AppInit ==
    /\ Init
    /\ mode \in {"stdin", "node", "logs"}
    /\ filtered => mode = "node"
    /\ child => mode # "logs"
    /\ growing \in {FALSE, mode = "logs"}
    /\ main = "returned" => mode = "node"
    /\ sending = FALSE
    /\ queued = 0
    /\ read = 0
    /\ readLoop = "reading"
    /\ plugin = "running"
    /\ appDown = FALSE
    /\ source = "running"
    /\ start = "waiting"
    /\ signalled = FALSE

Program ==
    \/ HandOn \/ NewReaderFails \/ Send
    \/ RunnerMain \/ RunnerCanceller \/ RunnerTimer
    \/ SourceReturns \/ StopReturns
    \/ ReadLoop \/ GiveUp \/ PluginTerminated
    \/ Callback \/ StartCommand

Alive == start # "exited"

AppNext == Outside \/ Signal \/ (Alive /\ Program)

AppSpec == AppInit /\ [][AppNext]_app_vars

\* Every goroutine of the program is scheduled.  Nothing is owed by who writes
\* to the source, by the operator, or by a plugin that might give up.
AppFairSpec ==
    /\ AppSpec
    /\ WF_app_vars(Alive /\ HandOn) /\ WF_app_vars(Alive /\ Send)
    /\ WF_app_vars(Alive /\ RunnerMain) /\ WF_app_vars(Alive /\ RunnerCanceller)
    /\ WF_app_vars(Alive /\ RunnerTimer)
    /\ WF_app_vars(Alive /\ (SourceReturns \/ StopReturns))
    /\ WF_app_vars(Alive /\ ReadLoop) /\ WF_app_vars(Alive /\ PluginTerminated)
    /\ WF_app_vars(Alive /\ AppShutdown) /\ WF_app_vars(Alive /\ CancelSource)
    /\ WF_app_vars(Alive /\ StartCommand)

-----------------------------------------------------------------------------

\* Types; no more lines are read and queued than were handed on.
AppTypeOK ==
    /\ TypeOK
    /\ mode \in {"stdin", "node", "logs"}
    /\ growing \in BOOLEAN
    /\ sending \in BOOLEAN
    /\ queued \in 0 .. Capacity
    /\ read \in Nat
    /\ (read + queued) * LineLen < handed + LineLen
    /\ readLoop \in {"reading", "failed", "drained", "done"}
    /\ plugin \in {"running", "terminating", "terminated"}
    /\ appDown \in BOOLEAN
    /\ source \in {"running", "stopping", "ended"}
    /\ start \in {"waiting", "closing", "exited"}
    /\ signalled \in BOOLEAN

\* Stop closes the channel of lines while nobody is sending on it, which would
\* be a panic: the source goroutine calls Stop when no line reader is left.
NoSendOnClosed == ~(sending /\ Closed)

\* Unless the plugin itself gives up, the program does not end before every
\* line that the source handed on has gone through ReadBlock.
HandedIsRead ==
    start = "exited" /\ ~GaveUp => read = LineCount(handed)

\* Unless the plugin itself gives up, the program does not end, on a signal or
\* otherwise, while the node that it started runs.
NodeIsStopped == start = "exited" /\ mode = "node" /\ ~GaveUp => proc # "running"

\* What keeps the source from ending: a child of the node that holds a filtered
\* stderr; anyone who holds standard input, which no context can interrupt; or a
\* node that never ceases to append to the log file in hand.
KeptOpen ==
    \/ mode = "node" /\ HeldByChild
    \/ mode = "stdin" /\ (proc = "running" \/ child)
    \/ mode = "logs" /\ growing

\* A signal ends the program, whatever it interrupts, unless the source is kept
\* open again and again.  Once nothing keeps it open the program does end.
SignalExits == signalled ~> (start = "exited" \/ KeptOpen)

\* The end of the source ends the program, unless it is kept open.
SourceEndExits ==
    (Closed \/ (mode # "logs" /\ proc # "running")) ~> (start = "exited" \/ KeptOpen)

\* A plugin that gives up ends the program, though its source is blocked or
\* kept open.
GiveUpExits == GaveUp ~> start = "exited"

=============================================================================
