----------------------------- MODULE NodeRunner -----------------------------
(***************************************************************************)
(* noderunner/node_runner.go and line_reader.go: the reader app runs the   *)
(* Cosmos node as a subprocess and reads lines from its standard output.   *)
(*                                                                         *)
(* Actors: the subprocess (and perhaps children of its own that inherited  *)
(* its output), the goroutine that calls Start, the line reader, the       *)
(* goroutine that waits for the context, and the kill timer it arms.       *)
(*                                                                         *)
(* The output is abstracted to offsets into what the node wrote: handed <= *)
(* taken <= written.  A line is LineLen units, so that the node can die    *)
(* inside one.                                                             *)
(***************************************************************************)
EXTENDS Integers

CONSTANTS
    LineLen,        \* units of a line
    MaxWritten,     \* bound of the runs: units the node writes
    PipeCap,        \* capacity of the stdout pipe
    BufferCap,      \* size of the line reader's buffer
    HasChildren     \* TRUE: the node may leave a child that holds its output

ASSUME RunnerAssumption ==
    /\ {LineLen, PipeCap, BufferCap} \subseteq Nat \ {0}
    /\ MaxWritten \in Nat
    /\ HasChildren \in BOOLEAN

VARIABLES
    filtered,       \* stderr goes through a FilteredWriter
    proc,           \* subprocess: "running", "exited" (a zombie) or "reaped"
    child,          \* a child of it still holds stdout and stderr
    cancelled,      \* ctx is done
    \* The output.
    written,        \* units written to the pipe
    taken,          \* units read from the pipe into the buffer
    handed,         \* units given to lineReaderFunc
    readEnd,        \* our end of the pipe is open
    \* The goroutines.
    main,           \* "waiting" in Wait, "draining" on readerDone, "returned"
    reader,         \* "reading", "eof", "aborted" by an error, or "done"
    canceller,      \* "idle", "signalled" (INT sent), "armed" or "gone"
    timer,          \* "none", "armed", "stopped" or "fired"
    killed          \* Kill was sent to the running subprocess

proc_vars   == <<filtered, proc, child, written>>
output_vars == <<taken, handed, readEnd>>
vars == <<filtered, proc, child, cancelled, written, taken, handed, readEnd,
          main, reader, canceller, timer, killed>>

-----------------------------------------------------------------------------
(* The environment.                                                        *)

\* The write blocks while the pipe is full; without a reader it ends the node.
Write ==
    /\ proc = "running"
    /\ written < MaxWritten
    /\ written - taken < PipeCap
    /\ written' = written + 1
    /\ UNCHANGED <<filtered, proc, child, cancelled, output_vars, main, reader, canceller, timer, killed>>

\* The node exits, because it is done, crashed or got an INT.
Exit ==
    /\ proc = "running"
    /\ proc' = "exited"
    /\ UNCHANGED <<filtered, child, cancelled, written, output_vars, main, reader, canceller, timer, killed>>

ChildExits ==
    /\ child
    /\ child' = FALSE
    /\ UNCHANGED <<filtered, proc, cancelled, written, output_vars, main, reader, canceller, timer, killed>>

Cancel ==
    /\ ~cancelled
    /\ cancelled' = TRUE
    /\ UNCHANGED <<proc_vars, output_vars, main, reader, canceller, timer, killed>>

-----------------------------------------------------------------------------
(* startProcess.                                                           *)

\* Mutant: Wait copies stdout as well, and waits for every holder of it.
WaitReturnsAtEOF ==
    /\ main = "waiting"
    /\ proc = "exited"
    /\ ~child
    /\ proc' = "reaped"
    /\ readEnd' = FALSE
    /\ timer' = IF timer = "armed" THEN "stopped" ELSE timer
    /\ main' = "draining"
    /\ UNCHANGED <<filtered, child, cancelled, written, taken, handed, reader, canceller, killed>>

\* cmd.Wait: the process is reaped, the copy of a filtered stderr is waited
\* for, and the pipe's read end is closed, whatever it still holds.  The
\* deferred function stops the timer if it is there by now.
WaitReturns ==
    /\ main = "waiting"
    /\ proc = "exited"
    /\ filtered => ~child
    /\ proc' = "reaped"
    /\ readEnd' = FALSE
    /\ timer' = IF timer = "armed" THEN "stopped" ELSE timer
    /\ main' = "draining"
    /\ UNCHANGED <<filtered, child, cancelled, written, taken, handed, reader, canceller, killed>>

\* Mutant: Start returns without receiving from readerDone.
StartReturnsEarly ==
    /\ main = "draining"
    /\ main' = "returned"
    /\ UNCHANGED <<proc_vars, cancelled, output_vars, reader, canceller, timer, killed>>

\* Start receives from readerDone before it returns.
StartReturns ==
    /\ main = "draining"
    /\ reader \in {"eof", "aborted"}
    /\ main' = "returned"
    /\ reader' = "done"
    /\ UNCHANGED <<proc_vars, cancelled, output_vars, canceller, timer, killed>>

-----------------------------------------------------------------------------
(* StartLineReader.                                                        *)

LineEnds == {n \in handed + 1 .. taken : n % LineLen = 0}

\* Mutant: ReadSlice in place of ReadString, a buffer without a line end is
\* handed on as it is.
HandPart ==
    /\ reader = "reading"
    /\ \E n \in handed + 1 .. taken :
         /\ \A m \in LineEnds : n <= m
         /\ handed' = n
    /\ UNCHANGED <<proc_vars, cancelled, taken, readEnd, main, reader, canceller, timer, killed>>

\* A whole line is in the buffer (or in what ReadString has collected).
HandLine ==
    /\ reader = "reading"
    /\ \E n \in LineEnds :
         /\ \A m \in LineEnds : n <= m
         /\ handed' = n
    /\ UNCHANGED <<proc_vars, cancelled, taken, readEnd, main, reader, canceller, timer, killed>>

\* Mutant: the whole buffer counts, not only what was read into it.
FillWhole ==
    /\ reader = "reading"
    /\ LineEnds = {}
    /\ readEnd
    /\ taken < written
    /\ taken' = taken + BufferCap
    /\ UNCHANGED <<proc_vars, cancelled, handed, readEnd, main, reader, canceller, timer, killed>>

\* There is none: the buffer is filled from the pipe.
Fill ==
    /\ reader = "reading"
    /\ LineEnds = {}
    /\ readEnd
    /\ \E n \in taken + 1 .. taken + BufferCap :
         /\ n <= written
         /\ taken' = n
    /\ UNCHANGED <<proc_vars, cancelled, handed, readEnd, main, reader, canceller, timer, killed>>

\* Nothing can come any more: the pipe is empty and has no writer left.
AtEnd == readEnd /\ taken = written /\ proc # "running" /\ ~child

\* ReadString returns io.EOF with a part of a line, which is handed on as well;
\* the reader then reads once more.
HandRest ==
    /\ reader = "reading"
    /\ LineEnds = {}
    /\ AtEnd
    /\ handed < taken
    /\ handed' = taken
    /\ UNCHANGED <<proc_vars, cancelled, taken, readEnd, main, reader, canceller, timer, killed>>

\* Mutant: EOF ends the reader before the rest of the last line is handed on.
EndOfFileDrops ==
    /\ reader = "reading"
    /\ LineEnds = {}
    /\ AtEnd
    /\ reader' = "eof"
    /\ UNCHANGED <<proc_vars, cancelled, output_vars, main, canceller, timer, killed>>

\* It returns io.EOF with nothing.
EndOfFile ==
    /\ reader = "reading"
    /\ handed = taken
    /\ AtEnd
    /\ reader' = "eof"
    /\ UNCHANGED <<proc_vars, cancelled, output_vars, main, canceller, timer, killed>>

\* Reading from the closed end is an error: the part of a line is dropped.
ReadError ==
    /\ reader = "reading"
    /\ LineEnds = {}
    /\ ~readEnd
    /\ reader' = "aborted"
    /\ UNCHANGED <<proc_vars, cancelled, output_vars, main, canceller, timer, killed>>

-----------------------------------------------------------------------------
(* waitWithTimeout: the goroutine and the timer it arms.                   *)

\* Mutant: the goroutine returns after the signal, whether it failed or not.
SignalIntOnly ==
    /\ cancelled
    /\ canceller = "idle"
    /\ canceller' = "gone"
    /\ UNCHANGED <<proc_vars, cancelled, output_vars, main, reader, timer, killed>>

\* SIGINT, to the process itself and not to its group: it may exit, later.  If
\* it was reaped the goroutine ends.
SignalInt ==
    /\ cancelled
    /\ canceller = "idle"
    /\ canceller' = IF proc = "reaped" THEN "gone" ELSE "signalled"
    /\ UNCHANGED <<proc_vars, cancelled, output_vars, main, reader, timer, killed>>

\* Under the lock, but perhaps after the deferred Stop.
ArmTimer ==
    /\ canceller = "signalled"
    /\ canceller' = "gone"
    /\ timer' = "armed"
    /\ UNCHANGED <<proc_vars, cancelled, output_vars, main, reader, killed>>

\* After the timeout: Kill, which fails on a process that was reaped.
TimerFires ==
    /\ timer = "armed"
    /\ timer' = "fired"
    /\ proc' = IF proc = "running" THEN "exited" ELSE proc
    /\ killed' = (proc = "running")
    /\ UNCHANGED <<filtered, child, cancelled, written, output_vars, main, reader, canceller>>

-----------------------------------------------------------------------------

\* Start returns at once when the subprocess cannot be set up or started, for
\* which it stands as reaped; otherwise the goroutines run beside it.
Init ==
    /\ filtered \in BOOLEAN
    /\ cancelled = FALSE
    /\ written = 0
    /\ taken = 0
    /\ handed = 0
    /\ timer = "none"
    /\ killed = FALSE
    /\ \/ /\ proc = "running"
          /\ child \in {FALSE, HasChildren}
          /\ readEnd = TRUE
          /\ main = "waiting"
          /\ reader = "reading"
          /\ canceller = "idle"
       \/ /\ proc = "reaped"
          /\ child = FALSE
          /\ readEnd = FALSE
          /\ main = "returned"
          /\ reader = "done"
          /\ canceller = "gone"

Main       == WaitReturns \/ StartReturns
LineReader == HandLine \/ Fill \/ HandRest \/ EndOfFile \/ ReadError
Canceller  == SignalInt \/ ArmTimer

Next ==
    \/ Write \/ Exit \/ ChildExits \/ Cancel
    \/ Main \/ LineReader \/ Canceller \/ TimerFires

Spec == Init /\ [][Next]_vars

\* The goroutines are scheduled and the timer fires.  The node owes nothing: it
\* may ignore the INT, and never exit.
FairSpec ==
    /\ Spec
    /\ WF_vars(Main) /\ WF_vars(LineReader) /\ WF_vars(Canceller) /\ WF_vars(TimerFires)

-----------------------------------------------------------------------------

\* Types, and the order of the offsets.
TypeOK ==
    /\ filtered \in BOOLEAN
    /\ proc \in {"running", "exited", "reaped"}
    /\ child \in BOOLEAN
    /\ cancelled \in BOOLEAN
    /\ written \in Nat
    /\ taken \in 0 .. written
    /\ handed \in 0 .. taken
    /\ readEnd \in BOOLEAN
    /\ main \in {"waiting", "draining", "returned"}
    /\ reader \in {"reading", "eof", "aborted", "done"}
    /\ canceller \in {"idle", "signalled", "gone"}
    /\ timer \in {"none", "armed", "stopped", "fired"}
    /\ killed \in BOOLEAN

\* A line reader that ends without an error has handed on every byte the node
\* ever wrote, an unfinished last line included.
CleanEndIsComplete == reader = "eof" => handed = written /\ proc # "running"

\* Lines that n units make up, the last of them perhaps unfinished.
LineCount(n) == (n + LineLen - 1) \div LineLen

\* The lines that n units are cut into, each the units it is made of.  A part of
\* a line is another line than the whole one.
LinesIn(n) ==
    [k \in 1 .. LineCount(n) |->
        [from |-> (k - 1) * LineLen, to |-> IF k * LineLen <= n THEN k * LineLen ELSE n]]

\* Units of finished lines.  The line in which the node ends is finished then.
Finished == IF proc = "running" THEN written - (written % LineLen) ELSE written

Stream == INSTANCE LineStream WITH
            Line <- [from : 0 .. MaxWritten, to : 1 .. MaxWritten],
            written <- LinesIn(Finished),
            delivered <- LinesIn(handed)

\* The runner is the same stream of lines as the logs reader: lines are handed
\* on one by one, none split, joined, skipped or repeated, wherever the buffer
\* and the pipe cut them and whoever ends first.
StreamInOrder == Stream!Spec

\* Once Start has returned no goroutine of it touches the consumer any more, and
\* the process is gone: the app may shut the plugin down.
ReturnIsFinal ==
    [][main = "returned" => UNCHANGED <<handed, reader, proc, killed>>]_vars

\* cmd.Wait copies a filtered stderr itself, and so waits for every holder of it.
HeldByChild == filtered /\ child

\* A cancelled runner returns, whatever the node does with the INT: the timer
\* ends it.  Only a child of the node that holds a filtered stderr, which gets
\* neither signal, can keep it.
CancelReturns == cancelled ~> (main = "returned" \/ HeldByChild)

\* The runner returns when the node exits on its own, with the same exception;
\* a child that holds the stdout pipe does not keep it.
ExitReturns == (proc # "running") ~> (main = "returned" \/ HeldByChild)

\* "Returning prematurely will cause the contents to be lost": when Start
\* returns, the lines the subprocess wrote before it exited were handed on.
OutputNotLost == main = "returned" => handed = written

=============================================================================
