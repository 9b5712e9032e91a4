----------------------------- MODULE FileReader -----------------------------
(***************************************************************************)
(* filereader/file_reader.go: one FileReader reads one log file line by    *)
(* line while the Cosmos node may still be appending to that file.         *)
(*                                                                         *)
(* The file is append-only and is abstracted to its length (size) and to   *)
(* the offsets of its newline bytes (newlines; byte b is the one between   *)
(* offsets b-1 and b).  A string handed to sendFunc is the half-open       *)
(* interval of the file that it was cut from: [from |-> i, to |-> j].      *)
(*                                                                         *)
(* A line is taken in one step here and the position moves with it.        *)
(* BufferedReader has the file's offset and the buffer that the code gets  *)
(* the position from, and implements this specification.  The reader's     *)
(* actions prime only the reader's own variables, so that LogsReader       *)
(* instantiates them for whichever file it is reading.                     *)
(***************************************************************************)
EXTENDS Integers, Sequences

CONSTANTS
    MaxSize,        \* bound of the runs: the longest file
    MaxWrite        \* bound of the runs: the longest single write

ASSUME ConstantsAssumption ==
    /\ MaxSize \in Nat
    /\ MaxWrite \in Nat

VARIABLES
    size,           \* length of the file on disk
    newlines,       \* offsets at which a newline byte ends
    mishaps,        \* what may go wrong in this behaviour
    watch,          \* ReadFile's second argument
    start,          \* NewFileReader's third argument
    position,       \* FileReader.position: offset of the first unread byte
    fileSize,       \* FileReader.fileSize: length at the last Stat
    pc,             \* where ReadFile's loop stands
    result,         \* position ReadFile returned, -1 while it runs
    sent            \* pieces given to sendFunc, oldest first

file   == <<size, newlines, mishaps, watch, start>>
reader == <<position, fileSize, pc, result, sent>>
vars   == <<size, newlines, mishaps, watch, start, position, fileSize, pc, result, sent>>

Piece == [from : Nat, to : Nat]

\* "torn": a write of the node may end inside a line.  "fault": a system call
\* of the reader may fail.
Mishaps == {"torn", "fault"}

WholeWrites == "torn" \notin mishaps
Faulty      == "fault" \in mishaps

-----------------------------------------------------------------------------
(* The node: it appends any bytes, and may stop anywhere inside a line.    *)

EndsInNewline(N, n) == WholeWrites => (n = 0 \/ n \in N)

NodeAppend ==
    \E n \in size + 1 .. size + MaxWrite :
      \E N \in SUBSET (size + 1 .. n) :
        /\ n <= MaxSize
        /\ EndsInNewline(N, n)
        /\ size' = n
        /\ newlines' = newlines \cup N
        /\ UNCHANGED <<mishaps, watch, start>>

-----------------------------------------------------------------------------
(* The reader.                                                             *)

\* NewFileReader: the file is positioned at p, its size taken by Stat.
Opened(p) ==
    /\ position = p
    /\ fileSize = size
    /\ pc = "reading"
    /\ result = -1
    /\ sent = <<>>

LineEnd(n) == n > position /\ \A m \in newlines : m > position => n <= m

\* sendFunc is called for the bytes up to offset n unless they are the empty
\* string once the newline is trimmed.
Send(n, blank) ==
    sent' = IF blank THEN sent ELSE Append(sent, [from |-> position, to |-> n])

Return(p, how) == pc' = how /\ result' = p

\* ReadFile gives up at once on a file that was empty when it was opened.
ReadEmpty ==
    /\ pc = "reading"
    /\ fileSize = 0
    /\ Return(0, "done")
    /\ UNCHANGED <<position, fileSize, sent>>

\* ReadLine finds a newline: the line is sent without it.
ReadLine ==
    /\ pc = "reading"
    /\ fileSize # 0
    /\ \E n \in newlines :
         /\ LineEnd(n)
         /\ position' = n
         /\ Send(n, n = position + 1)
    /\ UNCHANGED <<fileSize, pc, result>>

\* What ReadFile does with io.EOF once the position is p.
AtEOF(p) ==
    IF watch THEN pc' = "waiting" /\ UNCHANGED result ELSE Return(p, "done")

\* ReadLine reaches the end of the file first: what is there is sent, a whole
\* line or not.
ReadTail ==
    /\ pc = "reading"
    /\ fileSize # 0
    /\ \A n \in newlines : n <= position
    /\ position' = size
    /\ Send(size, size = position)
    /\ AtEOF(size)
    /\ UNCHANGED fileSize

\* WaitForChanges sees the file longer than at the last Stat: Reopen.
Reopen ==
    /\ pc = "waiting"
    /\ fileSize < size
    /\ fileSize' = size
    /\ pc' = "reading"
    /\ UNCHANGED <<position, result, sent>>

\* Mutant: the size of the last Stat is returned in place of the position.
TimeoutAtFileSize ==
    /\ pc = "waiting"
    /\ Return(fileSize, "done")
    /\ UNCHANGED <<position, fileSize, sent>>

\* WaitForChanges returns errMaxTimeDuration: not an error for ReadFile.
Timeout ==
    /\ pc = "waiting"
    /\ Return(position, "done")
    /\ UNCHANGED <<position, fileSize, sent>>

\* read(2) fails inside a line: the bytes read so far are sent first.
ReadFails ==
    /\ Faulty
    /\ pc = "reading"
    /\ fileSize # 0
    /\ \E n \in position + 1 .. size :
         /\ \A m \in newlines : m <= position \/ m > n
         /\ position' = n
         /\ Send(n, FALSE)
         /\ Return(n, "failed")
    /\ UNCHANGED fileSize

\* read(2) fails before any byte: ReadLine compares positions and calls it EOF.
ReadFailsAsEOF ==
    /\ Faulty
    /\ pc = "reading"
    /\ fileSize # 0
    /\ AtEOF(position)
    /\ UNCHANGED <<position, fileSize, sent>>

\* Stat, Open or Seek fails while waiting.
WaitFails ==
    /\ Faulty
    /\ pc = "waiting"
    /\ Return(position, "failed")
    /\ UNCHANGED <<position, fileSize, sent>>

NormalStep == ReadEmpty \/ ReadLine \/ ReadTail \/ Reopen \/ Timeout

FaultyStep == ReadFails \/ ReadFailsAsEOF \/ WaitFails

ReaderStep == NormalStep \/ FaultyStep

-----------------------------------------------------------------------------

Init ==
    /\ mishaps \in SUBSET Mishaps
    /\ size \in 0 .. MaxSize
    /\ newlines \in SUBSET (1 .. size)
    /\ EndsInNewline(newlines, size)
    /\ watch \in BOOLEAN
    /\ start \in 0 .. size
    /\ Opened(start)

Next ==
    \/ NodeAppend /\ UNCHANGED reader
    \/ ReaderStep /\ UNCHANGED file

Spec == Init /\ [][Next]_vars

-----------------------------------------------------------------------------

\* Every variable has its type; the newline offsets lie inside the file and
\* the reader inside the part of it that exists.
TypeOK ==
    /\ size \in Nat
    /\ newlines \subseteq 1 .. size
    /\ mishaps \subseteq Mishaps
    /\ watch \in BOOLEAN
    /\ start \in 0 .. size
    /\ position \in start .. size
    /\ fileSize \in 0 .. size
    /\ pc \in {"reading", "waiting", "done", "failed"}
    /\ result \in Nat \cup {-1}
    /\ sent \in Seq(Piece)

\* ReadFile loses and repeats nothing: the pieces sent follow one another, lie
\* between start and position, and leave out only newline bytes.  A line is
\* dropped when ReadLine finds its position unmoved, so in BufferedReader this
\* also says that GetPosition's arithmetic tells every line from the last one.
ExactlyOnce ==
    /\ \A i \in 1 .. Len(sent) :
         start <= sent[i].from /\ sent[i].from < sent[i].to /\ sent[i].to <= position
    /\ \A i, j \in 1 .. Len(sent) : i < j => sent[i].to <= sent[j].from
    /\ \A b \in start + 1 .. position :
         b \in newlines \/ \E i \in 1 .. Len(sent) : sent[i].from < b /\ b <= sent[i].to

\* WaitForChanges compares the file with the size of the last Stat, not with
\* the position.  It still notices every unread byte, however the appends fall
\* between the Stat, the reads and the wait, unless a read fails.
NoMissedGrowth == ~Faulty /\ pc = "waiting" /\ position < size => fileSize < size

\* A ReadFile that returns without an error returns the position the next one
\* must start from and, if no read fails, has sent all that the last Stat saw.
ReturnsAfterAll == pc = "done" => result = position /\ (fileSize <= result \/ Faulty)

\* Every string given to sendFunc is a whole line, which the consumer parses as
\* one record, as long as writes are whole and reads do not fail.
WholeLines == WholeWrites /\ ~Faulty => \A i \in 1 .. Len(sent) : sent[i].to \in newlines

\* ReadFile returns once the node stops writing to the file.
Returns == <>(pc \in {"done", "failed"})

=============================================================================
