----------------------------- MODULE LogsReader -----------------------------
(***************************************************************************)
(* filereader/reader.go: the Reader follows a directory of log files that  *)
(* the Cosmos node fills one after the other, and keeps in file_list.txt   *)
(* how far it has read each, to resume there when it is started again.     *)
(*                                                                         *)
(* One goroutine does everything (StartSendingFilesInQueue), interleaved   *)
(* with the node and with a cancellation of its context; the process may   *)
(* crash at any point.  While a file is read the step is one of module     *)
(* FileReader's.                                                           *)
(***************************************************************************)
EXTENDS Integers, Sequences, FiniteSets, SequencesExt

CONSTANTS
    NumFiles,       \* bound of the runs: log files the node creates
    MaxLines,       \* bound of the runs: lines of one file
    MaxRestarts,    \* bound of the runs: times the process is started again
    Capacity,       \* capacity of the filesToRead channel (100000)
    PathLen,        \* length of a log file's path, the same for all
    Radix,          \* base in which a position is printed
    MaxFaults       \* bound of the runs: failing Opens, reads, Stats and writes

ASSUME LogsAssumption ==
    /\ {NumFiles, MaxLines, MaxRestarts, Capacity, MaxFaults} \subseteq Nat
    /\ PathLen \in Nat \ {0}
    /\ Radix \in Nat \ {0, 1}

\* A file is named by its place in the order of creation, in which the names
\* sort as well.
File == 1 .. NumFiles
NoFile == 0

\* A line is one byte of text and its newline.
LineLen == 2
IsNewline(b) == b % LineLen = 0

VARIABLES
    created,        \* the node has created files 1 .. created
    size,           \* length of each file
    written,        \* history: the lines of all files in the order it wrote them
    list,           \* bytes of file_list.txt
    \* The process.
    pc,             \* where StartSendingFilesInQueue stands
    cancelled,      \* ctx is done
    listing,        \* what the last ReadDir returned
    fileMap,        \* Reader.fileMap: position by file
    queue,          \* the filesToRead channel
    lastFile,       \* Reader.lastFile
    listPos,        \* write offset of the open file_list.txt
    cur,            \* file being read
    position, fileSize, readPc, result, sent,   \* its FileReader
    \* History.
    out,            \* pieces sent by this process from files it is done with
    ever,           \* how far each file had been sent when it was last left
    recorded,       \* position last recorded for each file
    restarts,       \* times the process was started again
    faults          \* system calls that have failed

node    == <<created, size, written>>
history == <<out, ever, recorded, restarts, faults>>
fr      == <<position, fileSize, readPc, result, sent>>
mem     == <<listing, fileMap, queue, lastFile, listPos>>
vars    == <<created, size, written, list, pc, cancelled, listing, fileMap, queue,
             lastFile, listPos, cur, position, fileSize, readPc, result, sent,
             out, ever, recorded, restarts, faults>>

\* The FileReader of the file being read.
FR == INSTANCE FileReader WITH
        mishaps <- IF MaxFaults > 0 THEN {"fault"} ELSE {},
        MaxSize <- MaxLines * LineLen,
        MaxWrite <- LineLen,
        size <- size[cur],
        newlines <- {b \in 1 .. size[cur] : IsNewline(b)},
        watch <- TRUE,
        start <- 0,
        pc <- readPc

-----------------------------------------------------------------------------
(* file_list.txt.  A record "<path>;<position>\n" is a run of bytes, each   *)
(* naming the record it belongs to and how much of it is left.             *)

Digits(p) == 1 + Cardinality({k \in 1 .. p : Radix ^ k <= p})

Width(p) == PathLen + 1 + Digits(p) + 1

RecordBytes(f, p) ==
    [k \in 1 .. Width(p) |-> [name |-> f, position |-> p, left |-> Width(p) + 1 - k]]

\* Mutant: every write goes to the start of the file.
OverwriteFirst(bytes, o, new) == new \o SubSeq(bytes, Len(new) + 1, Len(bytes))

\* What a write at offset o leaves of the bytes that were there: the file is
\* not opened with O_APPEND.
Overwrite(bytes, o, new) ==
    SubSeq(bytes, 1, o) \o new \o SubSeq(bytes, o + Len(new) + 1, Len(bytes))

LineStarts == {i \in DOMAIN list : i = 1 \/ list[i - 1].left = 1}

\* Each line is a whole record or what an overwrite left of one; an empty line
\* is not handed to markFileAsRead.
ListLines == {i \in LineStarts : list[i].left > 1}

HasSeparator(b) == b.left >= Digits(b.position) + 2

NameOf(b) == IF b.left = Width(b.position) THEN b.name ELSE NoFile

-----------------------------------------------------------------------------
(* The node.                                                               *)

CreateFile ==
    /\ created < NumFiles
    /\ created' = created + 1
    /\ UNCHANGED <<size, written>>

LineAt(f, p) == [file |-> f, from |-> p, to |-> p + LineLen]

WriteLine ==
    /\ created > 0
    /\ size[created] < MaxLines * LineLen
    /\ size' = [size EXCEPT ![created] = @ + LineLen]
    /\ written' = Append(written, LineAt(created, size[created]))
    /\ UNCHANGED created

Node ==
    /\ CreateFile \/ WriteLine
    /\ UNCHANGED <<list, pc, cancelled, mem, cur, fr, history>>

-----------------------------------------------------------------------------
(* The process.                                                            *)

CurPieces == [i \in DOMAIN sent |-> [file |-> cur, from |-> sent[i].from, to |-> sent[i].to]]

\* Everything this process has given to sendFunc.
Delivered == out \o CurPieces

\* How far each file has been sent by this process or an earlier one.
SentUpTo(f) == IF f = cur /\ ever[f] < position THEN position ELSE ever[f]

NoFileReader ==
    /\ cur' = NoFile
    /\ position' = 0
    /\ fileSize' = 0
    /\ readPc' = "idle"
    /\ result' = 0
    /\ sent' = <<>>

LeaveFile ==
    /\ NoFileReader
    /\ out' = Delivered
    /\ ever' = [f \in File |-> SentUpTo(f)]

\* Mutant: the loop scans for files without looking at ctx.
ReadDirForever ==
    /\ pc = "select"
    /\ queue = <<>>
    /\ pc' = "listed"
    /\ listing' = 1 .. created
    /\ UNCHANGED <<list, cancelled, fileMap, queue, lastFile, listPos, cur, fr, history>>

\* The select loop looks for files when the channel is empty.
ReadDir ==
    /\ pc = "select"
    /\ ~cancelled
    /\ queue = <<>>
    /\ pc' = "listed"
    /\ listing' = 1 .. created
    /\ UNCHANGED <<list, cancelled, fileMap, queue, lastFile, listPos, cur, fr, history>>

\* Mutant: position 0 is taken for a file that was never read.
IsLatestFileOnceRead(f) ==
    f = lastFile.name /\ lastFile.position > 0 /\ lastFile.position < size[f]

IsLatestFileAndChangedSize(f) == f = lastFile.name /\ lastFile.position < size[f]

NewFiles == {f \in listing : f \notin DOMAIN fileMap \/ IsLatestFileAndChangedSize(f)}

\* Mutant: a file that has grown is queued without its old position.
FromStart(f) == 0

OldPosition(f) == IF f \in DOMAIN fileMap THEN fileMap[f] ELSE 0

\* Mutant: the sort puts the last name first.
SortedDescending(S) ==
    {q \in [1 .. Cardinality(S) -> S] : \A i, j \in DOMAIN q : i < j => q[i] > q[j]}

\* The one way to send the names of S in order.
SortedByName(S) ==
    {q \in [1 .. Cardinality(S) -> S] : \A i, j \in DOMAIN q : i < j => q[i] < q[j]}

\* addNewFilesToReader: this goroutine alone drains the channel, so it is stuck
\* for good when the new files exceed the channel's capacity.
AddNewFiles ==
    /\ pc = "listed"
    /\ pc' = IF Cardinality(NewFiles) > Capacity THEN "blocked" ELSE "select"
    /\ fileMap' = [f \in DOMAIN fileMap \cup NewFiles |->
                     IF f \in NewFiles THEN OldPosition(f) ELSE fileMap[f]]
    /\ queue' \in SortedByName(NewFiles)
    /\ listing' = {}
    /\ UNCHANGED <<list, cancelled, lastFile, listPos, cur, fr, history>>

\* A file is taken from the channel and opened where its last read ended: the
\* FileReader starts as FR!Opened says.
StartFile ==
    /\ pc = "select"
    /\ queue # <<>>
    /\ pc' = "reading"
    /\ cur' = Head(queue)
    /\ queue' = Tail(queue)
    /\ position' = fileMap[cur']
    /\ fileSize' = size[cur']
    /\ readPc' = "reading"
    /\ result' = -1
    /\ sent' = <<>>
    /\ UNCHANGED <<list, cancelled, listing, fileMap, lastFile, listPos, history>>

Fault == faults < MaxFaults /\ faults' = faults + 1

\* NewFileReader fails: the break leaves the select alone, the file is dropped.
StartFails ==
    /\ Fault
    /\ pc = "select"
    /\ queue # <<>>
    /\ queue' = Tail(queue)
    /\ UNCHANGED <<list, pc, cancelled, listing, fileMap, lastFile, listPos, cur, fr,
                   out, ever, recorded, restarts>>

\* A step of ReadFile.
Read ==
    /\ pc = "reading"
    /\ \/ FR!NormalStep /\ UNCHANGED faults
       \/ FR!FaultyStep /\ Fault
    /\ UNCHANGED <<list, pc, cancelled, mem, cur, out, ever, recorded, restarts>>

\* Mutant: the size of the last Stat is recorded.
SizeAtStat == fileSize

PositionReturned == result

\* ReadFile returned: its position goes to file_list.txt and to memory.
Record ==
    /\ pc = "reading"
    /\ readPc = "done"
    /\ pc' = "select"
    /\ list' = Overwrite(list, listPos, RecordBytes(cur, PositionReturned))
    /\ listPos' = listPos + Width(PositionReturned)
    /\ fileMap' = [fileMap EXCEPT ![cur] = PositionReturned]
    /\ lastFile' = [name |-> cur, position |-> PositionReturned]
    /\ recorded' = [recorded EXCEPT ![cur] = PositionReturned]
    /\ LeaveFile
    /\ UNCHANGED <<cancelled, listing, queue, restarts, faults>>

\* ReadFile or WriteString failed: nothing is recorded, nothing tried again.
Drop ==
    /\ pc = "reading"
    /\ \/ readPc = "failed" /\ UNCHANGED faults
       \/ readPc = "done" /\ Fault
    /\ pc' = "select"
    /\ LeaveFile
    /\ UNCHANGED <<list, cancelled, mem, recorded, restarts>>

Cancel ==
    /\ ~cancelled
    /\ cancelled' = TRUE
    /\ UNCHANGED <<list, pc, mem, cur, fr, history>>

\* The select loop sees ctx.Done; with a file queued as well it may take either.
Stop ==
    /\ pc = "select"
    /\ cancelled
    /\ pc' = "stopped"
    /\ UNCHANGED <<list, cancelled, mem, cur, fr, history>>

Crash ==
    /\ pc \in {"select", "listed", "blocked", "reading"}
    /\ restarts < MaxRestarts
    /\ pc' = "down"
    /\ LeaveFile
    /\ UNCHANGED <<list, cancelled, mem, recorded, restarts, faults>>

\* NewReader: markFileAsRead replays file_list.txt, and writes will start at
\* its first byte.  A line without a separator makes it index out of range.
Restart ==
    /\ pc \in {"down", "stopped"}
    /\ restarts < MaxRestarts
    /\ restarts' = restarts + 1
    /\ cancelled' = FALSE
    /\ queue' = <<>>
    /\ listing' = {}
    /\ listPos' = 0
    /\ out' = <<>>
    /\ pc' = IF \A i \in ListLines : HasSeparator(list[i]) THEN "select" ELSE "panicked"
    /\ fileMap' =
         [f \in {NameOf(list[i]) : i \in ListLines} \ {NoFile} |->
            Max({list[i].position : i \in {j \in ListLines : NameOf(list[j]) = f}})]
    /\ lastFile' =
         IF ListLines = {} THEN [name |-> NoFile, position |-> 0]
         ELSE LET b == list[Max(ListLines)] IN [name |-> NameOf(b), position |-> b.position]
    /\ UNCHANGED <<list, cur, fr, ever, recorded, faults>>

ReaderStep ==
    /\ \/ ReadDir \/ AddNewFiles \/ StartFile \/ StartFails
       \/ Read \/ Record \/ Drop \/ Stop
    /\ UNCHANGED node

Environment == (Cancel \/ Crash \/ Restart) /\ UNCHANGED node

-----------------------------------------------------------------------------

Init ==
    /\ created = 0
    /\ size = [f \in File |-> 0]
    /\ written = <<>>
    /\ list = <<>>
    /\ pc = "select"
    /\ cancelled = FALSE
    /\ listing = {}
    /\ fileMap = <<>>
    /\ queue = <<>>
    /\ lastFile = [name |-> NoFile, position |-> 0]
    /\ listPos = 0
    /\ cur = NoFile
    /\ position = 0
    /\ fileSize = 0
    /\ readPc = "idle"
    /\ result = 0
    /\ sent = <<>>
    /\ out = <<>>
    /\ ever = [f \in File |-> 0]
    /\ recorded = [f \in File |-> 0]
    /\ restarts = 0
    /\ faults = 0

Next == Node \/ ReaderStep \/ Environment

Spec == Init /\ [][Next]_vars

\* The goroutine is always runnable; nothing is assumed of the node, of the
\* cancellation or of crashes.
FairSpec == Spec /\ WF_vars(ReaderStep)

-----------------------------------------------------------------------------

PieceOf == [file : File, from : Nat, to : Nat]

\* Types; the position taken for a file never exceeds its length, and the
\* write offset stays inside file_list.txt.
TypeOK ==
    /\ created \in 0 .. NumFiles
    /\ size \in [File -> Nat]
    /\ written \in Seq(PieceOf)
    /\ pc \in {"select", "listed", "blocked", "reading", "down", "stopped", "panicked"}
    /\ cancelled \in BOOLEAN
    /\ listing \subseteq 1 .. created
    /\ DOMAIN fileMap \subseteq 1 .. created
    /\ \A f \in DOMAIN fileMap : fileMap[f] \in 0 .. size[f]
    /\ queue \in Seq(DOMAIN fileMap)
    /\ lastFile \in [name : File \cup {NoFile}, position : Nat]
    /\ listPos \in 0 .. Len(list)
    /\ cur \in File \cup {NoFile}
    /\ pc = "reading" <=> cur # NoFile
    /\ pc = "reading" => FR!TypeOK
    /\ out \in Seq(PieceOf)
    /\ ever \in [File -> Nat]
    /\ recorded \in [File -> Nat]
    /\ restarts \in 0 .. MaxRestarts
    /\ faults \in 0 .. MaxFaults

Stream == INSTANCE LineStream WITH
            Line <- [file : File, from : 0 .. MaxLines * LineLen, to : 1 .. MaxLines * LineLen],
            delivered <- Delivered

\* As long as its process lives and no system call fails, the reader hands on
\* the node's lines in order, none skipped and none twice, whatever the timing
\* of appends, new files, timeouts and directory scans.
StreamInOrder == Stream!Spec

\* Growth is noticed whenever it comes: a line the node wrote is sent in the
\* end, though scans look only for new files and for growth of the last one.
EverythingSent ==
    \A f \in File, n \in 1 .. MaxLines :
      size[f] >= n * LineLen ~> (cancelled \/ SentUpTo(f) >= n * LineLen)

\* A cancelled reader stops once the node leaves the file being read alone: ctx
\* is looked at between two files only.
CancelStops == cancelled ~> pc = "stopped"

\* Whatever fails, and whatever file_list.txt has been overwritten with, the
\* position taken for a file is one up to which its lines have been sent.
ResumesAtSent == \A f \in DOMAIN fileMap : fileMap[f] <= ever[f]

\* Whatever a restart makes of file_list.txt, one process never goes back unless
\* a system call fails: what it sends is strictly increasing in file and, inside
\* a file, without a gap.
NeverGoesBack ==
    faults = 0 => \A i, j \in DOMAIN Delivered : i < j =>
      \/ Delivered[i].file < Delivered[j].file
      \/ /\ Delivered[i].file = Delivered[j].file
         /\ Delivered[i].to <= Delivered[j].from
         /\ j = i + 1 => Delivered[i].to = Delivered[j].from

\* file_list.txt keeps the position of every file read: a reader started again
\* continues from the positions it recorded before.
RemembersRecorded ==
    \A f \in File :
      recorded[f] > 0 /\ pc \in {"select", "listed", "reading"} =>
        f \in DOMAIN fileMap /\ fileMap[f] >= recorded[f]

=============================================================================
