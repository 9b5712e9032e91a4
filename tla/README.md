# firehose-cosmos: specifications, model checking and proofs

This directory specifies the parts of firehose-cosmos that can go wrong in an
order of events nobody wrote a test for: how the lines of a Cosmos node reach
the reader (from its log files or its standard output), how they become blocks,
and how index files let a filtered stream skip blocks. The modules are
translated from the Go code; `PROJECT.json` names, for every definition, the
lines it stands for.

Contents

1. [The system](#1-the-system)
2. [The modules](#2-the-modules)
3. [The runs](#3-the-runs)
4. [Fairness](#4-fairness)
5. [Proofs](#5-proofs)
6. [Where code and its comments disagree](#6-where-code-and-its-comments-disagree)
7. [What is not modelled](#7-what-is-not-modelled)
8. [Plan](#8-plan)

How to use it:

    tlc -workers 2 -config MCBufferedReader.cfg BufferedReader   # one run
    tlapm FileReader_proofs.tla                                  # one proof

## 1. The system

firehose-cosmos instruments a Cosmos node. The node, patched with
extractor-cosmos, prints one `DMLOG` line per part of a block. The *reader app*
takes these lines from one of three sources and gives them to the mindreader
plugin (an external library), which calls the *console reader* of this
repository to make blocks of them. Blocks end up in a store; offline *index
tools* read them and write index files; *Firehose* streams blocks to clients
through *transforms*, which filter blocks and use the index files to skip some.

     log files --> filereader.Reader --.
     node's stdout --> NodeRunner -----+--> LogLine --> lines channel --> ConsoleReader --> blocks
     own stdin --> StartLineReader ----'    (mindreader, external)                            |
                                                                                  merged blocks store
                                                                                    |            |
                                                                       index tool --+            |
                                                                           |                     |
                                                                       index store --> provider --> filtered stream

| Component | State it keeps | Operations | What is hard | What makes it correct |
|---|---|---|---|---|
| File reader, `filereader/file_reader.go` | open file, buffered reader, `position`, `fileSize` | `NewFileReader`, `ReadFile` (`ReadLine`, `WaitForChanges`, `Reopen`) | the node appends between a Stat, a read and the wait; position arithmetic over a buffer and a reopen; torn writes; failing reads | every byte once; growth never slept over; the position returned is the one to resume from |
| Logs directory reader, `filereader/reader.go` | `fileMap`, `lastFile`, the `filesToRead` channel, `file_list.txt` | `NewReader` (replay), scan, queue, read, record, stop | scans between two creations, growth of a file already left, crashes between send and record, a list file overwritten in place, errors that `break` out of a `select` | it implements a stream of lines in order, each once; a restart never skips unsent lines |
| Node runner, `noderunner/` | subprocess, its stdout pipe, the `readerDone` channel, kill timer | `Start`, `cmd.Wait`, line reader, cancel goroutine, kill timer | four actors: exit, Wait, last read and timer in any order; children that keep the output open; lines cut anywhere by buffer and pipe | it implements a stream of lines in order, each once; it returns if the node exits or the context ends; nothing happens after it returned; output is not lost |
| Console reader, `codec/consolereader.go`, `parser.go` | bounded `lines` channel, `height`, `block` | `ReadBlock` on BEGIN, BLOCK, TX, VSET, END | the node crashes in a block and prints it again; the reader resumes inside a block; a line arrives torn | only whole blocks, going up the chain; every ended block comes out |
| Transforms, `transform/` | none | three filters, three indexers, the index provider | indexer and filter must agree on keys, or blocks vanish silently | an index never hides a block with content |
| Index tools, `tools/*_index.go` | the bundle being collected, the index store | start (find next unindexed), per block handler, end | killed inside a bundle; several kinds and bundle sizes in one store; a start inside a bundle | every file exact from where its tool began, every bundle indexed, resumes where its own index ends, stops at the stop block |
| Reader app, `cli/reader.go`, `start.go` | the app's and the plugin's Shutter, the source's context, the start command's select | `Run`, the goroutine of the source, `OnTerminated` and `OnTerminating` callbacks, `Terminated`, `runStartCommand` | source, plugin and operator end each other in any order, while lines are queued, while a send is blocked, while the node ignores its signal | whoever ends first, the program ends; not before the source and its last line are through |
| Head trackers, `cli/*_head_tracker.go` | cached head, lock | `Get` | a hanging request under the lock | – (nothing constructs them) |
| Codec registry, block files, command line, other tools | configuration | – | – | – |

Components interact through calls (`LogLine` is called synchronously by every
source and blocks while the channel is full), through files (`file_list.txt`,
log files, index files), through the pipe of the node's output and through the
context that is cancelled when the app shuts down. Every hazard found in the
code is listed with its line and the properties that watch it under `hazards`
in `PROJECT.json`.

## 2. The modules

    LineStream            what a source promises (abstract)
       ^ implemented by LogsReader and by NodeRunner (INSTANCE ... WITH)
    FileReader            <--EXTENDS-- BufferedReader <--EXTENDS-- FileReader_proofs
       ^ INSTANCE                      (which implements it)
    LogsReader            <--EXTENDS-- LogsReader_proofs <--EXTENDS-- LogsStream_proofs
                                                         <--EXTENDS-- LogsList_proofs
    NodeRunner            <--EXTENDS-- NodeRunner_proofs
       ^ EXTENDS                          ^ EXTENDS
    ReaderApp             <--EXTENDS-- ReaderApp_proofs
    ConsoleReader         <--EXTENDS-- MCConsoleReader
                          <--EXTENDS-- ConsoleReader_proofs
    Transform <--EXTENDS-- BlockIndex  <--EXTENDS-- MCBlockIndex
                                       <--EXTENDS-- BlockIndex_proofs

**FileReader** (`file_reader.go`). The file is append-only and cut down to its
length and the offsets of its newlines; a string given to `sendFunc` is the
interval of the file it was cut from. `ReadLine` and `ReadTail` are the two ways
the Go function `ReadLine` returns (newline found, end of file reached, what is
there sent in both cases), `Reopen` and `Timeout` the two ways
`WaitForChanges` ends, `ReadEmpty` the early return on an empty file. The
variable `mishaps` says what may go wrong in a behaviour: writes of the node
that end inside a line ("torn"), and failing system calls ("fault"), which are
`ReadFails`, `ReadFailsAsEOF` and `WaitFails`. Note `ReadFailsAsEOF`: `ReadLine`
decides "end of file" by comparing positions, so a `read` that fails before its
first byte looks like one.

**BufferedReader** (`file_reader.go`, and the `bufio.Reader` it uses) is the same
reader one level down, and implements FileReader. FileReader's one position is here
what `GetPosition` computes of the offset of the open file and of the bytes in
the buffer. `Fill` is a `read(2)` of any length, `BufferFull` a buffer that fills
before the line ends (`ReadString` puts it into `fragments`), `LineRead`,
`EndOfFile` and `ReadError` the ways `ReadString` returns, `BufferedReopen` the new file
and buffer set to the position. Bytes in memory are the interval of the file they
were read from, and a string given to `sendFunc` is joined from these intervals. The
node may append between two reads of one line, which FileReader takes in one step.

**LogsReader** (`reader.go`). One loop: `ReadDir`, `AddNewFiles`, `StartFile`,
the steps of `FileReader` on the file in hand (`FR!NormalStep`,
`FR!FaultyStep`, by INSTANCE), `Record`, and the error path `Drop`/`StartFails`.
The environment appends, creates files, cancels, crashes and restarts the
process. `file_list.txt` is modelled byte by byte, since the code overwrites it
in place after a restart: a byte is named by the record it belongs to and how
much of that record is left, so that the remainder of a longer record under a
shorter one is exactly what `markFileAsRead` would parse. `Restart` replays the
list as `NewReader` does, including the panic on a line without a separator.

**LineStream** is the abstract specification: written lines, delivered lines,
one delivered at a time, in order. LogsReader implements it with the history
variable `written` (the lines of all files, in the order the node wrote them) and
the mapping `Delivered` (what this process has sent), NodeRunner through
`LinesIn`: of the units that `Finished` lines consist of, and of the units handed on.
A line is the interval of its units, and so a part of a line handed on is
another line than the whole, and never in the node's output, unless the node died
there.

**NodeRunner** (`node_runner.go`, `line_reader.go`). Four actors as separate
actions: the goroutine in `Start` (`WaitReturns`, `StartReturns`), the line reader
(`HandLine`, `Fill`, `HandRest`, `EndOfFile`, `ReadError`), the goroutine that waits
for the context (`SignalInt`, `ArmTimer`) and the timer (`TimerFires`), beside the
node, which writes, exits, ignores the INT, and may leave a child that holds its
output. Output is abstracted to offsets `handed <= taken <= written`. What `os/exec`
does is taken from its use: `Wait` reaps the process, waits for the copy of a stderr
that is not a file, and closes the read end of `StdoutPipe`. (`proc = "exited"` is a
zombie: signals to it succeed and do nothing; signals after `Wait` fail with
`ErrProcessDone`.) `Init` has a second alternative in which `Start` has failed at
once and nothing runs.

**ReaderApp** (`cli/reader.go`, `start.go`) extends NodeRunner, whose actions it
takes over in `node` mode; in `stdin` mode only the line reader of it runs, and in
`logs` mode `LogsHand` and `LogsEnd` stand for what LogsReader promises. The loop
looks at its context only between two files, and `ReadFile` leaves a file only once
it has not grown for `maxDuration`: `growing` says that a node keeps the file in
hand from that (`GrowthTurns` begins or ends it), and `LogsEnd` waits until it is
over. On top come the send into the plugin's channel (`Send`, which blocks while the
channel is full), the source's goroutine with its final `Stop` and `Shutdown`
(`SourceReturns`, `StopReturns`), the callbacks (`AppShutdown`, `CancelSource`) and
the start command (`Signal`, `SeesTerminating`, `Exits`). The plugin and the
launcher are external and assumed to do what their use here relies on: `LogLine`
returns at once when the plugin is terminating and otherwise puts the line into the
channel; `Stop` closes the channel and waits for the read loop; a plugin that was
shut down terminates in the end. `GiveUp` covers every reason the plugin has of its
own to end: an error of `ReadBlock`, a block that cannot be stored, a stop block; it
then empties the channel without reading. Whether the plugin's `Terminated` channel
is closed before or after its `OnTerminated` callback ran is left open, and so both
orders of `AppShutdown` and `PluginTerminated` occur.

**ConsoleReader** (`consolereader.go`, `parser.go`). The node's log, the lines
channel and the reader. A line is its kind, height and index. `NodeRestart`
prints the current, the previous or the next block from its BEGIN;
`ReaderRestart` makes a new `ConsoleReader` and resumes at any line handed on
before. `HandOnTorn` is a line torn by a read: torn in its prefix both parts are
skipped; torn later its head is a line of its own, which `parseLine` rejects
("INVALID"), or takes for one with a shorter number (`NumberHeads`; heights are
printed in base `Radix`) or with fewer fields (`DataHeads`: a protobuf message
cut between two fields decodes). One action per case of `next`, with its errors
and nil dereferences, of the block and of a block's missing header. `EndOfLines` is
the `io.EOF` of a channel that was closed and is empty: no line comes after it.

**Transform** (`transform/`). The filters and the indexers as operators on
blocks cut down to sets of event types and message types. `HasContent` says
what "something of what the client asked for" means for each filter.

**BlockIndex** (`tools/*_index.go`, `*_index_provider.go`). The chain grows; a
tool of one of the three kinds is started, with any start block, any bundle size and any
set of sizes to look up, reads blocks and writes a file when
it passes a bundle's end, and ends or is killed anywhere; a stop block is
`asked` of it, and `StopOf` is what each command makes of that; one filtered stream
goes along the chain and skips what an index file rules out, asking any one of
the files whose bundles cover the height (`Covering`). `BlockIndexer`,
`FindNextUnindexed` and the indexed file source belong to bstream and are
modelled by how the code here uses them: in particular, an indexer that is given a
start block in the middle of a bundle writes that bundle's file all the same,
without the blocks before it. Two history fields of a file say what a
file of the code does not: `from`, the first height its tool read of the bundle, and
`wellBegun`, whether the tool's start block and lookup sizes kept it from entering a
bundle in the middle.

Mutants. Definitions introduced by "Mutant:" are forms of the definition below
them with a plausible bug in it (a dropped guard, a missing reset, a wrong
offset). No specification uses them: each is there to show that one property
fails when the code has that bug (`mutants` in `PROJECT.json`).

## 3. The runs

| Run | Configuration | Distinct states | Properties |
|---|---|---|---|
| filereader | `BufferedReader`, `MCBufferedReader.cfg` | 82 641 | BufferedTypeOK, ExactlyOnce, NoMissedGrowth, ReturnsAfterAll, WholeLines, Returns, ImplementsFileReader |
| logs_clean | `LogsReader`, `MCLogsReader_clean.cfg` | 19 682 | TypeOK, StreamInOrder, EverythingSent, CancelStops |
| logs_restarts | `LogsReader`, `MCLogsReader_restarts.cfg` | 3 825 050 | NeverGoesBack, ResumesAtSent |
| logs_resume | `LogsReader`, `MCLogsReader_resume.cfg` | violated | RemembersRecorded |
| console_crash | `MCConsoleReader`, `MCConsoleReader_crash.cfg` | 316 741 | TypeOK, BlocksAreWhole, ChainGoesUp, EndedIsReturned |
| console_torn | `MCConsoleReader`, `MCConsoleReader_torn.cfg` | violated | NilBlockRejected |
| noderunner_cancel | `NodeRunner`, `MCNodeRunner_cancel.cfg` | 6 590 | TypeOK, CleanEndIsComplete, StreamInOrder, ReturnIsFinal, CancelReturns, ExitReturns |
| noderunner_exit | `NodeRunner`, `MCNodeRunner_exit.cfg` | violated | OutputNotLost |
| readerapp | `ReaderApp`, `MCReaderApp.cfg` | 161 260 | AppTypeOK, NoSendOnClosed, HandedIsRead, NodeIsStopped, SignalExits, SourceEndExits, GiveUpExits |
| index_stream | `MCBlockIndex`, `MCBlockIndex_stream.cfg` | 596 029 | TypeOK, IndexIsExact, StreamIsComplete, BundlesGetIndexed |
| index_resume | `MCBlockIndex`, `MCBlockIndex_resume.cfg` | violated | ResumesAtUnindexed |
| index_stop | `MCBlockIndex`, `MCBlockIndex_stop.cfg` | violated | StopsAtStopBlock |

What they show, and why the bounds are enough:

* **filereader**, files of up to 5 bytes, writes of up to 3, a buffer of two bytes,
  every combination of mishaps. Lines are shorter than, as long as and longer than
  the buffer and straddle it, a `read` gives less than there is, and the position is
  computed with bytes left in the buffer. BufferedReader implements FileReader. The
  file may be empty, end in a blank line or inside a line, or grow by several lines
  in one write before, during and after each of Stat, read and wait; three growths
  in a row happen, so a Reopen after a Reopen does. The reader starts at any
  position, watching or not. Each byte is covered once whatever goes wrong, and
  `ReadFile` returns; without faults growth is noticed and a file that does not grow
  any more was read to its end; with whole writes as well, lines stay whole. (With
  torn writes they do not: a consumer sees two strings for one line, which is where
  ConsoleReader's torn lines come from.)
* **logs_clean**, three files of two lines each, no crash. Three files are what
  it takes for a scan to find two new files at once and grow the one left
  behind; two lines make a file grow after it was read. The reader implements
  LineStream, sends everything in the end, and stops when cancelled.
* **logs_restarts**, three files of two lines, two crashes or stops with
  restarts, one failing system call, in any combination. Positions are printed
  in base 2 (`Radix`), so that records of different widths occur with files of 4
  bytes and an overwritten list has remainders of every kind. Even then a file
  is never resumed beyond what was sent of it (`ResumesAtSent`), and while no
  call failed one process never goes back and never leaves a gap in a file
  (`NeverGoesBack`). Under faults files are sent out of order or left
  unfinished: that is what the code does, and no property claims otherwise. A
  file whose read failed is still in `fileMap`, so its rest is not looked for
  unless it is the last one recorded.
* **console_crash**, three blocks (empty; a transaction and validator updates;
  two transactions), a channel of two lines, shorter than any block, and up to
  two crashes or torn lines in any combination. Two are needed: the node dies
  inside a block and the reader resumes inside the reprint. Heights are printed
  in base 2, so that 2 and 3 lose a digit and become 1. The channel may be
  closed at any time. Only whole blocks
  come out, going up the chain, and without a crash every ended block does. A
  torn line damages at most one block.
* **noderunner_cancel**, lines of two units, a pipe of four, a buffer of three,
  eight units written: the pipe fills and blocks the node, the buffer holds one line
  and a half, lines straddle buffer and pipe, the node dies inside a line. The
  runner implements LineStream: lines come in order, each once and in one piece, but
  for the unfinished line of a dead node. Start returns when the node exits or the
  context ends, unless a child that gets no signal holds a filtered stderr
  (`HeldByChild`); after that nothing touches the consumer or the process.
* **readerapp**, five units of output (two lines and a half), a pipe of three, a
  buffer of two and a channel of one line, in the three modes: a second line
  blocks in `LogLine`, a third waits in buffer and pipe and the node blocks on
  it. A signal, the end of the source and the plugin's giving up come at any
  step. Nobody sends on the closed channel; unless the plugin gives up, the
  program does not end before every line handed on was read by `ReadBlock`, nor
  while the node runs; and each of the three ends the program. `KeptOpen` names
  what keeps the first two from doing so: a child of the node that holds a
  filtered stderr; whoever holds standard input open, for no context
  interrupts a read of it; and in logs mode a node that goes on appending to the log
  file in hand, for `ReadFile` looks at no context either.
* **index_stream**, chains of up to 4 blocks of two kinds, bundles of two and of
  four heights (the first of each lacks height 0), two tool runs of any kind and
  either size, from block 1 or 3, looking up files of four heights or of both sizes,
  killed anywhere, and a stream with one of three filters, one of each kind. Two
  tools are needed for one to resume after the other. Block 3 begins a bundle of
  neither size, and a tool for bundles of four that looks up bundles of two resumes
  inside its own: so files that lack their first blocks do occur. There is no stop
  block, as `EndTool` may stop a tool anywhere. Index files are exact from the first
  height their tool read; a block that the stream misses lies before that height in
  a bundle that a tool which was not well begun has written; and bundles get
  indexed.

Deadlock checking is off in every run because every one of these programs may
really stop: the node writes a bounded number of lines, readers return, a
cancelled reader ends, a failed one does not go on.

Bounds that exist for TLC only: `MaxSize`, `MaxWrite`, `NumFiles`, `MaxLines`,
`MaxRestarts`, `MaxFaults`, `LastHeight`, `MaxWritten`, `MaxHeight`, `MaxTools`.
`Capacity`, `PipeCap`, `BufferCap`, `BufSize`, `LineLen`, `IndexSizes`, `Lookups`,
`StartBlocks`, `Stops`, `PathLen` and `Radix` are parameters of the code or its
environment, given small values.

## 4. Fairness

Weak fairness is assumed of the goroutines of the program and of nothing else.

* `FileReader`, `BufferedReader`, `LogsReader`: the reader's step. The goroutine
  never blocks: it polls the clock, the file and the directory with sleeps in
  between. (Blocked on the channel that it alone drains is a state of its own, in
  which no step is enabled.) `Returns` holds although `Timeout` and `Reopen` are one
  fair disjunction: the file is bounded, and each `Reopen` needs growth.
* `ConsoleReader`: `HandOn` (the source's goroutine) and `ReadBlock` (the
  plugin's read loop), each its own. The node owes nothing, and a line is
  lost, a process restarted, or the channel closed, without fairness.
* `NodeRunner`: `Main`, `LineReader`, `Canceller` and `TimerFires`: goroutines
  are scheduled, a started timer fires. The node is not fair: it may ignore the
  INT and never exit. Its death by `Kill` is the effect of `TimerFires`.
* `ReaderApp`: each goroutine of the program on its own, while the program has
  not exited: the source's reading and its send, the three of NodeRunner, its end
  (`SourceReturns`, `StopReturns`), the plugin's read loop and its termination,
  the two callbacks, the start command. Who writes to the source, the operator
  and `GiveUp` owe nothing, nor do `NewReaderFails` and `GrowthTurns`: a node may append
  to the file in hand for ever.
* `BlockIndex`: `ProcessBlock`, as a tool that is not killed keeps reading.
  Nothing is assumed of the chain, the start of tools, or clients.

## 5. Proofs

Every safety property that a passing run checks is also proved, as a theorem for
every value of the constants; so are both refinements of LineStream, and that of
FileReader. Of the five properties that the code violates, four are proved under a
hypothesis that excludes what breaks them, and so names the only thing that does
(the fifth, `StopsAtStopBlock`, fails by one comparison with the number of
arguments, and there is nothing to prove about it). What is assumed of the constants
is named in the modules, and gives types to the parameters. Beyond types it says: a
file list prints positions and a node prints heights in a base of at least two
(`Radix`); the channel of lines holds at least one; a chain has at least one block
(`ConsoleAssumption`); the buffer of a file holds at least one byte
(`BufferAssumption`); index tools start at a block above 0 (`IndexAssumption`). The
constants that bound the runs are arbitrary numbers.

| Theorem | Property | |
|---|---|---|
| `FileReader_proofs` `SentExactlyOnce`, `GrowthNoticed`, `ReturnCoversFile`, `LinesAreWhole` | `ExactlyOnce`, `NoMissedGrowth`, `ReturnsAfterAll`, `WholeLines` | invariants of FileReader |
| `FileReader_proofs` `BufferedImplements` | `ImplementsFileReader` | refinement |
| `FileReader_proofs` `BufferedTypeCorrect`, `BufferedExactlyOnce` | `BufferedTypeOK`, `ExactlyOnce` | invariants of BufferedReader |
| `LogsReader_proofs` `TypeCorrect`, `RestartSkipsNothing`, `DeliversInOrder` | `TypeOK`, `ResumesAtSent`, `NeverGoesBack` | invariants |
| `LogsStream_proofs` `ImplementsLineStream` | `StreamInOrder` | refinement |
| `LogsList_proofs` `RemembersThroughOneRestart` | `RemembersRecorded` | violated, holds up to the first restart |
| `ConsoleReader_proofs` `TypeCorrect`, `UpTheChain`, `OnlyTornLinesDamage` | `TypeOK`, `ChainGoesUp`, `BlocksAreWhole` | invariants |
| `ConsoleReader_proofs` `NilBlockNeedsTear` | `NilBlockRejected` | violated, holds if no line is torn |
| `NodeRunner_proofs` `TypeCorrect`, `CleanEnd` | `TypeOK`, `CleanEndIsComplete` | invariants |
| `NodeRunner_proofs` `NothingAfterReturn` | `ReturnIsFinal` | action property |
| `NodeRunner_proofs` `ImplementsLineStream` | `StreamInOrder` | refinement |
| `NodeRunner_proofs` `LostOnlyByClosing` | `OutputNotLost` | violated, holds if no read fails on the closed pipe |
| `ReaderApp_proofs` `AppTypeCorrect`, `ClosedInPeace`, `AllReadBeforeExit`, `NoOrphan` | `AppTypeOK`, `NoSendOnClosed`, `HandedIsRead`, `NodeIsStopped` | invariants |
| `BlockIndex_proofs` `TypeCorrect`, `FilesAreExact`, `NothingIsSkipped` | `TypeOK`, `IndexIsExact`, `StreamIsComplete` | invariants |
| `BlockIndex_proofs` `OriginToolsResume` | `ResumesAtUnindexed` | violated, holds for the event origin tool |

**FileReader_proofs.** Inductive invariant: `TypeOK`, `ExactlyOnce`, and

* `SeenEmpty`: a file whose last Stat saw it empty has not been read from, so
  the 0 that the early return gives is its position;
* `CaughtUp`: a waiting reader has read at least up to the size of the last
  Stat. This is the heart: `WaitForChanges` compares the file with that Stat
  and not with its position, which is enough only because of it. It holds only
  while reads do not fail, since `ReadFailsAsEOF` waits with bytes unread;
* `ResultIsPosition`: what was returned is the position.

`SentExactlyOnce` holds under mishaps as well; the properties of `GrowthNoticed`,
`ReturnCoversFile` and `LinesAreWhole` name the mishaps they exclude themselves.
The last needs one more invariant, `EndsWhole`: with whole writes and no faults
the file always ends in a newline.

BufferedReader implements FileReader by the identity on the variables they share
(`BufferedImplements`), for every length of the buffer and of every read. The
invariant is `CursorInv`: `BufferedTypeOK`, and `Adjacent`: from the position on, the
fragments put aside, the buffer and the rest of the file from the offset follow
each other without gap or overlap, and no newline is among the fragments. So the
bytes joined for a line are those from the position (`JoinAdds`), and `offset` less
what is buffered is where that line ends: a return of `ReadString` with a newline is
FileReader's `ReadLine`, one without is its `ReadTail` or `ReadFails`
(`LineIsRead`, `TailIsRead`), and every read before it is a stutter. What is proved of
FileReader then holds of the code with its buffer (`BufferedExactlyOnce`).

**LogsReader_proofs.** Three inductive invariants, each resting on the one before.

* `Types` holds under every crash, restart and fault. `TypeOK` and
  `ResumesAtSent` are not inductive: what a restart makes of `file_list.txt`
  depends on its bytes. So `Types` says of each byte (`ListByte`) that it belongs
  to a record of a file that exists and of a position up to which that file has
  been sent. Overwriting in place keeps this, since `Overwrite` makes up no byte
  (lemma `OverwriteKeeps`), however records of different width overlap; and a
  line replayed, whole or a remainder, has only such bytes
  (`LineIsByte`, `PositionsAreSent`). That is why a restart may forget a
  position but never invents one. `ReadingOK` carries what is needed of the
  FileReader in hand.
* `Aligned`: without a fault, files, positions and records stand at the ends of
  lines; so `ReadFile` sends whole lines and never fails.
* `InOrder`: without a fault, what was delivered is increasing (`Increasing`),
  lies before the position in hand (`BeforePosition`, `BeforeLastFile`), the
  channel continues from there in order (`QueueAhead`), and the files known are
  the first ones (`KnowsFirstFiles`, `ListingIsComplete`), so that no scan can
  find a file older than those it has. The last fact holds only once the process
  has acted on a scan: right after a restart, a mangled list may name any files.

**LogsStream_proofs.** `Spec /\ []Unharmed => StreamInOrder`, where `Unharmed` says
that no system call has failed and that the process was not restarted: the runs
show that the stream goes wrong otherwise, and a crash alone is allowed. Run
logs_clean has no faults and no restarts (its constants make `Unharmed` an
invariant), so it checks the same property. The
invariant `StreamIInv` says where the process stands in the node's output: the
lines delivered are exactly those up to the position in hand, or up to where the
last file was left (`AtCursor`); the files known, the channel and a listing are
intervals (`MapIsInterval`, `QueueIsInterval`, `ListingIsInterval`); and the
heart, `QueueGoesOn`: if files are queued while one is read, the next is its
successor, the node is done with the one in hand, and its end was seen by the Stat
of the open or a Reopen, so that it is read to its end before it is recorded.
(Were it left early, its rest would be overtaken.) A send then delivers the first
line not yet delivered (`SendsNext`), every other step of the process stutters.

**LogsList_proofs.** `Spec /\ [](restarts <= 1) => []RemembersRecorded`. In the
first process `file_list.txt` is written from its end on, so each record lands
behind the others (lemma `AppendsAtEnd`) and none is overwritten: `WholeList` says
that the list has a line for what was recorded last of each file. The one replay
then finds it among the positions of that file and takes the largest. After that
replay the list is written from its beginning, which is harmless until it is read
again: two restarts are needed to lose a record.

**ConsoleReader_proofs.** `Types` adds to `TypeOK` that the log consists of the
lines of blocks, each after the one that precedes it in its block (`LogInOrder`).
The central lemma is `Progress`: a reader that stands on the log (`OnLog`: the
block it holds is the block of its height, up to the line last taken) takes the
next line of the log and stands on it again, having begun a higher block, gone on
with its own, or ended one and returned it whole.

* `UpTheChain`: invariant `Untorn`. While no line is torn the channel holds the
  last lines handed on, so the reader always stands on the log, unless it failed.
* `OnlyTornLinesDamage`: invariant `DamageIsCharged`. With torn lines the reader
  may be off the log. The invariant says there is an assignment of the queued
  lines to places in the log (`Explained`) such that each damaged block returned,
  and the one in hand if it is off the log, has a torn line before the next line
  to take (`Charged`). The END that returns a damaged block puts the reader
  back on the log (`EndMends`), and a torn END is accepted only by a reader that
  is off the log already (`TornEndOffTheLog`), so no torn line is charged twice.
* `NilBlockNeedsTear`: from `Untorn`. A reader on the log that comes to an END has
  its block up to the line before; one that is not inside a block fails on
  the height of the END and returns an error.

**NodeRunner_proofs.** Inductive invariant: `TypeOK`, `CleanEndIsComplete`,
`Reaped` (Start is past Wait only with the process reaped), `Received` (Start
has returned only after the line reader handed over its result), `ArmedOnce` and
`KilledByTimer`. The last two are needed for `ReturnIsFinal`: a timer armed after
the deferred `Stop` does fire after Start returned, and it must then find a
process that cannot be killed. The refinement of LineStream maps what is written to
the lines in `Finished` (all units of a dead node, the whole lines of a live one) and
what is delivered to the lines in the units handed on. Its invariant has
`WholeButLast`: what was handed on ends a line, except for the last line of a dead
node; `WithinBound` says that the node wrote no more than `MaxWritten`, so that the
unfinished line, which its exit or its kill adds to the written ones, is one the
abstract stream may write. Lemmas about `LineCount`, the number of lines that so many
units make, show that a step of the runner adds one line at most, and
`Delivers` that what it hands on is the next of the lines written, whole.
`LostOnlyByClosing` rests
on the same invariant: a reader that ends without an error has handed on everything,
and nothing is written after that.

**ReaderApp_proofs** extends NodeRunner's proofs, as the module extends
NodeRunner: outside the logs mode every step of the program is one of the runner
or leaves it alone (`RunnerSteps`), so its invariant holds here as well.
The invariant `AppIInv` goes back from the end of the
program along what has to precede it: the program exits only after the plugin
terminated (`ExitsAfterPlugin`); the plugin, unless it gave up, is shut down only
after the source's `Stop` (`ShutdownAfterStop`); the source calls `Stop` only
with its reader ended and, in node mode, with `Start` returned
(`ClosedAfterSource`); then the node is reaped (`RunnerReturned`); and a line is
being sent only while the reader reads (`SendsWhileReading`). `ClosedInPeace` (no
send on the closed channel, in any mode) and `NoOrphan` (no exit with the node
running, unless the plugin gave up) follow. `LinesIInv` adds the lines on their
way: those read, queued and being sent are together the lines handed on
(`NoneDropped`; at most these if the plugin gave up, `NoneInvented`), and `Stop`
returns only with the channel empty (`LoopEndsEmpty`, `StopWaits`). From it,
`AllReadBeforeExit` and `AppTypeCorrect`.

**BlockIndex_proofs.** First, facts about the operators of Transform:
`FilterMatchesIndex` says that a filter leaves content in a block exactly if the
indexer of its kind records the block under one of the filter's keys, by one case
per kind. Then the inductive invariant: `TypeOK`, `StreamIsComplete`, `FilesExact`
(a file covers heights the chain has, and from its `from` on lists a height under
exactly the keys of the block there), `ToolExact` (the same of the bundle in memory,
up to the tool's next block) and `Bundled` (bundles begin at multiples of their
size, and a tool that was well begun has read its bundle, and each file, from the
first height). The last is arithmetic: a start that is resolved by lookups ends at
`start` or where a bundle looked up ends (`ResolvedHeight`), and a multiple of a
multiple of the tool's size is a multiple of it (`DividesTwice`), so that a well
begun tool enters its bundles at their first height (`WellBegunFirst`). No start
block and no size looked up is assumed away: what is left of exactness for the
others is in `IndexIsExact`.

Only model-checked: liveness (`Returns`, `EverythingSent`, `CancelStops`,
`EndedIsReturned`, `CancelReturns`, `ExitReturns`, `SignalExits`,
`SourceEndExits`, `GiveUpExits`, `BundlesGetIndexed`), since fairness and ENABLED
are beyond the prover.

## 6. Where code and its comments disagree

Five runs end in a violation; each states what a comment, an error check or a
log message of the repository says.

* **logs_resume**: `openFileOrCreateIfNotExists` passes `fs.ModeAppend` as the
  permission argument, so `file_list.txt` is not opened for append. After a
  restart the first record written overwrites the first record of earlier runs;
  the next restart forgets that file and reads it again from its start. (It takes
  two restarts: `RemembersThroughOneRestart`.) With positions of different widths
  a remainder of a record is parsed as a line, and one without `;` makes
  `markFileAsRead` panic.
* **console_torn**: the check for a nil block in `ReadBlock` compares an
  interface that holds a nil pointer with nil, so it never fires. END without
  BLOCK panics in `FromProto`. It takes a torn line to get there
  (`NilBlockNeedsTear`).
* **noderunner_exit**: "Returning prematurely will cause the contents to be
  lost", but `cmd.Wait` closes the pipe before the line reader has emptied it:
  the only way to lose output (`LostOnlyByClosing`).
* **index_resume**: the event type and message type tools resolve their start
  from the event origin index. They index again what they have, and skip what
  only the event origin index has. `IndexIsExact` and `StreamIsComplete` hold all the
  same (`index_stream`): what suffers is coverage.
* **index_stop**: the event origin tool's usage line has four arguments, of
  which the last is the stop block, but `args[3]` is read only if there are five:
  called as documented the tool goes on past its stop block.

Seen while modelling, and claimed by no property, because nothing in the
repository promises the contrary:

* the index tools accept any `start-block-num`, and look up sizes (1000 to 1000000 by
  default) that need not be multiples of `indexes-size` (10000): the first file
  they write may lack the first blocks of its bundle, which a stream then skips. This is
  the exception `IndexIsExact` and `StreamIsComplete` name;
* a position recorded in the middle of a block (`ReadFile` timed out there)
  makes each later start fail at the END without its BEGIN, or panic at a TX
  without its BLOCK, again and again;
* after a replay in which the last line of the list is a remainder, `lastFile`
  names no file, and the growth of the real last file is not looked for;
* names are sorted as strings: suffixes without padding (`.9`, `.10`) are not
  in the order of creation. The model takes names that are;
* `Reopen` does not close the file it replaces;
* `rpc_head_tracker.go` drops the result of `req.WithContext`, so the timeout
  it sets never applies;
* the usage lines of the event type and message type tools name an
  `{irr-index-url}` that the code never reads;
* a plugin that gives up shuts down before the source has ended: the program may
  exit while the node, in a process group of its own, runs on. (`NodeIsStopped`
  is stated without that case);
* in stdin mode a signal does nothing until the next line or the end of the
  input comes: `StartLineReader` looks at no context;
* a position is recorded for lines that still wait in the plugin's channel, or
  that `LogLine` dropped because the plugin was terminating: they are not read
  again;
* if the plugin's `Terminated` is closed before its callback has run, `Run`
  returns nil although the plugin failed;
* a message torn between two protobuf fields becomes a damaged block and no
  error;
* `FilteredWriter` matches its expression against each chunk written, not each
  line.

## 7. What is not modelled

* The mindreader plugin, bstream, the merger, relayer and Firehose apps and
  their launcher live in other repositories. `LogLine` is assumed to accept
  every line sooner or later; the plugin's read loop stops at the first error.
* `GetPosition` swallows a failed Seek and returns 0; `lseek` on a regular file
  does not fail. A failing `cmd.Start`, an empty binary name and a bad filter
  expression are one alternative of NodeRunner's `Init`: `Start` has returned
  before anything runs.
* What the filter of stderr lets through: stderr is only displayed. Who holds it
  open is modelled.
* `os.Exit(1)` after a failed `ReadDir` or `Info` in the logs reader is a crash
  like any other (`Crash`).
* `Reader.Close` racing with the loop: only tests call it from elsewhere; the
  app defers it to the end of the loop.
* In LogsReader lines have one length, writes are whole (torn writes are in
  `filereader`, and what becomes of them in ConsoleReader), and paths have the
  same length.
* What a block holds beyond heights, transactions and validator updates;
  protobuf decoding and base64 are cut down to whole, partial and invalid.
* The head trackers: one locked HTTP request each, and nothing in the program
  constructs one. No behaviour of the system reaches them.
* Which of several index files the provider asks (the model lets it ask any), several
  filters on one request, and the sharing
  of a memoized block between transforms: all decided in bstream.
* A start block 0 of an index tool: what its indexer makes of it is decided in bstream.
* Blocks without the results of their begin and end, and transactions without result
  or body: the filters and indexers dereference them unchecked, and the node writes
  them.
* Flags, configuration files, block file encoding, `reset`, `version`, checks
  and downloads: no state that more than one step touches.

## 8. Plan

Order of work, most important behaviour first. Done: 1 to 14.

1. FileReader, its runs and its proofs.
2. LineStream and LogsReader on top of FileReader; restarts and faults.
3. ConsoleReader behind the channel, with torn lines.
4. NodeRunner with its four actors, implementing LineStream.
5. Transform and BlockIndex, with the stop block.
6. Proofs about the index (every filter, every chain).
7. Proofs about the runner.
8. ReaderApp: source, plugin and start command ending each other, and the proofs
   about its shutdown.
9. **ReaderApp_proofs**, continued: types, and every line read before the exit.
10. **NodeRunner_proofs**, continued: the step simulation of LineStream.
11. **ConsoleReader_proofs**: types, up the chain, damage charged to torn lines.
12. **LogsReader_proofs** and **LogsStream_proofs**: types, resumption, order,
    and the step simulation of LineStream.
13. What breaks each violated property, as a theorem under the hypothesis that
    excludes it (**LogsList_proofs**, and a theorem in each of three other proof
    modules).
14. **BufferedReader** below FileReader, with its refinement; index tools of any
    size, lookup sizes and start block.
15. The safety half of the liveness properties: that each state in which a loop
    waits has an enabled step of some fair action, as an invariant.
16. The head trackers, if one gets a caller.
