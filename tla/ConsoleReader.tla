---------------------------- MODULE ConsoleReader ----------------------------
(***************************************************************************)
(* codec/consolereader.go: the console reader takes the lines that a       *)
(* source hands to the mindreader plugin from a bounded channel and makes  *)
(* blocks of them.                                                         *)
(*                                                                         *)
(* The node's output is the sequence log.  What can happen to it on its    *)
(* way is part of the model: the node crashes inside a block and runs that *)
(* block, or the next, again; the reader process crashes, which loses what *)
(* is in the channel, and resumes at any line it had been handed before;   *)
(* and a line may be torn by a read (FileReader, WholeLines), in which     *)
(* case parseLine gets what came before the tear and, apart, the rest.     *)
(***************************************************************************)
EXTENDS Integers, Sequences, FiniteSets

CONSTANTS
    FirstHeight,    \* bstream.GetProtocolFirstStreamableBlock
    LastHeight,     \* bound of the runs: the last height the node reaches
    Txs,            \* number of transactions of each block
    Vsets,          \* heights whose block has validator updates
    Radix,          \* base in which a height is printed
    Capacity,       \* capacity of the lines channel
    MaxFaults       \* bound of the runs: crashes of the node or the reader,
                    \* and lines torn

Height == FirstHeight .. LastHeight

ASSUME ConsoleAssumption ==
    /\ FirstHeight \in Nat \ {0}
    /\ Radix \in Nat \ {0, 1}
    /\ {LastHeight, MaxFaults} \subseteq Nat
    /\ FirstHeight <= LastHeight
    /\ Capacity \in Nat \ {0}
    /\ Txs \in [Height -> Nat]
    /\ Vsets \subseteq Height

\* A line as parseLine understands it; "INVALID" is one it gives an error for.
Line ==
    [kind : {"BEGIN", "BLOCK", "TX", "VSET", "END", "INVALID"}, height : Nat, index : Nat]

VARIABLES
    \* The node.
    log,            \* lines the node has written
    at,             \* [height, index] of the line it writes next
    \* The source and the channel.
    read,           \* lines of log handed on by the source
    lines,          \* ConsoleReader.lines
    \* The console reader.
    height,         \* ConsoleReader.height
    block,          \* ConsoleReader.block, NoBlock for nil
    status,         \* "reading", "ended" with the channel closed, "failed"
                    \* by an error, or "panicked"
    \* History.
    out,            \* what ReadBlock has returned
    crashes, torn

node    == <<log, at>>
cr      == <<height, block, status, out>>
vars    == <<log, at, read, lines, height, block, status, out, crashes, torn>>

\* fields: "none" for nil, "some" for a message that lost part of its fields.
NoBlock == [height |-> 0, txs |-> <<>>, vset |-> 0, fields |-> "none"]

-----------------------------------------------------------------------------
(* The node: extractor-cosmos prints a block as these lines.               *)

MkLine(kind, h, i) == [kind |-> kind, height |-> h, index |-> i]

BlockLines(h) ==
    <<MkLine("BEGIN", h, 0), MkLine("BLOCK", h, 0)>>
    \o [i \in 1 .. Txs[h] |-> MkLine("TX", h, i)]
    \o (IF h \in Vsets THEN <<MkLine("VSET", h, 0)>> ELSE <<>>)
    \o <<MkLine("END", h, 0)>>

NodeBlock(h) ==
    [height |-> h, txs |-> [i \in 1 .. Txs[h] |-> <<h, i>>],
     vset |-> IF h \in Vsets THEN h ELSE 0, fields |-> "all"]

WriteLine ==
    /\ at.height \in Height
    /\ log' = Append(log, BlockLines(at.height)[at.index])
    /\ at' = IF at.index = Len(BlockLines(at.height))
             THEN [height |-> at.height + 1, index |-> 1]
             ELSE [at EXCEPT !.index = @ + 1]
    /\ UNCHANGED <<read, lines, cr, crashes, torn>>

\* The node comes back at the block it was writing, at the one before when it
\* has to replay that, or at the next when the block was committed but its last
\* lines were not written.
NodeRestart ==
    /\ crashes + torn < MaxFaults
    /\ crashes' = crashes + 1
    /\ \E h \in at.height - 1 .. at.height + 1 :
         /\ h >= FirstHeight
         /\ h > at.height => at.index > 1
         /\ at' = [height |-> h, index |-> 1]
    /\ UNCHANGED <<log, read, lines, cr, torn>>

-----------------------------------------------------------------------------
(* The source: it blocks while the channel is full, and hands on nothing   *)
(* any more when the plugin has closed the channel.                        *)

\* Mutant: the channel has no capacity.
HandOnUnbounded ==
    /\ read < Len(log)
    /\ status # "ended"
    /\ lines' = Append(lines, log[read + 1])
    /\ read' = read + 1
    /\ UNCHANGED <<node, cr, crashes, torn>>

HandOn ==
    /\ read < Len(log)
    /\ status # "ended"
    /\ Len(lines) < Capacity
    /\ lines' = Append(lines, log[read + 1])
    /\ read' = read + 1
    /\ UNCHANGED <<node, cr, crashes, torn>>

\* parseNumber takes the digits before a tear for the number.
NumberHeads(n) == {m \in 1 .. n - 1 : \E k \in 1 .. n : m = n \div Radix ^ k}

\* parseFromProto reports a message cut inside a field or a base64 group, and
\* takes one cut between two fields for whole: a block without its header or
\* without what follows it, part of a transaction, part of an update.
DataHeads(l) ==
    CASE l.kind \in {"BEGIN", "END"} -> {[l EXCEPT !.height = n] : n \in NumberHeads(l.height)}
      [] l.kind = "BLOCK" -> {[l EXCEPT !.index = 1], MkLine("BLOCK", 0, 1)}
      [] l.kind = "TX" -> {[l EXCEPT !.index = 0]}
      [] l.kind = "VSET" -> {[l EXCEPT !.height = 0]}

\* Neither part of a line torn in its prefix has the prefix "DMLOG ", and next
\* skips both.  Torn later, its head is a line and its tail is skipped.
HandOnTorn ==
    /\ crashes + torn < MaxFaults
    /\ torn' = torn + 1
    /\ read < Len(log)
    /\ status # "ended"
    /\ read' = read + 1
    /\ \/ UNCHANGED lines
       \/ /\ Len(lines) < Capacity
          /\ \E l \in DataHeads(log[read']) \cup {MkLine("INVALID", 0, 0)} : lines' = Append(lines, l)
    /\ UNCHANGED <<node, cr, crashes>>

-----------------------------------------------------------------------------
(* ReadBlock: one step per line taken from the channel.                    *)

Take(kind) ==
    /\ status = "reading"
    /\ lines # <<>>
    /\ Head(lines).kind = kind
    /\ lines' = Tail(lines)
    /\ UNCHANGED <<node, read, crashes, torn>>

\* An error of ReadBlock ends the plugin's read loop.
Fail == status' = "failed" /\ UNCHANGED <<height, block, out>>

Panic == status' = "panicked" /\ UNCHANGED <<height, block, out>>

\* parseLine returns an error.
TakeInvalid == Take("INVALID") /\ Fail

\* Mutant: the height of a BEGIN is not compared with the last one.
TakeBeginUnchecked ==
    /\ Take("BEGIN")
    /\ height' = Head(lines).height
    /\ UNCHANGED <<block, status, out>>

TakeBegin ==
    /\ Take("BEGIN")
    /\ IF Head(lines).height <= height
       THEN Fail
       ELSE height' = Head(lines).height /\ UNCHANGED <<block, status, out>>

\* Mutant: the message is merged into the block instead of replacing it.
TakeBlockMerged ==
    /\ Take("BLOCK")
    /\ block' = [block EXCEPT !.height = Head(lines).height, !.vset = 0, !.fields = "all"]
    /\ UNCHANGED <<height, status, out>>

TakeBlock ==
    /\ Take("BLOCK")
    /\ block' = [height |-> Head(lines).height, txs |-> <<>>, vset |-> 0,
                 fields |-> IF Head(lines).index = 0 THEN "all" ELSE "some"]
    /\ UNCHANGED <<height, status, out>>

\* Appending to a nil block dereferences it.
TakeTx ==
    /\ Take("TX")
    /\ IF block = NoBlock
       THEN Panic
       ELSE /\ block' = [block EXCEPT !.txs = Append(@, <<Head(lines).height, Head(lines).index>>)]
            /\ UNCHANGED <<height, status, out>>

TakeValidatorSetUpdate ==
    /\ Take("VSET")
    /\ IF block = NoBlock
       THEN Panic
       ELSE /\ block' = [block EXCEPT !.vset = Head(lines).height]
            /\ UNCHANGED <<height, status, out>>

\* FromProto.  A header carries the id of the block before it, except at the
\* first streamable block.
FromProto(b) ==
    [number     |-> b.height,
     id         |-> b.height,
     previousId |-> IF b.height = FirstHeight THEN 0 ELSE b.height - 1,
     libNum     |-> IF b.height = FirstHeight THEN FirstHeight ELSE b.height - 1,
     payload    |-> b]

\* Mutant: a block without transactions is not returned.
TakeEndNotEmpty ==
    /\ Take("END")
    /\ IF Head(lines).height # height
       THEN Fail
       ELSE /\ out' = IF block.txs = <<>> THEN out ELSE Append(out, FromProto(block))
            /\ UNCHANGED <<height, block, status>>

\* A nil block is not nil as an interface value: ReadBlock passes it on, and
\* FromProto dereferences it, or the header that a block lacks.
TakeEnd ==
    /\ Take("END")
    /\ CASE Head(lines).height # height -> Fail
         [] Head(lines).height = height /\ block.height = 0 -> Panic
         [] OTHER -> /\ out' = Append(out, FromProto(block))
                     /\ UNCHANGED <<height, block, status>>

ReadBlock == TakeInvalid \/ TakeBegin \/ TakeBlock \/ TakeTx \/ TakeValidatorSetUpdate \/ TakeEnd

\* The plugin has closed the channel and the lines in it are taken: next returns
\* io.EOF, and what there is of a block is never returned.
EndOfLines ==
    /\ status = "reading"
    /\ lines = <<>>
    /\ status' = "ended"
    /\ UNCHANGED <<node, read, lines, height, block, out, crashes, torn>>

\* The reader process is started again, after a crash or to get over an error:
\* a new ConsoleReader, and a source that resumes at some line it had handed on.
ReaderRestart ==
    /\ crashes + torn < MaxFaults
    /\ crashes' = crashes + 1
    /\ \E r \in 0 .. read : read' = r
    /\ lines' = <<>>
    /\ height' = 0
    /\ block' = NoBlock
    /\ status' = "reading"
    /\ out' = <<>>
    /\ UNCHANGED <<node, torn>>

-----------------------------------------------------------------------------

Init ==
    /\ log = <<>>
    /\ at = [height |-> FirstHeight, index |-> 1]
    /\ read = 0
    /\ lines = <<>>
    /\ height = 0
    /\ block = NoBlock
    /\ status = "reading"
    /\ out = <<>>
    /\ crashes = 0
    /\ torn = 0

Next ==
    \/ WriteLine \/ NodeRestart
    \/ HandOn \/ HandOnTorn
    \/ ReadBlock \/ EndOfLines \/ ReaderRestart

Spec == Init /\ [][Next]_vars

\* The source's goroutine and the plugin's read loop keep running.
FairSpec == Spec /\ WF_vars(HandOn) /\ WF_vars(ReadBlock)

-----------------------------------------------------------------------------

Block == [height : Height \cup {0}, txs : Seq(Height \X Nat), vset : Height \cup {0},
          fields : {"none", "some", "all"}]

\* Types, and the channel within its capacity.
TypeOK ==
    /\ log \in Seq(Line)
    /\ at.height \in FirstHeight .. LastHeight + 1
    /\ at.height \in Height => at.index \in 1 .. Len(BlockLines(at.height))
    /\ read \in 0 .. Len(log)
    /\ lines \in Seq(Line) /\ Len(lines) <= Capacity
    /\ height \in 0 .. LastHeight
    /\ block \in Block
    /\ status \in {"reading", "ended", "failed", "panicked"}
    /\ \A i \in DOMAIN out : out[i].payload \in Block
    /\ crashes \in Nat /\ torn \in Nat /\ crashes + torn <= MaxFaults

Damaged == {i \in DOMAIN out : out[i].payload # NodeBlock(out[i].number)}

\* However the node and the reader crash and resume, in the middle of a block
\* or not, ReadBlock returns only blocks of the node: no transaction of one is
\* missing, repeated or found in another.  A torn line damages no more than one.
BlocksAreWhole == Cardinality(Damaged) <= torn

\* While no line is torn, what ReadBlock returns goes up the chain: never the
\* same height twice, never back, and the block named as previous is the one
\* returned before unless a height is missing between them.
ChainGoesUp ==
    torn = 0 => \A i \in 1 .. Len(out) - 1 :
      /\ out[i].number < out[i + 1].number
      /\ out[i + 1].number = out[i].number + 1 => out[i + 1].previousId = out[i].id
      /\ out[i + 1].libNum < out[i + 1].number

\* A block the node has ended is returned, if the reader neither fails nor is
\* ended nor restarts and no line is torn.
EndedIsReturned ==
    \A h \in Height :
      (\E i \in DOMAIN log : log[i] = MkLine("END", h, 0)) ~>
        (\/ \E i \in DOMAIN out : out[i].number = h
         \/ status # "reading"
         \/ crashes + torn > 0)

\* ReadBlock reports a nil block as an error ("console reader read a nil
\* *bstream.Block, this is invalid"): it does not go on with it.
NilBlockRejected ==
    [][TakeEnd /\ block = NoBlock => status' = "failed"]_vars

=============================================================================
