----------------------------- MODULE BlockIndex ------------------------------
(***************************************************************************)
(* tools/*_index.go and transform/*_index*.go: a tool reads the final      *)
(* blocks of the chain and writes index files, one per bundle of           *)
(* indexes-size heights, while Firehose serves a filtered stream and skips *)
(* the blocks that the index files rule out.                               *)
(*                                                                         *)
(* Outside the repository, and modelled by how it is used: the bundles of  *)
(* transform.BlockIndexer, FindNextUnindexed, and the block stream that    *)
(* asks the index provider which blocks of a bundle match.                 *)
(***************************************************************************)
EXTENDS Transform, FiniteSets

CONSTANTS
    Blocks,         \* the blocks a chain is made of
    Filters,        \* the filters clients ask for
    IndexSizes,     \* indexes-size of the tools
    Lookups,        \* lookup-indexes-sizes of the tools, each a set of sizes
    StartBlocks,    \* start-block-num of the tools
    Stops,          \* stop-block-num of the tools, 0 for none
    MaxHeight,      \* bound of the runs: the last height of the chain
    MaxTools        \* bound of the runs: times a tool is started

Heights == Nat \ {0}

ASSUME IndexAssumption ==
    /\ Blocks \subseteq Block
    /\ Filters \subseteq Filter
    /\ IndexSizes \subseteq Nat \ {0}
    /\ \A lookups \in Lookups : lookups \subseteq Nat
    /\ StartBlocks \subseteq Heights
    /\ Stops \subseteq Nat
    /\ {MaxHeight, MaxTools} \subseteq Nat

VARIABLES
    chain,          \* final blocks; that of height h is chain[h]
    store,          \* the index store: a set of index files
    tool,           \* the running tool, NoTool when there is none
    started,        \* number of tools started
    filter,         \* what the client of the stream asked for
    cursor,         \* next height of the stream
    delivered       \* <<height, block>> given to the client

stream == <<filter, cursor, delivered>>
vars   == <<chain, store, tool, started, stream>>

\* entries stands for the bitmaps: <<key, height>> for each bit set.  from and
\* wellBegun are history: the first height its tool read of the bundle, and how
\* that tool was begun.
File == [kind : Kind, size : IndexSizes, low : Nat, entries : SUBSET (Key \X Heights),
         from : Heights, wellBegun : BOOLEAN]

NoTool == [kind |-> "none"]

-----------------------------------------------------------------------------
(* The chain.                                                              *)

FinalBlock ==
    /\ Len(chain) < MaxHeight
    /\ \E b \in Blocks : chain' = Append(chain, b)
    /\ UNCHANGED <<store, tool, started, stream>>

-----------------------------------------------------------------------------
(* The tools.                                                              *)

Covers(f, name, h) == f.kind = name /\ f.low <= h /\ h < f.low + f.size

Indexed(name, sizes, h) == \E f \in store : Covers(f, name, h) /\ f.size \in sizes

\* FindNextUnindexed goes from bundle to bundle, of the sizes it is given, up to
\* the first height that no file of that name covers.
NextUnindexed(name, sizes, start, h) ==
    /\ start <= h
    /\ ~Indexed(name, sizes, h)
    /\ \A m \in start .. h - 1 : Indexed(name, sizes, m)

\* All three tools look for the files of the event origin index.
LookupName(kind) == "eventorigin"

\* Mutant: a new indexer begins with the first bundle.
BundleOfFirst(h, size) == 0

\* A new indexer, given the resolved height as its defined start block, begins
\* with the bundle that height is in, wherever in the bundle it is.
BundleOf(h, size) == h - (h % size)

\* The commands take four or five arguments, and look at the fourth, the stop
\* block, only when there is a fifth.
StopOf(stop, fifth) == IF fifth THEN stop ELSE 0

\* A tool takes any start block, and looks up sizes that need not include the
\* size of its own bundles.
StartTool ==
    /\ tool = NoTool
    /\ started < MaxTools
    /\ started' = started + 1
    /\ \E kind \in Kind, size \in IndexSizes, lookups \in Lookups,
          start \in StartBlocks, asked \in Stops, fifth \in BOOLEAN :
         \E h \in start .. start + Len(chain) :
           /\ NextUnindexed(LookupName(kind), lookups, start, h)
           /\ tool' = [kind |-> kind, size |-> size, low |-> BundleOf(h, size), entries |-> {},
                       from |-> h, next |-> h, start |-> start, lookups |-> lookups,
                       asked |-> asked, stop |-> StopOf(asked, fifth)]
    /\ UNCHANGED <<chain, store, stream>>

Stopped == tool.stop # 0 /\ tool.next > tool.stop

NewEntries == IndexKeys(tool.kind, chain[tool.next]) \X {tool.next}

\* A tool begun at the first block or where one of its bundles begins, that
\* looks up no size its own does not divide, enters no bundle in the middle.
WellBegun(start, size, lookups) ==
    /\ start = 1 \/ start % size = 0
    /\ \A l \in lookups : l % size = 0

CurrentFile ==
    [kind |-> tool.kind, size |-> tool.size, low |-> tool.low, entries |-> tool.entries,
     from |-> tool.from, wellBegun |-> WellBegun(tool.start, tool.size, tool.lookups)]

\* The index store does not overwrite an object.
WriteFile ==
    store' = IF \E f \in store : f.kind = tool.kind /\ f.size = tool.size /\ f.low = tool.low
             THEN store
             ELSE store \cup {CurrentFile}

NextBundle == [tool EXCEPT !.low = @ + tool.size, !.from = tool.next,
                           !.entries = NewEntries, !.next = @ + 1]

\* Mutant: a bundle whose index has no bit set is not written.
ProcessBlockNoEmpty ==
    /\ tool # NoTool
    /\ tool.next <= Len(chain)
    /\ ~Stopped
    /\ IF tool.next >= tool.low + tool.size
       THEN /\ IF tool.entries = {} THEN UNCHANGED store ELSE WriteFile
            /\ tool' = NextBundle
       ELSE /\ tool' = [tool EXCEPT !.entries = @ \cup NewEntries, !.next = @ + 1]
            /\ UNCHANGED store
    /\ UNCHANGED <<chain, started, stream>>

\* The handler of the tool: ProcessBlock, whose keys go to BlockIndexer.Add.
\* The first block beyond a bundle makes Add write that bundle's file.
ProcessBlock ==
    /\ tool # NoTool
    /\ tool.next <= Len(chain)
    /\ ~Stopped
    /\ IF tool.next >= tool.low + tool.size
       THEN /\ WriteFile
            /\ tool' = NextBundle
       ELSE /\ tool' = [tool EXCEPT !.entries = @ \cup NewEntries, !.next = @ + 1]
            /\ UNCHANGED store
    /\ UNCHANGED <<chain, started, stream>>

\* ErrStopBlockReached, or the process is killed: what is in memory is lost.
EndTool ==
    /\ tool # NoTool
    /\ tool' = NoTool
    /\ UNCHANGED <<chain, store, started, stream>>

-----------------------------------------------------------------------------
(* The stream.                                                             *)

\* Mutant: the bitmaps of the keys are intersected.
MatchingAll(f, file) ==
    {h \in file.low .. file.low + file.size - 1 : \A k \in f.keys : <<k, h>> \in file.entries}

\* getFilterFunc: the union of the bitmaps of the keys asked for.
Matching(f, file) ==
    {h \in file.low .. file.low + file.size - 1 : \E k \in f.keys : <<k, h>> \in file.entries}

\* In a bundle that has an index file the provider names the blocks to read.  In
\* bundles of several sizes it asks one of the files: which one is left open.
Covering(h) == {file \in store : Covers(file, filter.kind, h)}

Skip ==
    /\ cursor <= Len(chain)
    /\ \E file \in Covering(cursor) : cursor \notin Matching(filter, file)
    /\ cursor' = cursor + 1
    /\ UNCHANGED <<chain, store, tool, started, filter, delivered>>

Deliver ==
    /\ cursor <= Len(chain)
    /\ Covering(cursor) = {} \/ \E file \in Covering(cursor) : cursor \in Matching(filter, file)
    /\ cursor' = cursor + 1
    /\ delivered' = delivered \cup {<<cursor, Filtered(filter, chain[cursor])>>}
    /\ UNCHANGED <<chain, store, tool, started, filter>>

-----------------------------------------------------------------------------

Init ==
    /\ chain = <<>>
    /\ store = {}
    /\ tool = NoTool
    /\ started = 0
    /\ filter \in Filters
    /\ cursor = 1
    /\ delivered = {}

Next ==
    \/ FinalBlock
    \/ StartTool \/ ProcessBlock \/ EndTool
    \/ Skip \/ Deliver

Spec == Init /\ [][Next]_vars

\* A tool that is not killed reads on.
FairSpec == Spec /\ WF_vars(ProcessBlock)

-----------------------------------------------------------------------------

Tool == [kind : Kind, size : IndexSizes, low : Nat, entries : SUBSET (Key \X Heights),
         from : Heights, next : Heights, start : StartBlocks, lookups : Lookups,
         asked : Nat, stop : Nat]

\* Types; a tool is inside the bundle it collects, or one beyond its end.
TypeOK ==
    /\ chain \in Seq(Blocks)
    /\ store \subseteq File
    /\ tool \in Tool \cup {NoTool}
    /\ tool # NoTool => /\ tool.low <= tool.from /\ tool.from <= tool.next
                        /\ tool.next <= tool.low + tool.size
    /\ started \in Nat
    /\ filter \in Filters
    /\ cursor \in 1 .. Len(chain) + 1
    /\ delivered \subseteq (1 .. cursor - 1) \X Block

\* What a filter for the one key k leaves of the block at height h.
Leaves(kind, k, h) == HasContent(kind, Filtered([kind |-> kind, keys |-> {k}], chain[h]))

\* The heights of a file's bundle from its first one, which is 1 in the first
\* bundle, to its last.
Bundle(f) == (f.low .. f.low + f.size - 1) \ {0}

\* Whatever start blocks and sizes the tools of the three kinds are given, and
\* wherever they are stopped and killed: from the first height its tool read on,
\* an index file lists a height under a key just when the filter for that key
\* would leave something of the block there, and before it lists nothing.  Only
\* a tool begun inside a bundle, by its start block or by the end of a smaller
\* bundle it looked up, has not read the bundle from its first height.
IndexIsExact ==
    \A f \in store :
      /\ f.low + f.size - 1 <= Len(chain)
      /\ \A h \in Bundle(f), k \in KeysOfKind[f.kind] :
           <<k, h>> \in f.entries <=> h >= f.from /\ Leaves(f.kind, k, h)
      /\ f.wellBegun => \A h \in Bundle(f) : h >= f.from

\* The index only saves reading, whichever bundles of whichever sizes are indexed
\* when the stream passes: a block that has something of what the client asked
\* for and did not reach it lies in a bundle that a tool, not well begun, has
\* entered beyond that block.
StreamIsComplete ==
    \A h \in 1 .. cursor - 1 :
      HasContent(filter.kind, Filtered(filter, chain[h]))
        => \/ <<h, Filtered(filter, chain[h])>> \in delivered
           \/ \E f \in Covering(h) : ~f.wellBegun /\ h < f.from

\* A tool that is neither killed nor stopped indexes each bundle it has begun,
\* once the chain is past that bundle.
BundlesGetIndexed ==
    \A size \in IndexSizes : \A low \in {n * size : n \in 0 .. (MaxHeight \div size) - 1} :
      (tool # NoTool /\ tool.low = low /\ tool.size = size /\ Len(chain) >= low + size)
        ~> \/ tool = NoTool
           \/ tool.stop # 0
           \/ \E f \in store : f.kind = tool.kind /\ f.low = low /\ f.size = size

\* "resolved next unindexed regions": a tool goes on from the first height that
\* its own index does not cover with a file of the sizes looked for.
ResumesAtUnindexed ==
    [][tool = NoTool /\ tool' # NoTool =>
         NextUnindexed(tool'.kind, tool'.lookups, tool'.start, tool'.next)]_vars

\* "{start-block-num} {stop-block-num}": a tool started as the usage line of
\* generate-event-origin-index says reads no block beyond the stop block.
StopsAtStopBlock ==
    [][tool # NoTool /\ tool' # NoTool /\ tool.kind = "eventorigin"
         /\ tool.asked # 0 /\ tool.next > tool.asked => UNCHANGED tool]_vars

=============================================================================
