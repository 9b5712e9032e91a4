-------------------------- MODULE BlockIndex_proofs --------------------------
(***************************************************************************)
(* Theorems about BlockIndex for every chain, every filter, every start    *)
(* block, all bundle sizes and every order in which tools run and are      *)
(* killed.                                                                 *)
(***************************************************************************)
EXTENDS BlockIndex, SequenceTheorems, TLAPS

-----------------------------------------------------------------------------
(* Filters and indexers.                                                   *)

LEMMA FilterType ==
    ASSUME NEW f \in Filter
    PROVE  f.kind \in Kind /\ f.keys \subseteq KeysOfKind[f.kind]
BY DEF Filter, EventTypeFilters, EventOriginFilters, MessageTypeFilters, Kind, KeysOfKind

LEMMA TxEventsMember ==
    ASSUME NEW b, NEW e
    PROVE  e \in TxEvents(b) <=> \E i \in DOMAIN b.txs : e \in b.txs[i].events
BY DEF TxEvents

LEMMA TxMessagesMember ==
    ASSUME NEW b, NEW m
    PROVE  m \in TxMessages(b) <=> \E i \in DOMAIN b.txs : m \in b.txs[i].messages
BY DEF TxMessages

\* A sequence changed element by element is a sequence of the same length.
LEMMA SameLength ==
    ASSUME NEW s \in Seq(Tx), NEW t, t \in [DOMAIN s -> Tx]
    PROVE  t \in Seq(Tx)
<1>1. Len(s) \in Nat /\ DOMAIN s = 1 .. Len(s)
  OBVIOUS
<1>2. t \in [1 .. Len(s) -> Tx]
  BY <1>1
<1> QED
  BY <1>1, <1>2, SeqDef

\* A filtered block is a block.
LEMMA FilteredType ==
    ASSUME NEW f \in Filter, NEW b \in Block
    PROVE  Filtered(f, b) \in Block
<1>1. b.begin \subseteq EventTypes /\ b.end \subseteq EventTypes /\ b.txs \in Seq(Tx)
  BY DEF Block
<1>2. \A i \in DOMAIN b.txs : b.txs[i] \in Tx
  BY <1>1
<1>3. f.kind \in Kind
  BY FilterType
<1>4. CASE f.kind = "eventtype"
  <2> DEFINE txs == [i \in DOMAIN b.txs |-> [b.txs[i] EXCEPT !.events = @ \cap f.keys]]
  <2>1. txs \in [DOMAIN b.txs -> Tx]
    BY <1>2 DEF Tx
  <2> HIDE DEF txs
  <2>2. txs \in Seq(Tx)
    BY <1>1, <2>1, SameLength
  <2>3. EventTypeFilter(f.keys, b)
          = [begin |-> b.begin \cap f.keys, txs |-> txs, end |-> b.end \cap f.keys]
    BY DEF EventTypeFilter, txs
  <2> QED
    BY <1>1, <1>4, <2>2, <2>3 DEF Filtered, Block
<1>5. CASE f.kind = "eventorigin"
  <2> DEFINE txs == [i \in DOMAIN b.txs |-> [b.txs[i] EXCEPT !.events = {}]]
  <2>1. txs \in [DOMAIN b.txs -> Tx]
    BY <1>2 DEF Tx
  <2> HIDE DEF txs
  <2>2. txs \in Seq(Tx)
    BY <1>1, <2>1, SameLength
  <2>3. EventOriginFilter(f.keys, b)
          = [begin |-> IF "BeginBlock" \in f.keys THEN b.begin ELSE {},
             txs   |-> IF "DeliverTx" \in f.keys THEN b.txs ELSE txs,
             end   |-> IF "EndBlock" \in f.keys THEN b.end ELSE {}]
    BY DEF EventOriginFilter, txs
  <2> QED
    BY <1>1, <1>5, <2>2, <2>3 DEF Filtered, Block
<1>6. CASE f.kind = "messagetype"
  <2> DEFINE txs == [i \in DOMAIN b.txs |-> [b.txs[i] EXCEPT !.messages = @ \cap f.keys]]
  <2>1. txs \in [DOMAIN b.txs -> Tx]
    BY <1>2 DEF Tx
  <2> HIDE DEF txs
  <2>2. txs \in Seq(Tx)
    BY <1>1, <2>1, SameLength
  <2>3. MessageTypeFilter(f.keys, b) = [b EXCEPT !.txs = txs]
    BY DEF MessageTypeFilter, txs
  <2> QED
    BY <1>1, <1>6, <2>2, <2>3 DEF Filtered, Block
<1> QED
  BY <1>3, <1>4, <1>5, <1>6 DEF Kind

\* The heart of the index: a filter leaves something of a block just when the
\* indexer of its kind records the block under one of the filter's keys.
LEMMA FilterMatchesIndex ==
    ASSUME NEW f \in Filter, NEW b \in Block
    PROVE  HasContent(f.kind, Filtered(f, b)) <=> \E k \in f.keys : k \in IndexKeys(f.kind, b)
<1>1. b.begin \subseteq EventTypes /\ b.end \subseteq EventTypes /\ b.txs \in Seq(Tx)
  BY DEF Block
<1>2. \A i \in DOMAIN b.txs : b.txs[i] \in Tx
  BY <1>1
<1>3. f.kind \in Kind
  BY FilterType
<1> DEFINE g == Filtered(f, b)
<1>4. CASE f.kind = "eventtype"
  <2>1. /\ g.begin = b.begin \cap f.keys
        /\ g.end = b.end \cap f.keys
        /\ DOMAIN g.txs = DOMAIN b.txs
        /\ \A i \in DOMAIN b.txs : g.txs[i].events = b.txs[i].events \cap f.keys
    BY <1>2, <1>4 DEF Filtered, EventTypeFilter, Tx
  <2> HIDE DEF g
  <2>2. TxEvents(g) = TxEvents(b) \cap f.keys
    BY <2>1, TxEventsMember
  <2>3. HasContent(f.kind, g) <=> g.begin \cup g.end \cup TxEvents(g) # {}
    BY <1>4 DEF HasContent
  <2>4. IndexKeys(f.kind, b) = b.begin \cup b.end \cup TxEvents(b)
    BY <1>4 DEF IndexKeys, EventTypeKeys
  <2> QED
    BY <2>1, <2>2, <2>3, <2>4 DEF g
<1>5. CASE f.kind = "eventorigin"
  <2>1. /\ g.begin = IF "BeginBlock" \in f.keys THEN b.begin ELSE {}
        /\ g.end = IF "EndBlock" \in f.keys THEN b.end ELSE {}
        /\ DOMAIN g.txs = DOMAIN b.txs
        /\ \A i \in DOMAIN b.txs :
             g.txs[i].events = IF "DeliverTx" \in f.keys THEN b.txs[i].events ELSE {}
    BY <1>2, <1>5 DEF Filtered, EventOriginFilter, Tx
  <2> HIDE DEF g
  <2>2. TxEvents(g) = IF "DeliverTx" \in f.keys THEN TxEvents(b) ELSE {}
    BY <2>1, TxEventsMember
  <2>3. HasContent(f.kind, g) <=> g.begin \cup g.end \cup TxEvents(g) # {}
    BY <1>5 DEF HasContent
  <2>4. IndexKeys(f.kind, b) = EventOriginKeys(b)
    BY <1>5 DEF IndexKeys
  <2>5. HasContent(f.kind, g) <=> \/ "BeginBlock" \in f.keys /\ b.begin # {}
                                  \/ "EndBlock" \in f.keys /\ b.end # {}
                                  \/ "DeliverTx" \in f.keys /\ TxEvents(b) # {}
    BY <2>1, <2>2, <2>3
  <2> QED
    BY <2>4, <2>5 DEF g, EventOriginKeys, Origin
<1>6. CASE f.kind = "messagetype"
  <2>1. /\ DOMAIN g.txs = DOMAIN b.txs
        /\ \A i \in DOMAIN b.txs : g.txs[i].messages = b.txs[i].messages \cap f.keys
    BY <1>2, <1>6 DEF Filtered, MessageTypeFilter, Tx, Block
  <2> HIDE DEF g
  <2>2. TxMessages(g) = TxMessages(b) \cap f.keys
    BY <2>1, TxMessagesMember
  <2>3. HasContent(f.kind, g) <=> TxMessages(g) # {}
    BY <1>6 DEF HasContent
  <2>4. IndexKeys(f.kind, b) = TxMessages(b)
    BY <1>6 DEF IndexKeys, MessageTypeKeys
  <2> QED
    BY <2>2, <2>3, <2>4 DEF g
<1> QED
  BY <1>3, <1>4, <1>5, <1>6 DEF Kind

-----------------------------------------------------------------------------
(* Bundles.                                                                *)

LEMMA Quotient ==
    ASSUME NEW a \in Nat, NEW b \in Nat \ {0}
    PROVE  a \div b \in Nat /\ a = (a \div b) * b + (a % b) /\ a % b \in 0 .. b - 1
OBVIOUS

LEMMA Multiple ==
    ASSUME NEW b \in Nat \ {0}, NEW q \in Nat
    PROVE  (q * b) % b = 0
OBVIOUS

\* The bundle a height is in begins at a multiple of the bundle size.
LEMMA BundleBegins ==
    ASSUME NEW a \in Nat, NEW b \in Nat \ {0}
    PROVE  a - (a % b) \in Nat /\ (a - (a % b)) % b = 0
<1> DEFINE q == a \div b
           r == a % b
<1>1. q \in Nat /\ a = q * b + r /\ r \in 0 .. b - 1
  BY Quotient
<1> HIDE DEF q, r
<1>4. q * b \in Nat
  BY <1>1
<1>2. a - r = q * b
  BY <1>1, <1>4
<1>3. (q * b) % b = 0
  BY <1>1, Multiple
<1> QED
  BY <1>2, <1>3, <1>4 DEF r

LEMMA SumDivides ==
    ASSUME NEW a \in Nat, NEW d \in Nat, NEW b \in Nat \ {0}, a % b = 0, d % b = 0
    PROVE  (a + d) % b = 0
<1> DEFINE p == a \div b
           q == d \div b
<1>1. p \in Nat /\ a = p * b + (a % b)
  BY Quotient
<1>2. q \in Nat /\ d = q * b + (d % b)
  BY Quotient
<1> HIDE DEF p, q
<1>4. p * b \in Nat /\ q * b \in Nat
  BY <1>1, <1>2
<1>6. a = p * b /\ d = q * b
  BY <1>1, <1>2, <1>4
<1>5. a + d = (p + q) * b
  BY <1>1, <1>2, <1>6
<1>3. ((p + q) * b) % b = 0
  BY <1>1, <1>2, Multiple
<1> QED
  BY <1>5, <1>3

LEMMA DividesTwice ==
    ASSUME NEW a \in Nat, NEW c \in Nat \ {0}, NEW b \in Nat \ {0}, a % b = 0, b % c = 0
    PROVE  a % c = 0
<1> DEFINE p == a \div b
           q == b \div c
<1>1. p \in Nat /\ a = p * b + (a % b)
  BY Quotient
<1>2. q \in Nat /\ b = q * c + (b % c)
  BY Quotient
<1> HIDE DEF p, q
<1>4. p * b \in Nat /\ q * c \in Nat
  BY <1>1, <1>2
<1>6. a = p * b /\ b = q * c
  BY <1>1, <1>2, <1>4
<1>5. a = (p * q) * c /\ p * q \in Nat
  BY <1>1, <1>2, <1>6
<1> DEFINE m == p * q
<1> HIDE DEF m
<1>7. m \in Nat /\ a = m * c
  BY <1>5 DEF m
<1>3. (m * c) % c = 0
  BY <1>7, Multiple
<1> QED
  BY <1>7, <1>3

-----------------------------------------------------------------------------
(* The inductive invariant.  What the properties need beyond themselves is *)
(* that the file a tool is still collecting is exact as far as it goes,    *)
(* that bundles begin at multiples of their size, and that a well begun    *)
(* tool reads its bundle from the first height of the bundle.              *)

Exact(kind, entries, h) ==
    \A k \in KeysOfKind[kind] : <<k, h>> \in entries <=> k \in IndexKeys(kind, chain[h])

FilesExact ==
    \A f \in store :
      /\ f.low + f.size - 1 <= Len(chain)
      /\ \A h \in f.from .. f.low + f.size - 1 : Exact(f.kind, f.entries, h)
      /\ \A k, h : <<k, h>> \in f.entries => h >= f.from

ToolExact ==
    tool # NoTool =>
      /\ \A h \in tool.from .. tool.next - 1 : h <= Len(chain) /\ Exact(tool.kind, tool.entries, h)
      /\ \A k, h : <<k, h>> \in tool.entries => h >= tool.from /\ h < tool.next

\* Nothing of a bundle, or only the height 0 that no block has, is before h.
FirstOf(low, h) == h = low \/ (low = 0 /\ h = 1)

Bundled ==
    /\ \A f \in store : f.low % f.size = 0 /\ (f.wellBegun => FirstOf(f.low, f.from))
    /\ tool # NoTool =>
         /\ tool.low % tool.size = 0
         /\ WellBegun(tool.start, tool.size, tool.lookups) => FirstOf(tool.low, tool.from)

IInv == TypeOK /\ FilesExact /\ ToolExact /\ Bundled /\ StreamIsComplete

LEMMA ChainType ==
    ASSUME TypeOK, NEW h \in 1 .. Len(chain)
    PROVE  chain[h] \in Block
BY IndexAssumption DEF TypeOK

\* The keys an indexer records are keys of its kind.
LEMMA IndexKeysType ==
    ASSUME NEW kind \in Kind, NEW b \in Block
    PROVE  IndexKeys(kind, b) \subseteq Key
<1>1. b.begin \subseteq EventTypes /\ b.end \subseteq EventTypes /\ b.txs \in Seq(Tx)
  BY DEF Block
<1>2. \A i \in DOMAIN b.txs : b.txs[i].events \subseteq EventTypes /\ b.txs[i].messages \subseteq MessageTypes
  <2>1. \A i \in DOMAIN b.txs : b.txs[i] \in Tx
    BY <1>1
  <2>2. \A t \in Tx : t.events \subseteq EventTypes /\ t.messages \subseteq MessageTypes
    BY DEF Tx
  <2> QED
    BY <2>1, <2>2
<1>3. TxEvents(b) \subseteq EventTypes
  BY <1>2, TxEventsMember
<1>4. TxMessages(b) \subseteq MessageTypes
  BY <1>2, TxMessagesMember
<1>5. EventTypeKeys(b) \subseteq Key /\ EventOriginKeys(b) \subseteq Key /\ MessageTypeKeys(b) \subseteq Key
  BY <1>1, <1>3, <1>4 DEF EventTypeKeys, EventOriginKeys, MessageTypeKeys, Key
<1> QED
  BY <1>5 DEF IndexKeys, Kind

LEMMA InitInv == Init => IInv
<1> SUFFICES ASSUME Init PROVE IInv
  OBVIOUS
<1>1. TypeOK
  BY DEF Init, TypeOK
<1> QED
  BY <1>1 DEF Init, IInv, FilesExact, ToolExact, Bundled, StreamIsComplete

\* A longer chain leaves the blocks it had, and so all that was said of them.
LEMMA FinalBlockInv == IInv /\ FinalBlock => IInv'
<1> SUFFICES ASSUME IInv, FinalBlock PROVE IInv'
  OBVIOUS
<1> USE DEF IInv
<1>1. PICK b \in Blocks : chain' = Append(chain, b)
  BY DEF FinalBlock
<1>2. /\ store' = store /\ tool' = tool /\ started' = started
      /\ filter' = filter /\ cursor' = cursor /\ delivered' = delivered
  BY DEF FinalBlock, stream
<1>3. chain \in Seq(Blocks) /\ Len(chain) \in Nat
  BY DEF TypeOK
<1>4. chain' \in Seq(Blocks) /\ Len(chain') = Len(chain) + 1
  BY <1>1, <1>3
<1>5. \A h \in 1 .. Len(chain) : chain'[h] = chain[h]
  BY <1>1, <1>3
<1>6. TypeOK'
  BY <1>2, <1>3, <1>4 DEF TypeOK
<1>7. FilesExact'
  <2> SUFFICES ASSUME NEW f \in store
               PROVE  /\ f.low + f.size - 1 <= Len(chain')
                      /\ \A h \in f.from .. f.low + f.size - 1 : Exact(f.kind, f.entries, h)'
                      /\ \A k, h : <<k, h>> \in f.entries => h >= f.from
    BY <1>2 DEF FilesExact
  <2>1. /\ f.low \in Nat /\ f.size \in Nat /\ f.from \in Nat /\ f.from # 0
        /\ f.low + f.size - 1 <= Len(chain)
    BY IndexAssumption DEF TypeOK, File, FilesExact, Heights
  <2>2. ASSUME NEW h \in f.from .. f.low + f.size - 1
        PROVE  Exact(f.kind, f.entries, h)'
    BY <1>3, <1>5, <2>1, <2>2 DEF FilesExact, Exact
  <2> QED
    BY <1>3, <1>4, <2>1, <2>2 DEF FilesExact
<1>8. ToolExact'
  <2> SUFFICES ASSUME tool # NoTool PROVE ToolExact'
    BY <1>2 DEF ToolExact
  <2>1. tool.from \in Nat /\ tool.from # 0 /\ tool.next \in Nat
    BY DEF TypeOK, Tool, Heights
  <2>2. ASSUME NEW h \in tool.from .. tool.next - 1
        PROVE  h <= Len(chain') /\ Exact(tool.kind, tool.entries, h)'
    <3>1. h <= Len(chain) /\ Exact(tool.kind, tool.entries, h)
      BY <2>2 DEF ToolExact
    <3>2. h \in 1 .. Len(chain)
      BY <1>3, <2>1, <2>2, <3>1
    <3>3. chain'[h] = chain[h]
      BY <1>5, <3>2
    <3> QED
      BY <1>2, <1>3, <1>4, <3>1, <3>2, <3>3 DEF Exact
  <2> QED
    BY <1>2, <2>2 DEF ToolExact
<1>10. Bundled'
  BY <1>2 DEF Bundled
<1>9. StreamIsComplete'
  BY <1>2, <1>3, <1>5 DEF StreamIsComplete, Covering, TypeOK
<1> QED
  BY <1>6, <1>7, <1>8, <1>9, <1>10

\* The height a tool resolves is its start block, or the end of a bundle of a
\* size it looked up.
LEMMA ResolvedHeight ==
    ASSUME TypeOK, Bundled, NEW name, NEW lookups, NEW start \in Heights, NEW h \in Nat,
           NextUnindexed(name, lookups, start, h)
    PROVE  h = start \/ \E l \in lookups : l \in Nat \ {0} /\ h % l = 0
<1> SUFFICES ASSUME h # start PROVE \E l \in lookups : l \in Nat \ {0} /\ h % l = 0
  OBVIOUS
<1>1. start \in Nat /\ h - 1 \in start .. h - 1
  BY DEF NextUnindexed, Heights
<1>2. PICK f \in store : Covers(f, name, h - 1) /\ f.size \in lookups
  BY <1>1 DEF NextUnindexed, Indexed
<1>3. f.low \in Nat /\ f.size \in Nat \ {0}
  BY IndexAssumption DEF TypeOK, File
<1>4. f.low <= h - 1 /\ h - 1 < f.low + f.size
  BY <1>2 DEF Covers
<1>5. ~(f.low <= h /\ h < f.low + f.size)
  BY <1>2 DEF Covers, NextUnindexed, Indexed
<1>6. h = f.low + f.size
  BY <1>3, <1>4, <1>5
<1>7. f.size % f.size = 0
  <2>1. f.size = 1 * f.size
    BY <1>3
  <2>2. (1 * f.size) % f.size = 0
    BY <1>3, Multiple
  <2> QED
    BY <2>1, <2>2
<1>8. h % f.size = 0
  BY <1>3, <1>6, <1>7, SumDivides DEF Bundled
<1> QED
  BY <1>2, <1>3, <1>8

\* A well begun tool enters its first bundle at the first height.
LEMMA WellBegunFirst ==
    ASSUME TypeOK, Bundled, NEW name, NEW lookups, NEW start \in Heights, NEW h \in Heights,
           NEW size \in Nat \ {0}, NextUnindexed(name, lookups, start, h),
           WellBegun(start, size, lookups)
    PROVE  FirstOf(BundleOf(h, size), h)
<1>1. h \in Nat /\ h # 0
  BY DEF Heights
<1>2. h = 1 \/ h % size = 0
  <2>1. CASE h = start
    BY <2>1 DEF WellBegun
  <2>2. ASSUME NEW l \in lookups, l \in Nat \ {0}, h % l = 0
        PROVE  h % size = 0
    <3>1. l % size = 0
      BY DEF WellBegun
    <3> QED
      BY <1>1, <2>2, <3>1, DividesTwice
  <2> QED
    BY <1>1, <2>1, <2>2, ResolvedHeight
<1>3. CASE h % size = 0
  BY <1>1, <1>3 DEF FirstOf, BundleOf
<1>4. CASE h = 1
  <2>1. 1 % size = 0 \/ 1 % size = 1
    <3>1. 1 % size \in 0 .. size - 1 /\ 1 \div size \in Nat /\ 1 = (1 \div size) * size + (1 % size)
      BY Quotient
    <3>2. CASE size = 1
      BY <3>1, <3>2
    <3>3. CASE size > 1
      BY <3>3
    <3> QED
      BY <3>2, <3>3
  <2> QED
    BY <1>4, <2>1 DEF FirstOf, BundleOf
<1> QED
  BY <1>2, <1>3, <1>4

\* A tool that starts has collected nothing yet, of no block.
LEMMA StartToolInv == IInv /\ StartTool => IInv'
<1> SUFFICES ASSUME IInv, StartTool PROVE IInv'
  OBVIOUS
<1> USE DEF IInv
<1>1. chain' = chain /\ store' = store /\ filter' = filter /\ cursor' = cursor /\ delivered' = delivered
  BY DEF StartTool, stream
<1>0. PICK kind \in Kind, size \in IndexSizes, lookups \in Lookups,
           start \in StartBlocks, asked \in Stops, fifth \in BOOLEAN :
        \E h \in start .. start + Len(chain) :
          /\ NextUnindexed(LookupName(kind), lookups, start, h)
          /\ tool' = [kind |-> kind, size |-> size, low |-> BundleOf(h, size), entries |-> {},
                      from |-> h, next |-> h, start |-> start, lookups |-> lookups,
                      asked |-> asked, stop |-> StopOf(asked, fifth)]
  BY DEF StartTool
<1>2. PICK h \in start .. start + Len(chain) :
        /\ NextUnindexed(LookupName(kind), lookups, start, h)
        /\ tool' = [kind |-> kind, size |-> size, low |-> BundleOf(h, size), entries |-> {},
                    from |-> h, next |-> h, start |-> start, lookups |-> lookups,
                    asked |-> asked, stop |-> StopOf(asked, fifth)]
  BY <1>0
<1>3. h \in Heights /\ h \in Nat /\ start \in Heights /\ size \in Nat \ {0}
  BY IndexAssumption DEF Heights, TypeOK
<1>4. asked \in Nat /\ StopOf(asked, fifth) \in Nat
  BY IndexAssumption DEF StopOf
<1> DEFINE low == BundleOf(h, size)
<1>5. low \in Nat /\ low % size = 0
  BY <1>3, BundleBegins DEF BundleOf
<1>6. low <= h /\ h <= low + size
  <2> DEFINE r == h % size
  <2>1. r \in 0 .. size - 1 /\ low = h - r
    BY <1>3, Quotient DEF BundleOf
  <2> HIDE DEF r, low
  <2> QED
    BY <1>3, <1>5, <2>1
<1>7. WellBegun(start, size, lookups) => FirstOf(low, h)
  BY <1>2, <1>3, WellBegunFirst
<1> HIDE DEF low
<1>8. tool' = [kind |-> kind, size |-> size, low |-> low, entries |-> {},
               from |-> h, next |-> h, start |-> start, lookups |-> lookups,
               asked |-> asked, stop |-> StopOf(asked, fifth)]
  BY <1>2 DEF low
<1>9. TypeOK'
  <2>1. tool' \in Tool
    BY <1>3, <1>4, <1>5, <1>8 DEF Tool
  <2>2. /\ tool'.low <= tool'.from /\ tool'.from <= tool'.next
        /\ tool'.next <= tool'.low + tool'.size
    BY <1>3, <1>6, <1>8
  <2> QED
    BY <1>1, <2>1, <2>2 DEF TypeOK, StartTool
<1>10. FilesExact' /\ StreamIsComplete'
  BY <1>1 DEF FilesExact, StreamIsComplete, Covering, Exact
<1>11. ToolExact'
  <2>1. h .. h - 1 = {}
    BY <1>3
  <2> QED
    BY <1>8, <2>1 DEF ToolExact
<1>12. Bundled'
  BY <1>1, <1>5, <1>7, <1>8 DEF Bundled
<1> QED
  BY <1>9, <1>10, <1>11, <1>12

\* Each block goes into the bundle it belongs to, and a bundle is written when
\* all of its blocks are in.
LEMMA ProcessBlockInv == IInv /\ ProcessBlock => IInv'
<1> SUFFICES ASSUME IInv, ProcessBlock PROVE IInv'
  OBVIOUS
<1> USE DEF IInv
<1>1. chain' = chain /\ started' = started /\ filter' = filter /\ cursor' = cursor /\ delivered' = delivered
  BY DEF ProcessBlock, stream
<1> DEFINE n == tool.next
           b == chain[n]
           full == n >= tool.low + tool.size
           new == IndexKeys(tool.kind, b) \X {n}
           old == IF full THEN {} ELSE tool.entries
           low == IF full THEN tool.low + tool.size ELSE tool.low
           from == IF full THEN n ELSE tool.from
<1>2. tool \in Tool /\ tool # NoTool /\ n <= Len(chain)
  BY DEF ProcessBlock, TypeOK
<1>3. /\ tool.kind \in Kind /\ tool.low \in Nat /\ n \in Nat /\ n # 0
      /\ tool.from \in Nat /\ tool.from # 0 /\ tool.asked \in Nat /\ tool.stop \in Nat
      /\ tool.entries \subseteq Key \X Heights
      /\ tool.low <= tool.from /\ tool.from <= n /\ n <= tool.low + tool.size
      /\ Len(chain) \in Nat /\ tool.size \in Nat \ {0}
  <2>1. /\ tool.kind \in Kind /\ tool.low \in Nat /\ tool.from \in Heights /\ n \in Heights
        /\ tool.asked \in Nat /\ tool.stop \in Nat /\ tool.entries \subseteq Key \X Heights
        /\ tool.size \in IndexSizes
    BY <1>2 DEF Tool
  <2>2. Len(chain) \in Nat
    BY DEF TypeOK
  <2>3. tool.low <= tool.from /\ tool.from <= n /\ n <= tool.low + tool.size
    BY <1>2 DEF TypeOK
  <2>4. tool.size \in Nat \ {0}
    BY <2>1, IndexAssumption
  <2> QED
    BY <2>1, <2>2, <2>3, <2>4 DEF Heights
<1>4. b \in Block
  BY <1>2, <1>3, ChainType
<1>5. new \subseteq Key \X Heights
  BY <1>3, <1>4, IndexKeysType DEF Heights
<1>6. tool' = [kind |-> tool.kind, size |-> tool.size, low |-> low, entries |-> old \cup new,
               from |-> from, next |-> n + 1, start |-> tool.start, lookups |-> tool.lookups,
               asked |-> tool.asked, stop |-> tool.stop]
  BY <1>2 DEF ProcessBlock, NextBundle, NewEntries, Tool
<1>7. /\ low \in Nat /\ from \in Nat /\ from # 0
      /\ low <= from /\ from <= n /\ n < low + tool.size
  BY <1>3
<1>8. tool' \in Tool /\ tool' # NoTool
  <2>1. tool.size \in IndexSizes /\ tool.start \in StartBlocks /\ tool.lookups \in Lookups
    BY <1>2 DEF Tool
  <2>2. from \in Heights /\ n + 1 \in Heights /\ old \cup new \subseteq Key \X Heights
    BY <1>3, <1>5, <1>7 DEF Heights
  <2> HIDE DEF n, b, full, new, old, low, from
  <2>3. tool' \in Tool
    BY <1>3, <1>6, <1>7, <2>1, <2>2 DEF Tool
  <2> QED
    BY <1>6, <2>3 DEF NoTool
<1>9. store' \subseteq store \cup (IF full THEN {CurrentFile} ELSE {})
  BY DEF ProcessBlock, WriteFile
<1>10. CurrentFile \in File
  <2>1. WellBegun(tool.start, tool.size, tool.lookups) \in BOOLEAN
    BY DEF WellBegun
  <2> QED
    BY <1>2, <1>3, <2>1 DEF CurrentFile, File, Tool
<1>11. TypeOK'
  <2>1. /\ tool'.low <= tool'.from /\ tool'.from <= tool'.next
        /\ tool'.next <= tool'.low + tool'.size
    BY <1>3, <1>6, <1>7
  <2> QED
    BY <1>1, <1>8, <1>9, <1>10, <2>1 DEF TypeOK
<1>12. FilesExact'
  <2> SUFFICES ASSUME NEW f \in store'
               PROVE  /\ f.low + f.size - 1 <= Len(chain)
                      /\ \A h \in f.from .. f.low + f.size - 1 : Exact(f.kind, f.entries, h)
                      /\ \A k, h : <<k, h>> \in f.entries => h >= f.from
    BY <1>1 DEF FilesExact, Exact
  <2>1. CASE f \in store
    BY <2>1 DEF FilesExact
  <2>2. CASE full /\ f = CurrentFile
    <3>1. /\ f.kind = tool.kind /\ f.size = tool.size /\ f.low = tool.low
          /\ f.entries = tool.entries /\ f.from = tool.from
      BY <2>2 DEF CurrentFile
    <3>2. n = tool.low + tool.size
      BY <1>3, <2>2
    <3>3. f.low + f.size - 1 = n - 1
      BY <1>3, <3>1, <3>2
    <3>4. /\ \A h \in tool.from .. n - 1 : h <= Len(chain) /\ Exact(tool.kind, tool.entries, h)
          /\ \A k, h : <<k, h>> \in tool.entries => h >= tool.from
      BY <1>2 DEF ToolExact
    <3>5. f.low + f.size - 1 <= Len(chain)
      BY <1>2, <1>3, <3>1, <3>2
    <3> HIDE DEF n
    <3> QED
      BY <3>1, <3>4, <3>5, <3>3
  <2> QED
    BY <1>9, <2>1, <2>2
<1>13. ToolExact'
  <2>1. /\ tool'.kind = tool.kind /\ tool'.from = from /\ tool'.next = n + 1
        /\ tool'.entries = old \cup new
    BY <1>6
  <2>2. \A k, h : <<k, h>> \in tool.entries => h >= tool.from /\ h < n
    BY <1>2 DEF ToolExact
  <2>3. \A k, h : <<k, h>> \in new <=> k \in IndexKeys(tool.kind, b) /\ h = n
    OBVIOUS
  <2>4. \A k, h : <<k, h>> \in old => <<k, h>> \in tool.entries /\ from = tool.from
    OBVIOUS
  <2>5. ASSUME NEW h \in from .. n
        PROVE  h <= Len(chain) /\ Exact(tool.kind, old \cup new, h)
    <3>1. CASE h = n
      BY <1>2, <1>3, <2>2, <2>3, <2>4, <3>1 DEF Exact
    <3>2. CASE h < n
      <4>1. from = tool.from /\ old = tool.entries /\ h \in tool.from .. n - 1
        BY <1>3, <1>7, <2>5, <3>2
      <4>2. h <= Len(chain) /\ Exact(tool.kind, tool.entries, h)
        BY <1>2, <2>5, <4>1 DEF ToolExact
      <4> QED
        BY <2>3, <3>2, <4>1, <4>2 DEF Exact
    <3> QED
      BY <1>3, <1>7, <3>1, <3>2
  <2>6. \A k, h : <<k, h>> \in old \cup new => h >= from /\ h < n + 1
    <3> SUFFICES ASSUME NEW k, NEW h, <<k, h>> \in old \cup new PROVE h >= from /\ h < n + 1
      OBVIOUS
    <3>1. CASE <<k, h>> \in new
      BY <1>3, <1>7, <2>3, <3>1
    <3>2. CASE <<k, h>> \in old
      <4>1. h < n /\ h \in Nat /\ h >= from
        BY <1>3, <2>2, <2>4, <3>2 DEF Heights
      <4> QED
        BY <1>3, <4>1
    <3> QED
      BY <3>1, <3>2
  <2> HIDE DEF old, new, low, from
  <2>7. \A h \in from .. (n + 1) - 1 : h <= Len(chain) /\ Exact(tool.kind, old \cup new, h)
    <3>1. (n + 1) - 1 = n
      BY <1>3
    <3> HIDE DEF n
    <3> QED
      BY <2>5, <3>1
  <2> QED
    BY <1>1, <2>1, <2>6, <2>7 DEF ToolExact, Exact
<1>14. Bundled'
  <2>1. tool.low % tool.size = 0 /\ tool.size % tool.size = 0
    <3>1. tool.size = 1 * tool.size
      BY <1>3
    <3>2. (1 * tool.size) % tool.size = 0
      BY <1>3, Multiple
    <3> QED
      BY <1>2, <3>1, <3>2 DEF Bundled
  <2>2. low % tool.size = 0
    BY <1>3, <2>1, SumDivides
  <2>3. WellBegun(tool.start, tool.size, tool.lookups) => FirstOf(low, from)
    <3>1. CASE full
      <4>1. n = tool.low + tool.size
        BY <1>3, <3>1
      <4> QED
        BY <3>1, <4>1 DEF FirstOf
    <3>2. CASE ~full
      BY <1>2, <3>2 DEF Bundled
    <3> QED
      BY <3>1, <3>2
  <2>4. /\ CurrentFile.low % CurrentFile.size = 0
        /\ CurrentFile.wellBegun => FirstOf(CurrentFile.low, CurrentFile.from)
    BY <1>2, <2>1 DEF CurrentFile, Bundled
  <2> HIDE DEF n, b, full, new, old, low, from
  <2>5. \A f \in store' : f.low % f.size = 0 /\ (f.wellBegun => FirstOf(f.low, f.from))
    BY <1>9, <2>4 DEF Bundled
  <2>6. /\ tool'.low = low /\ tool'.size = tool.size /\ tool'.from = from
        /\ tool'.start = tool.start /\ tool'.lookups = tool.lookups
    BY <1>6
  <2> QED
    BY <2>2, <2>3, <2>5, <2>6 DEF Bundled
<1>15. StreamIsComplete'
  <2>1. store \subseteq store'
    BY DEF ProcessBlock, WriteFile
  <2> QED
    BY <1>1, <2>1 DEF StreamIsComplete, Covering
<1> QED
  BY <1>11, <1>12, <1>13, <1>14, <1>15

LEMMA EndToolInv == IInv /\ EndTool => IInv'
<1> SUFFICES ASSUME IInv, EndTool PROVE IInv'
  OBVIOUS
<1> USE DEF IInv, EndTool, stream
<1>1. TypeOK'
  BY DEF TypeOK
<1>2. FilesExact' /\ ToolExact' /\ Bundled' /\ StreamIsComplete'
  BY DEF FilesExact, ToolExact, Bundled, StreamIsComplete, Covering, Exact
<1> QED
  BY <1>1, <1>2

\* A height that an exact file rules out has nothing for the client, unless the
\* file's tool had not read it, which no well begun tool leaves out.
LEMMA SkipInv == IInv /\ Skip => IInv'
<1> SUFFICES ASSUME IInv, Skip PROVE IInv'
  OBVIOUS
<1> USE DEF IInv
<1>1. /\ chain' = chain /\ store' = store /\ tool' = tool /\ started' = started
      /\ filter' = filter /\ delivered' = delivered /\ cursor' = cursor + 1 /\ cursor <= Len(chain)
  BY DEF Skip
<1>2. cursor \in 1 .. Len(chain) /\ Len(chain) \in Nat
  BY <1>1 DEF TypeOK
<1>3. filter \in Filter /\ chain[cursor] \in Block
  BY <1>2, ChainType, IndexAssumption DEF TypeOK
<1>4. PICK f \in Covering(cursor) : cursor \notin Matching(filter, f)
  BY DEF Skip
<1>5. f \in store /\ f.low \in Nat /\ f.size \in Nat /\ f.from \in Nat
  BY IndexAssumption DEF TypeOK, File, Covering, Heights
<1>6. f.kind = filter.kind /\ cursor \in f.low .. f.low + f.size - 1 /\ cursor # 0
  BY <1>2, <1>4, <1>5 DEF Covers, Covering
<1>7. cursor >= f.from => ~HasContent(filter.kind, Filtered(filter, chain[cursor]))
  <2> SUFFICES ASSUME cursor >= f.from
               PROVE  ~HasContent(filter.kind, Filtered(filter, chain[cursor]))
    OBVIOUS
  <2>1. cursor \in f.from .. f.low + f.size - 1
    BY <1>2, <1>5, <1>6
  <2>2. Exact(filter.kind, f.entries, cursor)
    BY <1>5, <1>6, <2>1 DEF FilesExact
  <2>3. \A k \in filter.keys : <<k, cursor>> \notin f.entries
    BY <1>4, <1>6 DEF Matching
  <2>4. \A k \in filter.keys : k \notin IndexKeys(filter.kind, chain[cursor])
    BY <1>3, <2>2, <2>3, FilterType DEF Exact
  <2> QED
    BY <1>3, <2>4, FilterMatchesIndex
<1>8. cursor < f.from => ~f.wellBegun
  <2>1. cursor < f.from => ~FirstOf(f.low, f.from)
    BY <1>2, <1>5, <1>6 DEF FirstOf
  <2> QED
    BY <1>5, <2>1 DEF Bundled
<1>9. cursor \in Nat
  BY <1>2
<1>10. \/ ~HasContent(filter.kind, Filtered(filter, chain[cursor]))
       \/ ~f.wellBegun /\ cursor < f.from
  BY <1>5, <1>7, <1>8, <1>9
<1>11. TypeOK'
  <2>1. delivered \subseteq (1 .. cursor) \X Block
    BY <1>2 DEF TypeOK
  <2> QED
    BY <1>1, <1>2, <2>1 DEF TypeOK
<1>12. StreamIsComplete'
  <2>1. \A h \in 1 .. cursor : h \in 1 .. cursor - 1 \/ h = cursor
    BY <1>2
  <2> QED
    BY <1>1, <1>2, <1>4, <1>10, <2>1 DEF StreamIsComplete, Covering
<1>13. FilesExact' /\ ToolExact' /\ Bundled'
  BY <1>1 DEF FilesExact, ToolExact, Bundled, Exact
<1> QED
  BY <1>11, <1>12, <1>13

LEMMA DeliverInv == IInv /\ Deliver => IInv'
<1> SUFFICES ASSUME IInv, Deliver PROVE IInv'
  OBVIOUS
<1> USE DEF IInv
<1> DEFINE g == Filtered(filter, chain[cursor])
<1>1. /\ chain' = chain /\ store' = store /\ tool' = tool /\ started' = started
      /\ filter' = filter /\ cursor' = cursor + 1 /\ cursor <= Len(chain)
      /\ delivered' = delivered \cup {<<cursor, g>>}
  BY DEF Deliver
<1>2. cursor \in 1 .. Len(chain) /\ Len(chain) \in Nat
  BY <1>1 DEF TypeOK
<1>3. g \in Block
  BY <1>2, ChainType, FilteredType, IndexAssumption DEF TypeOK
<1> HIDE DEF g
<1>4. TypeOK'
  <2>1. delivered' \subseteq (1 .. cursor) \X Block
    BY <1>1, <1>2, <1>3 DEF TypeOK
  <2> QED
    BY <1>1, <1>2, <2>1 DEF TypeOK
<1>5. StreamIsComplete'
  <2>1. \A h \in 1 .. cursor : h \in 1 .. cursor - 1 \/ h = cursor
    BY <1>2
  <2> QED
    BY <1>1, <1>2, <2>1 DEF StreamIsComplete, Covering, g
<1>6. FilesExact' /\ ToolExact' /\ Bundled'
  BY <1>1 DEF FilesExact, ToolExact, Bundled, Exact
<1> QED
  BY <1>4, <1>5, <1>6

LEMMA StutterInv == IInv /\ UNCHANGED vars => IInv'
BY DEF IInv, vars, stream, TypeOK, FilesExact, ToolExact, Bundled, StreamIsComplete,
       Covering, Exact

\* IInv holds throughout.
THEOREM Invariance == Spec => []IInv
<1>1. IInv /\ [Next]_vars => IInv'
  BY FinalBlockInv, StartToolInv, ProcessBlockInv, EndToolInv, SkipInv, DeliverInv, StutterInv DEF Next
<1> QED
  BY <1>1, InitInv, PTL DEF Spec

-----------------------------------------------------------------------------

\* The variables keep their types.
THEOREM TypeCorrect == Spec => []TypeOK
<1>1. IInv => TypeOK
  BY DEF IInv
<1> QED
  BY <1>1, Invariance, PTL

\* From the first height its tool read on, an index file lists a height under a
\* key just when the filter for that key leaves something of the block there, and
\* before it lists nothing; a well begun tool reads all of its bundles.
THEOREM FilesAreExact == Spec => []IndexIsExact
<1>1. IInv => IndexIsExact
  <2> SUFFICES ASSUME IInv, NEW f \in store
               PROVE  /\ f.low + f.size - 1 <= Len(chain)
                      /\ \A h \in Bundle(f), k \in KeysOfKind[f.kind] :
                           <<k, h>> \in f.entries <=> h >= f.from /\ Leaves(f.kind, k, h)
                      /\ f.wellBegun => \A h \in Bundle(f) : h >= f.from
    BY DEF IndexIsExact
  <2>1. /\ f.kind \in Kind /\ f.low \in Nat /\ f.size \in Nat /\ f.from \in Nat
        /\ f.from # 0 /\ Len(chain) \in Nat
    <3>1. f \in File /\ Len(chain) \in Nat
      BY DEF IInv, TypeOK
    <3> QED
      BY <3>1, IndexAssumption DEF File, Heights
  <2>2. f.low + f.size - 1 <= Len(chain)
    BY DEF IInv, FilesExact
  <2>3. ASSUME NEW h \in Bundle(f), NEW k \in KeysOfKind[f.kind]
        PROVE  <<k, h>> \in f.entries <=> h >= f.from /\ Leaves(f.kind, k, h)
    <3> DEFINE g == [kind |-> f.kind, keys |-> {k}]
    <3>0. h \in f.low .. f.low + f.size - 1 /\ h \in 1 .. Len(chain)
      BY <2>1, <2>2, <2>3 DEF Bundle
    <3>1. g \in Filter
      <4>1. CASE f.kind = "eventtype"
        BY <2>3, <4>1 DEF Filter, EventTypeFilters, KeysOfKind
      <4>2. CASE f.kind = "eventorigin"
        BY <2>3, <4>2 DEF Filter, EventOriginFilters, KeysOfKind
      <4>3. CASE f.kind = "messagetype"
        BY <2>3, <4>3 DEF Filter, MessageTypeFilters, KeysOfKind
      <4> QED
        BY <2>1, <4>1, <4>2, <4>3 DEF Kind
    <3>2. chain[h] \in Block
      BY <3>0, ChainType DEF IInv
    <3>3. g.kind = f.kind /\ g.keys = {k}
      OBVIOUS
    <3>4. Leaves(f.kind, k, h) <=> HasContent(g.kind, Filtered(g, chain[h]))
      BY DEF Leaves
    <3> HIDE DEF g
    <3>5. Leaves(f.kind, k, h) <=> k \in IndexKeys(f.kind, chain[h])
      BY <3>1, <3>2, <3>3, <3>4, FilterMatchesIndex
    <3>6. CASE h >= f.from
      <4>1. h \in f.from .. f.low + f.size - 1
        BY <2>1, <3>0, <3>6
      <4> QED
        BY <2>3, <3>5, <3>6, <4>1 DEF IInv, FilesExact, Exact
    <3>7. CASE ~(h >= f.from)
      BY <3>7 DEF IInv, FilesExact
    <3> QED
      BY <3>6, <3>7
  <2>4. f.wellBegun => \A h \in Bundle(f) : h >= f.from
    BY <2>1 DEF IInv, Bundled, FirstOf, Bundle
  <2> QED
    BY <2>2, <2>3, <2>4
<1> QED
  BY <1>1, Invariance, PTL

\* Whatever is indexed when the stream passes, the client gets every block that
\* has something of what it asked for, but for those that a tool which entered
\* their bundle beyond them never read.
THEOREM NothingIsSkipped == Spec => []StreamIsComplete
<1>1. IInv => StreamIsComplete
  BY DEF IInv
<1> QED
  BY <1>1, Invariance, PTL

-----------------------------------------------------------------------------
(* What the tools do right.                                                *)

\* The tools look for the files of the event origin index (ResumesAtUnindexed):
\* if that is the index they write, each goes on where its own index ends,
\* whatever earlier runs wrote, were stopped at or were killed in.
THEOREM OriginToolsResume ==
    Spec /\ [](tool # NoTool => tool.kind = "eventorigin") => ResumesAtUnindexed
<1> DEFINE OwnIndex == tool # NoTool => tool.kind = "eventorigin"
           Resumes == NextUnindexed(tool'.kind, tool'.lookups, tool'.start, tool'.next)
<1>1. ASSUME [Next]_vars, OwnIndex', tool = NoTool, tool' # NoTool PROVE Resumes
  <2>1. StartTool
    BY <1>1 DEF Next, FinalBlock, ProcessBlock, EndTool, Skip, Deliver, vars, stream
  <2>2. PICK kind \in Kind, size \in IndexSizes, lookups \in Lookups,
             start \in StartBlocks, asked \in Stops, fifth \in BOOLEAN :
          \E h \in start .. start + Len(chain) :
            /\ NextUnindexed(LookupName(kind), lookups, start, h)
            /\ tool' = [kind |-> kind, size |-> size, low |-> BundleOf(h, size), entries |-> {},
                        from |-> h, next |-> h, start |-> start, lookups |-> lookups,
                        asked |-> asked, stop |-> StopOf(asked, fifth)]
    BY <2>1 DEF StartTool
  <2>3. PICK h \in start .. start + Len(chain) :
          /\ NextUnindexed(LookupName(kind), lookups, start, h)
          /\ tool' = [kind |-> kind, size |-> size, low |-> BundleOf(h, size), entries |-> {},
                      from |-> h, next |-> h, start |-> start, lookups |-> lookups,
                      asked |-> asked, stop |-> StopOf(asked, fifth)]
    BY <2>2
  <2>4. /\ tool'.kind = "eventorigin" /\ tool'.next = h
        /\ tool'.start = start /\ tool'.lookups = lookups
    BY <1>1, <2>3
  <2>5. NextUnindexed(tool'.kind, tool'.lookups, tool'.start, tool'.next)
    BY <2>3, <2>4 DEF LookupName
  <2> QED
    BY <2>5
<1>2. [Next]_vars /\ OwnIndex' => [tool = NoTool /\ tool' # NoTool => Resumes]_vars
  BY <1>1
<1> QED
  BY <1>2, PTL DEF Spec, ResumesAtUnindexed

=============================================================================
