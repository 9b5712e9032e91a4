------------------------------ MODULE Transform ------------------------------
(***************************************************************************)
(* transform/: the three filters a Firehose client may ask for, and the    *)
(* keys under which the matching indexer records a block.                  *)
(*                                                                         *)
(* A block is cut down to the types of its events, by where they come      *)
(* from, and to the type urls of its messages.  Their number and order are *)
(* left out: neither filter nor indexer looks at them.                     *)
(* Every block has its results and every transaction its result and body:  *)
(* the code dereferences them unchecked, and the node sends them all.      *)
(***************************************************************************)
EXTENDS Integers, Sequences

CONSTANTS
    EventTypes,     \* Event.EventType
    MessageTypes    \* type url of a message

Origin == {"BeginBlock", "EndBlock", "DeliverTx"}

Kind == {"eventtype", "eventorigin", "messagetype"}

Tx == [events : SUBSET EventTypes, messages : SUBSET MessageTypes]

Block == [begin : SUBSET EventTypes, txs : Seq(Tx), end : SUBSET EventTypes]

\* The keys an index of each kind holds.
KeysOfKind == [eventtype   |-> EventTypes,
               eventorigin |-> Origin,
               messagetype |-> MessageTypes]

Key == EventTypes \cup Origin \cup MessageTypes

\* A filter without keys is refused by NewFunc.
EventTypeFilters == [kind : {"eventtype"}, keys : (SUBSET EventTypes) \ {{}}]

EventOriginFilters == [kind : {"eventorigin"}, keys : (SUBSET Origin) \ {{}}]

MessageTypeFilters == [kind : {"messagetype"}, keys : (SUBSET MessageTypes) \ {{}}]

Filter == EventTypeFilters \cup EventOriginFilters \cup MessageTypeFilters

-----------------------------------------------------------------------------
(* Transform: what a filter leaves of a block.                             *)

\* filterEvents on each of the three places of events.
EventTypeFilter(keys, block) ==
    [begin |-> block.begin \cap keys,
     txs   |-> [i \in DOMAIN block.txs |-> [block.txs[i] EXCEPT !.events = @ \cap keys]],
     end   |-> block.end \cap keys]

\* The events of an origin not asked for are dropped as a whole.
EventOriginFilter(keys, block) ==
    [begin |-> IF "BeginBlock" \in keys THEN block.begin ELSE {},
     txs   |-> IF "DeliverTx" \in keys
               THEN block.txs
               ELSE [i \in DOMAIN block.txs |-> [block.txs[i] EXCEPT !.events = {}]],
     end   |-> IF "EndBlock" \in keys THEN block.end ELSE {}]

\* Only the messages are filtered: the events stay.
MessageTypeFilter(keys, block) ==
    [block EXCEPT !.txs = [i \in DOMAIN block.txs |-> [block.txs[i] EXCEPT !.messages = @ \cap keys]]]

Filtered(f, block) ==
    CASE f.kind = "eventtype"   -> EventTypeFilter(f.keys, block)
      [] f.kind = "eventorigin" -> EventOriginFilter(f.keys, block)
      [] f.kind = "messagetype" -> MessageTypeFilter(f.keys, block)

-----------------------------------------------------------------------------
(* ProcessBlock: the keys an indexer records a block under.                *)

TxEvents(block) == UNION {block.txs[i].events : i \in DOMAIN block.txs}

TxMessages(block) == UNION {block.txs[i].messages : i \in DOMAIN block.txs}

EventTypeKeys(block) == block.begin \cup block.end \cup TxEvents(block)

EventOriginKeys(block) ==
    {o \in Origin : \/ o = "BeginBlock" /\ block.begin # {}
                    \/ o = "EndBlock" /\ block.end # {}
                    \/ o = "DeliverTx" /\ TxEvents(block) # {}}

MessageTypeKeys(block) == TxMessages(block)

\* Mutant: the events of EndBlock are forgotten.
IndexKeysNoEnd(kind, block) ==
    CASE kind = "eventtype"   -> block.begin \cup TxEvents(block)
      [] kind = "eventorigin" -> EventOriginKeys(block)
      [] kind = "messagetype" -> MessageTypeKeys(block)

IndexKeys(kind, block) ==
    CASE kind = "eventtype"   -> EventTypeKeys(block)
      [] kind = "eventorigin" -> EventOriginKeys(block)
      [] kind = "messagetype" -> MessageTypeKeys(block)

-----------------------------------------------------------------------------

\* Something of what the client asked for is left in the block.
HasContent(kind, block) ==
    IF kind = "messagetype"
    THEN TxMessages(block) # {}
    ELSE block.begin \cup block.end \cup TxEvents(block) # {}

=============================================================================
