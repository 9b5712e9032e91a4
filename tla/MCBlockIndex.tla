---------------------------- MODULE MCBlockIndex -----------------------------
(***************************************************************************)
(* Blocks and filters for TLC.                                             *)
(***************************************************************************)
EXTENDS BlockIndex

MCEventTypes == {"transfer", "mint"}

MCMessageTypes == {"MsgSend"}

\* One with events of BeginBlock and DeliverTx and no message, one with an event
\* of EndBlock and a message.
MCBlocks ==
    {[begin |-> {"transfer"},
      txs |-> <<[events |-> {}, messages |-> {}], [events |-> {"transfer"}, messages |-> {}]>>,
      end |-> {}],
     [begin |-> {},
      txs |-> <<[events |-> {}, messages |-> {"MsgSend"}]>>,
      end |-> {"mint"}]}

MCFilters ==
    {[kind |-> "eventtype", keys |-> {"mint", "transfer"}],
     [kind |-> "eventorigin", keys |-> {"BeginBlock", "EndBlock"}],
     [kind |-> "messagetype", keys |-> {"MsgSend"}]}

=============================================================================
