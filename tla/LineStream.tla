----------------------------- MODULE LineStream -----------------------------
(***************************************************************************)
(* What every source of the reader app promises the mindreader plugin:     *)
(* the lines the node wrote are handed over one at a time, in the order    *)
(* they were written, none skipped and none twice.                         *)
(***************************************************************************)
EXTENDS Sequences, Integers

CONSTANT Line               \* the values a line can have

VARIABLES
    written,                \* lines the node has written, oldest first
    delivered               \* lines handed to the consumer, oldest first

Init ==
    /\ written = <<>>
    /\ delivered = <<>>

Write ==
    /\ \E l \in Line : written' = Append(written, l)
    /\ UNCHANGED delivered

Deliver ==
    /\ Len(delivered) < Len(written)
    /\ delivered' = Append(delivered, written[Len(delivered) + 1])
    /\ UNCHANGED written

Next == Write \/ Deliver

Spec == Init /\ [][Next]_<<written, delivered>>

=============================================================================
