------------------------------- MODULE AckSet -------------------------------
(***************************************************************************)
(* The set of reliable sequence numbers an endpoint has received, as it is *)
(* kept in SocketImpl::_received_message_ids and sent in every packet.     *)
(* The class itself (transport/ack_set.h) is not part of the sources; it  *)
(* is modelled from the spec: a base sequence number, a bitmap over the    *)
(* window base .. base + AckWindow - 1, and cumulative meaning below the   *)
(* base (everything older than the window counts as acknowledged).        *)
(***************************************************************************)
EXTENDS Naturals

CONSTANT AckWindow     \* the N of the spec: width of the bitmap window

ASSUME AckWindow \in Nat \ {0}

\* A default-constructed AckSet: nothing received yet.
EmptyAckSet == [base |-> 0, bits |-> {}]

AckSets(SN) == [base : SN, bits : SUBSET SN]

\* AckSet::is_in
IsIn(a, sn) == sn < a.base \/ sn \in a.bits

\* AckSet::can_add: the number is inside or beyond the window and not yet in.
CanAdd(a, sn) == sn >= a.base /\ sn \notin a.bits

\* AckSet::try_add: set the bit; a number beyond the window slides the base
\* forward so that it becomes the window's last slot.
TryAdd(a, sn) ==
  IF ~CanAdd(a, sn) THEN a
  ELSE IF sn < a.base + AckWindow
       THEN [a EXCEPT !.bits = @ \cup {sn}]
       ELSE LET nb == sn + 1 - AckWindow
            IN  [base |-> nb, bits |-> {x \in a.bits \cup {sn} : x >= nb}]
=============================================================================
