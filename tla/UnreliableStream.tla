-------------------------- MODULE UnreliableStream --------------------------
(***************************************************************************)
(* What the unreliable stream of one socket direction promises (spec §1:  *)
(* latest-wins and duplicate-suppressed; §3 invariant 2; scenario S4):    *)
(* the receiving user is handed some of the sent messages, each whole,    *)
(* and never one that is not newer than the last it was handed.           *)
(* sent holds the payload sizes in order of sending; a delivered message  *)
(* is its position in sent and its payload bytes.                         *)
(***************************************************************************)
EXTENDS Naturals, Sequences, SequencesExt

VARIABLES sent, delivered

Init == sent = <<>> /\ delivered = <<>>

\* The sending user appends one message.
Send ==
  /\ Len(sent') = Len(sent) + 1
  /\ IsPrefix(sent, sent')
  /\ UNCHANGED delivered

\* The message at position i, whole.
Whole(i) == [sn |-> i, bytes |-> 0 .. (sent[i] - 1)]

\* The receiving user is handed one or more messages, each newer than the
\* one before it; older ones are skipped for good.
Deliver ==
  /\ IsStrictPrefix(delivered, delivered')
  /\ \A k \in Len(delivered) + 1 .. Len(delivered') :
       /\ delivered'[k].sn \in 1 .. Len(sent)
       /\ delivered'[k] = Whole(delivered'[k].sn)
       /\ k > 1 => delivered'[k - 1].sn < delivered'[k].sn
  /\ UNCHANGED sent

Spec == Init /\ [][Send \/ Deliver]_<<sent, delivered>>
=============================================================================
