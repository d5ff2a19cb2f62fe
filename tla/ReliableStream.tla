--------------------------- MODULE ReliableStream ---------------------------
(***************************************************************************)
(* What the reliable stream of one socket direction promises (spec §1,   *)
(* §3 invariant 1): the receiving user is handed the sent messages in      *)
(* order, each once and whole.  One step may hand over several messages    *)
(* (replay_pending_messages delivers a run of buffered ones at once).      *)
(***************************************************************************)
EXTENDS Sequences, SequencesExt

VARIABLES sent, delivered

Init == sent = <<>> /\ delivered = <<>>

\* The sending user appends one message.
Send ==
  /\ Len(sent') = Len(sent) + 1
  /\ IsPrefix(sent, sent')
  /\ UNCHANGED delivered

\* The receiving user is handed the next messages of the stream.
Deliver ==
  /\ IsStrictPrefix(delivered, delivered')
  /\ IsPrefix(delivered', sent)
  /\ UNCHANGED sent

Spec == Init /\ [][Send \/ Deliver]_<<sent, delivered>>
=============================================================================
