------------------------------ MODULE Transport ------------------------------
(***************************************************************************)
(* One club::transport::Transport (src/src/club/transport/transport.h):   *)
(* the multi-peer router's link to one remote endpoint.  It owns a UDP     *)
(* socket, one receive loop, and a send loop paced by one 100 ms timer.  *)
(*                                                                         *)
(* Its collaborators (OutboundMessages, InboundMessages, TransmitQueue,    *)
(* MessageReader) are not part of the sources: what they contribute is a  *)
(* nondeterministic input.  work is whether encode_acks plus encode_few   *)
(* would put anything in the next packet; a user callback behind          *)
(* InboundMessages::on_receive may destroy the transport.  Every          *)
(* completion handler and call is one atomic step of the io_service.      *)
(***************************************************************************)
EXTENDS Naturals

CONSTANTS
  MaxInserts,   \* bound: insert_message calls by OutboundMessages
  MaxRecvs,     \* bound: datagrams received
  Reactions     \* what the user callback behind inbound() does: "none", "destroy"

ASSUME Reactions \subseteq {"none", "destroy"}

VARIABLE tr   \* the Transport's fields, with lateIo as history

vars == <<tr>>

\* Kinds of message in a datagram: for us, for other targets, or both.
Kinds == {"ours", "forward", "both"}

\* start_sending: _is_sending is tested but never set to true, so every
\* call that finds something to encode issues another async_send_to from
\* the same tx_buffer.  What is left to send afterwards is up to the queue.
StartSending(t) ==
  IF t.isSending THEN {t}
  ELSE IF ~t.work THEN {[t EXCEPT !.isSending = FALSE]}
  ELSE {[t EXCEPT !.inflight = @ + 1, !.work = w, !.lateIo = @ \/ t.destroyed]
          : w \in BOOLEAN}

\* start_receiving: issue async_receive_from.
StartReceiving(t) == [t EXCEPT !.rx = "live", !.lateIo = @ \/ t.destroyed]

\* The user code behind inbound().on_receive.
React(t, r) == IF r = "destroy" THEN [t EXCEPT !.destroyed = TRUE] ELSE t

\* A mutant of HandleMessage: was_destroyed is not re-checked after the
\* user callback.
HandleMessageNoDestroyCheck(t, kind, r) ==
  LET ours == kind \in {"ours", "both"}
      fwd  == kind \in {"forward", "both"}
      u    == IF ours THEN React([t EXCEPT !.work = TRUE], r) ELSE t
      s    == IF ours THEN StartSending(u) ELSE {u}
  IN  IF ~fwd THEN s
      ELSE UNION {{[v EXCEPT !.work = TRUE]} \cup StartSending([v EXCEPT !.work = TRUE])
                    : v \in s}

\* handle_message: a message for us is acknowledged (an ack to send), handed
\* to inbound(), and the send loop kicked unless the callback destroyed the
\* transport; what remains for other targets goes to
\* outbound().forward_message, which may or may not insert it here.
HandleMessage(t, kind, r) ==
  LET ours == kind \in {"ours", "both"}
      fwd  == kind \in {"forward", "both"}
      u    == IF ours THEN React([t EXCEPT !.work = TRUE], r) ELSE t
      s    == IF ours /\ ~u.destroyed THEN StartSending(u) ELSE {u}
  IN  IF ~fwd \/ u.destroyed THEN s
      ELSE UNION {{[v EXCEPT !.work = TRUE]} \cup StartSending([v EXCEPT !.work = TRUE])
                    : v \in s}

\* on_receive for a datagram: the ack entries (handle_ack_entry) may erase
\* acknowledged messages or queue acks to forward; then the message, then
\* the next receive unless the transport was destroyed.
OnReceive(t, acked, kind, r) ==
  LET u == [t EXCEPT !.rx = "none", !.work = acked, !.recvs = @ + 1] IN
  { IF v.destroyed THEN v ELSE StartReceiving(v) : v \in HandleMessage(u, kind, r) }

-----------------------------------------------------------------------------
\* The constructor: registered with inbound() and outbound(), receiving.
Fresh ==
  [isSending |-> FALSE, inflight |-> 0, armed |-> FALSE, rx |-> "live",
   destroyed |-> FALSE, work |-> FALSE, inserts |-> 0, recvs |-> 0,
   lateIo |-> FALSE]

Init == tr = Fresh

\* insert_message, called by OutboundMessages.
InsertMessage ==
  /\ ~tr.destroyed /\ tr.inserts < MaxInserts
  /\ \E t \in StartSending([tr EXCEPT !.work = TRUE, !.inserts = @ + 1]) : tr' = t

RecvDatagram ==
  /\ ~tr.destroyed /\ tr.rx = "live" /\ tr.recvs < MaxRecvs
  /\ \E acked \in BOOLEAN, kind \in Kinds, r \in Reactions :
       \E t \in OnReceive(tr, acked, kind, r) : tr' = t

\* on_receive with an error: inbound() gets it; no receive is issued again.
RecvError ==
  /\ ~tr.destroyed /\ tr.rx = "live"
  /\ \E r \in Reactions : tr' = React([tr EXCEPT !.rx = "none"], r)

\* on_send: a completed send (re)arms the one pacer timer for 100 ms;
\* expires_from_now cancels a wait already armed, whose handler then returns
\* on operation_aborted.  Sends are cancelled only by closing the socket,
\* which happens with the destruction.
SendDone ==
  /\ ~tr.destroyed /\ tr.inflight > 0
  /\ tr' = [tr EXCEPT !.inflight = @ - 1, !.armed = TRUE]

\* The pacer timer's handler.
TimerFire ==
  /\ ~tr.destroyed /\ tr.armed
  /\ \E t \in StartSending([tr EXCEPT !.armed = FALSE]) : tr' = t

\* ~Transport: deregistered, was_destroyed set, the socket closes.
Destroy ==
  /\ ~tr.destroyed
  /\ tr' = [tr EXCEPT !.destroyed = TRUE]

Next == InsertMessage \/ RecvDatagram \/ RecvError \/ SendDone \/ TimerFire \/ Destroy

Spec == Init /\ [][Next]_vars

-----------------------------------------------------------------------------
\* Once the user callback destroys the transport, the dispatch issues no
\* send and no receive on its socket (handle_message and on_receive
\* re-check was_destroyed after inbound().on_receive).
NoIoAfterDestroy == ~tr.lateIo

\* At most one async_send_to is outstanding: every send is issued from the
\* one tx_buffer of the SocketState, which must not change while the
\* kernel may still read it (the _is_sending guard of start_sending).
SingleSendInFlight == tr.inflight <= 1
=============================================================================
