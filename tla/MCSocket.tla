------------------------------ MODULE MCSocket ------------------------------
(***************************************************************************)
(* Instantiation of Socket for TLC.  Endpoint a is the sender of user     *)
(* messages; endpoint b only registers hooks, acknowledges and keeps the   *)
(* connection alive, which is enough to exercise both directions of the   *)
(* ack and sync traffic.                                                   *)
(***************************************************************************)
EXTENDS Socket

CONSTANTS a, b

\* Messages each user sends, per run: MaxRel and MaxUnrel.
MCMaxRel       == (a :> 2 @@ b :> 0)
MCMaxRel1      == (a :> 1 @@ b :> 0)
MCMaxRelNone   == (a :> 0 @@ b :> 0)
MCMaxUnrel2    == (a :> 2 @@ b :> 0)
MCMaxUnrelNone == (a :> 0 @@ b :> 0)

\* Failed hole punches before the one that succeeds, per run.
MCPunchNone == (a :> 0 @@ b :> 0)
MCPunchA    == (a :> 1 @@ b :> 0)
MCPunchB    == (a :> 0 @@ b :> 1)

\* async_send_to calls, per run: a needs about two packets per fragmented
\* message; b's packets only carry its sync, keep-alives and acks.
MCMaxSends  == (a :> 4 @@ b :> 2)
MCMaxSends3 == (a :> 3 @@ b :> 2)
MCMaxSends1 == (a :> 2 @@ b :> 1)

(***************************************************************************)
(* The lifecycle configuration: a is a plain sender whose hooks are       *)
(* registered before it connects; b's user registers, closes and destroys *)
(* at any time; either side may time out or see a receive fail.          *)
(***************************************************************************)
SenderHooksInit ==
  /\ ep  = [e \in Peers |-> [Fresh EXCEPT !.onRel = (e = a), !.onFlush = (e = a)]]
  /\ net = [e \in Peers |-> {}]

LifeNext ==
  \/ \E e \in Peers :
       \/ Connect(e)
       \/ SendReliable(e)
       \/ SendUnreliable(e)
       \/ RecvPacket(e)
       \/ RecvError(e)
       \/ SendDone(e)
       \/ PacerFire(e)
       \/ KeepAliveFire(e)
       \/ RecvTimeout(e)
  \/ Register(b, "onRel")
  \/ Register(b, "onFlush")
  \/ Close(b)
  \/ Destroy(b)

LifeSpec == SenderHooksInit /\ [][LifeNext]_vars

(***************************************************************************)
(* The delivery configuration: both users registered their hooks before   *)
(* connecting, nobody closes or destroys a socket, and the connection     *)
(* does not time out; UDP loses, duplicates and reorders freely.           *)
(***************************************************************************)
HooksInit ==
  /\ ep  = [e \in Peers |-> [Fresh EXCEPT !.onRel = TRUE, !.onUnrel = TRUE,
                                          !.onFlush = TRUE]]
  /\ net = [e \in Peers |-> {}]

DeliveryNext ==
  \E e \in Peers :
    \/ Connect(e)
    \/ SendReliable(e)
    \/ SendUnreliable(e)
    \/ Register(e, "onRel")
    \/ Register(e, "onUnrel")
    \/ Register(e, "onFlush")
    \/ RecvPacket(e)
    \/ SendDone(e)
    \/ PacerFire(e)
    \/ KeepAliveFire(e)

DeliverySpec == HooksInit /\ [][DeliveryNext]_vars

\* The same under the io_service's fairness.
LiveSpec == DeliverySpec /\ Fairness

\* The same, except that a hole punch may fail before the one that
\* succeeds, and the user then calls rendezvous_connect again.
PunchNext == DeliveryNext \/ \E e \in Peers : ConnectFail(e)

PunchSpec == HooksInit /\ [][PunchNext]_vars /\ Fairness

\* The same, except that b registers its reliable hook only after the
\* constructor, at any time, so datagrams may arrive before it.
LateHookInit ==
  /\ ep  = [e \in Peers |-> [Fresh EXCEPT !.onRel = (e = a), !.onUnrel = TRUE,
                                          !.onFlush = TRUE]]
  /\ net = [e \in Peers |-> {}]

LateHookSpec == LateHookInit /\ [][DeliveryNext]_vars

\* The reliable stream from a to b (and from b to a) implements a FIFO
\* stream: what the receiving user is handed is always a prefix of what
\* the sending user sent, message for message and byte for byte, and it
\* only grows (user_handle_reliable_msg, replay_pending_messages).
StreamAB == INSTANCE ReliableStream WITH sent <- SentStream(a), delivered <- ep[b].gotRel
StreamBA == INSTANCE ReliableStream WITH sent <- SentStream(b), delivered <- ep[a].gotRel

ReliableStreamFromA == StreamAB!Spec
ReliableStreamFromB == StreamBA!Spec

\* The unreliable stream from a to b implements a latest-wins stream: b's
\* user is handed whole messages a sent, each newer than the last one it
\* was handed, and what it was handed only grows (handle_unreliable_message
\* with its single pending slot and last_used_unreliable_sn).
UStreamAB == INSTANCE UnreliableStream WITH sent <- ep[a].sentUnrel, delivered <- ep[b].gotUnrel

UnreliableStreamFromA == UStreamAB!Spec
=============================================================================
