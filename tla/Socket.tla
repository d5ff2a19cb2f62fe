------------------------------- MODULE Socket -------------------------------
(***************************************************************************)
(* Two SocketImpl endpoints (src/src/club/transport/socket.h) joined by   *)
(* UDP, which may lose, duplicate and reorder datagrams.                   *)
(*                                                                         *)
(* Every completion handler of the code (receive, send, pacer timer,       *)
(* keep-alive alarm, receive-timeout alarm) and every public call is one   *)
(* atomic action: the code runs on a single io_service thread and only     *)
(* yields between handlers.  A handler is written as a chain of operators  *)
(* over the endpoint's record c, mirroring the member functions it calls.  *)
(* Two extra fields of c live only inside a step: c.out collects the      *)
(* datagrams the step sends, c.ch the reactions of the user callbacks the  *)
(* step invokes (each callback may re-register itself, close or destroy   *)
(* the socket, or do nothing).                                             *)
(***************************************************************************)
EXTENDS Naturals, Sequences, FiniteSets, Functions, TLC, AckSet

CONSTANTS
  Peers,          \* the two endpoints
  Capacity,       \* room for message parts in one packet (after acks and count)
  Header,         \* OutMessage::header_size, in the same units
  RelSizes,       \* payload sizes the user passes to send_reliable
  UnrelSizes,     \* payload sizes the user passes to send_unreliable
  MaxRel,         \* MaxRel[e]: reliable messages user e sends
  MaxUnrel,       \* MaxUnrel[e]: unreliable messages user e sends
  MaxSends,       \* bound: MaxSends[e] async_send_to calls by endpoint e
  MaxKeepAlives,  \* bound: keep-alive alarm expiries per endpoint
  MaxPunchFails,  \* bound: MaxPunchFails[e] failed hole punches of endpoint e
  Reactions,      \* what a user callback may do: "none","rearm","close","destroy"
  CallbackBudget, \* bound: user callbacks invoked within one handler
  IoErrors,       \* whether a receive may fail on an open socket
  Duplication,    \* whether UDP may deliver a datagram more than once
  Loss,           \* whether UDP may drop a datagram
  EarlySend,      \* whether the user may send before rendezvous_connect
  SNMod,          \* 2^w: sequence numbers are w-bit unsigned (w = 32 in the code)
  Bounded         \* whether MaxSends is in force (the counter is then
                  \* kept; without it the state space is finite because
                  \* datagrams are values)

ASSUME /\ Cardinality(Peers) = 2
       /\ Header + 1 <= Capacity
       /\ Reactions \subseteq {"none", "rearm", "close", "destroy"}

VARIABLES
  ep,    \* ep[e]: the SocketImpl fields of endpoint e, plus history
  net    \* net[e]: datagrams in flight to e

vars == <<ep, net>>

Peer(e) == CHOOSE p \in Peers : p # e

Least(a, b) == IF a < b THEN a ELSE b

\* The model numbers unreliable messages by an unbounded counter, which is
\* their order of sending; on the wire and in the code's comparisons a
\* sequence number is that counter modulo 2^w (SequenceNumber is uint32).
Wire(sn) == sn % SNMod

MsgTypes == {"sync", "reliable", "unreliable", "keep_alive", "close"}

\* An OutMessage: resend_until_acked, type, sequence number, payload size
\* and the fragmentation cursor bytes_already_sent.
OutMsg(rua, type, sn, size) ==
  [rua |-> rua, type |-> type, sn |-> sn, size |-> size, sent |-> 0]

\* The InMessagePart written by OutMessage::encode_header_and_payload.
Part(m, start, len) ==
  [type |-> m.type, sn |-> m.sn, size |-> m.size, start |-> start, len |-> len]

Chunk(m) == m.start .. (m.start + m.len - 1)

\* InMessagePart::get_complete_message is defined.
IsWhole(m) == m.start = 0 /\ m.len = m.size

\* PendingMessage::is_complete
Complete(pm) == pm.cov = 0 .. (pm.size - 1)

(***************************************************************************)
(* TransmitQueue::cycle: a cycle starts at the head of the sequence, and   *)
(* the next cycle resumes after the element the previous one stopped at.   *)
(***************************************************************************)
ResumeAfter(rest, kept, m) == Tail(rest) \o kept \o <<m>>

\* try_encode's test: the header and at least one payload byte fit.
Fits(m, room) == Header + Least(1, m.size) <= room

\* A mutant of Encode: the chunk is not capped by what is left of the payload.
EncodeUncapped(m, room) ==
  LET from == IF m.sent = m.size THEN 0 ELSE m.sent
      len  == room - Header
  IN  [msg |-> [m EXCEPT !.sent = from + len], part |-> Part(m, from, len)]

\* encode: a message sent completely before restarts from byte 0; the part
\* takes as much of the rest of the payload as the room allows.
Encode(m, room) ==
  LET from == IF m.sent = m.size THEN 0 ELSE m.sent
      len  == Least(m.size - from, room - Header)
  IN  [msg |-> [m EXCEPT !.sent = from + len], part |-> Part(m, from, len)]

(***************************************************************************)
(* encode_payload: one cycle over the transmit queue.  rest is what is     *)
(* left to visit, kept what was visited and stays queued.  Returns the    *)
(* new queue and the parts packed into the packet.                         *)
(***************************************************************************)
\* A mutant of Pack: the room left after a part forgets the part's header.
RECURSIVE PackNoHeader(_, _, _, _, _)
PackNoHeader(rest, kept, parts, room, acked) ==
  IF rest = <<>> THEN [queue |-> kept, parts |-> parts]
  ELSE
  LET m == Head(rest) IN
  IF m.rua /\ IsIn(acked, m.sn)
  THEN PackNoHeader(Tail(rest), kept, parts, room, acked)
  ELSE IF ~Fits(m, room)
  THEN [queue |-> ResumeAfter(rest, kept, m), parts |-> parts]
  ELSE
  LET x    == Encode(m, room)
      more == Append(parts, x.part)
      left == room - x.part.len
  IN  IF x.msg.sent # m.size
      THEN [queue |-> ResumeAfter(rest, kept, x.msg), parts |-> more]
      ELSE IF ~m.rua
      THEN PackNoHeader(Tail(rest), kept, more, left, acked)
      ELSE PackNoHeader(Tail(rest), Append(kept, x.msg), more, left, acked)

RECURSIVE Pack(_, _, _, _, _)
Pack(rest, kept, parts, room, acked) ==
  IF rest = <<>> THEN [queue |-> kept, parts |-> parts]
  ELSE
  LET m == Head(rest) IN
  IF m.rua /\ IsIn(acked, m.sn)
  THEN Pack(Tail(rest), kept, parts, room, acked)
  ELSE IF ~Fits(m, room)
  THEN [queue |-> ResumeAfter(rest, kept, m), parts |-> parts]
  ELSE
  LET x    == Encode(m, room)
      more == Append(parts, x.part)
      left == room - Header - x.part.len
  IN  IF x.msg.sent # m.size                    \* the packet is full
      THEN [queue |-> ResumeAfter(rest, kept, x.msg), parts |-> more]
      ELSE IF ~m.rua                            \* sent only once
      THEN Pack(Tail(rest), kept, more, left, acked)
      ELSE Pack(Tail(rest), Append(kept, x.msg), more, left, acked)

(***************************************************************************)
(* User callbacks.  The hook named cb has been moved out of c; the next   *)
(* reaction in c.ch says what the user code does inside it.  Code run    *)
(* after the endpoint is destroyed cannot reach it.                        *)
(***************************************************************************)
ClosePacket(c) ==
  [acks |-> c.acks, parts |-> <<Part(OutMsg(FALSE, "close", 0, 0), 0, 0)>>]

\* close(): send one close message if the socket is open, close it, stop
\* both alarms (the pacer timer is cancelled: see PacerFire).
CloseOp(c) ==
  [c EXCEPT !.open      = FALSE,
            !.recvAlarm = FALSE,
            !.keepAlarm = FALSE,
            !.out       = IF c.open THEN @ \cup {ClosePacket(c)} ELSE @]

\* The fields of SocketImpl itself, as opposed to the history kept beside.
CodeFields ==
  {"open", "connected", "sendState", "rx", "recvAlarm", "keepAlarm", "queue",
   "nextRel", "nextUnrel", "synced", "lastRel", "lastUnrel", "pendRel",
   "pendUnrel", "schedAcks", "peerAcks", "acks", "onRel", "onUnrel",
   "onFlush", "sends", "keepalives"}

Core(c) == [f \in CodeFields |-> c[f]]

\* ~SocketImpl: was_destroyed is set and the udp::socket closes with it.
\* frozen records the fields as the destructor leaves them.
DestroyOp(c) ==
  LET d == [c EXCEPT !.destroyed = TRUE, !.open = FALSE,
                     !.recvAlarm = FALSE, !.keepAlarm = FALSE]
  IN  [d EXCEPT !.frozen = Core(d)]

React(c, cb) ==
  LET r == IF c.ch = <<>> THEN Assert(FALSE, "CallbackBudget too small")
              ELSE Head(c.ch)
      d == [c EXCEPT !.ch = Tail(@), !.lateCb = @ \/ c.userClosed]
  IN  CASE d.destroyed      -> d
        [] r = "rearm"   -> [d EXCEPT ![cb] = TRUE]
        [] r = "close"   -> [CloseOp(d) EXCEPT !.userClosed = TRUE]
        [] r = "destroy" -> DestroyOp(d)
        [] OTHER         -> d

\* handle_error: close, then move out both receive hooks and invoke them
\* with the error (unreliable first).  The same invocation, without the
\* close, is on_receive's error branch.
ErrorCallbacks(c) ==
  LET d0 == [c EXCEPT !.onUnrel = FALSE, !.onRel = FALSE]
      d1 == IF c.onUnrel THEN React(d0, "onUnrel") ELSE d0
  IN  IF c.onRel THEN React(d1, "onRel") ELSE d1

\* handle_error; failed is history: a fatal error was reported.
HandleError(c) == [ErrorCallbacks(CloseOp(c)) EXCEPT !.failed = TRUE]

\* A mutant of StartSending: _schedule_sending_acks is never cleared, so
\* every pass sends an ack packet.
StartSendingKeepAcks(c) ==
  IF ~c.open \/ c.sendState # "pending" THEN c
  ELSE
  LET r == Pack(c.queue, <<>>, <<>>, Capacity, c.peerAcks)
      d == [c EXCEPT !.queue = r.queue]
  IN  IF r.parts = <<>> /\ ~c.schedAcks
      THEN LET f == IF d.onFlush
                    THEN React([d EXCEPT !.onFlush = FALSE,
                                         !.flushMark = d.nextRel], "onFlush")
                    ELSE d
           IN  IF f.destroyed \/ ~f.open THEN f
               ELSE [f EXCEPT !.keepAlarm = TRUE]
      ELSE [d EXCEPT !.sendState = "sending",
                     !.sends     = @ + 1,
                     !.out       = @ \cup {[acks |-> c.acks, parts |-> r.parts]}]

(***************************************************************************)
(* start_sending: pack one packet if the send state machine is pending.   *)
(* With nothing to send and no acks owed, the flush hook fires and the   *)
(* keep-alive alarm is armed instead.                                      *)
(***************************************************************************)
StartSending(c) ==
  IF ~c.open \/ c.sendState # "pending" THEN c
  ELSE
  LET r == Pack(c.queue, <<>>, <<>>, Capacity, c.peerAcks)
      d == [c EXCEPT !.queue = r.queue]
  IN  IF r.parts = <<>> /\ ~c.schedAcks
      THEN LET f == IF d.onFlush
                    THEN React([d EXCEPT !.onFlush = FALSE,
                                         !.flushMark = d.nextRel], "onFlush")
                    ELSE d
           IN  IF f.destroyed \/ ~f.open THEN f
               ELSE [f EXCEPT !.keepAlarm = TRUE]
      ELSE [d EXCEPT !.schedAcks = FALSE,
                     !.sendState = "sending",
                     !.sends     = @ + 1,
                     !.out       = @ \cup {[acks |-> c.acks, parts |-> r.parts]}]

\* start_receiving: arm the receive timeout and issue async_receive_from;
\* on a closed socket the receive can only fail.
StartReceiving(c) ==
  [c EXCEPT !.recvAlarm = TRUE, !.rx = IF c.open THEN "live" ELSE "dead"]

\* A mutant of UserHandleRel: the message is acknowledged even when no
\* hook is registered to take it.
UserHandleRelAckFirst(c, sn, bytes) ==
  IF ~c.onRel THEN [ok |-> FALSE, s |-> [c EXCEPT !.acks = TryAdd(@, sn)]]
  ELSE
  LET d == React([c EXCEPT !.onRel  = FALSE,
                           !.gotRel = Append(@, [sn |-> sn, bytes |-> bytes])],
                 "onRel")
  IN  IF d.destroyed THEN [ok |-> FALSE, s |-> d]
      ELSE [ok |-> TRUE, s |-> [d EXCEPT !.acks = TryAdd(@, sn), !.lastRel = sn]]

\* A mutant of UserHandleRel: with no hook registered the message is
\* dropped but counted as delivered.
UserHandleRelSkip(c, sn, bytes) ==
  IF ~c.onRel
  THEN [ok |-> TRUE, s |-> [c EXCEPT !.acks = TryAdd(@, sn), !.lastRel = sn]]
  ELSE
  LET d == React([c EXCEPT !.onRel  = FALSE,
                           !.gotRel = Append(@, [sn |-> sn, bytes |-> bytes])],
                 "onRel")
  IN  IF d.destroyed THEN [ok |-> FALSE, s |-> d]
      ELSE [ok |-> TRUE, s |-> [d EXCEPT !.acks = TryAdd(@, sn), !.lastRel = sn]]

\* A mutant of UserHandleRel: was_destroyed is not re-checked after the
\* callback, so the ack set and last delivered number are still written.
UserHandleRelNoDestroyCheck(c, sn, bytes) ==
  IF ~c.onRel THEN [ok |-> FALSE, s |-> c]
  ELSE
  LET d == React([c EXCEPT !.onRel  = FALSE,
                           !.gotRel = Append(@, [sn |-> sn, bytes |-> bytes])],
                 "onRel")
  IN  [ok |-> TRUE, s |-> [d EXCEPT !.acks = TryAdd(@, sn), !.lastRel = sn]]

(***************************************************************************)
(* user_handle_reliable_msg: returns whether the message was delivered.   *)
(***************************************************************************)
UserHandleRel(c, sn, bytes) ==
  IF ~c.onRel THEN [ok |-> FALSE, s |-> c]
  ELSE
  LET d == React([c EXCEPT !.onRel  = FALSE,
                           !.gotRel = Append(@, [sn |-> sn, bytes |-> bytes])],
                 "onRel")
  IN  IF d.destroyed THEN [ok |-> FALSE, s |-> d]
      ELSE [ok |-> TRUE, s |-> [d EXCEPT !.acks = TryAdd(@, sn), !.lastRel = sn]]

\* replay_pending_messages: deliver the pending messages that continue the
\* delivered sequence, stopping at the first gap or incomplete one.
RECURSIVE Replay(_)
Replay(c) ==
  LET sn == c.lastRel + 1 IN
  IF sn \notin DOMAIN c.pendRel \/ ~Complete(c.pendRel[sn]) THEN c
  ELSE
  LET u == UserHandleRel(c, sn, c.pendRel[sn].cov) IN
  IF ~u.ok THEN u.s
  ELSE Replay([u.s EXCEPT !.pendRel = Restrict(@, DOMAIN @ \ {sn})])

\* A mutant of HandleReliable: a message is acknowledged when it is
\* buffered out of order, not when it is delivered.
HandleReliableAckOnReceipt(c, m) ==
  LET d == [c EXCEPT !.schedAcks = TRUE] IN
  IF ~d.synced \/ ~CanAdd(d.acks, m.sn) THEN d
  ELSE IF m.sn = d.lastRel + 1 /\ IsWhole(m)
  THEN LET u == UserHandleRel(d, m.sn, Chunk(m))
       IN  IF u.ok THEN Replay(u.s) ELSE u.s
  ELSE IF m.sn \in DOMAIN d.pendRel
  THEN Replay([d EXCEPT !.pendRel[m.sn].cov = @ \cup Chunk(m)])
  ELSE [d EXCEPT !.pendRel = (m.sn :> [size |-> m.size, cov |-> Chunk(m)]) @@ @,
                 !.acks = TryAdd(@, m.sn)]

\* A mutant of HandleReliable: a whole message is delivered whatever its
\* number, without waiting for the ones before it.
HandleReliableAnyOrder(c, m) ==
  LET d == [c EXCEPT !.schedAcks = TRUE] IN
  IF ~d.synced \/ ~CanAdd(d.acks, m.sn) THEN d
  ELSE IF IsWhole(m)
  THEN LET u == UserHandleRel(d, m.sn, Chunk(m))
       IN  IF u.ok THEN Replay(u.s) ELSE u.s
  ELSE IF m.sn \in DOMAIN d.pendRel
  THEN Replay([d EXCEPT !.pendRel[m.sn].cov = @ \cup Chunk(m)])
  ELSE [d EXCEPT !.pendRel = (m.sn :> [size |-> m.size, cov |-> Chunk(m)]) @@ @]

\* handle_reliable_message: only once synced, and only numbers the ack set
\* can still take; the next number, whole, goes straight to the user, the
\* rest is buffered (a new buffer is not replayed).
HandleReliable(c, m) ==
  LET d == [c EXCEPT !.schedAcks = TRUE] IN
  IF ~d.synced \/ ~CanAdd(d.acks, m.sn) THEN d
  ELSE IF m.sn = d.lastRel + 1 /\ IsWhole(m)
  THEN LET u == UserHandleRel(d, m.sn, Chunk(m))
       IN  IF u.ok THEN Replay(u.s) ELSE u.s
  ELSE IF m.sn \in DOMAIN d.pendRel
  THEN Replay([d EXCEPT !.pendRel[m.sn].cov = @ \cup Chunk(m)])
  ELSE [d EXCEPT !.pendRel =
                   (m.sn :> [size |-> m.size, cov |-> Chunk(m)]) @@ @]

\* The unreliable hook is invoked, then the newest delivered number recorded.
DeliverUnreliable(c, sn, bytes) ==
  LET d == React([c EXCEPT !.onUnrel  = FALSE,
                           !.gotUnrel = Append(@, [sn |-> sn, bytes |-> bytes])],
                 "onUnrel")
  IN  IF d.destroyed THEN d
      ELSE [d EXCEPT !.lastUnrel = sn, !.pendUnrel = <<>>]

\* A mutant of HandleUnreliable: numbers already delivered are not refused.
HandleUnreliableNoStaleCheck(c, m) ==
  IF ~c.onUnrel \/ ~c.synced THEN c
  ELSE IF IsWhole(m) THEN DeliverUnreliable(c, m.sn, Chunk(m))
  ELSE IF c.pendUnrel = <<>> \/ Wire(c.pendUnrel[1].sn) < Wire(m.sn)
  THEN [c EXCEPT !.pendUnrel =
                   <<[sn |-> m.sn, size |-> m.size, cov |-> Chunk(m)]>>]
  ELSE IF Wire(c.pendUnrel[1].sn) > Wire(m.sn) THEN c
  ELSE LET d == [c EXCEPT !.pendUnrel[1].cov = @ \cup Chunk(m)]
       IN  IF Complete(d.pendUnrel[1])
           THEN DeliverUnreliable(d, m.sn, d.pendUnrel[1].cov)
           ELSE d

\* handle_unreliable_message; pendUnrel is the optional single slot.
HandleUnreliable(c, m) ==
  IF ~c.onUnrel \/ ~c.synced THEN c
  ELSE IF Wire(m.sn) <= Wire(c.lastUnrel) THEN c
  ELSE IF IsWhole(m) THEN DeliverUnreliable(c, m.sn, Chunk(m))
  ELSE IF c.pendUnrel = <<>> \/ Wire(c.pendUnrel[1].sn) < Wire(m.sn)
  THEN [c EXCEPT !.pendUnrel =
                   <<[sn |-> m.sn, size |-> m.size, cov |-> Chunk(m)]>>]
  ELSE IF Wire(c.pendUnrel[1].sn) > Wire(m.sn) THEN c
  ELSE LET d == [c EXCEPT !.pendUnrel[1].cov = @ \cup Chunk(m)]
       IN  IF Complete(d.pendUnrel[1])
           THEN DeliverUnreliable(d, m.sn, d.pendUnrel[1].cov)
           ELSE d

HandleSync(c, m) ==
  IF c.synced THEN [c EXCEPT !.schedAcks = TRUE]
  ELSE [c EXCEPT !.schedAcks = TRUE, !.acks = TryAdd(@, m.sn),
                 !.synced = TRUE, !.lastRel = m.sn, !.lastUnrel = m.sn]

\* handle_close_message: close the socket without a close message, then
\* handle_error(connection_reset).
HandleClose(c) == HandleError([c EXCEPT !.open = FALSE])

\* handle_message: dispatch on the type, then kick the send loop.
HandleMessage(c, m) ==
  LET d == CASE m.type = "sync"       -> HandleSync(c, m)
             [] m.type = "keep_alive" -> c
             [] m.type = "unreliable" -> HandleUnreliable(c, m)
             [] m.type = "reliable"   -> HandleReliable(c, m)
             [] m.type = "close"      -> HandleClose(c)
  IN  IF d.destroyed THEN d ELSE StartSending(d)

\* A mutant of HandleParts: the loop ends without issuing the next receive.
RECURSIVE HandlePartsNoRestart(_, _)
HandlePartsNoRestart(c, parts) ==
  IF parts = <<>> THEN c
  ELSE LET d == HandleMessage(c, Head(parts))
       IN  IF d.destroyed \/ ~d.open THEN d ELSE HandlePartsNoRestart(d, Tail(parts))

\* on_receive's loop over the message parts of one datagram.
RECURSIVE HandleParts(_, _)
HandleParts(c, parts) ==
  IF parts = <<>> THEN StartReceiving(c)
  ELSE LET d == HandleMessage(c, Head(parts))
       IN  IF d.destroyed \/ ~d.open THEN d ELSE HandleParts(d, Tail(parts))

\* on_receive for a datagram: stop the timeout alarm, take the peer's acks
\* (replacing the old ones), handle the parts, receive again.
OnReceive(c, p) ==
  HandleParts([c EXCEPT !.recvAlarm = FALSE, !.rx = "none",
                        !.peerAcks = p.acks], p.parts)

\* on_receive for a failed receive: hooks get the error, nothing is closed
\* and no receive is issued again.
OnReceiveError(c) ==
  ErrorCallbacks([c EXCEPT !.recvAlarm = FALSE, !.rx = "none"])

-----------------------------------------------------------------------------
(***************************************************************************)
(* The endpoint as the constructor leaves it: socket open, send state     *)
(* pending, no sync, next reliable number 0 and unreliable 1.              *)
(***************************************************************************)
Fresh ==
  [open |-> TRUE, destroyed |-> FALSE, connected |-> FALSE,
   sendState |-> "pending", rx |-> "none",
   recvAlarm |-> FALSE, keepAlarm |-> FALSE,
   queue |-> <<>>, nextRel |-> 0, nextUnrel |-> 1,
   synced |-> FALSE, lastRel |-> 0, lastUnrel |-> 0,
   pendRel |-> <<>>, pendUnrel |-> <<>>, schedAcks |-> FALSE,
   peerAcks |-> EmptyAckSet, acks |-> EmptyAckSet,
   onRel |-> FALSE, onUnrel |-> FALSE, onFlush |-> FALSE,
   sends |-> 0, keepalives |-> 0, punchFails |-> 0,
   sentRel |-> <<>>, sentUnrel |-> <<>>, gotRel |-> <<>>, gotUnrel |-> <<>>,
   flushMark |-> 0, userClosed |-> FALSE, lateCb |-> FALSE, failed |-> FALSE,
   frozen |-> <<>>,
   out |-> {}, ch |-> <<>>]

Init ==
  /\ ep  = [e \in Peers |-> Fresh]
  /\ net = [e \in Peers |-> {}]

Choices == [1 .. CallbackBudget -> Reactions]

\* Endpoint e's record at the start of a step whose callbacks react by ch.
With(e, ch) == [ep[e] EXCEPT !.ch = ch]

\* End of a step of e: store c, leave inbox in flight to e, and put in
\* flight to the peer the datagrams of the step that UDP does not drop.
\* (Dropping a datagram when it is sent or at any later time lets the
\* endpoints do the same things, so loss is decided here.)  Before the
\* punch succeeds _remote_endpoint is unspecified and nothing reaches the
\* peer.  Without the send bound the counter is not kept.
Commit(e, c, inbox) ==
  /\ Bounded => c.sends <= MaxSends[e]
  /\ \E arrive \in IF ~c.connected THEN {{}}       \* no remote endpoint yet
                  ELSE IF Loss THEN SUBSET c.out ELSE {c.out} :
       /\ ep' = [ep EXCEPT ![e] = [c EXCEPT !.out = {}, !.ch = <<>>,
                                           !.sends = IF Bounded THEN @ ELSE 0]]
       /\ net' = [net EXCEPT ![e] = inbox, ![Peer(e)] = @ \cup arrive]

Live(e) == ~ep[e].destroyed

\* construct_packet_with_one_message(syn_message): the packet punch_hole
\* emits, with the sync message that takes the next reliable number.
PunchPacket(c) ==
  [acks |-> c.acks, parts |-> <<Part(OutMsg(TRUE, "sync", c.nextRel, 0), 0, 0)>>]

(***************************************************************************)
(* rendezvous_connect and its on_punch continuation, for a hole punch that *)
(* succeeds: the sync message takes the next reliable number; punch_hole  *)
(* sends it in a packet of its own, then it is queued, and the send and    *)
(* receive loops start.                                                    *)
(***************************************************************************)
Connect(e) ==
  /\ Live(e) /\ ep[e].open /\ ~ep[e].connected
  /\ LET c   == ep[e]
         syn == OutMsg(TRUE, "sync", c.nextRel, 0)
     IN  \E ch \in Choices :
           Commit(e, StartReceiving(StartSending(
                       [c EXCEPT !.nextRel = @ + 1, !.connected = TRUE,
                                 !.queue = Append(@, syn), !.ch = ch,
                                 !.out = {PunchPacket(c)}])),
                  net[e])

(***************************************************************************)
(* rendezvous_connect for a hole punch that fails: the sync message has    *)
(* taken a reliable number, on_punch only calls on_connect(error), and the *)
(* endpoint stays pending, so the user may call rendezvous_connect again.  *)
(* punch_hole emits the packet repeatedly before it gives up, and the peer *)
(* may receive it although no reply came back.                             *)
(***************************************************************************)
ConnectFail(e) ==
  /\ Live(e) /\ ep[e].open /\ ~ep[e].connected /\ ep[e].punchFails < MaxPunchFails[e]
  /\ \E arrive \in SUBSET {PunchPacket(ep[e])} :
       /\ ep' = [ep EXCEPT ![e].nextRel = @ + 1, ![e].punchFails = @ + 1]
       /\ net' = [net EXCEPT ![Peer(e)] = @ \cup arrive]

\* A mutant of SendReliable: the message is queued as send-once.
SendReliableOnce(e) ==
  /\ Live(e) /\ (ep[e].connected \/ EarlySend) /\ Len(ep[e].sentRel) < MaxRel[e]
  /\ \E size \in RelSizes, ch \in Choices :
       LET c == With(e, ch) IN
       Commit(e, StartSending(
                   [c EXCEPT !.queue = Append(@, OutMsg(FALSE, "reliable", c.nextRel, size)),
                             !.nextRel = @ + 1, !.sentRel = Append(@, [sn |-> c.nextRel, size |-> size])]),
              net[e])

\* send_reliable: queue a resend-until-acked message, kick the send loop.
SendReliable(e) ==
  /\ Live(e) /\ (ep[e].connected \/ EarlySend) /\ Len(ep[e].sentRel) < MaxRel[e]
  /\ \E size \in RelSizes, ch \in Choices :
       LET c == With(e, ch) IN
       Commit(e, StartSending(
                   [c EXCEPT !.queue = Append(@, OutMsg(TRUE, "reliable", c.nextRel, size)),
                             !.nextRel = @ + 1, !.sentRel = Append(@, [sn |-> c.nextRel, size |-> size])]),
              net[e])

SendUnreliable(e) ==
  /\ Live(e) /\ ep[e].connected /\ Len(ep[e].sentUnrel) < MaxUnrel[e]
  /\ \E size \in UnrelSizes, ch \in Choices :
       LET c == With(e, ch) IN
       Commit(e, StartSending(
                   [c EXCEPT !.queue = Append(@, OutMsg(FALSE, "unreliable", c.nextUnrel, size)),
                             !.nextUnrel = @ + 1, !.sentUnrel = Append(@, size)]),
              net[e])

\* receive_reliable, receive_unreliable, flush: store the hook.
Register(e, hook) ==
  /\ Live(e) /\ ~ep[e][hook]
  /\ ep' = [ep EXCEPT ![e][hook] = TRUE]
  /\ UNCHANGED net

Close(e) ==
  /\ Live(e) /\ ~ep[e].userClosed
  /\ Commit(e, [CloseOp(ep[e]) EXCEPT !.userClosed = TRUE], net[e])

Destroy(e) ==
  /\ "destroy" \in Reactions /\ Live(e)
  /\ Commit(e, DestroyOp(ep[e]), net[e])

\* A receive completes with a datagram (kept in flight when duplicated).
RecvPacket(e) ==
  /\ Live(e) /\ ep[e].rx = "live"
  /\ \E p \in net[e], dup \in IF Duplication THEN BOOLEAN ELSE {FALSE},
       ch \in Choices :
       Commit(e, OnReceive(With(e, ch), p), IF dup THEN net[e] ELSE net[e] \ {p})

\* A receive completes with an error: operation_aborted after close, or an
\* I/O error on an open socket.
RecvError(e) ==
  /\ Live(e) /\ ep[e].rx # "none" /\ (~ep[e].open \/ IoErrors)
  /\ \E ch \in Choices : Commit(e, OnReceiveError(With(e, ch)), net[e])

\* on_send: a send cancelled by close leaves the state pending, one that
\* completed before the close arms the pacer timer as usual.
SendDone(e) ==
  /\ Live(e) /\ ep[e].sendState = "sending"
  /\ \E st \in IF ep[e].open THEN {"waiting"} ELSE {"pending", "waiting"} :
       Commit(e, [ep[e] EXCEPT !.sendState = st], net[e])

\* The pacer timer's handler: pending again, and send if not cancelled
\* (close cancels it, and start_sending sees the closed socket anyway).
PacerFire(e) ==
  /\ Live(e) /\ ep[e].sendState = "waiting"
  /\ \E ch \in Choices :
       Commit(e, StartSending([With(e, ch) EXCEPT !.sendState = "pending"]), net[e])

\* on_send_keepalive_alarm
KeepAliveFire(e) ==
  /\ Live(e) /\ ep[e].keepAlarm /\ ep[e].keepalives < MaxKeepAlives
  /\ \E ch \in Choices :
       Commit(e, StartSending(
                   [With(e, ch) EXCEPT !.keepAlarm = FALSE, !.keepalives = @ + 1,
                       !.queue = Append(@, OutMsg(FALSE, "keep_alive", 0, 0))]),
              net[e])

\* on_recv_timeout_alarm: handle_error(timed_out).
RecvTimeout(e) ==
  /\ Live(e) /\ ep[e].recvAlarm
  /\ \E ch \in Choices :
       Commit(e, HandleError([With(e, ch) EXCEPT !.recvAlarm = FALSE]), net[e])

Next ==
  \E e \in Peers :
    \/ Connect(e)
    \/ ConnectFail(e)
    \/ SendReliable(e)
    \/ SendUnreliable(e)
    \/ Register(e, "onRel")
    \/ Register(e, "onUnrel")
    \/ Register(e, "onFlush")
    \/ Close(e)
    \/ Destroy(e)
    \/ RecvPacket(e)
    \/ RecvError(e)
    \/ SendDone(e)
    \/ PacerFire(e)
    \/ KeepAliveFire(e)
    \/ RecvTimeout(e)

Spec == Init /\ [][Next]_vars

(***************************************************************************)
(* What the io_service guarantees: a queued completion handler or an      *)
(* expired timer eventually runs, and an outstanding receive completes     *)
(* while datagrams are waiting.  Both users connect (the punch succeeds). *)
(* Nothing obliges a user to send, register, close or destroy.            *)
(***************************************************************************)
Fairness ==
  \A e \in Peers :
    /\ WF_vars(Connect(e))
    /\ WF_vars(SendDone(e))
    /\ WF_vars(PacerFire(e))
    /\ WF_vars(RecvPacket(e))
    /\ WF_vars(KeepAliveFire(e))

-----------------------------------------------------------------------------
(* Properties                                                              *)

\* The reliable sequence numbers endpoint e's user has been handed.
Delivered(e) == {r.sn : r \in Range(ep[e].gotRel)}

TypeOK ==
  /\ DOMAIN ep = Peers /\ DOMAIN net = Peers
  /\ \A e \in Peers :
       /\ ep[e].sendState \in {"pending", "sending", "waiting"}
       /\ ep[e].rx \in {"none", "live", "dead"}
       /\ ep[e].out = {} /\ ep[e].ch = <<>>
       /\ \A m \in Range(ep[e].queue) : m.type \in MsgTypes /\ m.sent <= m.size
       /\ Len(ep[e].pendUnrel) <= 1
       /\ Bounded => ep[e].sends <= MaxSends[e]

\* Every datagram on the wire is one the receiver can take apart: its parts,
\* each with its header, fit in the room a packet has for messages
\* (encode_payload packs several messages of the transmit-queue cycle into
\* one encoder), and each part is a byte range of its message
\* (encode_header_and_payload caps the chunk by what is left of the payload).
PacketsFit ==
  \A e \in Peers : \A p \in net[e] :
    /\ FoldFunction(LAMBDA pt, n : Header + pt.len + n, 0, p.parts) <= Capacity
    /\ \A i \in DOMAIN p.parts : p.parts[i].start + p.parts[i].len <= p.parts[i].size

\* Acknowledgements never run ahead of delivery: whenever endpoint e holds
\* an ack set from its peer (handle_acks) that covers one of its reliable
\* messages, the peer's user has already been handed that message
\* (user_handle_reliable_msg adds to the ack set only after the callback).
AckedMeansDelivered ==
  \A e \in Peers : \A r \in Range(ep[e].sentRel) :
    IsIn(ep[e].peerAcks, r.sn) => r.sn \in Delivered(Peer(e))

\* When the flush hook fires (start_sending with nothing to pack), every
\* reliable message sent before it has reached the peer's user, despite
\* lost, duplicated and reordered datagrams.
FlushMeansDelivered ==
  \A e \in Peers : \A r \in Range(ep[e].sentRel) :
    r.sn < ep[e].flushMark => r.sn \in Delivered(Peer(e))

\* Every reliable message a user sends is eventually handed to the peer's
\* user: it stays queued and is retransmitted by the pacer loop
\* (encode_payload) until the peer's acks cover it, and the peer reassembles
\* and replays it (handle_reliable_message, replay_pending_messages).  The
\* users send finitely often, so this is: from some point on, each user has
\* been handed everything its peer sent.
ReliableDelivery ==
  <>[](\A e \in Peers : Len(ep[Peer(e)].gotRel) = Len(ep[e].sentRel))

\* Once a connected user has sent all its messages, its flush hook
\* eventually fires after the last of them: the queue drains as acks come
\* back, acks stop being owed, and start_sending finds nothing to pack
\* (flush() itself never kicks the send loop; the pacer and keep-alive do).
FlushEventually ==
  <>[](\A e \in Peers :
         ep[e].connected /\ Len(ep[e].sentRel) = MaxRel[e]
           => ep[e].flushMark = ep[e].nextRel)

\* The pending reliable map holds only messages not yet handed to the user:
\* replay_pending_messages erases what it delivers, and a message that is
\* delivered straight from a whole part should leave no buffer behind.
PendingOnlyUndelivered ==
  \A e \in Peers : \A sn \in DOMAIN ep[e].pendRel : sn > ep[e].lastRel

\* Once a user callback (or the user) destroys the endpoint, nothing the
\* rest of the dispatch does changes a field of it: every continuation of
\* handle_error, handle_message, replay_pending_messages, start_sending and
\* the deliveries re-checks was_destroyed after calling the user.
UseAfterDestroy ==
  \A e \in Peers : ep[e].destroyed => Core(ep[e]) = ep[e].frozen

\* A connected endpoint whose socket is still open always has a receive
\* outstanding: on_receive issues the next async_receive_from, and every
\* error that ends the receive loop closes the endpoint (spec section 7:
\* I/O errors are fatal).
ReceiveLoopAlive ==
  \A e \in Peers :
    ep[e].open /\ ep[e].connected /\ ~ep[e].destroyed => ep[e].rx = "live"

\* Closed is terminal (spec: lifecycle, and the propagation policy of
\* section 7): once handle_error has closed the endpoint and reported
\* timed_out or connection_reset to the hooks, the user is handed no
\* further message, not even through a hook re-registered in that error
\* callback.  A datagram whose completion was queued before the receive
\* timeout fired is still processed by on_receive.
NoDeliveryAfterFatal ==
  [][\A e \in Peers : ep[e].failed => UNCHANGED <<ep[e].gotRel, ep[e].gotUnrel>>]_vars

\* After the user calls close() no receive hook is invoked any more.
NoCallbackAfterClose == \A e \in Peers : ~ep[e].lateCb

\* The messages e's user has sent on the reliable stream, as its peer's
\* user should see them: with the numbers they were sent under, and whole.
SentStream(e) ==
  [i \in 1 .. Len(ep[e].sentRel) |->
     [sn |-> ep[e].sentRel[i].sn, bytes |-> 0 .. (ep[e].sentRel[i].size - 1)]]
=============================================================================
