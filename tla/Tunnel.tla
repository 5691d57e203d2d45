------------------------------- MODULE Tunnel -------------------------------
(***************************************************************************)
(* A tunnel between a client and a server: the handshake of                  *)
(* tunnel/client.rs and consume_client_flight3_ghost, the record layer of    *)
(* tunnel/common.rs, and the records a session makes of its packets, sized   *)
(* by Shaping.  TCP is a stream of units, the header and the body of a       *)
(* record, that a read may split anywhere; a faulty one damages a unit or    *)
(* breaks off.  Noise is its nonces: a message opens under the nonce it was  *)
(* sealed with, and only if it is undamaged.  Bytes of a direction are       *)
(* numbered, so a record carries a range of them.  Waits and flush points of *)
(* the session's writer are in SessionWriter; here a flush may come at any   *)
(* time.                                                                     *)
(***************************************************************************)
EXTENDS Shaping

CONSTANTS Scenes    \* what a connection meets, see scene

VARIABLES
  scene,     \* [lines, off: the configuration; large: see h2_opening; flight:
             \*  the server's records up to the Noise response; ghosts: how many
             \*  follow it; packets: what the sessions send; closers: the sides
             \*  that shut down; room: the reader's buffer; split: whether TCP
             \*  splits; calm: whether a side does one thing at a
             \*  time, flushing when no packet is left and reading when nothing
             \*  is left to flush; faults: what may go wrong]
  hs,        \* the handshake of each side
  wire,      \* units under way from each side
  ended,     \* no more units will come from this side
  tx, rx,    \* the nonces of NoiseSender and NoiseReceiver
  w,         \* the write half and the session's position in its packets
  sh,        \* the traffic shaper
  r,         \* the read half
  closed, close_notify_written,     \* SnowyShared
  made, got, \* bytes put into records, bytes handed to the session
  log,       \* the packets begun, with the number of their last byte
  handled,   \* how many of the peer's packets the session has handled
  garbled,   \* history: bytes came in the wrong place
  fault      \* history: something went wrong

vars == <<scene, hs, wire, ended, tx, rx, w, sh, r, closed, close_notify_written,
          made, got, log, handled, garbled, fault>>

Sides == {"client", "server"}
Peer(s) == IF s = "client" THEN "server" ELSE "client"
Direction(s) == IF s = "client" THEN "C2S" ELSE "S2C"

CLIENT_HANDSHAKE_MAX_CCS_RECORDS == 1
CLIENT_HANDSHAKE_MAX_HANDSHAKE_RECORDS == 8
CLIENT_HANDSHAKE_MAX_APP_DATA_PROBES == 8

Record(type, content, nonce) ==
  [type |-> type, content |-> content, nonce |-> nonce, from |-> 0, len |-> 0,
   class |-> "none", target |-> 0, wire |-> 0, nth |-> 0]

Units(rec) == <<[rec |-> rec, body |-> FALSE], [rec |-> rec, body |-> TRUE]>>

\* how many units of a stream one call of the socket takes
Pieces(units) == IF scene.split THEN {1, Len(units)} ELSE {Len(units)}

AllUnits(recs) == FlattenSeq([i \in DOMAIN recs |-> Units(recs[i])])

\* n is the ghost count a Noise response carries
FlightRecord(content, n) ==
  [Record(CASE content = "hello" -> "handshake" [] content = "ccs" -> "ccs" [] OTHER -> "app",
          content, 0) EXCEPT !.len = n]

\* the shaper of a side that has no data to send is never asked: any one will do
ShapersOf(s) ==
  LET all == NewShaper(Direction(s), scene.lines, scene.off)
      data == \E i \in DOMAIN scene.packets[s] : scene.packets[s][i].kind \in {"open", "psh"}
  IN IF data THEN all ELSE {CHOOSE one \in all : TRUE}

Init ==
  /\ scene \in Scenes
  /\ hs = [client |-> [pc |-> "hello", found |-> FALSE, handshakes |-> 0, ccs |-> 0,
                       probes |-> 0, ghosts |-> 0],
           server |-> [pc |-> "flight"]]
  /\ wire = [s \in Sides |-> <<>>]
  /\ ended = [s \in Sides |-> FALSE]
  /\ tx = [s \in Sides |-> 0]
  /\ rx = [s \in Sides |-> 0]
  /\ w = [s \in Sides |-> [pc |-> "idle", packets |-> scene.packets[s], left |-> 0,
                           fresh |-> FALSE, sticky |-> FALSE, fakes |-> <<>>,
                           state |-> "Handshake", buf |-> <<>>,
                           control_frame_count |-> 0, told |-> 0]]
  /\ \E c \in ShapersOf("client"), v \in ShapersOf("server") : sh = [client |-> c, server |-> v]
  /\ r = [s \in Sides |-> [pc |-> "idle", rx_buf |-> <<>>, from |-> 0, inner |-> 0,
                           room |-> 0, progress |-> FALSE, result |-> "open",
                           notified |-> FALSE]]
  /\ closed = [s \in Sides |-> FALSE]
  /\ close_notify_written = [s \in Sides |-> FALSE]
  /\ made = [s \in Sides |-> 0]
  /\ got = [s \in Sides |-> 0]
  /\ log = [s \in Sides |-> <<>>]
  /\ handled = [s \in Sides |-> 0]
  /\ garbled = [s \in Sides |-> FALSE]
  /\ fault = FALSE

writeVars == <<tx, w, sh, made, log>>
readVars == <<rx, r, got, garbled>>
sharedVars == <<closed, close_notify_written>>

(***************************************************************************)
(* The handshake.                                                            *)
(***************************************************************************)
HandshakeKeeps == UNCHANGED <<scene, w, sh, r, sharedVars, made, got, log, handled,
                              garbled, fault>>

Up(s) == hs[s].pc = "up"

\* the error paths drop the socket
HandshakeFails(s) ==
  /\ hs' = [hs EXCEPT ![s].pc = "failed"]
  /\ ended' = [ended EXCEPT ![s] = TRUE]

\* establish_synthetic_camouflage_tunnel: the replayed flight
ServerFlight ==
  /\ hs.server.pc = "flight"
  /\ hs' = [hs EXCEPT !.server.pc = "flight3"]
  /\ wire' = [wire EXCEPT !.server = @ \o
                AllUnits([i \in DOMAIN scene.flight |->
                            FlightRecord(scene.flight[i], scene.ghosts)]
                         \o [i \in 1 .. scene.ghosts |-> FlightRecord("ghost", 0)])]
  /\ UNCHANGED <<ended, tx, rx>>
  /\ HandshakeKeeps

\* one record read by the client before it has the Noise response
Probe(h, type, rec) ==
  CASE type = "handshake" ->
         [h EXCEPT !.handshakes = @ + 1, !.found = @ \/ rec.content = "hello",
                   !.pc = IF h.handshakes + 1 > CLIENT_HANDSHAKE_MAX_HANDSHAKE_RECORDS
                          THEN "failed" ELSE @]
    [] type = "ccs" ->
         [h EXCEPT !.ccs = @ + 1,
                   !.pc = IF h.ccs + 1 > CLIENT_HANDSHAKE_MAX_CCS_RECORDS
                          THEN "failed" ELSE @]
    [] type = "app" /\ h.found ->
         [h EXCEPT !.probes = @ + 1,
                   !.ghosts = IF rec.content = "noise" THEN rec.len ELSE @,
                   !.pc = IF h.probes + 1 > CLIENT_HANDSHAKE_MAX_APP_DATA_PROBES
                          THEN "failed"
                          ELSE IF rec.content # "noise" THEN @
                          ELSE IF rec.len > 0 THEN "drain" ELSE "flight3"]
    [] OTHER -> [h EXCEPT !.pc = "failed"]

Settle(h) ==
  /\ hs' = [hs EXCEPT !.client = h]
  /\ ended' = [ended EXCEPT !.client = h.pc = "failed"]

ClientProbe ==
  /\ hs.client.pc = "hello"
  /\ Len(wire.server) >= 2
  /\ Settle(Probe(hs.client, wire.server[1].rec.type, wire.server[2].rec))
  /\ wire' = [wire EXCEPT !.server = SubSeq(@, 3, Len(@))]
  /\ UNCHANGED <<tx, rx>>
  /\ HandshakeKeeps

\* one ghost less than the server announced
DrainedShort(h, type) ==
  IF type # "app" THEN [h EXCEPT !.pc = "failed"]
  ELSE [h EXCEPT !.ghosts = @ - 1, !.pc = IF h.ghosts <= 2 THEN "flight3" ELSE @]

Drained(h, type) ==
  IF type # "app" THEN [h EXCEPT !.pc = "failed"]
  ELSE [h EXCEPT !.ghosts = @ - 1, !.pc = IF h.ghosts = 1 THEN "flight3" ELSE @]

ClientDrain ==
  /\ hs.client.pc = "drain"
  /\ Len(wire.server) >= 2
  /\ Settle(Drained(hs.client, wire.server[1].rec.type))
  /\ wire' = [wire EXCEPT !.server = SubSeq(@, 3, Len(@))]
  /\ UNCHANGED <<tx, rx>>
  /\ HandshakeKeeps

\* the two segments of send_client_flight3_ghost
ClientFlight3 ==
  /\ hs.client.pc \in {"flight3", "flight3b"}
  /\ LET first == hs.client.pc = "flight3"
         sealed == Record("app", IF first THEN "finished" ELSE "h2", tx.client) IN
     /\ wire' = [wire EXCEPT !.client = @ \o
                   AllUnits(IF first THEN <<FlightRecord("ccs", 0), sealed>> ELSE <<sealed>>)]
     /\ hs' = [hs EXCEPT !.client.pc = IF first THEN "flight3b" ELSE "up"]
  /\ tx' = [tx EXCEPT !.client = @ + 1]
  /\ UNCHANGED <<ended, rx>>
  /\ HandshakeKeeps

\* messages open in any order
OpensAnyNonce(rec, nonce) == rec.content # "garbage"

Opens(rec, nonce) == rec.content # "garbage" /\ rec.nonce = nonce

\* consume_client_flight3_ghost: it reads no further than the header of the
\* third record, then no further than its body
ServerFlight3 ==
  /\ hs.server.pc = "flight3"
  /\ Len(wire.client) >= 5
  /\ LET u == wire.client
         ok == /\ u[1].rec.type = "ccs" /\ u[2].rec.content = "ccs"
               /\ u[3].rec.type = "app" /\ Opens(u[4].rec, rx.server)
               /\ u[5].rec.type = "app" IN
     /\ IF ok THEN hs' = [hs EXCEPT !.server.pc = "flight3b"] /\ UNCHANGED ended
        ELSE HandshakeFails("server")
     /\ rx' = [rx EXCEPT !.server = IF ok THEN @ + 1 ELSE @]
     /\ wire' = [wire EXCEPT !.client = SubSeq(@, 6, Len(@))]
  /\ UNCHANGED tx
  /\ HandshakeKeeps

\* the second read takes what is there, up to a record of the largest size
RestOfFlight3Greedy(u) == Len(u)

RestOfFlight3(u) == 1

ServerFlight3Rest ==
  /\ hs.server.pc = "flight3b"
  /\ Len(wire.client) >= 1
  /\ LET ok == Opens(wire.client[1].rec, rx.server) IN
     /\ IF ok THEN hs' = [hs EXCEPT !.server.pc = "up"] /\ UNCHANGED ended
        ELSE HandshakeFails("server")
     /\ rx' = [rx EXCEPT !.server = IF ok THEN @ + 1 ELSE @]
     /\ wire' = [wire EXCEPT !.client = SubSeq(@, RestOfFlight3(@) + 1, Len(@))]
  /\ UNCHANGED tx
  /\ HandshakeKeeps

\* the end of the stream, or the deadline, while a side waits for the peer
HandshakeStops(s) ==
  /\ hs[s].pc \in IF s = "client" THEN {"hello", "drain"} ELSE {"flight3", "flight3b"}
  /\ \/ /\ ended[Peer(s)]
        /\ Len(wire[Peer(s)]) < (CASE s = "client" -> 2 [] hs[s].pc = "flight3" -> 5
                                   [] OTHER -> 1)
        /\ UNCHANGED fault
     \/ "timeout" \in scene.faults /\ fault' = TRUE
  /\ HandshakeFails(s)
  /\ UNCHANGED <<scene, wire, tx, rx, w, sh, r, sharedVars, made, got, log, handled,
                 garbled>>

(***************************************************************************)
(* The write half, driven by the packets of the session.                     *)
(***************************************************************************)
Padding(target, m) ==
  [kind |-> IF m > 0 THEN "request" ELSE "reply",
   len |-> encode_padding_frame_sized(target), m |-> m]

Begun(packet, end, target) ==
  [kind |-> packet.kind, m |-> packet.m, to |-> end, wire |-> target]

\* encrypt_variable_block on len bytes, the first of them numbered from
Block(class, target, from, len, nonce, nth) ==
  [Record("app", "data", nonce) EXCEPT
     !.class = class, !.target = target, !.from = from, !.len = len,
     !.wire = PreparedLen(len, target), !.nth = nth]

WriteKeeps == UNCHANGED <<scene, hs, wire, ended, readVars, sharedVars, handled, garbled,
                          fault>>

\* the session's writer turns to its next packet
TakePacket(s) ==
  /\ Up(s)
  /\ w[s].pc = "idle"
  /\ w[s].packets # <<>>
  /\ LET p == Head(w[s].packets) IN
     w' = [w EXCEPT ![s].pc = IF p.kind \in {"open", "psh"} THEN "data" ELSE "control",
                    ![s].left = p.len, ![s].fresh = TRUE, ![s].sticky = FALSE,
                    ![s].state = from_control_count(w[s].control_frame_count)]
  /\ sh' = [sh EXCEPT ![s] = begin_drain(@)]
  /\ UNCHANGED <<tx, made, log>>
  /\ WriteKeeps

\* one round of the loop of prepare_control_packet_records
ControlRecord(s) ==
  /\ w[s].pc = "control"
  /\ LET p == Head(w[s].packets)
         n == w[s].left
         count == w[s].control_frame_count
         cuts == IF p.kind \in {"request", "reply"}
                 THEN {[class |-> "control", target |-> self_sized_padding_wire_len(n),
                        take |-> n]}
                 ELSE ControlCut(n, p.kind = "lifecycle", w[s].state, Direction(s),
                                 scene.large, count)
     IN \E c \in cuts :
          /\ w' = [w EXCEPT
                     ![s].buf = @ \o Units(Block(c.class, c.target, made[s], c.take, tx[s],
                                                 count + 1)),
                     ![s].control_frame_count = @ + 1, ![s].left = @ - c.take,
                     ![s].fresh = FALSE,
                     ![s].pc = IF c.take = n THEN "idle" ELSE @,
                     ![s].packets = IF c.take = n THEN Tail(@) ELSE @]
          /\ tx' = [tx EXCEPT ![s] = @ + 1]
          /\ made' = [made EXCEPT ![s] = @ + c.take]
          /\ log' = IF w[s].fresh
                    THEN [log EXCEPT ![s] = Append(@, Begun(p, made[s] + n, c.target))]
                    ELSE log
  /\ UNCHANGED sh
  /\ WriteKeeps

\* the policies drive_shaper may get for its next record
PoliciesFor(s) ==
  IF ~w[s].sticky THEN next_data_policy(sh[s], w[s].left)
  ELSE LET take == Least(w[s].left, BLOCK_DATA_CAPACITY) IN
       {[policy |-> [Policy(IF take = BLOCK_DATA_CAPACITY THEN "bulk" ELSE "tail",
                            data_record_wire_len(take)) EXCEPT !.allow_full_block = TRUE],
         sh |-> sh[s]]}

\* the requests for ms responses, as control records after the first n bytes
FakeRecords(s, ms, n, nonce) ==
  [i \in DOMAIN ms |->
     Block("control", PING_WIRE, made[s] + n + (i - 1) * encode_padding_frame_sized(PING_WIRE),
           encode_padding_frame_sized(PING_WIRE), nonce + i - 1,
           w[s].control_frame_count + i)]

FakesBegun(s, ms, n) ==
  [i \in DOMAIN ms |->
     Begun(Padding(PING_WIRE, ms[i]), made[s] + n + i * encode_padding_frame_sized(PING_WIRE),
           PING_WIRE)]

Added(n, m) == Least(n + m, 255)

\* one round of the loop of drive_shaper; after the last one the fakes it
\* collected follow (prepare_fake_frames).  The packet is one frame, so its
\* start is the only boundary
DataRecord(s) ==
  /\ w[s].pc = "data"
  /\ \E c \in PoliciesFor(s) :
       LET p == Head(w[s].packets)
           pol == c.policy
           take == Least(Least(pol.target_wire_len - MIN_DATA_WIRE_LEN, BLOCK_DATA_CAPACITY),
                         w[s].left)
           last == take = w[s].left
           now == Added(IF pol.quiet_gap THEN pol.fake ELSE 0,
                        IF w[s].fresh THEN pol.pre_fake ELSE 0)
           inline == IF now > 0 THEN <<now>> ELSE <<>>
           later == w[s].fakes
                    \o (IF pol.pre_fake > 0 /\ ~w[s].fresh THEN <<pol.pre_fake>> ELSE <<>>)
                    \o (IF pol.fake > 0 /\ ~pol.quiet_gap THEN <<pol.fake>> ELSE <<>>)
           after == IF last THEN later ELSE <<>>
           pad == Len(inline) * encode_padding_frame_sized(PING_WIRE)
           data == Block(pol.class, pol.target_wire_len, made[s] + pad, take,
                         tx[s] + Len(inline), 0)
           sent == FakeRecords(s, inline, 0, tx[s]) \o <<data>>
                   \o [i \in DOMAIN after |->
                         FakeRecords(s, inline \o after, take, tx[s] + 1)[Len(inline) + i]]
       IN /\ w' = [w EXCEPT
                     ![s].buf = @ \o AllUnits(sent),
                     ![s].control_frame_count = @ + Len(inline) + Len(after),
                     ![s].left = @ - take, ![s].fresh = FALSE,
                     ![s].sticky = @ \/ (w[s].fresh /\ pol.allow_full_block),
                     ![s].fakes = IF last THEN <<>> ELSE later,
                     ![s].told = @ + FoldLeft(+, 0, inline \o after),
                     ![s].pc = IF last THEN "idle" ELSE @,
                     ![s].packets = IF last THEN Tail(@) ELSE @]
          /\ sh' = [sh EXCEPT ![s] = advance(c.sh)]
          /\ tx' = [tx EXCEPT ![s] = @ + Len(sent)]
          /\ made' = [made EXCEPT ![s] = @ + take
                        + Len(inline \o after) * encode_padding_frame_sized(PING_WIRE)]
          /\ log' = [log EXCEPT ![s] = @
                       \o FakesBegun(s, inline, 0)
                       \o (IF w[s].fresh THEN <<Begun(p, made[s] + pad + w[s].left, 0)>>
                           ELSE <<>>)
                       \o FakesBegun(s, after, pad + take)]
  /\ WriteKeeps

\* try_flush_write_buffer: the socket takes some of the bytes
Flush(s) ==
  /\ w[s].buf # <<>>
  /\ scene.calm => w[s].packets = <<>>
  /\ \E n \in Pieces(w[s].buf) :
       /\ wire' = IF ended[s] THEN wire
                  ELSE [wire EXCEPT ![s] = @ \o SubSeq(w[s].buf, 1, n)]
       /\ w' = [w EXCEPT ![s].buf = SubSeq(@, n + 1, Len(@))]
  /\ UNCHANGED <<scene, hs, ended, tx, sh, readVars, sharedVars, made, log, handled, fault>>

\* poll_shutdown after its first flush: close_notify, unless the connection is
\* closed already
ShutdownAlert(s) ==
  /\ Up(s)
  /\ s \in scene.closers
  /\ w[s].pc = "idle" /\ w[s].packets = <<>> /\ w[s].buf = <<>>
  /\ LET notify == ~close_notify_written[s] /\ ~closed[s] IN
     /\ w' = [w EXCEPT ![s].pc = "closing",
                       ![s].buf = IF notify THEN Units(Record("app", "close", tx[s])) ELSE @]
     /\ tx' = [tx EXCEPT ![s] = IF notify THEN @ + 1 ELSE @]
     /\ close_notify_written' = [close_notify_written EXCEPT ![s] = @ \/ notify]
     /\ closed' = [closed EXCEPT ![s] = @ \/ notify]
  /\ UNCHANGED <<scene, hs, wire, ended, sh, readVars, made, log, handled, fault>>

\* poll_shutdown after its second flush
ShutdownSocket(s) ==
  /\ w[s].pc = "closing" /\ w[s].buf = <<>>
  /\ w' = [w EXCEPT ![s].pc = "done"]
  /\ ended' = [ended EXCEPT ![s] = TRUE]
  /\ UNCHANGED <<scene, hs, wire, tx, sh, readVars, sharedVars, made, log, handled, fault>>

(***************************************************************************)
(* The read half.  A poll begins with PollRead and goes on record by record  *)
(* until it returns; a poll that is Pending waits in Socket.                 *)
(***************************************************************************)
Calm(s) == scene.calm => w[s].packets = <<>> /\ w[s].buf = <<>>

ReadKeeps == UNCHANGED <<scene, hs, ended, writeVars, handled, fault>>

\* a poll returns Ok: with nothing in the buffer the caller takes it as the end
Returns(rd) ==
  [rd EXCEPT !.pc = "idle", !.result = IF rd.room = scene.room THEN "eof" ELSE @]

\* the top of 'outer: read_buf_inner goes first
Outer(rd) ==
  LET n == Least(rd.inner, rd.room)
      drained == [rd EXCEPT !.pc = "parse", !.from = @ + n, !.inner = @ - n,
                            !.room = @ - n, !.progress = @ \/ rd.inner > 0]
  IN IF rd.inner > 0 /\ drained.room = 0 THEN Returns(drained) ELSE drained

\* the poll goes on as rd; the bytes it put in the buffer are numbered from
Continue(s, rd, from, room) ==
  /\ r' = [r EXCEPT ![s] = rd]
  /\ got' = [got EXCEPT ![s] = @ + room - rd.room]
  /\ garbled' = [garbled EXCEPT ![s] = @ \/ (rd.room < room /\ from # got[s])]

PollRead(s) ==
  /\ Up(s)
  /\ r[s].pc = "idle" /\ r[s].result = "open"
  /\ LET started == [r[s] EXCEPT !.room = scene.room, !.progress = FALSE] IN
     Continue(s, IF closed[s] THEN Returns(started) ELSE Outer(started),
              r[s].from, scene.room)
  /\ UNCHANGED <<wire, rx, sharedVars>>
  /\ ReadKeeps

\* what the caller's buffer cannot hold is lost
TakenShort(rd, rec) ==
  LET n == Least(rec.len, rd.room) IN
  [rd EXCEPT !.room = @ - n, !.progress = @ \/ n > 0]

\* what of a record's bytes the caller's buffer cannot hold is kept;
\* read_buf_inner is empty here
Taken(rd, rec) ==
  LET n == Least(rec.len, rd.room) IN
  [rd EXCEPT !.room = @ - n, !.progress = @ \/ n > 0, !.from = rec.from + n,
             !.inner = rec.len - n]

\* the next whole record of tls_rx_buf
ParseRecord(s) ==
  /\ r[s].pc = "parse"
  /\ Len(r[s].rx_buf) >= 2
  /\ LET type == r[s].rx_buf[1].rec.type
         rec == r[s].rx_buf[2].rec
         ok == type = "app" /\ Opens(rec, rx[s])
         bad == type = "app" /\ ~ok
         notify == ok /\ rec.content = "close"
         alert == type = "alert" \/ notify
         rest == [r[s] EXCEPT !.rx_buf = SubSeq(@, 3, Len(@)), !.notified = @ \/ notify]
     IN /\ Continue(s, CASE alert -> Returns(rest)
                         [] bad -> [rest EXCEPT !.pc = "idle", !.result = "err"]
                         [] ok /\ ~alert -> Outer(Taken(rest, rec))
                         [] OTHER -> rest,
                    rec.from, rest.room)
        /\ rx' = [rx EXCEPT ![s] = IF ok THEN @ + 1 ELSE @]
        /\ closed' = [closed EXCEPT ![s] = @ \/ alert \/ bad]
        /\ close_notify_written' = [close_notify_written EXCEPT ![s] = @ \/ bad]
  /\ UNCHANGED wire
  /\ ReadKeeps

\* no whole record is left: the poll returns what there is ...
Parsed(s) ==
  /\ r[s].pc = "parse"
  /\ Len(r[s].rx_buf) < 2 /\ r[s].progress
  /\ r' = [r EXCEPT ![s] = Returns(r[s])]
  /\ UNCHANGED <<wire, rx, got, garbled, sharedVars>>
  /\ ReadKeeps

\* ... or turns to the socket, which has some units or comes to its end
Socket(s) ==
  /\ r[s].pc = "parse"
  /\ Len(r[s].rx_buf) < 2 /\ ~r[s].progress
  /\ Calm(s)
  /\ wire[Peer(s)] # <<>>
  /\ \E n \in Pieces(wire[Peer(s)]) :
       /\ r' = [r EXCEPT ![s].rx_buf = @ \o SubSeq(wire[Peer(s)], 1, n)]
       /\ wire' = [wire EXCEPT ![Peer(s)] = SubSeq(@, n + 1, Len(@))]
  /\ UNCHANGED <<rx, got, garbled, sharedVars>>
  /\ ReadKeeps

\* inside a record or between two; a connection that broke may give an error of
\* its own
SocketEnd(s) ==
  /\ r[s].pc = "parse"
  /\ Len(r[s].rx_buf) < 2 /\ ~r[s].progress
  /\ wire[Peer(s)] = <<>> /\ ended[Peer(s)]
  /\ \E whole \in {r[s].rx_buf = <<>>} \cup (IF fault THEN {FALSE} ELSE {}) :
     /\ r' = [r EXCEPT ![s] = IF whole THEN Returns(r[s])
                              ELSE [r[s] EXCEPT !.pc = "idle", !.result = "err"]]
     /\ closed' = [closed EXCEPT ![s] = @ \/ whole]
  /\ UNCHANGED <<wire, rx, got, garbled, close_notify_written>>
  /\ ReadKeeps

(***************************************************************************)
(* The frames the session answers by itself.                                 *)
(***************************************************************************)
SettingsPacket == [kind |-> "settings", len |-> FRAME_HEADER_SIZE + 8, m |-> 0]

emit_h2_server_opening ==
  <<SettingsPacket>>
    \o IF scene.off THEN <<>>
       ELSE [i \in 1 .. 2 |-> Padding(h2_opening("S2C", scene.large)[i + 1], 0)]

\* the replies to a request for m of them that came in a record of this size
Replies(request, m) ==
  LET k == Least(Most(m, 1), MAX_PADDING_REPLIES) IN
  {[i \in 1 .. k |-> Padding(sizes[i], 0)] :
     sizes \in {f \in [1 .. k -> UNION {padding_reply_wire_len(request, i - 1) : i \in 1 .. k}] :
                  \A i \in 1 .. k : f[i] \in padding_reply_wire_len(request, i - 1)}}

Answers(s, p) ==
  CASE s = "server" /\ p.kind = "open" -> {emit_h2_server_opening}
    [] s = "client" /\ p.kind = "settings" -> {<<Padding(SETTINGS_ACK_WIRE, 0)>>}
    [] p.kind = "request" -> Replies(p.wire, p.m)
    [] OTHER -> {<<>>}

\* handle_frame, for the next packet that has come in whole
HandleFrame(s) ==
  /\ Up(s)
  /\ Calm(s)
  /\ handled[s] < Len(log[Peer(s)])
  /\ LET p == log[Peer(s)][handled[s] + 1] IN
     /\ p.to <= got[s]
     /\ \E answer \in Answers(s, p) :
          w' = IF w[s].pc \in {"closing", "done"} THEN w
               ELSE [w EXCEPT ![s].packets = @ \o answer]
  /\ handled' = [handled EXCEPT ![s] = @ + 1]
  /\ UNCHANGED <<scene, hs, wire, ended, tx, sh, readVars, sharedVars, made, log, fault>>

(***************************************************************************)
(* What TCP does to the units under way: one is damaged, or the connection   *)
(* breaks off after some of them.                                            *)
(***************************************************************************)
Damaged(u) ==
  IF u.body THEN {[u EXCEPT !.rec.content = "garbage"]}
  ELSE {[u EXCEPT !.rec.type = t] : t \in {"alert", "other"}}

Damage(s) ==
  /\ "damage" \in scene.faults /\ ~fault
  /\ \E i \in DOMAIN wire[s] :
       \E u \in Damaged(wire[s][i]) : wire' = [wire EXCEPT ![s][i] = u]
  /\ fault' = TRUE
  /\ UNCHANGED <<scene, hs, ended, writeVars, readVars, sharedVars, handled>>

BreakOff(s) ==
  /\ "break" \in scene.faults /\ ~fault
  /\ \E n \in 0 .. Len(wire[s]) : wire' = [wire EXCEPT ![s] = SubSeq(@, 1, n)]
  /\ ended' = [t \in Sides |-> TRUE]
  /\ fault' = TRUE
  /\ UNCHANGED <<scene, hs, writeVars, readVars, sharedVars, handled>>

Handshake ==
  \/ ServerFlight \/ ClientProbe \/ ClientDrain \/ ClientFlight3
  \/ ServerFlight3 \/ ServerFlight3Rest
  \/ \E s \in Sides : HandshakeStops(s)

Writer(s) == TakePacket(s) \/ ControlRecord(s) \/ DataRecord(s) \/ Flush(s)

Reader(s) == PollRead(s) \/ ParseRecord(s) \/ Parsed(s) \/ Socket(s) \/ SocketEnd(s)

\* The connection may stop only after a fault, or when everything the sessions
\* sent, answers included, has been handed over and handled, or the reader has
\* met the end.  Any other stop is a deadlock.
Stopped ==
  /\ \/ fault
     \/ \A s \in Sides :
          /\ w[s].buf = <<>> /\ w[s].packets = <<>>
          /\ w[s].pc = IF s \in scene.closers THEN "done" ELSE "idle"
          /\ \/ r[s].result = "eof"
             \/ got[s] = made[Peer(s)] /\ handled[s] = Len(log[Peer(s)])
  /\ UNCHANGED vars

Next ==
  \/ Handshake \/ Stopped
  \/ \E s \in Sides :
       \/ Writer(s) \/ Reader(s) \/ HandleFrame(s)
       \/ ShutdownAlert(s) \/ ShutdownSocket(s)
       \/ Damage(s) \/ BreakOff(s)

Spec == Init /\ [][Next]_vars

(***************************************************************************)
(* Properties.                                                               *)
(***************************************************************************)
Buffered(s) == {w[s].buf[i].rec : i \in DOMAIN w[s].buf}

\* What poll_read hands to the session is a prefix of what the peer put into
\* records, in order, whatever TCP splits, damages or breaks off.
ReadIntact ==
  \A s \in Sides : ~garbled[s] /\ got[s] <= made[Peer(s)]

\* A poll that ends with nothing read stands for the end: after the peer's
\* close_notify every byte of the peer has been handed over, even on a faulty
\* connection; any other end is complete on a sound connection, unless this side
\* itself shut down.
EofComplete ==
  \A s \in Sides :
    (r[s].result = "eof" /\ (r[s].notified \/ (~fault /\ w[s].pc \notin {"closing", "done"})))
      => got[s] = made[Peer(s)]

\* On a sound connection the handshake never fails and no record fails to open:
\* the client passes over what precedes the Noise response and takes exactly the
\* announced ghosts, the server exactly the third flight, so both nonces meet the
\* first session record.
ErrorExplained ==
  \A s \in Sides : (hs[s].pc = "failed" \/ r[s].result = "err") => fault


\* A configured script that lint_traffic_script says nothing about asks for no
\* responses, and after the scaling of randomize_script none of its records
\* leaves the range of ordinary data records.
LintSound ==
  LET parsed == parse_traffic_script(scene.lines) IN
  parsed.ok /\ lint_traffic_script(parsed) = {} =>
    \A s \in Sides :
      /\ sh[s].asked = 0
      /\ \A rec \in Buffered(s) : rec.class = "script" =>
           rec.wire <= data_record_wire_len(MAX_DATA_RECORD_PAYLOAD)

\* Every response a script rule asks for is requested from the peer once: it has
\* been sent, waits in deferred_fakes, or is kept for the end of the drain.
FakesConserved ==
  \A s \in Sides :
    sh[s].asked <= 255 =>
      sh[s].asked = w[s].told + Total(sh[s].deferred_fakes) + FoldLeft(+, 0, w[s].fakes)
=============================================================================
