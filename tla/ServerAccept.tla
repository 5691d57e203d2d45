---------------------------- MODULE ServerAccept ----------------------------
(***************************************************************************)
(* How a server session takes in streams: the read loop's SYN, PSH and FIN *)
(* handlers (session.rs), the acceptor (session/server.rs accept_stream,   *)
(* called in a loop by handle_server_conn), the owners of accepted streams *)
(* and the end of the session.                                             *)
(*                                                                         *)
(* A stream is first reserved in a counter, then an entry of               *)
(* pending_open_streams buffers its frames until the acceptor has          *)
(* registered it and moved the buffer into its channel.  A step ends where *)
(* a lock is released or an atomic has been accessed, so the read loop,    *)
(* the acceptor and the owners interleave as on several worker threads.    *)
(* Reading an accepted stream is the subject of StreamReceive.             *)
(***************************************************************************)
EXTENDS Integers, Sequences, FiniteSets, SequencesExt

CONSTANTS
  Transcripts,        \* sequences of frames the client may send
  Sids,               \* the stream ids in them
  MaxStreams,         \* max_streams_per_session
  QueueCapacity,      \* NEW_STREAM_CHANNEL_CAPACITY
  ChannelCapacity,    \* capacity of a stream's data channel
  MaxPendingFrames,   \* MAX_PENDING_STREAM_FRAMES
  WriterMayBeFull,    \* whether the writer's control queue may be full
  MayEnd,             \* whether the tunnel may end
  MayIdle             \* whether the idle timer may fire

VARIABLES
  transcript, wire,           \* what the client sends, and what has not arrived
  read_loop, frame,           \* the read loop's place and the frame in hand
  active,                     \* its local copy of capacity_stream_count
  settings_received,
  streams,                    \* "none", "open" or "read_closed" per stream
  capacity_stream_count,
  pending_inbound_streams,
  pending_open_streams,       \* an entry or NoEntry per stream
  new_streams,                \* the channel from the read loop to the acceptor
  acceptor, sid, batch, fin,  \* the acceptor's place and locals
  delivered_data, woken,
  channel, pending_data,      \* a stream's data channel and overflow buffer
  fin_token,                  \* a token in its fin channel
  server_stream,              \* the ServerStream and its owner
  read_closed,                \* ServerStream::read_closed
  closing_streams,
  rejected,                   \* streams refused with a SYNACK
  overflowed                  \* streams that met the limit of a buffer

loopVars == <<read_loop, frame, active, settings_received>>
acceptVars == <<acceptor, sid, batch, fin, delivered_data, woken>>
tableVars == <<streams, capacity_stream_count>>
openVars == <<pending_inbound_streams, pending_open_streams, new_streams>>
bufferVars == <<channel, pending_data, fin_token, overflowed>>
ownerVars == <<server_stream, read_closed, closing_streams>>
vars == <<transcript, wire, loopVars, acceptVars, tableVars, openVars, bufferVars, ownerVars,
          rejected>>

NoFrame == [cmd |-> "none", sid |-> 0, n |-> 0]
NoEntry == [here |-> FALSE, data |-> <<>>, fin |-> FALSE, released |-> FALSE]
NewEntry == [NoEntry EXCEPT !.here = TRUE]

Init ==
  /\ transcript \in Transcripts /\ wire = transcript
  /\ read_loop = "idle" /\ frame = NoFrame /\ active = 0 /\ settings_received = FALSE
  /\ streams = [s \in Sids |-> "none"] /\ capacity_stream_count = 0
  /\ pending_inbound_streams = 0 /\ pending_open_streams = [s \in Sids |-> NoEntry]
  /\ new_streams = <<>>
  /\ acceptor = "start" /\ sid = 0 /\ batch = <<>> /\ fin = FALSE
  /\ delivered_data = FALSE /\ woken = FALSE
  /\ channel = [s \in Sids |-> <<>>] /\ pending_data = [s \in Sids |-> <<>>]
  /\ fin_token = [s \in Sids |-> FALSE]
  /\ server_stream = [s \in Sids |-> "none"] /\ read_closed = [s \in Sids |-> FALSE]
  /\ closing_streams = {}
  /\ rejected = {} /\ overflowed = {}

-----------------------------------------------------------------------------
(* The tables. *)

Count(delta) == capacity_stream_count' = capacity_stream_count + delta

\* register_stream_locked
Register(s) == streams' = [streams EXCEPT ![s] = "open"] /\ Count(1)

\* unregister_stream_locked: only a stream not marked read_closed is counted.
Unregister(s) ==
  /\ streams' = [streams EXCEPT ![s] = "none"]
  /\ Count(IF streams[s] = "open" THEN -1 ELSE 0)

\* mark_stream_read_closed_locked, on a registered stream.
MarkReadClosed(s) ==
  /\ streams' = [streams EXCEPT ![s] = IF @ = "none" THEN @ ELSE "read_closed"]
  /\ Count(IF streams[s] = "open" THEN -1 ELSE 0)

\* release_inbound_stream_reservation: checked_sub
ReleaseReservation ==
  pending_inbound_streams' =
    IF pending_inbound_streams = 0 THEN 0 ELSE pending_inbound_streams - 1

\* store_pending_data without its byte limits: beyond the frame limit the
\* payloads are dropped.
StorePending(s, payloads) ==
  LET room == MaxPendingFrames - Len(pending_data[s])
      n == IF room < Len(payloads) THEN room ELSE Len(payloads)
  IN  /\ pending_data' = [pending_data EXCEPT ![s] = @ \o SubSeq(payloads, 1, n)]
      /\ overflowed' = IF n < Len(payloads) THEN overflowed \cup {s} ELSE overflowed

-----------------------------------------------------------------------------
(* The read loop. *)

LoopAt(l) == read_loop' = l /\ UNCHANGED <<frame, active, settings_received>>
Handled == read_loop' = "idle" /\ frame' = NoFrame /\ active' = 0 /\ UNCHANGED settings_received

\* run_read_loop takes the next frame out of the reassembly buffer.
NextFrame ==
  /\ read_loop = "idle" /\ wire # <<>>
  /\ frame' = Head(wire) /\ wire' = Tail(wire)
  /\ read_loop' = CASE frame'.cmd = "SETTINGS" -> "settings"
                    [] frame'.cmd = "SYN" -> "syn"
                    [] frame'.cmd = "PSH" -> "psh"
                    [] frame'.cmd = "FIN" -> "fin"
  /\ UNCHANGED <<transcript, active, settings_received, acceptVars, tableVars, openVars,
                 bufferVars, ownerVars, rejected>>

Settings ==
  /\ read_loop = "settings"
  /\ settings_received' = TRUE
  /\ read_loop' = "idle" /\ frame' = NoFrame /\ active' = 0
  /\ UNCHANGED <<transcript, wire, acceptVars, tableVars, openVars, bufferVars, ownerVars,
                 rejected>>

\* A stream needs SETTINGS first, and an id not in use.
Syn ==
  /\ read_loop = "syn"
  /\ LoopAt(IF \/ ~settings_received
               \/ streams[frame.sid] # "none"
               \/ pending_open_streams[frame.sid].here
            THEN "reject" ELSE "load_active")
  /\ UNCHANGED <<transcript, wire, acceptVars, tableVars, openVars, bufferVars, ownerVars,
                 rejected>>

\* try_reserve_inbound_stream reads the number of active streams once ...
LoadActive ==
  /\ read_loop = "load_active"
  /\ active' = capacity_stream_count
  /\ read_loop' = "reserve"
  /\ UNCHANGED <<transcript, wire, frame, settings_received, acceptVars, tableVars, openVars,
                 bufferVars, ownerVars, rejected>>

\* ... and reserves with a compare-and-swap on the other counter.
Reserve ==
  /\ read_loop = "reserve"
  /\ IF active + pending_inbound_streams >= MaxStreams
     THEN LoopAt("reject") /\ UNCHANGED pending_inbound_streams
     ELSE LoopAt("insert") /\ pending_inbound_streams' = pending_inbound_streams + 1
  /\ UNCHANGED <<transcript, wire, acceptVars, tableVars, pending_open_streams, new_streams,
                 bufferVars, ownerVars, rejected>>

Insert ==
  /\ read_loop = "insert"
  /\ pending_open_streams' = [pending_open_streams EXCEPT ![frame.sid] = NewEntry]
  /\ LoopAt("announce")
  /\ UNCHANGED <<transcript, wire, acceptVars, tableVars, pending_inbound_streams, new_streams,
                 bufferVars, ownerVars, rejected>>

\* A full channel loses the stream silently.
AnnounceSilently ==
  /\ read_loop = "announce"
  /\ new_streams' = IF Len(new_streams) < QueueCapacity THEN Append(new_streams, frame.sid)
                    ELSE new_streams
  /\ Handled
  /\ UNCHANGED <<transcript, wire, acceptVars, tableVars, pending_inbound_streams,
                 pending_open_streams, bufferVars, ownerVars, rejected>>

\* on_new_stream: try_send into the acceptor's channel.
Announce ==
  /\ read_loop = "announce"
  /\ IF Len(new_streams) < QueueCapacity
     THEN new_streams' = Append(new_streams, frame.sid) /\ Handled
     ELSE LoopAt("remove") /\ UNCHANGED new_streams
  /\ UNCHANGED <<transcript, wire, acceptVars, tableVars, pending_inbound_streams,
                 pending_open_streams, bufferVars, ownerVars, rejected>>

RemoveEntry ==
  /\ read_loop = "remove"
  /\ pending_open_streams' = [pending_open_streams EXCEPT ![frame.sid] = NoEntry]
  /\ LoopAt("unreserve")
  /\ UNCHANGED <<transcript, wire, acceptVars, tableVars, pending_inbound_streams, new_streams,
                 bufferVars, ownerVars, rejected>>

\* The reservation of a stream the acceptor has no room for stays.
UnreserveForgotten ==
  /\ read_loop = "unreserve"
  /\ LoopAt("reject")
  /\ UNCHANGED <<transcript, wire, acceptVars, tableVars, openVars, bufferVars, ownerVars,
                 rejected>>

Unreserve ==
  /\ read_loop = "unreserve"
  /\ ReleaseReservation
  /\ LoopAt("reject")
  /\ UNCHANGED <<transcript, wire, acceptVars, tableVars, pending_open_streams, new_streams,
                 bufferVars, ownerVars, rejected>>

\* send_synack_rejection; handle_frame returns its error, which ends the session.
Reject ==
  /\ read_loop = "reject"
  /\ \/ Handled /\ rejected' = rejected \cup {frame.sid}
     \/ WriterMayBeFull /\ LoopAt("ending") /\ UNCHANGED rejected
  /\ UNCHANGED <<transcript, wire, acceptVars, tableVars, openVars, bufferVars, ownerVars>>

\* is_pending_open_stream
Psh ==
  /\ read_loop = "psh"
  /\ LoopAt(IF pending_open_streams[frame.sid].here THEN "store_open" ELSE "dispatch")
  /\ UNCHANGED <<transcript, wire, acceptVars, tableVars, openVars, bufferVars, ownerVars,
                 rejected>>

StoreOpen(s, n) ==
  IF Len(pending_open_streams[s].data) < MaxPendingFrames
  THEN /\ pending_open_streams' = [pending_open_streams EXCEPT ![s].data = Append(@, n)]
       /\ UNCHANGED overflowed
  ELSE overflowed' = overflowed \cup {s} /\ UNCHANGED pending_open_streams

\* A store that trusts the check before it.
StorePendingOpenDataBlind ==
  /\ read_loop = "store_open"
  /\ StoreOpen(frame.sid, frame.n)
  /\ Handled
  /\ UNCHANGED <<transcript, wire, acceptVars, tableVars, pending_inbound_streams, new_streams,
                 channel, pending_data, fin_token, ownerVars, rejected>>

\* store_pending_open_data: over the limit the payload is dropped; without an
\* entry the frame goes the ordinary way.
StorePendingOpenData ==
  /\ read_loop = "store_open"
  /\ IF pending_open_streams[frame.sid].here
     THEN StoreOpen(frame.sid, frame.n) /\ Handled
     ELSE LoopAt("dispatch") /\ UNCHANGED <<pending_open_streams, overflowed>>
  /\ UNCHANGED <<transcript, wire, acceptVars, tableVars, pending_inbound_streams, new_streams,
                 channel, pending_data, fin_token, ownerVars, rejected>>

\* The delivery to a registered stream (in detail: StreamReceive); beyond the
\* frame limit the stream is closed.
Dispatch ==
  /\ read_loop = "dispatch"
  /\ LET s == frame.sid
         direct == pending_data[s] = <<>> /\ Len(channel[s]) < ChannelCapacity
         room == Len(pending_data[s]) < MaxPendingFrames
     IN  \/ /\ streams[s] = "open" /\ direct
            /\ channel' = [channel EXCEPT ![s] = Append(@, frame.n)]
            /\ UNCHANGED <<pending_data, tableVars, closing_streams, overflowed>>
         \/ /\ streams[s] = "open" /\ ~direct /\ room
            /\ pending_data' = [pending_data EXCEPT ![s] = Append(@, frame.n)]
            /\ UNCHANGED <<channel, tableVars, closing_streams, overflowed>>
         \/ /\ streams[s] = "open" /\ ~direct /\ ~room
            /\ Unregister(s)
            /\ pending_data' = [pending_data EXCEPT ![s] = <<>>]
            /\ closing_streams' = closing_streams \cup {s}
            /\ overflowed' = overflowed \cup {s}
            /\ UNCHANGED channel
         \/ /\ streams[s] # "open"
            /\ UNCHANGED <<channel, pending_data, tableVars, closing_streams, overflowed>>
  /\ Handled
  /\ UNCHANGED <<transcript, wire, acceptVars, openVars, fin_token, server_stream, read_closed,
                 rejected>>

\* store_pending_open_fin: the FIN is kept in the entry, and the reservation
\* is given back.
Fin ==
  /\ read_loop = "fin"
  /\ LET e == pending_open_streams[frame.sid] IN
       /\ pending_open_streams' =
            IF e.here THEN [pending_open_streams EXCEPT
                              ![frame.sid].fin = TRUE, ![frame.sid].released = TRUE]
            ELSE pending_open_streams
       /\ CASE e.here /\ e.released -> Handled
            [] e.here /\ ~e.released -> LoopAt("fin_release")
            [] ~e.here -> LoopAt("fin_closing")
  /\ UNCHANGED <<transcript, wire, acceptVars, tableVars, pending_inbound_streams, new_streams,
                 bufferVars, ownerVars, rejected>>

FinRelease ==
  /\ read_loop = "fin_release"
  /\ ReleaseReservation
  /\ Handled
  /\ UNCHANGED <<transcript, wire, acceptVars, tableVars, pending_open_streams, new_streams,
                 bufferVars, ownerVars, rejected>>

\* clear_closing_stream: a FIN that answers a local close.
FinClosing ==
  /\ read_loop = "fin_closing"
  /\ closing_streams' = closing_streams \ {frame.sid}
  /\ IF frame.sid \in closing_streams THEN Handled ELSE LoopAt("fin_stream")
  /\ UNCHANGED <<transcript, wire, acceptVars, tableVars, openVars, bufferVars, server_stream,
                 read_closed, rejected>>

FinStream ==
  /\ read_loop = "fin_stream"
  /\ MarkReadClosed(frame.sid)
  /\ IF streams[frame.sid] = "none" THEN Handled ELSE LoopAt("fin_token")
  /\ UNCHANGED <<transcript, wire, acceptVars, openVars, bufferVars, ownerVars, rejected>>

\* fin_tx.try_send, then a tombstone set meanwhile is cleared if the stream
\* is still registered.
FinToken ==
  /\ read_loop = "fin_token"
  /\ fin_token' = [fin_token EXCEPT ![frame.sid] = TRUE]
  /\ IF streams[frame.sid] = "none" THEN Handled ELSE LoopAt("fin_clear")
  /\ UNCHANGED <<transcript, wire, acceptVars, tableVars, openVars, channel, pending_data,
                 overflowed, ownerVars, rejected>>

FinClear ==
  /\ read_loop = "fin_clear"
  /\ closing_streams' = closing_streams \ {frame.sid}
  /\ Handled
  /\ UNCHANGED <<transcript, wire, acceptVars, tableVars, openVars, bufferVars, server_stream,
                 read_closed, rejected>>

\* The idle timer fires: is_idle_timeout_eligible looks at the active streams
\* (the streams of dropped ServerStreams are gone) ...
IdleActive ==
  /\ MayIdle /\ read_loop = "idle"
  /\ IF capacity_stream_count > 0 THEN LoopAt("idle") ELSE LoopAt("idle_inbound")
  /\ UNCHANGED <<transcript, wire, acceptVars, tableVars, openVars, bufferVars, ownerVars,
                 rejected>>

\* ... at the reservations ...
IdleInbound ==
  /\ read_loop = "idle_inbound"
  /\ LoopAt(IF pending_inbound_streams > 0 THEN "idle" ELSE "idle_open")
  /\ UNCHANGED <<transcript, wire, acceptVars, tableVars, openVars, bufferVars, ownerVars,
                 rejected>>

\* ... and at pending_open_streams.
IdleOpen ==
  /\ read_loop = "idle_open"
  /\ LoopAt(IF \E s \in Sids : pending_open_streams[s].here THEN "idle" ELSE "idle_end")
  /\ UNCHANGED <<transcript, wire, acceptVars, tableVars, openVars, bufferVars, ownerVars,
                 rejected>>

\* The loop ends: idle, at the end of the tunnel, or on an error.
End ==
  /\ \/ read_loop = "idle_end"
     \/ read_loop = "idle" /\ MayEnd
  /\ LoopAt("ending")
  /\ UNCHANGED <<transcript, wire, acceptVars, tableVars, openVars, bufferVars, ownerVars,
                 rejected>>

\* notify_waiters reaches an acceptor that waits in its select!, no other.
NotifyShutdown == woken' = (woken \/ acceptor = "select")

\* force_close
ForceClose ==
  /\ read_loop = "ending"
  /\ NotifyShutdown
  /\ LoopAt("clear_streams")
  /\ UNCHANGED <<transcript, wire, acceptor, sid, batch, fin, delivered_data, tableVars, openVars,
                 bufferVars, ownerVars, rejected>>

ClearStreams ==
  /\ read_loop = "clear_streams"
  /\ streams' = [s \in Sids |-> "none"]
  /\ LoopAt("store_zero")
  /\ UNCHANGED <<transcript, wire, acceptVars, capacity_stream_count, openVars, bufferVars,
                 ownerVars, rejected>>

StoreZero ==
  /\ read_loop = "store_zero"
  /\ capacity_stream_count' = 0
  /\ LoopAt("clear_open")
  /\ UNCHANGED <<transcript, wire, acceptVars, streams, openVars, bufferVars, ownerVars, rejected>>

\* pending_open_streams, pending_data and closing_streams are cleared, and
\* the waiters notified again.
ClearOpen ==
  /\ read_loop = "clear_open"
  /\ pending_open_streams' = [s \in Sids |-> NoEntry]
  /\ LoopAt("clear_data")
  /\ UNCHANGED <<transcript, wire, acceptVars, tableVars, pending_inbound_streams, new_streams,
                 bufferVars, ownerVars, rejected>>

ClearData ==
  /\ read_loop = "clear_data"
  /\ pending_data' = [s \in Sids |-> <<>>]
  /\ closing_streams' = {}
  /\ NotifyShutdown
  /\ LoopAt("down")
  /\ UNCHANGED <<transcript, wire, acceptor, sid, batch, fin, delivered_data, tableVars, openVars,
                 channel, fin_token, overflowed, server_stream, read_closed, rejected>>

ReadLoop ==
  \/ NextFrame \/ Settings \/ Syn \/ LoadActive \/ Reserve \/ Insert \/ Announce \/ RemoveEntry
  \/ Unreserve \/ Reject \/ Psh \/ StorePendingOpenData \/ Dispatch
  \/ Fin \/ FinRelease \/ FinClosing \/ FinStream \/ FinToken \/ FinClear
  \/ IdleInbound \/ IdleOpen
  \/ ForceClose \/ ClearStreams \/ StoreZero \/ ClearOpen \/ ClearData

-----------------------------------------------------------------------------
(* The acceptor. *)

AcceptAt(l) == acceptor' = l /\ UNCHANGED <<sid, batch, fin, delivered_data, woken>>

\* accept_stream enters its select!: from here on a notification reaches it.
AcceptStream ==
  /\ acceptor = "start"
  /\ AcceptAt("select")
  /\ UNCHANGED <<transcript, wire, loopVars, tableVars, openVars, bufferVars, ownerVars, rejected>>

RecvSid ==
  /\ acceptor = "select" /\ new_streams # <<>>
  /\ sid' = Head(new_streams) /\ new_streams' = Tail(new_streams)
  /\ acceptor' = "begin" /\ woken' = FALSE
  /\ UNCHANGED <<transcript, wire, loopVars, batch, fin, delivered_data, tableVars,
                 pending_inbound_streams, pending_open_streams, bufferVars, ownerVars, rejected>>

\* "session shutting down": handle_server_conn returns.
Shutdown ==
  /\ acceptor = "select" /\ woken
  /\ AcceptAt("ended")
  /\ UNCHANGED <<transcript, wire, loopVars, tableVars, openVars, bufferVars, ownerVars, rejected>>

\* begin_accept_pending_stream
BeginAccept ==
  /\ acceptor = "begin"
  /\ AcceptAt(IF pending_open_streams[sid].here THEN "register" ELSE "ended")
  /\ UNCHANGED <<transcript, wire, loopVars, tableVars, openVars, bufferVars, ownerVars, rejected>>

AcceptRegister ==
  /\ acceptor = "register"
  /\ Register(sid)
  /\ AcceptAt("release")
  /\ UNCHANGED <<transcript, wire, loopVars, openVars, bufferVars, ownerVars, rejected>>

\* release_pending_open_reservation, which tells whether it is the first.
AcceptRelease ==
  /\ acceptor = "release"
  /\ LET e == pending_open_streams[sid] IN
       /\ pending_open_streams' = [pending_open_streams EXCEPT ![sid].released = e.here]
       /\ AcceptAt(IF e.here /\ ~e.released THEN "unreserve" ELSE "take")
  /\ UNCHANGED <<transcript, wire, loopVars, tableVars, pending_inbound_streams, new_streams,
                 bufferVars, ownerVars, rejected>>

AcceptUnreserve ==
  /\ acceptor = "unreserve"
  /\ ReleaseReservation
  /\ AcceptAt("take")
  /\ UNCHANGED <<transcript, wire, loopVars, tableVars, pending_open_streams, new_streams,
                 bufferVars, ownerVars, rejected>>

\* The ServerStream is handed to a task of its own; the acceptor starts over.
HandOver(closed) ==
  /\ server_stream' = [server_stream EXCEPT ![sid] = "held"]
  /\ read_closed' = [read_closed EXCEPT ![sid] = closed]
  /\ acceptor' = "start" /\ sid' = 0 /\ batch' = <<>> /\ fin' = FALSE
  /\ delivered_data' = FALSE /\ woken' = FALSE

\* An entry without data is removed although it holds a FIN.
TakeReadyIgnoringFin ==
  /\ acceptor = "take"
  /\ LET e == pending_open_streams[sid] IN
       \/ /\ ~e.here \/ e.data = <<>>
          /\ pending_open_streams' = [pending_open_streams EXCEPT ![sid] = NoEntry]
          /\ HandOver(FALSE)
       \/ /\ e.here /\ e.data # <<>>
          /\ pending_open_streams' =
               [pending_open_streams EXCEPT ![sid].data = <<>>, ![sid].fin = FALSE]
          /\ batch' = e.data /\ fin' = e.fin
          /\ acceptor' = "send"
          /\ UNCHANGED <<sid, delivered_data, woken, server_stream, read_closed>>
  /\ UNCHANGED <<transcript, wire, loopVars, tableVars, pending_inbound_streams, new_streams,
                 bufferVars, closing_streams, rejected>>

\* flush_pending_accept_stream takes what the entry holds; an entry found
\* empty is removed, and from then on frames go to the registered stream.
TakeReady ==
  /\ acceptor = "take"
  /\ LET e == pending_open_streams[sid] IN
       \/ /\ ~e.here \/ (e.data = <<>> /\ ~e.fin)
          /\ pending_open_streams' = [pending_open_streams EXCEPT ![sid] = NoEntry]
          /\ HandOver(FALSE)
       \/ /\ e.here /\ (e.data # <<>> \/ e.fin)
          /\ pending_open_streams' =
               [pending_open_streams EXCEPT ![sid].data = <<>>, ![sid].fin = FALSE]
          /\ batch' = e.data /\ fin' = e.fin
          /\ acceptor' = "send"
          /\ UNCHANGED <<sid, delivered_data, woken, server_stream, read_closed>>
  /\ UNCHANGED <<transcript, wire, loopVars, tableVars, pending_inbound_streams, new_streams,
                 bufferVars, closing_streams, rejected>>

\* The payloads go into the channel while there is room, the rest into
\* pending_data.  Nobody reads either before the stream is handed over.
SendBatch ==
  /\ acceptor = "send"
  /\ LET room == ChannelCapacity - Len(channel[sid])
         n == IF room < Len(batch) THEN room ELSE Len(batch)
     IN  /\ channel' = [channel EXCEPT ![sid] = @ \o SubSeq(batch, 1, n)]
         /\ StorePending(sid, SubSeq(batch, n + 1, Len(batch)))
  /\ delivered_data' = (delivered_data \/ batch # <<>>)
  /\ batch' = <<>>
  /\ acceptor' = IF fin THEN "fin" ELSE "take"
  /\ UNCHANGED <<transcript, wire, loopVars, sid, fin, woken, tableVars, openVars, fin_token,
                 ownerVars, rejected>>

\* A FIN after data half-closes the stream, a FIN alone unregisters it.
AcceptFin ==
  /\ acceptor = "fin"
  /\ fin_token' = [fin_token EXCEPT ![sid] = TRUE]
  /\ IF delivered_data THEN MarkReadClosed(sid) ELSE Unregister(sid)
  /\ AcceptAt("remove")
  /\ UNCHANGED <<transcript, wire, loopVars, openVars, channel, pending_data, overflowed, ownerVars,
                 rejected>>

AcceptRemove ==
  /\ acceptor = "remove"
  /\ pending_open_streams' = [pending_open_streams EXCEPT ![sid] = NoEntry]
  /\ HandOver(TRUE)
  /\ UNCHANGED <<transcript, wire, loopVars, tableVars, pending_inbound_streams, new_streams,
                 bufferVars, closing_streams, rejected>>

Acceptor ==
  \/ AcceptStream \/ RecvSid \/ Shutdown \/ BeginAccept \/ AcceptRegister \/ AcceptRelease
  \/ AcceptUnreserve \/ TakeReady \/ SendBatch \/ AcceptFin \/ AcceptRemove

-----------------------------------------------------------------------------
(* The owner of a stream, handle_server_stream, closes it when its relay has *)
(* ended: finish_closing_stream sets a tombstone, unregisters the stream and *)
(* drops what it had buffered.                                               *)

OwnerAt(s, l) == server_stream' = [server_stream EXCEPT ![s] = l] /\ UNCHANGED read_closed

RememberClosing(s) ==
  /\ server_stream[s] = "held"
  /\ closing_streams' = closing_streams \cup {s}
  /\ OwnerAt(s, "unregister")
  /\ UNCHANGED <<transcript, wire, loopVars, acceptVars, tableVars, openVars, bufferVars, rejected>>

OwnerUnregister(s) ==
  /\ server_stream[s] = "unregister"
  /\ Unregister(s)
  /\ OwnerAt(s, "clear")
  /\ UNCHANGED <<transcript, wire, loopVars, acceptVars, openVars, bufferVars, closing_streams,
                 rejected>>

OwnerClear(s) ==
  /\ server_stream[s] = "clear"
  /\ pending_data' = [pending_data EXCEPT ![s] = <<>>]
  /\ OwnerAt(s, "closed")
  /\ UNCHANGED <<transcript, wire, loopVars, acceptVars, tableVars, openVars, channel, fin_token,
                 overflowed, closing_streams, rejected>>

Owner(s) == RememberClosing(s) \/ OwnerUnregister(s) \/ OwnerClear(s)

Next == ReadLoop \/ IdleActive \/ End \/ Acceptor \/ \E s \in Sids : Owner(s)

Spec == Init /\ [][Next]_vars

\* Tasks that can run do, and a stream's relay ends some time.
Fairness ==
  /\ WF_vars(ReadLoop)
  /\ WF_vars(Acceptor)
  /\ \A s \in Sids : WF_vars(Owner(s))

FairSpec == Spec /\ Fairness

-----------------------------------------------------------------------------
(* Properties. *)

\* The session has not begun to drop its tables.
Up == read_loop \notin {"store_zero", "clear_open", "clear_data", "down"}

\* Every reservation is given back exactly once, whoever gets there first,
\* FIN handler or acceptor: the counter is the number of entries that still
\* own one, plus those in the hands of a task between two steps.  And
\* capacity_stream_count is the number of registered streams that are not
\* read_closed, as its comment says: no path counts a stream down twice.
ReservationsBalanced ==
  Up =>
    /\ pending_inbound_streams =
         Cardinality({s \in Sids : pending_open_streams[s].here
                                   /\ ~pending_open_streams[s].released})
         + (IF read_loop \in {"insert", "unreserve", "fin_release"} THEN 1 ELSE 0)
         + (IF acceptor = "unreserve" THEN 1 ELSE 0)
    /\ capacity_stream_count = Cardinality({s \in Sids : streams[s] = "open"})

Payloads(frames, s) ==
  LET psh == SelectSeq(frames, LAMBDA f : f.cmd = "PSH" /\ f.sid = s)
  IN  [i \in 1 .. Len(psh) |-> psh[i].n]

InHand(s) == IF frame.cmd = "PSH" /\ frame.sid = s THEN <<frame.n>> ELSE <<>>
InBatch(s) == IF sid = s THEN batch ELSE <<>>
InEntry(s) == IF pending_open_streams[s].here THEN pending_open_streams[s].data ELSE <<>>

\* No payload of an admitted stream is lost, duplicated or overtaken while
\* the stream moves from the pre-accept buffer to its channel, as long as
\* both buffers keep within their limits.
Lossless ==
  \A s \in Sids :
    Up /\ s \notin rejected \cup overflowed /\ server_stream[s] \in {"none", "held"} =>
      channel[s] \o pending_data[s] \o InBatch(s) \o InEntry(s) \o InHand(s) \o Payloads(wire, s)
        = Payloads(transcript, s)

FinHandled(s) ==
  LET isFin(f) == f.cmd = "FIN" /\ f.sid = s
  IN  /\ \E i \in DOMAIN transcript : isFin(transcript[i])
      /\ ~\E i \in DOMAIN wire : isFin(wire[i])
      /\ ~isFin(frame)

\* The owner of a stream learns of the peer's FIN, and not before the data
\* that precedes it is in place, wherever in the accept the FIN arrives.  (A
\* stream given up for a full buffer ends with its channel instead.)
FinAfterData ==
  \A s \in Sids :
    Up /\ server_stream[s] = "held" /\ s \notin overflowed =>
      /\ FinHandled(s) => fin_token[s] \/ read_closed[s]
      /\ fin_token[s] \/ read_closed[s] =>
           /\ Payloads(wire, s) = <<>> /\ InHand(s) = <<>>
           /\ ~pending_open_streams[s].here

\* Every stream the client opens is handed to an owner or refused, unless
\* the session ends first.
Served ==
  \A s \in Sids :
    frame.cmd = "SYN" /\ frame.sid = s
      ~> s \in rejected \/ server_stream[s] # "none" \/ read_loop = "down"

\* When the session is over, so is the task that accepts its streams.
AcceptorEnds == read_loop = "down" ~> acceptor = "ended"
=============================================================================
