--------------------------- MODULE StreamReceive ---------------------------
(***************************************************************************)
(* How the frames of one client stream travel from the session read loop   *)
(* to the relay that reads the stream (session.rs handle_frame, stream.rs  *)
(* StreamReadHalf::read and StreamTeardown, relay.rs relay_tcp_client).     *)
(*                                                                         *)
(* The read loop delivers a payload either into the stream's bounded       *)
(* channel or, when that is full or older payloads already wait there,     *)
(* into pending_data, a map behind a mutex that every stream of the        *)
(* session shares.  The reader looks at the channel first and at           *)
(* pending_data second, and only TRIES the mutex.  A FIN travels on a      *)
(* channel of its own.  pending_notify wakes only a reader that has        *)
(* registered, and keeps no permit.                                        *)
(*                                                                         *)
(* Each variable of the code keeps its name; pc-like variables are         *)
(* read_loop and reader.  A step is what the code does between two points  *)
(* where another worker thread can interfere.                              *)
(***************************************************************************)
EXTENDS Naturals, Sequences, SequencesExt, FiniteSets

CONSTANTS
  Transcripts,       \* the frame sequences the peer may send on the stream
  ChannelCapacity,   \* STREAM_CHANNEL_CAPACITY
  MaxPendingFrames,  \* MAX_PENDING_STREAM_FRAMES
  Parallel,          \* TRUE: the runtime has several worker threads
  OtherStreams,      \* TRUE: other streams of the session use pending_data
  EarlyHalfClose,    \* TRUE: the application may shut its side before SYNACK
  MayAbandon         \* TRUE: the local socket may fail under the reader

ASSUME StreamReceiveAssumption ==
  /\ ChannelCapacity \in Nat \ {0}
  /\ MaxPendingFrames \in Nat \ {0}
  /\ {Parallel, OtherStreams, EarlyHalfClose, MayAbandon} \subseteq BOOLEAN
  /\ OtherStreams => Parallel  \* no task keeps the mutex across an await

VARIABLES
  transcript,       \* what the peer sends in all
  wire,             \* frames the read loop has yet to decode
  read_loop,        \* where the read loop is in handle_frame
  frame,            \* the frame in its hands
  quiet,            \* it stores a payload that came before the SYNACK
  batch,            \* payloads flush_client_pending_stream has taken out
  lock,             \* the holder of the pending_data mutex
  registered,       \* the session's handle of the stream exists
  synack_tx,        \* the handle still waits for the SYNACK
  handle_closed,    \* StreamHandle::read_closed
  channel,          \* payloads in the stream's data channel
  pending_data,     \* payloads in pending_data
  pending_fin,      \* the stream is in pending_fin
  fin_token,        \* the fin channel holds its token
  closing,          \* the stream is in closing_streams
  reader,           \* where the reader is in StreamReadHalf::read
  enabled,          \* its Notified future is registered
  woken,            \* and has been notified
  read_closed,      \* StreamReadHalf::read_closed
  popped,           \* try_drain_pending_data has a payload to return
  missed,           \* the reader's last try_lock lost to another stream's task
  delivered,        \* payloads handed to the local application
  write_alive,      \* the write half, with its synack_rx, exists
  cleanup,          \* the task StreamTeardown::half_dropped spawns
  killed            \* the read loop gave the stream up

loopVars == <<read_loop, frame, quiet, batch>>
handleVars == <<registered, synack_tx, handle_closed>>
bufferVars == <<channel, pending_data, pending_fin, fin_token>>
readerVars == <<reader, enabled, woken, read_closed, popped, missed, delivered>>
endVars == <<closing, write_alive, cleanup, killed>>
vars == <<transcript, wire, loopVars, lock, handleVars, bufferVars, readerVars, endVars>>

NoFrame == [cmd |-> "none", n |-> 0]

Init ==
  /\ transcript \in Transcripts
  /\ wire = transcript
  /\ read_loop = "idle" /\ frame = NoFrame /\ quiet = FALSE /\ batch = <<>>
  /\ lock = "free"
  /\ registered = TRUE /\ synack_tx = TRUE /\ handle_closed = FALSE
  /\ channel = <<>> /\ pending_data = <<>> /\ pending_fin = FALSE
  /\ fin_token = FALSE
  /\ closing = FALSE
  /\ reader = "try_recv" /\ enabled = FALSE /\ woken = FALSE
  /\ read_closed = FALSE /\ popped = FALSE /\ missed = FALSE /\ delivered = <<>>
  /\ write_alive = TRUE /\ cleanup = "none" /\ killed = FALSE

\* The channel's receiver lives in the read half.
ReceiverOpen == reader # "dropped"

\* With one worker thread a task is interrupted only where it awaits.
ReaderYields == Parallel \/ reader \in {"try_recv", "select", "eof", "abandoned", "dropped"}
LoopYields == Parallel \/ read_loop = "idle"

\* try_lock on a mutex nobody in this module holds across steps: it fails
\* only while another stream's task is inside it.
TryOutcomes == IF OtherStreams THEN BOOLEAN ELSE {TRUE}

\* notify_waiters: a reader that is not registered misses it.
NotifyWaiters == woken' = (woken \/ enabled)

-----------------------------------------------------------------------------
(* The read loop: handle_frame, one frame at a time. *)

Idle == read_loop' = "idle" /\ frame' = NoFrame /\ quiet' = FALSE /\ batch' = <<>>
LoopAt(l) == read_loop' = l /\ UNCHANGED <<frame, quiet, batch>>

\* unregister_stream_locked and clear_pending_client_stream_state.
RemoveStreamState ==
  /\ registered' = FALSE
  /\ pending_data' = <<>>
  /\ pending_fin' = FALSE

\* CMD_PSH: decide under the streams lock where the payload belongs.
PshDispatch ==
  /\ LoopYields /\ ReaderYields /\ read_loop = "idle"
  /\ wire # <<>> /\ Head(wire).cmd = "PSH"
  /\ wire' = Tail(wire)
  /\ IF ~registered \/ (~synack_tx /\ handle_closed)
     THEN Idle
     ELSE /\ frame' = Head(wire)
          /\ quiet' = synack_tx
          /\ read_loop' = IF synack_tx THEN "store" ELSE "check"
          /\ batch' = <<>>
  /\ UNCHANGED <<transcript, lock, handleVars, bufferVars, readerVars, endVars>>

\* has_pending: a mutex that is taken counts as "older payloads wait".
CheckPending ==
  /\ read_loop = "check" /\ ReaderYields
  /\ IF lock = "free"
     THEN lock' = "read_loop" /\ LoopAt("look")
     ELSE lock' = lock /\ LoopAt("store")
  /\ UNCHANGED <<transcript, wire, handleVars, bufferVars, readerVars, endVars>>

LookPending ==
  /\ read_loop = "look"
  /\ lock' = "free"
  /\ LoopAt(IF pending_data # <<>> THEN "store" ELSE "send")
  /\ UNCHANGED <<transcript, wire, handleVars, bufferVars, readerVars, endVars>>

\* A full channel that loses the payload it could not take.
TrySendLossy ==
  /\ read_loop = "send"
  /\ channel' = IF ReceiverOpen /\ Len(channel) < ChannelCapacity
                THEN Append(channel, frame.n) ELSE channel
  /\ Idle
  /\ UNCHANGED <<transcript, wire, lock, handleVars, pending_data, pending_fin,
                 fin_token, readerVars, endVars>>

\* data_tx.try_send: Ok, Full (store it) or Closed (drop it).
TrySend ==
  /\ read_loop = "send"
  /\ IF ~ReceiverOpen THEN channel' = channel /\ Idle
     ELSE IF Len(channel) < ChannelCapacity
     THEN channel' = Append(channel, frame.n) /\ Idle
     ELSE channel' = channel /\ LoopAt("store")
  /\ UNCHANGED <<transcript, wire, lock, handleVars, pending_data, pending_fin,
                 fin_token, readerVars, endVars>>

\* store_pending_data awaits the mutex.
StoreLock ==
  /\ read_loop = "store" /\ lock = "free"
  /\ lock' = "read_loop"
  /\ LoopAt("push")
  /\ UNCHANGED <<transcript, wire, handleVars, bufferVars, readerVars, endVars>>

\* Within the limits: append.  Over them, close_stream_fire_and_forget; a
\* payload that came before the SYNACK is dropped with no further effect.
StorePush ==
  /\ read_loop = "push"
  /\ lock' = "free"
  /\ \/ /\ Len(pending_data) < MaxPendingFrames
        /\ pending_data' = Append(pending_data, frame.n)
        /\ IF quiet THEN Idle ELSE LoopAt("notify")
        /\ UNCHANGED <<registered, pending_fin, closing, killed>>
     \/ /\ Len(pending_data) >= MaxPendingFrames /\ ~quiet
        /\ RemoveStreamState
        /\ closing' = TRUE /\ killed' = TRUE
        /\ Idle
     \/ /\ Len(pending_data) >= MaxPendingFrames /\ quiet
        /\ Idle
        /\ UNCHANGED <<registered, pending_data, pending_fin, closing, killed>>
  /\ UNCHANGED <<transcript, wire, synack_tx, handle_closed, channel, fin_token,
                 readerVars, write_alive, cleanup>>

Notify ==
  /\ read_loop = "notify"
  /\ NotifyWaiters
  /\ Idle
  /\ UNCHANGED <<transcript, wire, lock, handleVars, bufferVars, reader, enabled,
                 read_closed, popped, missed, delivered, endVars>>

\* CMD_FIN before the SYNACK: the open fails and the FIN is parked in
\* pending_fin (a second step, after the streams lock is released).
FinBeforeSynack ==
  /\ LoopYields /\ ReaderYields /\ read_loop = "idle"
  /\ wire # <<>> /\ Head(wire).cmd = "FIN" /\ registered /\ synack_tx
  /\ wire' = Tail(wire)
  /\ synack_tx' = FALSE
  /\ read_loop' = "store_fin" /\ frame' = Head(wire) /\ UNCHANGED <<quiet, batch>>
  /\ UNCHANGED <<transcript, lock, registered, handle_closed, bufferVars, readerVars, endVars>>

StorePendingFin ==
  /\ read_loop = "store_fin"
  /\ pending_fin' = TRUE
  /\ Idle
  /\ UNCHANGED <<transcript, wire, lock, handleVars, channel, pending_data, fin_token,
                 readerVars, endVars>>

\* A FIN that marks the handle and tells the reader nothing.
FinUntold ==
  /\ LoopYields /\ ReaderYields /\ read_loop = "idle"
  /\ wire # <<>> /\ Head(wire).cmd = "FIN" /\ ~(registered /\ synack_tx)
  /\ wire' = Tail(wire)
  /\ handle_closed' = (handle_closed \/ (~closing /\ registered))
  /\ closing' = FALSE
  /\ UNCHANGED <<transcript, loopVars, lock, registered, synack_tx, bufferVars, readerVars,
                 write_alive, cleanup, killed>>

\* CMD_FIN otherwise: forget the tombstone of a closed stream, or mark the
\* handle and put the token in the fin channel; unknown streams are ignored.
Fin ==
  /\ LoopYields /\ ReaderYields /\ read_loop = "idle"
  /\ wire # <<>> /\ Head(wire).cmd = "FIN" /\ ~(registered /\ synack_tx)
  /\ wire' = Tail(wire)
  /\ IF ~closing /\ registered
     THEN handle_closed' = TRUE /\ fin_token' = TRUE
     ELSE UNCHANGED <<handle_closed, fin_token>>
  /\ closing' = FALSE
  /\ UNCHANGED <<transcript, loopVars, lock, registered, synack_tx, channel, pending_data,
                 pending_fin, readerVars, write_alive, cleanup, killed>>

\* CMD_SYNACK, accepting or rejecting: hand it to the write half.  When that
\* is gone the stream's state is removed; otherwise what came early is flushed.
Synack ==
  /\ LoopYields /\ ReaderYields /\ read_loop = "idle" /\ lock = "free"
  /\ wire # <<>> /\ Head(wire).cmd \in {"SYNACK", "REJECT"}
  /\ wire' = Tail(wire)
  /\ synack_tx' = FALSE
  /\ IF registered /\ synack_tx /\ ~write_alive
     THEN RemoveStreamState /\ Idle
     ELSE /\ UNCHANGED <<registered, pending_data, pending_fin>>
          /\ read_loop' = IF registered /\ synack_tx /\ pending_data # <<>>
                          THEN "take" ELSE "idle"
          /\ UNCHANGED <<frame, quiet, batch>>
  /\ UNCHANGED <<transcript, lock, handle_closed, channel, fin_token, readerVars, endVars>>

\* flush_client_pending_stream.  Its pending_fin half never runs: a FIN that
\* reached pending_fin took synack_tx, so no SYNACK leads here afterwards.
FlushTake ==
  /\ read_loop = "take" /\ lock = "free"
  /\ IF registered
     THEN /\ batch' = pending_data /\ pending_data' = <<>>
          /\ read_loop' = "flush" /\ UNCHANGED <<frame, quiet>>
     ELSE Idle /\ pending_data' = pending_data
  /\ UNCHANGED <<transcript, wire, lock, handleVars, channel, pending_fin, fin_token,
                 readerVars, endVars>>

FlushSend ==
  /\ read_loop = "flush" /\ ReceiverOpen
  /\ IF batch = <<>> THEN Idle /\ channel' = channel
     ELSE IF Len(channel) < ChannelCapacity
     THEN /\ channel' = Append(channel, Head(batch))
          /\ batch' = Tail(batch)
          /\ UNCHANGED <<read_loop, frame, quiet>>
     ELSE LoopAt("rest") /\ channel' = channel
  /\ UNCHANGED <<transcript, wire, lock, handleVars, pending_data, pending_fin, fin_token,
                 readerVars, endVars>>

FlushRest ==
  /\ read_loop = "rest" /\ lock = "free"
  /\ pending_data' = pending_data \o batch /\ batch' = <<>>
  /\ read_loop' = "notify" /\ UNCHANGED <<frame, quiet>>
  /\ UNCHANGED <<transcript, wire, lock, handleVars, channel, pending_fin, fin_token,
                 readerVars, endVars>>

\* The receiver went away under the flush.
FlushClosed ==
  /\ read_loop = "flush" /\ ~ReceiverOpen /\ lock = "free"
  /\ IF batch = <<>> THEN UNCHANGED <<registered, pending_data, pending_fin, closing, killed>>
     ELSE RemoveStreamState /\ closing' = TRUE /\ killed' = TRUE
  /\ Idle
  /\ UNCHANGED <<transcript, wire, lock, synack_tx, handle_closed, channel, fin_token,
                 readerVars, write_alive, cleanup>>

ReadLoop ==
  \/ PshDispatch \/ CheckPending \/ LookPending \/ TrySend \/ StoreLock \/ StorePush
  \/ Notify \/ FinBeforeSynack \/ StorePendingFin \/ Fin \/ Synack
  \/ FlushTake \/ FlushSend \/ FlushRest \/ FlushClosed

-----------------------------------------------------------------------------
(* The reader: the loop of relay_tcp_client around StreamReadHalf::read. *)

\* read returns a payload, the application gets it, and read is called again.
Return(p) ==
  /\ delivered' = Append(delivered, p)
  /\ reader' = "try_recv" /\ enabled' = FALSE /\ woken' = FALSE

ReaderAt(r) == reader' = r /\ UNCHANGED <<enabled, woken, delivered>>

\* The future of select! is dropped and the loop of read starts again.
Again == reader' = "try_recv" /\ enabled' = FALSE /\ woken' = FALSE /\ UNCHANGED delivered

TryRecv ==
  /\ reader = "try_recv" /\ LoopYields
  /\ IF channel # <<>> THEN Return(Head(channel)) /\ channel' = Tail(channel)
     ELSE ReaderAt("enable") /\ channel' = channel
  /\ UNCHANGED <<transcript, wire, loopVars, lock, handleVars, pending_data, pending_fin,
                 fin_token, read_closed, popped, missed, endVars>>

\* Looking at pending_data without having registered.
EnableForgotten ==
  /\ reader = "enable"
  /\ ReaderAt("try_drain")
  /\ UNCHANGED <<transcript, wire, loopVars, lock, handleVars, bufferVars, read_closed,
                 popped, missed, endVars>>

\* Register with pending_notify before looking at pending_data.
Enable ==
  /\ reader = "enable"
  /\ reader' = "try_drain" /\ enabled' = TRUE /\ woken' = FALSE
  /\ UNCHANGED <<transcript, wire, loopVars, lock, handleVars, bufferVars, read_closed,
                 popped, missed, delivered, endVars>>

\* try_drain_pending_data: a mutex that is taken reads as "nothing there".
TryDrain ==
  /\ reader = "try_drain"
  /\ IF lock = "free" THEN lock' = "reader" /\ ReaderAt("drain")
     ELSE lock' = lock /\ ReaderAt("check_closed")
  /\ missed' = (lock = "other")
  /\ UNCHANGED <<transcript, wire, loopVars, handleVars, bufferVars, read_closed, popped,
                 endVars>>

Drain ==
  /\ reader = "drain"
  /\ lock' = "free"
  /\ IF pending_data = <<>>
     THEN ReaderAt("take_fin") /\ popped' = FALSE /\ pending_data' = pending_data
     ELSE /\ pending_data' = Tail(pending_data)
          /\ IF Len(pending_data) = 1
             THEN /\ reader' = "take_fin" /\ popped' = TRUE
                  /\ delivered' = Append(delivered, Head(pending_data))
                  /\ UNCHANGED <<enabled, woken>>
             ELSE Return(Head(pending_data)) /\ popped' = FALSE
  /\ UNCHANGED <<transcript, wire, loopVars, handleVars, channel, pending_fin, fin_token,
                 read_closed, missed, endVars>>

\* take_queued_pending_fin, after the payload that emptied the queue or
\* after finding it empty.
TakeQueuedPendingFin ==
  /\ reader = "take_fin"
  /\ \E ok \in TryOutcomes :
       /\ read_closed' = (read_closed \/ (ok /\ pending_fin))
       /\ pending_fin' = (pending_fin /\ ~ok)
  /\ popped' = FALSE
  /\ IF popped THEN Again ELSE ReaderAt("check_closed")
  /\ UNCHANGED <<transcript, wire, loopVars, lock, handleVars, channel, pending_data,
                 fin_token, missed, endVars>>

CheckClosed ==
  /\ reader = "check_closed"
  /\ IF read_closed THEN reader' = "eof" /\ enabled' = FALSE /\ woken' = FALSE /\ delivered' = delivered
     ELSE ReaderAt("select")
  /\ UNCHANGED <<transcript, wire, loopVars, lock, handleVars, bufferVars, read_closed,
                 popped, missed, endVars>>

\* select!, the three arms.  Both channels also report that their senders
\* are gone: the handle's, and the clone the read loop holds while it sends.
SendersGone == ~registered /\ (read_loop \in {"idle", "store_fin"} \/ quiet)

SelectData ==
  /\ reader = "select" /\ LoopYields
  /\ \/ channel # <<>> /\ Return(Head(channel)) /\ channel' = Tail(channel)
     \/ /\ channel = <<>> /\ SendersGone
        /\ reader' = "eof" /\ enabled' = FALSE /\ woken' = FALSE
        /\ UNCHANGED <<delivered, channel>>
  /\ UNCHANGED <<transcript, wire, loopVars, lock, handleVars, pending_data, pending_fin,
                 fin_token, read_closed, popped, missed, endVars>>

SelectNotified ==
  /\ reader = "select" /\ LoopYields /\ woken
  /\ Again
  /\ UNCHANGED <<transcript, wire, loopVars, lock, handleVars, bufferVars, read_closed,
                 popped, missed, endVars>>

\* The FIN ends the read at once, whatever is still queued.
SelectFinAtOnce ==
  /\ reader = "select" /\ LoopYields
  /\ fin_token \/ SendersGone
  /\ fin_token' = FALSE
  /\ read_closed' = TRUE
  /\ reader' = "eof" /\ enabled' = FALSE /\ woken' = FALSE /\ UNCHANGED delivered
  /\ UNCHANGED <<transcript, wire, loopVars, lock, handleVars, channel, pending_data,
                 pending_fin, popped, missed, endVars>>

SelectFin ==
  /\ reader = "select" /\ LoopYields
  /\ fin_token \/ SendersGone
  /\ fin_token' = FALSE
  /\ read_closed' = TRUE
  /\ Again
  /\ UNCHANGED <<transcript, wire, loopVars, lock, handleVars, channel, pending_data,
                 pending_fin, popped, missed, endVars>>

Read ==
  \/ TryRecv \/ Enable \/ TryDrain \/ Drain \/ TakeQueuedPendingFin \/ CheckClosed
  \/ SelectData \/ SelectNotified \/ SelectFin

-----------------------------------------------------------------------------
(* The end of the stream. *)

\* local_writer.write_all fails: the relay stops reading.
AbandonRead ==
  /\ MayAbandon /\ reader = "try_recv" /\ delivered # <<>> /\ LoopYields
  /\ ReaderAt("abandoned")
  /\ UNCHANGED <<transcript, wire, loopVars, lock, handleVars, bufferVars, read_closed,
                 popped, missed, endVars>>

\* The upstream task ends (local EOF, or an error) and drops the write half.
DropWriteHalf ==
  /\ write_alive /\ (EarlyHalfClose \/ ~synack_tx)
  /\ ReaderYields /\ LoopYields
  /\ write_alive' = FALSE
  /\ UNCHANGED <<transcript, wire, loopVars, lock, handleVars, bufferVars, readerVars,
                 closing, cleanup, killed>>

\* The relay returns once both directions ended and drops the read half:
\* Drop for StreamReadHalf and, as it is the last half, half_dropped.
DropReadHalf ==
  /\ reader \in {"eof", "abandoned"} /\ ~write_alive /\ LoopYields
  /\ reader' = "dropped"
  /\ channel' = <<>> /\ fin_token' = FALSE
  /\ closing' = TRUE
  /\ \E ok \in TryOutcomes : handle_closed' = (handle_closed \/ ok)
  /\ pending_data' = IF lock = "free" THEN <<>> ELSE pending_data
  /\ \E ok \in TryOutcomes : pending_fin' = (pending_fin /\ ~ok)
  /\ cleanup' = "unregister"
  /\ UNCHANGED <<transcript, wire, loopVars, lock, registered, synack_tx, enabled, woken,
                 read_closed, popped, missed, delivered, write_alive, killed>>

CleanupUnregister ==
  /\ cleanup = "unregister" /\ LoopYields
  /\ registered' = FALSE
  /\ cleanup' = "clear"
  /\ UNCHANGED <<transcript, wire, loopVars, lock, synack_tx, handle_closed, bufferVars,
                 readerVars, closing, write_alive, killed>>

CleanupClear ==
  /\ cleanup = "clear" /\ LoopYields /\ lock = "free"
  /\ pending_data' = <<>> /\ pending_fin' = FALSE
  /\ cleanup' = "done"
  /\ UNCHANGED <<transcript, wire, loopVars, lock, handleVars, channel, fin_token,
                 readerVars, closing, write_alive, killed>>

\* Tasks of other streams inside the pending_data mutex.
OtherLock ==
  /\ OtherStreams /\ lock = "free" /\ lock' = "other"
  /\ UNCHANGED <<transcript, wire, loopVars, handleVars, bufferVars, readerVars, endVars>>

OtherUnlock ==
  /\ lock = "other" /\ lock' = "free"
  /\ UNCHANGED <<transcript, wire, loopVars, handleVars, bufferVars, readerVars, endVars>>

Next ==
  \/ ReadLoop \/ Read
  \/ AbandonRead \/ DropWriteHalf \/ DropReadHalf \/ CleanupUnregister \/ CleanupClear
  \/ OtherLock \/ OtherUnlock

Spec == Init /\ [][Next]_vars

\* Every task that can run is run; the mutex is fair, so the store of the
\* read loop is not passed over for ever.
Fairness ==
  /\ WF_vars(ReadLoop) /\ SF_vars(StoreLock \/ Synack \/ FlushTake \/ FlushRest)
  /\ WF_vars(Read) /\ WF_vars(OtherUnlock)

FairSpec == Spec /\ Fairness
-----------------------------------------------------------------------------
(* Properties. *)

Payloads(frames) == LET psh == SelectSeq(frames, LAMBDA f : f.cmd = "PSH")
                    IN  [i \in DOMAIN psh |-> psh[i].n]

\* Payloads ahead of the SYNACK, or of the end, that no buffer can hold.
EarlyOverflow ==
  \E i \in DOMAIN transcript :
    /\ i > MaxPendingFrames
    /\ \A j \in 1..i : transcript[j].cmd = "PSH"

LoopPCs == {"idle", "check", "look", "send", "store", "push", "notify", "store_fin",
            "take", "flush", "rest"}
ReaderPCs == {"try_recv", "enable", "try_drain", "drain", "take_fin", "check_closed",
              "select", "eof", "abandoned", "dropped"}

\* Types, the capacity of the channel and the limit of pending_data; only
\* the remainder of a flush is put back without a look at the limit.
TypeOK ==
  /\ read_loop \in LoopPCs /\ reader \in ReaderPCs
  /\ lock \in {"free", "read_loop", "reader", "other"}
  /\ cleanup \in {"none", "unregister", "clear", "done"}
  /\ {quiet, registered, synack_tx, handle_closed, pending_fin, fin_token, closing, enabled,
      woken, read_closed, popped, missed, write_alive, killed} \subseteq BOOLEAN
  /\ \A q \in {channel, pending_data, batch, delivered} :
       q \in Seq(ToSet(Payloads(transcript)))
  /\ IsSuffix(wire, transcript)
  /\ Len(channel) <= ChannelCapacity
  /\ Len(pending_data) <= MaxPendingFrames

\* The application gets the payloads of a stream in the order in which the
\* peer sent them (handle_frame sends to pending_data what would otherwise
\* overtake it, and the reader empties the channel first).
InOrder == \A i, j \in DOMAIN delivered : i < j => delivered[i] < delivered[j]

InHand == IF frame.cmd = "PSH" /\ read_loop # "notify" THEN <<frame.n>> ELSE <<>>

Places == delivered \o channel \o batch \o pending_data \o InHand \o Payloads(wire)

\* Between the wire, the read loop's hands, the two queues and the
\* application no payload is duplicated, and none is lost while the stream
\* is neither given up nor dropped.
Lossless ==
  /\ IsInjective(Places)
  /\ \/ ToSet(Places) = ToSet(Payloads(transcript))
     \/ killed \/ EarlyOverflow \/ reader = "dropped"

\* When read reports the end of the stream, the application has all that
\* the peer sent, unless the stream was given up for a full buffer.  The one
\* other way to an early end is try_drain_pending_data finding the mutex in
\* the hands of another stream's task.
EofComplete ==
  reader = "eof" => \/ ToSet(delivered) = ToSet(Payloads(transcript))
                    \/ killed \/ EarlyOverflow \/ missed

\* A FIN that the read loop has passed on to the reader ends the read.
FinReachesReader == handle_closed ~> reader \in {"eof", "abandoned", "dropped"}

\* Every payload reaches the application in the end, unless that stops
\* reading, the stream is given up, or the reader's last try_lock was lost to
\* another stream: no notification between the check of the channel and the
\* wait is missed.
PayloadsArrive ==
  <>[](\/ ToSet(delivered) = ToSet(Payloads(transcript))
       \/ killed \/ EarlyOverflow \/ missed \/ reader \in {"abandoned", "dropped"})
============================================================================
