---------------------------- MODULE FlowControl ----------------------------
(***************************************************************************)
(* One direction of the session's H2-like flow control (WindowState in     *)
(* crates/session/src/session/window.rs): the sender's two-level credit    *)
(* gate, and the receiver's accounting that turns received and consumed    *)
(* bytes into WINDOW_UPDATE (WU) frames.                                   *)
(*                                                                         *)
(* A stream has one writer task.  Every atomic access acquire_credit makes *)
(* is a step of its own, because writers of different streams and the read *)
(* loop run on different threads.  PSH and WU frames in flight are kept as *)
(* the bytes they carry.  The streams stay registered at the sender.       *)
(***************************************************************************)
EXTENDS Integers, FiniteSets, Functions

CONSTANTS
  Streams,          \* the streams of the session
  ConnWindow,       \* connection window, 8 * ConnThreshold in the code
  ConnThreshold,    \* conn_wu_threshold
  StreamWindow,     \* stream_window
  StreamThreshold,  \* stream_wu_threshold, an eighth of the stream window
  WriteSizes,       \* lengths a caller passes to write_data
  MaxBytes,         \* bound: bytes a stream's writer ever submits
  MaxQueueFull,     \* bound: how often the control queue is full for a WU
  MayClose          \* whether the session may be closed

ASSUME FlowControlAssumption ==
  /\ ConnWindow \in Nat /\ ConnThreshold \in Nat \ {0}
  /\ StreamWindow \in Nat /\ StreamThreshold \in Nat \ {0}
  /\ WriteSizes \subseteq Nat \ {0}
  /\ MaxBytes \in Nat /\ MaxQueueFull \in Nat
  /\ MayClose \in BOOLEAN

VARIABLES
  peer_flow_control,         \* the peer's SETTINGS carried fc=1
  closed,                    \* writer.is_closed()
  conn_credit,               \* sender: connection-level balance
  send_credit,               \* sender: per-stream balance
  pc, len, seen,             \* each writer's place in acquire_credit, its
                             \* request, and the balance it loaded
  woken,                     \* a notify_waiters hit the writer's Notified
  wire,                      \* bytes of PSH frames in flight, per stream
  buffered,                  \* receiver: delivered to the stream, unconsumed
  read_closed,               \* receiver: the stream drops what arrives
  conn_consumed_since_wu,    \* receiver
  stream_consumed_since_wu,  \* receiver
  conn_wu, stream_wu,        \* bytes of credit in WU frames in flight
  submitted,                 \* history: bytes submitted per stream
  uncharged,                 \* history: bytes that bypassed the gate
  dropped,                   \* history: bytes discarded at the receiver
  queue_full                 \* times the control queue was full so far

writerVars == <<pc, len, seen, woken>>
creditVars == <<conn_credit, send_credit>>
receiverVars == <<buffered, read_closed, conn_consumed_since_wu,
                  stream_consumed_since_wu, dropped, queue_full>>
wuVars == <<conn_wu, stream_wu>>
modeVars == <<peer_flow_control, closed>>
dataVars == <<wire, submitted, uncharged>>
vars == <<writerVars, creditVars, receiverVars, wuVars, modeVars, dataVars>>

PCs == {"idle", "check", "load_conn", "cas_conn", "load_stream",
        "cas_stream", "rollback", "park", "submit"}

Init ==
  /\ peer_flow_control = FALSE
  /\ closed = FALSE
  /\ conn_credit = ConnWindow
  /\ send_credit = [s \in Streams |-> StreamWindow]
  /\ pc = [s \in Streams |-> "idle"]
  /\ len = [s \in Streams |-> 0]
  /\ seen = [s \in Streams |-> 0]
  /\ woken = [s \in Streams |-> FALSE]
  /\ wire = [s \in Streams |-> 0]
  /\ buffered = [s \in Streams |-> 0]
  /\ read_closed = [s \in Streams |-> FALSE]
  /\ conn_consumed_since_wu = 0
  /\ stream_consumed_since_wu = [s \in Streams |-> 0]
  /\ conn_wu = 0
  /\ stream_wu = [s \in Streams |-> 0]
  /\ submitted = [s \in Streams |-> 0]
  /\ uncharged = [s \in Streams |-> 0]
  /\ dropped = [s \in Streams |-> 0]
  /\ queue_full = 0

-----------------------------------------------------------------------------
(* The sender's gate. *)

Goto(s, label) == pc' = [pc EXCEPT ![s] = label]

\* write_data: without fc the gate is bypassed and the bytes are submitted.
WriteData(s, n) ==
  /\ pc[s] = "idle"
  /\ ~closed
  /\ submitted[s] + n <= MaxBytes
  /\ len' = [len EXCEPT ![s] = n]
  /\ submitted' = [submitted EXCEPT ![s] = @ + n]
  /\ IF peer_flow_control
     THEN Goto(s, "check") /\ UNCHANGED uncharged
     ELSE Goto(s, "submit") /\ uncharged' = [uncharged EXCEPT ![s] = @ + n]
  /\ UNCHANGED <<seen, woken, wire, creditVars, receiverVars, wuVars, modeVars>>

\* The writers whose Notified futures are registered.
Enabled(s) ==
  pc[s] \in {"load_conn", "cas_conn", "load_stream", "cas_stream", "rollback", "park"}

\* Top of the loop: a closed writer lets the caller through; otherwise both
\* Notified futures are enabled before any balance is read.
CheckAndEnable(s) ==
  /\ pc[s] = "check"
  /\ IF closed THEN Goto(s, "submit") ELSE Goto(s, "load_conn")
  /\ UNCHANGED <<len, seen, woken, creditVars, receiverVars, wuVars, modeVars, dataVars>>

LoadConn(s) ==
  /\ pc[s] = "load_conn"
  /\ IF conn_credit >= len[s]
     THEN Goto(s, "cas_conn") /\ seen' = [seen EXCEPT ![s] = conn_credit]
     ELSE Goto(s, "park") /\ UNCHANGED seen
  /\ UNCHANGED <<len, woken, creditVars, receiverVars, wuVars, modeVars, dataVars>>

\* A single compare_exchange: losing the race parks the writer.
CasConn(s) ==
  /\ pc[s] = "cas_conn"
  /\ IF conn_credit = seen[s]
     THEN conn_credit' = conn_credit - len[s] /\ Goto(s, "load_stream")
     ELSE UNCHANGED conn_credit /\ Goto(s, "park")
  /\ seen' = [seen EXCEPT ![s] = 0]
  /\ UNCHANGED <<len, woken, send_credit, receiverVars, wuVars, modeVars,
                 dataVars>>

\* A slip: the stream-level balance is not compared with the request.
LoadStreamUnchecked(s) ==
  /\ pc[s] = "load_stream"
  /\ seen' = [seen EXCEPT ![s] = send_credit[s]]
  /\ Goto(s, "cas_stream")
  /\ UNCHANGED <<len, woken, creditVars, receiverVars, wuVars, modeVars, dataVars>>

LoadStream(s) ==
  /\ pc[s] = "load_stream"
  /\ IF send_credit[s] >= len[s]
     THEN Goto(s, "cas_stream") /\ seen' = [seen EXCEPT ![s] = send_credit[s]]
     ELSE Goto(s, "rollback") /\ UNCHANGED seen
  /\ UNCHANGED <<len, woken, creditVars, receiverVars, wuVars, modeVars, dataVars>>

CasStream(s) ==
  /\ pc[s] = "cas_stream"
  /\ IF send_credit[s] = seen[s]
     THEN send_credit' = [send_credit EXCEPT ![s] = @ - len[s]] /\ Goto(s, "submit")
     ELSE UNCHANGED send_credit /\ Goto(s, "rollback")
  /\ seen' = [seen EXCEPT ![s] = 0]
  /\ UNCHANGED <<len, woken, conn_credit, receiverVars, wuVars, modeVars,
                 dataVars>>

\* A slip: a failed second stage keeps the connection-level deduction.
RollbackForgotten(s) ==
  /\ pc[s] = "rollback"
  /\ Goto(s, "park")
  /\ UNCHANGED <<len, seen, woken, creditVars, receiverVars, wuVars, modeVars,
                 dataVars>>

\* The rollback wakes nobody.
Rollback(s) ==
  /\ pc[s] = "rollback"
  /\ conn_credit' = conn_credit + len[s]
  /\ Goto(s, "park")
  /\ UNCHANGED <<len, seen, woken, send_credit, receiverVars, wuVars, modeVars,
                 dataVars>>

Wake(s) ==
  /\ pc[s] = "park"
  /\ woken[s]
  /\ Goto(s, "check")
  /\ woken' = [woken EXCEPT ![s] = FALSE]
  /\ UNCHANGED <<len, seen, creditVars, receiverVars, wuVars, modeVars,
                 dataVars>>

\* The encoded frames go to the writer; a closed one reports an error.
Submit(s) ==
  /\ pc[s] = "submit"
  /\ Goto(s, "idle")
  /\ wire' = IF closed THEN wire ELSE [wire EXCEPT ![s] = @ + len[s]]
  /\ len' = [len EXCEPT ![s] = 0]
  /\ woken' = [woken EXCEPT ![s] = FALSE]
  /\ UNCHANGED <<seen, submitted, uncharged, creditVars,
                 receiverVars, wuVars, modeVars>>

\* fetch_add, then notify_waiters on credit_notify: every enabled writer.
AddConnCredit(n) ==
  /\ n <= conn_wu
  /\ conn_wu' = conn_wu - n
  /\ conn_credit' = conn_credit + n
  /\ woken' = [s \in Streams |-> woken[s] \/ Enabled(s)]
  /\ UNCHANGED <<pc, len, seen, send_credit, stream_wu, receiverVars, modeVars,
                 dataVars>>

\* A slip: stream credit arrives without waking the stream's writer.
AddStreamCreditSilently(s, n) ==
  /\ n <= stream_wu[s]
  /\ stream_wu' = [stream_wu EXCEPT ![s] = @ - n]
  /\ send_credit' = [send_credit EXCEPT ![s] = @ + n]
  /\ UNCHANGED <<pc, len, seen, woken, conn_credit, conn_wu, receiverVars,
                 modeVars, dataVars>>

\* The same for one stream's balance and its pending_notify.
AddStreamCredit(s, n) ==
  /\ n <= stream_wu[s]
  /\ stream_wu' = [stream_wu EXCEPT ![s] = @ - n]
  /\ send_credit' = [send_credit EXCEPT ![s] = @ + n]
  /\ woken' = [woken EXCEPT ![s] = @ \/ Enabled(s)]
  /\ UNCHANGED <<pc, len, seen, conn_credit, conn_wu, receiverVars, modeVars,
                 dataVars>>

\* First SETTINGS with fc=1.
SetPeerFlowControl ==
  /\ ~peer_flow_control
  /\ peer_flow_control' = TRUE
  /\ UNCHANGED <<closed, writerVars, creditVars, receiverVars, wuVars, dataVars>>

\* writer.close() sets the flag and wakes the writer task only: neither
\* credit_notify nor a stream's pending_notify is signalled.
CloseWriter ==
  /\ MayClose /\ ~closed
  /\ closed' = TRUE
  /\ UNCHANGED <<peer_flow_control, writerVars, creditVars, receiverVars, wuVars,
                 dataVars>>

-----------------------------------------------------------------------------
(* The receiver's accounting. *)

\* send_window_update: whether the WU of a total that crossed its threshold
\* was queued.  A full control queue leaves the total to a later call.
SendWindowUpdate(crossed, sent) ==
  /\ sent => crossed
  /\ crossed /\ ~sent => queue_full < MaxQueueFull
  /\ queue_full' = IF crossed /\ ~sent THEN queue_full + 1 ELSE queue_full

\* A slip: the counter is reset whether or not the WU could be queued.
NoteConnReceivedLossy(n) ==
  LET total == conn_consumed_since_wu + n
      crossed == total >= ConnThreshold
  IN  \E sent \in BOOLEAN :
        /\ SendWindowUpdate(crossed, sent)
        /\ conn_consumed_since_wu' = IF crossed THEN 0 ELSE total
        /\ conn_wu' = IF sent THEN conn_wu + total ELSE conn_wu

\* bump_conn_consumed with the reset, or the restore when no WU was queued.
NoteConnReceived(n) ==
  LET total == conn_consumed_since_wu + n
      crossed == total >= ConnThreshold
  IN  \E sent \in BOOLEAN :
        /\ SendWindowUpdate(crossed, sent)
        /\ conn_consumed_since_wu' = IF sent THEN 0 ELSE total
        /\ conn_wu' = IF sent THEN conn_wu + total ELSE conn_wu

\* A PSH frame reaches the read loop; a half-closed stream discards it.
ReceivePsh(s, n) ==
  /\ n <= wire[s]
  /\ wire' = [wire EXCEPT ![s] = @ - n]
  /\ NoteConnReceived(n)
  /\ IF read_closed[s]
     THEN dropped' = [dropped EXCEPT ![s] = @ + n] /\ UNCHANGED buffered
     ELSE buffered' = [buffered EXCEPT ![s] = @ + n] /\ UNCHANGED dropped
  /\ UNCHANGED <<read_closed, stream_consumed_since_wu, stream_wu, submitted,
                 uncharged, writerVars, creditVars, modeVars>>

\* A slip: the consumed bytes replace the running total.
NoteConsumedOverwrite(s, n) ==
  /\ n <= buffered[s]
  /\ buffered' = [buffered EXCEPT ![s] = @ - n]
  /\ \E sent \in BOOLEAN :
       /\ SendWindowUpdate(n >= StreamThreshold, sent)
       /\ stream_consumed_since_wu' =
            [stream_consumed_since_wu EXCEPT ![s] = IF sent THEN 0 ELSE n]
       /\ stream_wu' = IF sent THEN [stream_wu EXCEPT ![s] = @ + n] ELSE stream_wu
  /\ UNCHANGED <<read_closed, conn_consumed_since_wu, dropped, conn_wu,
                 writerVars, creditVars, modeVars, dataVars>>

\* The relay delivered n bytes to its application.
NoteConsumed(s, n) ==
  LET total == stream_consumed_since_wu[s] + n
      crossed == total >= StreamThreshold
  IN  /\ n <= buffered[s]
      /\ buffered' = [buffered EXCEPT ![s] = @ - n]
      /\ \E sent \in BOOLEAN :
           /\ SendWindowUpdate(crossed, sent)
           /\ stream_consumed_since_wu' =
                [stream_consumed_since_wu EXCEPT ![s] = IF sent THEN 0 ELSE total]
           /\ stream_wu' = IF sent THEN [stream_wu EXCEPT ![s] = @ + total]
                                   ELSE stream_wu
      /\ UNCHANGED <<read_closed, conn_consumed_since_wu, dropped, conn_wu,
                     writerVars, creditVars, modeVars, dataVars>>

\* The receiving half goes away with what it had not consumed.
CloseRead(s) ==
  /\ MayClose /\ ~read_closed[s]
  /\ read_closed' = [read_closed EXCEPT ![s] = TRUE]
  /\ dropped' = [dropped EXCEPT ![s] = @ + buffered[s]]
  /\ buffered' = [buffered EXCEPT ![s] = 0]
  /\ UNCHANGED <<conn_consumed_since_wu, stream_consumed_since_wu, queue_full,
                 wuVars, writerVars, creditVars, modeVars, dataVars>>

-----------------------------------------------------------------------------
\* Bound: the amounts a frame or a WU carries.
Quanta == 1 .. (MaxBytes * (Cardinality(Streams) + 1))

AcquireStep(s) ==
  \/ CheckAndEnable(s) \/ LoadConn(s) \/ CasConn(s) \/ LoadStream(s)
  \/ CasStream(s) \/ Rollback(s) \/ Wake(s)

Next ==
  \/ \E s \in Streams, n \in WriteSizes : WriteData(s, n)
  \/ \E s \in Streams : AcquireStep(s) \/ Submit(s) \/ CloseRead(s)
  \/ \E n \in Quanta : AddConnCredit(n)
  \/ \E s \in Streams, n \in Quanta :
       AddStreamCredit(s, n) \/ ReceivePsh(s, n) \/ NoteConsumed(s, n)
  \/ SetPeerFlowControl
  \/ CloseWriter

Spec == Init /\ [][Next]_vars

\* Tokio polls every runnable task, TCP delivers what was written, and the
\* application behind a relay drains what it is given.  A closed session's
\* read loop stops, so nothing makes it apply another WU.
Fairness ==
  /\ \A s \in Streams :
       /\ WF_vars(AcquireStep(s))
       /\ WF_vars(Submit(s))
       /\ WF_vars(~closed /\ \E n \in Quanta : AddStreamCredit(s, n))
       /\ WF_vars(\E n \in Quanta : ReceivePsh(s, n))
       /\ WF_vars(\E n \in Quanta : NoteConsumed(s, n))
  /\ WF_vars(~closed /\ \E n \in Quanta : AddConnCredit(n))

FairSpec == Spec /\ Fairness

-----------------------------------------------------------------------------
(* Properties. *)

\* Types; in particular no balance is ever negative, which is what the
\* two-stage compare_exchange of acquire_credit is for.
TypeOK ==
  /\ peer_flow_control \in BOOLEAN
  /\ closed \in BOOLEAN
  /\ conn_credit \in Nat
  /\ send_credit \in [Streams -> Nat]
  /\ pc \in [Streams -> PCs]
  /\ len \in [Streams -> Nat]
  /\ seen \in [Streams -> Nat]
  /\ woken \in [Streams -> BOOLEAN]
  /\ wire \in [Streams -> Nat]
  /\ buffered \in [Streams -> Nat]
  /\ read_closed \in [Streams -> BOOLEAN]
  /\ conn_consumed_since_wu \in Nat
  /\ stream_consumed_since_wu \in [Streams -> Nat]
  /\ conn_wu \in Nat
  /\ stream_wu \in [Streams -> Nat]
  /\ submitted \in [Streams -> Nat]
  /\ uncharged \in [Streams -> Nat]
  /\ dropped \in [Streams -> Nat]
  /\ queue_full \in Nat

\* Bytes the writer of s has taken from the connection balance, or passed
\* around the gate, and not yet handed to the session writer.
ConnHeld(s) ==
  IF pc[s] \in {"load_stream", "cas_stream", "rollback", "submit"} THEN len[s] ELSE 0

StreamHeld(s) == IF pc[s] = "submit" THEN len[s] ELSE 0

\* The balance a writer loaded covers its request while it tries to deduct.
SeenCoversRequest ==
  \A s \in Streams : pc[s] \in {"cas_conn", "cas_stream"} => len[s] <= seen[s]

\* No connection credit leaks: while the session is open, the balance, what
\* writers hold, what is in flight, what the receiver has yet to return and
\* the WUs in flight add up to the window, plus what was sent before the
\* peer's SETTINGS enabled the gate (which is returned though never charged).
\* Frames discarded at the receiver are returned like any other.
ConnCreditConserved ==
  closed \/ conn_credit + conn_consumed_since_wu + conn_wu
             + SumFunction([s \in Streams |-> ConnHeld(s) + wire[s]])
           = ConnWindow + SumFunction(uncharged)

\* The same per stream; only bytes discarded by a closed receiving half are
\* not returned, as the stream that loses them is finished.
StreamCreditConserved ==
  \A s \in Streams :
    closed \/ send_credit[s] + StreamHeld(s) + wire[s] + buffered[s] + dropped[s]
               + stream_consumed_since_wu[s] + stream_wu[s]
             = StreamWindow + uncharged[s]

\* The inductive invariant behind TypeOK, StreamCreditConserved and BufferBounded.
IndInv == TypeOK /\ SeenCoversRequest /\ StreamCreditConserved

\* The receive buffer of a stream is bounded by its window, whatever the
\* application does, once the bytes sent ahead of the peer's SETTINGS are
\* allowed for.
BufferBounded ==
  \A s \in Streams : closed \/ buffered[s] <= StreamWindow + uncharged[s]

\* A deduction that acquire_credit may still roll back counts as available.
Gate == INSTANCE CreditGate
          WITH avail <- conn_credit + SumFunction([s \in Streams |->
                   IF pc[s] \in {"load_stream", "cas_stream", "rollback"}
                   THEN len[s] ELSE 0]),
               stream_avail <- send_credit

\* The two-stage deduction with rollback is one atomic grant of both levels.
ImplementsGate == Gate!Spec

\* A call of write_data returns: a writer short of credit is resumed by the
\* WUs that its own delivered and consumed bytes bring back.
WriteCompletes ==
  \A s \in Streams : (pc[s] # "idle") ~> (pc[s] = "idle")
============================================================================
