---------------------------- MODULE ClientStream ----------------------------
(***************************************************************************)
(* The client's streams on the writer of SessionWriter: Session::open_stream *)
(* (session.rs), StreamWriteHalf, StreamTeardown and the drop of the halves   *)
(* (stream.rs), driven as the relays of the client drive them                *)
(* (kanotls/src/relay.rs and client.rs).  A "tcp" stream defers its target,   *)
(* is split, writes, half-closes and drops the write half before the read    *)
(* half; a "udp" stream writes its target early, waits for the SYNACK and is  *)
(* dropped whole.  Credit is FlowControl's business and data in the other     *)
(* direction StreamReceive's; here the peer only answers an open, ends a     *)
(* stream, or the session ends.                                              *)
(***************************************************************************)
EXTENDS SessionWriter

\* scene also gives max_streams_per_session and says how each stream is used
\* ("tcp", "udp" or "unused"), how many payloads its owner writes, how many
\* synthetic exchanges the read loop's timer starts and whether the session
\* may be closed from outside
Mode(s) == scene.mode[s]

ASSUME CallersAssumption ==
  /\ Callers = Streams \X {"open", "call", "task"}
  /\ NoCaller \notin Callers

VARIABLES st,           \* per stream: write half, teardown and cleanup task
          streams,      \* the table: "none", "open" or "read_closed"
          capacity_stream_count,
          read_loop,    \* "on", "cleared" (table empty, counter not yet), "off"
          pads          \* synthetic exchanges sent

streamVars == <<st, streams, capacity_stream_count, read_loop, pads>>
vars == <<writerVars, streamVars>>

SYN(s) == Frame("SYN", s, 0)
FIN(s) == Frame("FIN", s, 0)
PSH(s, n) == Frame("PSH", s, n)
Target(s) == PSH(s, 0)

NoJob == [kind |-> "none"]

\* a call of submit_write_packets or write_packets: its channel, request and
\* what it is for
Job(kind, class, frames, flush, s, role) ==
  [kind |-> kind, class |-> class, req |-> WriteRequest(frames, flush, <<s, role>>)]

Init ==
  /\ WriterInit
  /\ st = [s \in Streams |->
             [pc |-> IF Mode(s) = "unused" THEN "gone" ELSE "new", job |-> NoJob, open_state |-> "deferred",
              early_data_submitted |-> FALSE, deferred_target |-> FALSE,
              written |-> 0, write_closed |-> FALSE, closed |-> FALSE,
              open_failed |-> FALSE, halves_alive |-> {"read", "write"},
              fully_closed |-> FALSE, synack |-> "none",
              task |-> "none", task_fin |-> FALSE]]
  /\ streams = [s \in Streams |-> "none"]
  /\ capacity_stream_count = 0
  /\ read_loop = "on"
  /\ pads = 0

(***************************************************************************)
(* The table of streams and its counter.                                     *)
(***************************************************************************)

unregister_stream_locked(s) ==
  /\ streams' = [streams EXCEPT ![s] = "none"]
  /\ capacity_stream_count' =
       capacity_stream_count - (IF streams[s] = "open" THEN 1 ELSE 0)

\* a FIN after the drop of the read half is counted again
mark_stream_read_closed_twice(s) ==
  /\ streams' = [streams EXCEPT ![s] = IF @ = "open" THEN "read_closed" ELSE @]
  /\ capacity_stream_count' = capacity_stream_count - 1

mark_stream_read_closed_locked(s) ==
  /\ streams' = [streams EXCEPT ![s] = IF @ = "open" THEN "read_closed" ELSE @]
  /\ capacity_stream_count' =
       capacity_stream_count - (IF streams[s] = "open" THEN 1 ELSE 0)

tableVars == <<streams, capacity_stream_count>>

Set(s, rec) == st' = [st EXCEPT ![s] = rec]

(***************************************************************************)
(* Session::open_stream.                                                     *)
(***************************************************************************)

\* the session must be alive when the open begins; with the SETTINGS still held
\* the SYN is to wait for the first write
OpenStream(s) ==
  /\ st[s].pc = "new"
  /\ Set(s, [st[s] EXCEPT !.pc = IF close_requested THEN "gone" ELSE "opening",
                          !.open_state = IF settings THEN "deferred" ELSE "submitted"])
  /\ UNCHANGED <<writerVars, tableVars, read_loop, pads>>

\* stream_handle_is_orphaned: both halves, with all receivers, are gone
Orphans == {s \in Streams : streams[s] # "none" /\ st[s].halves_alive = {}}

\* under the lock of the table orphans are pruned, the limit is checked and
\* the stream is registered; a SYN that need not wait is submitted next
Register(s) ==
  /\ st[s].pc = "opening"
  /\ LET open == {t \in Streams : streams[t] = "open"}
         count == capacity_stream_count - Cardinality(Orphans \cap open)
         full == count >= scene.max_streams
         h == [st[s] EXCEPT !.deferred_target = (Mode(s) = "tcp")]
     IN /\ capacity_stream_count' = IF full THEN count ELSE count + 1
        /\ streams' = [t \in Streams |->
                          IF t = s /\ ~full THEN "open"
                          ELSE IF t \in Orphans THEN "none" ELSE streams[t]]
        /\ Set(s, IF full THEN [st[s] EXCEPT !.pc = "gone"]
                  ELSE IF h.open_state = "deferred" THEN [h EXCEPT !.pc = "idle"]
                  ELSE [h EXCEPT !.pc = "submit",
                                 !.job = Job("syn", "control", <<SYN(s)>>,
                                             "Immediate", s, "open")])
  /\ UNCHANGED <<writerVars, read_loop, pads>>

(***************************************************************************)
(* Operations of the write half.  "submit" is the check of close_requested   *)
(* in submit_write_packets, "send" its channel send, "wait" the wait for the  *)
(* answer, "open" finish_pending_open_submission.                            *)
(***************************************************************************)

open_is_unsent(h) == /\ ~h.open_failed /\ ~h.closed /\ ~h.write_closed
                     /\ h.deferred_target \/ h.open_state = "deferred"

\* StreamWriteHalf::write, with its write_gather_open and write_early, of the
\* payloads given: with the open still held everything goes out as one
\* control request; otherwise the target and its data as an Immediate bulk
\* request, further data as an Auto one, after the open has been answered
Write(s, data) ==
  LET h == st[s]
      head == IF h.deferred_target THEN <<Target(s)>> ELSE <<>>
      psh == head \o data
  IN IF h.open_state = "deferred"
     THEN [h EXCEPT !.pc = "submit", !.deferred_target = FALSE,
                    !.job = Job("gather", "control", <<SYN(s)>> \o psh,
                                "Immediate", s, "open")]
     ELSE [h EXCEPT !.pc = "open", !.deferred_target = FALSE,
                    !.job = Job("data", "bulk", psh,
                                IF h.deferred_target THEN "Immediate"
                                ELSE "Auto", s, "call")]

\* the owner writes its next payload
OwnerWrites(s) ==
  /\ st[s].pc = "idle"
  /\ Mode(s) = "udp" => st[s].synack = "done"
  /\ st[s].written < scene.writes
  /\ LET n == st[s].written + 1
     IN Set(s, [Write(s, <<PSH(s, n)>>) EXCEPT !.written = n])
  /\ UNCHANGED <<writerVars, tableVars, read_loop, pads>>

\* a udp stream's first write is its target (write_early in client.rs)
WriteTarget(s) ==
  /\ st[s].pc = "idle"
  /\ Mode(s) = "udp"
  /\ st[s].synack = "none"
  /\ LET h == Write(s, <<Target(s)>>)
     IN Set(s, [h EXCEPT !.job.req.flush = "Immediate", !.synack = "expected"])
  /\ UNCHANGED <<writerVars, tableVars, read_loop, pads>>

\* the grace period of a tcp stream ends: flush_unsent_open_if_pending
GraceOver(s) ==
  /\ st[s].pc = "idle"
  /\ Mode(s) = "tcp"
  /\ open_is_unsent(st[s])
  /\ Set(s, Write(s, <<>>))
  /\ UNCHANGED <<writerVars, tableVars, read_loop, pads>>

\* StreamWriteHalf::close_write at the end of the local input: an open never
\* sent is torn down locally, otherwise a FIN follows the open's answer
CloseWrite(s) ==
  /\ st[s].pc = "idle"
  /\ Mode(s) = "tcp"
  /\ IF st[s].open_state = "deferred"
     THEN /\ Set(s, [st[s] EXCEPT !.deferred_target = FALSE,
                                  !.write_closed = TRUE, !.closed = TRUE,
                                  !.fully_closed = TRUE, !.pc = "light"])
     ELSE Set(s, [st[s] EXCEPT
                    !.deferred_target = FALSE, !.pc = "open",
                    !.job = Job("fin", "control", <<FIN(s)>>, "Immediate",
                                s, "call")])
  /\ UNCHANGED <<writerVars, tableVars, read_loop, pads>>

\* the operation is over: the owner goes on, or gives its half up
Back(h) == [h EXCEPT !.pc = "idle", !.job = NoJob]
Ended(s, h) == IF Mode(s) = "tcp"
               THEN [h EXCEPT !.pc = "gone", !.job = NoJob, !.halves_alive = {"read"}]
               ELSE [h EXCEPT !.pc = "drop", !.job = NoJob]

\* cleanup_registration after a light teardown or a refused open
Cleanup(s) ==
  /\ st[s].pc = "light"
  /\ unregister_stream_locked(s)
  /\ Set(s, Ended(s, st[s]))
  /\ UNCHANGED <<writerVars, read_loop, pads>>

\* an operation on the open fails: the writer is closed, the stream failed
OpenFails(s) ==
  /\ Set(s, Ended(s, [st[s] EXCEPT !.open_failed = TRUE]))
  /\ WriterClose
  /\ UNCHANGED <<scene, queue, settings, buffered, peer, broken, answer, asked>>

\* open_stream's SYN cannot be submitted: the registration is undone
OpenUndone(s) ==
  /\ Set(s, [st[s] EXCEPT !.pc = "gone"])
  /\ unregister_stream_locked(s)
  /\ WriterClose
  /\ UNCHANGED <<scene, queue, settings, buffered, peer, broken, answer, asked>>

SubmitFails(s) ==
  CASE st[s].job.kind = "syn" -> OpenUndone(s)
    [] st[s].job.kind = "gather" -> OpenFails(s) /\ UNCHANGED tableVars
    [] st[s].job.kind = "late" ->
         /\ Set(s, [st[s] EXCEPT !.pc = "light", !.open_failed = TRUE])
         /\ UNCHANGED <<writerVars, tableVars>>
    [] OTHER -> /\ Set(s, Ended(s, st[s]))
                /\ UNCHANGED <<writerVars, tableVars>>

\* finish_pending_open_submission before the operation proper
OpenAnswered(s) ==
  /\ st[s].pc = "open"
  /\ \/ /\ answer[<<s, "open">>] = "ok"
        /\ Set(s, [st[s] EXCEPT !.pc = "submit"])
        /\ UNCHANGED <<writerVars, tableVars>>
     \/ /\ answer[<<s, "open">>] = "err"
        /\ OpenFails(s) /\ UNCHANGED tableVars
  /\ UNCHANGED <<read_loop, pads>>

\* submit_write_packets: the check of close_requested, then the send, which
\* waits while the channel is full ("send") and fails once the writer is gone
Submit(s) ==
  /\ st[s].pc \in {"submit", "send"}
  /\ LET h == st[s]
         closed == IF h.pc = "submit" THEN close_requested ELSE w.pc = "ended"
     IN \/ closed /\ SubmitFails(s)
        \/ /\ ~closed
           /\ Enqueue(h.job.class, h.job.req)
           /\ Set(s, CASE h.job.kind = "syn" -> Back(h)
                       [] h.job.kind = "gather" ->
                            [h EXCEPT !.pc = "wait", !.open_state = "submitted",
                                      !.early_data_submitted = TRUE]
                       [] OTHER -> [h EXCEPT !.pc = "wait"])
           /\ UNCHANGED <<scene, settings, close_requested, w, buffered, peer, broken, tableVars>>
        \/ /\ ~closed /\ h.pc = "submit" /\ ~HasRoom(h.job.class)
           /\ Set(s, [h EXCEPT !.pc = "send"])
           /\ UNCHANGED <<writerVars, tableVars>>
  /\ UNCHANGED <<read_loop, pads>>

\* the answer: after the first write a udp stream goes on to wait_open
Answered(s) ==
  /\ st[s].pc = "wait"
  /\ LET h == st[s]
         result == answer[h.job.req.caller]
         next == CASE h.job.kind = "fin" -> Ended(s, [h EXCEPT !.write_closed = TRUE])
                   [] h.job.kind = "late" -> [h EXCEPT !.open_failed = TRUE,
                                                       !.pc = "light"]
                   [] Mode(s) = "udp" /\ h.synack # "done" -> [h EXCEPT !.pc = "synack", !.job = NoJob]
                   [] OTHER -> Back(h)
     IN \/ /\ result = "ok"
           /\ Set(s, next)
           /\ UNCHANGED <<writerVars, tableVars>>
        \/ result = "err" /\ SubmitFails(s)
  /\ UNCHANGED <<read_loop, pads>>

(***************************************************************************)
(* wait_synack_once, and what the peer and the read loop do to a stream.     *)
(***************************************************************************)

OnWire(f) == f \in ToSet(peer.got[f.sid])

\* the read loop gets the SYNACK, empty or a refusal; with its receiver gone
\* the stream is taken for cancelled
SynackArrives(s) ==
  /\ read_loop = "on" /\ streams[s] # "none" /\ OnWire(SYN(s))
  /\ st[s].synack = IF Mode(s) = "udp" THEN "expected" ELSE "none"
  /\ \E r \in {"ok"} \cup (IF Mode(s) = "udp" THEN {"refused"} ELSE {}) :
       Set(s, [st[s] EXCEPT !.synack = r])
  /\ IF "write" \in st[s].halves_alive THEN UNCHANGED tableVars
     ELSE unregister_stream_locked(s)
  /\ UNCHANGED <<writerVars, read_loop, pads>>

\* the answer, the loss of its sender, or the timeout; a refusal, a loss and
\* a timeout clean up, the timeout after a FIN
WaitSynack(s) ==
  /\ st[s].pc = "synack"
  /\ LET h == [st[s] EXCEPT !.synack = "done"]
     IN \/ /\ st[s].synack = "ok"
           /\ Set(s, [h EXCEPT !.pc = "idle"])
        \/ /\ st[s].synack = "refused" \/ streams[s] = "none"
           /\ Set(s, [h EXCEPT !.pc = "light", !.open_failed = TRUE])
        \/ /\ st[s].synack = "expected" /\ streams[s] # "none"
           /\ Set(s, [h EXCEPT !.pc = "submit",
                               !.job = Job("late", "control", <<FIN(s)>>,
                                           "Immediate", s, "call")])
  /\ UNCHANGED <<writerVars, tableVars, read_loop, pads>>

\* CMD_FIN on the client, after the SYNACK
PeerFin(s) ==
  /\ read_loop = "on" /\ streams[s] = "open"
  /\ st[s].synack \in {"ok", "done"}
  /\ mark_stream_read_closed_locked(s)
  /\ UNCHANGED <<writerVars, st, read_loop, pads>>

\* the timer of the read loop queues a synthetic exchange
H2Exchange ==
  /\ read_loop = "on" /\ pads < scene.pads /\ ~close_requested /\ peer.settings > 0
  /\ Enqueue("control", WriteRequest(<<PADDING>>, "Auto", NoCaller))
  /\ pads' = pads + 1
  /\ UNCHANGED <<scene, settings, close_requested, w, buffered, peer, broken, st, tableVars, read_loop>>

\* force_close, by the pool or by the read loop when the connection fails
ForceClose ==
  /\ scene.ends \/ broken
  /\ ~close_requested
  /\ WriterClose
  /\ UNCHANGED <<scene, queue, settings, buffered, peer, broken, answer, asked, streamVars>>

\* the read loop ends: it clears the table, then sets the counter to zero
ReadLoopClears ==
  /\ read_loop = "on" /\ close_requested
  /\ read_loop' = "cleared"
  /\ streams' = [s \in Streams |-> "none"]
  /\ UNCHANGED <<writerVars, st, capacity_stream_count, pads>>

ReadLoopEnds ==
  /\ read_loop = "cleared"
  /\ read_loop' = "off"
  /\ capacity_stream_count' = 0
  /\ UNCHANGED <<writerVars, st, streams, pads>>

(***************************************************************************)
(* The end of a stream.                                                      *)
(***************************************************************************)

\* a drop that leaves the cleanup task no FIN to send
HalfDroppedNoFallback(s) ==
  LET h == [st[s] EXCEPT !.pc = "gone", !.halves_alive = {}]
  IN /\ Set(s, IF h.fully_closed THEN h ELSE [h EXCEPT !.task = "unregister"])
     /\ UNCHANGED writerVars
     /\ mark_stream_read_closed_locked(s) \/ UNCHANGED tableVars

\* the read half is dropped, the last one: its drop marks the table's entry
\* if the lock is free, then half_dropped does nothing after a close, only
\* cleans up when the peer never heard of the stream, and otherwise owes the
\* peer a FIN, sent now or by the cleanup task
HalfDropped(s) ==
  LET h == [st[s] EXCEPT !.pc = "gone", !.halves_alive = {}]
      light == h.open_state = "deferred" \/ h.open_failed
      queued == /\ ~h.fully_closed /\ ~light /\ ~h.write_closed
                /\ ~h.early_data_submitted /\ CanTryWrite
  IN /\ Set(s, IF h.fully_closed THEN h
               ELSE IF light THEN [h EXCEPT !.task = "unregister"]
               ELSE [h EXCEPT !.task = IF h.early_data_submitted THEN "open"
                                       ELSE "fin",
                              !.task_fin = ~h.write_closed /\ ~queued])
     /\ IF queued
        THEN /\ Enqueue("control", WriteRequest(<<FIN(s)>>, "Immediate", NoCaller))
             /\ UNCHANGED <<scene, settings, close_requested, w, buffered, peer, broken>>
        ELSE UNCHANGED writerVars
     /\ mark_stream_read_closed_locked(s) \/ UNCHANGED tableVars

\* the read half of a tcp stream goes after its write half, with
\* relay_tcp_client
DropRead(s) ==
  /\ st[s].halves_alive = {"read"}
  /\ HalfDropped(s)
  /\ UNCHANGED <<read_loop, pads>>

\* a stream dropped whole: a udp relay that ends or fails, a tcp handler
\* whose reply to the local client fails before the relay starts
DropStream(s) ==
  /\ st[s].halves_alive = {"read", "write"}
  /\ \/ /\ Mode(s) = "udp"
        /\ st[s].pc = "drop" \/ (st[s].pc = "idle" /\ st[s].synack = "done")
     \/ Mode(s) = "tcp" /\ st[s].pc = "idle" /\ st[s].deferred_target
  /\ HalfDropped(s)
  /\ UNCHANGED <<read_loop, pads>>

\* the cleanup task: it waits for an open with data, sends the FIN that is
\* still owed, and unregisters the stream
TaskOpen(s) ==
  /\ st[s].task = "open"
  /\ answer[<<s, "open">>] # "wait"
  /\ Set(s, [st[s] EXCEPT !.task = "fin"])
  /\ UNCHANGED <<writerVars, tableVars, read_loop, pads>>

TaskFin(s) ==
  /\ st[s].task \in {"fin", "send"}
  /\ LET closed == IF st[s].task = "fin" THEN close_requested ELSE w.pc = "ended"
     IN \/ /\ closed \/ ~st[s].task_fin
           /\ Set(s, [st[s] EXCEPT !.task = "unregister"])
           /\ UNCHANGED writerVars
        \/ /\ ~closed /\ st[s].task_fin
           /\ Enqueue("control", WriteRequest(<<FIN(s)>>, "Immediate",
                                              <<s, "task">>))
           /\ Set(s, [st[s] EXCEPT !.task = "wait"])
           /\ UNCHANGED <<scene, settings, close_requested, w, buffered, peer, broken>>
        \/ /\ ~closed /\ st[s].task_fin /\ st[s].task = "fin"
           /\ ~HasRoom("control")
           /\ Set(s, [st[s] EXCEPT !.task = "send"])
           /\ UNCHANGED writerVars
  /\ UNCHANGED <<tableVars, read_loop, pads>>

TaskEnd(s) ==
  /\ \/ st[s].task = "unregister"
     \/ st[s].task = "wait" /\ answer[<<s, "task">>] # "wait"
  /\ unregister_stream_locked(s)
  /\ Set(s, [st[s] EXCEPT !.task = "done"])
  /\ UNCHANGED <<writerVars, read_loop, pads>>

(***************************************************************************)
(* The specification.                                                        *)
(***************************************************************************)

Owner(s) == \/ OpenStream(s) \/ Register(s) \/ OwnerWrites(s) \/ WriteTarget(s) \/ GraceOver(s)
            \/ CloseWrite(s) \/ DropStream(s)

Operation(s) == \/ Cleanup(s) \/ OpenAnswered(s) \/ Submit(s)
                \/ Answered(s) \/ WaitSynack(s)

Task(s) == TaskOpen(s) \/ TaskFin(s) \/ TaskEnd(s)

Done == /\ \A s \in Streams : st[s].pc = "gone" /\ st[s].task \in {"none", "done"}
        /\ w.pc \in {"select", "ended"}
        /\ UNCHANGED vars

Writer == WriterStep /\ UNCHANGED streamVars

Next ==
  \/ Writer
  \/ \E s \in Streams : \/ Owner(s) \/ Operation(s) \/ Task(s) \/ DropRead(s)
                        \/ SynackArrives(s) \/ PeerFin(s)
  \/ H2Exchange \/ ForceClose \/ ReadLoopClears \/ ReadLoopEnds
  \/ Done

\* what goes on by itself: one thread of control per stream
Continues(s) == \/ Register(s) \/ Operation(s) \/ Task(s) \/ DropRead(s)
                \/ st[s].pc = "drop" /\ DropStream(s)

\* what ENABLED Writer amounts to
WriterCanStep == /\ w.pc # "ended"
                 /\ w.pc = "select" => queue.control # <<>> \/ queue.bulk # <<>>

\* the tasks are scheduled (for the writer this is WF_vars(Writer), with the
\* condition of its being enabled written out); the owner need not begin anything, but what it
\* began goes on, and a relay whose upload is over ends.  The channels hand
\* out free places in the order of the waiters, hence SF
Fairness ==
  /\ []<>~WriterCanStep \/ []<><<Writer>>_vars
  /\ WF_vars(ReadLoopClears \/ ReadLoopEnds)
  /\ \A s \in Streams : SF_vars(Continues(s))

Spec == Init /\ [][Next]_vars /\ Fairness

(***************************************************************************)
(* Properties.                                                               *)
(***************************************************************************)

\* The peer concatenates the records and decodes frames: nothing may come
\* between the two parts of a frame, neither the padding drive_shaper puts
\* before a record nor a control request let through during a delay.
WireFramed == ~peer.garbled

\* Whatever the two channels, the pass-through, the deferred requests and the
\* merged flushes do, the peer sees SETTINGS once and before any SYN, and of
\* each stream its SYN, then its payloads in the order written, then its FIN;
\* a FIN comes after all payloads.
StreamOrder ==
  /\ peer.settings <= 1 /\ peer.unsettled = {}
  /\ \A s \in Streams :
       \E k \in -1..scene.writes :
         LET all == <<SYN(s)>> \o [n \in 1..(k + 1) |-> PSH(s, n - 1)] \o <<FIN(s)>>
         IN /\ IsPrefix(peer.got[s], all)
            /\ peer.got[s] = all => st[s].written = 0 \/ k = st[s].written

\* A caller of an Immediate write that is told Ok has all its frames on the
\* connection (FlushBatch answers only after the flush).
AnswerHonest ==
  \A c \in Callers :
    answer[c] = "ok" /\ asked[c].flush = "Immediate" =>
      \A f \in ToSet(asked[c].frames) : OnWire(f)

\* While the read loop runs, the lock-free counter the pool looks at is the
\* number of streams in the table that are open for reading, whichever of
\* the open, the peer's FIN, the drop of the halves, the cleanup task and the
\* SYNACK handler change it.
CountExact ==
  read_loop = "on" =>
    capacity_stream_count = Cardinality({s \in Streams : streams[s] = "open"})

\* Every operation on a stream's write half returns: its caller is answered or
\* failed, also when the session is closed between the writer's look at
\* close_requested and its wait.
CallsReturn ==
  \A s \in Streams :
    st[s].pc \in {"open", "submit", "send", "wait", "light"}
      ~> st[s].pc \in {"idle", "synack", "drop", "gone"}

\* A stream the peer knows of and both of whose halves are gone is ended for
\* the peer by a FIN, and leaves the table, unless the session ends.
PeerTold ==
  \A s \in Streams :
    st[s].halves_alive = {} /\ ~st[s].open_failed ~>
      \/ close_requested \/ broken
      \/ streams[s] = "none" /\ (OnWire(SYN(s)) => OnWire(FIN(s)))

\* The counter is decremented once per stream, so that it never wraps.
CountNeverWraps == capacity_stream_count >= 0
=============================================================================
