---------------------------- MODULE SessionWriter ----------------------------
(***************************************************************************)
(* The task that owns the sending half of a client session                  *)
(* (SessionWriter::run of session.rs).  Callers put write requests into a    *)
(* control and a bulk channel; the task drains them, control first, cuts     *)
(* the backlog into records as the traffic shaper says, lets some control    *)
(* requests pass while it delays a record, merges flushes, and answers each  *)
(* caller.  A step ends where the code awaits.  Bytes are units: a PSH       *)
(* frame is two of them, so that a record may end inside it; any other       *)
(* frame is one.  What the shaper samples (sizes, delays, fakes) is a        *)
(* choice, restricted as next_data_policy restricts it.                      *)
(***************************************************************************)
EXTENDS Integers, Sequences, FiniteSets, SequencesExt

CONSTANTS Streams,      \* stream ids
          Callers,      \* whoever waits for an answer
          NoCaller,     \* the caller of a request nobody waits for
          QueueCap,     \* WRITE_CHANNEL_CAPACITY
          BatchMax,     \* STICKY_BULK_FLUSH_MAX_RECORDS
          Scenes        \* the settings a session may run in, see scene

VARIABLES
  scene,            \* [post_script_off: the configuration; fakes: the script
                    \*  asks for padding; breaks: the connection may fail; ...]
  queue,            \* the two channels, sequences of requests
  settings,         \* pending_client_settings still holds the SETTINGS
  close_requested,
  w,                \* the locals of run, drive_shaper and FlushBatch
  buffered,         \* write_buffer: records prepared, not flushed
  peer,             \* what the peer's decoder makes of the flushed bytes
  broken,           \* a flush failed
  answer,           \* what each caller's response channel holds
  asked             \* the request the answer belongs to

writerVars == <<scene, queue, settings, close_requested, w, buffered, peer, broken,
                answer, asked>>

Frame(cmd, sid, n) == [cmd |-> cmd, sid |-> sid, n |-> n]
SETTINGS == Frame("SETTINGS", 0, 0)
PADDING == Frame("PADDING", 0, 0)
GOAWAY == Frame("GOAWAY", 0, 0)

Unit(f, last) == [frame |-> f, last |-> last]

\* Frame::encode, as far as a record can cut it
Encoded(f) == IF f.cmd = "PSH" THEN <<Unit(f, FALSE), Unit(f, TRUE)>>
              ELSE <<Unit(f, TRUE)>>

Bytes(frames) == FlattenSeq([i \in DOMAIN frames |-> Encoded(frames[i])])

RequestBytes(reqs) == FlattenSeq([i \in DOMAIN reqs |-> Bytes(reqs[i].frames)])

WriteRequest(frames, flush, caller) ==
  [frames |-> frames, flush |-> flush, caller |-> caller]

Sids(req) == {f.sid : f \in ToSet(req.frames)}

\* the records of a request: SETTINGS put in front are a packet of their own
Records(req) == IF Head(req.frames) = SETTINGS THEN 2 ELSE 1

CallersOf(reqs) == {r.caller : r \in ToSet(reqs)}

request_carries_stream_data(req) == \E f \in ToSet(req.frames) : f.cmd = "PSH"

\* only SYN, FIN, SETTINGS and SYNACK pass a delayed record, and only if
\* they touch no pinned stream
control_write_can_pass_through(req, pinned) ==
  \A f \in ToSet(req.frames) :
    f.cmd \in {"SYN", "FIN", "SETTINGS", "SYNACK"} /\ f.sid \notin pinned

None == Frame("none", 0, 0)

\* Frame::decode and the test of settings_received on the peer's side, for
\* one more unit
Decode(p, u) ==
  LET f == u.frame
      whole == u.last /\ p.part = (IF f.cmd = "PSH" THEN f ELSE None)
      start == ~u.last /\ p.part = None
  IN [part |-> IF start THEN f ELSE None,
      got |-> IF whole /\ f.sid \in Streams
              THEN [p.got EXCEPT ![f.sid] = Append(@, f)] ELSE p.got,
      settings |-> p.settings + (IF f = SETTINGS THEN 1 ELSE 0),
      unsettled |-> p.unsettled \cup (IF f.cmd = "SYN" /\ p.settings = 0
                                     THEN {f.sid} ELSE {}),
      garbled |-> p.garbled \/ ~(whole \/ start)]

Received(units) == FoldLeft(Decode, peer, units)

Idle == [records |-> 0, responders |-> {}]

Respond(cs, result) ==
  answer' = [c \in Callers |-> IF c \in cs THEN result ELSE answer[c]]

WriterInit ==
  /\ scene \in Scenes
  /\ queue = [control |-> <<>>, bulk |-> <<>>]
  /\ settings = TRUE
  /\ close_requested = FALSE
  /\ w = [pc |-> "top", cur |-> <<>>, pending |-> <<>>, responders |-> {},
          consumed |-> FALSE, mid |-> FALSE, sticky |-> FALSE,
          pinned |-> {}, deferred |-> <<>>, fake_responses |-> FALSE,
          batch |-> Idle, first |-> TRUE]
  /\ buffered = <<>>
  /\ peer = [part |-> None, got |-> [s \in Streams |-> <<>>], settings |-> 0,
             unsettled |-> {}, garbled |-> FALSE]
  /\ broken = FALSE
  /\ answer = [c \in Callers |-> "none"]
  /\ asked = [c \in Callers |-> WriteRequest(<<>>, "Auto", NoCaller)]

(***************************************************************************)
(* The callers' side.                                                        *)
(***************************************************************************)

HasRoom(class) == w.pc # "ended" /\ Len(queue[class]) < QueueCap

\* the send of submit_write_packets, which its check of close_requested
\* precedes
Enqueue(class, req) ==
  /\ HasRoom(class)
  /\ queue' = [queue EXCEPT ![class] = Append(@, req)]
  /\ answer' = [c \in Callers |-> IF c = req.caller THEN "wait" ELSE answer[c]]
  /\ asked' = [c \in Callers |-> IF c = req.caller THEN req ELSE asked[c]]

CanTryWrite == ~close_requested /\ HasRoom("control")

\* SessionWriter::close: notify_waiters reaches a task that already waits; one
\* between its look at close_requested and its wait goes on to wait
WriterClose ==
  /\ close_requested' = TRUE
  /\ \/ w' = IF w.pc = "select" THEN [w EXCEPT !.pc = "exit"] ELSE w
     \/ w.pc = "top" /\ ~close_requested /\ w' = [w EXCEPT !.pc = "select"]

(***************************************************************************)
(* FlushBatch.                                                               *)
(***************************************************************************)

is_full(batch) == batch.records >= BatchMax

\* a drain that wrote no record of its own adds nobody to the batch
NotedForgets(batch, records, cs) ==
  IF records = 0 THEN batch
  ELSE [records |-> IF batch.records + records > BatchMax THEN BatchMax
                    ELSE batch.records + records,
        responders |-> batch.responders \cup cs]

Noted(batch, records, cs) ==
  [records |-> IF batch.records + records > BatchMax THEN BatchMax
               ELSE batch.records + records,
   responders |-> batch.responders \cup cs]

\* a flush of buf in the state s of the task: the batch's callers learn the
\* outcome; on an error those in lost are failed too and the loop is left
Flush(buf, s, lost) ==
  \/ /\ ~broken
     /\ peer' = Received(buf)
     /\ buffered' = <<>>
     /\ Respond(s.batch.responders, "ok")
     /\ w' = [s EXCEPT !.batch = Idle]
     /\ UNCHANGED broken
  \/ /\ broken \/ scene.breaks
     /\ \E k \in 0..(IF broken THEN 0 ELSE Len(buf)) :
          peer' = Received(SubSeq(buf, 1, k))
     /\ broken' = TRUE
     /\ buffered' = <<>>
     /\ Respond(s.batch.responders \cup lost, "err")
     /\ w' = [s EXCEPT !.batch = Idle, !.pc = "exit", !.cur = <<>>,
                       !.deferred = <<>>, !.responders = {}]

\* the end of a turn: what is prepared waits for what is queued, up to a limit
flush_or_merge(buf, s) ==
  IF \/ s.batch = Idle
     \/ (queue.control # <<>> \/ queue.bulk # <<>>) /\ ~is_full(s.batch)
  THEN buffered' = buf /\ w' = s /\ UNCHANGED <<peer, broken, answer>>
  ELSE Flush(buf, s, {})

(***************************************************************************)
(* SessionWriter::run.                                                       *)
(***************************************************************************)

\* the test at the head of the loop
LoopTop ==
  /\ w.pc = "top"
  /\ w' = [w EXCEPT !.pc = IF close_requested THEN "exit" ELSE "select"]
  /\ UNCHANGED <<scene, queue, settings, close_requested, buffered, peer, broken,
                 answer, asked>>

\* queue_bulk_request for each of reqs: the bytes join the backlog, callers
\* of Auto requests are answered at once, the others wait for the flush
Queued(s, reqs) ==
  [s EXCEPT !.pending = @ \o RequestBytes(reqs),
            !.responders = @ \cup CallersOf(SelectSeq(reqs,
                                     LAMBDA r : r.flush = "Immediate"))]

\* every caller answered when its bytes join the backlog
AutoCallersAll(reqs) == CallersOf(reqs)

AutoCallers(reqs) == CallersOf(SelectSeq(reqs, LAMBDA r : r.flush = "Auto"))

\* drive_shaper that pins the current request only
DriveShaperUnpinned(s, pins, sticky) ==
  [s EXCEPT !.pc = "drain", !.consumed = FALSE, !.mid = FALSE,
            !.sticky = sticky, !.fake_responses = FALSE, !.pinned = pins]

\* the head of drive_shaper: the first policy may be the sticky full block;
\* otherwise the streams with data in the backlog are pinned
DriveShaper(s, pins, sticky) ==
  [s EXCEPT !.pc = "drain", !.consumed = FALSE, !.mid = FALSE,
            !.sticky = sticky, !.fake_responses = FALSE,
            !.pinned = pins \cup
              (IF sticky THEN {}
               ELSE {u.frame.sid : u \in {v \in ToSet(s.pending) :
                                            v.frame.cmd = "PSH"}})]

StickyChoices(s) == IF s.pending = <<>> \/ s.first THEN {FALSE} ELSE BOOLEAN

\* a request received after the close: it and everything waiting fails
RecvClosed(class) ==
  /\ close_requested
  /\ queue' = [queue EXCEPT ![class] = Tail(@)]
  /\ Respond(w.batch.responders \cup w.responders
               \cup {Head(queue[class]).caller}, "err")
  /\ w' = [w EXCEPT !.pc = "exit", !.batch = Idle, !.responders = {}]
  /\ UNCHANGED <<scene, settings, close_requested, buffered, peer, broken, asked>>

WithSettings(req) ==
  IF settings THEN [req EXCEPT !.frames = <<SETTINGS>> \o @] ELSE req

TakeControl ==
  /\ w.pc = "select"
  /\ queue.control # <<>>
  /\ \/ RecvClosed("control")
     \/ LET req == WithSettings(Head(queue.control))
            data == request_carries_stream_data(req)
            reqs == IF data THEN Append(queue.bulk, req) ELSE queue.bulk
            s == Queued([w EXCEPT !.cur = IF data THEN <<>> ELSE <<req>>], reqs)
        IN /\ ~close_requested
           /\ \E sticky \in StickyChoices(s) :
                w' = DriveShaper(s, Sids(req), sticky)
           /\ queue' = [control |-> Tail(queue.control), bulk |-> <<>>]
           /\ settings' = FALSE
           /\ Respond(AutoCallers(reqs), "ok")
           /\ UNCHANGED <<scene, close_requested, buffered, peer, broken, asked>>

TakeBulk ==
  /\ w.pc = "select"
  /\ queue.control = <<>>
  /\ queue.bulk # <<>>
  /\ \/ RecvClosed("bulk")
     \/ LET s == Queued(w, queue.bulk)
        IN /\ ~close_requested
           /\ \E sticky \in StickyChoices(s) : w' = DriveShaper(s, {}, sticky)
           /\ queue' = [queue EXCEPT !.bulk = <<>>]
           /\ Respond(AutoCallers(queue.bulk), "ok")
           /\ UNCHANGED <<scene, settings, close_requested, buffered, peer, broken,
                          asked>>

\* padding before any record that is not part of a sticky block
at_frame_boundary_ignored(s) == ~s.sticky

\* whether padding may be put before the next record
at_frame_boundary(s) == ~s.consumed \/ (~s.sticky /\ ~s.mid)

\* callers whose requests die with a failing drain
Waiting(s) == s.responders \cup CallersOf(s.cur) \cup CallersOf(s.deferred)

\* one turn of the loop of drive_shaper: a record of the first take units,
\* with padding before it (pre) or owed after the drain (fake), and a delay;
\* how many padding requests there are makes no difference here
Record ==
  /\ w.pc = "drain"
  /\ w.pending # <<>>
  /\ \E take \in 1..Len(w.pending), delay, fake, pre \in BOOLEAN :
       LET quiet == w.first /\ ~scene.post_script_off
           inline == pre /\ at_frame_boundary(w)
           buf == buffered \o (IF inline THEN Encoded(PADDING) ELSE <<>>)
                    \o SubSeq(w.pending, 1, take)
           s == [w EXCEPT
                   !.pending = SubSeq(@, take + 1, Len(@)),
                   !.consumed = TRUE,
                   !.mid = ~w.pending[take].last,
                   !.first = FALSE,
                   !.fake_responses = @ \/ fake \/ (pre /\ ~inline),
                   !.batch = Noted(@, IF inline THEN 2 ELSE 1, {}),
                   !.pc = IF quiet THEN "turn" ELSE IF delay THEN "delay"
                          ELSE "drain"]
       IN /\ (w.first \/ w.sticky) => ~delay /\ ~pre
          /\ w.first => ~fake
          /\ fake \/ pre => scene.fakes
          /\ IF quiet \/ delay \/ is_full(s.batch)
             THEN Flush(buf, s, Waiting(s))
             ELSE /\ buffered' = buf
                  /\ w' = s
                  /\ UNCHANGED <<peer, broken, answer>>
  /\ UNCHANGED <<scene, queue, settings, close_requested, asked>>

\* wait_for_peer_turn and the sleep of wait_shaping_delay end
WaitOver ==
  /\ w.pc \in {"turn", "delay"}
  /\ w' = [w EXCEPT !.pc = "drain"]
  /\ UNCHANGED <<scene, queue, settings, close_requested, buffered, peer, broken,
                 answer, asked>>

\* wait_shaping_delay receives a control request: it passes at once, or it is
\* kept for after the drain and its streams are pinned
DelayControl ==
  /\ w.pc = "delay"
  /\ queue.control # <<>>
  /\ LET req == WithSettings(Head(queue.control))
     IN IF /\ w.deferred = <<>>
           /\ ~w.mid
           /\ control_write_can_pass_through(req, w.pinned)
        THEN Flush(buffered \o Bytes(req.frames),
                   [w EXCEPT !.batch = Noted(@, Records(req), {req.caller})],
                   Waiting(w))
        ELSE /\ w' = [w EXCEPT !.pinned = @ \cup Sids(req),
                               !.deferred = Append(@, req)]
             /\ UNCHANGED <<buffered, peer, broken, answer>>
  /\ settings' = FALSE
  /\ queue' = [queue EXCEPT !.control = Tail(@)]
  /\ UNCHANGED <<scene, close_requested, asked>>

prepare_fake_frames(s) == IF s.fake_responses THEN Encoded(PADDING) ELSE <<>>

\* the drain is over: drain_pending_and_respond prepares the fakes and hands
\* its callers to the batch, the control request and the deferred ones
\* follow, and flush_or_merge flushes unless more is queued
DrainDone ==
  /\ w.pc = "drain"
  /\ w.pending = <<>>
  /\ LET reqs == w.cur \o w.deferred
         fakes == prepare_fake_frames(w)
         records == FoldLeft(LAMBDA n, req : n + Records(req), Len(fakes), reqs)
     IN flush_or_merge(buffered \o fakes \o RequestBytes(reqs),
          [w EXCEPT
             !.batch = Noted(@, records, w.responders \cup CallersOf(reqs)),
             !.pc = "top", !.cur = <<>>, !.deferred = <<>>,
             !.responders = {}, !.pinned = {}, !.fake_responses = FALSE,
             !.consumed = FALSE, !.mid = FALSE, !.sticky = FALSE])
  /\ UNCHANGED <<scene, queue, settings, close_requested, asked>>

\* after the loop: what is prepared is flushed, GOAWAY and close_notify
\* follow, and the requests left in the channels are dropped
Exit ==
  /\ w.pc = "exit"
  /\ LET dropped == CallersOf(queue.control \o queue.bulk)
         goaway == IF scene.post_script_off THEN <<>> ELSE Encoded(GOAWAY)
     IN /\ peer' = IF broken THEN peer ELSE Received(buffered \o goaway)
        /\ answer' = [c \in Callers |->
                        IF c \in dropped THEN "err"
                        ELSE IF c \in w.batch.responders
                             THEN IF broken THEN "err" ELSE "ok"
                        ELSE answer[c]]
  /\ queue' = [control |-> <<>>, bulk |-> <<>>]
  /\ buffered' = <<>>
  /\ w' = [w EXCEPT !.pc = "ended", !.batch = Idle, !.pending = <<>>]
  /\ UNCHANGED <<scene, settings, close_requested, broken, asked>>

WriterStep == LoopTop \/ TakeControl \/ TakeBulk \/ Record \/ WaitOver
                \/ DelayControl \/ DrainDone \/ Exit
=============================================================================
