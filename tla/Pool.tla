-------------------------------- MODULE Pool --------------------------------
(***************************************************************************)
(* The client's pool of tunnel connections (crates/pool): tasks that open  *)
(* streams, the replenishment under spawn_lock, the tasks that establish   *)
(* and register connections, and the monitor that prunes, drains and       *)
(* closes them.                                                            *)
(*                                                                         *)
(* A step ends where the table's lock is released or an atomic has been    *)
(* read on which a later step acts.  Every wait of the pool ends by a      *)
(* timer at the latest (monitor_interval), so notifications, which only    *)
(* end it sooner, are left out, and so are the delays between spawns.      *)
(* A connection id stands for one connection at a time and is used again   *)
(* once nothing refers to the old one.                                     *)
(***************************************************************************)
EXTENDS Integers, FiniteSets, FiniteSetsExt

CONSTANTS
  Conns,                    \* ids of connections
  Openers,                  \* tasks that call open_stream, once each
  NoConn, NoOne,            \* no connection, no holder of the lock
  target_pool_size,
  initial_connection_count,
  MaxStreams,               \* max_streams_per_session
  MaxTrouble                \* bound on failures and timers that run out

ASSUME PoolAssumption ==
  /\ target_pool_size \in Nat \ {0} /\ initial_connection_count \in Nat
  /\ MaxStreams \in Nat \ {0} /\ MaxTrouble \in Nat
  /\ NoConn \notin Conns /\ NoOne \notin Openers \cup {"monitor"}
  /\ "monitor" \notin Openers

VARIABLES
  connections,        \* the table: ids of its entries
  state,              \* ConnectionState of a connection
  session,            \* "alive", "closing" (close_requested only) or "closed"
  spawn,              \* the place of the task that establishes a connection
  pending_spawns,
  acquire_waiters,
  bootstrap_started,
  spawn_lock,         \* its holder: an opener, "monitor" or NoOne
  replenish,          \* place and locals of the task inside replenish_locked
  opener, chosen,     \* an opener's place and its connection
  monitor,            \* the monitor's place,
  entries, entry,     \* what it has still to visit, what it visits,
  seen,               \* and the active_streams it read there
  trouble             \* failures and timers so far

tableVars == <<connections, state, session>>
spawnVars == <<spawn, pending_spawns>>
lockVars == <<spawn_lock, replenish>>
openVars == <<opener, chosen, acquire_waiters, bootstrap_started>>
monitorVars == <<monitor, entries, entry, seen>>
vars == <<tableVars, spawnVars, lockVars, openVars, monitorVars, trouble>>

AtLeastOne(n) == IF n = 0 THEN 1 ELSE n
Least(a, b) == IF a < b THEN a ELSE b
Monus(a, b) == IF a < b THEN 0 ELSE a - b

max_live_connections == target_pool_size + AtLeastOne(initial_connection_count)

Idle == [at |-> "idle", active |-> 0, live |-> 0, total |-> 0, missing |-> 0]

Init ==
  /\ connections = {} /\ state = [c \in Conns |-> "none"]
  /\ session = [c \in Conns |-> "none"]
  /\ spawn = [c \in Conns |-> "none"] /\ pending_spawns = 0
  /\ spawn_lock = NoOne /\ replenish = Idle
  /\ opener = [o \in Openers |-> "idle"] /\ chosen = [o \in Openers |-> NoConn]
  /\ acquire_waiters = 0 /\ bootstrap_started = FALSE
  /\ monitor = "tick" /\ entries = {} /\ entry = NoConn /\ seen = 0
  /\ trouble = 0

-----------------------------------------------------------------------------
(* Sessions and their streams. *)

\* A stream counts until the peer's FIN (active_stream_count); its owner may
\* go on sending after that.
active_streams(c) == Cardinality({o \in Openers : opener[o] = "streaming" /\ chosen[o] = c})

Live(c) == state[c] # "Closed" /\ session[c] # "closed"

\* The connections that are draining do not count.
LiveCountActive == Cardinality({c \in connections : Live(c) /\ state[c] = "Active"})

\* live_connection_count
LiveCount == Cardinality({c \in connections : Live(c)})

\* Session::force_close does nothing once close_requested is set.
ForceClosed(c) == [session EXCEPT ![c] = IF @ = "alive" THEN "closed" ELSE @]

\* The read loop ends, or the writer gives up and only requests the close.
SessionFails(c) ==
  /\ session[c] = "alive" /\ trouble < MaxTrouble /\ trouble' = trouble + 1
  /\ \E s \in {"closing", "closed"} : session' = [session EXCEPT ![c] = s]
  /\ UNCHANGED <<connections, state, spawnVars, lockVars, openVars, monitorVars>>

-----------------------------------------------------------------------------
(* Replenishment, by the holder of spawn_lock. *)

\* With a waiter, as many connections as its and the running streams fill;
\* one to begin with.
desired_active_connection_count(waiters, active, total) ==
  IF waiters = 0 THEN 0
  ELSE Least(IF active = 0 THEN 1 ELSE target_pool_size,
             (waiters + total + MaxStreams - 1) \div MaxStreams)

\* The lock's holder goes on after its call.
Release ==
  /\ spawn_lock' = NoOne /\ replenish' = Idle
  /\ IF spawn_lock = "monitor"
       THEN monitor' = "tick" /\ UNCHANGED opener
       ELSE /\ opener' = [opener EXCEPT ![spawn_lock] = IF @ = "first" THEN "select" ELSE "wait"]
            /\ UNCHANGED monitor

\* The scan of the table.
ReplenishCount ==
  /\ replenish.at = "count"
  /\ LET usable == {c \in connections : Live(c) /\ session[c] # "closing"}
     IN  replenish' = [at |-> "decide",
                       active |-> Cardinality({c \in usable : state[c] = "Active"}),
                       live |-> LiveCount,
                       total |-> Cardinality({o \in Openers : /\ opener[o] = "streaming"
                                                             /\ chosen[o] \in usable}),
                       missing |-> 0]
  /\ UNCHANGED <<tableVars, spawnVars, spawn_lock, openVars, monitorVars, trouble>>

\* The counters are read after the scan.  An empty pool gets one connection,
\* so its first batch is never split in two.
ReplenishDecide ==
  /\ replenish.at = "decide"
  /\ LET r == replenish
         desired == desired_active_connection_count(acquire_waiters, r.active, r.total)
         missing == Least(Monus(desired, r.active + pending_spawns),
                          Monus(max_live_connections, r.live + pending_spawns))
     IN  IF missing = 0
           THEN Release
           ELSE /\ replenish' = [r EXCEPT !.at = "recount", !.missing = missing]
                /\ UNCHANGED <<spawn_lock, opener, monitor>>
  /\ UNCHANGED <<tableVars, spawnVars, chosen, acquire_waiters, bootstrap_started,
                 entries, entry, seen, trouble>>

\* schedule_spawns_locked counts the live connections again
ReplenishRecount ==
  /\ replenish.at = "recount"
  /\ replenish' = [replenish EXCEPT !.at = "spawn", !.live = LiveCount]
  /\ UNCHANGED <<tableVars, spawnVars, spawn_lock, openVars, monitorVars, trouble>>

Unused(c) ==
  /\ c \notin connections /\ spawn[c] = "none" /\ session[c] # "alive"
  /\ c \notin entries \cup {entry}
  /\ \A o \in Openers : chosen[o] # c

\* and starts as many tasks as the limit allows.
ReplenishSpawn ==
  /\ replenish.at = "spawn"
  /\ LET count == Least(replenish.missing,
                        Monus(max_live_connections, replenish.live + pending_spawns))
         unused == {c \in Conns : Unused(c)}
     IN  /\ Cardinality(unused) >= count
         /\ LET new == CHOOSE S \in kSubset(count, unused) : TRUE
            IN  /\ new \subseteq unused
                /\ spawn' = [c \in Conns |-> IF c \in new THEN "connecting" ELSE spawn[c]]
                /\ session' = [c \in Conns |-> IF c \in new THEN "none" ELSE session[c]]
                /\ state' = [c \in Conns |-> IF c \in new THEN "none" ELSE state[c]]
         /\ pending_spawns' = pending_spawns + count
  /\ Release
  /\ UNCHANGED <<connections, chosen, acquire_waiters, bootstrap_started, entries, entry, seen,
                 trouble>>

Replenish == ReplenishCount \/ ReplenishDecide \/ ReplenishRecount \/ ReplenishSpawn

-----------------------------------------------------------------------------
(* The tasks that establish connections. *)

SpawnAt(c, p) == spawn' = [spawn EXCEPT ![c] = p]

ConnectOk(c) ==
  /\ spawn[c] = "connecting"
  /\ session' = [session EXCEPT ![c] = "alive"] /\ SpawnAt(c, "registering")
  /\ UNCHANGED <<connections, state, pending_spawns, lockVars, openVars, monitorVars, trouble>>

ConnectFail(c) ==
  /\ spawn[c] = "connecting" /\ trouble < MaxTrouble /\ trouble' = trouble + 1
  /\ pending_spawns' = pending_spawns - 1 /\ SpawnAt(c, "none")
  /\ UNCHANGED <<tableVars, lockVars, openVars, monitorVars>>

\* register_connection: what exceeds the limit is closed instead.
Register(c) ==
  /\ spawn[c] = "registering" /\ SpawnAt(c, "done")
  /\ state' = [state EXCEPT ![c] = "Active"]
  /\ IF LiveCount < max_live_connections
       THEN connections' = connections \cup {c} /\ UNCHANGED session
       ELSE session' = ForceClosed(c) /\ UNCHANGED connections
  /\ UNCHANGED <<pending_spawns, lockVars, openVars, monitorVars, trouble>>

Registered(c) ==
  /\ spawn[c] = "done" /\ SpawnAt(c, "none")
  /\ pending_spawns' = pending_spawns - 1
  /\ UNCHANGED <<tableVars, lockVars, openVars, monitorVars, trouble>>

Spawned(c) == ConnectOk(c) \/ Register(c) \/ Registered(c)

-----------------------------------------------------------------------------
(* open_stream *)

OpenerAt(o, p) == opener' = [opener EXCEPT ![o] = p]
Choose(o, c) == chosen' = [chosen EXCEPT ![o] = c]

OpenStream(o) ==
  /\ opener[o] = "idle" /\ OpenerAt(o, "start")
  /\ acquire_waiters' = acquire_waiters + 1
  /\ UNCHANGED <<tableVars, spawnVars, lockVars, chosen, bootstrap_started, monitorVars, trouble>>

\* try_schedule_replenishment: at `inside` while it replenishes, at `after`
\* at once when the lock is taken.
TryReplenish(o, inside, after) ==
  IF spawn_lock = NoOne
    THEN spawn_lock' = o /\ replenish' = [Idle EXCEPT !.at = "count"] /\ OpenerAt(o, inside)
    ELSE OpenerAt(o, after) /\ UNCHANGED lockVars

EnsureStarted(o) ==
  /\ opener[o] = "start" /\ bootstrap_started' = TRUE
  /\ TryReplenish(o, "first", "select")
  /\ UNCHANGED <<tableVars, spawnVars, chosen, acquire_waiters, monitorVars, trouble>>

\* select_active_connection, by the number of streams; bytes and ticks, which
\* decide between equals, leave any of them.
SelectActive(o) ==
  LET usable == {c \in connections : /\ state[c] = "Active" /\ session[c] = "alive"
                                     /\ active_streams(c) < MaxStreams}
  IN  /\ opener[o] = "select"
      /\ \/ /\ usable = {} /\ OpenerAt(o, "again") /\ UNCHANGED chosen
         \/ \E c \in usable :
              /\ \A d \in usable : active_streams(c) <= active_streams(d)
              /\ Choose(o, c) /\ OpenerAt(o, "open")
      /\ UNCHANGED <<tableVars, spawnVars, lockVars, acquire_waiters, bootstrap_started,
                     monitorVars, trouble>>

\* Session::open_stream: the first check,
OpenCheck(o) ==
  /\ opener[o] = "open"
  /\ OpenerAt(o, IF session[chosen[o]] = "alive" THEN "register" ELSE "failed")
  /\ UNCHANGED <<tableVars, spawnVars, lockVars, chosen, acquire_waiters, bootstrap_started,
                 monitorVars, trouble>>

\* then the registration under the streams' lock and the SYN.  On a session
\* closed meanwhile the SYN fails unless it is deferred.
OpenRegister(o) ==
  /\ opener[o] = "register"
  /\ \/ /\ active_streams(chosen[o]) < MaxStreams
        /\ OpenerAt(o, "streaming") /\ acquire_waiters' = acquire_waiters - 1
     \/ /\ active_streams(chosen[o]) >= MaxStreams \/ session[chosen[o]] # "alive"
        /\ OpenerAt(o, "failed") /\ UNCHANGED acquire_waiters
  /\ UNCHANGED <<tableVars, spawnVars, lockVars, chosen, bootstrap_started, monitorVars, trouble>>

\* A failure costs the connection only when its session is at an end.
OpenFailed(o) ==
  /\ opener[o] = "failed"
  /\ IF session[chosen[o]] # "alive"
       THEN OpenerAt(o, "remove") /\ UNCHANGED chosen
       ELSE OpenerAt(o, "again") /\ Choose(o, NoConn)
  /\ UNCHANGED <<tableVars, spawnVars, lockVars, acquire_waiters, bootstrap_started,
                 monitorVars, trouble>>

\* force_close_connection by an opener: whoever removes the entry,
OpenerRemove(o) ==
  /\ opener[o] = "remove" /\ connections' = connections \ {chosen[o]}
  /\ IF chosen[o] \in connections
       THEN OpenerAt(o, "close") /\ UNCHANGED chosen
       ELSE OpenerAt(o, "again") /\ Choose(o, NoConn)
  /\ UNCHANGED <<state, session, spawnVars, lockVars, acquire_waiters, bootstrap_started,
                 monitorVars, trouble>>

\* closes the session.
OpenerClose(o) ==
  /\ opener[o] = "close" /\ OpenerAt(o, "again") /\ Choose(o, NoConn)
  /\ state' = [state EXCEPT ![chosen[o]] = "Closed"] /\ session' = ForceClosed(chosen[o])
  /\ UNCHANGED <<connections, spawnVars, lockVars, acquire_waiters, bootstrap_started,
                 monitorVars, trouble>>

OpenAgain(o) ==
  /\ opener[o] = "again" /\ TryReplenish(o, "second", "wait")
  /\ UNCHANGED <<tableVars, spawnVars, chosen, acquire_waiters, bootstrap_started, monitorVars,
                 trouble>>

Retry(o) ==
  /\ opener[o] = "wait" /\ OpenerAt(o, "select")
  /\ UNCHANGED <<tableVars, spawnVars, lockVars, chosen, acquire_waiters, bootstrap_started,
                 monitorVars, trouble>>

\* The deadline; the guard lowers the counter.
TimeOut(o) ==
  /\ opener[o] = "wait" /\ OpenerAt(o, "over")
  /\ acquire_waiters' = acquire_waiters - 1
  /\ UNCHANGED <<tableVars, spawnVars, lockVars, chosen, bootstrap_started, monitorVars, trouble>>

\* The peer's FIN arrives; the owner may still be sending.
PeerFin(o) ==
  /\ opener[o] = "streaming" /\ OpenerAt(o, "sending")
  /\ UNCHANGED <<tableVars, spawnVars, lockVars, chosen, acquire_waiters, bootstrap_started,
                 monitorVars, trouble>>

StreamEnd(o) ==
  /\ opener[o] \in {"streaming", "sending"} /\ OpenerAt(o, "over") /\ Choose(o, NoConn)
  /\ UNCHANGED <<tableVars, spawnVars, lockVars, acquire_waiters, bootstrap_started,
                 monitorVars, trouble>>

Opening(o) ==
  \/ EnsureStarted(o) \/ SelectActive(o) \/ OpenCheck(o) \/ OpenRegister(o) \/ OpenFailed(o)
  \/ OpenerRemove(o) \/ OpenerClose(o) \/ OpenAgain(o) \/ Retry(o)

-----------------------------------------------------------------------------
(* run_monitor *)

MonitorAt(p) == monitor' = p
Visit(c) == entries' = entries \ {c} /\ entry' = c

\* The visit of an entry is over.
Leave(p) == MonitorAt(p) /\ entry' = NoConn /\ seen' = 0 /\ UNCHANGED entries

Tick ==
  /\ monitor = "tick" /\ MonitorAt("prune") /\ entries' = connections
  /\ UNCHANGED <<tableVars, spawnVars, lockVars, openVars, entry, seen, trouble>>

\* prune_dead_connections: a closed entry, or one whose session has ended,
\* which is marked,
Prune ==
  /\ monitor = "prune"
  /\ \E c \in entries :
       IF Live(c)
         THEN entries' = entries \ {c} /\ UNCHANGED <<state, monitor, entry>>
         ELSE /\ Visit(c) /\ MonitorAt("prune_remove")
              /\ state' = [state EXCEPT ![c] = "Closed"]
  /\ UNCHANGED <<connections, session, spawnVars, lockVars, openVars, seen, trouble>>

\* is removed.
PruneRemove ==
  /\ monitor = "prune_remove" /\ connections' = connections \ {entry} /\ Leave("prune")
  /\ UNCHANGED <<state, session, spawnVars, lockVars, openVars, trouble>>

\* drive_connection_lifecycles takes a copy of the table,
Drive ==
  /\ monitor = "prune" /\ entries = {} /\ MonitorAt("drive") /\ entries' = connections
  /\ UNCHANGED <<tableVars, spawnVars, lockVars, openVars, entry, seen, trouble>>

\* skips what has ended, closes what is closing, and reads the number of
\* streams of the others.
Look ==
  /\ monitor = "drive"
  /\ \E c \in entries :
       \/ ~Live(c) /\ entries' = entries \ {c} /\ UNCHANGED <<monitor, entry, seen>>
       \/ Live(c) /\ session[c] = "closing" /\ Visit(c) /\ MonitorAt("remove") /\ UNCHANGED seen
       \/ Live(c) /\ session[c] # "closing" /\ Visit(c) /\ MonitorAt("judge")
          /\ seen' = active_streams(c)
  /\ UNCHANGED <<tableVars, spawnVars, lockVars, openVars, trouble>>

\* An active entry is drained when idle_timeout or soft_ttl has run out, a
\* draining one closed when it had no streams.
Judge ==
  /\ monitor = "judge"
  /\ \/ /\ state[entry] = "Active" /\ trouble < MaxTrouble /\ trouble' = trouble + 1
        /\ MonitorAt("drain") /\ UNCHANGED <<entries, entry, seen>>
     \/ /\ state[entry] = "Draining" /\ seen = 0 /\ MonitorAt("remove")
        /\ UNCHANGED <<entries, entry, seen, trouble>>
     \/ /\ ~(state[entry] = "Draining" /\ seen = 0) /\ Leave("drive") /\ UNCHANGED trouble
  /\ UNCHANGED <<tableVars, spawnVars, lockVars, openVars>>

\* mark_draining looks the entry up,
Drain ==
  /\ monitor = "drain"
  /\ IF entry \in connections
       THEN MonitorAt("mark") /\ UNCHANGED <<entries, entry, seen>>
       ELSE Leave("drive")
  /\ UNCHANGED <<tableVars, spawnVars, lockVars, openVars, trouble>>

\* A store in place of the compare_exchange.
MarkDrainingBlindly ==
  /\ monitor = "mark" /\ Leave("drive")
  /\ state' = [state EXCEPT ![entry] = "Draining"]
  /\ UNCHANGED <<connections, session, spawnVars, lockVars, openVars, trouble>>

\* and exchanges Active for Draining.
MarkDraining ==
  /\ monitor = "mark" /\ Leave("drive")
  /\ state' = [state EXCEPT ![entry] = IF @ = "Active" THEN "Draining" ELSE @]
  /\ UNCHANGED <<connections, session, spawnVars, lockVars, openVars, trouble>>

\* force_close_connection by the monitor
MonitorRemove ==
  /\ monitor = "remove" /\ connections' = connections \ {entry}
  /\ IF entry \in connections
       THEN MonitorAt("close") /\ UNCHANGED <<entries, entry, seen>>
       ELSE Leave("drive")
  /\ UNCHANGED <<state, session, spawnVars, lockVars, openVars, trouble>>

\* The entry is marked, its session left running.
MonitorCloseForgets ==
  /\ monitor = "close" /\ Leave("drive")
  /\ state' = [state EXCEPT ![entry] = "Closed"]
  /\ UNCHANGED <<connections, session, spawnVars, lockVars, openVars, trouble>>

MonitorClose ==
  /\ monitor = "close" /\ Leave("drive")
  /\ state' = [state EXCEPT ![entry] = "Closed"] /\ session' = ForceClosed(entry)
  /\ UNCHANGED <<connections, spawnVars, lockVars, openVars, trouble>>

\* schedule_replenishment_if_needed waits for the lock.
MonitorReplenish ==
  /\ monitor = "drive" /\ entries = {}
  /\ IF bootstrap_started
       THEN /\ spawn_lock = NoOne /\ spawn_lock' = "monitor"
            /\ replenish' = [Idle EXCEPT !.at = "count"] /\ MonitorAt("replenish")
       ELSE MonitorAt("tick") /\ UNCHANGED lockVars
  /\ UNCHANGED <<tableVars, spawnVars, openVars, entries, entry, seen, trouble>>

Monitor ==
  \/ Tick \/ Prune \/ PruneRemove \/ Drive \/ Look \/ Judge \/ Drain \/ MarkDraining
  \/ MonitorRemove \/ MonitorClose \/ MonitorReplenish

Next ==
  \/ Replenish \/ Monitor
  \/ \E c \in Conns : SessionFails(c) \/ Spawned(c) \/ ConnectFail(c)
  \/ \E o \in Openers : OpenStream(o) \/ Opening(o) \/ TimeOut(o) \/ PeerFin(o) \/ StreamEnd(o)

Spec == Init /\ [][Next]_vars

-----------------------------------------------------------------------------
\* The replenishment stays within the limit although it counts connections
\* and pending spawns at different times: pending_spawns counts the tasks that
\* have not finished, acquire_waiters the calls of open_stream that have not
\* returned, and the table never has more than max_live_connections live
\* entries.
LiveBounded ==
  /\ pending_spawns = Cardinality({c \in Conns : spawn[c] # "none"})
  /\ acquire_waiters =
       Cardinality({o \in Openers : opener[o] \notin {"idle", "streaming", "sending", "over"}})
  /\ Cardinality({c \in connections : session[c] # "closed"}) <= max_live_connections

\* No running session escapes the pool: one that is neither being registered
\* nor in the table is about to be closed by the task that removed it.
SessionsOwned ==
  \A c \in Conns : session[c] = "alive" =>
    \/ c \in connections \/ spawn[c] = "registering"
    \/ monitor = "close" /\ entry = c
    \/ \E o \in Openers : opener[o] = "close" /\ chosen[o] = c

Backward == {<<"Draining", "Active">>, <<"Closed", "Active">>, <<"Closed", "Draining">>}

\* A connection's state only advances, whoever of the monitor and the openers
\* acts last on it, and the pool never closes a healthy connection it has not
\* drained: an active one is marked closed only after its session has ended
\* or begun to close.
StateAdvances ==
  [][\A c \in Conns :
       /\ <<state[c], state'[c]>> \notin Backward
       /\ state[c] = "Active" /\ state'[c] = "Closed" => session[c] # "alive"]_vars

\* What the two properties above rest on.  The holder of spawn_lock is where its
\* call left it;
LockHeld ==
  /\ spawn_lock \in Openers => opener[spawn_lock] \in {"first", "second"}
  /\ spawn_lock = "monitor" => monitor = "replenish"

\* a connection anybody knows is past its registration, one that is not past it
\* has no state yet;
KnownRegistered ==
  /\ \A c \in connections \cup entries : spawn[c] \in {"none", "done"}
  /\ entry # NoConn => spawn[entry] \in {"none", "done"}
  /\ \A o \in Openers : chosen[o] # NoConn => spawn[chosen[o]] \in {"none", "done"}
  /\ \A c \in Conns : spawn[c] \in {"connecting", "registering"} => state[c] = "none"

\* and whoever is about to remove or close one has found it dead or drained.
ClosedForReason ==
  /\ \A c \in Conns : state[c] = "Closed" => session[c] # "alive"
  /\ monitor = "prune_remove" => session[entry] # "alive"
  /\ monitor \in {"remove", "close"} => session[entry] # "alive" \/ state[entry] # "Active"
  /\ \A o \in Openers : opener[o] \in {"remove", "close"} => session[chosen[o]] # "alive"

OpenerPlaces ==
  {"idle", "start", "first", "select", "open", "register", "failed", "remove", "close", "again",
   "second", "wait", "streaming", "sending", "over"}

\* Types; the monitor's entry and an opener's connection exist where they are used.
TypeOK ==
  /\ connections \subseteq Conns /\ entries \subseteq Conns
  /\ state \in [Conns -> {"none", "Active", "Draining", "Closed"}]
  /\ session \in [Conns -> {"none", "alive", "closing", "closed"}]
  /\ spawn \in [Conns -> {"none", "connecting", "registering", "done"}]
  /\ opener \in [Openers -> OpenerPlaces] /\ chosen \in [Openers -> Conns \cup {NoConn}]
  /\ entry \in IF monitor \in {"tick", "prune", "drive", "replenish"} THEN {NoConn} ELSE Conns
  /\ \A o \in Openers :
       opener[o] \in {"open", "register", "failed", "remove", "close"} => chosen[o] \in Conns

\* The inductive invariant of PoolProofs.
IndInv == TypeOK /\ LockHeld /\ KnownRegistered /\ ClosedForReason /\ SessionsOwned

\* Draining does not cut off a transfer: the pool closes no running session
\* on which some task still has a stream.
DrainSpares ==
  [][\A o \in Openers :
       /\ opener[o] \in {"streaming", "sending"}
       /\ session[chosen[o]] = "alive" /\ session'[chosen[o]] = "closed"
       => trouble' # trouble]_vars
=============================================================================
