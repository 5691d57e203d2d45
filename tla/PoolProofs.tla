----------------------------- MODULE PoolProofs -----------------------------
(***************************************************************************)
(* For any number of connections and openers: no running session escapes   *)
(* the pool, and the states of connections only advance.                   *)
(***************************************************************************)
EXTENDS Pool, TLAPS

\* A new pool satisfies the invariant.
LEMMA InitIndInv == Init => IndInv
<1> SUFFICES ASSUME Init PROVE IndInv
  OBVIOUS
<1> USE DEF Init
<1>1. TypeOK
  BY DEF TypeOK, OpenerPlaces
<1>2. LockHeld
  BY PoolAssumption DEF LockHeld, PoolAssumption
<1>3. KnownRegistered /\ ClosedForReason /\ SessionsOwned
  BY DEF KnownRegistered, ClosedForReason, SessionsOwned
<1> QED BY <1>1, <1>2, <1>3 DEF IndInv

\* The end of a call of replenish_locked moves only the holder of the lock.
LEMMA ReleaseMoves ==
  ASSUME IndInv, Release
  PROVE  /\ LockHeld' /\ opener' \in [Openers -> OpenerPlaces]
         /\ monitor' # monitor => monitor = "replenish" /\ monitor' = "tick"
         /\ \A o \in Openers : opener'[o] # opener[o] =>
              opener[o] \in {"first", "second"} /\ opener'[o] \in {"select", "wait"}
<1> USE PoolAssumption DEF IndInv, TypeOK, OpenerPlaces, LockHeld, PoolAssumption
<1>1. CASE spawn_lock = "monitor"
  BY <1>1 DEF Release
<1>2. CASE spawn_lock # "monitor"
  <2>1. /\ monitor' = monitor /\ spawn_lock' = NoOne
        /\ opener' = [opener EXCEPT ![spawn_lock] = IF @ = "first" THEN "select" ELSE "wait"]
    BY <1>2 DEF Release
  <2> QED BY <2>1
<1> QED BY <1>1, <1>2

\* The steps of the replenishment keep it.
LEMMA ReplenishIndInv ==
  ASSUME IndInv, Replenish
  PROVE  IndInv'
<1> USE DEF tableVars, spawnVars, lockVars, openVars, monitorVars
<1>1. CASE ReplenishCount \/ ReplenishRecount
  BY <1>1 DEF IndInv, TypeOK, LockHeld, KnownRegistered, ClosedForReason, SessionsOwned,
              ReplenishCount, ReplenishRecount
<1>2. CASE ReplenishDecide
  <2>1. \/ Release
        \/ UNCHANGED <<spawn_lock, opener, monitor>>
    BY <1>2 DEF ReplenishDecide
  <2>2. UNCHANGED <<connections, state, session, spawn, chosen, entries, entry>>
    BY <1>2 DEF ReplenishDecide
  <2>3. CASE Release
    BY <2>2, <2>3, ReleaseMoves
       DEF IndInv, TypeOK, KnownRegistered, ClosedForReason, SessionsOwned
  <2>4. CASE UNCHANGED <<spawn_lock, opener, monitor>>
    BY <2>2, <2>4 DEF IndInv, TypeOK, LockHeld, KnownRegistered, ClosedForReason, SessionsOwned
  <2> QED BY <2>1, <2>3, <2>4
<1>3. CASE ReplenishSpawn
  <2>1. PICK new \in SUBSET {c \in Conns : Unused(c)} :
          /\ spawn' = [c \in Conns |-> IF c \in new THEN "connecting" ELSE spawn[c]]
          /\ session' = [c \in Conns |-> IF c \in new THEN "none" ELSE session[c]]
          /\ state' = [c \in Conns |-> IF c \in new THEN "none" ELSE state[c]]
    <3> DEFINE count == Least(replenish.missing,
                              Monus(max_live_connections, replenish.live + pending_spawns))
               unused == {c \in Conns : Unused(c)}
               new == CHOOSE S \in kSubset(count, unused) : TRUE
    <3>1. /\ new \subseteq unused
          /\ spawn' = [c \in Conns |-> IF c \in new THEN "connecting" ELSE spawn[c]]
          /\ session' = [c \in Conns |-> IF c \in new THEN "none" ELSE session[c]]
          /\ state' = [c \in Conns |-> IF c \in new THEN "none" ELSE state[c]]
      BY <1>3, Zenon DEF ReplenishSpawn
    <3>2. new \in SUBSET unused
      BY <3>1, Zenon
    <3> QED BY <3>1, <3>2, Zenon
  <2>2. Release /\ UNCHANGED <<connections, chosen, entries, entry>>
    BY <1>3 DEF ReplenishSpawn
  <2>3. TypeOK' /\ LockHeld'
    BY <2>1, <2>2, ReleaseMoves DEF IndInv, TypeOK
  <2>4. KnownRegistered'
    <3>1. /\ \A c \in connections \cup entries : c \in Conns /\ c \notin new
          /\ entry \notin new /\ \A o \in Openers : chosen[o] \notin new
      BY <2>1 DEF IndInv, TypeOK, Unused
    <3>2. \A c \in Conns : c \notin new => spawn'[c] = spawn[c] /\ state'[c] = state[c]
      BY <2>1
    <3>3. \A c \in new : state'[c] = "none"
      BY <2>1
    <3> QED BY <2>2, <3>1, <3>2, <3>3 DEF IndInv, TypeOK, KnownRegistered
  <2>5. ClosedForReason'
    BY <2>1, <2>2, ReleaseMoves DEF IndInv, TypeOK, ClosedForReason, Unused
  <2>6. SessionsOwned'
    BY <2>1, <2>2, ReleaseMoves, SMTT(30) DEF IndInv, TypeOK, SessionsOwned, Unused
  <2> QED BY <2>3, <2>4, <2>5, <2>6 DEF IndInv
<1> QED BY <1>1, <1>2, <1>3 DEF Replenish

\* The tasks that establish connections keep it, and so does the end of a session.
LEMMA SpawnIndInv ==
  ASSUME IndInv, NEW c \in Conns, Spawned(c) \/ ConnectFail(c) \/ SessionFails(c)
  PROVE  IndInv'
<1> USE PoolAssumption
    DEF PoolAssumption, IndInv, TypeOK, OpenerPlaces, LockHeld, KnownRegistered, ClosedForReason,
        SessionsOwned, tableVars, spawnVars, lockVars, openVars, monitorVars, SpawnAt, ForceClosed
<1>1. CASE ConnectOk(c)
  BY <1>1 DEF ConnectOk
<1>2. CASE Register(c)
  BY <1>2 DEF Register
<1>3. CASE Registered(c)
  BY <1>3 DEF Registered
<1>4. CASE ConnectFail(c)
  BY <1>4 DEF ConnectFail
<1>5. CASE SessionFails(c)
  BY <1>5, SMTT(30) DEF SessionFails
<1> QED BY <1>1, <1>2, <1>3, <1>4, <1>5 DEF Spawned

\* The steps of a call of open_stream and of a stream keep it.
LEMMA OpenIndInv ==
  ASSUME IndInv, NEW o \in Openers,
         OpenStream(o) \/ Opening(o) \/ TimeOut(o) \/ PeerFin(o) \/ StreamEnd(o)
  PROVE  IndInv'
<1> USE PoolAssumption
    DEF PoolAssumption, IndInv, TypeOK, OpenerPlaces, LockHeld, KnownRegistered, ClosedForReason,
        SessionsOwned, tableVars, spawnVars, lockVars, openVars, monitorVars, OpenerAt, Choose, ForceClosed, TryReplenish
<1>1. CASE OpenStream(o)
  BY <1>1 DEF OpenStream
<1>2. CASE EnsureStarted(o)
  BY <1>2 DEF EnsureStarted
<1>3. CASE SelectActive(o)
  BY <1>3 DEF SelectActive
<1>4. CASE OpenCheck(o)
  BY <1>4 DEF OpenCheck
<1>5. CASE OpenRegister(o)
  BY <1>5 DEF OpenRegister
<1>6. CASE OpenFailed(o)
  BY <1>6 DEF OpenFailed
<1>7. CASE OpenerRemove(o)
  BY <1>7 DEF OpenerRemove
<1>8. CASE OpenerClose(o)
  BY <1>8 DEF OpenerClose
<1>9. CASE OpenAgain(o)
  BY <1>9 DEF OpenAgain
<1>10. CASE Retry(o)
  BY <1>10 DEF Retry
<1>11. CASE TimeOut(o)
  BY <1>11 DEF TimeOut
<1>12. CASE PeerFin(o)
  BY <1>12 DEF PeerFin
<1>13. CASE StreamEnd(o)
  BY <1>13, SMTT(30) DEF StreamEnd
<1> QED BY <1>1, <1>2, <1>3, <1>4, <1>5, <1>6, <1>7, <1>8, <1>9, <1>10, <1>11, <1>12, <1>13 DEF Opening

\* The monitor keeps it.
LEMMA MonitorIndInv ==
  ASSUME IndInv, Monitor
  PROVE  IndInv'
<1> USE PoolAssumption
    DEF PoolAssumption, IndInv, TypeOK, OpenerPlaces, LockHeld, KnownRegistered, ClosedForReason,
        SessionsOwned, tableVars, spawnVars, lockVars, openVars, monitorVars, MonitorAt, Visit, Leave, ForceClosed, Live
<1>1. CASE Tick
  BY <1>1 DEF Tick
<1>2. CASE Prune
  BY <1>2 DEF Prune
<1>3. CASE PruneRemove
  BY <1>3 DEF PruneRemove
<1>4. CASE Drive
  BY <1>4 DEF Drive
<1>5. CASE Look
  BY <1>5 DEF Look
<1>6. CASE Judge
  BY <1>6 DEF Judge
<1>7. CASE Drain
  BY <1>7 DEF Drain
<1>8. CASE MarkDraining
  BY <1>8 DEF MarkDraining
<1>9. CASE MonitorRemove
  BY <1>9 DEF MonitorRemove
<1>10. CASE MonitorClose
  BY <1>10 DEF MonitorClose
<1>11. CASE MonitorReplenish
  BY <1>11 DEF MonitorReplenish
<1> QED BY <1>1, <1>2, <1>3, <1>4, <1>5, <1>6, <1>7, <1>8, <1>9, <1>10, <1>11 DEF Monitor

\* Every step keeps the invariant.
LEMMA NextIndInv == IndInv /\ [Next]_vars => IndInv'
<1> SUFFICES ASSUME IndInv, [Next]_vars PROVE IndInv'
  OBVIOUS
<1>1. CASE Next
  BY <1>1, ReplenishIndInv, SpawnIndInv, OpenIndInv, MonitorIndInv DEF Next
<1>2. CASE UNCHANGED vars
  BY <1>2 DEF vars, tableVars, spawnVars, lockVars, openVars, monitorVars, IndInv, TypeOK,
              LockHeld, KnownRegistered, ClosedForReason, SessionsOwned
<1> QED BY <1>1, <1>2

\* No running session escapes the pool: for every number of openers, connections
\* and failures, a session that is alive is in the table, about to be registered,
\* or in the hands of the task that removed it and closes it next.
THEOREM SessionsAreOwned == Spec => []SessionsOwned
<1>1. IndInv => SessionsOwned
  BY DEF IndInv
<1> QED BY InitIndInv, NextIndInv, <1>1, PTL DEF Spec

\* What one step may do to a connection.
Advances(c) ==
  /\ <<state[c], state'[c]>> \notin Backward
  /\ state[c] = "Active" /\ state'[c] = "Closed" => session[c] # "alive"

\* States only advance, and only a connection whose session is at an end or that
\* was drained is marked closed.
LEMMA NextAdvances ==
  ASSUME IndInv, Next, NEW c \in Conns
  PROVE  Advances(c)
<1> USE DEF Advances, Backward, tableVars, spawnVars, lockVars, openVars, monitorVars
<1>1. CASE state' = state
  BY <1>1 DEF IndInv, TypeOK
<1>2. CASE ReplenishSpawn
  <2>1. state'[c] \in {state[c], "none"}
    <3> DEFINE count == Least(replenish.missing,
                              Monus(max_live_connections, replenish.live + pending_spawns))
               new == CHOOSE S \in kSubset(count, {d \in Conns : Unused(d)}) : TRUE
    <3>1. state' = [d \in Conns |-> IF d \in new THEN "none" ELSE state[d]]
      BY <1>2, Zenon DEF ReplenishSpawn
    <3> HIDE DEF new
    <3> QED BY <3>1
  <2> QED BY <2>1 DEF IndInv, TypeOK
<1>3. ASSUME NEW d \in Conns, Register(d)
      PROVE  Advances(c)
  BY <1>3 DEF Register, IndInv, TypeOK, KnownRegistered
<1>4. ASSUME NEW o \in Openers, OpenerClose(o)
      PROVE  Advances(c)
  BY <1>4 DEF OpenerClose, IndInv, TypeOK, ClosedForReason
<1>5. CASE Prune
  BY <1>5 DEF Prune, Live, IndInv, TypeOK
<1>6. CASE MarkDraining
  BY <1>6 DEF MarkDraining, IndInv, TypeOK
<1>7. CASE MonitorClose
  BY <1>7 DEF MonitorClose, IndInv, TypeOK, ClosedForReason
<1>8. \/ state' = state \/ ReplenishSpawn \/ Prune \/ MarkDraining \/ MonitorClose
      \/ \E d \in Conns : Register(d)
      \/ \E o \in Openers : OpenerClose(o)
  <2>1. CASE Replenish
    BY <2>1 DEF Replenish, ReplenishCount, ReplenishDecide, ReplenishRecount
  <2>2. CASE Monitor
    BY <2>2 DEF Monitor, Tick, PruneRemove, Drive, Look, Judge, Drain, MonitorRemove,
                MonitorReplenish
  <2>3. ASSUME NEW d \in Conns, SessionFails(d) \/ Spawned(d) \/ ConnectFail(d)
        PROVE  state' = state \/ Register(d)
    BY <2>3, SMTT(30) DEF SessionFails, Spawned, ConnectOk, Registered, ConnectFail
  <2>4. ASSUME NEW o \in Openers,
               OpenStream(o) \/ Opening(o) \/ TimeOut(o) \/ PeerFin(o) \/ StreamEnd(o)
        PROVE  state' = state \/ OpenerClose(o)
    BY <2>4 DEF OpenStream, Opening, EnsureStarted, SelectActive, OpenCheck, OpenRegister,
                OpenFailed, OpenerRemove, OpenAgain, Retry, TimeOut, PeerFin, StreamEnd
  <2> QED BY <2>1, <2>2, <2>3, <2>4 DEF Next
<1> QED BY <1>1, <1>2, <1>3, <1>4, <1>5, <1>6, <1>7, <1>8

\* A connection's state never goes back, and the pool closes no healthy connection
\* it has not drained, whatever monitor, openers and spawned tasks do at once.
THEOREM StatesAdvance == Spec => StateAdvances
<1>1. IndInv /\ [Next]_vars => [\A c \in Conns : Advances(c)]_vars
  BY NextAdvances
<1>2. Spec => [][\A c \in Conns : Advances(c)]_vars
  BY InitIndInv, NextIndInv, <1>1, PTL DEF Spec
<1> QED BY <1>2 DEF StateAdvances, Advances
=============================================================================
