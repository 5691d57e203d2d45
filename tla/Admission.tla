----------------------------- MODULE Admission -----------------------------
(***************************************************************************)
(* How the server admits connections (tunnel/src/server): server_accept    *)
(* with its limits, the two caches of replay.rs that make every hello good *)
(* for one session, and the transparent forwarding of fallback.rs for all  *)
(* other connections.                                                      *)
(*                                                                         *)
(* Connections run concurrently.  A step ends where a lock is released or  *)
(* an await may suspend the task, so the check of a counter and its        *)
(* commit, the semaphore and the per-address count of a forwarding permit  *)
(* are separate steps.  Cryptography is a property of the hello: genuine   *)
(* ones carry a counter (key and sequence number) and an ephemeral key.    *)
(***************************************************************************)
EXTENDS SlidingWindow, Sequences, SequencesExt, FiniteSets

CONSTANTS
  Conns,            \* connection attempts
  Keys, Ephemerals, Addresses,
  key, seq, eph,    \* the counter and ephemeral key in a connection's hello
  ip,               \* the address it comes from
  hello,            \* "genuine", "other_sni", or "foreign" (anything else)
  MaxHandshakes, MaxSessions, MaxFallbacks, MaxFallbacksPerIp,
  CounterEntries,   \* MAX_COUNTER_CACHE_ENTRIES
  ReplayEntries     \* MAX_REPLAY_CACHE_ENTRIES

ASSUME AdmissionAssumption ==
  /\ key \in [Conns -> Keys]
  /\ seq \in [Conns -> Nat]
  /\ eph \in [Conns -> Ephemerals]
  /\ ip \in [Conns -> Addresses]
  /\ hello \in [Conns -> {"genuine", "other_sni", "foreign"}]
  /\ {MaxHandshakes, MaxSessions, MaxFallbacks, MaxFallbacksPerIp, CounterEntries,
      ReplayEntries} \subseteq Nat \ {0}

VARIABLES
  pc,              \* where a connection's task is
  handshakes,      \* permits left in HANDSHAKE_LIMITER
  sessions,        \* permits left in ACTIVE_SESSION_LIMITER
  fallbacks,       \* permits left in PRE_AUTH_FALLBACK_LIMITER
  peer_counts,     \* PRE_AUTH_FALLBACK_PEER_COUNTS
  windows,         \* COUNTER_CACHE: the windows
  counter_lru,     \* and its keys, the least recently used first
  replay_cache,    \* REPLAY_CACHE: the keys, the oldest first
  committed        \* numbers committed since the key's window was created

vars == <<pc, handshakes, sessions, fallbacks, peer_counts, windows, counter_lru,
          replay_cache, committed>>

limitVars == <<handshakes, sessions, fallbacks, peer_counts>>
cacheVars == <<windows, counter_lru, replay_cache, committed>>

NoWindow == [highest_seq |-> 0, bitmap |-> {}]

Init ==
  /\ pc = [c \in Conns |-> "accepted"]
  /\ handshakes = MaxHandshakes
  /\ sessions = MaxSessions
  /\ fallbacks = MaxFallbacks
  /\ peer_counts = [a \in Addresses |-> 0]
  /\ windows = [k \in Keys |-> NoWindow]
  /\ counter_lru = <<>>
  /\ replay_cache = <<>>
  /\ committed = [k \in Keys |-> {}]

Goto(c, l) == pc' = [pc EXCEPT ![c] = l]

\* The map of the LruCache; counter_lru is its recency list.
Cached(k) == windows[k] # NoWindow

\* LruCache::get and get_mut move the key to the recent end.
Touch(k) == Append(SelectSeq(counter_lru, LAMBDA x : x # k), k)

-----------------------------------------------------------------------------
(* server_accept *)

\* The handshake permit; without one the connection is drained and closed.
AcquireHandshake(c) ==
  /\ pc[c] = "accepted"
  /\ IF handshakes > 0
     THEN handshakes' = handshakes - 1 /\ Goto(c, "reading")
     ELSE handshakes' = handshakes /\ Goto(c, "draining")
  /\ UNCHANGED <<sessions, fallbacks, peer_counts, cacheVars>>

\* The first record.  A client that is gone ends the task; a record that does
\* not arrive in time, or is not the hello of a user, is forwarded.
ReadHello(c) ==
  /\ pc[c] = "reading"
  /\ \/ handshakes' = handshakes + 1 /\ Goto(c, "closed")
     \/ handshakes' = handshakes + 1 /\ Goto(c, "fallback")
     \/ hello[c] # "foreign" /\ handshakes' = handshakes /\ Goto(c, "check")
  /\ UNCHANGED <<sessions, fallbacks, peer_counts, cacheVars>>

\* check_counter_replay; a number it refuses fails the authentication.
CheckCounterReplay(c) ==
  /\ pc[c] = "check"
  /\ counter_lru' = IF Cached(key[c]) THEN Touch(key[c]) ELSE counter_lru
  /\ IF Cached(key[c]) /\ ~Check(windows[key[c]], seq[c])
     THEN handshakes' = handshakes + 1 /\ Goto(c, "fallback")
     ELSE handshakes' = handshakes /\ Goto(c, "replay")
  /\ UNCHANGED <<sessions, fallbacks, peer_counts, windows, replay_cache, committed>>

\* is_replay: drop what is past its retention (how much that is, is a matter
\* of time), refuse a known ephemeral key and remember a new one; the oldest
\* entry goes when the cache is full.  The SNI is compared last.
IsReplay(c) ==
  /\ pc[c] = "replay"
  /\ \E expired \in 0 .. Len(replay_cache) :
       LET live == SubSeq(replay_cache, expired + 1, Len(replay_cache))
           known == eph[c] \in ToSet(live)
       IN  /\ replay_cache' =
                IF known THEN live
                ELSE Append(IF Len(live) = ReplayEntries THEN Tail(live) ELSE live, eph[c])
           /\ Goto(c, IF known \/ hello[c] = "other_sni" THEN "fallback" ELSE "admit")
  /\ handshakes' = handshakes + 1
  /\ UNCHANGED <<sessions, fallbacks, peer_counts, windows, counter_lru, committed>>

\* The session permit; without one the connection is forwarded.
AcquireSession(c) ==
  /\ pc[c] = "admit"
  /\ IF sessions > 0
     THEN sessions' = sessions - 1 /\ Goto(c, "commit")
     ELSE sessions' = sessions /\ Goto(c, "fallback")
  /\ UNCHANGED <<handshakes, fallbacks, peer_counts, cacheVars>>

\* A commit that trusts the earlier check.
CommitUnchecked(c) ==
  /\ pc[c] = "commit"
  /\ LET k == key[c]
         evicted == IF Cached(k) \/ Len(counter_lru) < CounterEntries THEN {}
                    ELSE {Head(counter_lru)}
     IN  /\ windows' = [x \in Keys |->
                          IF x \in evicted THEN NoWindow
                          ELSE IF x # k THEN windows[x]
                          ELSE IF Cached(k) THEN Commit(windows[k], seq[c])
                          ELSE NewWindow(seq[c])]
         /\ committed' = [x \in Keys |->
                            IF x \in evicted THEN {}
                            ELSE IF x # k THEN committed[x]
                            ELSE committed[x] \cup {seq[c]}]
         /\ counter_lru' = Append(SelectSeq(counter_lru, LAMBDA x : x # k /\ x \notin evicted), k)
         /\ Goto(c, "tunnel")
         /\ UNCHANGED <<sessions, replay_cache>>
  /\ UNCHANGED <<handshakes, fallbacks, peer_counts>>

\* commit_counter_replay: the number may have been taken since the check;
\* then the connection just ends.  A new key evicts the least recently used.
CommitCounterReplay(c) ==
  /\ pc[c] = "commit"
  /\ LET k == key[c]
         evicted == IF Cached(k) \/ Len(counter_lru) < CounterEntries THEN {}
                    ELSE {Head(counter_lru)}
     IN  IF Cached(k) /\ ~Check(windows[k], seq[c])
         THEN /\ sessions' = sessions + 1
              /\ counter_lru' = Touch(k)
              /\ Goto(c, "closed")
              /\ UNCHANGED <<windows, committed, replay_cache>>
         ELSE /\ windows' = [x \in Keys |->
                               IF x \in evicted THEN NoWindow
                               ELSE IF x # k THEN windows[x]
                               ELSE IF Cached(k) THEN Commit(windows[k], seq[c])
                               ELSE NewWindow(seq[c])]
              /\ committed' = [x \in Keys |->
                                 IF x \in evicted THEN {}
                                 ELSE IF x # k THEN committed[x]
                                 ELSE committed[x] \cup {seq[c]}]
              /\ counter_lru' =
                   Append(SelectSeq(counter_lru, LAMBDA x : x # k /\ x \notin evicted), k)
              /\ Goto(c, "tunnel")
              /\ UNCHANGED <<sessions, replay_cache>>
  /\ UNCHANGED <<handshakes, fallbacks, peer_counts>>

\* establish_synthetic_camouflage_tunnel and consume_client_flight3_ghost
\* succeed, or fail and drop the session permit with the connection.
Establish(c) ==
  /\ pc[c] = "tunnel"
  /\ \/ sessions' = sessions /\ Goto(c, "session")
     \/ sessions' = sessions + 1 /\ Goto(c, "closed")
  /\ UNCHANGED <<handshakes, fallbacks, peer_counts, cacheVars>>

\* The SnowyStream, which owns the permit, is dropped.
EndSession(c) ==
  /\ pc[c] = "session"
  /\ sessions' = sessions + 1
  /\ Goto(c, "closed")
  /\ UNCHANGED <<handshakes, fallbacks, peer_counts, cacheVars>>

-----------------------------------------------------------------------------
(* fallback.rs *)

\* try_acquire_pre_auth_fallback_permit: the semaphore first, unless the
\* client is gone ...
AcquireFallback(c) ==
  /\ pc[c] = "fallback"
  /\ \/ fallbacks > 0 /\ fallbacks' = fallbacks - 1 /\ Goto(c, "count")
     \/ fallbacks' = fallbacks /\ Goto(c, "draining")
  /\ UNCHANGED <<handshakes, sessions, peer_counts, cacheVars>>

\* ... then the address's count; over its limit, the semaphore permit is
\* dropped again.
CountPeer(c) ==
  /\ pc[c] = "count"
  /\ IF peer_counts[ip[c]] >= MaxFallbacksPerIp
     THEN /\ fallbacks' = fallbacks + 1
          /\ Goto(c, "draining")
          /\ UNCHANGED peer_counts
     ELSE /\ peer_counts' = [peer_counts EXCEPT ![ip[c]] = @ + 1]
          /\ fallbacks' = fallbacks
          /\ Goto(c, "relay")
  /\ UNCHANGED <<handshakes, sessions, cacheVars>>

\* The relay to the camouflage host ends, or never came about (then the
\* client is drained and closed); either way the permit is dropped: the
\* address's count in Drop for PreAuthFallbackPermit, the semaphore after it.
UncountPeer(c) ==
  /\ pc[c] = "relay"
  /\ peer_counts' = [peer_counts EXCEPT ![ip[c]] = @ - 1]
  /\ \/ Goto(c, "release") \/ Goto(c, "release_failed")
  /\ UNCHANGED <<handshakes, sessions, fallbacks, cacheVars>>

ReleaseFallbackForgotten(c) ==
  /\ pc[c] \in {"release", "release_failed"}
  /\ fallbacks' = IF pc[c] = "release" THEN fallbacks + 1 ELSE fallbacks
  /\ Goto(c, IF pc[c] = "release" THEN "closed" ELSE "draining")
  /\ UNCHANGED <<handshakes, sessions, peer_counts, cacheVars>>

ReleaseFallback(c) ==
  /\ pc[c] \in {"release", "release_failed"}
  /\ fallbacks' = fallbacks + 1
  /\ Goto(c, IF pc[c] = "release" THEN "closed" ELSE "draining")
  /\ UNCHANGED <<handshakes, sessions, peer_counts, cacheVars>>

\* emit_indistinguishable_close: a bounded drain, then close.
Drain(c) ==
  /\ pc[c] = "draining"
  /\ Goto(c, "closed")
  /\ UNCHANGED <<limitVars, cacheVars>>

Step(c) ==
  \/ AcquireHandshake(c) \/ ReadHello(c) \/ CheckCounterReplay(c) \/ IsReplay(c)
  \/ AcquireSession(c) \/ CommitCounterReplay(c) \/ Establish(c) \/ EndSession(c)
  \/ AcquireFallback(c) \/ CountPeer(c) \/ UncountPeer(c) \/ ReleaseFallback(c) \/ Drain(c)

Next == \E c \in Conns : Step(c)

Spec == Init /\ [][Next]_vars

-----------------------------------------------------------------------------
(* Properties. *)

InHandshake == {"reading", "check", "replay"}
InSession == {"commit", "tunnel", "session"}
InFallback == {"count", "relay", "release", "release_failed"}
PCs == {"accepted", "admit", "fallback", "draining", "closed"}
         \cup InHandshake \cup InSession \cup InFallback

At(ls) == {c \in Conns : pc[c] \in ls}

\* No permit is lost or returned twice, on any path: what each limiter has
\* given out is what the connections in its section hold, and the count of an
\* address is the number of its connections being forwarded, within
\* max_pre_auth_fallbacks_per_ip.  Nor does a cache exceed its capacity or
\* hold a key twice, and its recency list names the cached windows.
LimitsKept ==
  /\ handshakes >= 0 /\ handshakes + Cardinality(At(InHandshake)) = MaxHandshakes
  /\ sessions >= 0 /\ sessions + Cardinality(At(InSession)) = MaxSessions
  /\ fallbacks >= 0 /\ fallbacks + Cardinality(At(InFallback)) = MaxFallbacks
  /\ \A a \in Addresses :
       /\ peer_counts[a] = Cardinality({c \in At({"relay"}) : ip[c] = a})
       /\ peer_counts[a] <= MaxFallbacksPerIp
  /\ Len(counter_lru) <= CounterEntries /\ IsInjective(counter_lru)
  /\ ToSet(counter_lru) = {k \in Keys : Cached(k)}
  /\ Len(replay_cache) <= ReplayEntries /\ IsInjective(replay_cache)

\* A window knows exactly which of the last W numbers were committed, and
\* that none above its highest was.
WindowExact ==
  \A k \in Keys :
    Cached(k) =>
      /\ windows[k].highest_seq \in committed[k]
      /\ \A n \in committed[k] : n <= windows[k].highest_seq
      /\ \A o \in 0 .. W - 1 :
           o \in windows[k].bitmap <=> (windows[k].highest_seq - o) \in committed[k]

\* No sequence number is committed a second time while its key's window is
\* cached, however the checks and commits of connections interleave.
NeverTwice ==
  [][\A c \in Conns :
       pc[c] = "commit" /\ pc'[c] = "tunnel" => seq[c] \notin committed[key[c]]]_vars

\* A number inside the window that nobody used passes: hellos that overtake
\* each other on the way are all served.
FreshServed ==
  [][\A c \in Conns :
       pc[c] = "check" /\ pc'[c] = "fallback" =>
         \/ seq[c] \in committed[key[c]]
         \/ \E n \in committed[key[c]] : n - seq[c] >= W]_vars
============================================================================
