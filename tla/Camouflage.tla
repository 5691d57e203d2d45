----------------------------- MODULE Camouflage -----------------------------
(***************************************************************************)
(* The server's cache of camouflage flights (tunnel/src/server/            *)
(* camouflage.rs).  Every authenticated connection answers its ClientHello *)
(* with a flight recorded from the camouflage endpoint.  The recordings    *)
(* are kept in pools, one per cache key, and refreshed by the connections  *)
(* themselves, one leader per fingerprint family at a time, and by a       *)
(* background daemon.                                                      *)
(*                                                                         *)
(* A profile keeps the sizes of the recorded application-data records, the *)
(* leading small ones apart, and the identity of the ServerHello records;  *)
(* timings, flags and the bytes themselves are left out.  Fingerprints     *)
(* stand for their families too: two fingerprints with the same first      *)
(* eight hex digits are not modelled.  A lock of the cache, of the         *)
(* failures or of the gates is held for one step.                          *)
(***************************************************************************)
EXTENDS Naturals, Sequences, FiniteSets
LOCAL INSTANCE FiniteSetsExt
LOCAL INSTANCE SequencesExt

CONSTANTS
    Conns,             \* authenticated connections, each runs fetch_camouflage_flight once
    Fingerprints,      \* stable fingerprints of the clients' hellos
    ProbeFingerprint,  \* the fingerprint of the server's own probe hello
    NoGate,            \* no refresh is in flight
    Flights,           \* the flights the endpoint may send: sequences of record sizes
    MinSize, MaxSize,  \* MIN/MAX_CAMOUFLAGE_APP_DATA_RECORD_LEN
    MinNoise,          \* MIN_NOISE_RESPONSE_RECORD_LEN
    MaxPrefix,         \* MAX_CAMOUFLAGE_PREFIX_APP_DATA_RECORDS
    MaxRecords,        \* MAX_CAMOUFLAGE_APP_DATA_RECORDS
    MaxVariants,       \* MAX_CAMOUFLAGE_PROFILE_VARIANTS
    StartupSamples,    \* STARTUP_CAMOUFLAGE_SAMPLE_COUNT
    MaxRefreshes,      \* bound: rounds of the daemon
    MaxExpiries,       \* bound: times a cool-down elapses
    MayCut             \* whether the endpoint's flight may stop early

VARIABLES
    cache,      \* CAMOUFLAGE_PROFILES: the pool of each key, oldest sample first
    failures,   \* CAMOUFLAGE_REFRESH_FAILURES, by family
    inflight,   \* CAMOUFLAGE_REFRESH_INFLIGHT: the leader whose gate is registered
    completed,  \* the gates (named by their leader) that are completed
    cleanups,   \* spawned tasks that will remove a gate from inflight
    pc,         \* where each connection is
    fp,         \* the fingerprint of each connection's hello
    loc,        \* the locals of fetch_camouflage_flight
    daemon,     \* the refresh daemon of the endpoint
    samples,    \* how many flights were recorded: names their ServerHello
    expiries    \* cool-downs elapsed so far

vars == <<cache, failures, inflight, completed, cleanups, pc, fp, loc, daemon,
          samples, expiries>>

ProfileKey(f) == <<"profile", f>>
FamilyKey(f) == <<"baseline", f>>
ProbeKey == <<"baseline", "probe">>
Keys == {ProfileKey(f) : f \in Fingerprints} \cup {FamilyKey(f) : f \in Fingerprints}
           \cup {ProbeKey}

\* camouflage_cache_keys, in the order of the lookup.
CacheKeys(f) == <<ProfileKey(f), FamilyKey(f), ProbeKey>>

-----------------------------------------------------------------------------
(* Profiles.  server is 0 when there are no server records.               *)

NoProfile == [server |-> 0, prefix |-> <<>>, sizes |-> <<>>]

Plausible(size) == MinSize <= size /\ size <= MaxSize

Take(s, n) == SubSeq(s, 1, IF Len(s) < n THEN Len(s) ELSE n)

sanitize_camouflage_profile(p) ==
    [p EXCEPT !.prefix = Take(SelectSeq(@, Plausible), MaxPrefix),
              !.sizes = Take(SelectSeq(@, Plausible), MaxRecords)]

\* A sample of one record only refreshes the first size of a longer profile.
MergeSizes(cached, sampled) ==
    IF Len(sampled) <= 1 /\ Len(cached) > 1
    THEN IF sampled = <<>> THEN cached ELSE [cached EXCEPT ![1] = sampled[1]]
    ELSE sampled

merge_camouflage_profile(cached, raw) ==
    LET sampled == sanitize_camouflage_profile(raw)
        empty == sampled.prefix = <<>> /\ sampled.sizes = <<>>
    IN  sanitize_camouflage_profile(
            [server |-> IF sampled.server # 0 THEN sampled.server ELSE cached.server,
             prefix |-> IF empty THEN cached.prefix ELSE sampled.prefix,
             sizes |-> IF empty THEN cached.sizes
                       ELSE MergeSizes(cached.sizes, sampled.sizes)])

camouflage_profile_rank(p) ==
    CASE p.server = 0 /\ p.sizes = <<>>       -> 0
      [] p.server = 0 /\ p.sizes # <<>>       -> 1
      [] p.server # 0 /\ Len(p.sizes) <= 1    -> 2
      [] p.server # 0 /\ Len(p.sizes) > 1     -> 3

is_complete_camouflage_profile(p) == camouflage_profile_rank(p) = 3

\* pick_best_camouflage_profile of two candidates: the first one wins a tie.
pick_best(p, q) ==
    IF camouflage_profile_rank(q) > camouflage_profile_rank(p) THEN q ELSE p

\* push_profile_variant: a known variant becomes the newest, the oldest one of
\* a full pool goes.
push_profile_variant(pool, raw) ==
    LET p == sanitize_camouflage_profile(raw)
        Other(q) == q # p
        grown == Append(SelectSeq(pool, Other), p)
    IN  IF Len(grown) > MaxVariants THEN Tail(grown) ELSE grown

BestRank(pool) == Max({0} \cup {camouflage_profile_rank(pool[i]) : i \in DOMAIN pool})

\* sample_camouflage_profile: any variant of the best rank.
sample_camouflage_profile(pool) ==
    IF BestRank(pool) = 0
    THEN {NoProfile}
    ELSE {pool[i] : i \in {j \in DOMAIN pool :
                              camouflage_profile_rank(pool[j]) = BestRank(pool)}}

-----------------------------------------------------------------------------
(* Recording a flight and replaying it.                                    *)

LeadingSmall(s) ==
    Min({i \in 1..(Len(s) + 1) : i > Len(s) \/ s[i] >= MinNoise}) - 1

\* A fast sample stops at the first record of the expected size.
StopsAt(flight, expected) ==
    Min({i \in 1..(Len(flight) + 1) :
            i > Len(flight) \/ i > MaxRecords \/ flight[i] = expected})

\* read_camouflage_server_records, the profiles it may return: the endpoint
\* sends one of its flights, all of it or, when it stalls or breaks, a part.
\* expected is 0 when the whole flight is to be sampled.
Recorded(flight, cut, expected, id) ==
    LET read == Take(flight, cut)
        sizes == Take(read, IF expected = 0 THEN MaxRecords ELSE StopsAt(read, expected))
    IN  [server |-> id,
         prefix |-> Take(sizes, Min({LeadingSmall(sizes), MaxPrefix})),
         sizes |-> Take(sizes, MaxRecords)]

read_camouflage_server_records(expected, id) ==
    UNION {{Recorded(flight, cut, expected, id) :
               cut \in IF MayCut THEN 0..Len(flight) ELSE {Len(flight)}} :
           flight \in Flights}

\* fallback_noise_response_record_len.
fallback_noise_response_record_len(sizes) ==
    LET largest == Max({0} \cup {sizes[i] : i \in DOMAIN sizes})
    IN  IF largest >= MinNoise THEN Min({largest, MaxSize}) ELSE MinNoise

\* The records of the Noise answer: the first one carries the answer and the
\* number of ghost records that follow it.
NoiseSizes(sizes) ==
    LET remaining == SubSeq(sizes, LeadingSmall(sizes) + 1, Len(sizes))
    IN  IF remaining = <<>> THEN <<fallback_noise_response_record_len(sizes)>> ELSE remaining

\* establish_synthetic_camouflage_tunnel: the application-data records a
\* connection that was given profile p puts on the wire.
Replayed(p) == p.prefix \o NoiseSizes(p.sizes)

-----------------------------------------------------------------------------
(* State.                                                                  *)

NoLocals == [i |-> 1, best |-> NoProfile, again |-> NoProfile, specific |-> NoProfile, family |-> NoProfile,
             base |-> NoProfile, flight |-> NoProfile, gate |-> NoGate, floor |-> 0]

\* validate_camouflage_tls13_flight: the server starts only when a sample of
\* its probe has application data; the pool those samples leave.
HasData(p) == p.sizes # <<>>

StartupPools ==
    LET Named(t) == [i \in 1..StartupSamples |-> [t[i] EXCEPT !.server = i]]
    IN  {FoldLeft(push_profile_variant, <<>>, SelectSeq(Named(t), HasData)) :
            t \in {u \in [1..StartupSamples -> read_camouflage_server_records(0, 0)] :
                      \E i \in 1..StartupSamples : HasData(u[i])}}

Init ==
    /\ \E pool \in StartupPools :
          cache = [k \in Keys |->
                     IF k \in {ProbeKey, ProfileKey(ProbeFingerprint)} THEN pool ELSE <<>>]
    /\ failures = [f \in Fingerprints |-> "none"]
    /\ inflight = [f \in Fingerprints |-> NoGate]
    /\ completed = {}
    /\ cleanups = {}
    /\ pc = [c \in Conns |-> "lookup"]
    /\ fp \in [Conns -> Fingerprints]
    /\ loc = [c \in Conns |-> NoLocals]
    /\ daemon = [pc |-> "none", fp |-> ProbeFingerprint, cached |-> NoProfile, rounds |-> 0]
    /\ samples = StartupSamples
    /\ expiries = 0

-----------------------------------------------------------------------------
(* fetch_camouflage_flight, one step per lock it takes or event it waits   *)
(* for.                                                                    *)

OwnRank(c) == Max({BestRank(cache[ProfileKey(fp[c])]), BestRank(cache[FamilyKey(fp[c])])})

\* A profile without server records cannot be replayed.
Ends(p) == IF p.server = 0 THEN "failed" ELSE "done"

Given(c, p) == [loc EXCEPT ![c] = [NoLocals EXCEPT !.flight = p, !.floor = loc[c].floor]]

Return(c, p) ==
    /\ pc' = [pc EXCEPT ![c] = Ends(p)]
    /\ loc' = Given(c, p)

\* lookup_cached_camouflage_profile, one key at a time: a complete profile ends
\* it, otherwise the best one so far is kept in local x.
LookupStep(c, x, next) ==
    \E p \in sample_camouflage_profile(cache[CacheKeys(fp[c])[loc[c].i]]) :
       LET over == is_complete_camouflage_profile(p) \/ loc[c].i = 3
       IN  /\ loc' = [loc EXCEPT ![c][x] = pick_best(@, p),
                                 ![c].i = IF over THEN 1 ELSE @ + 1,
                                 ![c].floor = IF loc[c].i = 1 /\ x = "best" THEN OwnRank(c) ELSE @]
           /\ pc' = [pc EXCEPT ![c] = IF over THEN next ELSE @]

\* floor only records, for the properties, how good the connection's own pools
\* were when it began.
Lookup(c) ==
    /\ pc[c] = "lookup"
    /\ LookupStep(c, "best", "specific")
    /\ UNCHANGED <<cache, failures, inflight, completed, cleanups, fp, daemon, samples, expiries>>

ReadSpecific(c) ==
    /\ pc[c] = "specific"
    /\ \E p \in sample_camouflage_profile(cache[ProfileKey(fp[c])]) :
          loc' = [loc EXCEPT ![c].specific = p]
    /\ pc' = [pc EXCEPT ![c] = "family"]
    /\ UNCHANGED <<cache, failures, inflight, completed, cleanups, fp, daemon, samples, expiries>>

ReadFamily(c) ==
    /\ pc[c] = "family"
    /\ \E p \in sample_camouflage_profile(cache[FamilyKey(fp[c])]) :
          loc' = [loc EXCEPT ![c].family = p]
    /\ pc' = [pc EXCEPT ![c] = "probe"]
    /\ UNCHANGED <<cache, failures, inflight, completed, cleanups, fp, daemon, samples, expiries>>

\* The read of the probe's pool and the decision after it: a complete profile
\* of the connection's own is used; the probe's is used when there is no own one.
ReadProbe(c) ==
    /\ pc[c] = "probe"
    /\ \E p \in sample_camouflage_profile(cache[ProbeKey]) :
          LET own == pick_best(loc[c].specific, loc[c].family)
          IN  \/ /\ is_complete_camouflage_profile(own)
                 /\ Return(c, own)
              \/ /\ own = NoProfile /\ is_complete_camouflage_profile(p)
                 /\ Return(c, p)
              \/ /\ ~is_complete_camouflage_profile(own)
                 /\ ~(own = NoProfile /\ is_complete_camouflage_profile(p))
                 /\ loc' = [loc EXCEPT ![c].base = own, ![c].specific = NoProfile,
                                       ![c].family = NoProfile]
                 /\ pc' = [pc EXCEPT ![c] = "cooldown"]
    /\ UNCHANGED <<cache, failures, inflight, completed, cleanups, fp, daemon, samples, expiries>>

\* camouflage_refresh_is_cooling_down: an old failure is forgotten.
CoolingDown(f) == failures[f] = "recent"

Forget(f) == failures' = [failures EXCEPT ![f] = IF @ = "old" THEN "none" ELSE @]

CheckCooldown(c) ==
    /\ pc[c] = "cooldown"
    /\ Forget(fp[c])
    /\ \/ CoolingDown(fp[c]) /\ Return(c, loc[c].best)
       \/ /\ ~CoolingDown(fp[c])
          /\ pc' = [pc EXCEPT ![c] = "gate"]
          /\ UNCHANGED loc
    /\ UNCHANGED <<cache, inflight, completed, cleanups, fp, daemon, samples, expiries>>


GateBusy(f) == inflight[f] # NoGate /\ inflight[f] \notin completed

\* acquire_camouflage_refresh_gate: a completed gate that is still registered is
\* replaced.  A follower remembers whose gate it waits on.
AcquireGate(c) ==
    /\ pc[c] = "gate"
    /\ \/ /\ GateBusy(fp[c])
          /\ pc' = [pc EXCEPT ![c] = "wait"]
          /\ loc' = [loc EXCEPT ![c].gate = inflight[fp[c]]]
          /\ UNCHANGED inflight
       \/ /\ ~GateBusy(fp[c])
          /\ inflight' = [inflight EXCEPT ![fp[c]] = c]
          /\ pc' = [pc EXCEPT ![c] = "read"]
          /\ loc' = [loc EXCEPT ![c].gate = c]
    /\ UNCHANGED <<cache, failures, completed, cleanups, fp, daemon, samples, expiries>>

\* A slip: the flag is read before the Notified future exists.
WaitGateLate(c) ==
    /\ pc[c] \in {"wait", "unset"}
    /\ pc' = [pc EXCEPT ![c] = CASE @ = "unset"                -> "asleep"
                                 [] loc[c].gate \in completed  -> "relook"
                                 [] OTHER                      -> "unset"]
    /\ UNCHANGED <<cache, failures, inflight, completed, cleanups, fp, loc, daemon, samples,
                   expiries>>

\* wait_for_camouflage_refresh_gate: the Notified future exists before the flag
\* is read, so a follower that goes to sleep is woken by the release.
WaitGate(c) ==
    /\ pc[c] = "wait"
    /\ pc' = [pc EXCEPT ![c] = IF loc[c].gate \in completed THEN "relook" ELSE "asleep"]
    /\ UNCHANGED <<cache, failures, inflight, completed, cleanups, fp, loc, daemon, samples,
                   expiries>>

Relook(c) ==
    /\ pc[c] = "relook"
    /\ LookupStep(c, "again", "relooked")
    /\ UNCHANGED <<cache, failures, inflight, completed, cleanups, fp, daemon, samples, expiries>>

\* What a follower does with its second lookup: only without any profile does
\* it look at the cool-down and sample by itself.
Relooked(c) ==
    /\ pc[c] = "relooked"
    /\ IF loc[c].again.server # 0 \/ CoolingDown(fp[c])
       THEN Return(c, loc[c].again)
       ELSE pc' = [pc EXCEPT ![c] = "read"] /\ UNCHANGED loc
    /\ IF loc[c].again.server # 0 THEN UNCHANGED failures ELSE Forget(fp[c])
    /\ UNCHANGED <<cache, inflight, completed, cleanups, fp, daemon, samples, expiries>>

FirstSize(p) == IF p.sizes = <<>> THEN 0 ELSE p.sizes[1]

\* The sample succeeds: clear_camouflage_refresh_failure.
ReadOk(c) ==
    /\ pc[c] = "read"
    /\ \E p \in read_camouflage_server_records(FirstSize(loc[c].base), samples + 1) :
          loc' = [loc EXCEPT ![c].flight = p]
    /\ samples' = samples + 1
    /\ failures' = [failures EXCEPT ![fp[c]] = "none"]
    /\ pc' = [pc EXCEPT ![c] = IF loc[c].base = NoProfile THEN "store" ELSE "merge"]
    /\ UNCHANGED <<cache, inflight, completed, cleanups, fp, daemon, expiries>>

\* The sample fails: note_camouflage_refresh_failure, before the gate opens.
ReadFails(c) ==
    /\ pc[c] = "read"
    /\ failures' = [failures EXCEPT ![fp[c]] = "recent"]
    /\ pc' = [pc EXCEPT ![c] = "release"]
    /\ UNCHANGED <<cache, inflight, completed, cleanups, fp, loc, daemon, samples, expiries>>

\* The profile merged into is read afresh, after the sample.
MergeSample(c) ==
    /\ pc[c] = "merge"
    /\ \E p \in sample_camouflage_profile(cache[ProfileKey(fp[c])]) :
          LET entry == IF p = NoProfile THEN loc[c].base ELSE p
          IN  loc' = [loc EXCEPT ![c].flight = merge_camouflage_profile(entry, @)]
    /\ pc' = [pc EXCEPT ![c] = "store"]
    /\ UNCHANGED <<cache, failures, inflight, completed, cleanups, fp, daemon, samples, expiries>>

StoreProfile(c) ==
    /\ pc[c] = "store"
    /\ cache' = [cache EXCEPT ![ProfileKey(fp[c])] = push_profile_variant(@, loc[c].flight)]
    /\ pc' = [pc EXCEPT ![c] = "store_baseline"]
    /\ UNCHANGED <<failures, inflight, completed, cleanups, fp, loc, daemon, samples, expiries>>

StoreBaseline(c) ==
    /\ pc[c] = "store_baseline"
    /\ cache' = [cache EXCEPT ![FamilyKey(fp[c])] = push_profile_variant(@, loc[c].flight)]
    /\ pc' = [pc EXCEPT ![c] = "release"]
    /\ UNCHANGED <<failures, inflight, completed, cleanups, fp, loc, daemon, samples, expiries>>

\* A slip: a failed sample does not fall back to the cached profile.
OutcomeOfSample(c) == sanitize_camouflage_profile(loc[c].flight)

\* What the connection is given when its sample is over.
Outcome(c) == IF loc[c].flight # NoProfile
              THEN sanitize_camouflage_profile(loc[c].flight) ELSE loc[c].best

\* release_now: the followers of the gate are woken.  A follower that sampled
\* by itself has no lease.
Led(c) == loc[c].gate = c

Woken(c) == {d \in Conns : Led(c) /\ pc[d] = "asleep" /\ loc[d].gate = c}

\* cleanup_camouflage_refresh_gate: when the lock of the gates is taken, a
\* spawned task removes the gate later.
RemoveGate(c) ==
    \/ /\ inflight' = [inflight EXCEPT ![fp[c]] = IF @ = c THEN NoGate ELSE @]
       /\ UNCHANGED cleanups
    \/ /\ cleanups' = cleanups \cup {c}
       /\ UNCHANGED inflight

Release(c) ==
    /\ pc[c] = "release"
    /\ completed' = IF Led(c) THEN completed \cup {c} ELSE completed
    /\ IF Led(c) THEN RemoveGate(c) ELSE UNCHANGED <<inflight, cleanups>>
    /\ pc' = [d \in Conns |-> CASE d = c          -> Ends(Outcome(c))
                               [] d \in Woken(c)  -> "relook"
                               [] OTHER          -> pc[d]]
    /\ loc' = Given(c, Outcome(c))
    /\ UNCHANGED <<cache, failures, fp, daemon, samples, expiries>>

\* The spawned removal: only the gate it was started for.
CleanUp(g) ==
    /\ g \in cleanups
    /\ cleanups' = cleanups \ {g}
    /\ inflight' = [inflight EXCEPT ![fp[g]] = IF @ = g THEN NoGate ELSE @]
    /\ UNCHANGED <<cache, failures, completed, pc, fp, loc, daemon, samples, expiries>>

\* CAMOUFLAGE_REFRESH_FAILURE_COOLDOWN_SECS pass.
CooldownElapses(f) ==
    /\ failures[f] = "recent"
    /\ expiries < MaxExpiries
    /\ failures' = [failures EXCEPT ![f] = "old"]
    /\ expiries' = expiries + 1
    /\ UNCHANGED <<cache, inflight, completed, cleanups, pc, fp, loc, daemon, samples>>

-----------------------------------------------------------------------------
(* The daemon, one per endpoint, started by the first connection that was  *)
(* given its flight, with that connection's hello.                         *)

SpawnDaemon(c) ==
    /\ pc[c] = "done"
    /\ daemon.pc = "none"
    /\ daemon' = [daemon EXCEPT !.pc = "sleep", !.fp = fp[c]]
    /\ UNCHANGED <<cache, failures, inflight, completed, cleanups, pc, fp, loc, samples, expiries>>

DaemonWakes ==
    /\ daemon.pc = "sleep"
    /\ daemon.rounds < MaxRefreshes
    /\ \E p \in sample_camouflage_profile(cache[ProfileKey(daemon.fp)]) :
          daemon' = [daemon EXCEPT !.pc = "read", !.cached = p, !.rounds = @ + 1]
    /\ UNCHANGED <<cache, failures, inflight, completed, cleanups, pc, fp, loc, samples, expiries>>

\* A slip: the daemon stores its fast sample as it is.
DaemonStoresSample(cached, p) == p

\* The sample is merged into the profile that was read before it.
DaemonMerge(cached, p) == IF cached = NoProfile THEN p ELSE merge_camouflage_profile(cached, p)

DaemonStores ==
    /\ daemon.pc = "read"
    /\ \E p \in read_camouflage_server_records(FirstSize(daemon.cached), samples + 1) :
          cache' = [cache EXCEPT ![ProfileKey(daemon.fp)] =
                       push_profile_variant(@, DaemonMerge(daemon.cached, p))]
    /\ samples' = samples + 1
    /\ daemon' = [daemon EXCEPT !.pc = "sleep", !.cached = NoProfile]
    /\ UNCHANGED <<failures, inflight, completed, cleanups, pc, fp, loc, expiries>>

DaemonFails ==
    /\ daemon.pc = "read"
    /\ daemon' = [daemon EXCEPT !.pc = "sleep", !.cached = NoProfile]
    /\ UNCHANGED <<cache, failures, inflight, completed, cleanups, pc, fp, loc, samples, expiries>>

-----------------------------------------------------------------------------
Fetch(c) ==
    \/ Lookup(c) \/ ReadSpecific(c) \/ ReadFamily(c) \/ ReadProbe(c)
    \/ CheckCooldown(c) \/ AcquireGate(c) \/ WaitGate(c) \/ Relook(c) \/ Relooked(c)
    \/ ReadOk(c) \/ ReadFails(c) \/ MergeSample(c) \/ StoreProfile(c) \/ StoreBaseline(c)
    \/ Release(c)

Next ==
    \/ \E c \in Conns : Fetch(c) \/ CleanUp(c) \/ SpawnDaemon(c)
    \/ \E f \in Fingerprints : CooldownElapses(f)
    \/ DaemonWakes \/ DaemonStores \/ DaemonFails

\* The runtime polls every ready task, and every wait for the endpoint has a
\* timeout: weak fairness of Fetch(c), with the states in which it is enabled
\* spelled out.
Ready(c) == pc[c] \notin {"asleep", "done", "failed"}

Spec ==
    /\ Init
    /\ [][Next]_vars
    /\ \A c \in Conns : []<>~Ready(c) \/ []<><<Fetch(c)>>_vars

-----------------------------------------------------------------------------
(* Properties.                                                             *)


\* Once the server has validated its endpoint, no authenticated connection is
\* refused for want of a flight: not when the endpoint is down, not during a
\* cool-down, and not for a follower whose leader failed.
FlightFound == \A c \in Conns : pc[c] # "failed"

\* A connection never answers with a less complete flight than its own pools
\* offered when it began, although refreshes, partial samples and evictions go
\* on while it runs.
NotDegraded ==
    \A c \in Conns : pc[c] = "done" => camouflage_profile_rank(loc[c].flight) >= loc[c].floor

\* Every connection gets out of fetch_camouflage_flight: no follower sleeps on
\* a gate that has opened.
FetchReturns == \A c \in Conns : <>(pc[c] \in {"done", "failed"})

\* Comments of read_camouflage_server_records and of
\* MIN_CAMOUFLAGE_APP_DATA_RECORD_LEN say that a replayed flight has as many
\* records as the reference flight.
ReplayedWhole ==
    \A c \in Conns : pc[c] = "done" =>
        \E flight \in Flights : Len(Replayed(loc[c].flight)) = Len(flight)
=============================================================================
