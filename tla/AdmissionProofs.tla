-------------------------- MODULE AdmissionProofs --------------------------
(***************************************************************************)
(* For every W, every set of connections and whatever hellos they carry:   *)
(* the counter windows record the committed numbers exactly, so that no    *)
(* number is committed twice while its window is cached, and a number is   *)
(* refused only for having been used or for being W or more behind.        *)
(*                                                                         *)
(* The recency list plays no part: which window an eviction drops is       *)
(* irrelevant, as a dropped window takes its history with it.              *)
(***************************************************************************)
EXTENDS Admission, TLAPS

\* What a window knows of the numbers committed under its key.
Exact(w, done) ==
  /\ w.highest_seq \in done
  /\ \A n \in done : n <= w.highest_seq
  /\ \A o \in 0 .. W - 1 : o \in w.bitmap <=> (w.highest_seq - o) \in done

\* The inductive invariant: types of the counter cache, exact windows for the
\* cached keys and no history for the others.
WindowInv ==
  /\ windows \in [Keys -> Window]
  /\ committed \in [Keys -> SUBSET Nat]
  /\ \A k \in Keys : IF Cached(k) THEN Exact(windows[k], committed[k])
                     ELSE committed[k] = {}

\* SlidingWindow::new makes an exact window.
LEMMA NewIsExact ==
  ASSUME NEW n \in Nat
  PROVE  /\ NewWindow(n) \in Window
         /\ NewWindow(n) # NoWindow
         /\ Exact(NewWindow(n), {n})
BY WindowAssumption DEF WindowAssumption, NewWindow, Window, NoWindow, Exact

\* SlidingWindow::check admits exactly the unused numbers that are less than
\* W behind the highest.
LEMMA CheckIsExact ==
  ASSUME NEW w \in Window, NEW done \in SUBSET Nat, Exact(w, done), NEW n \in Nat
  PROVE  Check(w, n) <=> n \notin done /\ w.highest_seq - n < W
<1>. w.highest_seq \in Nat /\ w.bitmap \in SUBSET (0 .. W - 1) /\ W \in Nat \ {0}
  BY WindowAssumption DEF WindowAssumption, Window
<1>1. CASE n > w.highest_seq
  BY <1>1 DEF Check, Exact
<1>2. CASE n <= w.highest_seq /\ w.highest_seq - n < W
  <2>. DEFINE o == w.highest_seq - n
  <2>1. o \in 0 .. W - 1 /\ w.highest_seq - o = n
    BY <1>2
  <2>2. o \in w.bitmap <=> n \in done
    BY <2>1 DEF Exact
  <2>. QED BY <1>2, <2>2 DEF Check
<1>3. CASE n <= w.highest_seq /\ w.highest_seq - n >= W
  BY <1>3 DEF Check
<1>. QED BY <1>1, <1>2, <1>3

\* SlidingWindow::commit of a number that passes the check keeps the window
\* exact, across the shift of the bitmap as well.
LEMMA CommitIsExact ==
  ASSUME NEW w \in Window, NEW done \in SUBSET Nat, Exact(w, done), NEW n \in Nat, Check(w, n)
  PROVE  /\ Commit(w, n) \in Window
         /\ Commit(w, n) # NoWindow
         /\ Exact(Commit(w, n), done \cup {n})
<1>. DEFINE h == w.highest_seq
            v == Commit(w, n)
<1>1. h \in Nat /\ w.bitmap \in SUBSET (0 .. W - 1) /\ W \in Nat \ {0}
  BY WindowAssumption DEF WindowAssumption, Window
<1>2. CASE n > h /\ n - h >= W
  <2>1. v = [highest_seq |-> n, bitmap |-> {0}]
    BY <1>1, <1>2 DEF Commit
  <2>2. v \in Window /\ v # NoWindow
    BY <1>1, <2>1 DEF Window, NoWindow
  <2>3. ASSUME NEW o \in 0 .. W - 1
        PROVE  o \in v.bitmap <=> (n - o) \in done \cup {n}
    <3>1. n - o > h
      BY <1>1, <1>2
    <3>2. (n - o) \notin done
      BY <1>1, <3>1 DEF Exact
    <3>. QED BY <2>1, <3>2
  <2>4. \A m \in done \cup {n} : m <= n
    BY <1>1, <1>2 DEF Exact
  <2>. QED BY <2>1, <2>2, <2>3, <2>4 DEF Exact
<1>3. CASE n > h /\ n - h < W
  <2>1. v = [highest_seq |-> n, bitmap |-> Shift(w.bitmap, n - h) \cup {0}]
    BY <1>1, <1>3 DEF Commit
  <2>2. Shift(w.bitmap, n - h) \in SUBSET (0 .. W - 1)
    BY <1>1, <1>3 DEF Shift
  <2>3. v \in Window /\ v # NoWindow
    BY <1>1, <2>1, <2>2 DEF Window, NoWindow
  <2>4. ASSUME NEW o \in 0 .. W - 1
        PROVE  o \in v.bitmap <=> (n - o) \in done \cup {n}
    <3>1. CASE o = 0
      BY <2>1, <3>1
    <3>2. CASE o # 0 /\ o < n - h
      <4>1. n - o > h /\ n - o # n
        BY <1>1, <1>3, <3>2
      <4>2. (n - o) \notin done \cup {n}
        BY <1>1, <4>1 DEF Exact
      <4>3. o \notin v.bitmap
        BY <1>1, <1>3, <2>1, <3>2 DEF Shift
      <4>. QED BY <4>2, <4>3
    <3>3. CASE o # 0 /\ o >= n - h
      <4>. DEFINE b == o - (n - h)
      <4>1. b \in 0 .. W - 1 /\ h - b = n - o /\ n - o # n
        BY <1>1, <1>3, <3>3
      <4>2. o \in v.bitmap <=> b \in w.bitmap
        BY <1>1, <1>3, <2>1, <3>3 DEF Shift
      <4>3. b \in w.bitmap <=> (h - b) \in done
        BY <4>1 DEF Exact
      <4>. QED BY <4>1, <4>2, <4>3
    <3>. QED BY <1>1, <1>3, <3>1, <3>2, <3>3, SMTT(30)
  <2>5. \A m \in done \cup {n} : m <= n
    BY <1>1, <1>3 DEF Exact
  <2>. QED BY <2>1, <2>3, <2>4, <2>5 DEF Exact
<1>4. CASE n <= h
  <2>. DEFINE p == h - n
  <2>1. p \in 0 .. W - 1 /\ h - p = n
    BY <1>1, <1>4 DEF Check
  <2>2. v = [highest_seq |-> h, bitmap |-> w.bitmap \cup {p}]
    BY <1>1, <1>4, SMTT(30) DEF Commit, Window
  <2>3. v \in Window /\ v # NoWindow
    <3>1. w.bitmap \cup {p} \in SUBSET (0 .. W - 1)
      BY <1>1, <2>1
    <3>2. v.bitmap # {}
      BY <2>2
    <3>. QED BY <1>1, <2>2, <3>1, <3>2 DEF Window, NoWindow
  <2>4. ASSUME NEW o \in 0 .. W - 1
        PROVE  o \in v.bitmap <=> (h - o) \in done \cup {n}
    <3>1. o \in w.bitmap <=> (h - o) \in done
      BY DEF Exact
    <3>2. o = p <=> h - o = n
      BY <1>1, <2>1
    <3>. QED BY <2>2, <3>1, <3>2
  <2>5. \A m \in done \cup {n} : m <= h
    BY <1>4 DEF Exact
  <2>. QED BY <2>2, <2>3, <2>4, <2>5 DEF Exact
<1>. QED BY <1>1, <1>2, <1>3, <1>4

\* Every step keeps the windows exact.
LEMMA NextWindowInv ==
  ASSUME WindowInv, [Next]_vars
  PROVE  WindowInv'
<1>1. CASE UNCHANGED vars
  BY <1>1, SMTT(30) DEF vars, WindowInv, Cached, Exact
<1>2. CASE Next
  <2>1. PICK c \in Conns : Step(c)
    BY <1>2 DEF Next
  <2>2. CASE UNCHANGED <<windows, committed>>
    BY <2>2 DEF WindowInv, Cached, Exact
  <2>3. CASE CommitCounterReplay(c) /\ ~UNCHANGED <<windows, committed>>
    <3>. DEFINE k == key[c]
                evicted == IF Cached(k) \/ Len(counter_lru) < CounterEntries THEN {}
                           ELSE {Head(counter_lru)}
    <3>1. k \in Keys /\ seq[c] \in Nat
      BY AdmissionAssumption DEF AdmissionAssumption
    <3>2. Cached(k) => Check(windows[k], seq[c])
      BY <2>3 DEF CommitCounterReplay
    <3>3. /\ windows' = [x \in Keys |->
                           IF x \in evicted THEN NoWindow
                             ELSE IF x # k THEN windows[x]
                             ELSE IF Cached(k) THEN Commit(windows[k], seq[c])
                             ELSE NewWindow(seq[c])]
          /\ committed' = [x \in Keys |->
                             IF x \in evicted THEN {}
                               ELSE IF x # k THEN committed[x]
                               ELSE committed[x] \cup {seq[c]}]
      BY <2>3 DEF CommitCounterReplay
    <3>. HIDE DEF evicted
    <3>4. ASSUME NEW x \in Keys
          PROVE  /\ windows'[x] \in Window
                 /\ committed'[x] \in SUBSET Nat
                 /\ IF windows'[x] # NoWindow THEN Exact(windows'[x], committed'[x])
                    ELSE committed'[x] = {}
      <4>0. windows[x] \in Window /\ committed[x] \in SUBSET Nat
        BY DEF WindowInv
      <4>1. CASE x \in evicted
        <5>1. windows'[x] = NoWindow /\ committed'[x] = {}
          BY <3>3, <4>1
        <5>2. NoWindow \in Window
          BY DEF NoWindow, Window
        <5>. QED BY <5>1, <5>2
      <4>2. CASE x \notin evicted /\ x # k
        <5>1. windows'[x] = windows[x] /\ committed'[x] = committed[x]
          BY <3>3, <4>2
        <5>2. IF windows[x] # NoWindow THEN Exact(windows[x], committed[x])
              ELSE committed[x] = {}
          BY DEF WindowInv, Cached
        <5>. QED BY <4>0, <5>1, <5>2
      <4>3. CASE x \notin evicted /\ x = k /\ Cached(k)
        <5>1. windows'[x] = Commit(windows[x], seq[c]) /\ committed'[x] = committed[x] \cup {seq[c]}
          BY <3>3, <4>3
        <5>2. Exact(windows[x], committed[x])
          BY <4>3 DEF WindowInv
        <5>3. Check(windows[x], seq[c])
          BY <3>2, <4>3
        <5>4. /\ Commit(windows[x], seq[c]) \in Window /\ Commit(windows[x], seq[c]) # NoWindow
              /\ Exact(Commit(windows[x], seq[c]), committed[x] \cup {seq[c]})
          BY <3>1, <4>0, <5>2, <5>3, CommitIsExact, Zenon
        <5>5. committed'[x] \in SUBSET Nat
          BY <3>1, <4>0, <5>1
        <5>. QED BY <5>1, <5>4, <5>5, Zenon
      <4>4. CASE x \notin evicted /\ x = k /\ ~Cached(k)
        <5>1. windows'[x] = NewWindow(seq[c]) /\ committed'[x] = committed[x] \cup {seq[c]}
          BY <3>3, <4>4
        <5>2. committed[x] = {}
          BY <4>4 DEF WindowInv
        <5>3. committed'[x] = {seq[c]}
          BY <5>1, <5>2
        <5>4. /\ NewWindow(seq[c]) \in Window /\ NewWindow(seq[c]) # NoWindow
              /\ Exact(NewWindow(seq[c]), {seq[c]})
          BY <3>1, NewIsExact, Zenon
        <5>5. {seq[c]} \in SUBSET Nat
          BY <3>1
        <5>. QED BY <5>1, <5>3, <5>4, <5>5, Zenon
      <4>. QED BY <4>1, <4>2, <4>3, <4>4
    <3>5. windows' \in [Keys -> Window] /\ committed' \in [Keys -> SUBSET Nat]
      BY <3>3, <3>4
    <3>. QED BY <3>4, <3>5 DEF WindowInv, Cached, Exact
  <2>. QED BY <2>1, <2>2, <2>3 DEF Step, AcquireHandshake, ReadHello, CheckCounterReplay,
              IsReplay, AcquireSession, Establish, EndSession, AcquireFallback, CountPeer,
              UncountPeer, ReleaseFallback, Drain, cacheVars, limitVars
<1>. QED BY <1>1, <1>2

\* The invariant holds of every behaviour.
LEMMA WindowInvariance == Spec => []WindowInv
<1>1. Init => WindowInv
  BY WindowAssumption DEF WindowAssumption, Init, WindowInv, Cached, NoWindow, Window
<1>. QED BY <1>1, NextWindowInv, PTL DEF Spec

\* Every step moves one connection to a place of the program.
LEMMA Places == Spec => [](pc \in [Conns -> PCs])
<1>. DEFINE Typed == pc \in [Conns -> PCs]
<1>1. Init => Typed
  BY DEF Init, PCs
<1>2. Typed /\ [Next]_vars => Typed'
  <2>. SUFFICES ASSUME Typed, [Next]_vars PROVE Typed'
    OBVIOUS
  <2>1. CASE UNCHANGED vars
    BY <2>1 DEF vars
  <2>2. CASE Next
    <3>1. PICK c \in Conns : Step(c)
      BY <2>2, Zenon DEF Next
    <3>2. \E l \in PCs : Goto(c, l)
      BY <3>1 DEF Step, AcquireHandshake, ReadHello, CheckCounterReplay, IsReplay,
                  AcquireSession, CommitCounterReplay, Establish, EndSession, AcquireFallback,
                  CountPeer, UncountPeer, ReleaseFallback, Drain, PCs, InHandshake, InSession,
                  InFallback
    <3>. QED BY <3>2 DEF Goto
  <2>. QED BY <2>1, <2>2
<1>. QED BY <1>1, <1>2, PTL DEF Spec

\* A connection changes its place only by a step of its own.
LEMMA OwnStep ==
  ASSUME pc \in [Conns -> PCs], Next, NEW c \in Conns, pc'[c] # pc[c]
  PROVE  Step(c)
<1>1. PICK d \in Conns : Step(d)
  BY DEF Next
<1>2. \E l \in PCs : Goto(d, l)
  BY <1>1 DEF Step, AcquireHandshake, ReadHello, CheckCounterReplay, IsReplay,
              AcquireSession, CommitCounterReplay, Establish, EndSession, AcquireFallback,
              CountPeer, UncountPeer, ReleaseFallback, Drain, PCs, InHandshake, InSession,
              InFallback
<1>. QED BY <1>1, <1>2 DEF Goto

\* COUNTER_CACHE remembers exactly which of the last W numbers of a key were
\* committed, for every width, capacity and interleaving.
THEOREM WindowsAreExact == Spec => []WindowExact
<1>1. WindowInv => WindowExact
  BY DEF WindowInv, WindowExact, Exact
<1>. QED BY <1>1, WindowInvariance, PTL

\* commit_counter_replay never accepts a number a second time while the
\* window of its key is cached, although its check was made earlier.
THEOREM NumbersAreUsedOnce == Spec => NeverTwice
<1>1. WindowInv /\ pc \in [Conns -> PCs] /\ [Next]_vars =>
        [\A c \in Conns : pc[c] = "commit" /\ pc'[c] = "tunnel" =>
                             seq[c] \notin committed[key[c]]]_vars
  <2>. SUFFICES ASSUME WindowInv, pc \in [Conns -> PCs], Next, NEW c \in Conns,
                       pc[c] = "commit", pc'[c] = "tunnel"
                PROVE  seq[c] \notin committed[key[c]]
    OBVIOUS
  <2>1. key[c] \in Keys /\ seq[c] \in Nat
    BY AdmissionAssumption DEF AdmissionAssumption
  <2>2. CommitCounterReplay(c)
    <3>1. Step(c)
      BY OwnStep, Zenon
    <3>. QED BY <3>1 DEF Step, AcquireHandshake, ReadHello, CheckCounterReplay, IsReplay,
                AcquireSession, CommitCounterReplay, Establish, EndSession, AcquireFallback,
                CountPeer, UncountPeer, ReleaseFallback, Drain
  <2>3. CASE Cached(key[c])
    <3>1. Check(windows[key[c]], seq[c])
      BY <2>2, <2>3 DEF CommitCounterReplay, Goto
    <3>. QED BY <2>1, <2>3, <3>1, CheckIsExact DEF WindowInv
  <2>4. CASE ~Cached(key[c])
    BY <2>1, <2>4 DEF WindowInv
  <2>. QED BY <2>3, <2>4
<1>. QED BY <1>1, WindowInvariance, Places, PTL DEF Spec, NeverTwice

\* check_counter_replay refuses a number only if it was committed or lies W
\* or more behind one that was.
THEOREM FreshNumbersAreServed == Spec => FreshServed
<1>1. WindowInv /\ pc \in [Conns -> PCs] /\ [Next]_vars =>
        [\A c \in Conns : pc[c] = "check" /\ pc'[c] = "fallback" =>
           \/ seq[c] \in committed[key[c]]
           \/ \E n \in committed[key[c]] : n - seq[c] >= W]_vars
  <2>. SUFFICES ASSUME WindowInv, pc \in [Conns -> PCs], Next, NEW c \in Conns,
                       pc[c] = "check", pc'[c] = "fallback"
                PROVE  \/ seq[c] \in committed[key[c]]
                       \/ \E n \in committed[key[c]] : n - seq[c] >= W
    OBVIOUS
  <2>1. key[c] \in Keys /\ seq[c] \in Nat
    BY AdmissionAssumption DEF AdmissionAssumption
  <2>2. CheckCounterReplay(c)
    <3>1. Step(c)
      BY OwnStep, Zenon
    <3>. QED BY <3>1 DEF Step, AcquireHandshake, ReadHello, CheckCounterReplay, IsReplay,
                AcquireSession, CommitCounterReplay, Establish, EndSession, AcquireFallback,
                CountPeer, UncountPeer, ReleaseFallback, Drain
  <2>3. Cached(key[c]) /\ ~Check(windows[key[c]], seq[c])
    BY <2>2 DEF CheckCounterReplay, Goto
  <2>4. seq[c] \in committed[key[c]] \/ ~(windows[key[c]].highest_seq - seq[c] < W)
    BY <2>1, <2>3, CheckIsExact DEF WindowInv
  <2>5. windows[key[c]].highest_seq \in committed[key[c]] /\ windows[key[c]].highest_seq \in Nat
    BY <2>1, <2>3 DEF WindowInv, Exact, Window
  <2>. QED BY <2>1, <2>4, <2>5, WindowAssumption DEF WindowAssumption
<1>. QED BY <1>1, WindowInvariance, Places, PTL DEF Spec, FreshServed
============================================================================
