--------------------------- MODULE SlidingWindow ---------------------------
(***************************************************************************)
(* The counter window of tunnel/src/server/replay.rs: the highest sequence *)
(* number seen and a bitmap of the W numbers that end there.  The bitmap   *)
(* is the set of the positions of its one bits, bit 0 being the highest    *)
(* number itself.  W is 64, the width of the bitmap.                       *)
(***************************************************************************)
EXTENDS Integers

CONSTANT W

ASSUME WindowAssumption == W \in Nat \ {0}

Window == [highest_seq : Nat, bitmap : SUBSET (0 .. W - 1)]

\* SlidingWindow::new
NewWindow(seq) == [highest_seq |-> seq, bitmap |-> {0}]

\* A window one narrower than its bitmap.
CheckNarrow(w, seq) ==
  \/ seq > w.highest_seq
  \/ w.highest_seq - seq < W - 1 /\ (w.highest_seq - seq) \notin w.bitmap

\* SlidingWindow::check, and the answer of SlidingWindow::commit.
Check(w, seq) ==
  \/ seq > w.highest_seq
  \/ w.highest_seq - seq < W /\ (w.highest_seq - seq) \notin w.bitmap

\* bitmap << diff on W bits.
Shift(bits, diff) == {b \in diff .. W - 1 : b - diff \in bits}

\* A shift that loses the bit of the old highest number.
CommitForgets(w, seq) ==
  IF seq > w.highest_seq
  THEN [highest_seq |-> seq, bitmap |-> {0}]
  ELSE [w EXCEPT !.bitmap = @ \cup {w.highest_seq - seq}]

\* SlidingWindow::commit of a number that passes Check.
Commit(w, seq) ==
  IF seq > w.highest_seq
  THEN [highest_seq |-> seq,
        bitmap |-> IF seq - w.highest_seq >= W THEN {0}
                   ELSE Shift(w.bitmap, seq - w.highest_seq) \cup {0}]
  ELSE [w EXCEPT !.bitmap = @ \cup {w.highest_seq - seq}]
============================================================================
