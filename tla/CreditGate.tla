----------------------------- MODULE CreditGate -----------------------------
(***************************************************************************)
(* What the flow-control gate promises: a write takes its length from the  *)
(* connection balance and from its stream's balance in one step, or from   *)
(* neither; credit only comes back by WINDOW_UPDATEs.                      *)
(***************************************************************************)
EXTENDS Integers

CONSTANTS Streams, ConnWindow, StreamWindow, WriteSizes

VARIABLES avail, stream_avail

vars == <<avail, stream_avail>>

Init ==
  /\ avail = ConnWindow
  /\ stream_avail = [s \in Streams |-> StreamWindow]

Grant(s, n) ==
  /\ n <= avail
  /\ n <= stream_avail[s]
  /\ avail' = avail - n
  /\ stream_avail' = [stream_avail EXCEPT ![s] = @ - n]

ReturnConn ==
  /\ avail' > avail
  /\ UNCHANGED stream_avail

ReturnStream(s) ==
  /\ stream_avail'[s] > stream_avail[s]
  /\ stream_avail' = [stream_avail EXCEPT ![s] = stream_avail'[s]]
  /\ UNCHANGED avail

Next ==
  \/ \E s \in Streams, n \in WriteSizes : Grant(s, n)
  \/ ReturnConn
  \/ \E s \in Streams : ReturnStream(s)

Spec == Init /\ [][Next]_vars
=============================================================================
