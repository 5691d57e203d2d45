------------------------- MODULE FlowControlProofs -------------------------
(***************************************************************************)
(* For every number of streams, window, threshold and write size: no       *)
(* balance goes negative, no stream credit leaks, and the receive buffer   *)
(* of a stream stays within its window.                                    *)
(*                                                                         *)
(* TypeOK is not inductive alone: a balance stays natural because the      *)
(* value a writer loaded covers its request and compare_exchange succeeds  *)
(* only on that value (SeenCoversRequest).                                 *)
(***************************************************************************)
EXTENDS FlowControl, TLAPS

\* The amounts of frames and WUs are numbers.
LEMMA QuantaNat == Quanta \subseteq Nat
  BY DEF Quanta

\* A new WindowState satisfies the invariant.
LEMMA InitIndInv == Init => IndInv
<1> SUFFICES ASSUME Init PROVE IndInv
  OBVIOUS
<1> USE FlowControlAssumption DEF FlowControlAssumption, Init
<1>1. TypeOK
  BY DEF TypeOK, PCs
<1>2. SeenCoversRequest
  BY DEF SeenCoversRequest
<1>3. StreamCreditConserved
  BY DEF StreamCreditConserved, StreamHeld
<1> QED BY <1>1, <1>2, <1>3 DEF IndInv

\* Every step of a writer, the read loop or a relay keeps it.
LEMMA NextIndInv == IndInv /\ [Next]_vars => IndInv'
<1> SUFFICES ASSUME IndInv, [Next]_vars PROVE IndInv'
  OBVIOUS
<1> USE FlowControlAssumption, QuantaNat
    DEF FlowControlAssumption, IndInv, TypeOK, PCs, SeenCoversRequest, StreamCreditConserved, StreamHeld,
        Goto, writerVars, creditVars, receiverVars, wuVars, modeVars, dataVars
<1>1. ASSUME NEW s \in Streams, NEW n \in WriteSizes, WriteData(s, n)
      PROVE IndInv'
  <2>1. CASE peer_flow_control
    BY <1>1, <2>1 DEF WriteData
  <2>2. CASE ~peer_flow_control
    <3>1. TypeOK' /\ SeenCoversRequest'
      BY <1>1, <2>2 DEF WriteData
    <3>2. ASSUME NEW t \in Streams, ~closed
          PROVE  (send_credit[t] + StreamHeld(t) + wire[t] + buffered[t] + dropped[t]
                    + stream_consumed_since_wu[t] + stream_wu[t])'
                 = StreamWindow + uncharged'[t]
      <4>1. /\ uncharged'[t] = uncharged[t] + (IF t = s THEN n ELSE 0)
            /\ StreamHeld(t)' = StreamHeld(t) + (IF t = s THEN n ELSE 0)
        BY <1>1, <2>2 DEF WriteData
      <4>2. UNCHANGED <<send_credit, wire, buffered, dropped,
                        stream_consumed_since_wu, stream_wu>>
        BY <1>1 DEF WriteData
      <4>3. /\ send_credit[t] + StreamHeld(t) + wire[t] + buffered[t] + dropped[t]
               + stream_consumed_since_wu[t] + stream_wu[t] = StreamWindow + uncharged[t]
            /\ StreamHeld(t) \in Nat
        BY <3>2
      <4> HIDE DEF StreamHeld
      <4> QED BY <4>1, <4>2, <4>3
    <3>3. StreamCreditConserved'
      BY <1>1, <3>2 DEF WriteData
    <3> QED BY <3>1, <3>3
  <2> QED BY <2>1, <2>2
<1>2. ASSUME NEW s \in Streams, CheckAndEnable(s)
      PROVE IndInv'
  BY <1>2 DEF CheckAndEnable
<1>3. ASSUME NEW s \in Streams, LoadConn(s)
      PROVE IndInv'
  BY <1>3 DEF LoadConn
<1>4. ASSUME NEW s \in Streams, CasConn(s)
      PROVE IndInv'
  BY <1>4 DEF CasConn
<1>5. ASSUME NEW s \in Streams, LoadStream(s)
      PROVE IndInv'
  BY <1>5 DEF LoadStream
<1>6. ASSUME NEW s \in Streams, CasStream(s)
      PROVE IndInv'
  BY <1>6 DEF CasStream
<1>7. ASSUME NEW s \in Streams, Rollback(s)
      PROVE IndInv'
  BY <1>7 DEF Rollback
<1>8. ASSUME NEW s \in Streams, Wake(s)
      PROVE IndInv'
  BY <1>8 DEF Wake
<1>9. ASSUME NEW s \in Streams, Submit(s)
      PROVE IndInv'
  BY <1>9 DEF Submit
<1>10. ASSUME NEW s \in Streams, CloseRead(s)
       PROVE IndInv'
  BY <1>10 DEF CloseRead
<1>11. ASSUME NEW n \in Quanta, AddConnCredit(n)
       PROVE IndInv'
  BY <1>11 DEF AddConnCredit, Enabled
<1>12. ASSUME NEW s \in Streams, NEW n \in Quanta, AddStreamCredit(s, n)
       PROVE IndInv'
  BY <1>12 DEF AddStreamCredit, Enabled
<1>13. ASSUME NEW s \in Streams, NEW n \in Quanta, ReceivePsh(s, n)
       PROVE IndInv'
  BY <1>13 DEF ReceivePsh, NoteConnReceived, SendWindowUpdate
<1>14. ASSUME NEW s \in Streams, NEW n \in Quanta, NoteConsumed(s, n)
       PROVE IndInv'
  <2> DEFINE total == stream_consumed_since_wu[s] + n
  <2>1. PICK sent \in BOOLEAN :
          /\ SendWindowUpdate(total >= StreamThreshold, sent)
          /\ stream_consumed_since_wu' =
               [stream_consumed_since_wu EXCEPT ![s] = IF sent THEN 0 ELSE total]
          /\ stream_wu' = IF sent THEN [stream_wu EXCEPT ![s] = @ + total]
                                  ELSE stream_wu
    BY <1>14 DEF NoteConsumed
  <2>2. n <= buffered[s] /\ buffered' = [buffered EXCEPT ![s] = @ - n]
    BY <1>14 DEF NoteConsumed
  <2>3. UNCHANGED <<read_closed, conn_consumed_since_wu, dropped, conn_wu,
                    writerVars, creditVars, modeVars, dataVars>>
    BY <1>14 DEF NoteConsumed
  <2>4. CASE sent
    BY <2>1, <2>2, <2>3, <2>4 DEF SendWindowUpdate
  <2>5. CASE ~sent
    BY <2>1, <2>2, <2>3, <2>5 DEF SendWindowUpdate
  <2> QED BY <2>4, <2>5
<1>15. CASE SetPeerFlowControl
  BY <1>15 DEF SetPeerFlowControl
<1>16. CASE CloseWriter
  BY <1>16 DEF CloseWriter
<1>17. CASE UNCHANGED vars
  BY <1>17 DEF vars
<1> QED
  BY <1>1, <1>2, <1>3, <1>4, <1>5, <1>6, <1>7, <1>8, <1>9, <1>10, <1>11, <1>12,
     <1>13, <1>14, <1>15, <1>16, <1>17 DEF Next, AcquireStep

\* The invariant holds of every behaviour.
LEMMA Invariance == Spec => []IndInv
<1> QED BY InitIndInv, NextIndInv, PTL DEF Spec

\* Type correctness; with it, no credit balance of either level is negative.
THEOREM TypeCorrect == Spec => []TypeOK
<1>1. IndInv => TypeOK
  BY DEF IndInv
<1> QED BY <1>1, Invariance, PTL

\* No stream's credit leaks, in any interleaving of writers, WUs and reads.
THEOREM StreamCreditIsConserved == Spec => []StreamCreditConserved
<1>1. IndInv => StreamCreditConserved
  BY DEF IndInv
<1> QED BY <1>1, Invariance, PTL

\* A stream's receive buffer never outgrows its window.
THEOREM BuffersAreBounded == Spec => []BufferBounded
<1>1. IndInv => BufferBounded
  BY FlowControlAssumption
  DEF FlowControlAssumption, IndInv, TypeOK, StreamCreditConserved, StreamHeld, BufferBounded
<1> QED BY <1>1, Invariance, PTL
=============================================================================
