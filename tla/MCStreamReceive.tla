-------------------------- MODULE MCStreamReceive --------------------------
(* Small instances of StreamReceive: what the server sends on one stream. *)
EXTENDS StreamReceive, TLC

psh(n) == [cmd |-> "PSH", n |-> n]
synack == [cmd |-> "SYNACK", n |-> 0]
reject == [cmd |-> "REJECT", n |-> 0]
fin == [cmd |-> "FIN", n |-> 0]

\* The outbound connection stands: SYNACK, a response, the end.
Answered == {<<synack, psh(1), psh(2), psh(3), psh(4), fin>>}

\* The same, still open.
Open == {<<synack, psh(1), psh(2), psh(3)>>}

\* Payloads that come ahead of the SYNACK.
Early == {<<psh(1), psh(2), synack, psh(3), fin>>, <<psh(1), psh(2), psh(3), synack, fin>>}

\* The outbound connection failed: FIN, and no SYNACK.
Failed == {<<fin>>}

\* The SYN was turned down.
Rejected == {<<reject>>}

All == Answered \cup Open \cup Early \cup Failed \cup Rejected
AnsweredOrOpen == Answered \cup Open
============================================================================
