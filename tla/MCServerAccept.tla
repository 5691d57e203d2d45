--------------------------- MODULE MCServerAccept ---------------------------
(* Small instances of ServerAccept. *)
EXTENDS ServerAccept

settings == [cmd |-> "SETTINGS", sid |-> 0, n |-> 0]
syn(s) == [cmd |-> "SYN", sid |-> s, n |-> 0]
psh(s, k) == [cmd |-> "PSH", sid |-> s, n |-> k]
fin_(s) == [cmd |-> "FIN", sid |-> s, n |-> 0]

\* Two streams that overlap, one with data and FIN; streams that carry
\* nothing, the last of which may find the session full; a stream opened
\* too early.
Overlapping == <<settings, syn(1), psh(1, 1), syn(2), psh(1, 2), psh(1, 3), fin_(1)>>
Bare == <<settings, syn(1), fin_(1), syn(2), syn(3)>>
Hasty == <<syn(1), settings, syn(2), psh(2, 1), fin_(2)>>
Mixed == {Overlapping, Bare, Hasty}

\* Streams that stay open.
Lasting == {<<settings, syn(1), syn(2)>>}
=============================================================================
