------------------------------ MODULE MCTunnel ------------------------------
(***************************************************************************)
(* The scenes of a tunnel.  The records before and after the Noise response  *)
(* and the ghosts vary with no payload; the record layer is met with records *)
(* of a few bytes' reading room, split units and one fault; the shaper with  *)
(* scripts and packets at the lengths where its decisions change.            *)
(***************************************************************************)
EXTENDS Tunnel

Packet(kind, len) == [kind |-> kind, len |-> len, m |-> 0]

Base ==
  [lines |-> <<>>, off |-> TRUE, large |-> FALSE, flight |-> <<"hello", "ccs", "noise">>,
   ghosts |-> 0, packets |-> [client |-> <<>>, server |-> <<>>], closers |-> {},
   room |-> 65536, split |-> FALSE, calm |-> FALSE, faults |-> {}]

CamouflagePrefixes == {<<>>, <<"short">>, <<"junk", "short", "junk", "junk">>}

HandshakeScenes ==
  {[Base EXCEPT !.flight = <<"hello", "ccs">> \o p \o <<"noise">>, !.ghosts = g,
                !.faults = f, !.packets.client = <<Packet("control", 7)>>,
                !.packets.server = <<Packet("control", 7)>>] :
     p \in CamouflagePrefixes, g \in {0, 2}, f \in {{}, {"timeout"}, {"damage"}, {"break"}}}

\* one packet of a side that fills two records, read in pieces
StreamScenes ==
  {[Base EXCEPT !.packets.client = <<Packet("lifecycle", 250)>>, !.closers = c,
                !.room = 100, !.split = TRUE, !.faults = f] :
     c \in {{"client"}, {"server"}, Sides}, f \in {{}, {"damage"}, {"break"}}}
  \cup {[Base EXCEPT !.packets.client = <<Packet("lifecycle", 7)>>, !.closers = c,
                     !.packets.server = <<Packet("control", 7)>>, !.split = TRUE] :
          c \in {{"client"}, Sides}}

L(form, a, b) == [f |-> "L", form |-> form, a |-> a, b |-> b]
D(median, sigma, pair) == [f |-> "D", median |-> median, sigma |-> sigma, pair |-> pair]
F(count, jitter) == [f |-> "F", count |-> count, jitter |-> jitter]
RuleLine(idx, fields) == [head |-> "rule", idx |-> idx, fields |-> fields]
StopLine(n) == [head |-> "stop", n |-> n]

Scripts ==
  {<<>>,
   <<RuleLine(0, <<L("range", 200, 1100), D(20, 5, TRUE)>>)>>,
   <<RuleLine(0, <<L("base", 200, 1100)>>), RuleLine(1, <<L("fixed", 300, 0)>>)>>,
   <<StopLine(3), RuleLine(0, <<L("fixed", 20, 0), F(2, 2)>>),
     RuleLine(1, <<L("range", 600, 16000), D(0, 0, FALSE), F(3, -1)>>)>>,
   <<RuleLine(0, <<L("fixed", 20, 0), F(1, 0)>>)>>}

BadScripts ==
  {<<RuleLine(0, <<L("range", 300, 200)>>)>>, <<RuleLine(1, <<L("fixed", 300, 0)>>)>>}

Sends ==
  {[client |-> <<Packet("open", 300)>>, server |-> <<>>],
   [client |-> <<Packet("open", 200), Packet("psh", 300)>>, server |-> <<>>],
   [client |-> <<Packet("lifecycle", 7)>>, server |-> <<Packet("psh", 16382), Packet("psh", 20)>>],
   [client |-> <<>>, server |-> <<Packet("psh", 400)>>]}

ShapingScenes ==
  {[Base EXCEPT !.lines = ls, !.off = o, !.large = o, !.packets = ps, !.calm = TRUE] :
     ls \in Scripts, o \in BOOLEAN, ps \in Sends}
  \cup {[Base EXCEPT !.lines = ls, !.packets.server = <<Packet("psh", 200)>>] :
          ls \in BadScripts}
  \cup {[Base EXCEPT !.packets.client = <<Packet("control", 16400)>>, !.calm = TRUE]}

MCScenes == HandshakeScenes \cup StreamScenes \cup ShapingScenes
=============================================================================
