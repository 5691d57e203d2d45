------------------------------ MODULE MCSession ------------------------------
(* Instances of ClientStream for TLC. *)
EXTENDS ClientStream
MCStreams == {1, 2}
MCCallers == MCStreams \X {"open", "call", "task"}

Scene(modes, limit, nwrites, npads, faulty, fakes, off) ==
  [mode |-> modes, max_streams |-> limit, writes |-> nwrites, pads |-> npads, ends |-> faulty,
   breaks |-> faulty, fakes |-> fakes, post_script_off |-> off]

\* one stream whose session and connection may end at any time
MCOne == {Scene(<<"tcp", "unused">>, 1, 2, 0, TRUE, TRUE, FALSE),
          Scene(<<"unused", "udp">>, 1, 1, 1, TRUE, FALSE, TRUE)}

\* and two streams on a sound connection, with room for both or for one
MCScenes ==
  MCOne \cup {Scene(<<"tcp", "udp">>, 2, 1, 0, FALSE, TRUE, FALSE),
             Scene(<<"tcp", "tcp">>, 1, 0, 0, FALSE, FALSE, FALSE)}
=============================================================================
