---------------------------- MODULE MCCamouflage ----------------------------
(* Instances of Camouflage for TLC.                                        *)
EXTENDS Camouflage

CONSTANTS c1, c2, c3, fa, fb

MCConns == {c1, c2, c3}
MCTwo == {c1, c2}
MCFingerprints == {fa, fb}
MCOneFingerprint == {fa}

\* Sizes: 0 is out of bounds, 1 is too small for the Noise answer.
MCFlights == {<<0, 1, 2, 3>>}
MCSmallFirst == {<<1, 1, 2>>}
=============================================================================
