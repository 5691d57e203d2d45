---------------------------- MODULE MCAdmission ----------------------------
(* A small instance of Admission: a client process whose hello with number 2 *)
(* arrives twice and whose hellos may overtake each other, a second process  *)
(* that competes for the counter cache, and a hello for another SNI.         *)
EXTENDS Admission, TLC

CONSTANTS k1, k2, e1, e2, e3, a1, a2

C == 1 .. 5
Key == <<k1, k1, k1, k2, k2>>
Seq1 == <<1, 2, 2, 1, 2>>
Eph == <<e1, e2, e2, e3, e1>>
Ip == <<a1, a1, a1, a2, a2>>
Hello == <<"genuine", "genuine", "genuine", "genuine", "other_sni">>
============================================================================
