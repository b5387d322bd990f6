---------------------------- MODULE MCMessenger ----------------------------
(* Two talks and a message of another client.                              *)
EXTENDS Messenger

CONSTANTS t1, t2, m1
TwoTalks == {t1, t2}
ThreeMessages == {t1, t2, m1}
=============================================================================
