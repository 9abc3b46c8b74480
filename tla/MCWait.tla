------------------------------- MODULE MCWait -------------------------------
(* A small instance of Wait: two names, each can be taken again.           *)
EXTENDS Wait, TLC

FirstOfEach == "a" :> "u1" @@ "b" :> "u2"
=============================================================================
