---------------------------- MODULE MCDispatcher ----------------------------
(* Model-checking instance of Dispatcher: one user in one chat who sends    *)
(* one message of each kind, any of them possibly replayed.                 *)
EXTENDS Dispatcher, TLC

CONSTANTS m1, m2, m3, m4, c1, u1
FourKinds == (m1 :> "file") @@ (m2 :> "text") @@ (m3 :> "cancel") @@ (m4 :> "command")
OneUser   == [m \in Msgs |-> u1]
OneChat   == [k \in Keys |-> c1]
=============================================================================
