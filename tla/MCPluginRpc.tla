----------------------------- MODULE MCPluginRpc -----------------------------
(* Model-checking instance of PluginRpc: a behaviour is one of enough      *)
(* messages to fill the inbound channel and to block the reader behind it, *)
(* with a shutdown; or of cards with a click, an advertisement and a       *)
(* handshake.                                                              *)
EXTENDS PluginRpc, TLC

CONSTANTS call1, call2, call3, call4

Workload(ka, kb, kc, kd, m, k, v) ==
  [kind  |-> (call1 :> ka) @@ (call2 :> kb) @@ (call3 :> kc) @@ (call4 :> kd),
   lines |-> ("message" :> m) @@ ("callback" :> k) @@ ("advertise" :> v)]

Full      == Workload("acknowledge", "acknowledge", "acknowledge", "shutdown", 3, 0, 0)
Questions == Workload("initialize", "question", "none", "none", 0, 1, 1)
Cards     == Workload("question", "approval", "none", "none", 0, 1, 0)
Loads == {Full, Questions, Cards}
=============================================================================
