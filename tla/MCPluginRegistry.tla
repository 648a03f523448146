-------------------------- MODULE MCPluginRegistry --------------------------
(* Model-checking instance of PluginRegistry: two operators reload a plugin  *)
(* that also dies, whose dispatcher panics and whose spawn fails.            *)
EXTENDS PluginRegistry, TLC

CONSTANTS alice, bob
=============================================================================
