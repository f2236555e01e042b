------------------------------ MODULE MCEngineV2 ------------------------------
(* One camera of the engine.                                                *)
EXTENDS EngineV2, TLC
=============================================================================
