------------------------------ MODULE MCEngine ------------------------------
(***************************************************************************)
(* Engine on the same programs.                                            *)
(***************************************************************************)
EXTENDS EngineFrames, MCExecutor
=============================================================================
