---------------------------- MODULE EngineFrames ----------------------------
(***************************************************************************)
(* The frames of module CodeShape across an interruption: the context the  *)
(* engine saves holds the frames of the run, all but the results the host  *)
(* still owes, and nothing else keeps them while the run is suspended.     *)
(***************************************************************************)
EXTENDS Engine, CodeShape

\* What resume may rely on (ExecutionEngineInner::remember_context saves it): a saved run
\* still has a frame for every pending call, in slots that exist, up to the results.
ContextFrames ==
  Suspended =>
    /\ resumable \in ReusableContext
    /\ phase = "idle" /\ lastSignature = NoSignature
    /\ Len(resumable.callStack) <= N_MAX_RECURSION_DEPTH
    /\ HasFrames(resumable.module, resumable.ip,
                 Len(resumable.stack) + SysResults[resumable.func], resumable.entries,
                 resumable.callStack, resultLen, NoSignature)

\* A run reports nothing before it is over.
Unreported ==
  phase # "idle" => outcome = [ok |-> FALSE, trap |-> "none", result |-> <<>>]

EngineInv ==
  /\ TypeOK /\ CallDepthBounded /\ FuelWithinLimit /\ Unreported
  /\ FramesInv /\ ContextFrames
=============================================================================
