----------------------------- MODULE Lifecycle ------------------------------
(***************************************************************************)
(* What a benchmark run promises, whatever its stages do and however often *)
(* its controller is killed and resumed: the stages pass one after the     *)
(* other, none twice and none skipped; the first thing that goes wrong     *)
(* spoils the run for good, and all that is left to do then is to report   *)
(* and archive it; and the run ends.                                       *)
(***************************************************************************)
EXTENDS Sequences, FiniteSetsExt

CONSTANTS Ordered,   \* every stage, in order
          Archival   \* the stages a spoiled run still goes through, in order

VARIABLES done,      \* the completed stages
          invalid    \* the run is spoiled

lifecycleVars == <<done, invalid>>

Stages == IF invalid THEN Archival ELSE Ordered

\* The places of the stages that are left.
Remaining == {i \in DOMAIN Stages : Stages[i] \notin done}

LifecycleInit == done = {} /\ invalid = FALSE

\* The next stage completes, and may find that the run is spoiled.
CompleteNext ==
    /\ Remaining # {}
    /\ done' = done \union {Stages[Min(Remaining)]}
    /\ invalid' \in {invalid, TRUE}

\* The run is spoiled outside a stage's completion: the stage failed, or
\* there was no plan to run.
Spoil == invalid' = TRUE /\ UNCHANGED done

LifecycleNext == CompleteNext \/ Spoil

\* What may happen; and that it goes on while there is a stage left.
LifecycleSafety == LifecycleInit /\ [][LifecycleNext]_lifecycleVars

LifecycleSpec == LifecycleSafety /\ WF_lifecycleVars(CompleteNext)
=============================================================================
