---------------------------- MODULE LoopDetector ----------------------------
(***************************************************************************)
(* The loop detector's memory of executed steps.  A step is known by its   *)
(* signature (step type, tool, arguments, strategy family, action text);   *)
(* the exact, structural and semantic comparisons of two signatures are    *)
(* abstracted to one relation: <<candidate, previous>> \in Alike.  The     *)
(* textual similarity behind it is neither symmetric nor transitive, so    *)
(* the relation is only assumed to be reflexive (the exact comparison).    *)
(***************************************************************************)
EXTENDS Naturals, Sequences

CONSTANTS
  Steps,       \* signatures of the steps that do not produce the final answer
  Alike,       \* candidate and previous step count as the same execution
  MaxHistory   \* LoopDetector.max_history

ASSUME DetectorAssumption ==
  /\ Alike \subseteq Steps \X Steps
  /\ \A s \in Steps : <<s, s>> \in Alike
  /\ MaxHistory \in Nat \ {0}

\* Mutant: only the latest execution is compared.
LastStepDetected(step, history) ==
  history # <<>> /\ <<step, history[Len(history)]>> \in Alike

\* LoopDetector.check of a step that is not the final answer.
LoopDetected(step, history) ==
  \E i \in 1..Len(history) : <<step, history[i]>> \in Alike

\* LoopDetector.record: append, and forget the oldest beyond max_history.
Recorded(history, step) ==
  LET longer == Append(history, step)
  IN  IF Len(longer) > MaxHistory THEN Tail(longer) ELSE longer

\* LoopDetector.check_plan: a plan that repeats itself.
PlanRepeats(plan) ==
  \E i, j \in 1..Len(plan) : i < j /\ <<plan[j], plan[i]>> \in Alike
=============================================================================
