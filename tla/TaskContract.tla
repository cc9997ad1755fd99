---------------------------- MODULE TaskContract ----------------------------
(***************************************************************************)
(* What a caller of the agent may rely on, whatever the agent does inside. *)
(* A task is open until it is answered, has failed, or was stopped.  At    *)
(* most one candidate answer is on the table, it can only become the       *)
(* answer as it stands and by the verifier accepting it, and a new one is  *)
(* proposed only after the last one was withdrawn.  A failed task is never *)
(* reopened.                                                               *)
(***************************************************************************)
CONSTANTS
  Answers,
  NoAnswer     \* not one of Answers

VARIABLES
  status,      \* "open", "answered", "failed" or "stopped"
  candidate,   \* the answer on the table, or NoAnswer
  accepted     \* the answers the verifier accepted

contractVars == <<status, candidate, accepted>>

Init ==
  /\ status = "open"
  /\ candidate = NoAnswer
  /\ accepted = {}

Propose(answer) ==
  /\ status = "open"
  /\ candidate = NoAnswer
  /\ candidate' = answer
  /\ UNCHANGED <<status, accepted>>

Accept ==
  /\ status = "open"
  /\ candidate # NoAnswer
  /\ status' = "answered"
  /\ accepted' = accepted \cup {candidate}
  /\ UNCHANGED candidate

\* The candidate was rejected; the task goes on, or fails for lack of budget.
Withdraw ==
  /\ status = "open"
  /\ candidate # NoAnswer
  /\ candidate' = NoAnswer
  /\ status' \in {"open", "failed"}
  /\ UNCHANGED accepted

\* A candidate that is being verified stays on the table.
Fail ==
  /\ status = "open"
  /\ status' = "failed"
  /\ UNCHANGED <<candidate, accepted>>

Stop ==
  /\ status \in {"open", "failed"}
  /\ status' = "stopped"
  /\ UNCHANGED <<candidate, accepted>>

Next ==
  \/ \E answer \in Answers : Propose(answer)
  \/ Accept
  \/ Withdraw
  \/ Fail
  \/ Stop

Spec == Init /\ [][Next]_contractVars
=============================================================================
