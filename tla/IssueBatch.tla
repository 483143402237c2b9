------------------------------ MODULE IssueBatch ------------------------------
(***************************************************************************)
(* What a batch run of the issue-creation scripts promises, independent of *)
(* how it reads its issues: a run either stops on a failed precondition    *)
(* before doing anything, or takes a list of issues and processes them one *)
(* at a time in order; each issue is created on GitHub, previewed (dry     *)
(* run) or recorded as failed and skipped; at the end the run exits 0 iff  *)
(* none failed (spec sections 6 and 7).  A dry run creates nothing.        *)
(***************************************************************************)
EXTENDS Integers, Sequences

CONSTANTS
  MaxIssues,   \* issues are 1..MaxIssues
  None         \* no exit status yet

VARIABLES
  phase,       \* "idle" (checking), "running" (the loop), "finished"
  dry,         \* whether this is a dry run
  pending,     \* issues not yet processed, in order
  remote,      \* issues created on GitHub, in order
  failures,    \* number of issues recorded as failed
  exit         \* exit status, None until finished

absVars == <<phase, dry, pending, remote, failures, exit>>

Issues == 1..MaxIssues

Init ==
  /\ phase = "idle"
  /\ dry \in BOOLEAN
  /\ pending = << >>
  /\ remote = << >>
  /\ failures = 0
  /\ exit = None

(* A precondition (gh, the draft) fails: exit 1, nothing done.             *)
Abort ==
  /\ phase = "idle"
  /\ phase' = "finished"
  /\ exit' = 1
  /\ UNCHANGED <<dry, pending, remote, failures>>

(* The run fixes the list of issues it will process.                       *)
Start ==
  /\ phase = "idle"
  /\ phase' = "running"
  /\ pending' \in Seq(Issues)
  /\ UNCHANGED <<dry, remote, failures, exit>>

(* The next issue is created (never in a dry run).                         *)
Create ==
  /\ phase = "running"
  /\ pending # << >>
  /\ ~dry
  /\ remote' = Append(remote, Head(pending))
  /\ pending' = Tail(pending)
  /\ UNCHANGED <<phase, dry, failures, exit>>

(* The next issue is only shown (dry run).                                 *)
Preview ==
  /\ phase = "running"
  /\ pending # << >>
  /\ dry
  /\ pending' = Tail(pending)
  /\ UNCHANGED <<phase, dry, remote, failures, exit>>

(* The next issue fails: recorded and skipped.                             *)
Fail ==
  /\ phase = "running"
  /\ pending # << >>
  /\ failures' = failures + 1
  /\ pending' = Tail(pending)
  /\ UNCHANGED <<phase, dry, remote, exit>>

(* Every issue was processed: exit 0 iff none failed.                      *)
Finish ==
  /\ phase = "running"
  /\ pending = << >>
  /\ phase' = "finished"
  /\ exit' = IF failures = 0 THEN 0 ELSE 1
  /\ UNCHANGED <<dry, pending, remote, failures>>

Next == Abort \/ Start \/ Create \/ Preview \/ Fail \/ Finish

(* A run does not stop half way: it keeps taking steps until finished.     *)
Spec == Init /\ [][Next]_absVars /\ WF_absVars(Next)

(* The same without fairness: what every finite prefix of a run obeys.     *)
SafeSpec == Init /\ [][Next]_absVars
=============================================================================
