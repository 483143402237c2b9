------------------------- MODULE CreateIssuesNoLabels -------------------------
(***************************************************************************)
(* One run of src/create_issues_no_labels.py: parse the draft, then call   *)
(* `gh issue create` (without --label) for every issue, sleeping one       *)
(* second between calls, print the summary and exit.  There is no gh       *)
(* check, no --start/--end and no dry run.  create_issue catches only      *)
(* CalledProcessError and main() has no try around the loop, so an OSError *)
(* from subprocess.run (gh not on PATH, argument list too long) ends the   *)
(* process with a traceback, exit status 1, in the middle of the loop.     *)
(*                                                                         *)
(* As in CreateIssuesAuto the draft is abstracted to its number of issues, *)
(* and remote is what the run has added to the GitHub repository.          *)
(***************************************************************************)
EXTENDS Integers, Sequences

CONSTANTS
  MaxIssues,   \* most issues a draft yields
  None         \* no summary / no exit status yet

ASSUME MaxIssuesAssumption == MaxIssues \in Nat
(* None is no value main() computes: no integer, no summary record.       *)
ASSUME NoneAssumption == None \notin Int \cup [created : Int, failed : Int]

VARIABLES
  env,       \* [installed, authed, readable, count]: gh and the draft file
  pc,        \* where main() is
  todo,      \* the issues not yet processed by the loop
  created,   \* created
  failed,    \* failed
  remote,    \* issues this run created on GitHub, in order
  report,    \* the counts the summary printed, None before it
  exitCode   \* the process's exit status

vars == <<env, pc, todo, created, failed, remote, report, exitCode>>

(* The parsed list all_issues: record k is issue k.                        *)
AllIssues == [k \in 1..env.count |-> k]

(* What one `gh issue create` can do in this environment: without gh on   *)
(* PATH subprocess.run raises FileNotFoundError (an OSError); without     *)
(* authentication gh exits non-zero; an authenticated gh may succeed, fail *)
(* (unknown repository, network) or not start (argument list too long).   *)
GhOutcomes ==
  {o \in {"ok", "nonzero", "oserror"} :
     /\ o = "ok" => env.authed
     /\ ~env.installed => o = "oserror"}

Init ==
  /\ env \in {e \in [installed : BOOLEAN, authed : BOOLEAN,
                     readable : BOOLEAN, count : 0..MaxIssues] :
                e.authed => e.installed}
  /\ pc = "parse"
  /\ todo = << >>
  /\ created = 0
  /\ failed = 0
  /\ remote = << >>
  /\ report = None
  /\ exitCode = None

(* Mutant of ParseDraft: the section loop starts one header too late and  *)
(* drops the first issue.                                                  *)
ParseDraftSkipsFirst ==
  /\ pc = "parse"
  /\ env.readable
  /\ todo' = SubSeq(AllIssues, 2, Len(AllIssues))
  /\ pc' = "loop"
  /\ UNCHANGED <<env, created, failed, remote, report, exitCode>>

(* main(): parse_issues_from_draft() returns; the loop starts.             *)
ParseDraft ==
  /\ pc = "parse"
  /\ env.readable
  /\ todo' = AllIssues
  /\ pc' = "loop"
  /\ UNCHANGED <<env, created, failed, remote, report, exitCode>>

(* main(): opening or decoding the draft raises, return 1.                 *)
ParseFails ==
  /\ pc = "parse"
  /\ ~env.readable
  /\ pc' = "done"
  /\ exitCode' = 1
  /\ UNCHANGED <<env, todo, created, failed, remote, report>>

(* One iteration whose gh issue create exits 0: created += 1.              *)
CreateSucceeds ==
  /\ pc = "loop"
  /\ todo # << >>
  /\ "ok" \in GhOutcomes
  /\ remote' = Append(remote, Head(todo))
  /\ created' = created + 1
  /\ todo' = Tail(todo)
  /\ UNCHANGED <<env, pc, failed, report, exitCode>>

(* Mutant of CreateFails: the except branch of create_issue returns True. *)
CreateFailsReturnsTrue ==
  /\ pc = "loop"
  /\ todo # << >>
  /\ "nonzero" \in GhOutcomes
  /\ created' = created + 1
  /\ todo' = Tail(todo)
  /\ UNCHANGED <<env, pc, failed, remote, report, exitCode>>

(* One iteration whose gh exits non-zero: create_issue catches the         *)
(* CalledProcessError and returns False, failed += 1.                      *)
CreateFails ==
  /\ pc = "loop"
  /\ todo # << >>
  /\ "nonzero" \in GhOutcomes
  /\ failed' = failed + 1
  /\ todo' = Tail(todo)
  /\ UNCHANGED <<env, pc, created, remote, report, exitCode>>

(* One iteration whose subprocess.run raises OSError: nothing catches it, *)
(* the interpreter prints the traceback and exits with status 1; the      *)
(* remaining issues and the summary are skipped.                           *)
CreateCrashes ==
  /\ pc = "loop"
  /\ todo # << >>
  /\ "oserror" \in GhOutcomes
  /\ pc' = "done"
  /\ exitCode' = 1
  /\ UNCHANGED <<env, todo, created, failed, remote, report>>

(* Mutant of Summary: main() returns the failure count itself.            *)
SummaryReturnsFailedCount ==
  /\ pc = "loop"
  /\ todo = << >>
  /\ report' = [created |-> created, failed |-> failed]
  /\ pc' = "done"
  /\ exitCode' = failed
  /\ UNCHANGED <<env, todo, created, failed, remote>>

(* main(): the loop is over; print the summary, return 0 iff none failed. *)
Summary ==
  /\ pc = "loop"
  /\ todo = << >>
  /\ report' = [created |-> created, failed |-> failed]
  /\ pc' = "done"
  /\ exitCode' = IF failed = 0 THEN 0 ELSE 1
  /\ UNCHANGED <<env, todo, created, failed, remote>>

Next ==
  \/ ParseDraft
  \/ ParseFails
  \/ CreateSucceeds
  \/ CreateFails
  \/ CreateCrashes
  \/ Summary

(* One sequential process that takes every step it can.                   *)
Spec == Init /\ [][Next]_vars /\ WF_vars(Next)
-----------------------------------------------------------------------------
(* Every variable has the type main() gives it.                            *)
TypeOK ==
  /\ env \in [installed : BOOLEAN, authed : BOOLEAN,
              readable : BOOLEAN, count : 0..MaxIssues]
  /\ pc \in {"parse", "loop", "done"}
  /\ todo \in Seq(1..MaxIssues)
  /\ created \in Nat
  /\ failed \in Nat
  /\ remote \in Seq(1..MaxIssues)
  /\ report \in [created : Nat, failed : Nat] \cup {None}
  /\ exitCode \in {0, 1, None}

(* Exit status 0 means every issue of the draft is now on GitHub, once and *)
(* in order: neither a failed call nor a crash can end in status 0.        *)
ExitZeroMeansAllCreated ==
  (pc = "done" /\ exitCode = 0) => remote = AllIssues

(* When a summary is printed it is true: "created" is the number of issues *)
(* now on GitHub, and created plus failed is the number of issues.         *)
SummaryAccounts ==
  report # None =>
    /\ report.created = Len(remote)
    /\ report.created + report.failed = Len(AllIssues)

(* The spec's error handling (section 7) knows two kinds of failure: a    *)
(* missing tool, fatal before any work, and a failed creation, recorded    *)
(* and skipped while the run goes on.  With gh on PATH only the second     *)
(* kind is left, so a run whose draft was parsed and has issues after the  *)
(* first ends only after every issue was tried and the totals reported.    *)
EveryIssueAttempted ==
  (pc = "done" /\ env.readable /\ env.installed /\ env.count >= 2) =>
    (todo = << >> /\ report # None)
=============================================================================
