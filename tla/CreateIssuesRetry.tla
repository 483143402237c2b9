-------------------------- MODULE CreateIssuesRetry --------------------------
(***************************************************************************)
(* Runs of create_issues_auto.py one after another against the same GitHub *)
(* repository, the way its usage line suggests a partial failure is dealt  *)
(* with: every issue the output reported as failed ("Issue i/N" followed   *)
(* by an error) is run again with --start i --end i.  remote is shared by  *)
(* all the runs; the other variables of CreateIssuesAuto belong to the run *)
(* in progress.                                                            *)
(*                                                                         *)
(* GhPostsThenFails says whether a gh issue create can create the issue    *)
(* and still fail: the POST went through, and gh then exits non-zero (the *)
(* response is lost, a later API call of gh fails) or the call is killed.  *)
(***************************************************************************)
EXTENDS CreateIssuesAuto, FiniteSets

CONSTANTS
  GhPostsThenFails,  \* can a failed call have created its issue?
  MaxReruns          \* how many reruns the operator makes at most

ASSUME RetryAssumption == GhPostsThenFails \in BOOLEAN /\ MaxReruns \in Nat

VARIABLES
  toRetry,  \* the indices i of the "Issue i/N" lines reported as failed
  wanted,   \* the issues the first real run selected
  reruns    \* the reruns made so far

rvars == <<vars, toRetry, wanted, reruns>>

RInit ==
  /\ Init
  /\ toRetry = {}
  /\ wanted = {}
  /\ reruns = 0

(* The first real run records what it set out to create.                   *)
RParseDraft ==
  /\ ParseDraft
  /\ wanted' = IF reruns = 0 /\ ~args.dryRun
               THEN {Selected[k] : k \in 1..Len(Selected)} ELSE wanted
  /\ UNCHANGED <<toRetry, reruns>>

(* A failed iteration: "Issue i/N" followed by an error, so i, the index   *)
(* enumerate printed, is what the operator will rerun.                     *)
RCreateFails(e) ==
  /\ CreateFails(e)
  /\ toRetry' = toRetry \cup {i}
  /\ UNCHANGED <<wanted, reruns>>

(* A failed iteration whose gh call nevertheless created the issue: the    *)
(* same step of main() (failed_count += 1, the sleep), with the issue on   *)
(* GitHub.                                                                 *)
CreatePostsThenFails ==
  /\ GhPostsThenFails
  /\ pc = "loop"
  /\ todo # << >>
  /\ ~args.dryRun
  /\ remote' = Append(remote, Head(todo))
  /\ failed' = failed + 1
  /\ log' = log \o <<"create">> \o SleepAfter
  /\ todo' = Tail(todo)
  /\ i' = i + 1
  /\ toRetry' = toRetry \cup {i}
  /\ UNCHANGED <<args, env, pc, created, report, exitCode, wanted, reruns>>

(* The operator reruns one reported failure k: a new process, with         *)
(* --start k --end k (k as printed, 0 or negative too: argparse takes it), *)
(* the same gh and draft, and the same repository.                         *)
Rerun ==
  /\ pc = "done"
  /\ reruns < MaxReruns
  /\ \E k \in toRetry :
       /\ args' = [dryRun |-> FALSE, start |-> k, end |-> k]
       /\ toRetry' = toRetry \ {k}
  /\ pc' = "check"
  /\ todo' = << >>
  /\ i' = 0
  /\ created' = 0
  /\ failed' = 0
  /\ log' = << >>
  /\ report' = None
  /\ exitCode' = None
  /\ reruns' = reruns + 1
  /\ UNCHANGED <<env, remote, wanted>>

(* The steps of the process in progress.                                   *)
RunNext ==
  \/ (\/ GhCheckPasses \/ GhCheckFails \/ ParseFails \/ DryRunIssue
      \/ CreateSucceeds \/ Summary) /\ UNCHANGED <<toRetry, wanted, reruns>>
  \/ RParseDraft
  \/ \E e \in GhOutcomes \ {"ok"} : RCreateFails(e)
  \/ CreatePostsThenFails

RNext == RunNext \/ Rerun

(* Each process runs to its end; whether the operator reruns is up to them.*)
RSpec == RInit /\ [][RNext]_rvars /\ WF_rvars(RunNext)
-----------------------------------------------------------------------------
RTypeOK ==
  /\ TypeOK
  /\ toRetry \subseteq Int
  /\ wanted \subseteq 1..MaxIssues
  /\ reruns \in 0..MaxReruns

(* Retrying what the output reported as failed never puts an issue on      *)
(* GitHub twice: across all the runs, remote holds each issue at most once.*)
NoDuplicateIssues ==
  \A a, b \in 1..Len(remote) : a < b => remote[a] # remote[b]

(* Retrying works: once every reported failure has been rerun and the last *)
(* run returned 0, the issues on GitHub are the ones the first run         *)
(* selected, every one of them and no other.                              *)
RetryCompletes ==
  (pc = "done" /\ exitCode = 0 /\ toRetry = {}) =>
    {remote[k] : k \in 1..Len(remote)} = wanted

(* No run creates an issue the operator did not ask for: every step that  *)
(* changes GitHub adds one issue, and one the first run selected.  A      *)
(* rerun creates what --start i --end i selects, so this is about the     *)
(* index main() prints for each issue (enumerate(..., start=start_idx+1)) *)
(* naming the issue it prints it for.                                      *)
CreatesOnlyWanted ==
  [][\/ remote' = remote
     \/ \E x \in wanted : remote' = Append(remote, x)]_rvars
=============================================================================
