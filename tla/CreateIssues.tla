----------------------------- MODULE CreateIssues -----------------------------
(***************************************************************************)
(* One run of src/create_issues.py: check the gh CLI, slice the hard-coded *)
(* table ISSUES by --start/--end, then for each selected issue read its    *)
(* body from lines start_line..end_line of the draft file and call `gh     *)
(* issue create` (or only print it in a dry run), sleep one second between *)
(* real calls, print the summary and exit.                                 *)
(*                                                                         *)
(* Unlike create_issues_auto.py nothing is parsed up front: the table is   *)
(* part of the program, and the draft is opened again in every iteration, *)
(* inside main's try/except Exception, so an unreadable draft, like any    *)
(* exception from subprocess.run, costs one issue and not the run.  The    *)
(* table's length is env.count; issue k is its k-th row.  remote and log   *)
(* are as in CreateIssuesAuto.                                             *)
(***************************************************************************)
EXTENDS Integers, Sequences, PySlice

CONSTANTS
  MaxIssues,   \* most rows the ISSUES table has
  StartArgs,   \* values tried for --start (argparse type=int, default 1)
  EndArgs,     \* values tried for --end (argparse type=int)
  None         \* --end not given / no exit status yet

ASSUME MaxIssuesAssumption == MaxIssues \in Nat
ASSUME ArgsAssumption == StartArgs \subseteq Int /\ EndArgs \subseteq Int
(* None is no value main() computes: no integer, no summary record.       *)
ASSUME NoneAssumption == None \notin Int \cup [created : Int, failed : Int]

VARIABLES
  args,      \* [dryRun, start, end] as argparse leaves them
  env,       \* [installed, authed, readable, count]: gh, draft, table size
  pc,        \* where main() is
  todo,      \* the selected rows not yet processed by the loop
  i,         \* the loop's enumerate counter (printed as "Issue i/N")
  created,   \* created_count
  failed,    \* failed_count
  remote,    \* issues this run created on GitHub, in order
  log,       \* external effects: "create" (gh issue create) and "sleep"
  report,    \* the counts the summary printed, None before it
  exitCode   \* the value main() returns to sys.exit

vars == <<args, env, pc, todo, i, created, failed, remote, log, report, exitCode>>

(* A failed `gh issue create`: non-zero exit status (CalledProcessError,   *)
(* caught in create_issue) or an OSError (caught by main).                 *)
GhFailures == {"nonzero", "oserror"}

(* The table ISSUES: row k is issue k.                                     *)
ISSUES == [k \in 1..env.count |-> k]

(* end_idx = args.end if args.end else len(ISSUES): 0 is falsy too.        *)
EndIdx == IF args.end \in {None, 0} THEN env.count ELSE args.end

(* issues_to_create = ISSUES[start_idx:end_idx], start_idx = start - 1.    *)
Selected == Slice(ISSUES, args.start - 1, EndIdx)

(* check_gh_cli(dry_run) returns True: a dry run goes on without gh, a    *)
(* real run needs gh --version and gh auth status to succeed.              *)
GhReady == args.dryRun \/ (env.installed /\ env.authed)

(* Mutant of SleepAfter: the bound compared with the sliced list instead  *)
(* of the whole table.                                                     *)
SleepAfterPerSlice ==
  IF ~args.dryRun /\ i < Len(Selected) THEN <<"sleep">> ELSE << >>

(* The rate-limit sleep that ends iteration i, whatever its outcome: not  *)
(* in a dry run, not after the last row of the table.                      *)
SleepAfter == IF ~args.dryRun /\ i < Len(ISSUES) THEN <<"sleep">> ELSE << >>

Init ==
  /\ args \in [dryRun : BOOLEAN, start : StartArgs, end : EndArgs \cup {None}]
  /\ env \in {e \in [installed : BOOLEAN, authed : BOOLEAN,
                     readable : BOOLEAN, count : 0..MaxIssues] :
                e.authed => e.installed}
  /\ pc = "check"
  /\ todo = << >>
  /\ i = 0
  /\ created = 0
  /\ failed = 0
  /\ remote = << >>
  /\ log = << >>
  /\ report = None
  /\ exitCode = None

(* main(): check_gh_cli passes; the range is sliced and the loop starts    *)
(* with enumerate(..., start=start_idx+1).                                 *)
GhCheckPasses ==
  /\ pc = "check"
  /\ GhReady
  /\ todo' = Selected
  /\ i' = args.start
  /\ pc' = "loop"
  /\ UNCHANGED <<args, env, created, failed, remote, log, report, exitCode>>

(* main(): check_gh_cli fails, return 1 before any work.                   *)
GhCheckFails ==
  /\ pc = "check"
  /\ ~GhReady
  /\ pc' = "done"
  /\ exitCode' = 1
  /\ UNCHANGED <<args, env, todo, i, created, failed, remote, log, report>>

(* Mutant of BodyUnreadable: the except branch prints the error and       *)
(* forgets failed_count += 1.                                              *)
BodyUnreadableUncounted ==
  /\ pc = "loop"
  /\ todo # << >>
  /\ ~env.readable
  /\ log' = log \o SleepAfter
  /\ todo' = Tail(todo)
  /\ i' = i + 1
  /\ UNCHANGED <<args, env, pc, created, failed, remote, report, exitCode>>

(* One iteration whose extract_issue_body raises (the draft cannot be     *)
(* opened or decoded): main's except Exception counts a failure; no gh     *)
(* call is made, the rate-limit sleep still is.                            *)
BodyUnreadable ==
  /\ pc = "loop"
  /\ todo # << >>
  /\ ~env.readable
  /\ failed' = failed + 1
  /\ log' = log \o SleepAfter
  /\ todo' = Tail(todo)
  /\ i' = i + 1
  /\ UNCHANGED <<args, env, pc, created, remote, report, exitCode>>

(* One iteration of a dry run whose body was read: create_issue prints     *)
(* and returns True.                                                       *)
DryRunIssue ==
  /\ pc = "loop"
  /\ todo # << >>
  /\ env.readable
  /\ args.dryRun
  /\ created' = created + 1
  /\ todo' = Tail(todo)
  /\ i' = i + 1
  /\ UNCHANGED <<args, env, pc, failed, remote, log, report, exitCode>>

(* Mutant of CreateSucceeds: create_issue without its early return for a  *)
(* dry run.                                                                *)
CreateSucceedsInDryRun ==
  /\ pc = "loop"
  /\ todo # << >>
  /\ env.readable
  /\ remote' = Append(remote, Head(todo))
  /\ created' = created + 1
  /\ log' = log \o <<"create">> \o SleepAfter
  /\ todo' = Tail(todo)
  /\ i' = i + 1
  /\ UNCHANGED <<args, env, pc, failed, report, exitCode>>

(* Mutant of CreateSucceeds: the loop takes its issue from the end of the  *)
(* list (list.pop()) instead of the front.                                 *)
CreateSucceedsPopsLast ==
  /\ pc = "loop"
  /\ todo # << >>
  /\ env.readable
  /\ ~args.dryRun
  /\ remote' = Append(remote, todo[Len(todo)])
  /\ created' = created + 1
  /\ log' = log \o <<"create">> \o SleepAfter
  /\ todo' = SubSeq(todo, 1, Len(todo) - 1)
  /\ i' = i + 1
  /\ UNCHANGED <<args, env, pc, failed, report, exitCode>>

(* One iteration whose body was read and whose gh issue create exits 0:    *)
(* the issue exists on GitHub, created_count += 1, then the sleep.         *)
CreateSucceeds ==
  /\ pc = "loop"
  /\ todo # << >>
  /\ env.readable
  /\ ~args.dryRun
  /\ remote' = Append(remote, Head(todo))
  /\ created' = created + 1
  /\ log' = log \o <<"create">> \o SleepAfter
  /\ todo' = Tail(todo)
  /\ i' = i + 1
  /\ UNCHANGED <<args, env, pc, failed, report, exitCode>>

(* Mutant of CreateFails: an OSError is counted as a created issue.       *)
CreateFailsCountedCreated(e) ==
  /\ pc = "loop"
  /\ todo # << >>
  /\ env.readable
  /\ ~args.dryRun
  /\ created' = IF e = "oserror" THEN created + 1 ELSE created
  /\ failed' = IF e = "oserror" THEN failed ELSE failed + 1
  /\ log' = log \o <<"create">> \o SleepAfter
  /\ todo' = Tail(todo)
  /\ i' = i + 1
  /\ UNCHANGED <<args, env, pc, remote, report, exitCode>>

(* One iteration whose gh call fails with e: create_issue returns False   *)
(* or main catches the OSError; failed_count += 1, then the sleep.         *)
CreateFails(e) ==
  /\ pc = "loop"
  /\ todo # << >>
  /\ env.readable
  /\ ~args.dryRun
  /\ failed' = failed + 1
  /\ log' = log \o <<"create">> \o SleepAfter
  /\ todo' = Tail(todo)
  /\ i' = i + 1
  /\ UNCHANGED <<args, env, pc, created, remote, report, exitCode>>

(* Mutant of Summary: main() returns failed_count itself.                  *)
SummaryReturnsFailedCount ==
  /\ pc = "loop"
  /\ todo = << >>
  /\ report' = [created |-> created, failed |-> failed]
  /\ pc' = "done"
  /\ exitCode' = failed
  /\ UNCHANGED <<args, env, todo, i, created, failed, remote, log>>

(* main(): the loop is over; print the summary and return 0 iff no issue   *)
(* failed.                                                                 *)
Summary ==
  /\ pc = "loop"
  /\ todo = << >>
  /\ report' = [created |-> created, failed |-> failed]
  /\ pc' = "done"
  /\ exitCode' = IF failed = 0 THEN 0 ELSE 1
  /\ UNCHANGED <<args, env, todo, i, created, failed, remote, log>>

Next ==
  \/ GhCheckPasses
  \/ GhCheckFails
  \/ BodyUnreadable
  \/ DryRunIssue
  \/ CreateSucceeds
  \/ \E e \in GhFailures : CreateFails(e)
  \/ Summary

(* One sequential process that takes every step it can (each gh call is   *)
(* assumed to return: subprocess.run has no timeout).                      *)
Spec == Init /\ [][Next]_vars /\ WF_vars(Next)
-----------------------------------------------------------------------------
(* Every variable has the type main() gives it.                            *)
TypeOK ==
  /\ args \in [dryRun : BOOLEAN, start : Int, end : Int \cup {None}]
  /\ env \in [installed : BOOLEAN, authed : BOOLEAN,
              readable : BOOLEAN, count : 0..MaxIssues]
  /\ pc \in {"check", "loop", "done"}
  /\ todo \in Seq(1..MaxIssues)
  /\ i \in Int
  /\ created \in Nat
  /\ failed \in Nat
  /\ remote \in Seq(1..MaxIssues)
  /\ log \in Seq({"create", "sleep"})
  /\ report \in [created : Nat, failed : Nat] \cup {None}
  /\ exitCode \in {0, 1, None}

(* Exit status 0 means every selected issue is on GitHub, once and in      *)
(* table order (none in a dry run): an unreadable draft, a non-zero gh and *)
(* an exception from subprocess.run all have to reach failed_count.        *)
ExitZeroMeansAllCreated ==
  (pc = "done" /\ exitCode = 0) =>
    remote = IF args.dryRun THEN << >> ELSE Selected

(* The summary tells the truth: in a real run "Created" is the number of   *)
(* issues on GitHub, and in every run "Created" plus "Failed" is the       *)
(* number of selected rows.                                                *)
SummaryAccounts ==
  report # None =>
    /\ ~args.dryRun => report.created = Len(remote)
    /\ report.created + report.failed = Len(Selected)

(* --dry-run has no external side effect: no gh issue create, no sleep,    *)
(* nothing on GitHub, even when gh is missing and the check let it pass.   *)
DryRunNoSideEffects ==
  args.dryRun => (log = << >> /\ remote = << >>)

(* Two gh issue create calls never follow each other without a sleep.      *)
RateLimitSpacing ==
  \A j \in 1..(Len(log) - 1) : ~(log[j] = "create" /\ log[j + 1] = "create")

-----------------------------------------------------------------------------
(* Refinement mapping onto IssueBatch: main() before its loop is "idle",   *)
(* the loop "running", a return "finished"; the loop's list is the pending *)
(* list, failed_count the failures, the return value the exit status.      *)
BatchPhase ==
  IF pc \in {"check"} THEN "idle" ELSE IF pc = "loop" THEN "running" ELSE "finished"

Batch == INSTANCE IssueBatch
           WITH phase <- BatchPhase, dry <- args.dryRun, pending <- todo,
                remote <- remote, failures <- failed, exit <- exitCode

(* create_issues.py implements the batch contract: every step of main() is a step   *)
(* of IssueBatch or leaves its state alone, the issues are processed in   *)
(* the order selected, each once, and every run finishes.                 *)
ImplementsIssueBatch == Batch!Spec
=============================================================================
