--------------------------- MODULE CreateIssuesAuto ---------------------------
(***************************************************************************)
(* One run of src/create_issues_auto.py: check the gh CLI, parse the draft *)
(* file into its list of issues, slice the list by --start/--end, then for *)
(* each selected issue call `gh issue create` (or only print it in a dry   *)
(* run), sleep one second between real calls, print the summary and exit. *)
(*                                                                         *)
(* The draft's text is abstracted to the number of issues its headings     *)
(* yield (the parser itself is modelled in its own module); issue k is the *)
(* k-th record of the parsed list.  The external world is: whether gh is   *)
(* installed and authenticated, whether the draft can be read, and, per    *)
(* call, what gh does.  remote is what the run has added to the GitHub     *)
(* repository, and log the sequence of external effects (gh issue create   *)
(* calls and rate-limit sleeps) in the order the script performs them.     *)
(***************************************************************************)
EXTENDS Integers, Sequences, PySlice

CONSTANTS
  MaxIssues,   \* most issues a draft yields
  StartArgs,   \* values tried for --start (argparse type=int, default 1)
  EndArgs,     \* values tried for --end (argparse type=int)
  None         \* --end not given / no exit status yet

ASSUME MaxIssuesAssumption == MaxIssues \in Nat
ASSUME ArgsAssumption == StartArgs \subseteq Int /\ EndArgs \subseteq Int
(* None is no value main() computes: no integer, no summary record.       *)
ASSUME NoneAssumption == None \notin Int \cup [created : Int, failed : Int]

VARIABLES
  args,      \* [dryRun, start, end] as argparse leaves them
  env,       \* [installed, authed, readable, count]: gh and the draft file
  pc,        \* where main() is
  todo,      \* the selected issues not yet processed by the loop
  i,         \* the loop's enumerate counter (printed as "Issue i/N")
  created,   \* created_count
  failed,    \* failed_count
  remote,    \* issues this run created on GitHub, in order
  log,       \* external effects: "create" (gh issue create) and "sleep"
  report,    \* the counts the summary printed, None before it
  exitCode   \* the value main() returns to sys.exit

vars == <<args, env, pc, todo, i, created, failed, remote, log, report, exitCode>>

(* The outcomes of one `gh issue create` subprocess.run: exit status 0,    *)
(* a non-zero exit status (CalledProcessError: unknown label, network,     *)
(* permissions), or an OSError raised before gh runs (gh gone from PATH,   *)
(* argument list too long for a large body).                               *)
GhOutcomes == {"ok", "nonzero", "oserror"}

(* The parsed list all_issues: record k is issue k.                        *)
AllIssues == [k \in 1..env.count |-> k]

(* end_idx = args.end if args.end else len(all_issues): 0 is falsy too.    *)
EndIdx == IF args.end \in {None, 0} THEN env.count ELSE args.end

(* Mutant of Selected: start_idx = args.start, without the - 1.           *)
SelectedFromStart == Slice(AllIssues, args.start, EndIdx)

(* issues_to_create = all_issues[start_idx:end_idx], start_idx = start-1.  *)
Selected == Slice(AllIssues, args.start - 1, EndIdx)

(* check_gh_cli(dry_run) returns True: gh --version succeeds, or this is a *)
(* dry run (which continues with a warning); gh auth status succeeds, or   *)
(* this is a dry run (which does not ask).                                 *)
GhReady == args.dryRun \/ (env.installed /\ env.authed)

(* Mutant of SleepAfter: the bound compared with the sliced list instead  *)
(* of the whole draft.                                                     *)
SleepAfterPerSlice ==
  IF ~args.dryRun /\ i < Len(Selected) THEN <<"sleep">> ELSE << >>

(* The rate-limit sleep after issue i: not in a dry run, not after the     *)
(* last issue of the whole draft.                                          *)
SleepAfter == IF ~args.dryRun /\ i < Len(AllIssues) THEN <<"sleep">> ELSE << >>

Init ==
  /\ args \in [dryRun : BOOLEAN, start : StartArgs, end : EndArgs \cup {None}]
  /\ env \in {e \in [installed : BOOLEAN, authed : BOOLEAN,
                     readable : BOOLEAN, count : 0..MaxIssues] :
                e.authed => e.installed}
  /\ pc = "check"
  /\ todo = << >>
  /\ i = 0
  /\ created = 0
  /\ failed = 0
  /\ remote = << >>
  /\ log = << >>
  /\ report = None
  /\ exitCode = None

(* main(): check_gh_cli passes.                                            *)
GhCheckPasses ==
  /\ pc = "check"
  /\ GhReady
  /\ pc' = "parse"
  /\ UNCHANGED <<args, env, todo, i, created, failed, remote, log, report,
                 exitCode>>

(* main(): check_gh_cli fails, return 1 before any work.                   *)
GhCheckFails ==
  /\ pc = "check"
  /\ ~GhReady
  /\ pc' = "done"
  /\ exitCode' = 1
  /\ UNCHANGED <<args, env, todo, i, created, failed, remote, log, report>>

(* Mutant of ParseDraft: enumerate(..., start=start_idx), so each issue   *)
(* is printed with the index of the one before it.                         *)
ParseDraftEnumeratesFromStartIdx ==
  /\ pc = "parse"
  /\ env.readable
  /\ todo' = Selected
  /\ i' = args.start - 1
  /\ pc' = "loop"
  /\ UNCHANGED <<args, env, created, failed, remote, log, report, exitCode>>

(* main(): parse_issues_from_draft() returns; the range is sliced and the  *)
(* loop starts with enumerate(..., start=start_idx+1).                     *)
ParseDraft ==
  /\ pc = "parse"
  /\ env.readable
  /\ todo' = Selected
  /\ i' = args.start
  /\ pc' = "loop"
  /\ UNCHANGED <<args, env, created, failed, remote, log, report, exitCode>>

(* main(): opening or decoding the draft raises, return 1.                 *)
ParseFails ==
  /\ pc = "parse"
  /\ ~env.readable
  /\ pc' = "done"
  /\ exitCode' = 1
  /\ UNCHANGED <<args, env, todo, i, created, failed, remote, log, report>>

(* Mutant of DryRunIssue: the dry-run branch of create_issue falls off    *)
(* its end (returns None), which main counts as a failure.                 *)
DryRunIssueCountedFailed ==
  /\ pc = "loop"
  /\ todo # << >>
  /\ args.dryRun
  /\ failed' = failed + 1
  /\ todo' = Tail(todo)
  /\ i' = i + 1
  /\ UNCHANGED <<args, env, pc, created, remote, log, report, exitCode>>

(* One loop iteration in a dry run: create_issue prints and returns True.  *)
DryRunIssue ==
  /\ pc = "loop"
  /\ todo # << >>
  /\ args.dryRun
  /\ created' = created + 1
  /\ todo' = Tail(todo)
  /\ i' = i + 1
  /\ UNCHANGED <<args, env, pc, failed, remote, log, report, exitCode>>

(* Mutant of CreateSucceeds: create_issue without its early return for a  *)
(* dry run.                                                                *)
CreateSucceedsInDryRun ==
  /\ pc = "loop"
  /\ todo # << >>
  /\ remote' = Append(remote, Head(todo))
  /\ created' = created + 1
  /\ log' = log \o <<"create">> \o SleepAfter
  /\ todo' = Tail(todo)
  /\ i' = i + 1
  /\ UNCHANGED <<args, env, pc, failed, report, exitCode>>

(* Mutant of CreateSucceeds: the loop takes its issue from the end of the  *)
(* list (list.pop()) instead of the front.                                 *)
CreateSucceedsPopsLast ==
  /\ pc = "loop"
  /\ todo # << >>
  /\ ~args.dryRun
  /\ remote' = Append(remote, todo[Len(todo)])
  /\ created' = created + 1
  /\ log' = log \o <<"create">> \o SleepAfter
  /\ todo' = SubSeq(todo, 1, Len(todo) - 1)
  /\ i' = i + 1
  /\ UNCHANGED <<args, env, pc, failed, report, exitCode>>

(* One loop iteration whose gh issue create exits 0: the issue exists on   *)
(* GitHub, created_count += 1, then the rate-limit sleep.                  *)
CreateSucceeds ==
  /\ pc = "loop"
  /\ todo # << >>
  /\ ~args.dryRun
  /\ remote' = Append(remote, Head(todo))
  /\ created' = created + 1
  /\ log' = log \o <<"create">> \o SleepAfter
  /\ todo' = Tail(todo)
  /\ i' = i + 1
  /\ UNCHANGED <<args, env, pc, failed, report, exitCode>>

(* Mutant of CreateFails: main's except Exception reports the error but    *)
(* forgets failed_count += 1.                                              *)
CreateFailsUncountedOSError(e) ==
  /\ pc = "loop"
  /\ todo # << >>
  /\ ~args.dryRun
  /\ failed' = IF e = "oserror" THEN failed ELSE failed + 1
  /\ log' = log \o <<"create">> \o SleepAfter
  /\ todo' = Tail(todo)
  /\ i' = i + 1
  /\ UNCHANGED <<args, env, pc, created, remote, report, exitCode>>

(* One loop iteration whose gh call fails with outcome e: CalledProcessError*)
(* makes create_issue return False, an OSError reaches main's except       *)
(* Exception; either way failed_count += 1, then the rate-limit sleep.     *)
CreateFails(e) ==
  /\ pc = "loop"
  /\ todo # << >>
  /\ ~args.dryRun
  /\ failed' = failed + 1
  /\ log' = log \o <<"create">> \o SleepAfter
  /\ todo' = Tail(todo)
  /\ i' = i + 1
  /\ UNCHANGED <<args, env, pc, created, remote, report, exitCode>>

(* Mutant of Summary: main() returns failed_count itself.                  *)
SummaryReturnsFailedCount ==
  /\ pc = "loop"
  /\ todo = << >>
  /\ report' = [created |-> created, failed |-> failed]
  /\ pc' = "done"
  /\ exitCode' = failed
  /\ UNCHANGED <<args, env, todo, i, created, failed, remote, log>>

(* main(): the loop is over; print the summary and return 0 iff no issue   *)
(* failed.                                                                 *)
Summary ==
  /\ pc = "loop"
  /\ todo = << >>
  /\ report' = [created |-> created, failed |-> failed]
  /\ pc' = "done"
  /\ exitCode' = IF failed = 0 THEN 0 ELSE 1
  /\ UNCHANGED <<args, env, todo, i, created, failed, remote, log>>

Next ==
  \/ GhCheckPasses
  \/ GhCheckFails
  \/ ParseDraft
  \/ ParseFails
  \/ DryRunIssue
  \/ CreateSucceeds
  \/ \E e \in GhOutcomes \ {"ok"} : CreateFails(e)
  \/ Summary

(* The script is one sequential process; every step it can take it takes *)
(* (each gh call is assumed to return: subprocess.run has no timeout).     *)
Spec == Init /\ [][Next]_vars /\ WF_vars(Next)
-----------------------------------------------------------------------------
(* Every variable has the type main() gives it.                            *)
TypeOK ==
  /\ args \in [dryRun : BOOLEAN, start : Int, end : Int \cup {None}]
  /\ env \in [installed : BOOLEAN, authed : BOOLEAN,
              readable : BOOLEAN, count : 0..MaxIssues]
  /\ pc \in {"check", "parse", "loop", "done"}
  /\ todo \in Seq(1..MaxIssues)
  /\ i \in Int
  /\ created \in Nat
  /\ failed \in Nat
  /\ remote \in Seq(1..MaxIssues)
  /\ log \in Seq({"create", "sleep"})
  /\ report \in [created : Nat, failed : Nat] \cup {None}
  /\ exitCode \in {0, 1, None}

(* Exit status 0 is a promise: a run that returns 0 has created on GitHub  *)
(* every issue of issues_to_create, each once and in draft order, and a    *)
(* dry run that returns 0 has created none.  It rests on the loop counting *)
(* every failed gh call, whichever way (non-zero exit or exception) it     *)
(* fails, and on the loop visiting every selected issue exactly once.      *)
ExitZeroMeansAllCreated ==
  (pc = "done" /\ exitCode = 0) =>
    remote = IF args.dryRun THEN << >> ELSE Selected

(* The summary tells the truth: the "Created" it prints is the number of   *)
(* issues the run put on GitHub (every selected one in a dry run, which    *)
(* only pretends), and "Created" plus "Failed" is the number of selected   *)
(* issues: no iteration is lost or counted twice.                          *)
SummaryAccounts ==
  report # None =>
    /\ report.created = IF args.dryRun THEN Len(Selected) ELSE Len(remote)
    /\ report.created + report.failed = Len(Selected)

(* --dry-run has no external side effect: no gh issue create, no sleep,    *)
(* nothing on GitHub, at any point of the run.                             *)
DryRunNoSideEffects ==
  args.dryRun => (log = << >> /\ remote = << >>)

(* The rate-limit delay separates the gh issue create calls: two calls     *)
(* never follow each other without a sleep between them.                   *)
RateLimitSpacing ==
  \A j \in 1..(Len(log) - 1) : ~(log[j] = "create" /\ log[j + 1] = "create")

(* The range a successful run covers is the one its help text promises:   *)
(* "--start N" and "--end N" are 1-indexed and inclusive, so a run that    *)
(* returns 0 has created exactly the issues at positions start..end.       *)
CreatesRequestedRange ==
  (pc = "done" /\ exitCode = 0 /\ ~args.dryRun) =>
    remote = InclusiveRange(AllIssues, args.start,
                            IF args.end = None THEN env.count ELSE args.end)
-----------------------------------------------------------------------------
(* Refinement mapping onto IssueBatch: main() before its loop is "idle",   *)
(* the loop "running", a return "finished"; the loop's list is the pending *)
(* list, failed_count the failures, the return value the exit status.      *)
BatchPhase ==
  IF pc \in {"check", "parse"} THEN "idle" ELSE IF pc = "loop" THEN "running" ELSE "finished"

Batch == INSTANCE IssueBatch
           WITH phase <- BatchPhase, dry <- args.dryRun, pending <- todo,
                remote <- remote, failures <- failed, exit <- exitCode

(* create_issues_auto.py implements the batch contract: every step of main() is a step   *)
(* of IssueBatch or leaves its state alone, the issues are processed in   *)
(* the order selected, each once, and every run finishes.                 *)
ImplementsIssueBatch == Batch!Spec
=============================================================================
