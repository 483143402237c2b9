-------------------------- MODULE CreateIssues_proofs --------------------------
(***************************************************************************)
(* Proofs about CreateIssues (create_issues.py), for every size of the     *)
(* ISSUES table and every --start/--end: the type invariant, the inductive *)
(* invariant from which the exit-status, summary and dry-run properties    *)
(* follow, the rate-limit spacing, and the refinement of IssueBatch's      *)
(* safety part.  The argument is the one of CreateIssuesAuto_proofs; what  *)
(* differs is that the table is sliced at the gh check, and that an        *)
(* unreadable draft costs one iteration (BodyUnreadable), in a dry run     *)
(* too, without a gh call but with the rate-limit sleep.                   *)
(***************************************************************************)
EXTENDS CreateIssues, ScriptLemmas

(* The table, and so the selected part of it, are sequences of rows.      *)
LEMMA SelectedType ==
  ASSUME TypeOK
  PROVE  /\ ISSUES \in Seq(1..MaxIssues)
         /\ Selected \in Seq(1..MaxIssues)
<1>1. ISSUES \in Seq(1..MaxIssues)
  <2>1. env.count \in Nat /\ env.count <= MaxIssues
    BY MaxIssuesAssumption DEF TypeOK
  <2>. QED
    BY <2>1, MaxIssuesAssumption, IsASeq DEF ISSUES
<1>2. args.start - 1 \in Int /\ EndIdx \in Int
  BY DEF TypeOK, EndIdx
<1>. QED
  BY <1>1, <1>2, SliceType DEF Selected

(* The table has env.count rows.                                           *)
LEMMA IssuesLen ==
  ASSUME TypeOK
  PROVE  Len(ISSUES) = env.count
<1>1. env.count \in Nat
  BY DEF TypeOK
<1>. QED
  BY <1>1, SelectedType, LenProperties DEF ISSUES

(* The rate-limit tail of an iteration is empty or one sleep.             *)
LEMMA SleepAfterType ==
  SleepAfter \in {<< >>, <<"sleep">>}
BY DEF SleepAfter

(* An iteration leaves a log of log events, whether it called gh or not.  *)
LEMMA LogStepType ==
  ASSUME NEW l \in Seq({"create", "sleep"})
  PROVE  /\ l \o <<"create">> \o SleepAfter \in Seq({"create", "sleep"})
         /\ l \o SleepAfter \in Seq({"create", "sleep"})
<1>0. /\ << >> \in Seq({"create", "sleep"})
      /\ <<"sleep">> \in Seq({"create", "sleep"})
      /\ <<"create">> \in Seq({"create", "sleep"})
  OBVIOUS
<1>1. SleepAfter \in Seq({"create", "sleep"})
  <2>1. SleepAfter = << >> \/ SleepAfter = <<"sleep">>
    BY SleepAfterType
  <2>. QED
    BY <1>0, <2>1
<1>2. l \o <<"create">> \in Seq({"create", "sleep"})
  BY <1>0, ConcatProperties
<1>. QED
  BY <1>1, <1>2, ConcatProperties

(* The initial states are well typed.                                    *)
LEMMA TypeInit == Init => TypeOK
<1> SUFFICES ASSUME Init PROVE TypeOK
  OBVIOUS
<1>1. args \in [dryRun : BOOLEAN, start : Int, end : Int \cup {None}]
  BY ArgsAssumption DEF Init
<1>2. << >> \in Seq(1..MaxIssues) /\ << >> \in Seq({"create", "sleep"})
  OBVIOUS
<1>. QED
  BY <1>1, <1>2 DEF Init, TypeOK

(* One iteration: the loop's list loses its head, which is a row.          *)
LEMMA TodoStep ==
  ASSUME TypeOK, todo # << >>
  PROVE  /\ Head(todo) \in 1..MaxIssues
         /\ Tail(todo) \in Seq(1..MaxIssues)
         /\ Len(Tail(todo)) = Len(todo) - 1
BY HeadTailProperties DEF TypeOK

(* Every step keeps the state well typed.                                 *)
LEMMA TypeStep == TypeOK /\ [Next]_vars => TypeOK'
<1> SUFFICES ASSUME TypeOK, [Next]_vars PROVE TypeOK'
  OBVIOUS
<1>1. CASE GhCheckPasses
  BY <1>1, SelectedType DEF GhCheckPasses, TypeOK
<1>2. CASE GhCheckFails
  BY <1>2 DEF GhCheckFails, TypeOK
<1>3. CASE BodyUnreadable
  <2>1. log' \in Seq({"create", "sleep"})
    BY <1>3, LogStepType DEF BodyUnreadable, TypeOK
  <2>. QED
    BY <1>3, <2>1, TodoStep DEF BodyUnreadable, TypeOK
<1>4. CASE DryRunIssue
  BY <1>4, TodoStep DEF DryRunIssue, TypeOK
<1>5. CASE CreateSucceeds
  <2>1. remote' \in Seq(1..MaxIssues)
    BY <1>5, TodoStep, AppendProperties DEF CreateSucceeds, TypeOK
  <2>2. log' \in Seq({"create", "sleep"})
    BY <1>5, LogStepType DEF CreateSucceeds, TypeOK
  <2>. QED
    BY <1>5, <2>1, <2>2, TodoStep DEF CreateSucceeds, TypeOK
<1>6. CASE \E e \in GhFailures : CreateFails(e)
  <2>1. PICK e \in GhFailures : CreateFails(e)
    BY <1>6
  <2>2. log' \in Seq({"create", "sleep"})
    BY <2>1, LogStepType DEF CreateFails, TypeOK
  <2>. QED
    BY <2>1, <2>2, TodoStep DEF CreateFails, TypeOK
<1>7. CASE Summary
  BY <1>7 DEF Summary, TypeOK
<1>8. CASE UNCHANGED vars
  BY <1>8 DEF vars, TypeOK
<1>. QED
  BY <1>1, <1>2, <1>3, <1>4, <1>5, <1>6, <1>7, <1>8 DEF Next

(* Every reachable state is well typed.                                   *)
THEOREM TypeCorrect == Spec => []TypeOK
BY TypeInit, TypeStep, PTL DEF Spec
-----------------------------------------------------------------------------
(***************************************************************************)
(* The inductive invariant.  As in create_issues_auto.py, what makes exit  *)
(* status 0 and the summary true is what the loop keeps: the rows counted  *)
(* plus the rows left are the selected ones; in a real run the issues on   *)
(* GitHub are the ones counted as created and, while nothing has failed,   *)
(* the issues on GitHub followed by the rows left are the selected rows.   *)
(* Unlike there, a dry run can count failures (an unreadable draft), so    *)
(* nothing is said of failed_count in a dry run.                           *)
(***************************************************************************)
InvBeforeLoop ==
  pc = "check" =>
    /\ todo = << >> /\ created = 0 /\ failed = 0
    /\ remote = << >> /\ report = None /\ exitCode = None

InvLoop ==
  (pc = "loop" \/ report # None) =>
    /\ created + failed + Len(todo) = Len(Selected)
    /\ ~args.dryRun => Len(remote) = created
    /\ (~args.dryRun /\ failed = 0) => remote \o todo = Selected

InvReport ==
  report # None =>
    /\ pc = "done" /\ todo = << >>
    /\ report = [created |-> created, failed |-> failed]

InvExit ==
  exitCode = 0 => (report # None /\ failed = 0)

IInv ==
  /\ TypeOK
  /\ InvBeforeLoop
  /\ InvLoop
  /\ InvReport
  /\ InvExit
  /\ DryRunNoSideEffects

(* Rate-limit spacing: as long as rows remain, the log does not end in a  *)
(* gh call, and the enumerate index plus the rows left never passes        *)
(* len(ISSUES) + 1, so the sleep is skipped only when nothing is left.     *)
SpaceInv ==
  /\ pc = "check" => log = << >>
  /\ todo # << >> => i + Len(todo) <= env.count + 1
  /\ (log # << >> /\ log[Len(log)] = "create") => todo = << >>
  /\ RateLimitSpacing
(* The selected rows depend on the arguments and the table alone.         *)
LEMMA SelectedUnchanged ==
  ASSUME args' = args, env' = env
  PROVE  Selected' = Selected
BY DEF Selected, ISSUES, EndIdx, Slice, ClampIndex

(* IInv holds initially.                                                  *)
LEMMA IInvInit == Init => IInv
<1> SUFFICES ASSUME Init PROVE IInv
  OBVIOUS
<1>1. TypeOK
  BY TypeInit
<1>. QED
  BY <1>1, NoneAssumption DEF Init, IInv, InvBeforeLoop, InvLoop, InvReport, InvExit,
            DryRunNoSideEffects

(* Every step keeps IInv.                                                 *)
LEMMA IInvStep == IInv /\ [Next]_vars => IInv'
<1> SUFFICES ASSUME IInv, [Next]_vars PROVE IInv'
  OBVIOUS
<1>0. /\ TypeOK /\ TypeOK' /\ Selected \in Seq(1..MaxIssues)
      /\ Len(Selected) \in Nat
      /\ pc = "loop" => report = None
  <2>1. TypeOK /\ TypeOK' /\ Selected \in Seq(1..MaxIssues)
    BY TypeStep, SelectedType DEF IInv
  <2>. QED
    BY <2>1, LenProperties DEF IInv, InvReport, TypeOK
<1> USE DEF IInv
<1>1. CASE GhCheckPasses
  <2>1. Selected' = Selected
    BY <1>1, SelectedUnchanged DEF GhCheckPasses
  <2>2. << >> \o Selected = Selected
    BY <1>0, ConcatEmptySeq
  <2>3. InvLoop'
    BY <1>0, <1>1, <2>1, <2>2, LenProperties DEF GhCheckPasses, InvBeforeLoop, InvLoop
  <2>. QED
    BY <1>0, <1>1, <2>3, NoneAssumption
    DEF GhCheckPasses, InvBeforeLoop, InvReport, InvExit, DryRunNoSideEffects
<1>2. CASE GhCheckFails
  BY <1>0, <1>2, NoneAssumption
  DEF GhCheckFails, InvBeforeLoop, InvLoop, InvReport, InvExit,
      DryRunNoSideEffects
<1>3. CASE BodyUnreadable
  <2>1. Selected' = Selected
    BY <1>3, SelectedUnchanged DEF BodyUnreadable
  <2>2. created + (failed + 1) + Len(Tail(todo)) = Len(Selected)
    BY <1>0, <1>3, CountStep DEF BodyUnreadable, InvLoop, TypeOK
  <2>3. InvLoop'
    BY <1>0, <1>3, <2>1, <2>2 DEF BodyUnreadable, InvLoop, TypeOK
  <2>4. DryRunNoSideEffects'
    BY <1>3 DEF BodyUnreadable, DryRunNoSideEffects, SleepAfter
  <2>. QED
    BY <1>0, <1>3, <2>3, <2>4 DEF BodyUnreadable, InvBeforeLoop, InvReport, InvExit
<1>4. CASE DryRunIssue
  <2>1. Selected' = Selected
    BY <1>4, SelectedUnchanged DEF DryRunIssue
  <2>2. (created + 1) + failed + Len(Tail(todo)) = Len(Selected)
    BY <1>0, <1>4, CountStep DEF DryRunIssue, InvLoop, TypeOK
  <2>3. InvLoop'
    BY <1>0, <1>4, <2>1, <2>2 DEF DryRunIssue, InvLoop
  <2>. QED
    BY <1>0, <1>4, <2>3
    DEF DryRunIssue, InvBeforeLoop, InvReport, InvExit, DryRunNoSideEffects
<1>5. CASE CreateSucceeds
  <2>1. Selected' = Selected
    BY <1>5, SelectedUnchanged DEF CreateSucceeds
  <2>2. todo # << >> /\ todo \in Seq(1..MaxIssues) /\ remote \in Seq(1..MaxIssues)
    BY <1>0, <1>5 DEF CreateSucceeds, TypeOK
  <2>3. Len(Append(remote, Head(todo))) = Len(remote) + 1
    BY <2>2, TodoStep, AppendProperties, <1>0
  <2>4. Append(remote, Head(todo)) \o Tail(todo) = remote \o todo
    BY <2>2, AppendHeadTail
  <2>5. (created + 1) + failed + Len(Tail(todo)) = Len(Selected)
    BY <1>0, <1>5, <2>2, CountStep DEF CreateSucceeds, InvLoop, TypeOK
  <2>6. InvLoop'
    BY <1>0, <1>5, <2>1, <2>3, <2>4, <2>5 DEF CreateSucceeds, InvLoop
  <2>. QED
    BY <1>0, <1>5, <2>6
    DEF CreateSucceeds, InvBeforeLoop, InvReport, InvExit, DryRunNoSideEffects
<1>6. CASE \E e \in GhFailures : CreateFails(e)
  <2>1. PICK e \in GhFailures : CreateFails(e)
    BY <1>6
  <2>2. Selected' = Selected
    BY <2>1, SelectedUnchanged DEF CreateFails
  <2>3. created + (failed + 1) + Len(Tail(todo)) = Len(Selected)
    BY <1>0, <2>1, CountStep DEF CreateFails, InvLoop, TypeOK
  <2>4. failed + 1 # 0
    BY <1>0 DEF TypeOK
  <2>5. InvLoop'
    BY <1>0, <2>1, <2>2, <2>3, <2>4 DEF CreateFails, InvLoop
  <2>. QED
    BY <1>0, <2>1, <2>5
    DEF CreateFails, InvBeforeLoop, InvReport, InvExit, DryRunNoSideEffects
<1>7. CASE Summary
  <2>1. Selected' = Selected
    BY <1>7, SelectedUnchanged DEF Summary
  <2>2. InvLoop'
    BY <1>7, <2>1 DEF Summary, InvLoop
  <2>. QED
    BY <1>0, <1>7, <2>2, NoneAssumption
    DEF Summary, TypeOK, InvBeforeLoop, InvReport, InvExit, DryRunNoSideEffects
<1>8. CASE UNCHANGED vars
  <2>1. Selected' = Selected
    BY <1>8, SelectedUnchanged DEF vars
  <2>. QED
    BY <1>0, <1>8, <2>1
    DEF vars, InvBeforeLoop, InvLoop, InvReport, InvExit, DryRunNoSideEffects
<1>. QED
  BY <1>1, <1>2, <1>3, <1>4, <1>5, <1>6, <1>7, <1>8 DEF Next

(* IInv holds in every reachable state.                                   *)
THEOREM InductiveInvariant == Spec => []IInv
BY IInvInit, IInvStep, PTL DEF Spec
-----------------------------------------------------------------------------
(* A run that exits 0 has created every selected row's issue, once and in *)
(* table order (none in a dry run): ExitZeroMeansAllCreated, for every     *)
(* table size and every --start/--end.                                     *)
THEOREM ExitZeroCorrect == Spec => []ExitZeroMeansAllCreated
<1>1. IInv => ExitZeroMeansAllCreated
  <2> SUFFICES ASSUME IInv, pc = "done", exitCode = 0
               PROVE  remote = IF args.dryRun THEN << >> ELSE Selected
    BY DEF ExitZeroMeansAllCreated
  <2>1. report # None /\ failed = 0 /\ todo = << >>
    BY DEF IInv, InvExit, InvReport
  <2>2. CASE args.dryRun
    BY <2>2 DEF IInv, DryRunNoSideEffects
  <2>3. CASE ~args.dryRun
    <3>1. remote \o << >> = Selected
      BY <2>1, <2>3 DEF IInv, InvLoop
    <3>2. remote \in Seq(1..MaxIssues)
      BY DEF IInv, TypeOK
    <3>. QED
      BY <2>3, <3>1, <3>2, ConcatEmptySeq
  <2>. QED
    BY <2>2, <2>3
<1>. QED
  BY <1>1, InductiveInvariant, PTL

(* The printed summary matches what happened: SummaryAccounts.            *)
THEOREM SummaryCorrect == Spec => []SummaryAccounts
<1>1. IInv => SummaryAccounts
  <2> SUFFICES ASSUME IInv, report # None
               PROVE  /\ ~args.dryRun => report.created = Len(remote)
                      /\ report.created + report.failed = Len(Selected)
    BY DEF SummaryAccounts
  <2>1. /\ report = [created |-> created, failed |-> failed]
        /\ todo = << >>
    BY DEF IInv, InvReport
  <2>2. /\ created + failed + Len(todo) = Len(Selected)
        /\ ~args.dryRun => Len(remote) = created
    BY DEF IInv, InvLoop
  <2>3. created \in Nat /\ failed \in Nat
    BY DEF IInv, TypeOK
  <2>. QED
    BY <2>1, <2>2, <2>3
<1>. QED
  BY <1>1, InductiveInvariant, PTL

(* A dry run never calls gh issue create, never sleeps and creates nothing *)
(* on GitHub, even when rows fail to read: DryRunNoSideEffects.            *)
THEOREM DryRunCorrect == Spec => []DryRunNoSideEffects
<1>1. IInv => DryRunNoSideEffects
  BY DEF IInv
<1>. QED
  BY <1>1, InductiveInvariant, PTL
-----------------------------------------------------------------------------
(* The enumerate counter starts at --start, and the slice it numbers ends *)
(* no later than the table: start + len(issues_to_create) <= len + 1.     *)
LEMMA SelectedBound ==
  ASSUME TypeOK, Selected # << >>
  PROVE  args.start + Len(Selected) <= env.count + 1
<1>1. ISSUES \in Seq(1..MaxIssues) /\ Len(ISSUES) = env.count
  BY SelectedType, IssuesLen
<1>2. args.start \in Int /\ EndIdx \in Int /\ env.count \in Nat
  BY DEF TypeOK, EndIdx
<1>3. (args.start - 1) + Len(Selected) <= Len(ISSUES)
  BY <1>1, <1>2, SliceBound DEF Selected
<1>4. Len(Selected) \in Nat
  BY SelectedType, LenProperties
<1>. QED
  BY <1>1, <1>2, <1>3, <1>4

(* After an iteration the rows left still fit below the index bound, and  *)
(* the sleep was skipped only if no row is left.                           *)
LEMMA IterationBound ==
  ASSUME TypeOK, SpaceInv, todo # << >>
  PROVE  /\ Tail(todo) # << >> => (i + 1) + Len(Tail(todo)) <= env.count + 1
         /\ SleepAfter = << >> => (args.dryRun \/ Tail(todo) = << >>)
<1>1. /\ Len(todo) \in Nat /\ Len(Tail(todo)) = Len(todo) - 1
      /\ Tail(todo) \in Seq(1..MaxIssues)
      /\ i \in Int /\ env.count \in Nat
      /\ i + Len(todo) <= env.count + 1
  BY TodoStep, LenProperties DEF TypeOK, SpaceInv
<1>2. SleepAfter = << >> /\ ~args.dryRun => i >= env.count
  BY <1>1, IssuesLen DEF SleepAfter
<1>. QED
  BY <1>1, <1>2, EmptySeq

(* One real iteration with a gh call keeps the spacing conjuncts.          *)
LEMMA CreateKeepsSpacing ==
  ASSUME TypeOK, SpaceInv, todo # << >>, ~args.dryRun
  PROVE  /\ (log \o <<"create">> \o SleepAfter)[Len(log \o <<"create">> \o SleepAfter)]
              = "create" => Tail(todo) = << >>
         /\ Spaced(log \o <<"create">> \o SleepAfter)
<1>1. /\ log \in Seq({"create", "sleep"})
      /\ SleepAfter \in {<< >>, <<"sleep">>}
      /\ Spaced(log)
      /\ log = << >> \/ log[Len(log)] # "create"
  BY SleepAfterType DEF TypeOK, SpaceInv, RateLimitSpacing, Spaced
<1>. QED
  BY <1>1, LogAppendSpaced, IterationBound

(* SpaceInv holds initially.                                              *)
LEMMA SpaceInit == Init => SpaceInv
BY DEF Init, SpaceInv, RateLimitSpacing

(* Every step keeps SpaceInv, given the inductive invariant IInv.          *)
LEMMA SpaceStep == IInv /\ SpaceInv /\ [Next]_vars => SpaceInv'
<1> SUFFICES ASSUME IInv, SpaceInv, [Next]_vars PROVE SpaceInv'
  OBVIOUS
<1>0. TypeOK /\ DryRunNoSideEffects /\ InvBeforeLoop
  BY DEF IInv
<1>1. CASE GhCheckPasses
  <2>1. log = << >>
    BY <1>1 DEF GhCheckPasses, SpaceInv
  <2>2. Selected # << >> => args.start + Len(Selected) <= env.count + 1
    BY <1>0, SelectedBound
  <2>. QED
    BY <1>1, <2>1, <2>2 DEF GhCheckPasses, SpaceInv, RateLimitSpacing
<1>2. CASE GhCheckFails
  BY <1>0, <1>2 DEF GhCheckFails, SpaceInv, InvBeforeLoop, RateLimitSpacing
<1>3. CASE BodyUnreadable
  <2>1. /\ log \in Seq({"create", "sleep"})
        /\ SleepAfter \in {<< >>, <<"sleep">>}
        /\ Spaced(log)
        /\ log = << >> \/ log[Len(log)] # "create"
    BY <1>0, <1>3, SleepAfterType
    DEF BodyUnreadable, TypeOK, SpaceInv, RateLimitSpacing, Spaced
  <2>2. /\ Spaced(log \o SleepAfter)
        /\ log \o SleepAfter = << >> \/ (log \o SleepAfter)[Len(log \o SleepAfter)] # "create"
    BY <2>1, LogSleepSpaced
  <2>3. Tail(todo) # << >> => (i + 1) + Len(Tail(todo)) <= env.count + 1
    BY <1>0, <1>3, IterationBound DEF BodyUnreadable
  <2>. QED
    BY <1>3, <2>2, <2>3 DEF BodyUnreadable, SpaceInv, RateLimitSpacing, Spaced
<1>4. CASE DryRunIssue
  <2>1. log = << >>
    BY <1>0, <1>4 DEF DryRunIssue, DryRunNoSideEffects
  <2>2. Tail(todo) # << >> => (i + 1) + Len(Tail(todo)) <= env.count + 1
    BY <1>0, <1>4, IterationBound DEF DryRunIssue
  <2>. QED
    BY <1>4, <2>1, <2>2 DEF DryRunIssue, SpaceInv, RateLimitSpacing
<1>5. CASE CreateSucceeds
  <2>1. /\ Tail(todo) # << >> => (i + 1) + Len(Tail(todo)) <= env.count + 1
        /\ (log \o <<"create">> \o SleepAfter)[Len(log \o <<"create">> \o SleepAfter)]
              = "create" => Tail(todo) = << >>
        /\ Spaced(log \o <<"create">> \o SleepAfter)
    BY <1>0, <1>5, CreateKeepsSpacing, IterationBound DEF CreateSucceeds
  <2>. QED
    BY <1>5, <2>1 DEF CreateSucceeds, SpaceInv, RateLimitSpacing, Spaced
<1>6. CASE \E e \in GhFailures : CreateFails(e)
  <2>1. PICK e \in GhFailures : CreateFails(e)
    BY <1>6
  <2>2. /\ Tail(todo) # << >> => (i + 1) + Len(Tail(todo)) <= env.count + 1
        /\ (log \o <<"create">> \o SleepAfter)[Len(log \o <<"create">> \o SleepAfter)]
              = "create" => Tail(todo) = << >>
        /\ Spaced(log \o <<"create">> \o SleepAfter)
    BY <1>0, <2>1, CreateKeepsSpacing, IterationBound DEF CreateFails
  <2>. QED
    BY <2>1, <2>2 DEF CreateFails, SpaceInv, RateLimitSpacing, Spaced
<1>7. CASE Summary
  BY <1>7 DEF Summary, SpaceInv, RateLimitSpacing
<1>8. CASE UNCHANGED vars
  BY <1>8 DEF vars, SpaceInv, RateLimitSpacing
<1>. QED
  BY <1>1, <1>2, <1>3, <1>4, <1>5, <1>6, <1>7, <1>8 DEF Next

(* Two gh issue create calls are always separated by the rate-limit sleep *)
(* (RateLimitSpacing), for every table size and every --start/--end, and  *)
(* although an unreadable row sleeps without a call.                       *)
THEOREM RateLimitCorrect == Spec => []RateLimitSpacing
<1>1. Init => IInv /\ SpaceInv
  BY IInvInit, SpaceInit
<1>2. IInv /\ SpaceInv /\ [Next]_vars => (IInv /\ SpaceInv)'
  BY IInvStep, SpaceStep
<1>3. IInv /\ SpaceInv => RateLimitSpacing
  BY DEF SpaceInv
<1>. QED
  BY <1>1, <1>2, <1>3, PTL DEF Spec
-----------------------------------------------------------------------------
(* The initial state of main() is an initial state of IssueBatch.         *)
LEMMA BatchInit == Init => Batch!Init
BY DEF Init, Batch!Init, BatchPhase

(* Every step of main() is a step of IssueBatch or a stutter of it: a      *)
(* failed gh check is Abort, the slicing of the table Start, a row that    *)
(* cannot be read Fail, dry-run, successful and failed iterations Preview, *)
(* Create and Fail, and the summary Finish.                                *)
LEMMA BatchStep == TypeOK /\ [Next]_vars => [Batch!Next]_Batch!absVars
<1> SUFFICES ASSUME TypeOK, [Next]_vars PROVE [Batch!Next]_Batch!absVars
  OBVIOUS
<1>1. CASE GhCheckPasses
  <2>1. Selected \in Seq(1..MaxIssues)
    BY SelectedType
  <2>. QED
    BY <1>1, <2>1 DEF GhCheckPasses, BatchPhase, Batch!Next, Batch!Start, Batch!Issues
<1>2. CASE GhCheckFails
  BY <1>2 DEF GhCheckFails, BatchPhase, Batch!Next, Batch!Abort
<1>3. CASE BodyUnreadable
  BY <1>3 DEF BodyUnreadable, BatchPhase, Batch!Next, Batch!Fail
<1>4. CASE DryRunIssue
  BY <1>4 DEF DryRunIssue, BatchPhase, Batch!Next, Batch!Preview
<1>5. CASE CreateSucceeds
  BY <1>5 DEF CreateSucceeds, BatchPhase, Batch!Next, Batch!Create
<1>6. CASE \E e \in GhFailures : CreateFails(e)
  <2>1. PICK e \in GhFailures : CreateFails(e)
    BY <1>6
  <2>. QED
    BY <2>1 DEF CreateFails, BatchPhase, Batch!Next, Batch!Fail
<1>7. CASE Summary
  BY <1>7 DEF Summary, BatchPhase, Batch!Next, Batch!Finish
<1>8. CASE UNCHANGED vars
  BY <1>8 DEF vars, BatchPhase, Batch!absVars
<1>. QED
  BY <1>1, <1>2, <1>3, <1>4, <1>5, <1>6, <1>7, <1>8 DEF Next

(* create_issues.py implements the safety part of the batch contract (the *)
(* fairness part, ImplementsIssueBatch, is checked by TLC).                *)
THEOREM ImplementsBatchSafety == Spec => Batch!SafeSpec
<1>1. []TypeOK /\ [][Next]_vars => [][Batch!Next]_Batch!absVars
  BY BatchStep, PTL
<1>. QED
  BY <1>1, BatchInit, TypeCorrect, PTL DEF Spec, Batch!SafeSpec
=============================================================================
