------------------------ MODULE CreateIssuesAuto_proofs ------------------------
(***************************************************************************)
(* Proofs about CreateIssuesAuto, for every size of draft and every        *)
(* --start/--end values: the type invariant, and the inductive invariant   *)
(* from which the exit-status, summary and dry-run properties follow.      *)
(***************************************************************************)
EXTENDS CreateIssuesAuto, ScriptLemmas

(* The draft's issue list, and so the selected part of it, are sequences   *)
(* of issue numbers.                                                       *)
LEMMA SelectedType ==
  ASSUME TypeOK
  PROVE  /\ AllIssues \in Seq(1..MaxIssues)
         /\ Selected \in Seq(1..MaxIssues)
<1>1. AllIssues \in Seq(1..MaxIssues)
  <2>1. env.count \in Nat /\ env.count <= MaxIssues
    BY MaxIssuesAssumption DEF TypeOK
  <2>. QED
    BY <2>1, MaxIssuesAssumption, IsASeq DEF AllIssues
<1>2. args.start - 1 \in Int /\ EndIdx \in Int
  BY DEF TypeOK, EndIdx
<1>. QED
  BY <1>1, <1>2, SliceType DEF Selected

(* The rate-limit tail of an iteration is a sequence of log events.       *)
LEMMA SleepAfterType ==
  SleepAfter \in Seq({"create", "sleep"})
<1>1. << >> \in Seq({"create", "sleep"}) /\ <<"sleep">> \in Seq({"create", "sleep"})
  OBVIOUS
<1>. QED
  BY <1>1 DEF SleepAfter

(* An iteration that calls gh leaves a log of log events.                  *)
LEMMA LogStepType ==
  ASSUME NEW l \in Seq({"create", "sleep"})
  PROVE  l \o <<"create">> \o SleepAfter \in Seq({"create", "sleep"})
<1>1. <<"create">> \in Seq({"create", "sleep"})
  OBVIOUS
<1>2. l \o <<"create">> \in Seq({"create", "sleep"})
  BY <1>1, ConcatProperties
<1>. QED
  BY <1>2, SleepAfterType, ConcatProperties

(* The initial states are well typed.                                    *)
LEMMA TypeInit == Init => TypeOK
<1> SUFFICES ASSUME Init PROVE TypeOK
  OBVIOUS
<1>1. args \in [dryRun : BOOLEAN, start : Int, end : Int \cup {None}]
  BY ArgsAssumption DEF Init
<1>2. env \in [installed : BOOLEAN, authed : BOOLEAN,
               readable : BOOLEAN, count : 0..MaxIssues]
  BY DEF Init
<1>3. << >> \in Seq(1..MaxIssues) /\ << >> \in Seq({"create", "sleep"})
  OBVIOUS
<1>. QED
  BY <1>1, <1>2, <1>3 DEF Init, TypeOK

(* Every step keeps the state well typed.                                 *)
LEMMA TypeStep == TypeOK /\ [Next]_vars => TypeOK'
<1> SUFFICES ASSUME TypeOK, [Next]_vars PROVE TypeOK'
  OBVIOUS
<1>1. CASE GhCheckPasses
  BY <1>1 DEF GhCheckPasses, TypeOK
<1>2. CASE GhCheckFails
  BY <1>2 DEF GhCheckFails, TypeOK
<1>3. CASE ParseDraft
  BY <1>3, SelectedType DEF ParseDraft, TypeOK
<1>4. CASE ParseFails
  BY <1>4 DEF ParseFails, TypeOK
<1>5. CASE DryRunIssue
  BY <1>5, HeadTailProperties DEF DryRunIssue, TypeOK
<1>6. CASE CreateSucceeds
  <2>1. todo # << >> /\ todo \in Seq(1..MaxIssues)
    BY <1>6 DEF CreateSucceeds, TypeOK
  <2>2. Head(todo) \in 1..MaxIssues /\ Tail(todo) \in Seq(1..MaxIssues)
    BY <2>1, HeadTailProperties
  <2>3. remote' \in Seq(1..MaxIssues)
    BY <1>6, <2>2, AppendProperties DEF CreateSucceeds, TypeOK
  <2>4. log' \in Seq({"create", "sleep"})
    BY <1>6, LogStepType DEF CreateSucceeds, TypeOK
  <2>. QED
    BY <1>6, <2>2, <2>3, <2>4 DEF CreateSucceeds, TypeOK
<1>7. CASE \E e \in GhOutcomes \ {"ok"} : CreateFails(e)
  <2>1. PICK e \in GhOutcomes \ {"ok"} : CreateFails(e)
    BY <1>7
  <2>2. todo # << >> /\ todo \in Seq(1..MaxIssues)
    BY <2>1 DEF CreateFails, TypeOK
  <2>3. Tail(todo) \in Seq(1..MaxIssues)
    BY <2>2, HeadTailProperties
  <2>4. log' \in Seq({"create", "sleep"})
    BY <2>1, LogStepType DEF CreateFails, TypeOK
  <2>. QED
    BY <2>1, <2>3, <2>4 DEF CreateFails, TypeOK
<1>8. CASE Summary
  BY <1>8 DEF Summary, TypeOK
<1>9. CASE UNCHANGED vars
  BY <1>9 DEF vars, TypeOK
<1>. QED
  BY <1>1, <1>2, <1>3, <1>4, <1>5, <1>6, <1>7, <1>8, <1>9 DEF Next

(* Every reachable state is well typed.                                   *)
THEOREM TypeCorrect == Spec => []TypeOK
BY TypeInit, TypeStep, PTL DEF Spec
-----------------------------------------------------------------------------
(***************************************************************************)
(* The inductive invariant.  ExitZeroMeansAllCreated is not inductive by   *)
(* itself: it speaks only of the final state, and what makes it true is    *)
(* what the loop keeps true at every iteration.  Before the loop nothing   *)
(* has happened; during it, the issues counted plus the issues left are   *)
(* the selected ones, and, as long as nothing has failed, what is on       *)
(* GitHub followed by what is left is exactly the selected list; the      *)
(* summary is printed only once the list is exhausted, and exit status 0   *)
(* only after a summary with no failure.                                   *)
(***************************************************************************)
InvBeforeLoop ==
  pc \in {"check", "parse"} =>
    /\ todo = << >> /\ created = 0 /\ failed = 0
    /\ remote = << >> /\ report = None /\ exitCode = None

InvLoop ==
  (pc = "loop" \/ report # None) =>
    /\ created + failed + Len(todo) = Len(Selected)
    /\ args.dryRun => failed = 0
    /\ ~args.dryRun => Len(remote) = created
    /\ (~args.dryRun /\ failed = 0) => remote \o todo = Selected

InvReport ==
  report # None =>
    /\ pc = "done" /\ todo = << >>
    /\ report = [created |-> created, failed |-> failed]

InvExit ==
  exitCode = 0 => (report # None /\ failed = 0)

IInv ==
  /\ TypeOK
  /\ InvBeforeLoop
  /\ InvLoop
  /\ InvReport
  /\ InvExit
  /\ DryRunNoSideEffects

(* The selected issues depend on the arguments and the draft alone.       *)
LEMMA SelectedUnchanged ==
  ASSUME args' = args, env' = env
  PROVE  Selected' = Selected
BY DEF Selected, AllIssues, EndIdx, Slice, ClampIndex

(* IInv holds initially.                                                  *)
LEMMA IInvInit == Init => IInv
<1> SUFFICES ASSUME Init PROVE IInv
  OBVIOUS
<1>1. TypeOK
  BY TypeInit
<1>. QED
  BY <1>1, NoneAssumption DEF Init, IInv, InvBeforeLoop, InvLoop, InvReport, InvExit,
            DryRunNoSideEffects

(* Every step keeps IInv.                                                 *)
LEMMA IInvStep == IInv /\ [Next]_vars => IInv'
<1> SUFFICES ASSUME IInv, [Next]_vars PROVE IInv'
  OBVIOUS
<1>0. /\ TypeOK' /\ Selected \in Seq(1..MaxIssues)
      /\ Len(Selected) \in Nat /\ Len(todo) \in Nat
      /\ created \in Nat /\ failed \in Nat
      /\ pc = "loop" => report = None
  <2>1. TypeOK' /\ Selected \in Seq(1..MaxIssues)
    BY TypeStep, SelectedType DEF IInv
  <2>. QED
    BY <2>1, LenProperties DEF IInv, InvReport, TypeOK
<1> USE DEF IInv
<1>1. CASE GhCheckPasses
  BY <1>0, <1>1, SelectedUnchanged, NoneAssumption
  DEF GhCheckPasses, InvBeforeLoop, InvLoop, InvReport, InvExit,
      DryRunNoSideEffects
<1>2. CASE GhCheckFails
  BY <1>0, <1>2, NoneAssumption
  DEF GhCheckFails, InvBeforeLoop, InvLoop, InvReport, InvExit,
      DryRunNoSideEffects
<1>3. CASE ParseDraft
  <2>1. Selected' = Selected
    BY <1>3, SelectedUnchanged DEF ParseDraft
  <2>2. << >> \o Selected = Selected
    BY <1>0, ConcatEmptySeq
  <2>3. InvLoop'
    BY <1>3, <2>1, <2>2, <1>0 DEF ParseDraft, InvBeforeLoop, InvLoop
  <2>. QED
    BY <1>0, <1>3, <2>3, NoneAssumption
    DEF ParseDraft, InvBeforeLoop, InvReport, InvExit, DryRunNoSideEffects
<1>4. CASE ParseFails
  BY <1>0, <1>4, NoneAssumption
  DEF ParseFails, InvBeforeLoop, InvLoop, InvReport, InvExit,
      DryRunNoSideEffects
<1>5. CASE DryRunIssue
  <2>1. Selected' = Selected
    BY <1>5, SelectedUnchanged DEF DryRunIssue
  <2>2. Len(Tail(todo)) = Len(todo) - 1
    BY <1>5, HeadTailProperties DEF DryRunIssue, TypeOK
  <2>3. InvLoop'
    BY <1>5, <2>1, <2>2 DEF DryRunIssue, InvLoop, TypeOK
  <2>. QED
    BY <1>0, <1>5, <2>3
    DEF DryRunIssue, InvBeforeLoop, InvReport, InvExit, DryRunNoSideEffects
<1>6. CASE CreateSucceeds
  <2>1. Selected' = Selected
    BY <1>6, SelectedUnchanged DEF CreateSucceeds
  <2>2. todo # << >> /\ todo \in Seq(1..MaxIssues)
        /\ remote \in Seq(1..MaxIssues)
    BY <1>6 DEF CreateSucceeds, TypeOK
  <2>3. /\ Len(Tail(todo)) = Len(todo) - 1
        /\ Len(Append(remote, Head(todo))) = Len(remote) + 1
    BY <2>2, HeadTailProperties, AppendProperties
  <2>4. Append(remote, Head(todo)) \o Tail(todo) = remote \o todo
    BY <2>2, AppendHeadTail
  <2>5. InvLoop'
    <3>1. created + failed + Len(todo) = Len(Selected)
      BY <1>6, <1>0 DEF CreateSucceeds, InvLoop
    <3>2. (created + 1) + failed + Len(Tail(todo)) = Len(Selected)
      BY <2>2, <2>3, <3>1, <1>0
    <3>3. failed = 0 => remote \o todo = Selected
      BY <1>6, <1>0 DEF CreateSucceeds, InvLoop
    <3>4. Len(remote) = created
      BY <1>6, <1>0 DEF CreateSucceeds, InvLoop
    <3>. QED
      BY <1>6, <2>1, <2>3, <2>4, <3>2, <3>3, <3>4 DEF CreateSucceeds, InvLoop
  <2>. QED
    BY <1>0, <1>6, <2>5
    DEF CreateSucceeds, InvBeforeLoop, InvReport, InvExit, DryRunNoSideEffects
<1>7. CASE \E e \in GhOutcomes \ {"ok"} : CreateFails(e)
  <2>1. PICK e \in GhOutcomes \ {"ok"} : CreateFails(e)
    BY <1>7
  <2>2. Selected' = Selected
    BY <2>1, SelectedUnchanged DEF CreateFails
  <2>3. Len(Tail(todo)) = Len(todo) - 1
    BY <2>1, HeadTailProperties DEF CreateFails, TypeOK
  <2>4. InvLoop'
    <3>1. created + failed + Len(todo) = Len(Selected)
      BY <2>1, <1>0 DEF CreateFails, InvLoop
    <3>0. todo \in Seq(1..MaxIssues) /\ todo # << >>
      BY <2>1 DEF CreateFails, TypeOK
    <3>2. created + (failed + 1) + Len(Tail(todo)) = Len(Selected)
      BY <3>0, <2>3, <3>1, <1>0
    <3>3. failed + 1 # 0
      BY <1>0
    <3>4. Len(remote) = created
      BY <2>1, <1>0 DEF CreateFails, InvLoop
    <3>. QED
      BY <2>1, <2>2, <3>2, <3>3, <3>4 DEF CreateFails, InvLoop
  <2>. QED
    BY <1>0, <2>1, <2>4
    DEF CreateFails, InvBeforeLoop, InvReport, InvExit, DryRunNoSideEffects
<1>8. CASE Summary
  <2>1. Selected' = Selected
    BY <1>8, SelectedUnchanged DEF Summary
  <2>2. InvLoop'
    BY <1>8, <2>1 DEF Summary, InvLoop
  <2>. QED
    BY <1>0, <1>8, <2>2, NoneAssumption
    DEF Summary, TypeOK, InvBeforeLoop, InvReport, InvExit, DryRunNoSideEffects
<1>9. CASE UNCHANGED vars
  <2>1. Selected' = Selected
    BY <1>9, SelectedUnchanged DEF vars
  <2>. QED
    BY <1>0, <1>9, <2>1
    DEF vars, InvBeforeLoop, InvLoop, InvReport, InvExit, DryRunNoSideEffects
<1>. QED
  BY <1>1, <1>2, <1>3, <1>4, <1>5, <1>6, <1>7, <1>8, <1>9 DEF Next

-----------------------------------------------------------------------------
(* Rate-limit spacing.  RateLimitSpacing is not inductive: a step appends  *)
(* a call, so the log must not already end in one while issues remain.     *)
(* The sleep is skipped only after enumerate index len(all_issues), and    *)
(* the index plus the number of issues left never passes len + 1, so a    *)
(* skipped sleep leaves nothing to do.                                     *)
SpaceInv ==
  /\ pc \in {"check", "parse"} => log = << >>
  /\ todo # << >> => i + Len(todo) <= env.count + 1
  /\ (log # << >> /\ log[Len(log)] = "create") => todo = << >>
  /\ RateLimitSpacing

(* The parsed list has one entry per issue of the draft.                  *)
LEMMA AllIssuesLen ==
  ASSUME TypeOK
  PROVE  Len(AllIssues) = env.count
<1>1. env.count \in Nat
  BY DEF TypeOK
<1>2. AllIssues \in Seq(1..MaxIssues)
  BY SelectedType
<1>. QED
  BY <1>1, <1>2, LenProperties DEF AllIssues

(* The enumerate counter starts at --start, and the slice it numbers ends *)
(* no later than the draft: start + len(issues_to_create) <= len + 1.     *)
LEMMA SelectedBound ==
  ASSUME TypeOK, Selected # << >>
  PROVE  args.start + Len(Selected) <= env.count + 1
<1>1. AllIssues \in Seq(1..MaxIssues) /\ Len(AllIssues) = env.count
  BY SelectedType, AllIssuesLen
<1>2. args.start \in Int /\ EndIdx \in Int /\ env.count \in Nat
  BY DEF TypeOK, EndIdx
<1>3. (args.start - 1) + Len(Selected) <= Len(AllIssues)
  BY <1>1, <1>2, SliceBound DEF Selected
<1>4. Len(Selected) \in Nat
  BY SelectedType, LenProperties
<1>. QED
  BY <1>1, <1>2, <1>3, <1>4

(* One real iteration (a gh call and its rate-limit tail) keeps SpaceInv's *)
(* loop conjuncts.                                                         *)
LEMMA CreateKeepsSpacing ==
  ASSUME TypeOK, SpaceInv, todo # << >>, ~args.dryRun
  PROVE  /\ Tail(todo) # << >> => (i + 1) + Len(Tail(todo)) <= env.count + 1
         /\ (log \o <<"create">> \o SleepAfter)[Len(log \o <<"create">> \o SleepAfter)]
              = "create" => Tail(todo) = << >>
         /\ Spaced(log \o <<"create">> \o SleepAfter)
<1>1. /\ todo \in Seq(1..MaxIssues)
      /\ Len(todo) \in Nat \ {0}
      /\ Len(Tail(todo)) = Len(todo) - 1
      /\ Tail(todo) \in Seq(1..MaxIssues)
      /\ i \in Int /\ env.count \in Nat
  BY EmptySeq, HeadTailProperties DEF TypeOK
<1>2. i + Len(todo) <= env.count + 1
  BY DEF SpaceInv
<1>3. Tail(todo) # << >> => (i + 1) + Len(Tail(todo)) <= env.count + 1
  BY <1>1, <1>2
<1>4. /\ log \in Seq({"create", "sleep"})
      /\ SleepAfter \in {<< >>, <<"sleep">>}
      /\ Spaced(log)
      /\ log = << >> \/ log[Len(log)] # "create"
  BY DEF TypeOK, SleepAfter, SpaceInv, RateLimitSpacing, Spaced
<1>5. /\ Spaced(log \o <<"create">> \o SleepAfter)
      /\ (log \o <<"create">> \o SleepAfter)[Len(log \o <<"create">> \o SleepAfter)]
           = "create" => SleepAfter = << >>
  BY <1>4, LogAppendSpaced
<1>6. SleepAfter = << >> => Tail(todo) = << >>
  <2> SUFFICES ASSUME SleepAfter = << >> PROVE Tail(todo) = << >>
    OBVIOUS
  <2>1. i >= env.count
    BY AllIssuesLen, <1>1 DEF SleepAfter
  <2>2. Len(Tail(todo)) = 0
    BY <1>1, <1>2, <2>1
  <2>. QED
    BY <1>1, <2>2, EmptySeq
<1>. QED
  BY <1>3, <1>5, <1>6

(* The initial states satisfy SpaceInv.                                   *)
LEMMA SpaceInit == Init => SpaceInv
BY DEF Init, SpaceInv, RateLimitSpacing

(* Every step keeps SpaceInv, given the inductive invariant IInv.          *)
LEMMA SpaceStep == IInv /\ SpaceInv /\ [Next]_vars => SpaceInv'
<1> SUFFICES ASSUME IInv, SpaceInv, [Next]_vars PROVE SpaceInv'
  OBVIOUS
<1>0. TypeOK /\ DryRunNoSideEffects /\ InvBeforeLoop
  BY DEF IInv
<1>1. CASE GhCheckPasses
  BY <1>0, <1>1 DEF GhCheckPasses, SpaceInv, InvBeforeLoop, RateLimitSpacing
<1>2. CASE GhCheckFails
  BY <1>0, <1>2 DEF GhCheckFails, SpaceInv, InvBeforeLoop, RateLimitSpacing
<1>3. CASE ParseDraft
  <2>1. log = << >>
    BY <1>3 DEF ParseDraft, SpaceInv
  <2>2. Selected # << >> => args.start + Len(Selected) <= env.count + 1
    BY <1>0, SelectedBound
  <2>. QED
    BY <1>3, <2>1, <2>2 DEF ParseDraft, SpaceInv, RateLimitSpacing
<1>4. CASE ParseFails
  BY <1>4 DEF ParseFails, SpaceInv, RateLimitSpacing
<1>5. CASE DryRunIssue
  <2>1. log = << >>
    BY <1>0, <1>5 DEF DryRunIssue, DryRunNoSideEffects
  <2>2. /\ Len(todo) \in Nat /\ Len(Tail(todo)) = Len(todo) - 1
        /\ i \in Int /\ env.count \in Nat
        /\ i + Len(todo) <= env.count + 1
    BY <1>0, <1>5, HeadTailProperties DEF DryRunIssue, TypeOK, SpaceInv
  <2>. QED
    BY <1>5, <2>1, <2>2 DEF DryRunIssue, SpaceInv, RateLimitSpacing
<1>6. CASE CreateSucceeds
  <2>1. /\ Tail(todo) # << >> => (i + 1) + Len(Tail(todo)) <= env.count + 1
        /\ (log \o <<"create">> \o SleepAfter)[Len(log \o <<"create">> \o SleepAfter)]
              = "create" => Tail(todo) = << >>
        /\ Spaced(log \o <<"create">> \o SleepAfter)
    BY <1>0, <1>6, CreateKeepsSpacing DEF CreateSucceeds
  <2>. QED
    BY <1>6, <2>1 DEF CreateSucceeds, SpaceInv, RateLimitSpacing, Spaced
<1>7. CASE \E e \in GhOutcomes \ {"ok"} : CreateFails(e)
  <2>1. PICK e \in GhOutcomes \ {"ok"} : CreateFails(e)
    BY <1>7
  <2>2. /\ Tail(todo) # << >> => (i + 1) + Len(Tail(todo)) <= env.count + 1
        /\ (log \o <<"create">> \o SleepAfter)[Len(log \o <<"create">> \o SleepAfter)]
              = "create" => Tail(todo) = << >>
        /\ Spaced(log \o <<"create">> \o SleepAfter)
    BY <1>0, <2>1, CreateKeepsSpacing DEF CreateFails
  <2>. QED
    BY <2>1, <2>2 DEF CreateFails, SpaceInv, RateLimitSpacing, Spaced
<1>8. CASE Summary
  BY <1>8 DEF Summary, SpaceInv, RateLimitSpacing
<1>9. CASE UNCHANGED vars
  BY <1>9 DEF vars, SpaceInv, RateLimitSpacing
<1>. QED
  BY <1>1, <1>2, <1>3, <1>4, <1>5, <1>6, <1>7, <1>8, <1>9 DEF Next

(* IInv holds in every reachable state.                                   *)
THEOREM InductiveInvariant == Spec => []IInv
BY IInvInit, IInvStep, PTL DEF Spec
-----------------------------------------------------------------------------
(* A run that exits 0 has created every selected issue, once and in order *)
(* (none in a dry run): ExitZeroMeansAllCreated, for every draft size and  *)
(* every --start/--end.                                                    *)
THEOREM ExitZeroCorrect == Spec => []ExitZeroMeansAllCreated
<1>1. IInv => ExitZeroMeansAllCreated
  <2> SUFFICES ASSUME IInv, pc = "done", exitCode = 0
               PROVE  remote = IF args.dryRun THEN << >> ELSE Selected
    BY DEF ExitZeroMeansAllCreated
  <2>1. report # None /\ failed = 0 /\ todo = << >>
    BY DEF IInv, InvExit, InvReport
  <2>2. CASE args.dryRun
    BY <2>2 DEF IInv, DryRunNoSideEffects
  <2>3. CASE ~args.dryRun
    <3>1. remote \o << >> = Selected
      BY <2>1, <2>3 DEF IInv, InvLoop
    <3>2. remote \in Seq(1..MaxIssues)
      BY DEF IInv, TypeOK
    <3>. QED
      BY <2>3, <3>1, <3>2, ConcatEmptySeq
  <2>. QED
    BY <2>2, <2>3
<1>. QED
  BY <1>1, InductiveInvariant, PTL

(* The printed summary matches what happened: SummaryAccounts.            *)
THEOREM SummaryCorrect == Spec => []SummaryAccounts
<1>1. IInv => SummaryAccounts
  <2> SUFFICES ASSUME IInv, report # None
               PROVE  /\ report.created =
                          IF args.dryRun THEN Len(Selected) ELSE Len(remote)
                      /\ report.created + report.failed = Len(Selected)
    BY DEF SummaryAccounts
  <2>1. /\ report = [created |-> created, failed |-> failed]
        /\ todo = << >>
    BY DEF IInv, InvReport
  <2>2. created + failed + Len(todo) = Len(Selected)
    BY DEF IInv, InvLoop
  <2>3. /\ args.dryRun => failed = 0
        /\ ~args.dryRun => Len(remote) = created
    BY DEF IInv, InvLoop
  <2>4. created \in Nat /\ failed \in Nat
    BY DEF IInv, TypeOK
  <2>. QED
    BY <2>1, <2>2, <2>3, <2>4
<1>. QED
  BY <1>1, InductiveInvariant, PTL

(* A dry run never calls gh issue create, never sleeps and creates nothing *)
(* on GitHub: DryRunNoSideEffects.                                         *)
THEOREM DryRunCorrect == Spec => []DryRunNoSideEffects
<1>1. IInv => DryRunNoSideEffects
  BY DEF IInv
<1>. QED
  BY <1>1, InductiveInvariant, PTL
-----------------------------------------------------------------------------
(* The initial state of main() is an initial state of IssueBatch.         *)
LEMMA BatchInit == Init => Batch!Init
BY DEF Init, Batch!Init, BatchPhase

(* Every step of main() is a step of IssueBatch or a stutter of it: the gh *)
(* check and the parse fail as Abort, the parse starts the batch, dry-run, *)
(* successful and failed iterations are Preview, Create and Fail, and the  *)
(* summary is Finish.                                                      *)
LEMMA BatchStep == TypeOK /\ [Next]_vars => [Batch!Next]_Batch!absVars
<1> SUFFICES ASSUME TypeOK, [Next]_vars PROVE [Batch!Next]_Batch!absVars
  OBVIOUS
<1>1. CASE GhCheckPasses
  BY <1>1 DEF GhCheckPasses, BatchPhase, Batch!absVars
<1>2. CASE GhCheckFails
  BY <1>2 DEF GhCheckFails, BatchPhase, Batch!Next, Batch!Abort
<1>3. CASE ParseDraft
  <2>1. Selected \in Seq(1..MaxIssues)
    BY SelectedType
  <2>. QED
    BY <1>3, <2>1 DEF ParseDraft, BatchPhase, Batch!Next, Batch!Start, Batch!Issues
<1>4. CASE ParseFails
  BY <1>4 DEF ParseFails, BatchPhase, Batch!Next, Batch!Abort
<1>5. CASE DryRunIssue
  BY <1>5 DEF DryRunIssue, BatchPhase, Batch!Next, Batch!Preview
<1>6. CASE CreateSucceeds
  BY <1>6 DEF CreateSucceeds, BatchPhase, Batch!Next, Batch!Create
<1>7. CASE \E e \in GhOutcomes \ {"ok"} : CreateFails(e)
  <2>1. PICK e \in GhOutcomes \ {"ok"} : CreateFails(e)
    BY <1>7
  <2>. QED
    BY <2>1 DEF CreateFails, BatchPhase, Batch!Next, Batch!Fail
<1>8. CASE Summary
  BY <1>8 DEF Summary, BatchPhase, Batch!Next, Batch!Finish
<1>9. CASE UNCHANGED vars
  BY <1>9 DEF vars, BatchPhase, Batch!absVars
<1>. QED
  BY <1>1, <1>2, <1>3, <1>4, <1>5, <1>6, <1>7, <1>8, <1>9 DEF Next

(* create_issues_auto.py implements the safety part of the batch contract *)
(* (the fairness part, ImplementsIssueBatch, is checked by TLC).           *)
THEOREM ImplementsBatchSafety == Spec => Batch!SafeSpec
<1>1. []TypeOK /\ [][Next]_vars => [][Batch!Next]_Batch!absVars
  BY BatchStep, PTL
<1>. QED
  BY <1>1, BatchInit, TypeCorrect, PTL DEF Spec, Batch!SafeSpec
-----------------------------------------------------------------------------
(* Two gh issue create calls are always separated by the rate-limit sleep *)
(* (RateLimitSpacing), for every draft size and every --start/--end,      *)
(* although the sleep is skipped by comparing the enumerate index with     *)
(* the whole draft rather than with the selected slice.                    *)
THEOREM RateLimitCorrect == Spec => []RateLimitSpacing
<1>1. Init => IInv /\ SpaceInv
  BY IInvInit, SpaceInit
<1>2. IInv /\ SpaceInv /\ [Next]_vars => (IInv /\ SpaceInv)'
  BY IInvStep, SpaceStep
<1>3. IInv /\ SpaceInv => RateLimitSpacing
  BY DEF SpaceInv
<1>. QED
  BY <1>1, <1>2, <1>3, PTL DEF Spec
-----------------------------------------------------------------------------
(* No step changes the parsed arguments: main() reads args once.           *)
ArgsInv == args.start \in StartArgs /\ args.end \in EndArgs \cup {None}

LEMMA ArgsInvariant == Spec => []ArgsInv
<1>1. Init => ArgsInv
  BY DEF Init, ArgsInv
<1>2. ArgsInv /\ [Next]_vars => ArgsInv'
  BY DEF ArgsInv, Next, vars, GhCheckPasses, GhCheckFails, ParseDraft,
         ParseFails, DryRunIssue, CreateSucceeds, CreateFails, Summary
<1>. QED
  BY <1>1, <1>2, PTL DEF Spec

(* For a --start of at least 1 and an --end of at least 1 (or none), the  *)
(* slice issues[start-1:end] that main() takes is the inclusive range     *)
(* start..end of the help text.                                            *)
LEMMA SelectedIsRequestedRange ==
  ASSUME TypeOK, args.start \in Nat \ {0}, args.end \in (Nat \ {0}) \cup {None}
  PROVE  Selected = InclusiveRange(AllIssues, args.start,
                        IF args.end = None THEN env.count ELSE args.end)
<1> DEFINE n == env.count
           hi == IF args.end = None THEN n ELSE args.end
           top == IF hi > n THEN n ELSE hi
<1>1. n \in Nat /\ Len(AllIssues) = n
  BY AllIssuesLen DEF TypeOK
<1>2. EndIdx = hi /\ hi \in Nat
  BY <1>1, NoneAssumption DEF EndIdx
<1>3. ClampIndex(EndIdx, n) = top
  BY <1>1, <1>2 DEF ClampIndex
<1>4. Selected = SubSeq(AllIssues, ClampIndex(args.start - 1, n) + 1, top)
  BY <1>1, <1>3 DEF Selected, Slice
<1>5. InclusiveRange(AllIssues, args.start, hi) = SubSeq(AllIssues, args.start, top)
  <2>1. (IF args.start < 1 THEN 1 ELSE args.start) = args.start
    OBVIOUS
  <2>2. (IF hi > Len(AllIssues) THEN Len(AllIssues) ELSE hi) = top
    BY <1>1
  <2>. QED
    BY <2>1, <2>2, Zenon DEF InclusiveRange
<1>6. CASE args.start - 1 <= n
  <2>1. ClampIndex(args.start - 1, n) + 1 = args.start
    BY <1>1, <1>6 DEF ClampIndex
  <2>. QED
    BY <1>4, <1>5, <2>1
<1>7. CASE args.start - 1 > n
  <2>1. ClampIndex(args.start - 1, n) + 1 = n + 1
    BY <1>1, <1>7 DEF ClampIndex
  <2>2. top < n + 1 /\ top < args.start /\ top \in Int
    BY <1>1, <1>2, <1>7
  <2>3. SubSeq(AllIssues, n + 1, top) = << >>
    BY <1>1, <2>2, SubSeqEmpty
  <2>4. SubSeq(AllIssues, args.start, top) = << >>
    BY <2>2, SubSeqEmpty
  <2>. QED
    BY <1>4, <1>5, <2>1, <2>3, <2>4, Zenon
<1>. QED
  BY <1>6, <1>7, <1>1

(* On the domain the help text documents (--start and --end positive), a  *)
(* run that returns 0 has created exactly issues start..end:              *)
(* CreatesRequestedRange, for every draft size. The auto_range run shows  *)
(* the property failing outside that domain (--start 0 or negative).      *)
THEOREM RequestedRangeCorrect ==
  (StartArgs \subseteq Nat \ {0} /\ EndArgs \subseteq Nat \ {0}) =>
    (Spec => []CreatesRequestedRange)
<1> SUFFICES ASSUME StartArgs \subseteq Nat \ {0}, EndArgs \subseteq Nat \ {0}
             PROVE  Spec => []CreatesRequestedRange
  OBVIOUS
<1>1. TypeOK /\ ArgsInv /\ ExitZeroMeansAllCreated => CreatesRequestedRange
  <2> SUFFICES ASSUME TypeOK, ArgsInv, ExitZeroMeansAllCreated,
                      pc = "done", exitCode = 0, ~args.dryRun
               PROVE  CreatesRequestedRange
    BY DEF CreatesRequestedRange
  <2>1. remote = Selected
    BY DEF ExitZeroMeansAllCreated
  <2>2. args.start \in Nat \ {0} /\ args.end \in (Nat \ {0}) \cup {None}
    BY DEF ArgsInv
  <2>. QED
    BY <2>1, <2>2, SelectedIsRequestedRange DEF CreatesRequestedRange
<1>. QED
  BY <1>1, TypeCorrect, ArgsInvariant, ExitZeroCorrect, PTL

=============================================================================
