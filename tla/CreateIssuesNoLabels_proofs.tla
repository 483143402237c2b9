---------------------- MODULE CreateIssuesNoLabels_proofs ----------------------
(***************************************************************************)
(* Proofs about CreateIssuesNoLabels (create_issues_no_labels.py), for     *)
(* every size of draft: the type invariant, and the inductive invariant    *)
(* from which the exit-status and summary properties follow.  A crash (an  *)
(* uncaught OSError) ends the run with status 1 and no summary, so it      *)
(* falls outside both properties; what has to be shown is that nothing     *)
(* else reaches status 0 or a summary with the wrong counts.               *)
(***************************************************************************)
EXTENDS CreateIssuesNoLabels, ScriptLemmas

(* The parsed list is a sequence of env.count issue numbers.              *)
LEMMA AllIssuesType ==
  ASSUME TypeOK
  PROVE  /\ AllIssues \in Seq(1..MaxIssues)
         /\ Len(AllIssues) = env.count
<1>1. env.count \in Nat /\ env.count <= MaxIssues
  BY MaxIssuesAssumption DEF TypeOK
<1>2. AllIssues \in Seq(1..MaxIssues)
  BY <1>1, MaxIssuesAssumption, IsASeq DEF AllIssues
<1>. QED
  BY <1>1, <1>2, LenProperties DEF AllIssues

(* One iteration: the loop's list loses its head, which is an issue.       *)
LEMMA TodoStep ==
  ASSUME TypeOK, todo # << >>
  PROVE  /\ Head(todo) \in 1..MaxIssues
         /\ Tail(todo) \in Seq(1..MaxIssues)
         /\ Len(Tail(todo)) = Len(todo) - 1
BY HeadTailProperties DEF TypeOK

(* The initial states are well typed.                                    *)
LEMMA TypeInit == Init => TypeOK
BY DEF Init, TypeOK

(* Every step keeps the state well typed.                                 *)
LEMMA TypeStep == TypeOK /\ [Next]_vars => TypeOK'
<1> SUFFICES ASSUME TypeOK, [Next]_vars PROVE TypeOK'
  OBVIOUS
<1>1. CASE ParseDraft
  BY <1>1, AllIssuesType DEF ParseDraft, TypeOK
<1>2. CASE ParseFails
  BY <1>2 DEF ParseFails, TypeOK
<1>3. CASE CreateSucceeds
  <2>1. remote' \in Seq(1..MaxIssues)
    BY <1>3, TodoStep, AppendProperties DEF CreateSucceeds, TypeOK
  <2>. QED
    BY <1>3, <2>1, TodoStep DEF CreateSucceeds, TypeOK
<1>4. CASE CreateFails
  BY <1>4, TodoStep DEF CreateFails, TypeOK
<1>5. CASE CreateCrashes
  BY <1>5 DEF CreateCrashes, TypeOK
<1>6. CASE Summary
  BY <1>6 DEF Summary, TypeOK
<1>7. CASE UNCHANGED vars
  BY <1>7 DEF vars, TypeOK
<1>. QED
  BY <1>1, <1>2, <1>3, <1>4, <1>5, <1>6, <1>7 DEF Next

(* Every reachable state is well typed.                                   *)
THEOREM TypeCorrect == Spec => []TypeOK
BY TypeInit, TypeStep, PTL DEF Spec
-----------------------------------------------------------------------------
(***************************************************************************)
(* The inductive invariant.  Before the loop nothing has happened; during  *)
(* it the issues counted plus the issues left are all the draft's issues, *)
(* the issues on GitHub are the ones counted as created and, while none   *)
(* has failed, the issues on GitHub followed by the issues left are the   *)
(* whole draft.  A summary is printed only once the list is exhausted,    *)
(* and status 0 only after a summary with no failure; the crash leaves     *)
(* status 1 and no summary.                                                *)
(***************************************************************************)
InvBeforeLoop ==
  pc = "parse" =>
    /\ todo = << >> /\ created = 0 /\ failed = 0
    /\ remote = << >> /\ report = None /\ exitCode = None

InvLoop ==
  (pc = "loop" \/ report # None) =>
    /\ created + failed + Len(todo) = Len(AllIssues)
    /\ Len(remote) = created
    /\ failed = 0 => remote \o todo = AllIssues

InvReport ==
  report # None =>
    /\ pc = "done" /\ todo = << >>
    /\ report = [created |-> created, failed |-> failed]

InvExit ==
  exitCode = 0 => (report # None /\ failed = 0)

IInv ==
  /\ TypeOK
  /\ InvBeforeLoop
  /\ InvLoop
  /\ InvReport
  /\ InvExit

(* IInv holds initially.                                                  *)
LEMMA IInvInit == Init => IInv
<1> SUFFICES ASSUME Init PROVE IInv
  OBVIOUS
<1>1. TypeOK
  BY TypeInit
<1>. QED
  BY <1>1, NoneAssumption DEF Init, IInv, InvBeforeLoop, InvLoop, InvReport, InvExit

(* Every step keeps IInv.                                                 *)
LEMMA IInvStep == IInv /\ [Next]_vars => IInv'
<1> SUFFICES ASSUME IInv, [Next]_vars PROVE IInv'
  OBVIOUS
<1>0. /\ TypeOK /\ TypeOK'
      /\ AllIssues \in Seq(1..MaxIssues) /\ Len(AllIssues) \in Nat
      /\ created \in Nat /\ failed \in Nat
      /\ pc = "loop" => report = None
  <2>1. TypeOK /\ TypeOK'
    BY TypeStep DEF IInv
  <2>. QED
    BY <2>1, AllIssuesType, LenProperties DEF IInv, InvReport, TypeOK
<1> USE DEF IInv
<1>1. CASE ParseDraft
  <2>1. AllIssues' = AllIssues
    BY <1>1 DEF ParseDraft, AllIssues
  <2>2. << >> \o AllIssues = AllIssues
    BY <1>0, ConcatEmptySeq
  <2>3. InvLoop'
    BY <1>0, <1>1, <2>1, <2>2 DEF ParseDraft, InvBeforeLoop, InvLoop
  <2>. QED
    BY <1>0, <1>1, <2>3, NoneAssumption DEF ParseDraft, InvBeforeLoop, InvReport, InvExit
<1>2. CASE ParseFails
  BY <1>0, <1>2, NoneAssumption
  DEF ParseFails, InvBeforeLoop, InvLoop, InvReport, InvExit
<1>3. CASE CreateSucceeds
  <2>1. AllIssues' = AllIssues
    BY <1>3 DEF CreateSucceeds, AllIssues
  <2>2. todo # << >> /\ todo \in Seq(1..MaxIssues) /\ remote \in Seq(1..MaxIssues)
    BY <1>0, <1>3 DEF CreateSucceeds, TypeOK
  <2>3. /\ Len(Tail(todo)) = Len(todo) - 1
        /\ Len(Append(remote, Head(todo))) = Len(remote) + 1
    BY <1>0, <2>2, TodoStep, AppendProperties
  <2>4. Append(remote, Head(todo)) \o Tail(todo) = remote \o todo
    BY <2>2, AppendHeadTail
  <2>5. InvLoop'
    <3>1. /\ created + failed + Len(todo) = Len(AllIssues)
          /\ Len(remote) = created
          /\ failed = 0 => remote \o todo = AllIssues
      BY <1>0, <1>3 DEF CreateSucceeds, InvLoop
    <3>2. (created + 1) + failed + Len(Tail(todo)) = Len(AllIssues)
      BY <1>0, <2>2, <3>1, CountStep
    <3>. QED
      BY <1>3, <2>1, <2>3, <2>4, <3>1, <3>2 DEF CreateSucceeds, InvLoop
  <2>. QED
    BY <1>0, <1>3, <2>5 DEF CreateSucceeds, InvBeforeLoop, InvReport, InvExit
<1>4. CASE CreateFails
  <2>1. AllIssues' = AllIssues
    BY <1>4 DEF CreateFails, AllIssues
  <2>2. todo # << >> /\ todo \in Seq(1..MaxIssues)
    BY <1>0, <1>4 DEF CreateFails, TypeOK
  <2>3. Len(Tail(todo)) = Len(todo) - 1 /\ Len(todo) \in Nat
    BY <1>0, <2>2, TodoStep, LenProperties
  <2>4. InvLoop'
    <3>1. /\ created + failed + Len(todo) = Len(AllIssues)
          /\ Len(remote) = created
      BY <1>0, <1>4 DEF CreateFails, InvLoop
    <3>2. created + (failed + 1) + Len(Tail(todo)) = Len(AllIssues)
      BY <1>0, <2>2, <3>1, CountStep
    <3>3. failed + 1 # 0
      BY <1>0
    <3>. QED
      BY <1>4, <2>1, <3>1, <3>2, <3>3 DEF CreateFails, InvLoop
  <2>. QED
    BY <1>0, <1>4, <2>4 DEF CreateFails, InvBeforeLoop, InvReport, InvExit
<1>5. CASE CreateCrashes
  BY <1>0, <1>5 DEF CreateCrashes, InvBeforeLoop, InvLoop, InvReport, InvExit
<1>6. CASE Summary
  <2>1. AllIssues' = AllIssues
    BY <1>6 DEF Summary, AllIssues
  <2>2. InvLoop'
    BY <1>6, <2>1 DEF Summary, InvLoop
  <2>. QED
    BY <1>0, <1>6, <2>2, NoneAssumption
    DEF Summary, TypeOK, InvBeforeLoop, InvReport, InvExit
<1>7. CASE UNCHANGED vars
  <2>1. AllIssues' = AllIssues
    BY <1>7 DEF vars, AllIssues
  <2>. QED
    BY <1>0, <1>7, <2>1 DEF vars, InvBeforeLoop, InvLoop, InvReport, InvExit
<1>. QED
  BY <1>1, <1>2, <1>3, <1>4, <1>5, <1>6, <1>7 DEF Next

(* IInv holds in every reachable state.                                   *)
THEOREM InductiveInvariant == Spec => []IInv
BY IInvInit, IInvStep, PTL DEF Spec
-----------------------------------------------------------------------------
(* Status 0 means every issue of the draft is on GitHub, once and in      *)
(* order: ExitZeroMeansAllCreated, for every draft size.  A failed call    *)
(* is counted, and the uncaught OSError exits with status 1.               *)
THEOREM ExitZeroCorrect == Spec => []ExitZeroMeansAllCreated
<1>1. IInv => ExitZeroMeansAllCreated
  <2> SUFFICES ASSUME IInv, pc = "done", exitCode = 0
               PROVE  remote = AllIssues
    BY DEF ExitZeroMeansAllCreated
  <2>1. report # None /\ failed = 0 /\ todo = << >>
    BY DEF IInv, InvExit, InvReport
  <2>2. remote \o << >> = AllIssues
    BY <2>1 DEF IInv, InvLoop
  <2>3. remote \in Seq(1..MaxIssues)
    BY DEF IInv, TypeOK
  <2>. QED
    BY <2>2, <2>3, ConcatEmptySeq
<1>. QED
  BY <1>1, InductiveInvariant, PTL

(* A printed summary is true: SummaryAccounts.                            *)
THEOREM SummaryCorrect == Spec => []SummaryAccounts
<1>1. IInv => SummaryAccounts
  <2> SUFFICES ASSUME IInv, report # None
               PROVE  /\ report.created = Len(remote)
                      /\ report.created + report.failed = Len(AllIssues)
    BY DEF SummaryAccounts
  <2>1. /\ report = [created |-> created, failed |-> failed]
        /\ todo = << >>
    BY DEF IInv, InvReport
  <2>2. /\ created + failed + Len(todo) = Len(AllIssues)
        /\ Len(remote) = created
    BY DEF IInv, InvLoop
  <2>3. created \in Nat /\ failed \in Nat
    BY DEF IInv, TypeOK
  <2>. QED
    BY <2>1, <2>2, <2>3
<1>. QED
  BY <1>1, InductiveInvariant, PTL
=============================================================================
