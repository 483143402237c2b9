----------------------- MODULE CreateIssuesRetry_proofs -----------------------
(***************************************************************************)
(* Proofs about CreateIssuesRetry for every size of draft, every first     *)
(* --end and any number of reruns.  For every --start, negative ones       *)
(* included, no run creates an issue outside the first run's range         *)
(* (OnlyInv).  For a first --start >= 0, where the index main() prints for *)
(* an issue reruns that issue, rerunning every reported failure completes  *)
(* the batch (CompInv) and, when a failed gh call creates nothing, never   *)
(* creates an issue twice (DupInv).  A negative --start is clamped by the  *)
(* slice but not by enumerate, so its printed indices name other issues:   *)
(* both of the last two properties then fail, and TLC shows how.           *)
(***************************************************************************)
EXTENDS CreateIssuesRetry, CreateIssuesAuto_proofs

(* The entries of a sequence, and that it holds none of them twice.       *)
Elems(s) == {s[k] : k \in 1..Len(s)}
Inj(s) == \A a, b \in 1..Len(s) : a # b => s[a] # s[b]

(* The issues on GitHub, as a set.                                         *)
RemoteSet == Elems(remote)

(* What is left after the head of a sequence without repetitions holds    *)
(* none twice, not the head, and nothing that was not there.              *)
LEMMA TailInj ==
  ASSUME NEW S, NEW s \in Seq(S), s # << >>, Inj(s)
  PROVE  /\ Inj(Tail(s))
         /\ \A a \in 1..Len(Tail(s)) : Tail(s)[a] # Head(s) /\ Tail(s)[a] \in Elems(s)
<1>1. /\ Len(Tail(s)) = Len(s) - 1
      /\ \A a \in 1..Len(Tail(s)) : Tail(s)[a] = s[a + 1]
      /\ Len(s) \in Nat \ {0}
      /\ Head(s) = s[1]
  BY HeadTailProperties, LenProperties, EmptySeq
<1>2. Inj(Tail(s))
  BY <1>1 DEF Inj
<1>3. \A a \in 1..Len(Tail(s)) : Tail(s)[a] # Head(s)
  BY <1>1 DEF Inj
<1>4. \A a \in 1..Len(Tail(s)) : Tail(s)[a] \in Elems(s)
  BY <1>1 DEF Elems
<1>. QED
  BY <1>2, <1>3, <1>4

(* Appending an element not yet there keeps a sequence without repetitions.*)
LEMMA AppendInj ==
  ASSUME NEW S, NEW s \in Seq(S), NEW x \in S, Inj(s), x \notin Elems(s)
  PROVE  /\ Inj(Append(s, x))
         /\ Elems(Append(s, x)) = Elems(s) \cup {x}
<1>1. /\ Len(Append(s, x)) = Len(s) + 1
      /\ \A a \in 1..Len(s) : Append(s, x)[a] = s[a]
      /\ Append(s, x)[Len(s) + 1] = x
      /\ Len(s) \in Nat
  BY AppendProperties, LenProperties
<1>2. Inj(Append(s, x))
  BY <1>1 DEF Inj, Elems
<1>3. Elems(Append(s, x)) = Elems(s) \cup {x}
  BY <1>1 DEF Elems
<1>. QED
  BY <1>2, <1>3

(* The slice's bounds after normalisation, and its length.               *)
LEMMA SelectedBounds ==
  ASSUME TypeOK
  PROVE  LET c1 == ClampIndex(args.start - 1, env.count)
             c2 == ClampIndex(EndIdx, env.count)
         IN  /\ c1 \in 0..env.count /\ c2 \in 0..env.count
             /\ Selected = SubSeq(AllIssues, c1 + 1, c2)
             /\ Len(Selected) = IF c1 + 1 <= c2 THEN c2 - c1 ELSE 0
<1> DEFINE n == env.count
           c1 == ClampIndex(args.start - 1, n)
           c2 == ClampIndex(EndIdx, n)
<1>1. n \in Nat /\ args.start - 1 \in Int /\ EndIdx \in Int
  BY DEF TypeOK, EndIdx
<1>2. c1 \in 0..n
  BY <1>1, ClampIndexRange
<1>3. c2 \in 0..n
  BY <1>1, ClampIndexRange
<1>4. Len(AllIssues) = n /\ AllIssues \in Seq(1..MaxIssues)
  BY AllIssuesLen, SelectedType
<1>5. Selected = SubSeq(AllIssues, c1 + 1, c2)
  BY <1>4 DEF Selected, Slice
<1>6. \A k \in (c1 + 1)..c2 : AllIssues[k] \in Int
  BY <1>1, <1>2, <1>3 DEF AllIssues
<1>7. Len(Selected) = IF c1 + 1 <= c2 THEN c2 - c1 ELSE 0
  BY <1>1, <1>2, <1>3, <1>5, <1>6, SubSeqProperties
<1>. QED
  BY <1>2, <1>3, <1>5, <1>7 DEF n, c1, c2

(* Entry t of the slice is issue c1 + t, c1 the normalised start_idx.     *)
LEMMA SelectedAt ==
  ASSUME TypeOK
  PROVE  \A t \in 1..Len(Selected) :
            Selected[t] = ClampIndex(args.start - 1, env.count) + t
<1> DEFINE n == env.count
           c1 == ClampIndex(args.start - 1, n)
           c2 == ClampIndex(EndIdx, n)
<1>1. n \in Nat
  BY DEF TypeOK
<1>2. /\ c1 \in 0..n /\ c2 \in 0..n
      /\ Selected = SubSeq(AllIssues, c1 + 1, c2)
      /\ Len(Selected) = IF c1 + 1 <= c2 THEN c2 - c1 ELSE 0
  BY SelectedBounds DEF n, c1, c2
<1> SUFFICES ASSUME NEW t \in 1..Len(Selected) PROVE Selected[t] = c1 + t
  BY DEF c1, n
<1>3. t \in Nat /\ 1 <= t /\ t <= c2 - c1 /\ c1 + 1 <= c2
  BY <1>1, <1>2
<1>4. c1 + t \in 1..n
  BY <1>1, <1>2, <1>3
<1>5. \A k \in (c1 + 1)..c2 : AllIssues[k] \in Int
  BY <1>1, <1>2 DEF AllIssues
<1>6. SubSeq(AllIssues, c1 + 1, c2)[t] = AllIssues[(c1 + 1) + t - 1]
  BY <1>1, <1>2, <1>3, <1>5, SubSeqProperties
<1>. QED
  BY <1>1, <1>2, <1>3, <1>4, <1>6 DEF AllIssues

(* Slices of the draft list hold each issue at most once.                 *)
LEMMA SelectedInjective ==
  ASSUME TypeOK
  PROVE  \A a, b \in 1..Len(Selected) : a # b => Selected[a] # Selected[b]
<1> SUFFICES ASSUME NEW a \in 1..Len(Selected), NEW b \in 1..Len(Selected), a # b
             PROVE  Selected[a] # Selected[b]
  OBVIOUS
<1>1. ClampIndex(args.start - 1, env.count) \in 0..env.count
  BY SelectedBounds
<1>2. Selected[a] = ClampIndex(args.start - 1, env.count) + a
      /\ Selected[b] = ClampIndex(args.start - 1, env.count) + b
  BY SelectedAt
<1>3. a \in Int /\ b \in Int /\ env.count \in Nat
  BY SelectedType, LenProperties DEF TypeOK
<1>. QED
  BY <1>1, <1>2, <1>3

(***************************************************************************)
(* What the operator reruns is the index i of an "Issue i/N" line, and     *)
(* what --start k --end k then selects is RerunIssue(k): issue k for a k   *)
(* of 1..N, and for k = 0 (start_idx = -1, end 0 falsy) the last issue.    *)
(* The two agree with the issue that failed because, for a first --start   *)
(* of 0 or more, the loop's list is the run of issues RerunIssue(i),       *)
(* RerunIssue(i + 1), ... (LoopIdx).  For a negative first --start that    *)
(* the slice clamps to 0 they do not agree, and neither theorem below      *)
(* holds; both take StartArgs \subseteq Nat as their hypothesis.           *)
(***************************************************************************)
RerunIssue(k) == IF k = 0 THEN env.count ELSE k

(* For a --start of 0 or more, entry t of the slice is the issue that the *)
(* index enumerate prints for it, start_idx + t, reruns: --start 0 can    *)
(* select only the last issue, and prints it as 0.                        *)
LEMMA StartSelected ==
  ASSUME TypeOK, args.start \in Nat
  PROVE  \A t \in 1..Len(Selected) : Selected[t] = RerunIssue(args.start + t - 1)
<1> DEFINE n == env.count
           k == args.start
           c1 == ClampIndex(k - 1, n)
           c2 == ClampIndex(EndIdx, n)
<1> SUFFICES ASSUME NEW t \in 1..Len(Selected) PROVE Selected[t] = RerunIssue(k + t - 1)
  OBVIOUS
<1>1. n \in Nat
  BY DEF TypeOK
<1>2. /\ c1 \in 0..n /\ c2 \in 0..n
      /\ Len(Selected) = IF c1 + 1 <= c2 THEN c2 - c1 ELSE 0
  BY SelectedBounds DEF n, c1, c2, k
<1>3. Selected[t] = c1 + t
  BY SelectedAt DEF n, c1, k
<1>4. t \in Nat /\ 1 <= t /\ t <= c2 - c1 /\ c1 < n
  BY <1>1, <1>2
<1>5. CASE k = 0
  <2>1. c1 = n - 1 /\ t = 1
    BY <1>1, <1>2, <1>4, <1>5 DEF ClampIndex
  <2>2. k + t - 1 = 0 /\ c1 + t = n
    BY <1>1, <1>5, <2>1
  <2>. QED
    BY <1>3, <2>2 DEF RerunIssue
<1>6. CASE k # 0
  <2>1. c1 = k - 1
    BY <1>1, <1>4, <1>6 DEF ClampIndex
  <2>. QED
    BY <1>3, <1>4, <1>6, <2>1 DEF RerunIssue
<1>. QED
  BY <1>5, <1>6

(* A rerun's --start k --end k, k >= 0, selects at most one issue, and    *)
(* exactly one when k names a row of the draft.                            *)
LEMMA RerunSelected ==
  ASSUME TypeOK, args.start \in Nat, args.end = args.start
  PROVE  /\ Len(Selected) <= 1
         /\ (args.start \in 0..env.count /\ RerunIssue(args.start) \in 1..env.count)
              => Len(Selected) = 1
<1> DEFINE n == env.count
           k == args.start
           c1 == ClampIndex(k - 1, n)
           c2 == ClampIndex(EndIdx, n)
<1>1. n \in Nat
  BY DEF TypeOK
<1>2. EndIdx = IF k = 0 THEN n ELSE k
  BY NoneAssumption DEF EndIdx
<1>3. Len(Selected) = IF c1 + 1 <= c2 THEN c2 - c1 ELSE 0
  BY SelectedBounds DEF n, c1, c2, k
<1>4. CASE k = 0
  <2>1. c2 = n /\ c1 = IF n = 0 THEN 0 ELSE n - 1
    BY <1>1, <1>2, <1>4 DEF ClampIndex
  <2>. QED
    BY <1>1, <1>3, <1>4, <2>1 DEF RerunIssue
<1>5. CASE k # 0
  <2>1. c1 = IF k - 1 > n THEN n ELSE k - 1
    BY <1>1, <1>5 DEF ClampIndex
  <2>2. c2 = IF k > n THEN n ELSE k
    BY <1>1, <1>2, <1>5 DEF ClampIndex
  <2>. QED
    BY <1>1, <1>3, <1>5, <2>1, <2>2 DEF RerunIssue
<1>. QED
  BY <1>4, <1>5

(* The issues that the reported failures rerun.                           *)
RetryIssues == {RerunIssue(k) : k \in toRetry}

(* The loop's list is the run of issues the printed indices i, i + 1, ... *)
(* name.                                                                   *)
LoopIdx ==
  pc = "loop" =>
    /\ i \in Nat
    /\ \A j \in 1..Len(todo) : todo[j] = RerunIssue(i + j - 1)

(* A loop iteration drops the head of todo, whose printed index is i, and *)
(* moves on to i + 1: the rest of the list still runs from RerunIssue(i+1).*)
LEMMA LoopIdxTail ==
  ASSUME TypeOK, LoopIdx, pc = "loop", todo # << >>
  PROVE  /\ Head(todo) = RerunIssue(i)
         /\ i \in Nat /\ i + 1 \in Nat
         /\ \A j \in 1..Len(Tail(todo)) : Tail(todo)[j] = RerunIssue((i + 1) + j - 1)
<1>1. /\ Len(Tail(todo)) = Len(todo) - 1
      /\ \A j \in 1..Len(Tail(todo)) : Tail(todo)[j] = todo[j + 1]
      /\ Len(todo) \in Nat \ {0}
      /\ Head(todo) = todo[1]
  BY HeadTailProperties, LenProperties, EmptySeq DEF TypeOK
<1>2. i \in Nat /\ \A j \in 1..Len(todo) : todo[j] = RerunIssue(i + j - 1)
  BY DEF LoopIdx
<1>. QED
  BY <1>1, <1>2

-----------------------------------------------------------------------------
(* The initial states of the reruns are well typed.                       *)
LEMMA RTypeInit == RInit => RTypeOK
BY TypeInit, RetryAssumption DEF RInit, RTypeOK

(* A failing call that still creates its issue keeps the state typed.     *)
LEMMA PostsThenFailsType ==
  ASSUME TypeOK, toRetry \subseteq Int, CreatePostsThenFails
  PROVE  TypeOK' /\ toRetry' \subseteq Int
<1>1. todo # << >> /\ todo \in Seq(1..MaxIssues)
  BY DEF CreatePostsThenFails, TypeOK
<1>2. Head(todo) \in 1..MaxIssues /\ Tail(todo) \in Seq(1..MaxIssues)
  BY <1>1, HeadTailProperties
<1>3. remote' \in Seq(1..MaxIssues)
  BY <1>2, AppendProperties DEF CreatePostsThenFails, TypeOK
<1>4. log' \in Seq({"create", "sleep"})
  BY LogStepType DEF CreatePostsThenFails, TypeOK
<1>5. TypeOK'
  BY <1>2, <1>3, <1>4 DEF CreatePostsThenFails, TypeOK
<1>6. toRetry' \subseteq Int
  BY DEF CreatePostsThenFails, TypeOK
<1>. QED
  BY <1>5, <1>6

(* A rerun starts a well-typed process.                                   *)
LEMMA RerunType ==
  ASSUME RTypeOK, Rerun
  PROVE  RTypeOK'
<1>1. PICK k \in toRetry : /\ args' = [dryRun |-> FALSE, start |-> k, end |-> k]
                            /\ toRetry' = toRetry \ {k}
  BY DEF Rerun
<1>2. k \in Int
  BY <1>1 DEF RTypeOK
<1>3. << >> \in Seq(1..MaxIssues) /\ << >> \in Seq({"create", "sleep"})
  OBVIOUS
<1>4. TypeOK'
  BY <1>1, <1>2, <1>3 DEF Rerun, RTypeOK, TypeOK
<1>5. reruns' \in 0..MaxReruns
  BY RetryAssumption DEF Rerun, RTypeOK
<1>. QED
  BY <1>1, <1>4, <1>5 DEF Rerun, RTypeOK

(* Every step of the reruns keeps the state well typed.                   *)
LEMMA RTypeStep == RTypeOK /\ [RNext]_rvars => RTypeOK'
<1> SUFFICES ASSUME RTypeOK, [RNext]_rvars PROVE RTypeOK'
  OBVIOUS
<1>1. CASE (\/ GhCheckPasses \/ GhCheckFails \/ ParseFails \/ DryRunIssue
           \/ CreateSucceeds \/ Summary) /\ UNCHANGED <<toRetry, wanted, reruns>>
  <2>1. [Next]_vars
    BY <1>1 DEF Next
  <2>. QED
    BY <1>1, <2>1, TypeStep DEF RTypeOK
<1>2. CASE RParseDraft
  <2>1. TypeOK'
    BY <1>2, TypeStep DEF RParseDraft, Next, RTypeOK
  <2>2. \A k \in 1..Len(Selected) : Selected[k] \in 1..MaxIssues
    BY SelectedType, LenProperties DEF RTypeOK
  <2>3. wanted' \subseteq 1..MaxIssues
    BY <1>2, <2>2 DEF RParseDraft, RTypeOK
  <2>. QED
    BY <1>2, <2>1, <2>3 DEF RParseDraft, RTypeOK
<1>3. CASE \E e \in GhOutcomes \ {"ok"} : RCreateFails(e)
  <2>1. PICK e \in GhOutcomes \ {"ok"} : RCreateFails(e)
    BY <1>3
  <2>2. TypeOK'
    BY <2>1, TypeStep DEF RCreateFails, Next, RTypeOK
  <2>3. i \in Int
    BY DEF RTypeOK, TypeOK
  <2>. QED
    BY <2>1, <2>2, <2>3 DEF RCreateFails, RTypeOK
<1>4. CASE CreatePostsThenFails
  BY <1>4, PostsThenFailsType DEF CreatePostsThenFails, RTypeOK
<1>5. CASE Rerun
  BY <1>5, RerunType
<1>6. CASE UNCHANGED rvars
  BY <1>6 DEF rvars, vars, RTypeOK, TypeOK
<1>. QED
  BY <1>1, <1>2, <1>3, <1>4, <1>5, <1>6 DEF RNext, RunNext

-----------------------------------------------------------------------------
(* The inductive invariant behind NoDuplicateIssues: GitHub holds each     *)
(* issue at most once, the run in progress will only touch issues that are *)
(* neither on GitHub nor reported failed, the reported failures are not on *)
(* GitHub and name distinct issues, and a rerun is started for one issue   *)
(* that is on neither list.                                                *)
DupInv ==
  /\ RTypeOK
  /\ args.start \in Nat
  /\ toRetry \subseteq Nat
  /\ LoopIdx
  /\ Inj(remote)
  /\ Inj(todo)
  /\ \A x, y \in toRetry : RerunIssue(x) = RerunIssue(y) => x = y
  /\ Elems(todo) \cap (RemoteSet \cup RetryIssues) = {}
  /\ RetryIssues \cap RemoteSet = {}
  /\ pc \in {"check", "parse"} =>
        /\ todo = << >>
        /\ reruns = 0 => remote = << >> /\ toRetry = {}
        /\ reruns # 0 => /\ args.end = args.start
                         /\ RerunIssue(args.start) \notin RemoteSet \cup RetryIssues

(* The reruns start with nothing on GitHub and nothing to retry.          *)
LEMMA DupInit ==
  ASSUME StartArgs \subseteq Nat
  PROVE  RInit => DupInv
<1> SUFFICES ASSUME RInit PROVE DupInv
  OBVIOUS
<1>1. RTypeOK
  BY RTypeInit
<1>2. remote = << >> /\ todo = << >> /\ toRetry = {} /\ reruns = 0 /\ pc = "check"
  BY DEF RInit, Init
<1>3. args.start \in Nat
  BY DEF RInit, Init
<1>4. Elems(<< >>) = {} /\ Inj(<< >>) /\ RetryIssues = {}
  BY <1>2 DEF Elems, Inj, RetryIssues
<1>. QED
  BY <1>1, <1>2, <1>3, <1>4 DEF DupInv, RemoteSet, LoopIdx

(* No step changes the environment, so neither what a rerun selects nor   *)
(* the issues the reported failures name change with it.                  *)
LEMMA EnvUnchanged ==
  ASSUME [RNext]_rvars
  PROVE  /\ env' = env
         /\ \A k : RerunIssue(k)' = RerunIssue(k)
         /\ RetryIssues' = {RerunIssue(k) : k \in toRetry'}
<1>1. env' = env
  BY DEF RNext, RunNext, rvars, vars, GhCheckPasses, GhCheckFails, ParseFails,
         DryRunIssue, CreateSucceeds, Summary, RParseDraft, ParseDraft,
         RCreateFails, CreateFails, CreatePostsThenFails, Rerun
<1>. QED
  BY <1>1 DEF RerunIssue, RetryIssues

(* An iteration that takes the head of todo leaves a tail that keeps the  *)
(* invariant's todo conjuncts with respect to the sets it was disjoint of. *)
LEMMA TodoTail ==
  ASSUME RTypeOK, Inj(todo), todo # << >>, NEW X, Elems(todo) \cap X = {}
  PROVE  /\ Inj(Tail(todo))
         /\ Elems(Tail(todo)) \cap (X \cup {Head(todo)}) = {}
         /\ Head(todo) \in Elems(todo)
<1>1. todo \in Seq(1..MaxIssues)
  BY DEF RTypeOK, TypeOK
<1>2. /\ Inj(Tail(todo))
      /\ \A a \in 1..Len(Tail(todo)) : Tail(todo)[a] # Head(todo) /\ Tail(todo)[a] \in Elems(todo)
  BY <1>1, TailInj
<1>3. Head(todo) \in Elems(todo)
  BY <1>1, LenProperties, EmptySeq DEF Elems
<1>. QED
  BY <1>2, <1>3 DEF Elems

(* Every step keeps DupInv when a failed call creates nothing.            *)
LEMMA DupStep ==
  ASSUME ~GhPostsThenFails, DupInv, [RNext]_rvars
  PROVE  DupInv'
<1>0. /\ RTypeOK' /\ TypeOK
      /\ env' = env
      /\ \A k : RerunIssue(k)' = RerunIssue(k)
      /\ RetryIssues' = {RerunIssue(k) : k \in toRetry'}
  BY RTypeStep, EnvUnchanged DEF DupInv, RTypeOK
<1>1. CASE GhCheckPasses /\ UNCHANGED <<toRetry, wanted, reruns>>
  BY <1>0, <1>1 DEF GhCheckPasses, DupInv, RemoteSet, RetryIssues, LoopIdx
<1>2. CASE (GhCheckFails \/ ParseFails \/ Summary) /\ UNCHANGED <<toRetry, wanted, reruns>>
  BY <1>0, <1>2 DEF GhCheckFails, ParseFails, Summary, DupInv, RemoteSet, RetryIssues, LoopIdx
<1>3. CASE DryRunIssue /\ UNCHANGED <<toRetry, wanted, reruns>>
  <2>1. todo # << >> /\ pc = "loop" /\ Inj(todo)
        /\ Elems(todo) \cap (RemoteSet \cup RetryIssues) = {}
    BY <1>3 DEF DryRunIssue, DupInv
  <2>2. Inj(Tail(todo)) /\ Elems(Tail(todo)) \cap (RemoteSet \cup RetryIssues) = {}
    BY <2>1, TodoTail DEF DupInv
  <2>3. LoopIdx'
    BY <1>0, <1>3, <2>1, LoopIdxTail DEF DryRunIssue, DupInv, LoopIdx
  <2>. QED
    BY <1>0, <1>3, <2>2, <2>3 DEF DryRunIssue, DupInv, RemoteSet, RetryIssues
<1>4. CASE CreateSucceeds /\ UNCHANGED <<toRetry, wanted, reruns>>
  <2> DEFINE h == Head(todo)
  <2>1. todo # << >> /\ pc = "loop" /\ Inj(todo)
        /\ Elems(todo) \cap (RemoteSet \cup RetryIssues) = {}
    BY <1>4 DEF CreateSucceeds, DupInv
  <2>2. /\ Inj(Tail(todo))
        /\ Elems(Tail(todo)) \cap (RemoteSet \cup RetryIssues \cup {h}) = {}
        /\ h \in Elems(todo)
    BY <2>1, TodoTail DEF DupInv
  <2>3. h \notin RemoteSet /\ h \notin RetryIssues
    BY <2>1, <2>2
  <2>4. h \in 1..MaxIssues /\ remote \in Seq(1..MaxIssues) /\ Inj(remote)
    BY <2>1, HeadTailProperties DEF DupInv, RTypeOK, TypeOK
  <2>5. Inj(remote') /\ RemoteSet' = RemoteSet \cup {h}
    BY <1>4, <2>3, <2>4, AppendInj DEF CreateSucceeds, RemoteSet
  <2>6. RetryIssues' = RetryIssues
    BY <1>0, <1>4 DEF RetryIssues
  <2>7. LoopIdx'
    BY <1>0, <1>4, <2>1, LoopIdxTail DEF CreateSucceeds, DupInv, LoopIdx
  <2>. QED
    BY <1>0, <1>4, <2>2, <2>3, <2>5, <2>6, <2>7 DEF CreateSucceeds, DupInv
<1>5. CASE RParseDraft
  <2>1. /\ pc = "parse" /\ todo' = Selected /\ pc' = "loop" /\ i' = args.start
        /\ UNCHANGED <<args, remote, toRetry, reruns>>
    BY <1>5 DEF RParseDraft, ParseDraft
  <2>2. args.start \in Nat
    BY DEF DupInv
  <2>3. \A t \in 1..Len(Selected) : Selected[t] = RerunIssue(args.start + t - 1)
    BY <1>0, <2>2, StartSelected
  <2>4. LoopIdx'
    BY <1>0, <2>1, <2>2, <2>3 DEF LoopIdx
  <2>5. Inj(Selected)
    BY <1>0, SelectedInjective DEF Inj
  <2>6. Elems(Selected) \cap (RemoteSet \cup RetryIssues) = {}
    <3>1. CASE reruns = 0
      <4>1. remote = << >> /\ toRetry = {}
        BY <2>1, <3>1 DEF DupInv
      <4>. QED
        BY <4>1 DEF Elems, RemoteSet, RetryIssues
    <3>2. CASE reruns # 0
      <4>1. args.end = args.start
            /\ RerunIssue(args.start) \notin RemoteSet \cup RetryIssues
        BY <2>1, <3>2 DEF DupInv
      <4>2. Len(Selected) <= 1 /\ Len(Selected) \in Nat
        BY <1>0, <2>2, <4>1, RerunSelected, SelectedType, LenProperties
      <4>3. Elems(Selected) \subseteq {RerunIssue(args.start)}
        BY <2>2, <2>3, <4>2 DEF Elems
      <4>. QED
        BY <4>1, <4>3
    <3>. QED
      BY <3>1, <3>2
  <2>. QED
    BY <1>0, <2>1, <2>4, <2>5, <2>6 DEF DupInv, RemoteSet, RetryIssues
<1>6. CASE \E e \in GhOutcomes \ {"ok"} : RCreateFails(e)
  <2>1. PICK e \in GhOutcomes \ {"ok"} : RCreateFails(e)
    BY <1>6
  <2> DEFINE h == Head(todo)
  <2>2. /\ todo # << >> /\ pc = "loop" /\ Inj(todo)
        /\ Elems(todo) \cap (RemoteSet \cup RetryIssues) = {}
    BY <2>1 DEF RCreateFails, CreateFails, DupInv
  <2>3. /\ Inj(Tail(todo))
        /\ Elems(Tail(todo)) \cap (RemoteSet \cup RetryIssues \cup {h}) = {}
        /\ h \in Elems(todo)
    BY <2>2, TodoTail DEF DupInv
  <2>4. /\ todo' = Tail(todo) /\ toRetry' = toRetry \cup {i} /\ i' = i + 1
        /\ UNCHANGED <<args, remote, pc, reruns>>
    BY <2>1 DEF RCreateFails, CreateFails
  <2>5. h = RerunIssue(i) /\ i \in Nat
    <3>1. TypeOK /\ LoopIdx
      BY DEF DupInv, RTypeOK
    <3>. QED
      BY <3>1, <2>2, LoopIdxTail
  <2>6. RetryIssues' = RetryIssues \cup {h}
    BY <1>0, <2>4, <2>5 DEF RetryIssues
  <2>7. h \notin RetryIssues /\ h \notin RemoteSet
    BY <2>2, <2>3
  <2>8. \A x, y \in toRetry' : RerunIssue(x)' = RerunIssue(y)' => x = y
    BY <1>0, <2>4, <2>5, <2>7 DEF DupInv, RetryIssues
  <2>9. LoopIdx'
    BY <1>0, <2>2, <2>4, LoopIdxTail DEF DupInv, LoopIdx
  <2>10. RemoteSet' = RemoteSet
    BY <2>4 DEF RemoteSet
  <2>11. Elems(todo') \cap (RemoteSet' \cup RetryIssues') = {}
    BY <2>3, <2>4, <2>6, <2>10
  <2>12. RetryIssues' \cap RemoteSet' = {}
    BY <2>6, <2>7, <2>10 DEF DupInv
  <2>13. toRetry' \subseteq Nat /\ args'.start \in Nat /\ Inj(remote')
    BY <2>4, <2>5 DEF DupInv
  <2>. QED
    BY <1>0, <2>2, <2>3, <2>4, <2>8, <2>9, <2>11, <2>12, <2>13 DEF DupInv
<1>7. CASE CreatePostsThenFails
  BY <1>7 DEF CreatePostsThenFails
<1>8. CASE Rerun
  <2>1. PICK k \in toRetry : /\ args' = [dryRun |-> FALSE, start |-> k, end |-> k]
                            /\ toRetry' = toRetry \ {k}
    BY <1>8 DEF Rerun
  <2>2. /\ todo' = << >> /\ pc' = "check" /\ reruns' = reruns + 1
        /\ UNCHANGED remote
    BY <1>8 DEF Rerun
  <2>3. k \in Nat /\ RerunIssue(k) \in RetryIssues
    BY DEF DupInv, RetryIssues
  <2>4. RetryIssues' \subseteq RetryIssues /\ RerunIssue(k) \notin RetryIssues'
    BY <1>0, <2>1 DEF DupInv, RetryIssues
  <2>5. reruns' # 0
    BY <2>2 DEF DupInv, RTypeOK
  <2>6. Elems(<< >>) = {} /\ Inj(<< >>)
    BY DEF Elems, Inj
  <2>. QED
    BY <1>0, <2>1, <2>2, <2>3, <2>4, <2>5, <2>6 DEF DupInv, RemoteSet, LoopIdx
<1>9. CASE UNCHANGED rvars
  BY <1>0, <1>9 DEF rvars, vars, DupInv, RemoteSet, RetryIssues, LoopIdx
<1>. QED
  BY <1>1, <1>2, <1>3, <1>4, <1>5, <1>6, <1>7, <1>8, <1>9 DEF RNext, RunNext

(* Rerunning the failures create_issues_auto.py reports never creates an  *)
(* issue twice, for every draft, every first range with --start >= 0 and  *)
(* every number of reruns, as long as a gh call that fails has created    *)
(* nothing (no lost response).                                            *)
THEOREM NoDuplicatesCorrect ==
  (~GhPostsThenFails /\ StartArgs \subseteq Nat) => (RSpec => []NoDuplicateIssues)
<1> SUFFICES ASSUME ~GhPostsThenFails, StartArgs \subseteq Nat
             PROVE  RSpec => []NoDuplicateIssues
  OBVIOUS
<1>1. DupInv /\ [RNext]_rvars => DupInv'
  BY DupStep
<1>2. DupInv => NoDuplicateIssues
  BY DEF DupInv, Inj, NoDuplicateIssues
<1>3. RInit => DupInv
  BY DupInit
<1>. QED
  BY <1>1, <1>2, <1>3, PTL DEF RSpec
-----------------------------------------------------------------------------
(***************************************************************************)
(* Retrying completes the batch.  RetryCompletes speaks only of a final    *)
(* state; what keeps it true is where every issue the first run wanted     *)
(* is at each moment: on GitHub, reported as failed (toRetry), still in    *)
(* the loop's list, or the issue of the rerun that has not yet parsed the  *)
(* draft (InFlight).  For a rerun to carry its issue into its loop, the    *)
(* rerun must pass the gh check and the parse, which it does because the  *)
(* environment is the one in which the first real run got that far, and   *)
(* --start k --end k must select k, which it does because k is a row of   *)
(* the draft.  This holds whether or not a failed call creates its issue.  *)
(***************************************************************************)
InFlight ==
  IF reruns > 0 /\ pc \in {"check", "parse"} THEN {RerunIssue(args.start)} ELSE {}

CompInv ==
  /\ RTypeOK
  /\ args.start \in Nat
  /\ LoopIdx
  /\ pc \in {"check", "parse", "done"} => todo = << >>
  /\ args.dryRun => wanted = {}
  /\ (reruns = 0 /\ pc \in {"check", "parse"}) => wanted = {}
  /\ (reruns > 0 \/ toRetry # {}) =>
        env.installed /\ env.authed /\ env.readable /\ ~args.dryRun
  /\ (reruns > 0 /\ pc \in {"check", "parse"}) =>
        /\ args.start \in 0..env.count /\ RerunIssue(args.start) \in 1..env.count
        /\ args.end = args.start
  /\ (pc \in {"parse", "loop"} /\ ~args.dryRun) => env.installed /\ env.authed
  /\ pc = "loop" => env.readable
  /\ \A k \in toRetry : k \in 0..env.count /\ RerunIssue(k) \in 1..env.count
  /\ Elems(todo) \subseteq 1..env.count
  /\ wanted \subseteq RemoteSet \cup RetryIssues \cup Elems(todo) \cup InFlight

(* Appending x to s adds x to its entries; dropping the head of a         *)
(* non-empty s removes at most the head.                                   *)
LEMMA ElemsAppendTail ==
  ASSUME NEW S, NEW s \in Seq(S), NEW x
  PROVE  /\ Elems(Append(s, x)) = Elems(s) \cup {x}
         /\ s # << >> => Elems(s) = {Head(s)} \cup Elems(Tail(s))
<1>1. Elems(Append(s, x)) = Elems(s) \cup {x}
  <2>1. /\ Len(Append(s, x)) = Len(s) + 1
        /\ \A a \in 1..Len(s) : Append(s, x)[a] = s[a]
        /\ Append(s, x)[Len(s) + 1] = x
        /\ Len(s) \in Nat
    BY AppendProperties, LenProperties
  <2>. QED
    BY <2>1 DEF Elems
<1>2. ASSUME s # << >> PROVE Elems(s) = {Head(s)} \cup Elems(Tail(s))
  <2>1. /\ Len(Tail(s)) = Len(s) - 1
        /\ \A a \in 1..Len(Tail(s)) : Tail(s)[a] = s[a + 1]
        /\ Len(s) \in Nat \ {0}
        /\ Head(s) = s[1]
    BY <1>2, HeadTailProperties, LenProperties, EmptySeq
  <2>2. Elems(s) \subseteq {Head(s)} \cup Elems(Tail(s))
    <3> SUFFICES ASSUME NEW a \in 1..Len(s) PROVE s[a] \in {Head(s)} \cup Elems(Tail(s))
      BY DEF Elems
    <3>1. CASE a = 1
      BY <2>1, <3>1
    <3>2. CASE a # 1
      <4>1. a - 1 \in 1..Len(Tail(s)) /\ Tail(s)[a - 1] = s[a]
        BY <2>1, <3>2
      <4>. QED
        BY <4>1 DEF Elems
    <3>. QED
      BY <3>1, <3>2
  <2>3. {Head(s)} \cup Elems(Tail(s)) \subseteq Elems(s)
    <3>1. Head(s) \in Elems(s)
      BY <2>1 DEF Elems
    <3>2. \A a \in 1..Len(Tail(s)) : Tail(s)[a] \in Elems(s)
      <4> SUFFICES ASSUME NEW a \in 1..Len(Tail(s)) PROVE Tail(s)[a] \in Elems(s)
        OBVIOUS
      <4>1. a + 1 \in 1..Len(s) /\ Tail(s)[a] = s[a + 1]
        BY <2>1
      <4>. QED
        BY <4>1 DEF Elems
    <3>. QED
      BY <3>1, <3>2 DEF Elems
  <2>. QED
    BY <2>2, <2>3
<1>. QED
  BY <1>1, <1>2

(* Every entry of the slice is a row of the draft.                         *)
LEMMA SelectedInRange ==
  ASSUME TypeOK
  PROVE  Elems(Selected) \subseteq 1..env.count
<1> DEFINE n == env.count
           c1 == ClampIndex(args.start - 1, n)
           c2 == ClampIndex(EndIdx, n)
<1> SUFFICES ASSUME NEW t \in 1..Len(Selected) PROVE Selected[t] \in 1..n
  BY DEF Elems
<1>1. n \in Nat
  BY DEF TypeOK
<1>2. /\ c1 \in 0..n /\ c2 \in 0..n
      /\ Len(Selected) = IF c1 + 1 <= c2 THEN c2 - c1 ELSE 0
  BY SelectedBounds DEF n, c1, c2
<1>3. Selected[t] = c1 + t
  BY SelectedAt DEF n, c1
<1>4. t \in Nat /\ 1 <= t /\ t <= c2 - c1
  BY <1>1, <1>2
<1>. QED
  BY <1>1, <1>2, <1>3, <1>4

(* The reruns start with nothing wanted and nothing in flight.             *)
LEMMA CompInit ==
  ASSUME StartArgs \subseteq Nat
  PROVE  RInit => CompInv
<1> SUFFICES ASSUME RInit PROVE CompInv
  OBVIOUS
<1>1. RTypeOK
  BY RTypeInit
<1>2. Elems(<< >>) = {}
  BY DEF Elems
<1>3. args.start \in Nat /\ pc = "check" /\ toRetry = {}
  BY DEF RInit, Init
<1>. QED
  BY <1>1, <1>2, <1>3 DEF RInit, Init, CompInv, InFlight, LoopIdx

(* The iteration whose issue fails prints the index i of a row: the rerun *)
(* of i selects the issue that failed.                                     *)
LEMMA FailedIndex ==
  ASSUME CompInv, pc = "loop", todo # << >>
  PROVE  /\ i \in 0..env.count
         /\ RerunIssue(i) = Head(todo)
         /\ Head(todo) \in 1..env.count
<1>0. TypeOK /\ LoopIdx /\ Elems(todo) \subseteq 1..env.count
      /\ todo \in Seq(1..MaxIssues)
  BY DEF CompInv, RTypeOK, TypeOK
<1>1. Head(todo) = RerunIssue(i) /\ i \in Nat
  BY <1>0, LoopIdxTail
<1>2. Head(todo) \in 1..env.count
  <2>1. Elems(todo) = {Head(todo)} \cup Elems(Tail(todo))
    BY <1>0, ElemsAppendTail
  <2>. QED
    BY <1>0, <2>1
<1>3. env.count \in Nat
  BY DEF CompInv, RTypeOK, TypeOK
<1>. QED
  BY <1>1, <1>2, <1>3 DEF RerunIssue

(* Every step keeps CompInv, whether or not a failed call creates its      *)
(* issue.                                                                  *)
LEMMA CompStep == CompInv /\ [RNext]_rvars => CompInv'
<1> SUFFICES ASSUME CompInv, [RNext]_rvars PROVE CompInv'
  OBVIOUS
<1>0. /\ RTypeOK /\ RTypeOK' /\ TypeOK
      /\ todo \in Seq(1..MaxIssues) /\ remote \in Seq(1..MaxIssues)
      /\ env' = env
      /\ \A k : RerunIssue(k)' = RerunIssue(k)
      /\ RetryIssues' = {RerunIssue(k) : k \in toRetry'}
  BY RTypeStep, EnvUnchanged DEF CompInv, RTypeOK, TypeOK
<1>1. CASE GhCheckPasses /\ UNCHANGED <<toRetry, wanted, reruns>>
  BY <1>0, <1>1 DEF GhCheckPasses, GhReady, CompInv, InFlight, RemoteSet, RetryIssues, LoopIdx
<1>2. CASE (GhCheckFails \/ ParseFails) /\ UNCHANGED <<toRetry, wanted, reruns>>
  <2>1. ~(reruns > 0)
    BY <1>2 DEF GhCheckFails, ParseFails, GhReady, CompInv
  <2>2. /\ pc \in {"check", "parse"} /\ pc' = "done"
        /\ UNCHANGED <<args, env, todo, remote>>
    BY <1>2 DEF GhCheckFails, ParseFails
  <2>3. InFlight = {} /\ InFlight' = {} /\ todo = << >>
    BY <2>1, <2>2 DEF InFlight, CompInv
  <2>. QED
    BY <1>0, <1>2, <2>2, <2>3 DEF CompInv, RemoteSet, RetryIssues, LoopIdx
<1>3. CASE Summary /\ UNCHANGED <<toRetry, wanted, reruns>>
  BY <1>0, <1>3 DEF Summary, CompInv, InFlight, RemoteSet, RetryIssues, LoopIdx
<1>4. CASE DryRunIssue /\ UNCHANGED <<toRetry, wanted, reruns>>
  <2>1. Elems(Tail(todo)) \subseteq Elems(todo)
    BY <1>0, <1>4, ElemsAppendTail DEF DryRunIssue
  <2>2. wanted = {}
    BY <1>4 DEF DryRunIssue, CompInv
  <2>3. LoopIdx'
    BY <1>0, <1>4, LoopIdxTail DEF DryRunIssue, CompInv, LoopIdx
  <2>. QED
    BY <1>0, <1>4, <2>1, <2>2, <2>3 DEF DryRunIssue, CompInv, InFlight, RemoteSet, RetryIssues
<1>5. CASE CreateSucceeds /\ UNCHANGED <<toRetry, wanted, reruns>>
  <2>1. todo # << >> /\ pc = "loop" /\ pc' = "loop"
        /\ remote' = Append(remote, Head(todo)) /\ todo' = Tail(todo)
        /\ UNCHANGED <<args, env>>
    BY <1>5 DEF CreateSucceeds
  <2>2. /\ Elems(remote') = Elems(remote) \cup {Head(todo)}
        /\ Elems(todo) = {Head(todo)} \cup Elems(Tail(todo))
    BY <1>0, <2>1, ElemsAppendTail
  <2>3. LoopIdx'
    BY <1>0, <1>5, <2>1, LoopIdxTail DEF CreateSucceeds, CompInv, LoopIdx
  <2>4. RetryIssues' = RetryIssues
    BY <1>0, <1>5 DEF RetryIssues
  <2>. QED
    BY <1>0, <1>5, <2>1, <2>2, <2>3, <2>4 DEF CompInv, InFlight, RemoteSet
<1>6. CASE RParseDraft
  <2>1. /\ pc = "parse" /\ pc' = "loop" /\ env.readable
        /\ todo' = Selected /\ i' = args.start
        /\ UNCHANGED <<args, env, remote, toRetry, reruns>>
    BY <1>6 DEF RParseDraft, ParseDraft
  <2>2. Elems(Selected) \subseteq 1..env.count /\ args.start \in Nat
    BY <1>0, SelectedInRange DEF CompInv
  <2>3. \A t \in 1..Len(Selected) : Selected[t] = RerunIssue(args.start + t - 1)
    BY <1>0, <2>2, StartSelected
  <2>4. LoopIdx'
    BY <1>0, <2>1, <2>2, <2>3 DEF LoopIdx
  <2>5. wanted' \subseteq Elems(todo') \cup wanted
    BY <1>6, <2>1 DEF RParseDraft, Elems
  <2>6. wanted \subseteq RemoteSet \cup RetryIssues \cup Elems(todo')
    <3>1. CASE reruns = 0
      BY <3>1, <2>1 DEF CompInv
    <3>2. CASE reruns # 0
      <4>1. reruns > 0
        BY <3>2, <1>0 DEF RTypeOK
      <4>2. /\ args.start \in 0..env.count /\ RerunIssue(args.start) \in 1..env.count
            /\ args.end = args.start
        BY <2>1, <4>1 DEF CompInv
      <4>3. Len(Selected) = 1
        BY <1>0, <2>2, <4>2, RerunSelected
      <4>4. RerunIssue(args.start) \in Elems(Selected)
        BY <2>2, <2>3, <4>3 DEF Elems
      <4>5. todo = << >> /\ Elems(<< >>) = {}
        BY <2>1 DEF CompInv, Elems
      <4>. QED
        BY <2>1, <4>1, <4>4, <4>5 DEF CompInv, InFlight
    <3>. QED
      BY <3>1, <3>2
  <2>7. args.dryRun => wanted' = {}
    BY <1>6, <2>1 DEF RParseDraft, CompInv
  <2>8. RetryIssues' = RetryIssues
    BY <1>0, <2>1 DEF RetryIssues
  <2>. QED
    BY <1>0, <2>1, <2>2, <2>4, <2>5, <2>6, <2>7, <2>8 DEF CompInv, InFlight, RemoteSet
<1>7. CASE \E e \in GhOutcomes \ {"ok"} : RCreateFails(e)
  <2>1. PICK e \in GhOutcomes \ {"ok"} : RCreateFails(e)
    BY <1>7
  <2>2. /\ todo # << >> /\ pc = "loop" /\ pc' = "loop" /\ ~args.dryRun
        /\ todo' = Tail(todo) /\ toRetry' = toRetry \cup {i} /\ i' = i + 1
        /\ UNCHANGED <<args, env, remote, wanted, reruns>>
    BY <2>1 DEF RCreateFails, CreateFails
  <2>3. Elems(todo) = {Head(todo)} \cup Elems(Tail(todo))
    BY <1>0, <2>2, ElemsAppendTail
  <2>4. /\ i \in 0..env.count /\ RerunIssue(i) = Head(todo)
        /\ Head(todo) \in 1..env.count
    BY <2>2, FailedIndex
  <2>5. RetryIssues' = RetryIssues \cup {Head(todo)}
    BY <1>0, <2>2, <2>4 DEF RetryIssues
  <2>6. LoopIdx'
    BY <1>0, <2>2, LoopIdxTail DEF CompInv, LoopIdx
  <2>. QED
    BY <1>0, <2>2, <2>3, <2>4, <2>5, <2>6 DEF CompInv, InFlight, RemoteSet
<1>8. CASE CreatePostsThenFails
  <2>1. /\ todo # << >> /\ pc = "loop" /\ pc' = "loop" /\ ~args.dryRun
        /\ todo' = Tail(todo) /\ toRetry' = toRetry \cup {i} /\ i' = i + 1
        /\ remote' = Append(remote, Head(todo))
        /\ UNCHANGED <<args, env, wanted, reruns>>
    BY <1>8 DEF CreatePostsThenFails
  <2>2. /\ Elems(remote') = Elems(remote) \cup {Head(todo)}
        /\ Elems(todo) = {Head(todo)} \cup Elems(Tail(todo))
    BY <1>0, <2>1, ElemsAppendTail
  <2>3. /\ i \in 0..env.count /\ RerunIssue(i) = Head(todo)
        /\ Head(todo) \in 1..env.count
    BY <2>1, FailedIndex
  <2>4. RetryIssues' = RetryIssues \cup {Head(todo)}
    BY <1>0, <2>1, <2>3 DEF RetryIssues
  <2>5. LoopIdx'
    BY <1>0, <2>1, LoopIdxTail DEF CompInv, LoopIdx
  <2>. QED
    BY <1>0, <2>1, <2>2, <2>3, <2>4, <2>5 DEF CompInv, InFlight, RemoteSet
<1>9. CASE Rerun
  <2>1. PICK k \in toRetry : /\ args' = [dryRun |-> FALSE, start |-> k, end |-> k]
                            /\ toRetry' = toRetry \ {k}
    BY <1>9 DEF Rerun
  <2>2. /\ pc = "done" /\ pc' = "check" /\ todo' = << >> /\ reruns' = reruns + 1
        /\ UNCHANGED <<env, remote, wanted>>
    BY <1>9 DEF Rerun
  <2>3. /\ reruns' > 0 /\ todo = << >> /\ Elems(<< >>) = {}
        /\ k \in 0..env.count /\ RerunIssue(k) \in 1..env.count
    BY <2>1, <2>2, <1>0 DEF CompInv, RTypeOK, Elems
  <2>4. InFlight' = {RerunIssue(k)} /\ InFlight = {}
    BY <1>0, <2>1, <2>2, <2>3 DEF InFlight
  <2>5. RetryIssues \subseteq RetryIssues' \cup {RerunIssue(k)}
    BY <1>0, <2>1 DEF RetryIssues
  <2>6. env.installed /\ env.authed /\ env.readable
    BY <2>1 DEF CompInv
  <2>. QED
    BY <1>0, <2>1, <2>2, <2>3, <2>4, <2>5, <2>6 DEF CompInv, RemoteSet, LoopIdx
<1>10. CASE UNCHANGED rvars
  BY <1>0, <1>10 DEF rvars, vars, CompInv, InFlight, RemoteSet, RetryIssues, LoopIdx
<1>. QED
  BY <1>1, <1>2, <1>3, <1>4, <1>5, <1>6, <1>7, <1>8, <1>9, <1>10 DEF RNext, RunNext

-----------------------------------------------------------------------------
(***************************************************************************)
(* No run creates an issue the operator did not ask for, whatever the      *)
(* first --start, negative ones included.  For a clamped negative start    *)
(* the index printed for an issue does not rerun that issue, but what it   *)
(* reruns, RerunSel(k), lies inside the first run's slice: the reruns may  *)
(* create the wrong issue, never one outside the slice.  OnlyInv says that *)
(* everything a run can still create (the loop's list of a real run, what *)
(* the printed indices of that list, of the reported failures and of the   *)
(* rerun in flight select) was selected by the first real run.             *)
(***************************************************************************)
RerunEnd(k) == IF k = 0 THEN env.count ELSE k

(* What --start k --end k selects, as a set of issues.                    *)
RerunSel(k) == Elems(Slice(AllIssues, k - 1, RerunEnd(k)))

OnlyInv ==
  /\ RTypeOK
  /\ pc \in {"check", "parse"} => todo = << >>
  /\ (reruns = 0 /\ pc \in {"check", "parse"}) => toRetry = {}
  /\ reruns > 0 => ~args.dryRun
  /\ (pc = "loop" /\ ~args.dryRun) =>
        /\ Elems(todo) \subseteq wanted
        /\ \A j \in 1..Len(todo) : RerunSel(i + j - 1) \subseteq wanted
  /\ \A k \in toRetry : RerunSel(k) \subseteq wanted
  /\ (reruns > 0 /\ pc \in {"check", "parse"}) =>
        args.end = args.start /\ RerunSel(args.start) \subseteq wanted

(* The entries of s[c1+1..c2], for s = <<1, ..., n>>, are c1+1, ..., c2.  *)
LEMMA IdSubSeqElems ==
  ASSUME NEW s \in Seq(Int), \A k \in 1..Len(s) : s[k] = k,
         NEW c1 \in 0..Len(s), NEW c2 \in 0..Len(s), NEW u,
         u = SubSeq(s, c1 + 1, c2)
  PROVE  Elems(u) = {m \in Nat : c1 < m /\ m <= c2}
<1>1. Len(s) \in Nat
  BY LenProperties
<1>2. /\ Len(u) = IF c1 + 1 <= c2 THEN c2 - (c1 + 1) + 1 ELSE 0
      /\ \A t \in 1..(c2 - (c1 + 1) + 1) : u[t] = s[(c1 + 1) + t - 1]
  <2>1. \A k \in (c1 + 1)..c2 : s[k] \in Int
    BY <1>1, LenProperties
  <2>. QED
    BY <2>1, SubSeqProperties
<1>3. 1..Len(u) = 1..(c2 - c1)
  BY <1>1, <1>2
<1>4. \A t \in 1..(c2 - c1) : u[t] = c1 + t
  <2> SUFFICES ASSUME NEW t \in 1..(c2 - c1) PROVE u[t] = c1 + t
    OBVIOUS
  <2>1. t \in 1..(c2 - (c1 + 1) + 1) /\ (c1 + 1) + t - 1 = c1 + t
    BY <1>1
  <2>2. c1 + t \in 1..Len(s)
    BY <1>1
  <2>. QED
    BY <1>2, <2>1, <2>2
<1>5. Elems(u) = {u[t] : t \in 1..(c2 - c1)}
  BY <1>3 DEF Elems
<1>6. {u[t] : t \in 1..(c2 - c1)} = {m \in Nat : c1 < m /\ m <= c2}
  <2>1. ASSUME NEW t \in 1..(c2 - c1) PROVE u[t] \in {m \in Nat : c1 < m /\ m <= c2}
    BY <1>1, <1>4
  <2>2. ASSUME NEW m \in Nat, c1 < m, m <= c2 PROVE \E t \in 1..(c2 - c1) : u[t] = m
    <3>1. m - c1 \in 1..(c2 - c1) /\ c1 + (m - c1) = m
      BY <2>2
    <3>. QED
      BY <3>1, <1>4
  <2>. QED
    BY <2>1, <2>2
<1>. QED
  BY <1>5, <1>6

(* The entries of a slice of <<1, ..., n>> are the positions the slice's  *)
(* normalised bounds enclose.                                              *)
LEMMA SliceElems ==
  ASSUME NEW s \in Seq(Int), \A k \in 1..Len(s) : s[k] = k,
         NEW a \in Int, NEW b \in Int
  PROVE  Elems(Slice(s, a, b))
           = {m \in Nat : ClampIndex(a, Len(s)) < m /\ m <= ClampIndex(b, Len(s))}
<1>1. Len(s) \in Nat
  BY LenProperties
<1>2. ClampIndex(a, Len(s)) \in 0..Len(s) /\ ClampIndex(b, Len(s)) \in 0..Len(s)
  BY <1>1, ClampIndexRange
<1>3. Slice(s, a, b) = SubSeq(s, ClampIndex(a, Len(s)) + 1, ClampIndex(b, Len(s)))
  BY DEF Slice
<1>4. \A c1, c2 \in 0..Len(s) :
        Elems(SubSeq(s, c1 + 1, c2)) = {m \in Nat : c1 < m /\ m <= c2}
  <2> SUFFICES ASSUME NEW c1 \in 0..Len(s), NEW c2 \in 0..Len(s)
               PROVE  Elems(SubSeq(s, c1 + 1, c2)) = {m \in Nat : c1 < m /\ m <= c2}
    OBVIOUS
  <2>1. \A u : u = SubSeq(s, c1 + 1, c2) => Elems(u) = {m \in Nat : c1 < m /\ m <= c2}
    BY IdSubSeqElems
  <2>. QED
    BY <2>1
<1>. QED
  BY <1>2, <1>3, <1>4

(* The draft list is <<1, ..., env.count>>.                                *)
LEMMA AllIssuesIds ==
  ASSUME TypeOK
  PROVE  /\ AllIssues \in Seq(Int)
         /\ Len(AllIssues) = env.count
         /\ \A k \in 1..Len(AllIssues) : AllIssues[k] = k
<1>1. AllIssues \in Seq(1..MaxIssues) /\ Len(AllIssues) = env.count
  BY SelectedType, AllIssuesLen
<1>2. AllIssues \in Seq(Int)
  BY <1>1, MaxIssuesAssumption
<1>. QED
  BY <1>1, <1>2 DEF AllIssues

(* What --start k --end k selects: the positions its normalised bounds    *)
(* enclose.                                                                *)
LEMMA RerunSelRange ==
  ASSUME TypeOK, NEW k \in Int
  PROVE  RerunSel(k) = {m \in Nat : /\ ClampIndex(k - 1, env.count) < m
                                    /\ m <= ClampIndex(RerunEnd(k), env.count)}
<1>1. env.count \in Nat /\ k - 1 \in Int /\ RerunEnd(k) \in Int
  BY DEF TypeOK, RerunEnd
<1>2. /\ AllIssues \in Seq(Int) /\ Len(AllIssues) = env.count
      /\ \A j \in 1..Len(AllIssues) : AllIssues[j] = j
  BY AllIssuesIds
<1>. QED
  BY <1>1, <1>2, SliceElems DEF RerunSel

(* The same for the slice of the run in progress.                         *)
LEMMA SelectedRange ==
  ASSUME TypeOK
  PROVE  Elems(Selected) = {m \in Nat : /\ ClampIndex(args.start - 1, env.count) < m
                                        /\ m <= ClampIndex(EndIdx, env.count)}
<1>1. env.count \in Nat /\ args.start - 1 \in Int /\ EndIdx \in Int
  BY DEF TypeOK, EndIdx
<1>2. /\ AllIssues \in Seq(Int) /\ Len(AllIssues) = env.count
      /\ \A j \in 1..Len(AllIssues) : AllIssues[j] = j
  BY AllIssuesIds
<1>. QED
  BY <1>1, <1>2, SliceElems DEF Selected

(* Whatever --start is, the rerun of the index printed for entry t of the *)
(* slice selects issues of the slice only: the issue itself, or, when a   *)
(* negative start is clamped to 0, an earlier issue of the slice or none. *)
LEMMA FirstSel ==
  ASSUME TypeOK
  PROVE  \A t \in 1..Len(Selected) : RerunSel(args.start + t - 1) \subseteq Elems(Selected)
<1> DEFINE n == env.count
           s == args.start
           c1 == ClampIndex(s - 1, n)
           c2 == ClampIndex(EndIdx, n)
<1> SUFFICES ASSUME NEW t \in 1..Len(Selected), NEW m \in RerunSel(s + t - 1)
             PROVE  m \in Elems(Selected)
  BY DEF s
<1>1. n \in Nat /\ s \in Int
  BY DEF TypeOK
<1>2. /\ c1 \in 0..n /\ c2 \in 0..n
      /\ Len(Selected) = IF c1 + 1 <= c2 THEN c2 - c1 ELSE 0
  BY SelectedBounds DEF n, c1, c2, s
<1>3. t \in Nat /\ 1 <= t /\ t <= c2 - c1
  BY <1>1, <1>2
<1> DEFINE k == s + t - 1
           lo == ClampIndex(k - 1, n)
           hi == ClampIndex(RerunEnd(k), n)
<1>4. m \in Nat /\ lo < m /\ m <= hi
  <2>1. k \in Int
    BY <1>1, <1>3
  <2>2. RerunSel(k) = {x \in Nat : ClampIndex(k - 1, n) < x /\ x <= ClampIndex(RerunEnd(k), n)}
    BY <2>1, RerunSelRange
  <2>. QED
    BY <2>2
<1>5. c1 < m /\ m <= c2
  <2>0. k \in Int /\ m \in Nat /\ lo < m /\ m <= hi
    BY <1>1, <1>3, <1>4
  <2>1. CASE s >= 1
    <3>1. c1 = s - 1 /\ c1 + t <= n
      BY <1>1, <1>2, <1>3, <2>1 DEF ClampIndex
    <3>2. lo = c1 + t - 1
      BY <1>1, <1>3, <2>1, <3>1 DEF ClampIndex
    <3>3. hi = c1 + t
      BY <1>1, <1>3, <2>1, <3>1 DEF ClampIndex, RerunEnd
    <3>. QED
      BY <1>1, <1>2, <1>3, <2>0, <3>2, <3>3
  <2>2. CASE s < 1 /\ s - 1 + n >= 0
    <3>1. c1 = s - 1 + n /\ k <= 0
      BY <1>1, <1>2, <1>3, <2>2 DEF ClampIndex
    <3>2. lo = c1 + t - 1
      BY <1>1, <1>3, <2>2, <3>1 DEF ClampIndex
    <3>3. CASE k = 0
      <4>1. hi = n /\ c2 = n
        BY <1>1, <1>2, <1>3, <2>2, <3>1, <3>3 DEF ClampIndex, RerunEnd
      <4>. QED
        BY <1>1, <1>2, <1>3, <2>0, <3>2, <4>1
    <3>4. CASE k < 0
      <4>1. hi = c1 + t
        BY <1>1, <1>3, <2>2, <3>1, <3>4 DEF ClampIndex, RerunEnd
      <4>. QED
        BY <1>1, <1>2, <1>3, <2>0, <3>2, <4>1
    <3>. QED
      BY <2>0, <3>1, <3>3, <3>4
  <2>3. CASE s - 1 + n < 0
    <3>1. c1 = 0 /\ k < 0 /\ k - 1 < 0 /\ k + n < t
      BY <1>1, <1>2, <1>3, <2>3 DEF ClampIndex
    <3>2. lo = IF k - 1 + n < 0 THEN 0 ELSE k - 1 + n
      BY <1>1, <3>1 DEF ClampIndex
    <3>3. hi = IF k + n < 0 THEN 0 ELSE k + n
      BY <1>1, <3>1 DEF ClampIndex, RerunEnd
    <3>. QED
      BY <1>1, <1>2, <1>3, <2>0, <3>1, <3>2, <3>3
  <2>. QED
    BY <1>1, <2>1, <2>2, <2>3
<1>. QED
  BY <1>4, <1>5, SelectedRange DEF n, s, c1, c2

(* A rerun's slice is what RerunSel says, and holds at most one issue.    *)
LEMMA RerunSlice ==
  ASSUME TypeOK, args.end = args.start
  PROVE  Elems(Selected) = RerunSel(args.start) /\ Len(Selected) <= 1
<1> DEFINE n == env.count
           k == args.start
<1>1. n \in Nat /\ k \in Int
  BY DEF TypeOK
<1>2. EndIdx = RerunEnd(k)
  BY <1>1, NoneAssumption DEF EndIdx, RerunEnd
<1>3. Elems(Selected) = RerunSel(k)
  BY <1>2 DEF Selected, RerunSel
<1>4. Len(Selected) = IF ClampIndex(k - 1, n) + 1 <= ClampIndex(EndIdx, n)
                      THEN ClampIndex(EndIdx, n) - ClampIndex(k - 1, n) ELSE 0
  BY SelectedBounds DEF n, k
<1>5. Len(Selected) <= 1
  BY <1>1, <1>2, <1>4 DEF ClampIndex, RerunEnd
<1>. QED
  BY <1>3, <1>5

(* One iteration: the head's printed index is i, the rest's run from i+1. *)
LEMMA LoopTailSel ==
  ASSUME TypeOK, todo # << >>, NEW W,
         \A j \in 1..Len(todo) : RerunSel(i + j - 1) \subseteq W
  PROVE  /\ RerunSel(i) \subseteq W
         /\ \A j \in 1..Len(Tail(todo)) : RerunSel((i + 1) + j - 1) \subseteq W
<1>1. /\ Len(Tail(todo)) = Len(todo) - 1
      /\ Len(todo) \in Nat \ {0}
      /\ i \in Int
  BY HeadTailProperties, LenProperties, EmptySeq DEF TypeOK
<1>2. RerunSel(i + 1 - 1) \subseteq W /\ i + 1 - 1 = i
  BY <1>1
<1>3. ASSUME NEW j \in 1..Len(Tail(todo)) PROVE RerunSel((i + 1) + j - 1) \subseteq W
  <2>1. j + 1 \in 1..Len(todo) /\ (i + 1) + j - 1 = i + (j + 1) - 1
    BY <1>1
  <2>. QED
    BY <2>1
<1>. QED
  BY <1>2, <1>3

(* What a printed index reruns depends on the draft only.                 *)
LEMMA RerunSelUnchanged ==
  ASSUME env' = env
  PROVE  \A k : RerunSel(k)' = RerunSel(k)
BY DEF RerunSel, RerunEnd, AllIssues

(* Before any run nothing is wanted and nothing reported.                  *)
LEMMA OnlyInit == RInit => OnlyInv
<1> SUFFICES ASSUME RInit PROVE OnlyInv
  OBVIOUS
<1>1. RTypeOK
  BY RTypeInit
<1>. QED
  BY <1>1 DEF RInit, Init, OnlyInv

(* Every step keeps OnlyInv.                                               *)
LEMMA OnlyStep == OnlyInv /\ [RNext]_rvars => OnlyInv'
<1> SUFFICES ASSUME OnlyInv, [RNext]_rvars PROVE OnlyInv'
  OBVIOUS
<1>0. /\ RTypeOK /\ RTypeOK' /\ TypeOK
      /\ todo \in Seq(1..MaxIssues)
      /\ env' = env
      /\ \A k : RerunSel(k)' = RerunSel(k)
  <2>1. RTypeOK /\ RTypeOK' /\ env' = env
    BY RTypeStep, EnvUnchanged DEF OnlyInv
  <2>. QED
    BY <2>1, RerunSelUnchanged DEF RTypeOK, TypeOK
<1>1. CASE GhCheckPasses /\ UNCHANGED <<toRetry, wanted, reruns>>
  BY <1>0, <1>1 DEF GhCheckPasses, OnlyInv
<1>2. CASE (GhCheckFails \/ ParseFails) /\ UNCHANGED <<toRetry, wanted, reruns>>
  BY <1>0, <1>2 DEF GhCheckFails, ParseFails, OnlyInv
<1>3. CASE Summary /\ UNCHANGED <<toRetry, wanted, reruns>>
  BY <1>0, <1>3 DEF Summary, OnlyInv
<1>4. CASE DryRunIssue /\ UNCHANGED <<toRetry, wanted, reruns>>
  BY <1>0, <1>4 DEF DryRunIssue, OnlyInv
<1>5. CASE RParseDraft
  <2>1. /\ pc = "parse" /\ pc' = "loop" /\ todo' = Selected /\ i' = args.start
        /\ UNCHANGED <<args, env, toRetry, reruns>>
    BY <1>5 DEF RParseDraft, ParseDraft
  <2>2. CASE reruns = 0 /\ ~args.dryRun
    <3>1. wanted' = Elems(Selected) /\ toRetry = {}
      BY <1>5, <2>1, <2>2 DEF RParseDraft, Elems, OnlyInv
    <3>2. \A t \in 1..Len(Selected) : RerunSel(args.start + t - 1) \subseteq Elems(Selected)
      BY <1>0, FirstSel
    <3>. QED
      BY <1>0, <2>1, <2>2, <3>1, <3>2 DEF OnlyInv
  <2>3. CASE reruns = 0 /\ args.dryRun
    <3>1. wanted' = wanted /\ toRetry = {}
      BY <1>5, <2>1, <2>3 DEF RParseDraft, OnlyInv
    <3>. QED
      BY <1>0, <2>1, <2>3, <3>1 DEF OnlyInv
  <2>4. CASE reruns # 0
    <3>1. reruns > 0 /\ wanted' = wanted
      BY <1>0, <1>5, <2>4 DEF RParseDraft, RTypeOK
    <3>2. args.end = args.start /\ RerunSel(args.start) \subseteq wanted /\ ~args.dryRun
      BY <2>1, <3>1 DEF OnlyInv
    <3>3. Elems(Selected) = RerunSel(args.start) /\ Len(Selected) <= 1
      BY <1>0, <3>2, RerunSlice
    <3>4. \A t \in 1..Len(Selected) : RerunSel(args.start + t - 1) \subseteq wanted
      <4> SUFFICES ASSUME NEW t \in 1..Len(Selected)
                   PROVE  RerunSel(args.start + t - 1) \subseteq wanted
        OBVIOUS
      <4>1. t = 1 /\ args.start \in Int
        BY <1>0, <3>3 DEF TypeOK
      <4>. QED
        BY <3>2, <4>1
    <3>. QED
      BY <1>0, <2>1, <3>1, <3>2, <3>3, <3>4 DEF OnlyInv
  <2>. QED
    BY <2>2, <2>3, <2>4
<1>6. CASE CreateSucceeds /\ UNCHANGED <<toRetry, wanted, reruns>>
  <2>1. /\ todo # << >> /\ pc = "loop" /\ pc' = "loop" /\ ~args.dryRun
        /\ todo' = Tail(todo) /\ i' = i + 1 /\ UNCHANGED <<args, env>>
    BY <1>6 DEF CreateSucceeds
  <2>2. Elems(todo) = {Head(todo)} \cup Elems(Tail(todo))
    BY <1>0, <2>1, ElemsAppendTail
  <2>3. \A j \in 1..Len(Tail(todo)) : RerunSel((i + 1) + j - 1) \subseteq wanted
    BY <1>0, <2>1, LoopTailSel DEF OnlyInv
  <2>. QED
    BY <1>0, <1>6, <2>1, <2>2, <2>3 DEF OnlyInv
<1>7. CASE \E e \in GhOutcomes \ {"ok"} : RCreateFails(e)
  <2>1. PICK e \in GhOutcomes \ {"ok"} : RCreateFails(e)
    BY <1>7
  <2>2. /\ todo # << >> /\ pc = "loop" /\ pc' = "loop" /\ ~args.dryRun
        /\ todo' = Tail(todo) /\ toRetry' = toRetry \cup {i} /\ i' = i + 1
        /\ UNCHANGED <<args, env, wanted, reruns>>
    BY <2>1 DEF RCreateFails, CreateFails
  <2>3. Elems(todo) = {Head(todo)} \cup Elems(Tail(todo))
    BY <1>0, <2>2, ElemsAppendTail
  <2>4. /\ RerunSel(i) \subseteq wanted
        /\ \A j \in 1..Len(Tail(todo)) : RerunSel((i + 1) + j - 1) \subseteq wanted
    BY <1>0, <2>2, LoopTailSel DEF OnlyInv
  <2>. QED
    BY <1>0, <2>2, <2>3, <2>4 DEF OnlyInv
<1>8. CASE CreatePostsThenFails
  <2>1. /\ todo # << >> /\ pc = "loop" /\ pc' = "loop" /\ ~args.dryRun
        /\ todo' = Tail(todo) /\ toRetry' = toRetry \cup {i} /\ i' = i + 1
        /\ UNCHANGED <<args, env, wanted, reruns>>
    BY <1>8 DEF CreatePostsThenFails
  <2>2. Elems(todo) = {Head(todo)} \cup Elems(Tail(todo))
    BY <1>0, <2>1, ElemsAppendTail
  <2>3. /\ RerunSel(i) \subseteq wanted
        /\ \A j \in 1..Len(Tail(todo)) : RerunSel((i + 1) + j - 1) \subseteq wanted
    BY <1>0, <2>1, LoopTailSel DEF OnlyInv
  <2>. QED
    BY <1>0, <2>1, <2>2, <2>3 DEF OnlyInv
<1>9. CASE Rerun
  <2>1. PICK k \in toRetry : /\ args' = [dryRun |-> FALSE, start |-> k, end |-> k]
                            /\ toRetry' = toRetry \ {k}
    BY <1>9 DEF Rerun
  <2>2. /\ pc' = "check" /\ todo' = << >> /\ reruns' = reruns + 1
        /\ UNCHANGED <<env, wanted>>
    BY <1>9 DEF Rerun
  <2>3. reruns \in Nat /\ RerunSel(k) \subseteq wanted
    BY <1>0 DEF OnlyInv, RTypeOK
  <2>. QED
    BY <1>0, <2>1, <2>2, <2>3 DEF OnlyInv
<1>10. CASE UNCHANGED rvars
  BY <1>0, <1>10 DEF rvars, vars, OnlyInv
<1>. QED
  BY <1>1, <1>2, <1>3, <1>4, <1>5, <1>6, <1>7, <1>8, <1>9, <1>10 DEF RNext, RunNext

(* Under OnlyInv a step leaves GitHub alone or adds one wanted issue.      *)
LEMMA OnlyAction ==
  OnlyInv /\ [RNext]_rvars =>
    [\/ remote' = remote \/ \E x \in wanted : remote' = Append(remote, x)]_rvars
<1> SUFFICES ASSUME OnlyInv, [RNext]_rvars
             PROVE  \/ remote' = remote \/ \E x \in wanted : remote' = Append(remote, x)
  OBVIOUS
<1>1. todo \in Seq(1..MaxIssues)
  BY DEF OnlyInv, RTypeOK, TypeOK
<1>2. ASSUME pc = "loop", todo # << >>, ~args.dryRun PROVE Head(todo) \in wanted
  <2>1. Elems(todo) = {Head(todo)} \cup Elems(Tail(todo))
    BY <1>1, <1>2, ElemsAppendTail
  <2>. QED
    BY <1>2, <2>1 DEF OnlyInv
<1>3. CASE CreateSucceeds /\ UNCHANGED <<toRetry, wanted, reruns>>
  BY <1>2, <1>3 DEF CreateSucceeds
<1>4. CASE CreatePostsThenFails
  BY <1>2, <1>4 DEF CreatePostsThenFails
<1>5. CASE ~(CreateSucceeds /\ UNCHANGED <<toRetry, wanted, reruns>>) /\ ~CreatePostsThenFails
  BY <1>5 DEF RNext, RunNext, rvars, vars, GhCheckPasses, GhCheckFails, ParseFails,
         DryRunIssue, Summary, RParseDraft, ParseDraft, RCreateFails, CreateFails, Rerun
<1>. QED
  BY <1>3, <1>4, <1>5

(* No run of create_issues_auto.py, the first or a rerun of an index it    *)
(* printed as failed, creates an issue outside the first run's range:      *)
(* CreatesOnlyWanted, for every draft, every --start and --end (negative   *)
(* ones included) and every number of reruns, and also when a failed gh   *)
(* call may have created its issue.                                        *)
THEOREM CreatesOnlyWantedCorrect == RSpec => CreatesOnlyWanted
<1>1. RSpec => []OnlyInv
  BY OnlyInit, OnlyStep, PTL DEF RSpec
<1>2. []OnlyInv /\ [][RNext]_rvars =>
        [][\/ remote' = remote \/ \E x \in wanted : remote' = Append(remote, x)]_rvars
  BY OnlyAction, PTL
<1>. QED
  BY <1>1, <1>2, PTL DEF RSpec, CreatesOnlyWanted
-----------------------------------------------------------------------------
(***************************************************************************)
(* GitHub holds wanted issues only.  The first real run sets wanted while  *)
(* GitHub is still untouched, and every later step that changes GitHub     *)
(* adds a wanted issue (OnlyAction).                                        *)
(***************************************************************************)
RemInv ==
  /\ OnlyInv
  /\ RemoteSet \subseteq wanted
  /\ (reruns = 0 /\ pc \in {"check", "parse"}) => remote = << >>

LEMMA RemInit == RInit => RemInv
<1> SUFFICES ASSUME RInit PROVE RemInv
  OBVIOUS
<1>1. OnlyInv
  BY OnlyInit
<1>2. Elems(<< >>) = {}
  BY DEF Elems
<1>. QED
  BY <1>1, <1>2 DEF RInit, Init, RemInv, RemoteSet

LEMMA RemStep == RemInv /\ [RNext]_rvars => RemInv'
<1> SUFFICES ASSUME RemInv, [RNext]_rvars PROVE RemInv'
  OBVIOUS
<1>0. /\ OnlyInv' /\ RTypeOK /\ remote \in Seq(1..MaxIssues)
      /\ \/ remote' = remote
         \/ \E x \in wanted : remote' = Append(remote, x)
  <2>1. OnlyInv' /\ RTypeOK /\ remote \in Seq(1..MaxIssues)
    BY OnlyStep DEF RemInv, OnlyInv, RTypeOK, TypeOK
  <2>2. [\/ remote' = remote \/ \E x \in wanted : remote' = Append(remote, x)]_rvars
    BY OnlyAction DEF RemInv
  <2>. QED
    BY <2>1, <2>2 DEF rvars, vars
<1>1. wanted \subseteq wanted' \/ remote = << >>
  <2>1. CASE RParseDraft
    <3>1. CASE reruns = 0
      BY <2>1, <3>1 DEF RParseDraft, ParseDraft, RemInv
    <3>2. CASE reruns # 0
      BY <2>1, <3>2 DEF RParseDraft
    <3>. QED
      BY <3>1, <3>2
  <2>2. CASE ~RParseDraft
    BY <2>2 DEF RNext, RunNext, rvars, RCreateFails, CreatePostsThenFails, Rerun
  <2>. QED
    BY <2>1, <2>2
<1>2. (RemoteSet \subseteq wanted)'
  <2>1. Elems(<< >>) = {}
    BY DEF Elems
  <2>2. CASE remote' = remote
    BY <1>1, <2>1, <2>2 DEF RemInv, RemoteSet
  <2>3. CASE \E x \in wanted : remote' = Append(remote, x)
    <3>1. PICK x \in wanted : remote' = Append(remote, x)
      BY <2>3
    <3>2. Elems(remote') = Elems(remote) \cup {x}
      BY <1>0, <3>1, ElemsAppendTail
    <3>3. wanted' = wanted
      <4>1. ~RParseDraft
        BY <3>1, AppendProperties, <1>0 DEF RParseDraft, ParseDraft
      <4>. QED
        BY <4>1 DEF RNext, RunNext, rvars, RCreateFails, CreatePostsThenFails, Rerun
    <3>. QED
      BY <3>2, <3>3 DEF RemInv, RemoteSet
  <2>. QED
    BY <1>0, <2>2, <2>3
<1>3. ((reruns = 0 /\ pc \in {"check", "parse"}) => remote = << >>)'
  <2> SUFFICES ASSUME reruns' = 0, pc' \in {"check", "parse"} PROVE remote' = << >>
    OBVIOUS
  <2>1. ~Rerun
    BY DEF Rerun, RemInv, OnlyInv, RTypeOK
  <2>2. pc \in {"check", "parse"} /\ remote' = remote /\ reruns = 0
    BY <2>1 DEF RNext, RunNext, rvars, vars, GhCheckPasses, GhCheckFails, ParseFails,
           DryRunIssue, CreateSucceeds, Summary, RParseDraft, ParseDraft,
           RCreateFails, CreateFails, CreatePostsThenFails
  <2>. QED
    BY <2>2 DEF RemInv
<1>. QED
  BY <1>0, <1>2, <1>3 DEF RemInv

(* Rerunning every failure create_issues_auto.py reports completes the     *)
(* batch, and with nothing else: once no reported failure is left and the *)
(* last run exits 0, the issues on GitHub are exactly the ones the first   *)
(* real run selected (RetryCompletes), for every draft, every first range  *)
(* with --start >= 0 and every number of reruns, and also when a failed gh *)
(* call may have created its issue.                                        *)
THEOREM RetryCompletesCorrect ==
  StartArgs \subseteq Nat => (RSpec => []RetryCompletes)
<1> SUFFICES ASSUME StartArgs \subseteq Nat PROVE RSpec => []RetryCompletes
  OBVIOUS
<1>1. CompInv /\ RemInv => RetryCompletes
  <2> SUFFICES ASSUME CompInv, RemInv, pc = "done", exitCode = 0, toRetry = {}
               PROVE  {remote[k] : k \in 1..Len(remote)} = wanted
    BY DEF RetryCompletes
  <2>1. todo = << >> /\ Elems(<< >>) = {} /\ InFlight = {} /\ RetryIssues = {}
    BY DEF CompInv, Elems, InFlight, RetryIssues
  <2>2. wanted \subseteq RemoteSet
    BY <2>1 DEF CompInv
  <2>3. RemoteSet \subseteq wanted
    BY DEF RemInv
  <2>. QED
    BY <2>2, <2>3 DEF RemoteSet, Elems
<1>2. RSpec => []CompInv
  BY CompInit, CompStep, PTL DEF RSpec
<1>3. RSpec => []RemInv
  BY RemInit, RemStep, PTL DEF RSpec
<1>. QED
  BY <1>1, <1>2, <1>3, PTL

=============================================================================
