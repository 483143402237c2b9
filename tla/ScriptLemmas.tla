----------------------------- MODULE ScriptLemmas -----------------------------
(***************************************************************************)
(* Facts about the operators the script models are built from, used by the *)
(* proofs of every script: Python's list slice (PySlice), moving the head  *)
(* of the loop's list to the issues on GitHub, and the log of gh calls and *)
(* rate-limit sleeps.                                                      *)
(***************************************************************************)
EXTENDS PySlice, SequenceTheorems, TLAPS

(* A normalised slice bound lies in 0..len.                               *)
LEMMA ClampIndexRange ==
  ASSUME NEW k \in Int, NEW len \in Nat
  PROVE  ClampIndex(k, len) \in 0..len
BY DEF ClampIndex

(* A slice of a sequence of S is a sequence of S.                          *)
LEMMA SliceType ==
  ASSUME NEW S, NEW s \in Seq(S), NEW a \in Int, NEW b \in Int
  PROVE  Slice(s, a, b) \in Seq(S)
<1> DEFINE lo == ClampIndex(a, Len(s)) + 1
           hi == ClampIndex(b, Len(s))
<1>0. Len(s) \in Nat
  BY LenProperties
<1>1. lo \in 1..Len(s) + 1 /\ hi \in 0..Len(s)
  <2>1. ClampIndex(a, Len(s)) \in 0..Len(s)
    BY <1>0, ClampIndexRange
  <2>2. ClampIndex(b, Len(s)) \in 0..Len(s)
    BY <1>0, ClampIndexRange
  <2>. QED
    BY <2>1, <2>2
<1>2. \A k \in lo..hi : s[k] \in S
  BY <1>1, LenProperties
<1>. QED
  BY <1>1, <1>2, SubSeqProperties DEF Slice

(* A non-empty slice s[a:b] ends no later than s: a + len(s[a:b]) <=      *)
(* len(s).  This is what keeps enumerate(s[a:b], start=a+1) from counting *)
(* past len(s).                                                            *)
LEMMA SliceBound ==
  ASSUME NEW S, NEW s \in Seq(S), NEW a \in Int, NEW b \in Int,
         Slice(s, a, b) # << >>
  PROVE  a + Len(Slice(s, a, b)) <= Len(s)
<1> DEFINE n == Len(s)
           c1 == ClampIndex(a, n)
           c2 == ClampIndex(b, n)
<1>1. n \in Nat
  BY LenProperties
<1>2. c1 \in 0..n /\ c2 \in 0..n
  BY <1>1, ClampIndexRange
<1>3. \A k \in (c1 + 1)..c2 : s[k] \in S
  BY <1>2, LenProperties
<1>4. Len(Slice(s, a, b)) = IF c1 + 1 <= c2 THEN c2 - c1 ELSE 0
  BY <1>2, <1>3, SubSeqProperties DEF Slice
<1>5. Slice(s, a, b) \in Seq(S)
  BY SliceType
<1>6. c1 < c2
  BY <1>2, <1>4, <1>5, EmptySeq
<1>7. a <= c1
  BY <1>1, <1>2, <1>6 DEF ClampIndex
<1>. QED
  BY <1>1, <1>2, <1>4, <1>6, <1>7

(* Moving the head of t to the end of r keeps r \o t.                      *)
LEMMA AppendHeadTail ==
  ASSUME NEW S, NEW r \in Seq(S), NEW t \in Seq(S), t # << >>
  PROVE  Append(r, Head(t)) \o Tail(t) = r \o t
<1>1. Head(t) \in S /\ Tail(t) \in Seq(S) /\ Len(t) \in 1..Len(t)
  BY HeadTailProperties, EmptySeq
<1>2. Append(r, Head(t)) = r \o <<Head(t)>>
  BY <1>1, AppendIsConcat
<1>3. <<Head(t)>> \o Tail(t) = t
  <2>1. SubSeq(t, 1, Len(t)) = << t[1] >> \o SubSeq(t, 2, Len(t))
    BY <1>1, SubSeqRecursiveFirst
  <2>2. SubSeq(t, 1, Len(t)) = t /\ Tail(t) = SubSeq(t, 2, Len(t))
    BY SubSeqFull, TailIsSubSeq
  <2>. QED
    BY <2>1, <2>2
<1>4. <<Head(t)>> \in Seq(S)
  BY <1>1
<1>5. (r \o <<Head(t)>>) \o Tail(t) = r \o (<<Head(t)>> \o Tail(t))
  BY <1>1, <1>4, ConcatAssociative
<1>. QED
  BY <1>2, <1>3, <1>5

(* An iteration that counts one issue (created or failed) and drops it    *)
(* from the loop's list keeps created + failed + len(list).                *)
LEMMA CountStep ==
  ASSUME NEW S, NEW c \in Nat, NEW f \in Nat, NEW t \in Seq(S), t # << >>,
         NEW n \in Int, c + f + Len(t) = n
  PROVE  /\ (c + 1) + f + Len(Tail(t)) = n
         /\ c + (f + 1) + Len(Tail(t)) = n
BY HeadTailProperties
-----------------------------------------------------------------------------
(* No two gh issue create calls are adjacent in the effect sequence L.    *)
Spaced(L) == \A j \in 1..(Len(L) - 1) : ~(L[j] = "create" /\ L[j + 1] = "create")

(* Appending one gh call and its rate-limit tail to a spaced log that does *)
(* not end in a call keeps it spaced; it then ends in a call only if the  *)
(* tail is empty.                                                          *)
LEMMA LogAppendSpaced ==
  ASSUME NEW L \in Seq({"create", "sleep"}), NEW T \in {<< >>, <<"sleep">>},
         Spaced(L), L = << >> \/ L[Len(L)] # "create"
  PROVE  /\ Spaced(L \o <<"create">> \o T)
         /\ (L \o <<"create">> \o T)[Len(L \o <<"create">> \o T)] = "create"
            => T = << >>
<1> DEFINE A == L \o <<"create">>
           M == A \o T
<1>1. /\ A \in Seq({"create", "sleep"})
      /\ Len(A) = Len(L) + 1
      /\ \A k \in 1..Len(L) : A[k] = L[k]
      /\ A[Len(L) + 1] = "create"
  BY ConcatProperties, AppendIsConcat, AppendProperties
<1>2. /\ M \in Seq({"create", "sleep"})
      /\ Len(M) = Len(A) + Len(T)
      /\ \A k \in 1..Len(A) : M[k] = A[k]
      /\ T = <<"sleep">> => M[Len(A) + 1] = "sleep"
  <2>0. << >> \in Seq({"create", "sleep"}) /\ <<"sleep">> \in Seq({"create", "sleep"})
    OBVIOUS
  <2>1. T \in Seq({"create", "sleep"})
    BY <2>0
  <2>2. T = <<"sleep">> => Len(T) = 1 /\ T[1] = "sleep"
    OBVIOUS
  <2>. QED
    BY <1>1, <2>1, <2>2, ConcatProperties
<1>3. Spaced(M)
  <2> SUFFICES ASSUME NEW j \in 1..(Len(M) - 1),
                      M[j] = "create", M[j + 1] = "create"
               PROVE  FALSE
    BY DEF Spaced
  <2>1. Len(L) \in Nat
    OBVIOUS
  <2>2. CASE j < Len(L)
    BY <2>2, <2>1, <1>1, <1>2 DEF Spaced
  <2>3. CASE j = Len(L)
    BY <2>3, <2>1, <1>1, <1>2
  <2>4. CASE j = Len(L) + 1
    BY <2>4, <2>1, <1>1, <1>2
  <2>. QED
    BY <2>1, <2>2, <2>3, <2>4, <1>1, <1>2
<1>4. M[Len(M)] = "create" => T = << >>
  BY <1>1, <1>2
<1>. QED
  BY <1>3, <1>4

(* Appending only a rate-limit tail (an iteration that made no gh call)    *)
(* to a spaced log that does not end in a call keeps both facts.           *)
LEMMA LogSleepSpaced ==
  ASSUME NEW L \in Seq({"create", "sleep"}), NEW T \in {<< >>, <<"sleep">>},
         Spaced(L), L = << >> \/ L[Len(L)] # "create"
  PROVE  /\ Spaced(L \o T)
         /\ L \o T = << >> \/ (L \o T)[Len(L \o T)] # "create"
<1>1. CASE T = << >>
  <2>1. L \o T = L
    BY <1>1, ConcatEmptySeq
  <2>. QED
    BY <2>1
<1>2. CASE T = <<"sleep">>
  <2>1. /\ L \o T = Append(L, "sleep")
        /\ Len(Append(L, "sleep")) = Len(L) + 1
        /\ \A k \in 1..Len(L) : Append(L, "sleep")[k] = L[k]
        /\ Append(L, "sleep")[Len(L) + 1] = "sleep"
    BY <1>2, AppendIsConcat, AppendProperties
  <2>2. Len(L) \in Nat
    OBVIOUS
  <2>3. Spaced(Append(L, "sleep"))
    BY <2>1, <2>2 DEF Spaced
  <2>. QED
    BY <2>1, <2>2, <2>3
<1>. QED
  BY <1>1, <1>2
=============================================================================
