---------------------------- MODULE Toasts_proofs ----------------------------
(***************************************************************************)
(* Proofs about Toasts, for pages that show any number of toasts at once.  *)
(***************************************************************************)
EXTENDS Toasts, FiniteSetTheorems, WellFoundedInduction, TLAPS

(***************************************************************************)
(* Only the oldest active toast is pushed out, and only if it can be       *)
(* removed.  It always can, whatever frames, timers and navigations have   *)
(* done before: what the list holds is on the page (OnPage).               *)
(***************************************************************************)
TypeOK ==
  /\ shown \in 0..MaxToasts
  /\ toasts \in SUBSET (1..shown)
  /\ IsFiniteSet(toasts)

OnPage == toasts \subseteq elements

IInv == TypeOK /\ OnPage /\ FewActive

-----------------------------------------------------------------------------
LEMMA LeastNatural ==
  ASSUME NEW T, T \subseteq Nat, T # {}
  PROVE  \E x \in T : \A y \in T : x <= y
<1>1. PICK x \in T : \A y \in T : ~(<<y, x>> \in OpToRel(<, Nat))
  BY NatLessThanWellFounded, WFMin
<1>2. \A y \in T : x <= y
  <2> SUFFICES ASSUME NEW y \in T, ~(x <= y) PROVE FALSE
    OBVIOUS
  <2>1. x \in Nat /\ y \in Nat /\ y < x
    OBVIOUS
  <2>2. <<y, x>> \in OpToRel(<, Nat)
    BY <2>1 DEF OpToRel
  <2>3. QED
    BY <1>1, <2>2
<1>3. QED
  BY <1>2

\* A smaller set of active toasts.
LEMMA FewStay ==
  ASSUME IInv, NEW A, A \subseteq Active(toasts)
  PROVE  IsFiniteSet(A) /\ Cardinality(A) <= Limit
<1>1. IsFiniteSet(Active(toasts))
  BY FS_Subset DEF IInv, TypeOK, Active
<1>2. IsFiniteSet(A) /\ Cardinality(A) <= Cardinality(Active(toasts))
        /\ Cardinality(A) \in Nat /\ Cardinality(Active(toasts)) \in Nat
  BY <1>1, FS_Subset, FS_CardinalityType
<1>3. QED
  BY <1>2, ToastsAssumption DEF IInv, FewActive

LEMMA InitInv == Init => IInv
<1> SUFFICES ASSUME Init PROVE IInv
  OBVIOUS
<1>1. TypeOK /\ OnPage
  BY FS_EmptySet, ToastsAssumption DEF Init, TypeOK, OnPage
<1>2. FewActive
  BY FS_EmptySet, ToastsAssumption DEF Init, FewActive, Active
<1>3. QED
  BY <1>1, <1>2 DEF IInv

\* A toast more than fit pushes the oldest out.
LEMMA ShowInv ==
  ASSUME IInv, Show
  PROVE  IInv'
<1> DEFINE old == Active(toasts)
           active == (toasts \cup {shown + 1}) \ removed
<1>1. /\ shown \in Nat /\ shown' = shown + 1 /\ shown' \in 0..MaxToasts
      /\ toasts' = toasts \cup {shown + 1}
      /\ elements' = elements \cup {shown + 1}
      /\ toasts \subseteq 1..shown
  BY ToastsAssumption DEF Show, IInv, TypeOK
<1>2. removed' = removed \cup {t \in Oldest(active) : Cardinality(active) > Limit /\ CanRemove(t)}
  BY <1>1 DEF Show, RemoveToasts, Active
<1>3. TypeOK' /\ OnPage'
  <2>1. IsFiniteSet(toasts')
    BY <1>1, FS_AddElement DEF IInv, TypeOK
  <2>2. QED
    BY <1>1, <2>1 DEF IInv, TypeOK, OnPage
<1>4. IsFiniteSet(old) /\ Cardinality(old) <= Limit /\ Cardinality(old) \in Nat
  BY FewStay, FS_CardinalityType
<1>5. active \subseteq old \cup {shown + 1} /\ shown + 1 \notin old
  BY <1>1 DEF Active
<1>6. IsFiniteSet(old \cup {shown + 1}) /\ Cardinality(old \cup {shown + 1}) = Cardinality(old) + 1
  BY <1>4, <1>5, FS_AddElement
<1>7. IsFiniteSet(active) /\ Cardinality(active) \in Nat /\ Cardinality(active) <= Cardinality(old) + 1
  BY <1>5, <1>6, FS_Subset, FS_CardinalityType
<1>8. Active(toasts)' = active \ removed'
  BY <1>1, <1>2 DEF Active
<1>9. \A x \in active : x \in Nat /\ (x \in toasts \/ x = shown + 1) /\ x <= shown + 1
  <2> SUFFICES ASSUME NEW x \in active
               PROVE  x \in Nat /\ (x \in toasts \/ x = shown + 1) /\ x <= shown + 1
    OBVIOUS
  <2>1. x \in toasts \/ x = shown + 1
    OBVIOUS
  <2>2. x \in toasts => x \in 1..shown
    BY <1>1
  <2> HIDE DEF active
  <2>3. QED
    BY <1>1, <2>1, <2>2
<1> HIDE DEF active
<1>10. CASE Cardinality(active) <= Limit
  <2>1. Cardinality(active \ removed') <= Cardinality(active)
        /\ Cardinality(active \ removed') \in Nat
    BY <1>7, FS_Subset, FS_CardinalityType
  <2>2. Cardinality(active \ removed') <= Limit
    BY <1>7, <1>10, <2>1, ToastsAssumption
  <2>3. QED
    BY <1>3, <1>8, <2>2 DEF IInv, FewActive
<1>11. CASE Cardinality(active) > Limit
  <2>1. active \subseteq Nat /\ active # {}
    <3>1. active \subseteq Nat
      BY <1>9
    <3>2. Cardinality(active) # 0
      BY <1>7, <1>11, ToastsAssumption
    <3>3. QED
      BY <3>1, <3>2, FS_EmptySet
  <2>2. PICK t \in active : \A x \in active : t <= x
    BY <2>1, LeastNatural
  <2>3. t # shown + 1
    <3>1. CASE t = shown + 1
      <4>1. active \subseteq {t}
        BY <1>1, <1>9, <2>2, <3>1
      <4>2. Cardinality({t}) = 1 /\ IsFiniteSet({t})
        BY FS_Singleton
      <4>3. Cardinality(active) <= 1
        BY <4>1, <4>2, FS_Subset
      <4>4. QED
        BY <1>7, <1>11, <4>3, ToastsAssumption
    <3>2. QED
      BY <3>1
  <2>4. CanRemove(t)
    BY <2>2, <2>3 DEF active, CanRemove, IInv, OnPage
  <2>5. t \in removed'
    BY <1>2, <1>11, <2>2, <2>4 DEF Oldest
  <2>6. active \ removed' \subseteq active \ {t}
    BY <2>5
  <2>7. Cardinality(active \ {t}) = Cardinality(active) - 1 /\ IsFiniteSet(active \ {t})
    BY <1>7, <2>2, FS_RemoveElement
  <2>8. Cardinality(active \ removed') <= Cardinality(active) - 1
        /\ Cardinality(active \ removed') \in Nat
    BY <2>6, <2>7, FS_Subset, FS_CardinalityType
  <2>9. Cardinality(active \ removed') <= Limit
    BY <1>4, <1>7, <2>8, ToastsAssumption
  <2>10. QED
    BY <1>3, <1>8, <2>9 DEF IInv, FewActive
<1>12. QED
  BY <1>7, <1>10, <1>11, ToastsAssumption

\* No other step adds a toast or takes back a removal.
LEMMA OtherStepsInv ==
  ASSUME IInv,
         \/ Clear \/ UNCHANGED vars
         \/ \E t \in Ids : Frame(t) \/ Close(t) \/ Dismiss(t) \/ TakeOff(t)
  PROVE  IInv'
<1>1. shown' = shown /\ toasts' \subseteq toasts /\ removed \subseteq removed'
  BY DEF Clear, vars, Frame, Close, Dismiss, TakeOff, RemoveToasts
<1>2. TypeOK'
  BY <1>1, FS_Subset DEF IInv, TypeOK
<1>3. OnPage'
  BY DEF IInv, OnPage, Clear, vars, Frame, Close, Dismiss, TakeOff
<1>4. Active(toasts)' \subseteq Active(toasts)
  BY <1>1 DEF Active
<1>5. FewActive'
  BY <1>4, FewStay DEF FewActive
<1>6. QED
  BY <1>2, <1>3, <1>5 DEF IInv

\* However frames, timers, clicks and navigations are mixed, a page shows no
\* more active toasts than fit.
THEOREM FewToasts == Spec => []FewActive
<1>1. IInv /\ [Next]_vars => IInv'
  BY ShowInv, OtherStepsInv DEF Next
<1>2. IInv => FewActive
  BY DEF IInv
<1>3. QED
  BY InitInv, <1>1, <1>2, PTL DEF Spec
=============================================================================
