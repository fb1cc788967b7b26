------------------------------ MODULE Extrema ------------------------------
(***************************************************************************)
(* Facts about Min, Max and images that the proofs of the other modules    *)
(* cite: the models fold aggregates, order locks and widen bounds with     *)
(* them.                                                                   *)
(***************************************************************************)
EXTENDS FiniteSetsExt, FiniteSetTheorems, WellFoundedInduction, TLAPS

\* A non-empty set of naturals has its minimum as a member.
LEMMA MinOfNaturals ==
  ASSUME NEW S \in SUBSET Nat, S # {}
  PROVE  /\ Min(S) \in S
         /\ \A y \in S : Min(S) <= y
<1> DEFINE R == {ss \in Nat \X Nat : ss[1] < ss[2]}
<1>1. IsWellFoundedOn(R, Nat)
  BY NatLessThanWellFounded DEF OpToRel
<1>2. PICK x \in S : \A y \in S : ~ (<<y, x>> \in R)
  <2> HIDE DEF R
  <2> QED BY <1>1, WFMin
<1>3. \A y \in S : x <= y
  <2> SUFFICES ASSUME NEW y \in S, ~ (x <= y) PROVE FALSE
    OBVIOUS
  <2>1. x \in Nat /\ y \in Nat /\ y < x
    OBVIOUS
  <2> QED BY <2>1, <1>2
<1> QED
  BY <1>3 DEF Min

\* A non-empty finite set of naturals has its maximum as a member: among its
\* subsets without a maximum there would be a smallest one.
LEMMA MaxOfFinite ==
  ASSUME NEW S \in SUBSET Nat, S # {}, IsFiniteSet(S)
  PROVE  /\ Max(S) \in S
         /\ \A y \in S : y <= Max(S)
<1> DEFINE HasMax(T) == \E m \in T : \A y \in T : y <= m
           Bad == {T \in SUBSET S : T # {} /\ ~ HasMax(T)}
           R == StrictSubsetOrdering(S)
<1>1. IsWellFoundedOn(R, SUBSET S)
  BY FS_StrictSubsetOrderingWellFounded, FS_FiniteSubsetsOfFinite
<1>2. Bad = {}
  <2> SUFFICES ASSUME Bad # {} PROVE FALSE
    OBVIOUS
  <2>1. PICK T \in Bad : \A U \in Bad : ~ (<<U, T>> \in R)
    <3>1. Bad \subseteq SUBSET S
      OBVIOUS
    <3> HIDE DEF Bad, R
    <3> QED BY <1>1, <3>1, WFMin
  <2>2. PICK t \in T : TRUE
    OBVIOUS
  <2> DEFINE U == T \ {t}
  <2>3. <<U, T>> \in R
    BY <2>2 DEF StrictSubsetOrdering
  <2>4. U # {} /\ HasMax(U)
    <3>1. U # {}
      <4> SUFFICES ASSUME U = {} PROVE FALSE
        OBVIOUS
      <4>1. \A y \in T : y <= t
        OBVIOUS
      <4> QED BY <4>1
    <3>2. U \in SUBSET S
      OBVIOUS
    <3> QED BY <3>1, <3>2, <2>1, <2>3
  <2>5. PICK m \in U : \A y \in U : y <= m
    BY <2>4
  <2>6. HasMax(T)
    <3>1. t \in Nat /\ m \in Nat /\ t \in T /\ m \in T
      OBVIOUS
    <3>2. CASE t <= m
      BY <3>1, <3>2, <2>5
    <3>3. CASE m < t
      <4>1. \A y \in T : y \in Nat /\ y <= t
        BY <3>1, <3>3, <2>5
      <4> QED BY <4>1, <3>1
    <3> QED BY <3>1, <3>2, <3>3
  <2> QED BY <2>6
<1>3. HasMax(S)
  BY <1>2
<1>4. PICK m \in S : \A y \in S : m >= y
  BY <1>3
<1> QED
  BY <1>4 DEF Max

\* A minimum may stand for the set it is the minimum of, ...
LEMMA MinOfUnion ==
  ASSUME NEW S \in SUBSET Nat, S # {}, NEW T \in SUBSET Nat, T # {}
  PROVE  Min(S \cup {Min(T)}) = Min(S \cup T)
<1>1. Min(T) \in T /\ \A y \in T : Min(T) <= y
  BY MinOfNaturals
<1>2. S \cup {Min(T)} \in SUBSET Nat /\ S \cup {Min(T)} # {}
  BY <1>1
<1>3. S \cup T \in SUBSET Nat /\ S \cup T # {}
  OBVIOUS
<1> DEFINE a == Min(S \cup {Min(T)})
           b == Min(S \cup T)
<1>4. a \in S \cup {Min(T)} /\ \A y \in S \cup {Min(T)} : a <= y
  BY <1>2, MinOfNaturals
<1>5. b \in S \cup T /\ \A y \in S \cup T : b <= y
  BY <1>3, MinOfNaturals
<1> HIDE DEF a, b
<1>6. a \in Nat /\ b \in Nat /\ Min(T) \in Nat
  BY <1>1, <1>2, <1>3, <1>4, <1>5
<1>7. b <= a
  BY <1>1, <1>4, <1>5
<1>8. a <= b
  <2>1. CASE b \in S
    BY <2>1, <1>4
  <2>2. CASE b \in T
    <3>1. a <= Min(T) /\ Min(T) <= b
      BY <2>2, <1>1, <1>4
    <3> QED BY <3>1, <1>6
  <2> QED BY <2>1, <2>2, <1>5
<1>9. a = b
  BY <1>6, <1>7, <1>8
<1> QED
  BY <1>9 DEF a, b

\* ... and so may a maximum.
LEMMA MaxOfUnion ==
  ASSUME NEW S \in SUBSET Nat, S # {}, IsFiniteSet(S),
         NEW T \in SUBSET Nat, T # {}, IsFiniteSet(T)
  PROVE  Max(S \cup {Max(T)}) = Max(S \cup T)
<1>1. Max(T) \in T /\ \A y \in T : y <= Max(T)
  BY MaxOfFinite
<1>2. /\ S \cup {Max(T)} \in SUBSET Nat /\ S \cup {Max(T)} # {}
      /\ IsFiniteSet(S \cup {Max(T)})
  BY <1>1, FS_AddElement
<1>3. S \cup T \in SUBSET Nat /\ S \cup T # {} /\ IsFiniteSet(S \cup T)
  BY FS_Union
<1> DEFINE a == Max(S \cup {Max(T)})
           b == Max(S \cup T)
<1>4. a \in S \cup {Max(T)} /\ \A y \in S \cup {Max(T)} : y <= a
  BY <1>2, MaxOfFinite
<1>5. b \in S \cup T /\ \A y \in S \cup T : y <= b
  BY <1>3, MaxOfFinite
<1> HIDE DEF a, b
<1>6. a \in Nat /\ b \in Nat /\ Max(T) \in Nat
  BY <1>1, <1>2, <1>3, <1>4, <1>5
<1>7. a <= b
  BY <1>1, <1>4, <1>5
<1>8. b <= a
  <2>1. CASE b \in S
    BY <2>1, <1>4
  <2>2. CASE b \in T
    <3>1. b <= Max(T) /\ Max(T) <= a
      BY <2>2, <1>1, <1>4
    <3> QED BY <3>1, <1>6
  <2> QED BY <2>1, <2>2, <1>5
<1>9. a = b
  BY <1>6, <1>7, <1>8
<1> QED
  BY <1>9 DEF a, b

\* The image of a finite set under a function is finite.
LEMMA FiniteImage ==
  ASSUME NEW S, NEW T, NEW f \in [S -> T], NEW E \in SUBSET S, IsFiniteSet(E)
  PROVE  IsFiniteSet({f[e] : e \in E})
<1> DEFINE g == [e \in E |-> f[e]]
           I == {f[e] : e \in E}
<1>1. g \in Surjection(E, I)
  BY DEF Surjection
<1>2. IsFiniteSet(I)
  <2> HIDE DEF g, I
  <2> QED BY <1>1, FS_Surjection
<1> QED
  BY <1>2
=============================================================================
