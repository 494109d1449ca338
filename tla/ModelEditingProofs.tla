---- MODULE ModelEditingProofs ----
(***************************************************************************)
(* What holds of the model editor for every drawing a session starts from, *)
(* every template and every input the forms can send.                      *)
(*                                                                         *)
(* A workspace normalizer is run on what every edit makes of the model and *)
(* on what is read from a saved project. ReopenKeepsModel says that the    *)
(* second time changes nothing. The argument has three parts, each for a   *)
(* frame, a truss and a beam:                                              *)
(*   1. a model is fit when there is nothing for the normalizer to put     *)
(*      right (FrameFits, TrussFits, BeamFits): what it makes of any model *)
(*      of the kind is fit, and it leaves a fit one as it is               *)
(*      (FrameBecomesFit, TrussBecomesFit, BeamBecomesFit);                *)
(*   2. every edit hands the normalizer a model of its own kind, with the  *)
(*      numbers and identifiers the editor's types say, even where a text  *)
(*      is read back line by line or an identifier is made up on the way   *)
(*      (FrameSteps, TrussSteps, BeamSteps);                               *)
(*   3. so the model on the screen is always fit (ModelFits, which is      *)
(*      inductive), and reopening what was saved gives the same model.     *)
(***************************************************************************)
EXTENDS ModelEditing, SequenceTheorems, FiniteSetTheorems, WellFoundedInduction, TLAPS

----------------------------------------------------------------------------
(* Numbers and finite sets. *)

(* Every set of numbers has a smallest one: the induction the proofs on
   sequences rest on. *)
LEMMA LeastNumber ==
  ASSUME NEW T \in SUBSET Nat, T # {}
  PROVE  \E m \in T : \A n \in T : m <= n
<1> DEFINE R == OpToRel(<, Nat)
<1>1. IsWellFoundedOn(R, Nat)
  BY NatLessThanWellFounded
<1>2. \A a, b \in Nat : a < b => <<a, b>> \in R
  BY DEF OpToRel
<1> HIDE DEF R
<1>3. PICK m \in T : \A n \in T : ~(<<n, m>> \in R)
  BY <1>1, WFMin
<1>4. \A n \in T : n \in Nat /\ m \in Nat /\ ~(n < m)
  BY <1>2, <1>3, Zenon
<1> QED  BY <1>4

(* Counting up from the first, k stands at the n-th place of a finite set of
   numbers. *)
Rank(S, k) == Cardinality({l \in S : l <= k})

LEMMA RankRises ==
  ASSUME NEW S \in SUBSET Int, IsFiniteSet(S), NEW j \in S, NEW k \in S, j < k
  PROVE  Rank(S, j) < Rank(S, k)
<1> DEFINE A == {l \in S : l <= j}  B == {l \in S : l <= k}
<1>1. IsFiniteSet(B) /\ A \in SUBSET B /\ k \in B /\ k \notin A
  <2>1. j \in Int /\ k \in Int /\ \A l \in S : l \in Int
    OBVIOUS
  <2>3. B \in SUBSET S /\ A \in SUBSET B /\ k \in B /\ k \notin A
    <3>1. k \in B /\ k \notin A
      BY <2>1
    <3>2. \A l \in A : l \in S /\ l <= k
      BY <2>1
    <3> QED  BY <3>1, <3>2
  <2> HIDE DEF A, B
  <2>2. IsFiniteSet(B)
    BY <2>3, FS_Subset
  <2> QED  BY <2>2, <2>3
<1> HIDE DEF A, B
<1>2. Cardinality(A) <= Cardinality(B) /\ Cardinality(A) # Cardinality(B)
  BY <1>1, FS_Subset
<1>3. Cardinality(A) \in Nat /\ Cardinality(B) \in Nat
  BY <1>1, FS_Subset, FS_CardinalityType
<1> QED  BY <1>2, <1>3 DEF Rank, A, B

LEMMA RankInRange ==
  ASSUME NEW S \in SUBSET Int, IsFiniteSet(S), NEW k \in S
  PROVE  Rank(S, k) \in 1..Cardinality(S)
<1> DEFINE B == {l \in S : l <= k}
<1>1. B \in SUBSET S /\ k \in B
  OBVIOUS
<1> HIDE DEF B
<1>2. IsFiniteSet(B) /\ Cardinality(B) <= Cardinality(S)
  BY <1>1, FS_Subset
<1>3. Cardinality(B) \in Nat /\ Cardinality(S) \in Nat /\ Cardinality(B) # 0
  BY <1>1, <1>2, FS_CardinalityType, FS_EmptySet
<1> QED  BY <1>2, <1>3 DEF Rank, B

(* Each number up to how many there are is the place of exactly one. *)
LEMMA RankUnique ==
  ASSUME NEW S \in SUBSET Int, IsFiniteSet(S), NEW j \in S, NEW k \in S, Rank(S, j) = Rank(S, k)
  PROVE  j = k
<1>1. Rank(S, j) \in Int
  BY RankInRange
<1>2. CASE j < k
  BY <1>1, <1>2, RankRises
<1>3. CASE k < j
  BY <1>1, <1>3, RankRises
<1> QED  BY <1>2, <1>3

LEMMA RankReached ==
  ASSUME NEW S \in SUBSET Int, IsFiniteSet(S), NEW n \in 1..Cardinality(S)
  PROVE  \E k \in S : Rank(S, k) = n
<1> DEFINE N == 1..Cardinality(S)
           f == [k \in S |-> Rank(S, k)]
<1>1. f \in [S -> N]
  BY RankInRange
<1>2. \A j, k \in S : f[j] = f[k] => j = k
  BY RankUnique
<1>3. f \in Injection(S, N)
  BY <1>1, <1>2 DEF Injection, IsInjective
<1>4. IsFiniteSet(N) /\ Cardinality(N) = Cardinality(S)
  <2>1. Cardinality(S) \in Nat
    BY FS_CardinalityType
  <2>2. 1 \in Int /\ Cardinality(S) \in Int
    BY <2>1
  <2>3. IsFiniteSet(N) /\ Cardinality(N) = IF 1 > Cardinality(S) THEN 0 ELSE Cardinality(S) - 1 + 1
    BY <2>2, FS_Interval
  <2> QED  BY <2>1, <2>3
<1>5. f \in Surjection(S, N)
  <2> HIDE DEF f, N
  <2> QED  BY <1>3, <1>4, FS_Injection
<1> QED  BY <1>5 DEF Surjection

----------------------------------------------------------------------------
(* Sequences. *)

LEMMA DomainFinite ==
  ASSUME NEW T, NEW s \in Seq(T), NEW P \in SUBSET DOMAIN s
  PROVE  IsFiniteSet(P) /\ Cardinality(P) \in Nat /\ Cardinality(P) <= Len(s) /\ P \in SUBSET Int
<1>1. DOMAIN s = 1..Len(s) /\ Len(s) \in Nat
  OBVIOUS
<1>2. IsFiniteSet(1..Len(s)) /\ Cardinality(1..Len(s)) = Len(s)
  <2>1. 1 \in Int /\ Len(s) \in Int /\ Len(s) \in Nat
    OBVIOUS
  <2>2. IsFiniteSet(1..Len(s)) /\ Cardinality(1..Len(s)) = IF 1 > Len(s) THEN 0 ELSE Len(s) - 1 + 1
    BY <2>1, FS_Interval
  <2> QED  BY <2>1, <2>2
<1>3. IsFiniteSet(P) /\ Cardinality(P) <= Cardinality(1..Len(s))
  BY <1>1, <1>2, FS_Subset
<1> QED  BY <1>1, <1>2, <1>3, FS_CardinalityType

LEMMA PickedAt ==
  ASSUME NEW T, NEW s \in Seq(T), NEW P \in SUBSET DOMAIN s, NEW k \in P
  PROVE  /\ Rank(P, k) \in DOMAIN Picked(s, P)
         /\ Picked(s, P)[Rank(P, k)] = s[k]
<1>0. IsFiniteSet(P) /\ P \in SUBSET Int
  BY DomainFinite
<1>1. Rank(P, k) \in 1..Cardinality(P)
  BY <1>0, RankInRange
<1> DEFINE n == Rank(P, k)
           j == CHOOSE j \in P : Cardinality({l \in P : l <= j}) = n
<1>2. j \in P /\ Rank(P, j) = n
  <2>1. \E i \in P : Cardinality({l \in P : l <= i}) = n
    BY DEF Rank
  <2> HIDE DEF n
  <2> QED  BY <2>1 DEF Rank
<1>3. j = k
  <2> HIDE DEF j
  <2> QED  BY <1>0, <1>2, RankUnique
<1>4. DOMAIN Picked(s, P) = 1..Cardinality(P) /\ Picked(s, P)[n] = s[j]
  BY <1>1 DEF Picked
<1> QED  BY <1>1, <1>3, <1>4

LEMMA PickedFrom ==
  ASSUME NEW T, NEW s \in Seq(T), NEW P \in SUBSET DOMAIN s, NEW n \in DOMAIN Picked(s, P)
  PROVE  \E k \in P : Picked(s, P)[n] = s[k] /\ Rank(P, k) = n
<1>0. IsFiniteSet(P) /\ P \in SUBSET Int
  BY DomainFinite
<1>1. n \in 1..Cardinality(P)
  BY DEF Picked
<1>2. PICK k \in P : Rank(P, k) = n
  BY <1>0, <1>1, RankReached
<1> QED  BY <1>2, PickedAt

LEMMA PickedIsSeq ==
  ASSUME NEW T, NEW s \in Seq(T), NEW P \in SUBSET DOMAIN s
  PROVE  /\ Picked(s, P) \in Seq(T)
         /\ Len(Picked(s, P)) = Cardinality(P)
         /\ Cardinality(P) \in Nat
         /\ Elements(Picked(s, P)) = {s[k] : k \in P}
<1>0. IsFiniteSet(P) /\ P \in SUBSET Int /\ Cardinality(P) \in Nat
  BY DomainFinite
<1>1. DOMAIN Picked(s, P) = 1..Cardinality(P)
  BY DEF Picked
<1>2. \A n \in 1..Cardinality(P) : Picked(s, P)[n] \in {s[k] : k \in P}
  <2> SUFFICES ASSUME NEW n \in DOMAIN Picked(s, P) PROVE \E k \in P : Picked(s, P)[n] = s[k]
    BY <1>1
  <2> QED  BY PickedFrom
<1>3. \A k \in P : s[k] \in T
  OBVIOUS
<1>4. Picked(s, P) \in [1..Cardinality(P) -> T]
  BY <1>2, <1>3 DEF Picked
<1>5. Picked(s, P) \in Seq(T) /\ Len(Picked(s, P)) = Cardinality(P)
  BY <1>0, <1>4
<1>6. \A k \in P : s[k] \in Elements(Picked(s, P))
  <2> SUFFICES ASSUME NEW k \in P PROVE \E n \in DOMAIN Picked(s, P) : Picked(s, P)[n] = s[k]
    BY DEF Elements
  <2> QED  BY PickedAt
<1> QED  BY <1>0, <1>1, <1>2, <1>5, <1>6 DEF Elements

LEMMA PickedAll ==
  ASSUME NEW T, NEW s \in Seq(T)
  PROVE  Picked(s, DOMAIN s) = s
<1> DEFINE D == DOMAIN s
<1>1. D = 1..Len(s) /\ Len(s) \in Nat /\ Cardinality(D) = Len(s)
  <2>1. 1 \in Int /\ Len(s) \in Int /\ Len(s) \in Nat /\ D = 1..Len(s)
    OBVIOUS
  <2>2. Cardinality(1..Len(s)) = IF 1 > Len(s) THEN 0 ELSE Len(s) - 1 + 1
    BY <2>1, FS_Interval
  <2> QED  BY <2>1, <2>2
<1>2. \A k \in D : Rank(D, k) = k
  <2> SUFFICES ASSUME NEW k \in D PROVE Rank(D, k) = k
    OBVIOUS
  <2>1. {l \in D : l <= k} = 1..k
    BY <1>1
  <2>2. Cardinality(1..k) = k
    <3>1. k \in Int /\ 1 \in Int /\ 1 <= k
      BY <1>1
    <3>2. Cardinality(1..k) = IF 1 > k THEN 0 ELSE k - 1 + 1
      BY <3>1, FS_Interval
    <3> QED  BY <3>1, <3>2
  <2> QED  BY <2>1, <2>2 DEF Rank
<1>3. \A n \in 1..Len(s) : Picked(s, D)[n] = s[n]
  <2> SUFFICES ASSUME NEW n \in D PROVE Picked(s, D)[n] = s[n]
    BY <1>1
  <2>1. Picked(s, D)[Rank(D, n)] = s[n]
    BY PickedAt
  <2> QED  BY <2>1, <1>2
<1>4. Picked(s, D) = [n \in 1..Len(s) |-> Picked(s, D)[n]]
  BY <1>1 DEF Picked
<1>5. s = [n \in 1..Len(s) |-> s[n]]
  OBVIOUS
<1> QED  BY <1>3, <1>4, <1>5

(* What belongs to a set, in the order it was in. *)
LEMMA WhereIsSeq ==
  ASSUME NEW T, NEW s \in Seq(T), NEW S
  PROVE  /\ Where(s, S) \in Seq(T)
         /\ Elements(Where(s, S)) = Elements(s) \cap S
         /\ Len(Where(s, S)) <= Len(s)
<1> DEFINE P == {k \in DOMAIN s : s[k] \in S}
<1>1. P \in SUBSET DOMAIN s
  OBVIOUS
<1>2. {s[k] : k \in P} = Elements(s) \cap S
  BY DEF Elements
<1> HIDE DEF P
<1>3. Picked(s, P) \in Seq(T) /\ Elements(Picked(s, P)) = {s[k] : k \in P} /\ Len(Picked(s, P)) = Cardinality(P)
  BY <1>1, PickedIsSeq
<1>4. Cardinality(P) <= Len(s)
  BY <1>1, DomainFinite
<1> QED  BY <1>2, <1>3, <1>4 DEF Where, P

LEMMA WhereAll ==
  ASSUME NEW T, NEW s \in Seq(T), NEW S, Elements(s) \subseteq S
  PROVE  Where(s, S) = s
<1>1. {k \in DOMAIN s : s[k] \in S} = DOMAIN s
  BY DEF Elements
<1> QED  BY <1>1, PickedAll DEF Where

LEMMA FirstOfIsSeq ==
  ASSUME NEW T, NEW s \in Seq(T), NEW n \in Nat
  PROVE  /\ FirstOf(s, n) \in Seq(T)
         /\ Len(FirstOf(s, n)) = IF Len(s) < n THEN Len(s) ELSE n
         /\ \A i \in DOMAIN FirstOf(s, n) : i \in DOMAIN s /\ FirstOf(s, n)[i] = s[i]
         /\ Elements(FirstOf(s, n)) \subseteq Elements(s)
         /\ Len(s) <= n => FirstOf(s, n) = s
BY DEF FirstOf, Elements

LEMMA RemoveAtIsSeq ==
  ASSUME NEW T, NEW s \in Seq(T), NEW i \in DOMAIN s
  PROVE  /\ RemoveAt(s, i) \in Seq(T)
         /\ Elements(RemoveAt(s, i)) = {s[k] : k \in DOMAIN s \ {i}}
<1> DEFINE a == SubSeq(s, 1, i - 1)
           b == SubSeq(s, i + 1, Len(s))
<1>0. /\ a \in Seq(T) /\ Len(a) = i - 1 /\ \A k \in 1..i - 1 : a[k] = s[k]
      /\ b \in Seq(T) /\ Len(b) = Len(s) - i /\ \A k \in 1..Len(s) - i : b[k] = s[k + i]
      /\ RemoveAt(s, i) = a \o b
  BY DEF RemoveAt
<1> HIDE DEF a, b
<1>1. RemoveAt(s, i) \in Seq(T) /\ Len(RemoveAt(s, i)) = Len(s) - 1
  BY <1>0
<1>2. \A k \in 1..Len(s) - 1 : RemoveAt(s, i)[k] = IF k < i THEN s[k] ELSE s[k + 1]
  BY <1>0
<1>3. \A k \in DOMAIN s \ {i} : \E l \in 1..Len(s) - 1 : RemoveAt(s, i)[l] = s[k]
  <2> SUFFICES ASSUME NEW k \in DOMAIN s \ {i} PROVE \E l \in 1..Len(s) - 1 : RemoveAt(s, i)[l] = s[k]
    OBVIOUS
  <2>1. CASE k < i
    BY <1>2, <2>1
  <2>2. CASE i < k
    <3>1. k - 1 \in 1..Len(s) - 1 /\ ~(k - 1 < i) /\ (k - 1) + 1 = k
      BY <2>2
    <3> QED  BY <1>2, <3>1
  <2> QED  BY <2>1, <2>2
<1>4. DOMAIN RemoveAt(s, i) = 1..Len(s) - 1
  BY <1>1
<1>5. \A k \in 1..Len(s) - 1 : \E l \in DOMAIN s \ {i} : RemoveAt(s, i)[k] = s[l]
  <2> SUFFICES ASSUME NEW k \in 1..Len(s) - 1 PROVE \E l \in DOMAIN s \ {i} : RemoveAt(s, i)[k] = s[l]
    OBVIOUS
  <2>1. k \in DOMAIN s /\ k + 1 \in DOMAIN s /\ k # k + 1 /\ (k < i => k # i) /\ (~(k < i) => k + 1 # i)
    OBVIOUS
  <2> QED  BY <1>2, <2>1
<1>6. Elements(RemoveAt(s, i)) = {RemoveAt(s, i)[k] : k \in 1..Len(s) - 1}
  BY <1>4 DEF Elements
<1> DEFINE r == RemoveAt(s, i)
           places == 1..Len(s) - 1
           left == DOMAIN s \ {i}
<1>7. /\ \A k \in places : \E l \in left : r[k] = s[l]
      /\ \A k \in left : \E l \in places : r[l] = s[k]
  BY <1>3, <1>5
<1>8. {r[k] : k \in places} = {s[k] : k \in left}
  <2> HIDE DEF r, places, left
  <2>1. \A x \in {r[k] : k \in places} : x \in {s[k] : k \in left}
    BY <1>7
  <2>2. \A x \in {s[k] : k \in left} : x \in {r[k] : k \in places}
    BY <1>7
  <2> QED  BY <2>1, <2>2
<1> QED  BY <1>1, <1>6, <1>8

----------------------------------------------------------------------------
(* A definition by recursion over the numbers up to n is met by a function. *)
MeetsRecursion(f, n, X, x0, step) ==
  f \in [0..n -> X] /\ f[0] = x0 /\ \A k \in 1..n : f[k] = step[k][f[k - 1]]

LEMMA RecursionIsMet ==
  ASSUME NEW n \in Nat, NEW X, NEW x0 \in X, NEW step \in [1..n -> [X -> X]]
  PROVE  \E f : MeetsRecursion(f, n, X, x0, step)
<1> DEFINE Meets(f, j) == MeetsRecursion(f, j, X, x0, step)
           Unmet == {j \in 0..n : ~\E f : Meets(f, j)}
<1>0. Unmet = {} => \E f : Meets(f, n)
  OBVIOUS
<1> SUFFICES ASSUME Unmet # {} PROVE FALSE
  <2> HIDE DEF Unmet
  <2> QED  BY <1>0
<1>1. PICK m \in Unmet : \A j \in Unmet : m <= j
  <2>1. Unmet \in SUBSET Nat
    OBVIOUS
  <2> HIDE DEF Unmet
  <2> QED  BY <2>1, LeastNumber
<1>2. m # 0
  <2>1. Meets([k \in 0..0 |-> x0], 0)
    BY DEF MeetsRecursion
  <2> QED  BY <2>1
<1>3. m \in 1..n /\ m - 1 \in 0..n /\ ~(m <= m - 1)
  BY <1>2
<1>4. PICK f : Meets(f, m - 1)
  BY <1>1, <1>3
<1> DEFINE g == [k \in 0..m |-> IF k = m THEN step[m][f[m - 1]] ELSE f[k]]
<1>5. f[m - 1] \in X /\ step[m] \in [X -> X]
  BY <1>3, <1>4 DEF MeetsRecursion
<1>6. g \in [0..m -> X]
  <2>1. \A k \in 0..m : k # m => k \in 0..m - 1
    BY <1>3
  <2> QED  BY <1>4, <1>5, <2>1 DEF MeetsRecursion
<1>7. g[0] = x0
  BY <1>3, <1>4 DEF MeetsRecursion
<1>8. ASSUME NEW k \in 1..m PROVE g[k] = step[k][g[k - 1]]
  <2>1. k \in 0..m /\ k - 1 \in 0..m /\ k - 1 # m /\ (k # m => k \in 1..m - 1)
    BY <1>3
  <2>2. g[k - 1] = f[k - 1]
    BY <2>1
  <2> QED  BY <1>4, <2>1, <2>2 DEF MeetsRecursion
<1>9. Meets(g, m)
  <2> HIDE DEF g
  <2> QED  BY <1>6, <1>7, <1>8 DEF MeetsRecursion
<1> QED  BY <1>9

----------------------------------------------------------------------------
(* Identifiers. *)

LEMMA AddedIsIdentifier ==
  ASSUME NEW id \in Identifier, NEW text \in Text, NEW n \in Int
  PROVE  AddedTo(id, text, n) \in Identifier
<1>1. id.tail \in Seq([text : Text, n : Int]) /\ [text |-> text, n |-> n] \in [text : Text, n : Int]
  BY DEF Identifier
<1>2. Append(id.tail, [text |-> text, n |-> n]) \in Seq([text : Text, n : Int])
  BY <1>1
<1>3. AddedTo(id, text, n) = [stem |-> id.stem, n |-> id.n, tail |-> Append(id.tail, [text |-> text, n |-> n])]
  BY DEF AddedTo, Identifier
<1> QED  BY <1>2, <1>3 DEF Identifier

LEMMA AddedHasTail ==
  ASSUME NEW id \in Identifier, NEW text \in Text, NEW n \in Int
  PROVE  AddedTo(id, text, n).tail # <<>>
<1>1. id.tail \in Seq([text : Text, n : Int]) /\ [text |-> text, n |-> n] \in [text : Text, n : Int]
  BY DEF Identifier
<1>2. AddedTo(id, text, n).tail = Append(id.tail, [text |-> text, n |-> n])
  BY DEF AddedTo, Identifier
<1>3. Len(Append(id.tail, [text |-> text, n |-> n])) = Len(id.tail) + 1 /\ Len(id.tail) \in Nat
  BY <1>1
<1> QED  BY <1>2, <1>3

LEMMA AddedTellsApart ==
  ASSUME NEW id \in Identifier, NEW text \in Text, NEW n \in Int, NEW k \in Int,
         AddedTo(id, text, n) = AddedTo(id, text, k)
  PROVE  n = k
<1> DEFINE a == [text |-> text, n |-> n]
           b == [text |-> text, n |-> k]
           Tail1 == [text : Text, n : Int]
<1>1. id.tail \in Seq(Tail1) /\ a \in Tail1 /\ b \in Tail1
  BY DEF Identifier
<1>2. AddedTo(id, text, n).tail = Append(id.tail, a) /\ AddedTo(id, text, k).tail = Append(id.tail, b)
  BY DEF AddedTo, Identifier
<1> HIDE DEF a, b, Tail1
<1>3. Append(id.tail, a)[Len(id.tail) + 1] = a /\ Append(id.tail, b)[Len(id.tail) + 1] = b
  BY <1>1
<1>4. a = b
  BY <1>2, <1>3
<1> QED  BY <1>4 DEF a, b

(* There always is a name that is not in use, and it is found: among so many
   numbers one makes the name another. *)
LEMMA FirstUnusedIsFree ==
  ASSUME NEW id \in Identifier, NEW text \in Text, NEW used, IsFiniteSet(used)
  PROVE  /\ firstUnused(id, text, used) \in Identifier
         /\ firstUnused(id, text, used) \notin used
         /\ id \notin used => firstUnused(id, text, used) = id
         /\ firstUnused(id, text, used) = id \/ firstUnused(id, text, used).tail # <<>>
<1> DEFINE c == Cardinality(used)
           N == 2..c + 2
           free == {k \in N : AddedTo(id, text, k) \notin used}
<1>1. c \in Nat /\ N \in SUBSET Nat
  <2>1. c \in Nat
    BY FS_CardinalityType
  <2> QED  BY <2>1
<1>2. free # {}
  <2> SUFFICES ASSUME free = {} PROVE FALSE
    OBVIOUS
  <2> DEFINE f == [k \in N |-> AddedTo(id, text, k)]
  <2>1. f \in [N -> used]
    OBVIOUS
  <2>2. IsFiniteSet(N) /\ Cardinality(N) = c + 1
    <3>1. 2 \in Int /\ c + 2 \in Int /\ ~(2 > c + 2)
      BY <1>1
    <3>2. IsFiniteSet(N) /\ Cardinality(N) = IF 2 > c + 2 THEN 0 ELSE (c + 2) - 2 + 1
      BY <3>1, FS_Interval
    <3> QED  BY <1>1, <3>1, <3>2
  <2>3. c < Cardinality(N)
    BY <1>1, <2>2
  <2>4. \A x, y \in N : f[x] = f[y] => x = y
    <3> SUFFICES ASSUME NEW x \in N, NEW y \in N, f[x] = f[y] PROVE x = y
      OBVIOUS
    <3>1. x \in Int /\ y \in Int /\ AddedTo(id, text, x) = AddedTo(id, text, y)
      BY <1>1
    <3> QED  BY <3>1, AddedTellsApart
  <2>5. \E x, y \in N : x # y /\ f[x] = f[y]
    <3> HIDE DEF f, N
    <3> QED  BY <2>1, <2>2, <2>3, FS_PigeonHole
  <2> QED  BY <2>4, <2>5
<1>3. free \in SUBSET Nat
  BY <1>1
<1> DEFINE first == CHOOSE k \in free : \A l \in free : k <= l
<1>4. first \in free
  <2>1. \E k \in free : \A l \in free : k <= l
    <3> HIDE DEF free
    <3> QED  BY <1>2, <1>3, LeastNumber
  <2> HIDE DEF free
  <2> QED  BY <2>1
<1>5. /\ AddedTo(id, text, first) \notin used /\ AddedTo(id, text, first) \in Identifier
      /\ AddedTo(id, text, first).tail # <<>>
  <2>1. first \in Int /\ AddedTo(id, text, first) \notin used
    <3>1. \A k \in free : AddedTo(id, text, k) \notin used /\ k \in Int
      <4>1. \A k \in free : k \in N /\ AddedTo(id, text, k) \notin used
        OBVIOUS
      <4>2. \A k \in N : k \in Int
        BY <1>1
      <4> HIDE DEF N, c, free
      <4> QED  BY <4>1, <4>2
    <3> HIDE DEF first, free
    <3> QED  BY <1>4, <3>1, Zenon
  <2> HIDE DEF first
  <2> QED  BY <2>1, AddedIsIdentifier, AddedHasTail
<1>6. firstUnused(id, text, used) = IF id \notin used THEN id ELSE AddedTo(id, text, first)
  BY DEF firstUnused
<1> QED  BY <1>5, <1>6

(* The highest of finitely many numbers. *)
LEMMA HighestIsOne ==
  ASSUME NEW S \in SUBSET Int, IsFiniteSet(S), S # {}
  PROVE  Highest(S) \in S /\ \A k \in S : k <= Highest(S)
<1>0. Cardinality(S) \in 1..Cardinality(S)
  <2>1. Cardinality(S) \in Nat /\ Cardinality(S) # 0
    BY FS_CardinalityType, FS_EmptySet
  <2> QED  BY <2>1
<1>1. PICK m \in S : Rank(S, m) = Cardinality(S)
  BY <1>0, RankReached
<1>2. \A k \in S : k <= m
  <2> SUFFICES ASSUME NEW k \in S, ~(k <= m) PROVE FALSE
    OBVIOUS
  <2>1. m \in Int /\ k \in Int /\ m < k
    OBVIOUS
  <2>2. Rank(S, m) < Rank(S, k) /\ Rank(S, k) \in 1..Cardinality(S)
    BY <2>1, RankRises, RankInRange
  <2>3. Cardinality(S) \in Nat
    BY FS_CardinalityType
  <2> QED  BY <1>1, <2>2, <2>3
<1>3. \E n \in S : \A k \in S : k <= n
  BY <1>2
<1> QED  BY <1>3 DEF Highest

(* Things of a kind that has names. *)
Named(T) ==
  \A x \in T :
    /\ x.id \in Identifier
    /\ \A id \in Identifier : [x EXCEPT !.id = id] \in T /\ [x EXCEPT !.id = id].id = id
    /\ \A id \in Identifier : \A other : [[x EXCEPT !.id = id] EXCEPT !.id = other] = [x EXCEPT !.id = other]
    /\ [x EXCEPT !.id = x.id] = x

Apart(s) == \A i, k \in DOMAIN s : s[i].id = s[k].id => i = k

LEMMA IdsAreFinite ==
  ASSUME NEW T, NEW s \in Seq(T)
  PROVE  IsFiniteSet(Ids(s)) /\ (Distinct(s) <=> Apart(s))
<1> DEFINE f == [i \in DOMAIN s |-> s[i].id]
<1>1. f \in Surjection(DOMAIN s, Ids(s))
  BY DEF Surjection, Ids
<1>2. IsFiniteSet(DOMAIN s) /\ Cardinality(DOMAIN s) = Len(s)
  <2>1. DOMAIN s = 1..Len(s) /\ 1 \in Int /\ Len(s) \in Int /\ Len(s) \in Nat
    OBVIOUS
  <2>2. IsFiniteSet(1..Len(s)) /\ Cardinality(1..Len(s)) = IF 1 > Len(s) THEN 0 ELSE Len(s) - 1 + 1
    BY <2>1, FS_Interval
  <2> QED  BY <2>1, <2>2
<1>3. Apart(s) <=> f \in Injection(DOMAIN s, Ids(s))
  BY <1>1 DEF Apart, Injection, IsInjective, Surjection
<1> HIDE DEF f
<1>4. IsFiniteSet(Ids(s)) /\ (Cardinality(Ids(s)) = Cardinality(DOMAIN s) <=> f \in Injection(DOMAIN s, Ids(s)))
  BY <1>1, <1>2, FS_Surjection
<1> QED  BY <1>2, <1>3, <1>4 DEF Distinct

LEMMA IdsAreIdentifiers ==
  ASSUME NEW T, Named(T), NEW s \in Seq(T)
  PROVE  Ids(s) \subseteq Identifier
<1>1. \A x \in T : x.id \in Identifier
  BY DEF Named
<1> QED  BY <1>1 DEF Ids

LEMMA DraftIsIdentifier ==
  ASSUME NEW stem \in Text, NEW n \in Int
  PROVE  Draft(stem, n) \in Identifier
BY DEF Draft, Identifier

LEMMA NextDraftIsFree ==
  ASSUME NEW stem \in Text, NEW used \in SUBSET Identifier, IsFiniteSet(used)
  PROVE  nextFrameDraftId(stem, used) \in Identifier /\ nextFrameDraftId(stem, used) \notin used
<1> DEFINE drafts == {u \in used : u.stem = stem /\ u.tail = <<>>}
           numbers == {id.n : id \in drafts}
           all == {0} \cup numbers
<1>1. IsFiniteSet(drafts)
  <2>1. drafts \in SUBSET used
    OBVIOUS
  <2> HIDE DEF drafts
  <2> QED  BY <2>1, FS_Subset
<1>2. IsFiniteSet(numbers)
  <2> DEFINE f == [id \in drafts |-> id.n]
  <2>1. f \in Surjection(drafts, numbers)
    BY DEF Surjection
  <2> HIDE DEF f, drafts, numbers
  <2> QED  BY <1>1, <2>1, FS_Surjection
<1>3. IsFiniteSet(all)
  <2>1. all = numbers \cup {0}
    OBVIOUS
  <2> HIDE DEF numbers, all
  <2> QED  BY <1>2, <2>1, FS_AddElement
<1>4. all \in SUBSET Int /\ all # {}
  BY DEF Identifier
<1>5. Highest(all) \in Int /\ \A k \in all : k <= Highest(all)
  <2> HIDE DEF all
  <2> QED  BY <1>3, <1>4, HighestIsOne
<1> DEFINE new == Draft(stem, Highest(all) + 1)
<1>6. new \in Identifier
  <2> DEFINE h == Highest(all) + 1
  <2>1. h \in Int
    <3> HIDE DEF all
    <3> QED  BY <1>5
  <2>2. new = Draft(stem, h)
    OBVIOUS
  <2> HIDE DEF h, new
  <2> QED  BY <2>1, <2>2, DraftIsIdentifier
<1>7. new \notin used
  <2> SUFFICES ASSUME new \in used PROVE FALSE
    OBVIOUS
  <2>1. new \in drafts /\ new.n = Highest(all) + 1
    <3> HIDE DEF all
    <3> QED  BY DEF Draft
  <2>2. Highest(all) + 1 \in all
    <3>1. new.n \in numbers
      <4> HIDE DEF new
      <4> QED  BY <2>1
    <3> QED  BY <2>1, <3>1
  <2> HIDE DEF all
  <2> QED  BY <1>5, <2>2
<1>8. nextFrameDraftId(stem, used) = new
  BY DEF nextFrameDraftId
<1> QED  BY <1>6, <1>7, <1>8

(* What is named so far: it is apart, and nothing but names changed. *)
NamedSoFar(b, s, k, T) ==
  /\ b \in Seq(T) /\ Len(b) = k
  /\ Apart(b)
  /\ \A i \in 1..k : b[i] = [s[i] EXCEPT !.id = b[i].id]
  /\ \A i \in 1..k : b[i].id = s[i].id \/ b[i].id.tail # <<>>
  /\ Apart(s) => \A i \in 1..k : b[i] = s[i]

LEMMA OneMoreName ==
  ASSUME NEW T, Named(T), NEW s \in Seq(T), NEW k \in 1..Len(s), NEW b, NamedSoFar(b, s, k - 1, T)
  PROVE  LET x == [s[k] EXCEPT !.id = normalizeTextId(s[k].id, Ids(b))]
         IN x \in T /\ NamedSoFar(Append(b, x), s, k, T)
<1> DEFINE id == normalizeTextId(s[k].id, Ids(b))
           x == [s[k] EXCEPT !.id = id]
           a == Append(b, x)
<1>1. s[k] \in T /\ s[k].id \in Identifier /\ k \in Nat /\ k - 1 \in Nat
  <2>1. \A y \in T : y.id \in Identifier
    BY DEF Named
  <2> QED  BY <2>1
<1>2. b \in Seq(T) /\ Len(b) = k - 1 /\ IsFiniteSet(Ids(b))
  <2>1. b \in Seq(T) /\ Len(b) = k - 1
    BY DEF NamedSoFar
  <2> QED  BY <2>1, IdsAreFinite
<1>3. id \in Identifier /\ id \notin Ids(b) /\ (s[k].id \notin Ids(b) => id = s[k].id)
      /\ (id = s[k].id \/ id.tail # <<>>)
  <2>1. "-" \in Text
    BY DEF Text
  <2> QED  BY <1>1, <1>2, <2>1, FirstUnusedIsFree DEF normalizeTextId
<1>4. x \in T /\ x.id = id /\ (id = s[k].id => x = s[k])
  <2> HIDE DEF id
  <2> QED  BY <1>1, <1>3, Zenon DEF Named
<1> HIDE DEF x, id
<1>5. a \in Seq(T) /\ Len(a) = k /\ a[k] = x /\ \A i \in 1..k - 1 : a[i] = b[i]
  BY <1>1, <1>2, <1>4
<1>6. \A i \in DOMAIN b : i \in 1..k - 1 /\ b[i].id \in Ids(b) /\ b[i].id # id
  BY <1>2, <1>3 DEF Ids
<1>7. Apart(a)
  <2> SUFFICES ASSUME NEW i \in DOMAIN a, NEW j \in DOMAIN a, a[i].id = a[j].id PROVE i = j
    BY DEF Apart
  <2>1. i \in 1..k /\ j \in 1..k /\ DOMAIN b = 1..k - 1
    BY <1>2, <1>5
  <2>2. CASE i \in 1..k - 1 /\ j \in 1..k - 1
    BY <1>5, <2>1, <2>2 DEF Apart, NamedSoFar
  <2>3. CASE i = k /\ j \in 1..k - 1
    BY <1>4, <1>5, <1>6, <2>1, <2>3
  <2>4. CASE j = k /\ i \in 1..k - 1
    BY <1>4, <1>5, <1>6, <2>1, <2>4
  <2> QED  BY <1>1, <2>1, <2>2, <2>3, <2>4
<1>8. \A i \in 1..k : a[i] = [s[i] EXCEPT !.id = a[i].id]
  <2> SUFFICES ASSUME NEW i \in 1..k PROVE a[i] = [s[i] EXCEPT !.id = a[i].id]
    OBVIOUS
  <2>1. CASE i = k
    BY <1>4, <1>5, <2>1, Zenon DEF x
  <2>2. CASE i \in 1..k - 1
    <3>1. a[i] = b[i] /\ b[i] = [s[i] EXCEPT !.id = b[i].id]
      BY <1>5, <2>2 DEF NamedSoFar
    <3> QED  BY <3>1, Zenon
  <2>3. i = k \/ i \in 1..k - 1
    BY <1>1
  <2> QED  BY <2>1, <2>2, <2>3
<1>9. ASSUME Apart(s) PROVE \A i \in 1..k : a[i] = s[i]
  <2>1. \A i \in 1..k - 1 : b[i] = s[i]
    BY <1>9 DEF NamedSoFar
  <2>2. s[k].id \notin Ids(b)
    <3> SUFFICES ASSUME NEW i \in DOMAIN b, b[i].id = s[k].id PROVE FALSE
      BY DEF Ids
    <3>1. i \in 1..k - 1 /\ i \in DOMAIN s /\ k \in DOMAIN s /\ i # k /\ s[i].id = s[k].id
      BY <1>2, <1>6, <2>1
    <3> QED  BY <1>9, <3>1 DEF Apart
  <2>3. x = s[k]
    BY <1>3, <1>4, <2>2
  <2> QED  BY <1>1, <1>5, <2>1, <2>3
<1>11. \A i \in 1..k : a[i].id = s[i].id \/ a[i].id.tail # <<>>
  <2> SUFFICES ASSUME NEW i \in 1..k PROVE a[i].id = s[i].id \/ a[i].id.tail # <<>>
    OBVIOUS
  <2>1. CASE i = k
    BY <1>3, <1>4, <1>5, <2>1
  <2>2. CASE i \in 1..k - 1
    BY <1>5, <2>2 DEF NamedSoFar
  <2>3. i = k \/ i \in 1..k - 1
    BY <1>1
  <2> QED  BY <2>1, <2>2, <2>3
<1>10. NamedSoFar(a, s, k, T)
  BY <1>5, <1>7, <1>8, <1>9, <1>11 DEF NamedSoFar
<1> QED  BY <1>4, <1>10 DEF x, id

(* What DistinctNames gives: as many things, with names that differ, and with
   nothing but names changed; none of these if they differed already. *)
LEMMA DistinctNamesAre ==
  ASSUME NEW T, Named(T), NEW s \in Seq(T)
  PROVE  /\ NamedSoFar(DistinctNames(s), s, Len(s), T)
         /\ DistinctNames(s) \in Seq(T) /\ Len(DistinctNames(s)) = Len(s) /\ Apart(DistinctNames(s))
         /\ Apart(s) => DistinctNames(s) = s
<1> DEFINE n == Len(s)
           next(k, b) == Append(b, [s[k] EXCEPT !.id = normalizeTextId(s[k].id, Ids(b))])
           So == {b \in Seq(T) : TRUE}
           step == [k \in 1..n |-> [b \in Seq(T) |->
                     IF NamedSoFar(b, s, k - 1, T) THEN next(k, b) ELSE <<>>]]
           Recurs(g) == g = [k \in 0..n |-> IF k = 0 THEN <<>> ELSE next(k, g[k - 1])]
<1>0. n \in Nat /\ <<>> \in Seq(T)
  OBVIOUS
<1>1. \A k \in 1..n : \A b \in Seq(T) : NamedSoFar(b, s, k - 1, T) => next(k, b) \in Seq(T) /\ NamedSoFar(next(k, b), s, k, T)
  <2> SUFFICES ASSUME NEW k \in 1..n, NEW b \in Seq(T), NamedSoFar(b, s, k - 1, T)
               PROVE  next(k, b) \in Seq(T) /\ NamedSoFar(next(k, b), s, k, T)
    OBVIOUS
  <2>1. NamedSoFar(next(k, b), s, k, T)
    BY OneMoreName
  <2> HIDE DEF next
  <2> QED  BY <2>1 DEF NamedSoFar
<1>2. step \in [1..n -> [Seq(T) -> Seq(T)]]
  <2> HIDE DEF next
  <2> QED  BY <1>1
<1>3. PICK f \in [0..n -> Seq(T)] : f[0] = <<>> /\ \A k \in 1..n : f[k] = step[k][f[k - 1]]
  <2> DEFINE X == Seq(T)
             empty == <<>>
  <2>1. empty \in X /\ step \in [1..n -> [X -> X]]
    BY <1>0, <1>2
  <2> HIDE DEF step, X, n, empty
  <2>2. PICK f : MeetsRecursion(f, n, X, empty, step)
    BY <1>0, <2>1, RecursionIsMet
  <2>3. f \in [0..n -> X] /\ f[0] = <<>> /\ \A k \in 1..n : f[k] = step[k][f[k - 1]]
    BY <2>2 DEF MeetsRecursion, empty
  <2> QED  BY <2>3 DEF X
<1>4. \A k \in 0..n : NamedSoFar(f[k], s, k, T)
  <2> DEFINE Fails == {k \in 0..n : ~NamedSoFar(f[k], s, k, T)}
  <2> SUFFICES ASSUME Fails # {} PROVE FALSE
    OBVIOUS
  <2>1. PICK m \in Fails : \A j \in Fails : m <= j
    <3>1. Fails \in SUBSET Nat
      BY <1>0
    <3> HIDE DEF Fails
    <3> QED  BY <3>1, LeastNumber
  <2>2. NamedSoFar(f[0], s, 0, T)
    BY <1>0, <1>3 DEF NamedSoFar, Apart
  <2>3. m \in 1..n /\ m - 1 \in 0..n /\ m - 1 \notin Fails
    BY <2>1, <2>2
  <2>4. NamedSoFar(f[m - 1], s, m - 1, T) /\ f[m - 1] \in Seq(T)
    BY <1>3, <2>3
  <2>5. f[m] = next(m, f[m - 1])
    BY <1>3, <2>3, <2>4
  <2>6. NamedSoFar(f[m], s, m, T)
    <3> HIDE DEF next
    <3> QED  BY <1>1, <2>3, <2>4, <2>5
  <2> QED  BY <2>1, <2>6
<1>5. Recurs(f)
  <2>1. \A k \in 0..n : f[k] = IF k = 0 THEN <<>> ELSE next(k, f[k - 1])
    <3> SUFFICES ASSUME NEW k \in 1..n PROVE f[k] = next(k, f[k - 1])
      BY <1>3
    <3>1. k - 1 \in 0..n
      BY <1>0
    <3>2. f[k - 1] \in Seq(T) /\ NamedSoFar(f[k - 1], s, k - 1, T)
      BY <1>3, <1>4, <3>1
    <3> QED  BY <1>3, <3>2
  <2> HIDE DEF next
  <2> QED  BY <1>3, <2>1
<1>6. ASSUME NEW g, Recurs(g) PROVE \A k \in 0..n : g[k] = f[k]
  <2> DEFINE Fails == {k \in 0..n : g[k] # f[k]}
  <2> SUFFICES ASSUME Fails # {} PROVE FALSE
    OBVIOUS
  <2>1. PICK m \in Fails : \A j \in Fails : m <= j
    <3>1. Fails \in SUBSET Nat
      BY <1>0
    <3> HIDE DEF Fails
    <3> QED  BY <3>1, LeastNumber
  <2>2. \A k \in 0..n : g[k] = IF k = 0 THEN <<>> ELSE next(k, g[k - 1])
    <3> HIDE DEF next
    <3> QED  BY <1>6
  <2>3. \A k \in 0..n : f[k] = IF k = 0 THEN <<>> ELSE next(k, f[k - 1])
    <3> HIDE DEF next
    <3> QED  BY <1>5
  <2>4. m \in 0..n /\ m # 0
    BY <1>0, <2>2, <2>3
  <2>5. m - 1 \in 0..n /\ m - 1 \notin Fails
    BY <2>1, <2>4
  <2>6. g[m - 1] = f[m - 1]
    BY <2>5
  <2>7. g[m] = f[m]
    <3> HIDE DEF next
    <3> QED  BY <2>2, <2>3, <2>4, <2>6
  <2> QED  BY <2>1, <2>7
<1> DEFINE named == CHOOSE g : Recurs(g)
<1>7. Recurs(named)
  <2> HIDE DEF Recurs
  <2> QED  BY <1>5
<1>8. DistinctNames(s) = named[n]
  BY DEF DistinctNames
<1>9. named[n] = f[n]
  <2> HIDE DEF named, Recurs
  <2> QED  BY <1>0, <1>6, <1>7
<1>10. NamedSoFar(DistinctNames(s), s, n, T)
  <2> HIDE DEF named
  <2> QED  BY <1>0, <1>4, <1>8, <1>9
<1>11. Apart(s) => DistinctNames(s) = s
  BY <1>0, <1>10 DEF NamedSoFar
<1> QED  BY <1>10, <1>11 DEF NamedSoFar

(* A function on the positions of a sequence is one, too. *)
LEMMA MapIsSeq ==
  ASSUME NEW S, NEW T, NEW s \in Seq(S), NEW f, f = [k \in DOMAIN s |-> f[k]], \A k \in DOMAIN s : f[k] \in T
  PROVE  f \in Seq(T) /\ Len(f) = Len(s) /\ DOMAIN f = DOMAIN s
<1>1. DOMAIN s = 1..Len(s) /\ Len(s) \in Nat
  OBVIOUS
<1>2. f \in [1..Len(s) -> T]
  BY <1>1, Zenon
<1> QED  BY <1>1, <1>2

LEMMA SameSeqs ==
  ASSUME NEW T, NEW s \in Seq(T), NEW r \in Seq(T), Len(r) = Len(s), \A k \in DOMAIN s : r[k] = s[k]
  PROVE  r = s
OBVIOUS

----------------------------------------------------------------------------
(* What a model is made of. *)

Combination == [id : Identifier, factors : UNION {[S -> Int] : S \in SUBSET Identifier}]
Plane(Node, types) ==
  [nodes : Seq(Node), members : Seq(Member), loads : Seq(LoadOf(types)), cases : Seq(CaseOf(types)),
   combinations : Seq(Combination)]

LEMMA CombinationIs ==
  ASSUME NEW c
  PROVE  c \in Combination <=> /\ c = [id |-> c.id, factors |-> c.factors]
                               /\ c.id \in Identifier
                               /\ DOMAIN c.factors \subseteq Identifier
                               /\ c.factors \in [DOMAIN c.factors -> Int]
<1>1. ASSUME c \in Combination
      PROVE  /\ c = [id |-> c.id, factors |-> c.factors]
             /\ c.id \in Identifier
             /\ DOMAIN c.factors \subseteq Identifier
             /\ c.factors \in [DOMAIN c.factors -> Int]
  <2>1. PICK S \in SUBSET Identifier : c.factors \in [S -> Int]
    BY <1>1 DEF Combination
  <2> QED  BY <1>1, <2>1 DEF Combination
<1>2. ASSUME /\ c = [id |-> c.id, factors |-> c.factors]
             /\ c.id \in Identifier
             /\ DOMAIN c.factors \subseteq Identifier
             /\ c.factors \in [DOMAIN c.factors -> Int]
      PROVE  c \in Combination
  <2>1. c.factors \in UNION {[S -> Int] : S \in SUBSET Identifier}
    BY <1>2
  <2> QED  BY <1>2, <2>1 DEF Combination
<1> QED  BY <1>1, <1>2

(* The functions a combination is said to have are its own. *)
LEMMA GivenCombinations ==
  ASSUME NEW s
  PROVE  /\ s \in Seq([id : Identifier, factors : {c.factors : c \in Elements(s)}])
         /\ \A c \in Elements(s) : DOMAIN c.factors \subseteq Identifier /\ c.factors \in [DOMAIN c.factors -> Int]
         <=> s \in Seq(Combination)
<1> DEFINE Given == [id : Identifier, factors : {c.factors : c \in Elements(s)}]
           Factors == \A c \in Elements(s) : DOMAIN c.factors \subseteq Identifier /\ c.factors \in [DOMAIN c.factors -> Int]
<1>1. ASSUME s \in Seq(Given), Factors PROVE s \in Seq(Combination)
  <2>0. DOMAIN s = 1..Len(s) /\ \A i \in 1..Len(s) : s[i] \in Given
    <3> HIDE DEF Given
    <3> QED  BY <1>1
  <2>1. \A i \in 1..Len(s) : s[i] \in Given /\ s[i] \in Elements(s)
    <3> HIDE DEF Given
    <3> QED  BY <2>0 DEF Elements
  <2>2. \A i \in 1..Len(s) : s[i] \in Combination
    <3> SUFFICES ASSUME NEW i \in 1..Len(s) PROVE s[i] \in Combination
      OBVIOUS
    <3>1. s[i] = [id |-> s[i].id, factors |-> s[i].factors] /\ s[i].id \in Identifier
      BY <2>1
    <3>2. DOMAIN s[i].factors \subseteq Identifier /\ s[i].factors \in [DOMAIN s[i].factors -> Int]
      BY <1>1, <2>1
    <3> QED  BY <3>1, <3>2, CombinationIs
  <2> HIDE DEF Given
  <2> QED  BY <1>1, <2>2
<1>2. ASSUME s \in Seq(Combination) PROVE s \in Seq(Given) /\ Factors
  <2>1. \A i \in DOMAIN s : s[i] \in Combination
    BY <1>2
  <2>2. \A c \in Elements(s) : c \in Combination
    BY <2>1 DEF Elements
  <2>3. Factors
        <3> QED  BY <2>2, CombinationIs
  <2>4. \A i \in DOMAIN s : s[i] \in Given
    <3> SUFFICES ASSUME NEW i \in DOMAIN s PROVE s[i] \in Given
      OBVIOUS
    <3>1. s[i].factors \in {c.factors : c \in Elements(s)}
      BY DEF Elements
    <3>2. s[i] = [id |-> s[i].id, factors |-> s[i].factors] /\ s[i].id \in Identifier
      BY <2>1, CombinationIs
    <3> QED  BY <3>1, <3>2
  <2>5. s \in Seq(Given)
    <3> HIDE DEF Given
    <3> QED  BY <1>2, <2>4
  <2> QED  BY <2>3, <2>5
<1> QED  BY <1>1, <1>2

LEMMA ModelIsPlane ==
  ASSUME NEW m, NEW Node, NEW types
  PROVE  IsModel(m, Node, types) <=> m \in Plane(Node, types)
<1> DEFINE s == m.combinations
           Given == [id : Identifier, factors : {c.factors : c \in Elements(s)}]
           Rest(C) == [nodes : Seq(Node), members : Seq(Member), loads : Seq(LoadOf(types)), cases : Seq(CaseOf(types)),
                       combinations : C]
           Factors == \A c \in Elements(s) : DOMAIN c.factors \subseteq Identifier /\ c.factors \in [DOMAIN c.factors -> Int]
<1>1. (s \in Seq(Given) /\ Factors) <=> s \in Seq(Combination)
  <2> HIDE DEF s
  <2> QED  BY GivenCombinations
<1>2. m \in Rest(Seq(Given)) <=> m \in Rest({s}) /\ s \in Seq(Given)
  <2> HIDE DEF Given
  <2> QED  BY Zenon
<1>3. m \in Rest(Seq(Combination)) <=> m \in Rest({s}) /\ s \in Seq(Combination)
  BY Zenon
<1>4. IsModel(m, Node, types) <=> m \in Rest(Seq(Given)) /\ Factors
  BY DEF IsModel
<1>5. m \in Plane(Node, types) <=> m \in Rest(Seq(Combination))
  BY DEF Plane
<1> HIDE DEF Rest, Given, s, Factors
<1> QED  BY <1>1, <1>2, <1>3, <1>4, <1>5

LEMMA FrameNodesAreNamed == Named(FrameNode)
BY DEF Named, FrameNode
LEMMA TrussNodesAreNamed == Named(TrussNode)
BY DEF Named, TrussNode
LEMMA MembersAreNamed == Named(Member)
BY DEF Named, Member
LEMMA CasesAreNamed == ASSUME NEW types PROVE Named(CaseOf(types))
BY DEF Named, CaseOf
LEMMA CombinationsAreNamed == Named(Combination)
BY DEF Named, Combination

----------------------------------------------------------------------------
LEMMA PickIsThere ==
  ASSUME NEW T, Named(T), NEW s \in Seq(T), NEW id \in Identifier, NEW fallback
  PROVE  /\ pickExistingId(id, s, fallback) \in Identifier
         /\ s # <<>> => pickExistingId(id, s, fallback) \in Ids(s)
         /\ s = <<>> \/ id \in Ids(s) => pickExistingId(id, s, fallback) = id
<1>1. Ids(s) \subseteq Identifier
  BY IdsAreIdentifiers
<1>2. s # <<>> => s[1].id \in Ids(s)
  BY DEF Ids
<1>3. s = <<>> => Ids(s) = {}
  BY DEF Ids
<1>4. CASE id \in Ids(s) \/ s = <<>>
  BY <1>3, <1>4 DEF pickExistingId
<1>5. CASE id \notin Ids(s) /\ s # <<>> /\ fallback \in Ids(s)
  BY <1>1, <1>5 DEF pickExistingId
<1>6. CASE id \notin Ids(s) /\ s # <<>> /\ fallback \notin Ids(s)
  BY <1>1, <1>2, <1>6 DEF pickExistingId
<1> QED  BY <1>4, <1>5, <1>6

(* A combination of load cases that are there. *)
CombinationsFit(combinations, cases) ==
  /\ Len(combinations) <= MaxCases
  /\ Apart(combinations)
  /\ cases = <<>> => combinations = <<>>
  /\ \A k \in DOMAIN combinations : DOMAIN combinations[k].factors \subseteq Ids(cases)

LEMMA CombinationsBecomeFit ==
  ASSUME NEW s \in Seq(Combination), NEW T, NEW cases \in Seq(T)
  PROVE  /\ normalizeWorkspaceCombinations(s, cases) \in Seq(Combination)
         /\ CombinationsFit(normalizeWorkspaceCombinations(s, cases), cases)
         /\ CombinationsFit(s, cases) => normalizeWorkspaceCombinations(s, cases) = s
<1> DEFINE first == FirstOf(s, MaxCases)
           named == DistinctNames(first)
           kept(c) == [c EXCEPT !.factors = [id \in DOMAIN @ \cap Ids(cases) |-> @[id]]]
           r == [k \in DOMAIN named |-> kept(named[k])]
<1>0. MaxCases \in Nat
  BY CutsAssumption
<1>1. first \in Seq(Combination) /\ Len(first) <= MaxCases /\ (Len(s) <= MaxCases => first = s)
  BY <1>0, FirstOfIsSeq
<1>2. named \in Seq(Combination) /\ Len(named) = Len(first) /\ Apart(named) /\ (Apart(first) => named = first)
  <2> HIDE DEF first
  <2> QED  BY <1>1, DistinctNamesAre, CombinationsAreNamed
<1> HIDE DEF named, first
<1>3. ASSUME NEW c \in Combination
      PROVE  /\ kept(c) \in Combination /\ kept(c).id = c.id
             /\ DOMAIN kept(c).factors \subseteq Ids(cases)
             /\ DOMAIN c.factors \subseteq Ids(cases) => kept(c) = c
  <2>1. c = [id |-> c.id, factors |-> c.factors] /\ c.id \in Identifier
        /\ DOMAIN c.factors \subseteq Identifier /\ c.factors \in [DOMAIN c.factors -> Int]
    BY CombinationIs
  <2> DEFINE f == [id \in DOMAIN c.factors \cap Ids(cases) |-> c.factors[id]]
  <2>2. DOMAIN f \subseteq Identifier /\ f \in [DOMAIN f -> Int] /\ DOMAIN f \subseteq Ids(cases)
    BY <2>1
  <2>3. DOMAIN c.factors \subseteq Ids(cases) => f = c.factors
    <3> SUFFICES ASSUME DOMAIN c.factors \subseteq Ids(cases) PROVE f = c.factors
      OBVIOUS
    <3>1. DOMAIN c.factors \cap Ids(cases) = DOMAIN c.factors
      OBVIOUS
    <3> QED  BY <2>1, <3>1
  <2>4. kept(c) = [id |-> c.id, factors |-> f]
    BY <2>1
  <2> HIDE DEF f
  <2>5. kept(c).id = c.id /\ kept(c).factors = f /\ kept(c) = [id |-> kept(c).id, factors |-> kept(c).factors]
    BY <2>4
  <2> HIDE DEF kept
  <2>6. kept(c) \in Combination
    BY <2>1, <2>2, <2>5, CombinationIs
  <2> QED  BY <2>1, <2>2, <2>3, <2>4, <2>5, <2>6
<1>4. r \in Seq(Combination) /\ Len(r) = Len(named) /\ DOMAIN r = DOMAIN named /\ \A k \in DOMAIN named : r[k] = kept(named[k])
  <2>1. r = [k \in DOMAIN named |-> r[k]] /\ \A k \in DOMAIN named : r[k] = kept(named[k])
    OBVIOUS
  <2>2. \A k \in DOMAIN named : kept(named[k]) \in Combination
    <3> HIDE DEF kept
    <3> QED  BY <1>2, <1>3
  <2> HIDE DEF r, kept
  <2> QED  BY <1>2, <2>1, <2>2, MapIsSeq
<1>5. normalizeWorkspaceCombinations(s, cases) = IF cases = <<>> THEN <<>> ELSE r
  BY DEF normalizeWorkspaceCombinations, named, first
<1>6. CombinationsFit(r, cases) \/ cases = <<>>
  <2>1. Len(r) <= MaxCases
    BY <1>1, <1>2, <1>4
  <2>2. \A k \in DOMAIN named : named[k] \in Combination
    BY <1>2
  <2> HIDE DEF r, kept
  <2>3. Apart(r)
    BY <1>2, <1>3, <1>4, <2>2 DEF Apart
  <2>4. \A k \in DOMAIN r : DOMAIN r[k].factors \subseteq Ids(cases)
    BY <1>3, <1>4, <2>2
  <2> QED  BY <2>1, <2>3, <2>4 DEF CombinationsFit
<1>7. CombinationsFit(<<>>, <<>>)
  BY <1>0 DEF CombinationsFit, Apart
<1>8. ASSUME CombinationsFit(s, cases) PROVE normalizeWorkspaceCombinations(s, cases) = s
  <2>1. CASE cases = <<>>
    BY <1>5, <1>8, <2>1 DEF CombinationsFit
  <2>2. CASE cases # <<>>
    <3>1. named = s
      BY <1>1, <1>2, <1>8 DEF CombinationsFit
    <3>2. \A k \in DOMAIN s : s[k] \in Combination /\ DOMAIN s[k].factors \subseteq Ids(cases)
      BY <1>8 DEF CombinationsFit
    <3> HIDE DEF r, kept
    <3>3. \A k \in DOMAIN s : r[k] = s[k]
      BY <1>3, <1>4, <3>1, <3>2
    <3>4. r = s
      BY <1>4, <3>1, <3>3, SameSeqs
    <3> QED  BY <1>5, <2>2, <3>4
  <2> QED  BY <2>1, <2>2
<1>9. <<>> \in Seq(Combination)
  OBVIOUS
<1> HIDE DEF r
<1> QED  BY <1>4, <1>5, <1>6, <1>7, <1>8, <1>9

----------------------------------------------------------------------------
(* What the workspace normalizer leaves of a frame. *)

FrameNodesFit(nodes) ==
  /\ Len(nodes) <= MaxNodes /\ Apart(nodes)
  /\ \A k \in DOMAIN nodes : Len(nodes[k].springs) <= MaxOnNode /\ Len(nodes[k].displacements) <= MaxOnNode

LEMMA FrameNodesBecomeFit ==
  ASSUME NEW s \in Seq(FrameNode)
  PROVE  /\ normalizeStructureNodes(s) \in Seq(FrameNode)
         /\ FrameNodesFit(normalizeStructureNodes(s))
         /\ FrameNodesFit(s) => normalizeStructureNodes(s) = s
         /\ Len(normalizeStructureNodes(s)) = IF Len(s) < MaxNodes THEN Len(s) ELSE MaxNodes
<1> DEFINE first == FirstOf(s, MaxNodes)
           held(node) == [node EXCEPT !.springs = normalizeOnNode(@), !.displacements = normalizeOnNode(@)]
           all == Each(first, held)
           r == DistinctNames(all)
<1>0. MaxNodes \in Nat /\ MaxOnNode \in Nat
  BY LimitsAssumption, CutsAssumption
<1>1. /\ first \in Seq(FrameNode) /\ Len(first) <= MaxNodes /\ (Len(s) <= MaxNodes => first = s)
      /\ Len(first) = IF Len(s) < MaxNodes THEN Len(s) ELSE MaxNodes
  BY <1>0, FirstOfIsSeq
<1> HIDE DEF first
<1>2. ASSUME NEW node \in FrameNode
      PROVE  /\ held(node) \in FrameNode /\ held(node).id = node.id
             /\ Len(held(node).springs) <= MaxOnNode /\ Len(held(node).displacements) <= MaxOnNode
             /\ Len(node.springs) <= MaxOnNode /\ Len(node.displacements) <= MaxOnNode => held(node) = node
  <2> DEFINE a == normalizeOnNode(node.springs)
             b == normalizeOnNode(node.displacements)
  <2>1. node.springs \in Seq({"ux", "uy", "rz"}) /\ node.displacements \in Seq({"ux", "uy", "rz", "n"})
    BY DEF FrameNode
  <2>2. /\ a \in Seq({"ux", "uy", "rz"}) /\ Len(a) <= MaxOnNode /\ (Len(node.springs) <= MaxOnNode => a = node.springs)
        /\ b \in Seq({"ux", "uy", "rz", "n"}) /\ Len(b) <= MaxOnNode
        /\ (Len(node.displacements) <= MaxOnNode => b = node.displacements)
    BY <1>0, <2>1, FirstOfIsSeq DEF normalizeOnNode
  <2>3. held(node) = [node EXCEPT !.springs = a, !.displacements = b]
    OBVIOUS
  <2> HIDE DEF a, b, held
  <2> QED  BY <2>2, <2>3 DEF FrameNode
<1>3. all = [k \in DOMAIN first |-> held(first[k])]
  BY DEF Each
<1> HIDE DEF held, all
<1>4. /\ all \in Seq(FrameNode) /\ Len(all) = Len(first) /\ DOMAIN all = DOMAIN first
      /\ \A k \in DOMAIN first : all[k] = held(first[k])
  <2>1. \A k \in DOMAIN first : all[k] = held(first[k])
    BY <1>3
  <2>2. all = [k \in DOMAIN first |-> all[k]] /\ \A k \in DOMAIN first : all[k] \in FrameNode
    BY <1>1, <1>2, <1>3
  <2> QED  BY <1>1, <2>1, <2>2, MapIsSeq
<1>5. r = normalizeStructureNodes(s)
  BY DEF normalizeStructureNodes, all, first, held
<1>6. NamedSoFar(r, all, Len(all), FrameNode) /\ (Apart(all) => r = all)
  BY <1>4, DistinctNamesAre, FrameNodesAreNamed
<1> HIDE DEF r
<1>7. /\ r \in Seq(FrameNode) /\ Len(r) = Len(all) /\ Apart(r)
      /\ \A k \in DOMAIN all : r[k] = [all[k] EXCEPT !.id = r[k].id]
  BY <1>4, <1>6 DEF NamedSoFar
<1>8. FrameNodesFit(r)
  <2>1. ASSUME NEW k \in DOMAIN r
        PROVE  Len(r[k].springs) <= MaxOnNode /\ Len(r[k].displacements) <= MaxOnNode
    <3>0. k \in DOMAIN all /\ k \in DOMAIN first
      BY <1>1, <1>4, <1>7
    <3>1. first[k] \in FrameNode /\ all[k] = held(first[k]) /\ all[k] \in FrameNode /\ r[k] = [all[k] EXCEPT !.id = r[k].id]
      <4>1. first[k] \in FrameNode /\ all[k] \in FrameNode
        BY <1>1, <1>4, <3>0
      <4> QED  BY <1>4, <1>7, <3>0, <4>1, Zenon
    <3>2. r[k].springs = all[k].springs /\ r[k].displacements = all[k].displacements
      BY <3>1 DEF FrameNode
    <3> QED  BY <1>2, <3>1, <3>2
  <2> QED  BY <1>1, <1>4, <1>7, <2>1 DEF FrameNodesFit
<1>9. ASSUME FrameNodesFit(s) PROVE r = s
  <2>1. first = s
    BY <1>1, <1>9 DEF FrameNodesFit
  <2>2. \A k \in DOMAIN s : all[k] = s[k]
    <3> SUFFICES ASSUME NEW k \in DOMAIN s PROVE all[k] = s[k]
      OBVIOUS
    <3>1. s[k] \in FrameNode /\ Len(s[k].springs) <= MaxOnNode /\ Len(s[k].displacements) <= MaxOnNode
      BY <1>9 DEF FrameNodesFit
    <3> QED  BY <1>2, <1>4, <2>1, <3>1
  <2>3. all = s
    BY <1>4, <2>1, <2>2, SameSeqs
  <2> QED  BY <1>6, <1>9, <2>3 DEF FrameNodesFit
<1> QED  BY <1>1, <1>4, <1>5, <1>7, <1>8, <1>9

FrameMembersFit(members, nodes) ==
  /\ Len(members) <= MaxMembers /\ Apart(members)
  /\ \A k \in DOMAIN members :
       /\ Len(members[k].hinges) <= MaxHinges /\ Elements(members[k].hinges) \subseteq 1..99
       /\ nodes = <<>> \/ {members[k].start, members[k].end} \subseteq Ids(nodes)

LEMMA HingesBecomeFit ==
  ASSUME NEW hinges \in Seq(Int)
  PROVE  /\ normalizeInternalHinges(hinges) \in Seq(Int)
         /\ Len(normalizeInternalHinges(hinges)) <= MaxHinges
         /\ Elements(normalizeInternalHinges(hinges)) \subseteq 1..99
         /\ Len(hinges) <= MaxHinges /\ Elements(hinges) \subseteq 1..99 => normalizeInternalHinges(hinges) = hinges
<1> DEFINE first == FirstOf(hinges, MaxHinges)
<1>1. first \in Seq(Int) /\ Len(first) <= MaxHinges /\ (Len(hinges) <= MaxHinges => first = hinges) /\ MaxHinges \in Nat
  BY CutsAssumption, FirstOfIsSeq
<1>2. normalizeInternalHinges(hinges) = Where(first, 1..99)
  BY DEF normalizeInternalHinges
<1> HIDE DEF first
<1>3. /\ Where(first, 1..99) \in Seq(Int) /\ Elements(Where(first, 1..99)) = Elements(first) \cap 1..99
      /\ Len(Where(first, 1..99)) <= Len(first)
  BY <1>1, WhereIsSeq
<1>4. Len(Where(first, 1..99)) <= MaxHinges
  BY <1>1, <1>3
<1>5. ASSUME Len(hinges) <= MaxHinges, Elements(hinges) \subseteq 1..99 PROVE Where(first, 1..99) = hinges
  <2>1. first = hinges
    BY <1>1, <1>5
  <2> QED  BY <1>5, <2>1, WhereAll
<1>6. Elements(Where(first, 1..99)) \subseteq 1..99
  BY <1>3
<1> QED  BY <1>2, <1>3, <1>4, <1>5, <1>6

LEMMA FrameMembersBecomeFit ==
  ASSUME NEW s \in Seq(Member), NEW Node, Named(Node), NEW nodes \in Seq(Node)
  PROVE  /\ normalizeStructureMembers(s, nodes) \in Seq(Member)
         /\ FrameMembersFit(normalizeStructureMembers(s, nodes), nodes)
         /\ FrameMembersFit(s, nodes) => normalizeStructureMembers(s, nodes) = s
         /\ Len(normalizeStructureMembers(s, nodes)) = IF Len(s) < MaxMembers THEN Len(s) ELSE MaxMembers
<1> DEFINE first == FirstOf(s, MaxMembers)
           named == DistinctNames(first)
           tied(member, k) == [member EXCEPT !.start = pickExistingId(@, nodes, portalEnds(k)[1]),
                                             !.end = pickExistingId(@, nodes, portalEnds(k)[2]),
                                             !.hinges = normalizeInternalHinges(@)]
           r == [k \in DOMAIN named |-> tied(named[k], k)]
<1>1. /\ first \in Seq(Member) /\ Len(first) <= MaxMembers /\ (Len(s) <= MaxMembers => first = s)
      /\ Len(first) = IF Len(s) < MaxMembers THEN Len(s) ELSE MaxMembers
  BY LimitsAssumption, FirstOfIsSeq
<1>2. named \in Seq(Member) /\ Len(named) = Len(first) /\ Apart(named) /\ (Apart(first) => named = first)
  <2> HIDE DEF first
  <2> QED  BY <1>1, DistinctNamesAre, MembersAreNamed
<1>3. ASSUME NEW member \in Member, NEW k \in Nat
      PROVE  /\ tied(member, k) \in Member /\ tied(member, k).id = member.id
             /\ Len(tied(member, k).hinges) <= MaxHinges /\ Elements(tied(member, k).hinges) \subseteq 1..99
             /\ nodes = <<>> \/ {tied(member, k).start, tied(member, k).end} \subseteq Ids(nodes)
             /\ /\ Len(member.hinges) <= MaxHinges /\ Elements(member.hinges) \subseteq 1..99
                /\ nodes = <<>> \/ {member.start, member.end} \subseteq Ids(nodes)
                => tied(member, k) = member
  <2> DEFINE a == pickExistingId(member.start, nodes, portalEnds(k)[1])
             b == pickExistingId(member.end, nodes, portalEnds(k)[2])
             h == normalizeInternalHinges(member.hinges)
  <2>1. member.start \in Identifier /\ member.end \in Identifier /\ member.hinges \in Seq(Int)
    BY DEF Member
  <2>2. /\ a \in Identifier /\ (nodes # <<>> => a \in Ids(nodes))
        /\ (nodes = <<>> \/ member.start \in Ids(nodes) => a = member.start)
    BY <2>1, PickIsThere
  <2>3. /\ b \in Identifier /\ (nodes # <<>> => b \in Ids(nodes))
        /\ (nodes = <<>> \/ member.end \in Ids(nodes) => b = member.end)
    BY <2>1, PickIsThere
  <2>4. /\ h \in Seq(Int) /\ Len(h) <= MaxHinges /\ Elements(h) \subseteq 1..99
        /\ Len(member.hinges) <= MaxHinges /\ Elements(member.hinges) \subseteq 1..99 => h = member.hinges
    BY <2>1, HingesBecomeFit
  <2>5. tied(member, k) = [member EXCEPT !.start = a, !.end = b, !.hinges = h]
    OBVIOUS
  <2> HIDE DEF a, b, h
  <2>7. member = [id |-> member.id, start |-> member.start, end |-> member.end, hinges |-> member.hinges]
        /\ member.id \in Identifier
    BY DEF Member
  <2> HIDE DEF tied
  <2>6. tied(member, k) = [id |-> member.id, start |-> a, end |-> b, hinges |-> h]
    BY <2>5, <2>7
  <2>8. tied(member, k) \in Member
    BY <2>2, <2>3, <2>4, <2>6, <2>7 DEF Member
  <2>9. nodes = <<>> \/ {tied(member, k).start, tied(member, k).end} \subseteq Ids(nodes)
    BY <2>2, <2>3, <2>6
  <2>11. tied(member, k).id = member.id /\ tied(member, k).hinges = h
    BY <2>6
  <2>10. ASSUME Len(member.hinges) <= MaxHinges, Elements(member.hinges) \subseteq 1..99,
                nodes = <<>> \/ {member.start, member.end} \subseteq Ids(nodes)
         PROVE  tied(member, k) = member
    <3>1. a = member.start /\ b = member.end /\ h = member.hinges
      BY <2>2, <2>3, <2>4, <2>10
    <3> QED  BY <2>6, <2>7, <3>1
  <2> HIDE DEF tied
  <2> QED  BY <2>4, <2>8, <2>9, <2>10, <2>11
<1>4. normalizeStructureMembers(s, nodes) = r
  BY DEF normalizeStructureMembers
<1> HIDE DEF named, first, tied
<1>5. \A k \in DOMAIN named : r[k] = tied(named[k], k) /\ named[k] \in Member /\ k \in Nat
  BY <1>2
<1>6. r \in Seq(Member) /\ Len(r) = Len(named) /\ DOMAIN r = DOMAIN named
  <2>1. r = [k \in DOMAIN named |-> r[k]] /\ \A k \in DOMAIN named : r[k] \in Member
    BY <1>3, <1>5
  <2> HIDE DEF r
  <2> QED  BY <1>2, <2>1, MapIsSeq
<1> HIDE DEF r
<1>7. FrameMembersFit(r, nodes)
  <2>1. Len(r) <= MaxMembers
    BY <1>1, <1>2, <1>6
  <2>2. Apart(r)
    BY <1>2, <1>3, <1>5, <1>6 DEF Apart
  <2>3. ASSUME NEW k \in DOMAIN r
        PROVE  /\ Len(r[k].hinges) <= MaxHinges /\ Elements(r[k].hinges) \subseteq 1..99
               /\ nodes = <<>> \/ {r[k].start, r[k].end} \subseteq Ids(nodes)
    <3>1. k \in Nat /\ named[k] \in Member /\ r[k] = tied(named[k], k)
      BY <1>5, <1>6
    <3> DEFINE new == tied(named[k], k)
    <3>2. /\ Len(new.hinges) <= MaxHinges /\ Elements(new.hinges) \subseteq 1..99
          /\ nodes = <<>> \/ {new.start, new.end} \subseteq Ids(nodes)
      BY <1>3, <3>1
    <3>3. r[k] = new
      BY <3>1
    <3> HIDE DEF new
    <3> QED  BY <3>2, <3>3, Zenon
  <2> QED  BY <2>1, <2>2, <2>3 DEF FrameMembersFit
<1>8. ASSUME FrameMembersFit(s, nodes) PROVE r = s
  <2>1. named = s
    BY <1>1, <1>2, <1>8 DEF FrameMembersFit
  <2>2. \A k \in DOMAIN s : r[k] = s[k]
    <3> SUFFICES ASSUME NEW k \in DOMAIN s PROVE r[k] = s[k]
      OBVIOUS
    <3>1. /\ Len(s[k].hinges) <= MaxHinges /\ Elements(s[k].hinges) \subseteq 1..99
          /\ nodes = <<>> \/ {s[k].start, s[k].end} \subseteq Ids(nodes)
      BY <1>8 DEF FrameMembersFit
    <3> QED  BY <1>3, <1>5, <2>1, <3>1
  <2> QED  BY <1>6, <2>1, <2>2, SameSeqs
<1> QED  BY <1>1, <1>2, <1>4, <1>6, <1>7, <1>8

(* A load of a frame that acts on what is there, if there is anything, and has
   the fields of its type alone. *)
FrameLoadsOn(nodeIds, memberIds) ==
  {load \in LoadOf(LoadTypes) :
     \/ /\ load.type = "nodal" /\ load.member = NoId
        /\ load.from = 0 /\ load.to = 100 /\ load.at = 50
        /\ nodeIds = {} \/ load.node \in nodeIds
     \/ /\ load.type # "nodal" /\ load.node = NoId
        /\ memberIds = {} \/ load.member \in memberIds
        /\ IF load.type = "distributed" THEN load.from < load.to ELSE load.from = 0 /\ load.to = 100
        /\ load.type # "member_point" => load.at = 50}

LEMMA NoIdIs == NoId \in Identifier
<1>1. "" \in Text
  BY DEF Text
<1>2. \A stem \in Text : Draft(stem, 0) \in Identifier
  BY DraftIsIdentifier
<1>3. Draft("", 0) = NoId
  BY DEF NoId, Draft
<1> QED  BY <1>1, <1>2, <1>3, Zenon

LEMMA NoIds ==
  ASSUME NEW T, NEW s \in Seq(T)
  PROVE  s = <<>> <=> Ids(s) = {}
<1>1. ASSUME s # <<>> PROVE Ids(s) # {}
  <2>1. 1 \in DOMAIN s
    BY <1>1
  <2>2. s[1].id \in Ids(s)
    BY <2>1 DEF Ids
  <2> QED  BY <2>2
<1>2. ASSUME s = <<>> PROVE Ids(s) = {}
  BY <1>2 DEF Ids
<1> QED  BY <1>1, <1>2

LEMMA OnNodeFits ==
  ASSUME NEW N, NEW M, NEW load \in LoadOf(LoadTypes), load.type = "nodal",
         NEW node \in Identifier, N = {} \/ node \in N
  PROVE  /\ loadOnNode(load, node) \in FrameLoadsOn(N, M)
         /\ load \in FrameLoadsOn(N, M) /\ node = load.node => loadOnNode(load, node) = load
<1> DEFINE r == [type |-> load.type, node |-> node, member |-> NoId, from |-> 0, to |-> 100, at |-> 50,
                 role |-> load.role]
<1>1. /\ load = [type |-> load.type, node |-> load.node, member |-> load.member, from |-> load.from,
                 to |-> load.to, at |-> load.at, role |-> load.role]
      /\ load.type \in LoadTypes /\ load.role \in {"fixed", "variable"}
  BY DEF LoadOf
<1>2. loadOnNode(load, node) = r
  <2>1. loadOnNode(load, node) =
          [load EXCEPT !.node = node, !.member = NoId, !.from = 0, !.to = 100, !.at = 50]
    BY DEF loadOnNode
  <2> QED  BY <1>1, <2>1
<1>3. r \in LoadOf(LoadTypes)
  BY <1>1, NoIdIs DEF LoadOf
<1>4. r \in FrameLoadsOn(N, M)
  BY <1>3 DEF FrameLoadsOn
<1>5. ASSUME load \in FrameLoadsOn(N, M), node = load.node PROVE r = load
  <2>1. load.member = NoId /\ load.from = 0 /\ load.to = 100 /\ load.at = 50
    BY <1>5 DEF FrameLoadsOn
  <2> QED  BY <1>1, <1>5, <2>1
<1> QED  BY <1>2, <1>4, <1>5

LEMMA OnMemberFits ==
  ASSUME NEW N, NEW M, NEW load \in LoadOf(LoadTypes), load.type # "nodal",
         NEW member \in Identifier, M = {} \/ member \in M
  PROVE  /\ loadOnMember(load, member) \in FrameLoadsOn(N, M)
         /\ load \in FrameLoadsOn(N, M) /\ member = load.member => loadOnMember(load, member) = load
<1> DEFINE ranged == normalizeFrameLoad(load)
           from == IF load.type = "distributed" THEN ranged.from ELSE 0
           to == IF load.type = "distributed" THEN ranged.to ELSE 100
           at == IF load.type = "member_point" THEN load.at ELSE 50
           r == [type |-> load.type, node |-> NoId, member |-> member, from |-> from, to |-> to, at |-> at,
                 role |-> load.role]
<1>1. /\ load = [type |-> load.type, node |-> load.node, member |-> load.member, from |-> load.from,
                 to |-> load.to, at |-> load.at, role |-> load.role]
      /\ load.type \in LoadTypes /\ load.role \in {"fixed", "variable"}
      /\ load.from \in Int /\ load.to \in Int /\ load.at \in Int
  BY DEF LoadOf
<1>2. loadOnMember(load, member) = r
  <2>1. loadOnMember(load, member) =
          [load EXCEPT !.node = NoId, !.member = member, !.from = from, !.to = to, !.at = at]
    BY DEF loadOnMember
  <2> HIDE DEF from, to, at, ranged
  <2> QED  BY <1>1, <2>1
<1>3. /\ ranged.from \in Int /\ ranged.to \in Int
      /\ load.type = "distributed" => ranged.from < ranged.to
      /\ load.from < load.to => ranged.from = load.from /\ ranged.to = load.to
  <2> DEFINE low == IF load.to < load.from THEN load.to ELSE load.from
             high == IF load.to < load.from THEN load.from ELSE load.to
  <2>1. low \in Int /\ high \in Int /\ low <= high /\ (load.from < load.to => low = load.from /\ high = load.to)
    BY <1>1
  <2>2. ranged = CASE load.type # "distributed" \/ low < high -> [load EXCEPT !.from = low, !.to = high]
                   [] low = high /\ low < 100 -> [load EXCEPT !.from = low, !.to = high + 1]
                   [] OTHER -> [load EXCEPT !.from = low - 1, !.to = high]
    BY DEF normalizeFrameLoad
  <2> HIDE DEF low, high, ranged
  <2>3. CASE load.type # "distributed" \/ low < high
    <3>1. ranged = [load EXCEPT !.from = low, !.to = high] \/ ~(load.type # "distributed" \/ low < high)
          \/ (low = high /\ low < 100)
      BY <2>2, <2>3
    <3>2. ranged = [load EXCEPT !.from = low, !.to = high] \/ ranged = [load EXCEPT !.from = low, !.to = high + 1]
      BY <2>2, <2>3
    <3>3. ranged.from = low /\ (ranged.to = high \/ (ranged.to = high + 1 /\ low = high))
      BY <1>1, <2>1, <2>2, <2>3, <3>1, <3>2
    <3> QED  BY <2>1, <2>3, <3>3
  <2>4. CASE load.type = "distributed" /\ ~(low < high) /\ low < 100
    <3>1. ranged = [load EXCEPT !.from = low, !.to = high + 1]
      BY <2>1, <2>2, <2>4
    <3>2. ranged.from = low /\ ranged.to = high + 1
      BY <1>1, <3>1
    <3> QED  BY <2>1, <2>4, <3>2
  <2>5. CASE load.type = "distributed" /\ ~(low < high) /\ ~(low < 100)
    <3>1. ranged = [load EXCEPT !.from = low - 1, !.to = high]
      BY <2>1, <2>2, <2>5
    <3>2. ranged.from = low - 1 /\ ranged.to = high
      BY <1>1, <3>1
    <3> QED  BY <2>1, <2>5, <3>2
  <2> QED  BY <2>3, <2>4, <2>5
<1>4. from \in Int /\ to \in Int /\ at \in Int
  <2> HIDE DEF ranged
  <2> QED  BY <1>1, <1>3
<1>5. r \in LoadOf(LoadTypes)
  <2> HIDE DEF from, to, at
  <2> QED  BY <1>1, <1>4, NoIdIs DEF LoadOf
<1>6. r \in FrameLoadsOn(N, M)
  <2>1. /\ IF load.type = "distributed" THEN from < to ELSE from = 0 /\ to = 100
        /\ load.type # "member_point" => at = 50
    <3> HIDE DEF ranged
    <3> QED  BY <1>3
  <2> HIDE DEF from, to, at
  <2> QED  BY <1>5, <2>1 DEF FrameLoadsOn
<1>7. ASSUME load \in FrameLoadsOn(N, M), member = load.member PROVE r = load
  <2>1. /\ load.node = NoId
        /\ IF load.type = "distributed" THEN load.from < load.to ELSE load.from = 0 /\ load.to = 100
        /\ load.type # "member_point" => load.at = 50
    BY <1>7 DEF FrameLoadsOn
  <2>2. from = load.from /\ to = load.to /\ at = load.at
    <3> HIDE DEF ranged
    <3> QED  BY <1>3, <2>1
  <2> HIDE DEF from, to, at
  <2> QED  BY <1>1, <1>7, <2>1, <2>2
<1> HIDE DEF r
<1> QED  BY <1>2, <1>6, <1>7

(* Loads that were put in the place of others, as many as are kept. *)
FunctionOn(f, D) == f = [x \in D |-> f[x]]
KeptIn(Fit, r, s, D) == \A k \in D : r[k] \in Fit /\ (s[k] \in Fit => r[k] = s[k])

LEMMA LoadsBecomeFit ==
  ASSUME NEW T, NEW s \in Seq(T), NEW Fit, NEW r, FunctionOn(r, DOMAIN FirstOf(s, MaxLoads)),
         KeptIn(Fit, r, s, DOMAIN FirstOf(s, MaxLoads))
  PROVE  /\ r \in Seq(Fit) /\ Len(r) <= MaxLoads
         /\ s \in Seq(Fit) /\ Len(s) <= MaxLoads => r = s
         /\ Len(r) = IF Len(s) < MaxLoads THEN Len(s) ELSE MaxLoads
<1> DEFINE first == FirstOf(s, MaxLoads)
<1>1. /\ first \in Seq(T) /\ Len(first) = IF Len(s) < MaxLoads THEN Len(s) ELSE MaxLoads
      /\ Len(s) <= MaxLoads => first = s
  <2>1. MaxLoads \in Nat
    BY CutsAssumption
  <2> QED  BY <2>1, FirstOfIsSeq
<1> HIDE DEF first
<1>2. r = [k \in DOMAIN first |-> r[k]] /\ \A k \in DOMAIN first : r[k] \in Fit /\ (s[k] \in Fit => r[k] = s[k])
  BY DEF first, FunctionOn, KeptIn
<1>3. r \in Seq(Fit) /\ Len(r) = Len(first) /\ DOMAIN r = DOMAIN first
  <2> DEFINE f == r
  <2>1. f = [k \in DOMAIN first |-> f[k]] /\ \A k \in DOMAIN first : f[k] \in Fit
    BY <1>2, Zenon
  <2> HIDE DEF f
  <2>2. f \in Seq(Fit) /\ Len(f) = Len(first) /\ DOMAIN f = DOMAIN first
    BY <1>1, <2>1, MapIsSeq
  <2> QED  BY <2>2 DEF f
<1>4. ASSUME s \in Seq(Fit), Len(s) <= MaxLoads PROVE r = s
  <2>1. first = s /\ \A k \in DOMAIN s : s[k] \in Fit
    BY <1>1, <1>4
  <2>2. \A k \in DOMAIN s : r[k] = s[k]
    BY <1>2, <2>1
  <2> QED  BY <1>3, <1>4, <2>1, <2>2, SameSeqs
<1>5. MaxLoads \in Nat
  BY CutsAssumption
<1> QED  BY <1>1, <1>3, <1>4, <1>5

LEMMA FrameLoadsBecomeFit ==
  ASSUME NEW s \in Seq(LoadOf(LoadTypes)), NEW Node, Named(Node), NEW nodes \in Seq(Node),
         NEW members \in Seq(Member), NEW fallbacks
  PROVE  LET Fit == FrameLoadsOn(Ids(nodes), Ids(members))
             r == normalizeWorkspaceLoads(s, nodes, members, fallbacks)
         IN /\ r \in Seq(Fit) /\ Len(r) <= MaxLoads
            /\ s \in Seq(Fit) /\ Len(s) <= MaxLoads => r = s
            /\ Len(r) = IF Len(s) < MaxLoads THEN Len(s) ELSE MaxLoads
<1> DEFINE Fit == FrameLoadsOn(Ids(nodes), Ids(members))
           T == LoadOf(LoadTypes)
           first == FirstOf(s, MaxLoads)
           node(k) == IF fallbacks /\ k > 1 THEN Draft("N", 4) ELSE NoId
           member(k) == IF fallbacks /\ k = 1 /\ first[k].type = "distributed" THEN Draft("B", 1) ELSE NoId
           r == normalizeWorkspaceLoads(s, nodes, members, fallbacks)
<1>1. r = [k \in DOMAIN first |->
        IF first[k].type = "nodal" THEN loadOnNode(first[k], pickExistingId(first[k].node, nodes, node(k)))
        ELSE loadOnMember(first[k], pickExistingId(first[k].member, members, member(k)))]
  BY DEF normalizeWorkspaceLoads
<1>2. \A k \in DOMAIN first : k \in DOMAIN s /\ first[k] = s[k] /\ s[k] \in T
  <2>1. MaxLoads \in Nat
    BY CutsAssumption
  <2>2. \A k \in DOMAIN s : s[k] \in T
    OBVIOUS
  <2> HIDE DEF T
  <2>3. \A k \in DOMAIN first : k \in DOMAIN s /\ first[k] = s[k]
    BY <2>1, FirstOfIsSeq
  <2> QED  BY <2>2, <2>3
<1> HIDE DEF first, node, member, r
<1>3. (nodes = <<>> <=> Ids(nodes) = {}) /\ (members = <<>> <=> Ids(members) = {})
  <2> HIDE DEF T, Fit
  <2> QED  BY NoIds
<1>5. ASSUME NEW k \in DOMAIN first PROVE r[k] \in Fit /\ (s[k] \in Fit => r[k] = s[k])
  <2>1. s[k] \in T /\ first[k] = s[k] /\ s[k].node \in Identifier /\ s[k].member \in Identifier
    <3>1. s[k] \in T /\ first[k] = s[k]
      BY <1>2
    <3> QED  BY <3>1 DEF LoadOf
  <2>2. CASE s[k].type = "nodal"
    <3> DEFINE id == pickExistingId(s[k].node, nodes, node(k))
    <3>1. r[k] = loadOnNode(s[k], id)
      BY <1>1, <2>1, <2>2, Zenon
    <3>2. id \in Identifier /\ (nodes # <<>> => id \in Ids(nodes))
          /\ (nodes = <<>> \/ s[k].node \in Ids(nodes) => id = s[k].node)
      BY <2>1, PickIsThere
    <3>3. s[k] \in Fit => nodes = <<>> \/ s[k].node \in Ids(nodes)
      BY <1>3, <2>2 DEF FrameLoadsOn
    <3> HIDE DEF id, Fit, T
    <3>4. Ids(nodes) = {} \/ id \in Ids(nodes)
      BY <1>3, <3>2
    <3> QED  BY <2>1, <2>2, <3>1, <3>2, <3>3, <3>4, OnNodeFits DEF Fit, T
  <2>3. CASE s[k].type # "nodal"
    <3> DEFINE id == pickExistingId(s[k].member, members, member(k))
    <3>1. r[k] = loadOnMember(s[k], id)
      BY <1>1, <2>1, <2>3, Zenon
    <3>2. id \in Identifier /\ (members # <<>> => id \in Ids(members))
          /\ (members = <<>> \/ s[k].member \in Ids(members) => id = s[k].member)
      BY <2>1, PickIsThere, MembersAreNamed
    <3>3. s[k] \in Fit => members = <<>> \/ s[k].member \in Ids(members)
      BY <1>3, <2>3 DEF FrameLoadsOn
    <3> HIDE DEF id, Fit, T
    <3>4. Ids(members) = {} \/ id \in Ids(members)
      BY <1>3, <3>2
    <3> QED  BY <2>1, <2>3, <3>1, <3>2, <3>3, <3>4, OnMemberFits DEF Fit, T
  <2> QED  BY <2>2, <2>3
<1>6. FunctionOn(r, DOMAIN FirstOf(s, MaxLoads))
  BY <1>1, Zenon DEF first, FunctionOn
<1>7. KeptIn(Fit, r, s, DOMAIN FirstOf(s, MaxLoads))
  BY <1>5 DEF first, KeptIn
<1>8. s \in Seq(T)
  OBVIOUS
<1> HIDE DEF Fit, T
<1>9. /\ r \in Seq(Fit) /\ Len(r) <= MaxLoads
      /\ s \in Seq(Fit) /\ Len(s) <= MaxLoads => r = s
      /\ Len(r) = IF Len(s) < MaxLoads THEN Len(s) ELSE MaxLoads
  BY <1>6, <1>7, <1>8, LoadsBecomeFit
<1> QED  BY <1>9 DEF r, Fit

(* Load cases whose loads are as they should be. *)
CasesFit(cases, Fit) ==
  /\ Len(cases) <= MaxCases /\ Apart(cases)
  /\ \A k \in DOMAIN cases : cases[k].loads \in Seq(Fit) /\ Len(cases[k].loads) <= MaxLoads

(* What becomes of the loads of a load case: F is given as a function. *)
NamedCasesWith(F, cases, r) ==
  r = [k \in DOMAIN DistinctNames(FirstOf(cases, MaxCases)) |->
        [DistinctNames(FirstOf(cases, MaxCases))[k] EXCEPT
           !.loads = F[DistinctNames(FirstOf(cases, MaxCases))[k].loads]]]

Refits(F, types, Fit) ==
  /\ F \in [Seq(LoadOf(types)) -> Seq(LoadOf(types))]
  /\ \A s \in Seq(LoadOf(types)) :
       F[s] \in Seq(Fit) /\ Len(F[s]) <= MaxLoads /\ (s \in Seq(Fit) /\ Len(s) <= MaxLoads => F[s] = s)

LEMMA FitCasesAreKept ==
  ASSUME NEW types, NEW Fit \in SUBSET LoadOf(types), NEW cases \in Seq(CaseOf(types)),
         NEW F, Refits(F, types, Fit), NEW r, NamedCasesWith(F, cases, r)
  PROVE  /\ r \in Seq(CaseOf(types)) /\ CasesFit(r, Fit)
         /\ CasesFit(cases, Fit) => r = cases
         /\ Len(r) = IF Len(cases) < MaxCases THEN Len(cases) ELSE MaxCases
<1> DEFINE first == FirstOf(cases, MaxCases)
           named == DistinctNames(first)
           T == CaseOf(types)
           L == Seq(LoadOf(types))
<1>0. /\ F \in [L -> L]
      /\ \A s \in L : F[s] \in Seq(Fit) /\ Len(F[s]) <= MaxLoads /\ (s \in Seq(Fit) /\ Len(s) <= MaxLoads => F[s] = s)
  BY DEF Refits
<1>1. first \in Seq(T) /\ (Len(cases) <= MaxCases => first = cases)
      /\ Len(first) = IF Len(cases) < MaxCases THEN Len(cases) ELSE MaxCases
  <2>1. MaxCases \in Nat
    BY CutsAssumption
  <2>2. cases \in Seq(T)
    OBVIOUS
  <2> HIDE DEF T
  <2> QED  BY <2>1, <2>2, FirstOfIsSeq
<1>2. named \in Seq(T) /\ Len(named) = Len(first) /\ Apart(named) /\ (Apart(first) => named = first)
  <2> HIDE DEF first, T
  <2> QED  BY <1>1, DistinctNamesAre, CasesAreNamed DEF T
<1>3. r = [k \in DOMAIN named |-> [named[k] EXCEPT !.loads = F[named[k].loads]]]
  BY Zenon DEF NamedCasesWith
<1> HIDE DEF named, first
<1>4. ASSUME NEW k \in DOMAIN named
      PROVE  /\ named[k].loads \in L /\ r[k] \in T /\ r[k].id = named[k].id /\ r[k].loads = F[named[k].loads]
             /\ (F[named[k].loads] = named[k].loads => r[k] = named[k])
  <2>1. named[k] \in T /\ r[k] = [named[k] EXCEPT !.loads = F[named[k].loads]]
    BY <1>2, <1>3
  <2>2. named[k] = [id |-> named[k].id, loads |-> named[k].loads] /\ named[k].loads \in L /\ named[k].id \in Identifier
    BY <2>1 DEF CaseOf
  <2> DEFINE new == F[named[k].loads]
  <2>3. new \in L
    BY <1>0, <2>2
  <2> HIDE DEF new
  <2>4. r[k] = [id |-> named[k].id, loads |-> new]
    BY <2>1, <2>2 DEF new
  <2> QED  BY <2>2, <2>3, <2>4 DEF CaseOf, new
<1>5. r \in Seq(T) /\ Len(r) = Len(named) /\ DOMAIN r = DOMAIN named
  <2> HIDE DEF T, L
  <2> DEFINE f == r
  <2>1. f = [k \in DOMAIN named |-> f[k]] /\ \A k \in DOMAIN named : f[k] \in T
    BY <1>3, <1>4, Zenon
  <2> HIDE DEF f
  <2>2. f \in Seq(T) /\ Len(f) = Len(named) /\ DOMAIN f = DOMAIN named
    BY <1>2, <2>1, MapIsSeq
  <2> QED  BY <2>2 DEF f
<1>6. Apart(r)
  <2>1. \A k \in DOMAIN named : r[k].id = named[k].id
    BY <1>4
  <2> QED  BY <1>2, <1>5, <2>1 DEF Apart
<1>7. \A k \in DOMAIN r : r[k].loads \in Seq(Fit) /\ Len(r[k].loads) <= MaxLoads
  <2> SUFFICES ASSUME NEW k \in DOMAIN r PROVE r[k].loads \in Seq(Fit) /\ Len(r[k].loads) <= MaxLoads
    OBVIOUS
  <2>1. named[k].loads \in L /\ r[k].loads = F[named[k].loads]
    BY <1>4, <1>5
  <2> QED  BY <1>0, <2>1
<1>8. ASSUME CasesFit(cases, Fit) PROVE r = cases
  <2>1. named = cases /\ DOMAIN r = DOMAIN cases /\ Len(r) = Len(cases)
    BY <1>1, <1>2, <1>5, <1>8 DEF CasesFit
  <2>2. \A k \in DOMAIN cases : r[k] = cases[k]
    <3> SUFFICES ASSUME NEW k \in DOMAIN cases PROVE r[k] = cases[k]
      OBVIOUS
    <3>1. cases[k].loads \in L /\ cases[k].loads \in Seq(Fit) /\ Len(cases[k].loads) <= MaxLoads
      BY <1>4, <1>8, <2>1 DEF CasesFit
    <3>2. F[cases[k].loads] = cases[k].loads
      BY <1>0, <3>1
    <3> QED  BY <1>4, <2>1, <3>2
  <2>3. cases \in Seq(T) /\ r \in Seq(T) /\ Len(r) = Len(cases)
    BY <1>5, <2>1
  <2> HIDE DEF T, L
  <2> QED  BY <2>2, <2>3, SameSeqs
<1>9. CasesFit(r, Fit)
  <2>1. Len(r) <= MaxCases
    BY <1>1, <1>2, <1>5, CutsAssumption
  <2> QED  BY <1>6, <1>7, <2>1 DEF CasesFit
<1> QED  BY <1>1, <1>2, <1>5, <1>8, <1>9

(* A frame the workspace normalizer leaves alone. *)
FrameFits(m) ==
  LET Fit == FrameLoadsOn(Ids(m.nodes), Ids(m.members))
  IN /\ FrameNodesFit(m.nodes)
     /\ FrameMembersFit(m.members, m.nodes)
     /\ m.loads \in Seq(Fit) /\ Len(m.loads) <= MaxLoads
     /\ CasesFit(m.cases, Fit)
     /\ CombinationsFit(m.combinations, m.cases)

Frames == Plane(FrameNode, LoadTypes)

(* What frame-workspace-normalizer.ts makes of any frame it leaves alone when
   it gets it again. *)
LEMMA FrameBecomesFit ==
  ASSUME NEW m \in Frames
  PROVE  /\ normalizeFrameWorkspaceState(m) \in Frames
         /\ FrameFits(normalizeFrameWorkspaceState(m))
         /\ FrameFits(m) => normalizeFrameWorkspaceState(m) = m
         /\ Len(normalizeFrameWorkspaceState(m).nodes) = IF Len(m.nodes) < MaxNodes THEN Len(m.nodes) ELSE MaxNodes
         /\ Len(normalizeFrameWorkspaceState(m).members) = IF Len(m.members) < MaxMembers THEN Len(m.members) ELSE MaxMembers
         /\ Len(normalizeFrameWorkspaceState(m).cases) = IF Len(m.cases) < MaxCases THEN Len(m.cases) ELSE MaxCases
<1> DEFINE nodes == normalizeStructureNodes(m.nodes)
           members == normalizeStructureMembers(m.members, nodes)
           T == LoadOf(LoadTypes)
           F == [s \in Seq(T) |-> normalizeWorkspaceLoads(s, nodes, members, FALSE)]
           Fit == FrameLoadsOn(Ids(nodes), Ids(members))
           loads == normalizeWorkspaceLoads(m.loads, nodes, members, TRUE)
           cases == normalizeWorkspaceCases(m.cases, nodes, members)
           combinations == normalizeWorkspaceCombinations(m.combinations, cases)
           r == normalizeFrameWorkspaceState(m)
<1>1. /\ m.nodes \in Seq(FrameNode) /\ m.members \in Seq(Member) /\ m.loads \in Seq(T)
      /\ m.cases \in Seq(CaseOf(LoadTypes)) /\ m.combinations \in Seq(Combination)
      /\ m = [nodes |-> m.nodes, members |-> m.members, loads |-> m.loads, cases |-> m.cases,
              combinations |-> m.combinations]
  BY DEF Frames, Plane
<1>2. nodes \in Seq(FrameNode) /\ FrameNodesFit(nodes) /\ (FrameNodesFit(m.nodes) => nodes = m.nodes)
      /\ Len(nodes) = IF Len(m.nodes) < MaxNodes THEN Len(m.nodes) ELSE MaxNodes
  BY <1>1, FrameNodesBecomeFit
<1> HIDE DEF nodes
<1>3. members \in Seq(Member) /\ FrameMembersFit(members, nodes)
      /\ (FrameMembersFit(m.members, nodes) => members = m.members)
      /\ Len(members) = IF Len(m.members) < MaxMembers THEN Len(m.members) ELSE MaxMembers
  BY <1>1, <1>2, FrameNodesAreNamed, FrameMembersBecomeFit
<1> HIDE DEF members
<1>4. Fit \in SUBSET T
  BY DEF FrameLoadsOn
<1>5. \A fallbacks \in BOOLEAN : \A s \in Seq(T) :
        LET new == normalizeWorkspaceLoads(s, nodes, members, fallbacks)
        IN new \in Seq(Fit) /\ Len(new) <= MaxLoads /\ (s \in Seq(Fit) /\ Len(s) <= MaxLoads => new = s)
  BY <1>2, <1>3, FrameNodesAreNamed, FrameLoadsBecomeFit
<1>6. \A s \in Seq(Fit) : s \in Seq(T)
  <2> HIDE DEF Fit, T
  <2> QED  BY <1>4
<1> HIDE DEF Fit
<1>7. loads \in Seq(Fit) /\ Len(loads) <= MaxLoads /\ loads \in Seq(T)
      /\ (m.loads \in Seq(Fit) /\ Len(m.loads) <= MaxLoads => loads = m.loads)
  BY <1>1, <1>5, <1>6
<1> HIDE DEF T
<1>8. /\ F \in [Seq(T) -> Seq(T)]
      /\ \A s \in Seq(T) :
           F[s] \in Seq(Fit) /\ Len(F[s]) <= MaxLoads /\ (s \in Seq(Fit) /\ Len(s) <= MaxLoads => F[s] = s)
  BY <1>5, <1>6
<1>9. NamedCasesWith(F, m.cases, cases)
  <2> DEFINE named == DistinctNames(FirstOf(m.cases, MaxCases))
  <2>1. named \in Seq(CaseOf(LoadTypes))
    <3>1. MaxCases \in Nat
      BY CutsAssumption
    <3>2. FirstOf(m.cases, MaxCases) \in Seq(CaseOf(LoadTypes))
      BY <1>1, <3>1, FirstOfIsSeq
    <3> QED  BY <3>2, CasesAreNamed, DistinctNamesAre
  <2>2. cases = [k \in DOMAIN named |->
                  [named[k] EXCEPT !.loads = normalizeWorkspaceLoads(@, nodes, members, FALSE)]]
    BY DEF normalizeWorkspaceCases
  <2> HIDE DEF named, cases
  <2>3. \A k \in DOMAIN named : named[k].loads \in Seq(T)
    <3> SUFFICES ASSUME NEW k \in DOMAIN named PROVE named[k].loads \in Seq(T)
      OBVIOUS
    <3>1. named[k] \in CaseOf(LoadTypes)
      BY <2>1
    <3> QED  BY <3>1 DEF CaseOf, T
  <2>4. \A k \in DOMAIN named : F[named[k].loads] = normalizeWorkspaceLoads(named[k].loads, nodes, members, FALSE)
    BY <2>3
  <2> HIDE DEF F
  <2>5. cases = [k \in DOMAIN named |-> [named[k] EXCEPT !.loads = F[named[k].loads]]]
    BY <2>2, <2>4
  <2> QED  BY <2>5 DEF named, NamedCasesWith
<1>10. /\ cases \in Seq(CaseOf(LoadTypes)) /\ CasesFit(cases, Fit)
       /\ CasesFit(m.cases, Fit) => cases = m.cases
       /\ Len(cases) = IF Len(m.cases) < MaxCases THEN Len(m.cases) ELSE MaxCases
  <2> HIDE DEF F, cases
  <2>1. Fit \in SUBSET LoadOf(LoadTypes)
    BY <1>4 DEF T
  <2>2. Refits(F, LoadTypes, Fit)
    BY <1>8 DEF T, Refits
  <2> QED  BY <1>1, <1>9, <2>1, <2>2, FitCasesAreKept
<1> HIDE DEF cases, F
<1>11. /\ combinations \in Seq(Combination) /\ CombinationsFit(combinations, cases)
       /\ CombinationsFit(m.combinations, cases) => combinations = m.combinations
  BY <1>1, <1>10, CombinationsBecomeFit
<1> HIDE DEF combinations, loads
<1>12. r = [nodes |-> nodes, members |-> members, loads |-> loads, cases |-> cases, combinations |-> combinations]
  BY DEF normalizeFrameWorkspaceState, nodes, members, loads, cases, combinations
<1> HIDE DEF r
<1>13. r \in Frames
  BY <1>2, <1>3, <1>7, <1>10, <1>11, <1>12 DEF Frames, Plane, T
<1>14. r.nodes = nodes /\ r.members = members /\ r.loads = loads /\ r.cases = cases /\ r.combinations = combinations
  BY <1>12
<1>15. FrameFits(r)
  BY <1>2, <1>3, <1>7, <1>10, <1>11, <1>14 DEF FrameFits, Fit
<1>16. ASSUME FrameFits(m) PROVE r = m
  <2>1. nodes = m.nodes
    BY <1>2, <1>16 DEF FrameFits
  <2>2. members = m.members
    BY <1>3, <1>16, <2>1 DEF FrameFits
  <2>3. Fit = FrameLoadsOn(Ids(m.nodes), Ids(m.members))
    BY <2>1, <2>2 DEF Fit
  <2>4. loads = m.loads /\ cases = m.cases
    BY <1>7, <1>10, <1>16, <2>3 DEF FrameFits
  <2>5. combinations = m.combinations
    BY <1>11, <1>16, <2>4 DEF FrameFits
  <2> QED  BY <1>1, <1>12, <2>1, <2>2, <2>4, <2>5
<1> QED  BY <1>2, <1>3, <1>10, <1>13, <1>14, <1>15, <1>16 DEF r

(* The same for trusses. *)
TrussTypes == {"nodal", "temperature"} \cup SpreadTypes
Trusses == Plane(TrussNode, TrussTypes)

TrussLoadsOn(nodeIds, memberIds) ==
  {load \in LoadOf(TrussTypes) :
     \/ load.type = "nodal" /\ load.member = NoId /\ (nodeIds = {} \/ load.node \in nodeIds)
     \/ load.type # "nodal" /\ load.node = NoId /\ (memberIds = {} \/ load.member \in memberIds)}

LEMMA TrussLoadsBecomeFit ==
  ASSUME NEW s \in Seq(LoadOf(TrussTypes)), NEW Node, Named(Node), NEW nodes \in Seq(Node),
         NEW members \in Seq(Member), NEW fallbacks
  PROVE  LET Fit == TrussLoadsOn(Ids(nodes), Ids(members))
             r == normalizeTrussLoads(s, nodes, members, fallbacks)
         IN /\ r \in Seq(Fit) /\ Len(r) <= MaxLoads
            /\ s \in Seq(Fit) /\ Len(s) <= MaxLoads => r = s
            /\ Len(r) = IF Len(s) < MaxLoads THEN Len(s) ELSE MaxLoads
<1> DEFINE Fit == TrussLoadsOn(Ids(nodes), Ids(members))
           T == LoadOf(TrussTypes)
           first == FirstOf(s, MaxLoads)
           node(k) == IF ~fallbacks THEN NoId ELSE Draft("N", IF k = 1 THEN 3 ELSE 4)
           r == normalizeTrussLoads(s, nodes, members, fallbacks)
<1>1. r = [k \in DOMAIN first |->
        IF first[k].type = "nodal"
        THEN [first[k] EXCEPT !.node = pickExistingId(@, nodes, node(k)), !.member = NoId]
        ELSE [first[k] EXCEPT !.member = pickExistingId(@, members, NoId), !.node = NoId]]
  BY DEF normalizeTrussLoads
<1>2. \A k \in DOMAIN first : k \in DOMAIN s /\ first[k] = s[k] /\ s[k] \in T
  <2>1. MaxLoads \in Nat
    BY CutsAssumption
  <2>2. \A k \in DOMAIN s : s[k] \in T
    OBVIOUS
  <2> HIDE DEF T
  <2>3. \A k \in DOMAIN first : k \in DOMAIN s /\ first[k] = s[k]
    BY <2>1, FirstOfIsSeq
  <2> QED  BY <2>2, <2>3
<1> HIDE DEF first, node, r
<1>3. (nodes = <<>> <=> Ids(nodes) = {}) /\ (members = <<>> <=> Ids(members) = {})
  <2> HIDE DEF T, Fit
  <2> QED  BY NoIds
<1>5. ASSUME NEW k \in DOMAIN first PROVE r[k] \in Fit /\ (s[k] \in Fit => r[k] = s[k])
  <2> DEFINE load == s[k]
  <2>0. load \in T /\ first[k] = load
    BY <1>2
  <2> HIDE DEF load
  <2>1. /\ load = [type |-> load.type, node |-> load.node, member |-> load.member, from |-> load.from,
                   to |-> load.to, at |-> load.at, role |-> load.role]
        /\ load.type \in TrussTypes /\ load.node \in Identifier /\ load.member \in Identifier
        /\ load.from \in Int /\ load.to \in Int /\ load.at \in Int /\ load.role \in {"fixed", "variable"}
    BY <2>0 DEF LoadOf
  <2>2. CASE load.type = "nodal"
    <3> DEFINE id == pickExistingId(load.node, nodes, node(k))
    <3>1. r[k] = [load EXCEPT !.node = id, !.member = NoId]
      BY <1>1, <2>0, <2>2, Zenon
    <3>2. id \in Identifier /\ (nodes # <<>> => id \in Ids(nodes))
          /\ (nodes = <<>> \/ load.node \in Ids(nodes) => id = load.node)
      BY <2>1, PickIsThere
    <3> HIDE DEF id
    <3>3. r[k] = [type |-> load.type, node |-> id, member |-> NoId, from |-> load.from,
                   to |-> load.to, at |-> load.at, role |-> load.role]
      BY <2>1, <3>1
    <3>4. r[k] \in T
      BY <2>1, <3>2, <3>3, NoIdIs DEF LoadOf
    <3>5. r[k] \in Fit
      BY <1>3, <2>2, <3>2, <3>3, <3>4 DEF TrussLoadsOn
    <3>6. ASSUME load \in Fit PROVE r[k] = load
      <4>1. load.member = NoId /\ (nodes = <<>> \/ load.node \in Ids(nodes))
        BY <1>3, <2>2, <3>6 DEF TrussLoadsOn
      <4>2. id = load.node
        BY <3>2, <4>1
      <4> QED  BY <2>1, <3>3, <4>1, <4>2
    <3> QED  BY <3>5, <3>6 DEF load
  <2>3. CASE load.type # "nodal"
    <3> DEFINE id == pickExistingId(load.member, members, NoId)
    <3>1. r[k] = [load EXCEPT !.member = id, !.node = NoId]
      BY <1>1, <2>0, <2>3, Zenon
    <3>2. id \in Identifier /\ (members # <<>> => id \in Ids(members))
          /\ (members = <<>> \/ load.member \in Ids(members) => id = load.member)
      BY <2>1, PickIsThere, MembersAreNamed
    <3> HIDE DEF id
    <3>3. r[k] = [type |-> load.type, node |-> NoId, member |-> id, from |-> load.from,
                   to |-> load.to, at |-> load.at, role |-> load.role]
      BY <2>1, <3>1
    <3>4. r[k] \in T
      BY <2>1, <3>2, <3>3, NoIdIs DEF LoadOf
    <3>5. r[k] \in Fit
      BY <1>3, <2>3, <3>2, <3>3, <3>4 DEF TrussLoadsOn
    <3>6. ASSUME load \in Fit PROVE r[k] = load
      <4>1. load.node = NoId /\ (members = <<>> \/ load.member \in Ids(members))
        BY <1>3, <2>3, <3>6 DEF TrussLoadsOn
      <4>2. id = load.member
        BY <3>2, <4>1
      <4> QED  BY <2>1, <3>3, <4>1, <4>2
    <3> QED  BY <3>5, <3>6 DEF load
  <2> QED  BY <2>2, <2>3
<1>6. FunctionOn(r, DOMAIN FirstOf(s, MaxLoads))
  BY <1>1, Zenon DEF first, FunctionOn
<1>7. KeptIn(Fit, r, s, DOMAIN FirstOf(s, MaxLoads))
  BY <1>5 DEF first, KeptIn
<1>8. s \in Seq(T)
  OBVIOUS
<1> HIDE DEF Fit, T
<1>9. /\ r \in Seq(Fit) /\ Len(r) <= MaxLoads
      /\ s \in Seq(Fit) /\ Len(s) <= MaxLoads => r = s
      /\ Len(r) = IF Len(s) < MaxLoads THEN Len(s) ELSE MaxLoads
  BY <1>6, <1>7, <1>8, LoadsBecomeFit
<1> QED  BY <1>9 DEF r, Fit

TrussMembersFit(members, nodes) ==
  /\ Len(members) <= MaxTrussMembers /\ Apart(members)
  /\ \A k \in DOMAIN members : nodes = <<>> \/ {members[k].start, members[k].end} \subseteq Ids(nodes)

LEMMA TrussMembersBecomeFit ==
  ASSUME NEW s \in Seq(Member), NEW Node, Named(Node), NEW nodes \in Seq(Node)
  PROVE  /\ normalizeTrussMembers(s, nodes) \in Seq(Member)
         /\ TrussMembersFit(normalizeTrussMembers(s, nodes), nodes)
         /\ TrussMembersFit(s, nodes) => normalizeTrussMembers(s, nodes) = s
         /\ Len(normalizeTrussMembers(s, nodes)) = IF Len(s) < MaxTrussMembers THEN Len(s) ELSE MaxTrussMembers
<1> DEFINE first == FirstOf(s, MaxTrussMembers)
           named == DistinctNames(first)
           tied(member, k) == [member EXCEPT !.start = pickExistingId(@, nodes, defaultTrussEnds(k)[1]),
                                             !.end = pickExistingId(@, nodes, defaultTrussEnds(k)[2])]
           r == [k \in DOMAIN named |-> tied(named[k], k)]
<1>1. /\ first \in Seq(Member) /\ Len(first) <= MaxTrussMembers /\ (Len(s) <= MaxTrussMembers => first = s)
      /\ Len(first) = IF Len(s) < MaxTrussMembers THEN Len(s) ELSE MaxTrussMembers
  BY TrussLimitsAssumption, FirstOfIsSeq
<1>2. named \in Seq(Member) /\ Len(named) = Len(first) /\ Apart(named) /\ (Apart(first) => named = first)
  <2> HIDE DEF first
  <2> QED  BY <1>1, DistinctNamesAre, MembersAreNamed
<1>3. ASSUME NEW member \in Member, NEW k \in Nat
      PROVE  /\ tied(member, k) \in Member /\ tied(member, k).id = member.id
             /\ nodes = <<>> \/ {tied(member, k).start, tied(member, k).end} \subseteq Ids(nodes)
             /\ nodes = <<>> \/ {member.start, member.end} \subseteq Ids(nodes) => tied(member, k) = member
  <2> DEFINE a == pickExistingId(member.start, nodes, defaultTrussEnds(k)[1])
             b == pickExistingId(member.end, nodes, defaultTrussEnds(k)[2])
  <2>1. member.start \in Identifier /\ member.end \in Identifier
    BY DEF Member
  <2>2. /\ a \in Identifier /\ (nodes # <<>> => a \in Ids(nodes))
        /\ (nodes = <<>> \/ member.start \in Ids(nodes) => a = member.start)
    BY <2>1, PickIsThere
  <2>3. /\ b \in Identifier /\ (nodes # <<>> => b \in Ids(nodes))
        /\ (nodes = <<>> \/ member.end \in Ids(nodes) => b = member.end)
    BY <2>1, PickIsThere
  <2>5. tied(member, k) = [member EXCEPT !.start = a, !.end = b]
    OBVIOUS
  <2> HIDE DEF a, b
  <2>7. member = [id |-> member.id, start |-> member.start, end |-> member.end, hinges |-> member.hinges]
        /\ member.id \in Identifier /\ member.hinges \in Seq(Int)
    BY DEF Member
  <2> HIDE DEF tied
  <2>6. tied(member, k) = [id |-> member.id, start |-> a, end |-> b, hinges |-> member.hinges]
    BY <2>5, <2>7
  <2>8. tied(member, k) \in Member
    BY <2>2, <2>3, <2>6, <2>7 DEF Member
  <2>9. nodes = <<>> \/ {tied(member, k).start, tied(member, k).end} \subseteq Ids(nodes)
    BY <2>2, <2>3, <2>6
  <2>11. tied(member, k).id = member.id
    BY <2>6
  <2>10. ASSUME nodes = <<>> \/ {member.start, member.end} \subseteq Ids(nodes) PROVE tied(member, k) = member
    <3>1. a = member.start /\ b = member.end
      BY <2>2, <2>3, <2>10
    <3> QED  BY <2>6, <2>7, <3>1
  <2> HIDE DEF tied
  <2> QED  BY <2>8, <2>9, <2>10, <2>11
<1>4. normalizeTrussMembers(s, nodes) = r
  BY DEF normalizeTrussMembers
<1> HIDE DEF named, first, tied
<1>5. \A k \in DOMAIN named : r[k] = tied(named[k], k) /\ named[k] \in Member /\ k \in Nat
  BY <1>2
<1>6. r \in Seq(Member) /\ Len(r) = Len(named) /\ DOMAIN r = DOMAIN named
  <2>1. r = [k \in DOMAIN named |-> r[k]] /\ \A k \in DOMAIN named : r[k] \in Member
    BY <1>3, <1>5
  <2> HIDE DEF r
  <2> QED  BY <1>2, <2>1, MapIsSeq
<1> HIDE DEF r
<1>7. TrussMembersFit(r, nodes)
  <2>1. Len(r) <= MaxTrussMembers
    BY <1>1, <1>2, <1>6
  <2>2. Apart(r)
    BY <1>2, <1>3, <1>5, <1>6 DEF Apart
  <2>3. ASSUME NEW k \in DOMAIN r PROVE nodes = <<>> \/ {r[k].start, r[k].end} \subseteq Ids(nodes)
    <3>1. k \in Nat /\ named[k] \in Member /\ r[k] = tied(named[k], k)
      BY <1>5, <1>6
    <3> DEFINE new == tied(named[k], k)
    <3>2. nodes = <<>> \/ {new.start, new.end} \subseteq Ids(nodes)
      BY <1>3, <3>1
    <3>3. r[k] = new
      BY <3>1
    <3> HIDE DEF new
    <3> QED  BY <3>2, <3>3, Zenon
  <2> QED  BY <2>1, <2>2, <2>3 DEF TrussMembersFit
<1>8. ASSUME TrussMembersFit(s, nodes) PROVE r = s
  <2>1. named = s
    BY <1>1, <1>2, <1>8 DEF TrussMembersFit
  <2>2. \A k \in DOMAIN s : r[k] = s[k]
    <3> SUFFICES ASSUME NEW k \in DOMAIN s PROVE r[k] = s[k]
      OBVIOUS
    <3>1. nodes = <<>> \/ {s[k].start, s[k].end} \subseteq Ids(nodes)
      BY <1>8 DEF TrussMembersFit
    <3> QED  BY <1>3, <1>5, <2>1, <3>1
  <2> QED  BY <1>6, <2>1, <2>2, SameSeqs
<1> QED  BY <1>1, <1>2, <1>4, <1>6, <1>7, <1>8

TrussFits(m) ==
  LET Fit == TrussLoadsOn(Ids(m.nodes), Ids(m.members))
  IN /\ Len(m.nodes) <= MaxTrussNodes /\ Apart(m.nodes)
     /\ TrussMembersFit(m.members, m.nodes)
     /\ m.loads \in Seq(Fit) /\ Len(m.loads) <= MaxLoads
     /\ CasesFit(m.cases, Fit)
     /\ CombinationsFit(m.combinations, m.cases)

LEMMA TrussBecomesFit ==
  ASSUME NEW m \in Trusses
  PROVE  /\ normalizeTrussWorkspaceState(m) \in Trusses
         /\ TrussFits(normalizeTrussWorkspaceState(m))
         /\ TrussFits(m) => normalizeTrussWorkspaceState(m) = m
         /\ Len(normalizeTrussWorkspaceState(m).nodes) = IF Len(m.nodes) < MaxTrussNodes THEN Len(m.nodes) ELSE MaxTrussNodes
         /\ Len(normalizeTrussWorkspaceState(m).members) = IF Len(m.members) < MaxTrussMembers THEN Len(m.members) ELSE MaxTrussMembers
         /\ Len(normalizeTrussWorkspaceState(m).cases) = IF Len(m.cases) < MaxCases THEN Len(m.cases) ELSE MaxCases
<1> DEFINE nodes == normalizeTrussNodes(m.nodes)
           members == normalizeTrussMembers(m.members, nodes)
           T == LoadOf(TrussTypes)
           F == [s \in Seq(T) |-> normalizeTrussLoads(s, nodes, members, FALSE)]
           Fit == TrussLoadsOn(Ids(nodes), Ids(members))
           loads == normalizeTrussLoads(m.loads, nodes, members, TRUE)
           cases == normalizeTrussLoadCases(m.cases, nodes, members)
           combinations == normalizeTrussCombinations(m.combinations, cases)
           r == normalizeTrussWorkspaceState(m)
<1>1. /\ m.nodes \in Seq(TrussNode) /\ m.members \in Seq(Member) /\ m.loads \in Seq(T)
      /\ m.cases \in Seq(CaseOf(TrussTypes)) /\ m.combinations \in Seq(Combination)
      /\ m = [nodes |-> m.nodes, members |-> m.members, loads |-> m.loads, cases |-> m.cases,
              combinations |-> m.combinations]
  BY DEF Trusses, Plane
<1>2. nodes \in Seq(TrussNode) /\ Len(nodes) <= MaxTrussNodes /\ Apart(nodes)
      /\ (Len(m.nodes) <= MaxTrussNodes /\ Apart(m.nodes) => nodes = m.nodes)
      /\ Len(nodes) = IF Len(m.nodes) < MaxTrussNodes THEN Len(m.nodes) ELSE MaxTrussNodes
  <2> DEFINE first == FirstOf(m.nodes, MaxTrussNodes)
  <2>1. /\ first \in Seq(TrussNode) /\ Len(first) <= MaxTrussNodes /\ (Len(m.nodes) <= MaxTrussNodes => first = m.nodes)
        /\ Len(first) = IF Len(m.nodes) < MaxTrussNodes THEN Len(m.nodes) ELSE MaxTrussNodes
    <3>1. MaxTrussNodes \in Nat /\ m.nodes \in Seq(TrussNode)
      BY <1>1, TrussLimitsAssumption
    <3> QED  BY <3>1, FirstOfIsSeq
  <2>2. nodes = DistinctNames(first)
    BY DEF normalizeTrussNodes
  <2> HIDE DEF first, nodes
  <2>3. nodes \in Seq(TrussNode) /\ Len(nodes) = Len(first) /\ Apart(nodes) /\ (Apart(first) => nodes = first)
    BY <2>1, <2>2, DistinctNamesAre, TrussNodesAreNamed
  <2> QED  BY <2>1, <2>3
<1> HIDE DEF nodes
<1>3. members \in Seq(Member) /\ TrussMembersFit(members, nodes)
      /\ (TrussMembersFit(m.members, nodes) => members = m.members)
      /\ Len(members) = IF Len(m.members) < MaxTrussMembers THEN Len(m.members) ELSE MaxTrussMembers
  BY <1>1, <1>2, TrussNodesAreNamed, TrussMembersBecomeFit
<1> HIDE DEF members
<1>4. Fit \in SUBSET T
  BY DEF TrussLoadsOn
<1>5. \A fallbacks \in BOOLEAN : \A s \in Seq(T) :
        LET new == normalizeTrussLoads(s, nodes, members, fallbacks)
        IN new \in Seq(Fit) /\ Len(new) <= MaxLoads /\ (s \in Seq(Fit) /\ Len(s) <= MaxLoads => new = s)
  BY <1>2, <1>3, TrussNodesAreNamed, TrussLoadsBecomeFit
<1>6. \A s \in Seq(Fit) : s \in Seq(T)
  <2> HIDE DEF Fit, T
  <2> QED  BY <1>4
<1> HIDE DEF Fit
<1>7. loads \in Seq(Fit) /\ Len(loads) <= MaxLoads /\ loads \in Seq(T)
      /\ (m.loads \in Seq(Fit) /\ Len(m.loads) <= MaxLoads => loads = m.loads)
  BY <1>1, <1>5, <1>6
<1> HIDE DEF T
<1>8. /\ F \in [Seq(T) -> Seq(T)]
      /\ \A s \in Seq(T) :
           F[s] \in Seq(Fit) /\ Len(F[s]) <= MaxLoads /\ (s \in Seq(Fit) /\ Len(s) <= MaxLoads => F[s] = s)
  BY <1>5, <1>6
<1>9. NamedCasesWith(F, m.cases, cases)
  <2> DEFINE named == DistinctNames(FirstOf(m.cases, MaxCases))
  <2>1. named \in Seq(CaseOf(TrussTypes))
    <3>1. MaxCases \in Nat
      BY CutsAssumption
    <3>2. FirstOf(m.cases, MaxCases) \in Seq(CaseOf(TrussTypes))
      BY <1>1, <3>1, FirstOfIsSeq
    <3> QED  BY <3>2, CasesAreNamed, DistinctNamesAre
  <2>2. cases = [k \in DOMAIN named |->
                  [named[k] EXCEPT !.loads = normalizeTrussLoads(@, nodes, members, FALSE)]]
    BY DEF normalizeTrussLoadCases
  <2> HIDE DEF named, cases
  <2>3. \A k \in DOMAIN named : named[k].loads \in Seq(T)
    <3> SUFFICES ASSUME NEW k \in DOMAIN named PROVE named[k].loads \in Seq(T)
      OBVIOUS
    <3>1. named[k] \in CaseOf(TrussTypes)
      BY <2>1
    <3> QED  BY <3>1 DEF CaseOf, T
  <2>4. \A k \in DOMAIN named : F[named[k].loads] = normalizeTrussLoads(named[k].loads, nodes, members, FALSE)
    BY <2>3
  <2> HIDE DEF F
  <2>5. cases = [k \in DOMAIN named |-> [named[k] EXCEPT !.loads = F[named[k].loads]]]
    BY <2>2, <2>4
  <2> QED  BY <2>5 DEF named, NamedCasesWith
<1>10. /\ cases \in Seq(CaseOf(TrussTypes)) /\ CasesFit(cases, Fit)
       /\ CasesFit(m.cases, Fit) => cases = m.cases
       /\ Len(cases) = IF Len(m.cases) < MaxCases THEN Len(m.cases) ELSE MaxCases
  <2> HIDE DEF F, cases
  <2>1. Fit \in SUBSET LoadOf(TrussTypes)
    BY <1>4 DEF T
  <2>2. Refits(F, TrussTypes, Fit)
    BY <1>8 DEF T, Refits
  <2> QED  BY <1>1, <1>9, <2>1, <2>2, FitCasesAreKept
<1> HIDE DEF cases, F
<1>11. /\ combinations \in Seq(Combination) /\ CombinationsFit(combinations, cases)
       /\ CombinationsFit(m.combinations, cases) => combinations = m.combinations
  BY <1>1, <1>10, CombinationsBecomeFit DEF normalizeTrussCombinations
<1> HIDE DEF combinations, loads
<1>12. r = [nodes |-> nodes, members |-> members, loads |-> loads, cases |-> cases, combinations |-> combinations]
  BY DEF normalizeTrussWorkspaceState, nodes, members, loads, cases, combinations
<1> HIDE DEF r
<1>13. r \in Trusses
  BY <1>2, <1>3, <1>7, <1>10, <1>11, <1>12 DEF Trusses, Plane, T
<1>14. r.nodes = nodes /\ r.members = members /\ r.loads = loads /\ r.cases = cases /\ r.combinations = combinations
  BY <1>12
<1>15. TrussFits(r)
  BY <1>2, <1>3, <1>7, <1>10, <1>11, <1>14 DEF TrussFits, Fit
<1>16. ASSUME TrussFits(m) PROVE r = m
  <2>1. nodes = m.nodes
    BY <1>2, <1>16 DEF TrussFits
  <2>2. members = m.members
    BY <1>3, <1>16, <2>1 DEF TrussFits
  <2>3. Fit = TrussLoadsOn(Ids(m.nodes), Ids(m.members))
    BY <2>1, <2>2 DEF Fit
  <2>4. loads = m.loads /\ cases = m.cases
    BY <1>7, <1>10, <1>16, <2>3 DEF TrussFits
  <2>5. combinations = m.combinations
    BY <1>11, <1>16, <2>4 DEF TrussFits
  <2> QED  BY <1>1, <1>12, <2>1, <2>2, <2>4, <2>5
<1> QED  BY <1>2, <1>3, <1>10, <1>13, <1>14, <1>15, <1>16 DEF r

(* Things with names that are each put right and cut to a limit. *)
NamedFit(s, max, Fit) == s \in Seq(Fit) /\ Len(s) <= max /\ Apart(s)

(* What is put right by f keeps its name, and stays as it is if it was right. *)
PutsRight(f, T, Fit) ==
  /\ f \in [T -> T]
  /\ \A x \in T : f[x] \in Fit /\ f[x].id = x.id /\ (x \in Fit => f[x] = x)

EachNamed(f, s, max, r) ==
  r = [k \in DOMAIN DistinctNames(FirstOf(s, max)) |-> f[DistinctNames(FirstOf(s, max))[k]]]

LEMMA EachBecomesFit ==
  ASSUME NEW T, Named(T), NEW s \in Seq(T), NEW max \in Nat, NEW Fit, NEW f, PutsRight(f, T, Fit),
         NEW r, EachNamed(f, s, max, r)
  PROVE  /\ r \in Seq(T) /\ NamedFit(r, max, Fit)
         /\ NamedFit(s, max, Fit) => r = s
         /\ Len(r) = IF Len(s) < max THEN Len(s) ELSE max
<1> DEFINE first == FirstOf(s, max)
           named == DistinctNames(first)
<1>1. /\ first \in Seq(T) /\ Len(first) <= max /\ (Len(s) <= max => first = s)
      /\ Len(first) = IF Len(s) < max THEN Len(s) ELSE max
  BY FirstOfIsSeq
<1>2. named \in Seq(T) /\ Len(named) = Len(first) /\ Apart(named) /\ (Apart(first) => named = first)
  <2> HIDE DEF first
  <2> QED  BY <1>1, DistinctNamesAre
<1>3. r = [k \in DOMAIN named |-> f[named[k]]]
  BY Zenon DEF EachNamed
<1> HIDE DEF named, first
<1>4. ASSUME NEW k \in DOMAIN named
      PROVE  r[k] \in T /\ r[k] \in Fit /\ r[k].id = named[k].id /\ (named[k] \in Fit => r[k] = named[k])
  BY <1>2, <1>3 DEF PutsRight
<1>5. r \in Seq(T) /\ Len(r) = Len(named) /\ DOMAIN r = DOMAIN named
  <2> DEFINE g == r
  <2>1. g = [k \in DOMAIN named |-> g[k]] /\ \A k \in DOMAIN named : g[k] \in T
    BY <1>3, <1>4, Zenon
  <2> HIDE DEF g
  <2>2. g \in Seq(T) /\ Len(g) = Len(named) /\ DOMAIN g = DOMAIN named
    BY <1>2, <2>1, MapIsSeq
  <2> QED  BY <2>2 DEF g
<1>6. r \in Seq(Fit)
  <2>1. \A k \in DOMAIN r : r[k] \in Fit
    BY <1>4, <1>5
  <2> QED  BY <1>5, <2>1
<1>7. Apart(r)
  <2>1. \A k \in DOMAIN named : r[k].id = named[k].id
    BY <1>4
  <2> QED  BY <1>2, <1>5, <2>1 DEF Apart
<1>8. ASSUME NamedFit(s, max, Fit) PROVE r = s
  <2>1. named = s /\ s \in Seq(Fit)
    BY <1>1, <1>2, <1>8 DEF NamedFit
  <2>2. \A k \in DOMAIN s : s[k] \in Fit
    BY <2>1
  <2>3. \A k \in DOMAIN s : r[k] = s[k]
    BY <1>4, <2>1, <2>2
  <2> QED  BY <1>5, <2>1, <2>3, SameSeqs
<1> QED  BY <1>1, <1>2, <1>5, <1>6, <1>7, <1>8 DEF NamedFit

----------------------------------------------------------------------------
(* Beams. *)
Beams ==
  [beamType : {"continuous", "cantilever", "simply_supported"}, spans : Seq(Span),
   supports : Seq(BeamSupport), uniform : [on : BOOLEAN, from : Int, to : Int],
   linear : [on : BOOLEAN, loads : Seq(BeamRange)], points : Seq(BeamPoint), pointAt : Int,
   cases : Seq(BeamCase), combinations : Seq(Combination)]

LEMMA SpansAreNamed == Named(Span)
BY DEF Named, Span
LEMMA SupportsAreNamed == Named(BeamSupport)
BY DEF Named, BeamSupport
LEMMA RangesAreNamed == Named(BeamRange)
BY DEF Named, BeamRange
LEMMA PointsAreNamed == Named(BeamPoint)
BY DEF Named, BeamPoint
LEMMA BeamCasesAreNamed == Named(BeamCase)
BY DEF Named, BeamCase

(* The limits of a beam, each by itself. *)
LEMMA BeamLimitsAre ==
  /\ MaxBeamSpans \in Nat \ {0} /\ MaxBeamSupports \in Nat \ {0} /\ MaxBeamLoads \in Nat \ {0}
  /\ DefaultLength \in Nat \ {0} /\ MaxCases \in Nat
BY BeamLimitsAssumption, CutsAssumption

(* Where the spans begin and end: each boundary lies the length of a span
   behind the one before. *)
LEMMA BoundariesAre ==
  ASSUME NEW spans \in Seq(Span)
  PROVE  LET ends == beamSpanBoundaries(spans)
         IN /\ ends \in Seq(Int) /\ Len(ends) = Len(spans) + 1 /\ DOMAIN ends = 1..Len(spans) + 1
            /\ ends[1] = 0
            /\ \A k \in 1..Len(spans) : ends[k + 1] = ends[k] + spans[k].length
<1> DEFINE n == Len(spans)
           Recurs(g) == g = [k \in 1..n + 1 |-> IF k = 1 THEN 0 ELSE g[k - 1] + spans[k - 1].length]
           step == [k \in 1..n |-> [x \in Int |-> x + spans[k].length]]
<1>0. n \in Nat /\ \A k \in 1..n : spans[k].length \in Int
  <2>1. \A k \in 1..n : spans[k] \in Span
    OBVIOUS
  <2> QED  BY <2>1 DEF Span
<1>1. step \in [1..n -> [Int -> Int]]
  BY <1>0
<1>2. PICK f \in [0..n -> Int] : f[0] = 0 /\ \A k \in 1..n : f[k] = f[k - 1] + spans[k].length
  <2> DEFINE zero == 0
             X == Int
  <2>1. zero \in X /\ step \in [1..n -> [X -> X]]
    BY <1>1
  <2> HIDE DEF step, X, n, zero
  <2>2. PICK f : MeetsRecursion(f, n, X, zero, step)
    BY <1>0, <2>1, RecursionIsMet
  <2>3. f \in [0..n -> Int] /\ f[0] = 0 /\ \A k \in 1..n : f[k] = step[k][f[k - 1]]
    BY <2>2 DEF MeetsRecursion, zero, X
  <2>4. \A k \in 1..n : f[k - 1] \in Int
    BY <1>0, <2>3
  <2>5. \A k \in 1..n : f[k] = f[k - 1] + spans[k].length
    BY <2>3, <2>4 DEF step
  <2> QED  BY <2>3, <2>5
<1> DEFINE g0 == [k \in 1..n + 1 |-> f[k - 1]]
<1>3. Recurs(g0)
  <2>1. \A k \in 1..n + 1 : g0[k] = IF k = 1 THEN 0 ELSE g0[k - 1] + spans[k - 1].length
    <3> SUFFICES ASSUME NEW k \in 1..n + 1, k # 1 PROVE g0[k] = g0[k - 1] + spans[k - 1].length
      BY <1>2
    <3>1. k - 1 \in 1..n /\ k - 1 \in 1..n + 1 /\ k \in 1..n + 1
      BY <1>0
    <3>2. g0[k] = f[k - 1] /\ g0[k - 1] = f[(k - 1) - 1]
      BY <3>1
    <3> QED  BY <1>2, <3>1, <3>2
  <2>2. g0 = [k \in 1..n + 1 |-> g0[k]]
    OBVIOUS
  <2> HIDE DEF g0, n
  <2> QED  BY <2>1, <2>2
<1> DEFINE ends == CHOOSE g : Recurs(g)
<1>4. Recurs(ends)
  <2> HIDE DEF Recurs
  <2> QED  BY <1>3
<1>5. beamSpanBoundaries(spans) = ends
  BY DEF beamSpanBoundaries
<1> HIDE DEF ends, g0
<1>6. DOMAIN ends = 1..n + 1 /\ \A k \in 1..n + 1 : ends[k] = IF k = 1 THEN 0 ELSE ends[k - 1] + spans[k - 1].length
  <2> HIDE DEF n
  <2> QED  BY <1>4
<1>7. \A k \in 1..n + 1 : ends[k] = f[k - 1]
  <2> DEFINE Fails == {k \in 1..n + 1 : ends[k] # f[k - 1]}
  <2> SUFFICES ASSUME Fails # {} PROVE FALSE
    OBVIOUS
  <2>1. PICK m \in Fails : \A j \in Fails : m <= j
    <3>1. Fails \in SUBSET Nat
      BY <1>0
    <3> HIDE DEF Fails
    <3> QED  BY <3>1, LeastNumber
  <2>2. m \in 1..n + 1 /\ m # 1
    BY <1>0, <1>2, <1>6
  <2>3. m - 1 \in 1..n + 1 /\ m - 1 \in 1..n /\ m - 1 \notin Fails
    BY <1>0, <2>1, <2>2
  <2>4. ends[m - 1] = f[(m - 1) - 1]
    BY <2>3
  <2>5. ends[m] = f[m - 1]
    BY <1>2, <1>6, <2>2, <2>3, <2>4
  <2> QED  BY <2>1, <2>5
<1>8. \A k \in 1..n + 1 : ends[k] \in Int
  <2>1. \A k \in 1..n + 1 : k - 1 \in 0..n
    BY <1>0
  <2>2. \A j \in 0..n : f[j] \in Int
    BY <1>2
  <2> QED  BY <1>7, <2>1, <2>2
<1>9. ends = [k \in 1..n + 1 |-> ends[k]]
  <2> HIDE DEF n
  <2> QED  BY <1>4
<1>10. ends \in Seq(Int) /\ Len(ends) = n + 1
  <2> HIDE DEF n
  <2> QED  BY <1>0, <1>8, <1>9
<1>11. ends[1] = 0
  BY <1>0, <1>6
<1>12. \A k \in 1..n : ends[k + 1] = ends[k] + spans[k].length
  <2> SUFFICES ASSUME NEW k \in 1..n PROVE ends[k + 1] = ends[k] + spans[k].length
    OBVIOUS
  <2>1. k + 1 \in 1..n + 1 /\ k + 1 # 1 /\ (k + 1) - 1 = k
    BY <1>0
  <2> QED  BY <1>6, <2>1
<1> QED  BY <1>5, <1>6, <1>10, <1>11, <1>12

(* Without a span of negative length the boundaries lie in order. *)
LEMMA BoundariesRise ==
  ASSUME NEW spans \in Seq(Span), \A k \in DOMAIN spans : spans[k].length >= 0
  PROVE  /\ \A k \in DOMAIN beamSpanBoundaries(spans) : beamSpanBoundaries(spans)[k] \in 0..totalLength(spans)
         /\ totalLength(spans) \in Nat
<1> DEFINE ends == beamSpanBoundaries(spans)
           n == Len(spans)
<1>1. /\ n \in Nat /\ ends \in Seq(Int) /\ DOMAIN ends = 1..n + 1 /\ ends[1] = 0
      /\ \A k \in 1..n : ends[k + 1] = ends[k] + spans[k].length
  BY BoundariesAre
<1>2. \A k \in 1..n : spans[k].length \in Nat
  <2>1. \A k \in 1..n : spans[k] \in Span /\ spans[k].length >= 0
    OBVIOUS
  <2> QED  BY <2>1 DEF Span
<1>3. totalLength(spans) = ends[n + 1]
  BY DEF totalLength
<1> HIDE DEF ends, n
<1>4. \A k \in 1..n + 1 : ends[k] \in Int
  BY <1>1
<1>5. \A k \in 1..n + 1 : ends[k] >= 0
  <2> DEFINE Fails == {k \in 1..n + 1 : ~(ends[k] >= 0)}
  <2> SUFFICES ASSUME Fails # {} PROVE FALSE
    OBVIOUS
  <2>1. PICK m \in Fails : \A j \in Fails : m <= j
    <3>1. Fails \in SUBSET Nat
      BY <1>1
    <3> HIDE DEF Fails
    <3> QED  BY <3>1, LeastNumber
  <2>2. m \in 1..n + 1 /\ m # 1
    BY <1>1
  <2>3. m - 1 \in 1..n + 1 /\ m - 1 \in 1..n /\ m - 1 \notin Fails /\ (m - 1) + 1 = m
    BY <1>1, <2>1, <2>2
  <2>4. ends[m - 1] >= 0 /\ ends[m] = ends[m - 1] + spans[m - 1].length
    BY <1>1, <2>3
  <2>5. ends[m] >= 0
    BY <1>2, <1>4, <2>3, <2>4
  <2> QED  BY <2>1, <2>5
<1>6. \A k \in 1..n + 1 : ends[k] <= ends[n + 1]
  <2> DEFINE Fails == {j \in 0..n : ~(ends[n + 1 - j] <= ends[n + 1])}
  <2>0. Fails = {}
    <3> SUFFICES ASSUME Fails # {} PROVE FALSE
      OBVIOUS
    <3>1. PICK m \in Fails : \A j \in Fails : m <= j
      <4>1. Fails \in SUBSET Nat
        BY <1>1
      <4> HIDE DEF Fails
      <4> QED  BY <4>1, LeastNumber
    <3>2. m \in 0..n /\ m # 0
      BY <1>1, <1>4
    <3>3. m - 1 \in 0..n /\ m - 1 \notin Fails
      <4>1. m - 1 \in 0..n /\ ~(m <= m - 1)
        BY <1>1, <3>2
      <4> HIDE DEF Fails
      <4> QED  BY <3>1, <4>1
    <3>4. ends[n + 1 - (m - 1)] <= ends[n + 1]
      BY <3>3
    <3>5. n + 1 - m \in 1..n /\ n + 1 - (m - 1) = (n + 1 - m) + 1 /\ (n + 1 - m) + 1 \in 1..n + 1 /\ n + 1 - m \in 1..n + 1
          /\ n + 1 \in 1..n + 1
      BY <1>1, <3>2
    <3>6. ends[n + 1 - (m - 1)] = ends[n + 1 - m] + spans[n + 1 - m].length
      BY <1>1, <3>5
    <3>7. ends[n + 1 - m] \in Int /\ ends[n + 1] \in Int /\ spans[n + 1 - m].length \in Nat
      BY <1>2, <1>4, <3>5
    <3>8. ends[n + 1 - m] <= ends[n + 1]
      BY <3>4, <3>6, <3>7
    <3> QED  BY <3>1, <3>8
  <2> SUFFICES ASSUME NEW k \in 1..n + 1 PROVE ends[k] <= ends[n + 1]
    OBVIOUS
  <2>1. n + 1 - k \in 0..n /\ n + 1 - (n + 1 - k) = k
    BY <1>1
  <2>2. n + 1 - k \notin Fails
    BY <2>0
  <2> QED  BY <2>1, <2>2
<1>7. n + 1 \in 1..n + 1
  BY <1>1
<1>8. totalLength(spans) \in Nat
  BY <1>3, <1>4, <1>5, <1>7
<1>9. \A k \in DOMAIN ends : ends[k] \in 0..totalLength(spans)
  BY <1>1, <1>3, <1>4, <1>5, <1>6
<1> QED  BY <1>8, <1>9 DEF ends

(* A support by default is named by its place, and states what it holds. *)
DefaultSupports == {support \in BeamSupport : support.held # Unstated /\ support.id.stem = "S"}

LEMMA DefaultSupportIs ==
  ASSUME NEW k \in Int, NEW x \in Int, NEW type \in {"fixed", "pinned", "roller", "free"},
         NEW held \in SUBSET {"v", "rz"}
  PROVE  [id |-> Draft("S", k), x |-> x, type |-> type, held |-> held, springs |-> {}] \in DefaultSupports
<1> DEFINE s == [id |-> Draft("S", k), x |-> x, type |-> type, held |-> held, springs |-> {}]
<1>1. "S" \in Text
  BY DEF Text
<1>2. Draft("S", k) \in Identifier
  BY <1>1, DraftIsIdentifier
<1>3. Draft("S", k).stem = "S"
  BY DEF Draft
<1>4. held # Unstated
  BY DEF Unstated
<1> DEFINE id == Draft("S", k)
<1> HIDE DEF id
<1>5. [id |-> id, x |-> x, type |-> type, held |-> held, springs |-> {}] \in DefaultSupports
  <2>1. id \in Identifier /\ id.stem = "S"
    BY <1>2, <1>3 DEF id
  <2> QED  BY <1>4, <2>1 DEF DefaultSupports, BeamSupport
<1> QED  BY <1>5 DEF id

BeamTypes == {"continuous", "cantilever", "simply_supported"}

(* Where the supports stand by default: a cantilever has one at its beginning,
   a simple beam one at each end, a continuous one at each boundary. *)
LEMMA DefaultSupportsAre ==
  ASSUME NEW spans \in Seq(Span), NEW beamType \in BeamTypes
  PROVE  LET D == defaultBeamSupports(beamType, spans)
             ends == beamSpanBoundaries(spans)
         IN /\ D \in Seq(DefaultSupports) /\ Len(D) \in 1..Len(spans) + 2
            /\ \A k \in DOMAIN D : \E b \in DOMAIN ends : D[k].x = ends[b]
            /\ beamType = "cantilever" => Len(D) = 1
            /\ beamType = "simply_supported" => Len(D) = 2
            /\ beamType = "continuous" => Len(D) = Len(spans) + 1
<1> DEFINE D == defaultBeamSupports(beamType, spans)
           ends == beamSpanBoundaries(spans)
           n == Len(spans)
           at(k, type, held) ==
             [id |-> Draft("S", k), x |-> ends[k], type |-> type, held |-> held, springs |-> {}]
<1>1. n \in Nat /\ ends \in Seq(Int) /\ DOMAIN ends = 1..n + 1 /\ Len(ends) = n + 1
  BY BoundariesAre
<1>2. \A k \in 1..n + 1 : ends[k] \in Int
  <2> HIDE DEF ends, n
  <2> QED  BY <1>1
<1>3. CASE beamType = "cantilever"
  <2>1. D = <<at(1, "fixed", {"v", "rz"})>>
    BY <1>3 DEF defaultBeamSupports
  <2> HIDE DEF ends, D, n
  <2>2. 1 \in 1..n + 1
    BY <1>1
  <2>3. at(1, "fixed", {"v", "rz"}) \in DefaultSupports
    BY <1>2, <2>2, DefaultSupportIs
  <2>4. at(1, "fixed", {"v", "rz"}).x = ends[1]
    OBVIOUS
  <2> HIDE DEF at
  <2>5. D \in Seq(DefaultSupports) /\ Len(D) = 1 /\ D[1].x = ends[1]
    BY <2>1, <2>3, <2>4
  <2>6. \A k \in DOMAIN D : \E b \in DOMAIN ends : D[k].x = ends[b]
    BY <1>1, <2>2, <2>5
  <2> QED  BY <1>1, <1>3, <2>5, <2>6 DEF D, ends, n
<1>4. CASE beamType = "simply_supported"
  <2> DEFINE last == [at(Len(ends), "roller", {"v"}) EXCEPT !.id = Draft("S", 2)]
  <2>1. D = <<at(1, "pinned", {"v"}), last>>
    BY <1>4 DEF defaultBeamSupports
  <2> HIDE DEF ends, D, n
  <2>2. 1 \in 1..n + 1 /\ n + 1 \in 1..n + 1 /\ Len(ends) = n + 1
    BY <1>1
  <2>3. last = [id |-> Draft("S", 2), x |-> ends[n + 1], type |-> "roller", held |-> {"v"}, springs |-> {}]
    <3>1. last = [at(n + 1, "roller", {"v"}) EXCEPT !.id = Draft("S", 2)]
      BY <2>2
    <3> DEFINE a == Draft("S", n + 1)  b == Draft("S", 2)  x == ends[n + 1]  held == {"v"}
    <3> HIDE DEF a, b, x, held, last
    <3>2. last = [[id |-> a, x |-> x, type |-> "roller", held |-> held, springs |-> {}] EXCEPT !.id = b]
      BY <3>1 DEF a, b, x, held
    <3>3. last = [id |-> b, x |-> x, type |-> "roller", held |-> held, springs |-> {}]
      BY <3>2
    <3> QED  BY <3>3 DEF b, x, held
  <2> HIDE DEF last
  <2>4. at(1, "pinned", {"v"}) \in DefaultSupports
    BY <1>2, <2>2, DefaultSupportIs
  <2>5. last \in DefaultSupports
    BY <1>2, <2>2, <2>3, DefaultSupportIs
  <2>6. at(1, "pinned", {"v"}).x = ends[1] /\ last.x = ends[n + 1]
    BY <2>3
  <2> HIDE DEF at
  <2>7. D \in Seq(DefaultSupports) /\ Len(D) = 2 /\ D[1].x = ends[1] /\ D[2].x = ends[n + 1]
    BY <2>1, <2>4, <2>5, <2>6
  <2>8. \A k \in DOMAIN D : \E b \in DOMAIN ends : D[k].x = ends[b]
    BY <1>1, <2>2, <2>7
  <2> QED  BY <1>1, <1>4, <2>7, <2>8 DEF D, ends, n
<1>5. CASE beamType = "continuous"
  <2> DEFINE type(k) == IF k = Len(ends) THEN "roller" ELSE "pinned"
  <2>1. D = [k \in 1..Len(ends) |-> at(k, type(k), {"v"})]
    BY <1>5 DEF defaultBeamSupports
  <2> HIDE DEF ends, D, n
  <2>2. ASSUME NEW k \in 1..n + 1 PROVE D[k] \in DefaultSupports /\ D[k].x = ends[k]
    <3>1. D[k] = at(k, type(k), {"v"})
      BY <1>1, <2>1
    <3>2. type(k) \in {"fixed", "pinned", "roller", "free"}
      OBVIOUS
    <3> HIDE DEF type
    <3>3. at(k, type(k), {"v"}) \in DefaultSupports
      BY <1>2, <3>2, DefaultSupportIs
    <3> QED  BY <3>1, <3>3
  <2>3. D = [k \in 1..n + 1 |-> D[k]]
    BY <1>1, <2>1
  <2>4. D \in Seq(DefaultSupports) /\ Len(D) = n + 1
    <3>1. \A k \in 1..n + 1 : D[k] \in DefaultSupports
      BY <2>2
    <3> HIDE DEF at, type
    <3>2. n + 1 \in Nat
      BY <1>1
    <3>3. D \in [1..n + 1 -> DefaultSupports]
      BY <2>3, <3>1, Zenon
    <3> QED  BY <3>2, <3>3
  <2>5. \A k \in DOMAIN D : \E b \in DOMAIN ends : D[k].x = ends[b]
    BY <1>1, <2>2, <2>4
  <2> QED  BY <1>1, <1>5, <2>4, <2>5 DEF D, ends, n
<1> QED  BY <1>3, <1>4, <1>5 DEF BeamTypes

----------------------------------------------------------------------------
(* What the normalizer makes of the spans. *)
FitSpans == {span \in Span : span.length > 0}

SpansFit(spans) == spans # <<>> /\ NamedFit(spans, MaxBeamSpans, FitSpans)

LEMMA DefaultSpansAre == createDefaultBeamWorkspaceState.spans \in Seq(FitSpans)
                         /\ createDefaultBeamWorkspaceState.spans # <<>>
<1> DEFINE s == [k \in 1..2 |-> [id |-> Draft("(", k), length |-> DefaultLength]]
<1>1. createDefaultBeamWorkspaceState.spans = s
  BY DEF createDefaultBeamWorkspaceState
<1>2. "(" \in Text
  BY DEF Text
<1>3. \A k \in 1..2 : Draft("(", k) \in Identifier
  BY <1>2, DraftIsIdentifier
<1>4. \A k \in 1..2 : s[k] \in FitSpans
  BY <1>3, BeamLimitsAre DEF FitSpans, Span
<1>5. s = [k \in 1..2 |-> s[k]]
  OBVIOUS
<1> HIDE DEF s
<1>6. s \in Seq(FitSpans) /\ Len(s) = 2
  BY <1>4, <1>5
<1> QED  BY <1>1, <1>6

LEMMA SpansBecomeFit ==
  ASSUME NEW spans \in Seq(Span)
  PROVE  /\ normalizeBeamSpans(spans) \in Seq(Span)
         /\ SpansFit(normalizeBeamSpans(spans))
         /\ SpansFit(spans) => normalizeBeamSpans(spans) = spans
         /\ spans # <<>> /\ Len(spans) <= MaxBeamSpans => Len(normalizeBeamSpans(spans)) = Len(spans)
<1> DEFINE given == IF spans = <<>> THEN createDefaultBeamWorkspaceState.spans ELSE spans
           f == [span \in Span |-> [span EXCEPT !.length = IF @ > 0 THEN @ ELSE DefaultLength]]
           r == normalizeBeamSpans(spans)
           named == DistinctNames(FirstOf(given, MaxBeamSpans))
<1>1. given \in Seq(Span) /\ given # <<>> /\ (spans # <<>> => given = spans)
  <2>1. createDefaultBeamWorkspaceState.spans \in Seq(Span)
    BY DefaultSpansAre DEF FitSpans
  <2> QED  BY <2>1, DefaultSpansAre
<1>2. r = [k \in DOMAIN named |-> [named[k] EXCEPT !.length = IF @ > 0 THEN @ ELSE DefaultLength]]
  BY DEF normalizeBeamSpans, Each
<1> HIDE DEF given, r
<1>3. \A x \in Span : f[x] \in FitSpans /\ f[x] \in Span /\ f[x].id = x.id /\ (x \in FitSpans => f[x] = x)
  <2> SUFFICES ASSUME NEW x \in Span
               PROVE  f[x] \in FitSpans /\ f[x] \in Span /\ f[x].id = x.id /\ (x \in FitSpans => f[x] = x)
    OBVIOUS
  <2>1. x = [id |-> x.id, length |-> x.length] /\ x.id \in Identifier /\ x.length \in Int
    BY DEF Span
  <2>2. f[x] = [id |-> x.id, length |-> IF x.length > 0 THEN x.length ELSE DefaultLength]
    BY <2>1
  <2> HIDE DEF f
  <2> QED  BY <2>1, <2>2, BeamLimitsAre DEF FitSpans, Span
<1>4. PutsRight(f, Span, FitSpans)
  <2>1. f = [x \in Span |-> f[x]]
    OBVIOUS
  <2> HIDE DEF f
  <2> QED  BY <1>3, <2>1 DEF PutsRight
<1>5. MaxBeamSpans \in Nat /\ MaxBeamSpans >= 1
  BY BeamLimitsAre
<1>6. named \in Seq(Span)
  <2>1. FirstOf(given, MaxBeamSpans) \in Seq(Span)
    BY <1>1, <1>5, FirstOfIsSeq
  <2> QED  BY <2>1, SpansAreNamed, DistinctNamesAre
<1>7. EachNamed(f, given, MaxBeamSpans, r)
  <2> HIDE DEF named
  <2>1. \A k \in DOMAIN named : named[k] \in Span
    BY <1>6
  <2>2. \A k \in DOMAIN named : f[named[k]] = [named[k] EXCEPT !.length = IF @ > 0 THEN @ ELSE DefaultLength]
    BY <2>1
  <2> HIDE DEF f
  <2>3. r = [k \in DOMAIN named |-> f[named[k]]]
    BY <1>2, <2>2
  <2> QED  BY <2>3 DEF EachNamed, named
<1> HIDE DEF f, named
<1>8. /\ r \in Seq(Span) /\ NamedFit(r, MaxBeamSpans, FitSpans)
      /\ NamedFit(given, MaxBeamSpans, FitSpans) => r = given
      /\ Len(r) = IF Len(given) < MaxBeamSpans THEN Len(given) ELSE MaxBeamSpans
  BY <1>1, <1>4, <1>5, <1>7, SpansAreNamed, EachBecomesFit
<1>9. Len(given) \in Nat \ {0}
  BY <1>1
<1>10. r # <<>>
  BY <1>5, <1>8, <1>9
<1> QED  BY <1>1, <1>5, <1>8, <1>10 DEF SpansFit, r

(* The spans the normalizer leaves have a length, and so does the beam. *)
LEMMA FitSpansReach ==
  ASSUME NEW spans \in Seq(Span), SpansFit(spans)
  PROVE  /\ totalLength(spans) \in Nat
         /\ \A k \in DOMAIN beamSpanBoundaries(spans) : beamSpanBoundaries(spans)[k] \in 0..totalLength(spans)
<1>1. spans \in Seq(FitSpans)
  BY DEF SpansFit, NamedFit
<1>2. \A k \in DOMAIN spans : spans[k].length >= 0
  <2> SUFFICES ASSUME NEW k \in DOMAIN spans PROVE spans[k].length >= 0
    OBVIOUS
  <2>1. spans[k] \in FitSpans
    BY <1>1
  <2> QED  BY <2>1 DEF FitSpans, Span
<1> QED  BY <1>2, BoundariesRise

(* A support that stands on the beam, states what it holds, and does not go by
   the name of a node. *)
NodeName(id) == id.stem = "N" /\ id.n # 0 /\ id.tail = <<>>
SupportsOn(total) ==
  {support \in BeamSupport : support.x \in 0..total /\ support.held # Unstated /\ ~NodeName(support.id)}
SupportsFit(supports, total) == supports # <<>> /\ NamedFit(supports, MaxBeamSupports, SupportsOn(total))

(* What is named anew gets something appended to its name. *)
LEMMA SupportsBecomeFit ==
  ASSUME NEW supports \in Seq(BeamSupport), NEW D \in Seq(DefaultSupports), Len(D) >= 1, NEW total \in Nat
  PROVE  LET r == normalizeBeamSupports(supports, D, total)
         IN /\ r \in Seq(BeamSupport) /\ SupportsFit(r, total)
            /\ SupportsFit(supports, total) => r = supports
<1> DEFINE given == IF supports = <<>> THEN D ELSE supports
           kept == FirstOf(given, MaxBeamSupports)
           fallback(k) == D[smaller(k, Len(D))]
           called == [k \in DOMAIN kept |-> [kept[k] EXCEPT !.id = normalizeBeamSupportId(@, fallback(k))]]
           named == DistinctNames(called)
           r == normalizeBeamSupports(supports, D, total)
<1>1. given \in Seq(BeamSupport) /\ given # <<>> /\ (supports # <<>> => given = supports)
  <2>1. D \in Seq(BeamSupport) /\ D # <<>>
    <3>1. \A k \in 1..Len(D) : D[k] \in BeamSupport
      BY DEF DefaultSupports
    <3> QED  BY <3>1
  <2> QED  BY <2>1
<1>2. r = [k \in DOMAIN named |->
            [named[k] EXCEPT !.x = Clamped(@, 0, total),
                             !.held = IF @ = Unstated THEN fallback(k).held ELSE @]]
  BY DEF normalizeBeamSupports
<1> HIDE DEF given, r
<1>3. /\ kept \in Seq(BeamSupport) /\ Len(kept) >= 1 /\ Len(kept) <= MaxBeamSupports
      /\ Len(given) <= MaxBeamSupports => kept = given
  <2>1. MaxBeamSupports \in Nat /\ MaxBeamSupports >= 1 /\ Len(given) >= 1
    BY <1>1, BeamLimitsAre
  <2> QED  BY <1>1, <2>1, FirstOfIsSeq
<1> HIDE DEF kept
<1>4. \A k \in Nat \ {0} : fallback(k) \in DefaultSupports
  <2>1. \A k \in Nat \ {0} : smaller(k, Len(D)) \in 1..Len(D)
    BY DEF smaller
  <2> QED  BY <2>1
<1>5. \A k \in Nat \ {0} : /\ fallback(k).id \in Identifier /\ ~NodeName(fallback(k).id)
                           /\ fallback(k).held \in (SUBSET {"v", "rz"}) \cup {Unstated} /\ fallback(k).held # Unstated
  BY <1>4 DEF DefaultSupports, BeamSupport, NodeName
<1> HIDE DEF fallback
<1>6. ASSUME NEW k \in DOMAIN kept
      PROVE  /\ called[k] \in BeamSupport /\ ~NodeName(called[k].id)
             /\ ~NodeName(kept[k].id) => called[k] = kept[k]
  <2>1. kept[k] \in BeamSupport /\ k \in Nat \ {0}
    BY <1>3
  <2> DEFINE id == normalizeBeamSupportId(kept[k].id, fallback(k))
  <2>2. called[k] = [kept[k] EXCEPT !.id = id]
    OBVIOUS
  <2>3. kept[k].id \in Identifier
    BY <2>1, SupportsAreNamed DEF Named
  <2>4. id \in Identifier /\ ~NodeName(id) /\ (~NodeName(kept[k].id) => id = kept[k].id)
    BY <1>5, <2>1, <2>3 DEF normalizeBeamSupportId, NodeName
  <2> HIDE DEF id, called
  <2>5. called[k] \in BeamSupport /\ called[k].id = id /\ (id = kept[k].id => called[k] = kept[k])
    <3>1. \A x \in BeamSupport : \A new \in Identifier :
            LET y == [x EXCEPT !.id = new] IN y \in BeamSupport /\ y.id = new /\ (new = x.id => y = x)
      BY SupportsAreNamed, Zenon DEF Named
    <3> QED  BY <2>1, <2>2, <2>4, <3>1
  <2>6. ~NodeName(called[k].id)
    BY <2>4, <2>5
  <2> QED  BY <2>4, <2>5, <2>6
<1>7. called \in Seq(BeamSupport) /\ Len(called) = Len(kept) /\ DOMAIN called = DOMAIN kept
  <2> DEFINE g == called
  <2>1. g = [k \in DOMAIN kept |-> g[k]]
    OBVIOUS
  <2>2. \A k \in DOMAIN kept : g[k] \in BeamSupport
    BY <1>6
  <2> HIDE DEF g
  <2>3. g \in Seq(BeamSupport) /\ Len(g) = Len(kept) /\ DOMAIN g = DOMAIN kept
    BY <1>3, <2>1, <2>2, MapIsSeq
  <2> QED  BY <2>3 DEF g
<1> HIDE DEF called
<1>8. NamedSoFar(named, called, Len(called), BeamSupport) /\ (Apart(called) => named = called)
  BY <1>7, SupportsAreNamed, DistinctNamesAre
<1> HIDE DEF named
<1>9. named \in Seq(BeamSupport) /\ Len(named) = Len(kept) /\ Apart(named) /\ DOMAIN named = DOMAIN kept
  BY <1>3, <1>7, <1>8 DEF NamedSoFar
<1>10. \A k \in DOMAIN named : ~NodeName(named[k].id)
  <2> SUFFICES ASSUME NEW k \in DOMAIN named PROVE ~NodeName(named[k].id)
    OBVIOUS
  <2>1. k \in 1..Len(called) /\ k \in DOMAIN kept
    BY <1>7, <1>9
  <2>2. named[k].id = called[k].id \/ named[k].id.tail # <<>>
    BY <1>8, <2>1 DEF NamedSoFar
  <2> QED  BY <1>6, <2>1, <2>2 DEF NodeName
<1>11. ASSUME NEW k \in DOMAIN named
       PROVE  /\ r[k] \in SupportsOn(total) /\ r[k].id = named[k].id
              /\ named[k] \in SupportsOn(total) => r[k] = named[k]
  <2> DEFINE x == named[k].x
             held == named[k].held
             nx == Clamped(x, 0, total)
             nheld == IF held = Unstated THEN fallback(k).held ELSE held
  <2>1. r[k] = [named[k] EXCEPT !.x = nx, !.held = nheld]
    BY <1>2
  <2>2. named[k] \in BeamSupport /\ k \in Nat \ {0}
    BY <1>9
  <2>3. /\ named[k] = [id |-> named[k].id, x |-> x, type |-> named[k].type, held |-> held, springs |-> named[k].springs]
        /\ named[k].id \in Identifier /\ x \in Int /\ held \in (SUBSET {"v", "rz"}) \cup {Unstated}
        /\ named[k].type \in {"fixed", "pinned", "roller", "free"} /\ named[k].springs \in SUBSET {"v", "rz"}
    BY <2>2 DEF BeamSupport
  <2>4. nx \in 0..total /\ nx \in Int /\ (x \in 0..total => nx = x)
    <3>1. x \in Int
      BY <2>3
    <3> HIDE DEF x
    <3> QED  BY <3>1 DEF Clamped, smaller, larger
  <2>5. nheld \in (SUBSET {"v", "rz"}) \cup {Unstated} /\ nheld # Unstated /\ (held # Unstated => nheld = held)
    BY <1>5, <2>2, <2>3
  <2> HIDE DEF x, held, nx, nheld
  <2>6. r[k] = [id |-> named[k].id, x |-> nx, type |-> named[k].type, held |-> nheld, springs |-> named[k].springs]
    BY <2>1, <2>3
  <2>7. r[k] \in BeamSupport /\ r[k].x = nx /\ r[k].held = nheld /\ r[k].id = named[k].id
    BY <2>3, <2>4, <2>5, <2>6 DEF BeamSupport
  <2>8. r[k] \in SupportsOn(total)
    BY <1>10, <2>4, <2>5, <2>7 DEF SupportsOn
  <2>9. ASSUME named[k] \in SupportsOn(total) PROVE r[k] = named[k]
    <3>1. x \in 0..total /\ held # Unstated
      BY <2>9 DEF SupportsOn, x, held
    <3> QED  BY <2>3, <2>4, <2>5, <2>6, <3>1
  <2> QED  BY <2>7, <2>8, <2>9
<1>12. r \in Seq(SupportsOn(total)) /\ Len(r) = Len(named) /\ DOMAIN r = DOMAIN named
  <2>1. r = [k \in DOMAIN named |-> r[k]]
    BY <1>2
  <2> QED  BY <1>9, <1>11, <2>1, MapIsSeq
<1>13. r \in Seq(BeamSupport)
  <2>1. \A k \in DOMAIN r : r[k] \in BeamSupport
    BY <1>11, <1>12 DEF SupportsOn
  <2> QED  BY <1>12, <2>1
<1>14. Apart(r)
  <2>1. \A k \in DOMAIN named : r[k].id = named[k].id
    BY <1>11
  <2> QED  BY <1>9, <1>12, <2>1 DEF Apart
<1>15. SupportsFit(r, total)
  BY <1>3, <1>9, <1>12, <1>14 DEF SupportsFit, NamedFit
<1>16. ASSUME SupportsFit(supports, total) PROVE r = supports
  <2>1. given = supports /\ kept = supports /\ supports \in Seq(SupportsOn(total)) /\ Apart(supports)
    BY <1>1, <1>3, <1>16 DEF SupportsFit, NamedFit
  <2>2. \A k \in DOMAIN supports : supports[k] \in SupportsOn(total) /\ ~NodeName(supports[k].id)
    BY <2>1 DEF SupportsOn
  <2>3. called = supports
    <3>1. \A k \in DOMAIN kept : called[k] = kept[k]
      BY <1>6, <2>1, <2>2
    <3> QED  BY <1>3, <1>7, <2>1, <3>1, SameSeqs
  <2>4. named = supports
    BY <1>8, <2>1, <2>3
  <2>5. \A k \in DOMAIN supports : r[k] = supports[k]
    BY <1>11, <2>2, <2>4
  <2> QED  BY <1>12, <1>13, <2>4, <2>5, SameSeqs
<1> QED  BY <1>13, <1>15, <1>16 DEF r

(* A range of the beam that has a length. *)
InRange(from, to) == 0 <= from /\ from < to /\ to <= 100

RangeFrom(from, to) ==
  LET a == Clamped(from, 0, 100)
      b == Clamped(to, 0, 100)
  IN IF a = b /\ a = 100 THEN 99 ELSE smaller(a, b)
RangeTo(from, to) ==
  LET a == Clamped(from, 0, 100)
      b == Clamped(to, 0, 100)
  IN IF a = b /\ a < 100 THEN a + 1 ELSE larger(a, b)

LEMMA RangeIs ==
  ASSUME NEW from \in Int, NEW to \in Int
  PROVE  /\ RangeFrom(from, to) \in Int /\ RangeTo(from, to) \in Int
         /\ InRange(RangeFrom(from, to), RangeTo(from, to))
         /\ InRange(from, to) => RangeFrom(from, to) = from /\ RangeTo(from, to) = to
BY DEF RangeFrom, RangeTo, InRange, Clamped, smaller, larger

Uniform == [on : BOOLEAN, from : Int, to : Int]

LEMMA UniformBecomesFit ==
  ASSUME NEW u \in Uniform
  PROVE  LET r == normalizeBeamRange(u)
         IN r \in Uniform /\ InRange(r.from, r.to) /\ (InRange(u.from, u.to) => r = u)
<1> DEFINE r == normalizeBeamRange(u)
           from == RangeFrom(u.from, u.to)
           to == RangeTo(u.from, u.to)
<1>1. u = [on |-> u.on, from |-> u.from, to |-> u.to] /\ u.on \in BOOLEAN /\ u.from \in Int /\ u.to \in Int
  BY DEF Uniform
<1>2. r = [u EXCEPT !.from = from, !.to = to]
  BY DEF normalizeBeamRange, RangeFrom, RangeTo
<1>3. from \in Int /\ to \in Int /\ InRange(from, to) /\ (InRange(u.from, u.to) => from = u.from /\ to = u.to)
  BY <1>1, RangeIs
<1> HIDE DEF from, to, r
<1>4. r = [on |-> u.on, from |-> from, to |-> to]
  BY <1>1, <1>2
<1>5. r \in Uniform /\ r.from = from /\ r.to = to
  BY <1>1, <1>3, <1>4 DEF Uniform
<1> QED  BY <1>1, <1>3, <1>4, <1>5 DEF r

FitRanges == {range \in BeamRange : InRange(range.from, range.to)}
FitPoints == {point \in BeamPoint : point.at \in 0..100}

LEMMA LinearLoadsBecomeFit ==
  ASSUME NEW s \in Seq(BeamRange)
  PROVE  LET r == normalizeBeamLinearLoads(s)
         IN /\ r \in Seq(BeamRange) /\ NamedFit(r, MaxBeamLoads, FitRanges)
            /\ NamedFit(s, MaxBeamLoads, FitRanges) => r = s
<1> DEFINE f == [x \in BeamRange |-> normalizeBeamRange(x)]
           r == normalizeBeamLinearLoads(s)
           named == DistinctNames(FirstOf(s, MaxBeamLoads))
<1>1. r = [k \in DOMAIN named |-> normalizeBeamRange(named[k])]
  BY DEF normalizeBeamLinearLoads, Each
<1>2. \A x \in BeamRange : f[x] \in FitRanges /\ f[x] \in BeamRange /\ f[x].id = x.id /\ (x \in FitRanges => f[x] = x)
  <2> SUFFICES ASSUME NEW x \in BeamRange
               PROVE  f[x] \in FitRanges /\ f[x] \in BeamRange /\ f[x].id = x.id /\ (x \in FitRanges => f[x] = x)
    OBVIOUS
  <2> DEFINE from == RangeFrom(x.from, x.to)
             to == RangeTo(x.from, x.to)
  <2>1. x = [id |-> x.id, from |-> x.from, to |-> x.to] /\ x.id \in Identifier /\ x.from \in Int /\ x.to \in Int
    BY DEF BeamRange
  <2>2. f[x] = [x EXCEPT !.from = from, !.to = to]
    BY DEF normalizeBeamRange, RangeFrom, RangeTo
  <2>3. from \in Int /\ to \in Int /\ InRange(from, to) /\ (InRange(x.from, x.to) => from = x.from /\ to = x.to)
    BY <2>1, RangeIs
  <2> HIDE DEF from, to, f
  <2>4. f[x] = [id |-> x.id, from |-> from, to |-> to]
    BY <2>1, <2>2
  <2>5. f[x] \in BeamRange /\ f[x].id = x.id /\ f[x].from = from /\ f[x].to = to
    BY <2>1, <2>3, <2>4 DEF BeamRange
  <2>6. f[x] \in FitRanges
    BY <2>3, <2>5 DEF FitRanges
  <2>7. x \in FitRanges => f[x] = x
    BY <2>1, <2>3, <2>4 DEF FitRanges
  <2> QED  BY <2>5, <2>6, <2>7
<1>3. PutsRight(f, BeamRange, FitRanges)
  <2>1. f = [x \in BeamRange |-> f[x]]
    OBVIOUS
  <2> HIDE DEF f
  <2> QED  BY <1>2, <2>1 DEF PutsRight
<1>4. MaxBeamLoads \in Nat
  BY BeamLimitsAre
<1>5. named \in Seq(BeamRange)
  <2>1. FirstOf(s, MaxBeamLoads) \in Seq(BeamRange)
    BY <1>4, FirstOfIsSeq
  <2> QED  BY <2>1, RangesAreNamed, DistinctNamesAre
<1>6. EachNamed(f, s, MaxBeamLoads, r)
  <2> HIDE DEF named, r
  <2>1. \A k \in DOMAIN named : named[k] \in BeamRange
    BY <1>5
  <2>2. \A k \in DOMAIN named : f[named[k]] = normalizeBeamRange(named[k])
    BY <2>1
  <2> HIDE DEF f
  <2>3. r = [k \in DOMAIN named |-> f[named[k]]]
    BY <1>1, <2>2
  <2> QED  BY <2>3 DEF EachNamed, named
<1> HIDE DEF f, named, r
<1>7. /\ r \in Seq(BeamRange) /\ NamedFit(r, MaxBeamLoads, FitRanges)
      /\ NamedFit(s, MaxBeamLoads, FitRanges) => r = s
  BY <1>3, <1>4, <1>6, RangesAreNamed, EachBecomesFit
<1> QED  BY <1>7 DEF r

LEMMA PointsBecomeFit ==
  ASSUME NEW s \in Seq(BeamPoint)
  PROVE  LET r == normalizeBeamPointLoads(s)
         IN /\ r \in Seq(BeamPoint) /\ NamedFit(r, MaxBeamLoads, FitPoints)
            /\ NamedFit(s, MaxBeamLoads, FitPoints) => r = s
<1> DEFINE f == [x \in BeamPoint |-> [x EXCEPT !.at = Clamped(@, 0, 100)]]
           r == normalizeBeamPointLoads(s)
           named == DistinctNames(FirstOf(s, MaxBeamLoads))
<1>1. r = [k \in DOMAIN named |-> [named[k] EXCEPT !.at = Clamped(@, 0, 100)]]
  BY DEF normalizeBeamPointLoads, Each
<1>2. \A x \in BeamPoint : f[x] \in FitPoints /\ f[x] \in BeamPoint /\ f[x].id = x.id /\ (x \in FitPoints => f[x] = x)
  <2> SUFFICES ASSUME NEW x \in BeamPoint
               PROVE  f[x] \in FitPoints /\ f[x] \in BeamPoint /\ f[x].id = x.id /\ (x \in FitPoints => f[x] = x)
    OBVIOUS
  <2> DEFINE at == Clamped(x.at, 0, 100)
  <2>1. x = [id |-> x.id, at |-> x.at] /\ x.id \in Identifier /\ x.at \in Int
    BY DEF BeamPoint
  <2>2. f[x] = [x EXCEPT !.at = at]
    OBVIOUS
  <2>3. at \in 0..100 /\ (x.at \in 0..100 => at = x.at)
    <3>1. \A y \in Int : Clamped(y, 0, 100) \in 0..100 /\ (y \in 0..100 => Clamped(y, 0, 100) = y)
      BY DEF Clamped, smaller, larger
    <3> QED  BY <2>1, <3>1
  <2> HIDE DEF at, f
  <2>4. f[x] = [id |-> x.id, at |-> at]
    BY <2>1, <2>2
  <2>5. f[x] \in BeamPoint /\ f[x].id = x.id /\ f[x].at = at
    BY <2>1, <2>3, <2>4 DEF BeamPoint
  <2>6. x \in FitPoints => f[x] = x
    BY <2>1, <2>3, <2>4 DEF FitPoints
  <2> QED  BY <2>3, <2>5, <2>6 DEF FitPoints
<1>3. PutsRight(f, BeamPoint, FitPoints)
  <2>1. f = [x \in BeamPoint |-> f[x]]
    OBVIOUS
  <2> HIDE DEF f
  <2> QED  BY <1>2, <2>1 DEF PutsRight
<1>4. MaxBeamLoads \in Nat
  BY BeamLimitsAre
<1>5. named \in Seq(BeamPoint)
  <2>1. FirstOf(s, MaxBeamLoads) \in Seq(BeamPoint)
    BY <1>4, FirstOfIsSeq
  <2> QED  BY <2>1, PointsAreNamed, DistinctNamesAre
<1>6. EachNamed(f, s, MaxBeamLoads, r)
  <2> HIDE DEF named, r
  <2>1. \A k \in DOMAIN named : named[k] \in BeamPoint
    BY <1>5
  <2>2. \A k \in DOMAIN named : f[named[k]] = [named[k] EXCEPT !.at = Clamped(@, 0, 100)]
    BY <2>1
  <2> HIDE DEF f
  <2>3. r = [k \in DOMAIN named |-> f[named[k]]]
    BY <1>1, <2>2
  <2> QED  BY <2>3 DEF EachNamed, named
<1> HIDE DEF f, named, r
<1>7. /\ r \in Seq(BeamPoint) /\ NamedFit(r, MaxBeamLoads, FitPoints)
      /\ NamedFit(s, MaxBeamLoads, FitPoints) => r = s
  BY <1>3, <1>4, <1>6, PointsAreNamed, EachBecomesFit
<1> QED  BY <1>7 DEF r

(* The loads of a load case lie on the beam. *)
CaseLoad == [type : {"uniform", "linear", "point"}, from : Int, to : Int]
CaseLoadsOn(total) == {load \in CaseLoad : 0 <= load.from /\ load.from <= load.to /\ load.to <= total}
CasesOn(total) == {case \in BeamCase : case.loads \in Seq(CaseLoadsOn(total))}

LEMMA CaseLoadBecomesFit ==
  ASSUME NEW load \in CaseLoad, NEW total \in Nat
  PROVE  LET r == normalizeBeamCaseLoad(load, total)
         IN r \in CaseLoadsOn(total) /\ r \in CaseLoad /\ (load \in CaseLoadsOn(total) => r = load)
<1> DEFINE r == normalizeBeamCaseLoad(load, total)
           a == Clamped(load.from, 0, total)
           b == Clamped(load.to, 0, total)
           from == smaller(a, b)
           to == larger(a, b)
<1>1. load = [type |-> load.type, from |-> load.from, to |-> load.to] /\ load.from \in Int /\ load.to \in Int
      /\ load.type \in {"uniform", "linear", "point"}
  BY DEF CaseLoad
<1>2. r = [load EXCEPT !.from = from, !.to = to]
  BY DEF normalizeBeamCaseLoad, normalizeBeamLoadPosition
<1>3. /\ from \in Int /\ to \in Int /\ 0 <= from /\ from <= to /\ to <= total
      /\ 0 <= load.from /\ load.from <= load.to /\ load.to <= total => from = load.from /\ to = load.to
  <2> DEFINE x == load.from  y == load.to
  <2>1. x \in Int /\ y \in Int
    BY <1>1
  <2> HIDE DEF x, y
  <2> QED  BY <2>1 DEF Clamped, smaller, larger, x, y
<1> HIDE DEF from, to, r
<1>4. r = [type |-> load.type, from |-> from, to |-> to]
  BY <1>1, <1>2
<1>5. r \in CaseLoad /\ r.from = from /\ r.to = to
  BY <1>1, <1>3, <1>4 DEF CaseLoad
<1> QED  BY <1>1, <1>3, <1>4, <1>5 DEF CaseLoadsOn, r

LEMMA BeamCasesBecomeFit ==
  ASSUME NEW s \in Seq(BeamCase), NEW total \in Nat
  PROVE  LET r == normalizeBeamLoadCases(s, total)
         IN /\ r \in Seq(BeamCase) /\ NamedFit(r, MaxCases, CasesOn(total))
            /\ NamedFit(s, MaxCases, CasesOn(total)) => r = s
            /\ Len(r) = IF Len(s) < MaxCases THEN Len(s) ELSE MaxCases
<1> DEFINE new(loads) == [k \in DOMAIN loads |-> normalizeBeamCaseLoad(loads[k], total)]
           f == [x \in BeamCase |-> [x EXCEPT !.loads = new(@)]]
           r == normalizeBeamLoadCases(s, total)
           named == DistinctNames(FirstOf(s, MaxCases))
<1>1. r = [k \in DOMAIN named |-> [named[k] EXCEPT !.loads = new(@)]]
  BY DEF normalizeBeamLoadCases, Each
<1>2. \A loads \in Seq(CaseLoad) : new(loads) \in Seq(CaseLoad) /\ new(loads) \in Seq(CaseLoadsOn(total))
                                   /\ (loads \in Seq(CaseLoadsOn(total)) => new(loads) = loads)
  <2> SUFFICES ASSUME NEW loads \in Seq(CaseLoad)
               PROVE  new(loads) \in Seq(CaseLoad) /\ new(loads) \in Seq(CaseLoadsOn(total))
                      /\ (loads \in Seq(CaseLoadsOn(total)) => new(loads) = loads)
    OBVIOUS
  <2> DEFINE g == new(loads)
  <2>1. ASSUME NEW k \in DOMAIN loads
        PROVE  g[k] \in CaseLoad /\ g[k] \in CaseLoadsOn(total) /\ (loads[k] \in CaseLoadsOn(total) => g[k] = loads[k])
    <3>1. loads[k] \in CaseLoad /\ g[k] = normalizeBeamCaseLoad(loads[k], total)
      OBVIOUS
    <3> HIDE DEF g
    <3> QED  BY <3>1, CaseLoadBecomesFit
  <2>2. g = [k \in DOMAIN loads |-> g[k]]
    OBVIOUS
  <2> HIDE DEF g
  <2>3. g \in Seq(CaseLoad) /\ g \in Seq(CaseLoadsOn(total)) /\ Len(g) = Len(loads)
    BY <2>1, <2>2, MapIsSeq
  <2>4. ASSUME loads \in Seq(CaseLoadsOn(total)) PROVE g = loads
    <3>1. \A k \in DOMAIN loads : loads[k] \in CaseLoadsOn(total)
      BY <2>4
    <3> QED  BY <2>1, <2>3, <3>1, SameSeqs
  <2> QED  BY <2>3, <2>4 DEF g
<1> HIDE DEF new
<1>3. \A x \in BeamCase :
        f[x] \in CasesOn(total) /\ f[x] \in BeamCase /\ f[x].id = x.id /\ (x \in CasesOn(total) => f[x] = x)
  <2> SUFFICES ASSUME NEW x \in BeamCase
               PROVE  f[x] \in CasesOn(total) /\ f[x] \in BeamCase /\ f[x].id = x.id /\ (x \in CasesOn(total) => f[x] = x)
    OBVIOUS
  <2> DEFINE loads == new(x.loads)
  <2>1. x = [id |-> x.id, loads |-> x.loads] /\ x.id \in Identifier /\ x.loads \in Seq(CaseLoad)
    BY DEF BeamCase, CaseLoad
  <2>2. f[x] = [x EXCEPT !.loads = loads]
    OBVIOUS
  <2>3. loads \in Seq(CaseLoad) /\ loads \in Seq(CaseLoadsOn(total)) /\ (x.loads \in Seq(CaseLoadsOn(total)) => loads = x.loads)
    BY <1>2, <2>1
  <2> HIDE DEF loads, f
  <2>4. f[x] = [id |-> x.id, loads |-> loads]
    BY <2>1, <2>2
  <2>5. f[x] \in BeamCase /\ f[x].id = x.id /\ f[x].loads = loads
    BY <2>1, <2>3, <2>4 DEF BeamCase, CaseLoad
  <2> QED  BY <2>1, <2>3, <2>4, <2>5 DEF CasesOn
<1>4. PutsRight(f, BeamCase, CasesOn(total))
  <2>1. f = [x \in BeamCase |-> f[x]]
    OBVIOUS
  <2> HIDE DEF f
  <2> QED  BY <1>3, <2>1 DEF PutsRight
<1>5. MaxCases \in Nat
  BY BeamLimitsAre
<1>6. named \in Seq(BeamCase)
  <2>1. FirstOf(s, MaxCases) \in Seq(BeamCase)
    BY <1>5, FirstOfIsSeq
  <2> QED  BY <2>1, BeamCasesAreNamed, DistinctNamesAre
<1>7. EachNamed(f, s, MaxCases, r)
  <2> HIDE DEF named, r
  <2>1. \A k \in DOMAIN named : named[k] \in BeamCase
    BY <1>6
  <2>2. \A k \in DOMAIN named : f[named[k]] = [named[k] EXCEPT !.loads = new(@)]
    BY <2>1
  <2> HIDE DEF f
  <2>3. r = [k \in DOMAIN named |-> f[named[k]]]
    BY <1>1, <2>2
  <2> QED  BY <2>3 DEF EachNamed, named
<1> HIDE DEF f, named, r
<1>8. /\ r \in Seq(BeamCase) /\ NamedFit(r, MaxCases, CasesOn(total))
      /\ NamedFit(s, MaxCases, CasesOn(total)) => r = s
      /\ Len(r) = IF Len(s) < MaxCases THEN Len(s) ELSE MaxCases
  BY <1>4, <1>5, <1>7, BeamCasesAreNamed, EachBecomesFit
<1> QED  BY <1>8 DEF r

----------------------------------------------------------------------------
BeamFits(m) ==
  LET total == totalLength(m.spans)
  IN /\ SpansFit(m.spans)
     /\ SupportsFit(m.supports, total)
     /\ InRange(m.uniform.from, m.uniform.to)
     /\ NamedFit(m.linear.loads, MaxBeamLoads, FitRanges)
     /\ m.linear.on => m.linear.loads # <<>>
     /\ NamedFit(m.points, MaxBeamLoads, FitPoints)
     /\ NamedFit(m.cases, MaxCases, CasesOn(total))
     /\ CombinationsFit(m.combinations, m.cases)

LEMMA BeamBecomesFit ==
  ASSUME NEW m \in Beams
  PROVE  LET r == normalizeBeamWorkspaceState(m)
         IN /\ r \in Beams /\ BeamFits(r)
            /\ BeamFits(m) => r = m
            /\ Len(r.cases) = IF Len(m.cases) < MaxCases THEN Len(m.cases) ELSE MaxCases
            /\ m.spans # <<>> /\ Len(m.spans) <= MaxBeamSpans => Len(r.spans) = Len(m.spans)
<1> DEFINE spans == normalizeBeamSpans(m.spans)
           total == totalLength(spans)
           D == defaultBeamSupports(m.beamType, spans)
           supports == normalizeBeamSupports(m.supports, D, total)
           uniform == normalizeBeamRange(m.uniform)
           loads == normalizeBeamLinearLoads(m.linear.loads)
           linear == [on |-> m.linear.on /\ loads # <<>>, loads |-> loads]
           points == normalizeBeamPointLoads(m.points)
           cases == normalizeBeamLoadCases(m.cases, total)
           combinations == normalizeBeamCombinations(m.combinations, cases)
           r == normalizeBeamWorkspaceState(m)
<1>1. /\ m = [beamType |-> m.beamType, spans |-> m.spans, supports |-> m.supports, uniform |-> m.uniform,
              linear |-> m.linear, points |-> m.points, pointAt |-> m.pointAt, cases |-> m.cases,
              combinations |-> m.combinations]
      /\ m.beamType \in BeamTypes /\ m.spans \in Seq(Span) /\ m.supports \in Seq(BeamSupport)
      /\ m.uniform \in Uniform /\ m.linear \in [on : BOOLEAN, loads : Seq(BeamRange)]
      /\ m.points \in Seq(BeamPoint) /\ m.pointAt \in Int /\ m.cases \in Seq(BeamCase)
      /\ m.combinations \in Seq(Combination)
  BY DEF Beams, BeamTypes, Uniform
<1>2. m.linear = [on |-> m.linear.on, loads |-> m.linear.loads] /\ m.linear.on \in BOOLEAN
      /\ m.linear.loads \in Seq(BeamRange)
  BY <1>1
<1>3. r = [m EXCEPT !.spans = spans, !.supports = supports, !.uniform = uniform, !.linear = linear, !.points = points,
                    !.cases = cases, !.combinations = combinations]
  BY DEF normalizeBeamWorkspaceState
<1> HIDE DEF r
<1>4. /\ spans \in Seq(Span) /\ SpansFit(spans) /\ (SpansFit(m.spans) => spans = m.spans)
      /\ m.spans # <<>> /\ Len(m.spans) <= MaxBeamSpans => Len(spans) = Len(m.spans)
  BY <1>1, SpansBecomeFit
<1> HIDE DEF spans
<1>5. total \in Nat
  BY <1>4, FitSpansReach
<1>6. D \in Seq(DefaultSupports) /\ Len(D) >= 1
  <2>1. D \in Seq(DefaultSupports) /\ Len(D) \in 1..Len(spans) + 2
    BY <1>1, <1>4, DefaultSupportsAre
  <2> HIDE DEF D
  <2> QED  BY <2>1
<1> DEFINE t == total
<1> HIDE DEF D
<1>7. supports \in Seq(BeamSupport) /\ SupportsFit(supports, total) /\ (SupportsFit(m.supports, total) => supports = m.supports)
  <2> HIDE DEF total
  <2> QED  BY <1>1, <1>5, <1>6, SupportsBecomeFit
<1>8. uniform \in Uniform /\ InRange(uniform.from, uniform.to)
      /\ (InRange(m.uniform.from, m.uniform.to) => uniform = m.uniform)
  BY <1>1, UniformBecomesFit
<1>9. loads \in Seq(BeamRange) /\ NamedFit(loads, MaxBeamLoads, FitRanges)
      /\ (NamedFit(m.linear.loads, MaxBeamLoads, FitRanges) => loads = m.linear.loads)
  BY <1>2, LinearLoadsBecomeFit
<1>10. points \in Seq(BeamPoint) /\ NamedFit(points, MaxBeamLoads, FitPoints)
       /\ (NamedFit(m.points, MaxBeamLoads, FitPoints) => points = m.points)
  BY <1>1, PointsBecomeFit
<1>11. cases \in Seq(BeamCase) /\ NamedFit(cases, MaxCases, CasesOn(total))
       /\ (NamedFit(m.cases, MaxCases, CasesOn(total)) => cases = m.cases)
       /\ Len(cases) = IF Len(m.cases) < MaxCases THEN Len(m.cases) ELSE MaxCases
  <2> HIDE DEF total
  <2> QED  BY <1>1, <1>5, BeamCasesBecomeFit
<1> HIDE DEF cases
<1>12. /\ combinations \in Seq(Combination) /\ CombinationsFit(combinations, cases)
       /\ CombinationsFit(m.combinations, cases) => combinations = m.combinations
  BY <1>1, <1>11, CombinationsBecomeFit DEF normalizeBeamCombinations
<1> HIDE DEF combinations, supports, uniform, points, loads
<1>13. linear \in [on : BOOLEAN, loads : Seq(BeamRange)] /\ (linear.on => linear.loads # <<>>) /\ linear.loads = loads
  BY <1>2, <1>9
<1>14. loads = m.linear.loads /\ (m.linear.on => m.linear.loads # <<>>) => linear = m.linear
  BY <1>2
<1> HIDE DEF linear
<1>15. r = [beamType |-> m.beamType, spans |-> spans, supports |-> supports, uniform |-> uniform,
            linear |-> linear, points |-> points, pointAt |-> m.pointAt, cases |-> cases,
            combinations |-> combinations]
  BY <1>1, <1>3
<1>16. r \in Beams
  BY <1>1, <1>4, <1>7, <1>8, <1>10, <1>11, <1>12, <1>13, <1>15 DEF Beams, BeamTypes, Uniform
<1>17. r.spans = spans /\ r.supports = supports /\ r.uniform = uniform /\ r.linear = linear /\ r.points = points
       /\ r.cases = cases /\ r.combinations = combinations
  BY <1>15
<1>18. BeamFits(r)
  BY <1>4, <1>7, <1>8, <1>9, <1>10, <1>11, <1>12, <1>13, <1>17 DEF BeamFits
<1>19. ASSUME BeamFits(m) PROVE r = m
  <2>1. spans = m.spans
    BY <1>4, <1>19 DEF BeamFits
  <2>2. total = totalLength(m.spans)
    BY <2>1
  <2>3. supports = m.supports /\ uniform = m.uniform /\ points = m.points /\ cases = m.cases
    BY <1>7, <1>8, <1>10, <1>11, <1>19, <2>2 DEF BeamFits
  <2>4. linear = m.linear
    BY <1>9, <1>14, <1>19 DEF BeamFits
  <2>5. combinations = m.combinations
    BY <1>12, <1>19, <2>3 DEF BeamFits
  <2> QED  BY <1>1, <1>15, <2>1, <2>3, <2>4, <2>5
<1> QED  BY <1>4, <1>11, <1>16, <1>17, <1>18, <1>19 DEF r

LEMMA ModelIsBeam ==
  ASSUME NEW m
  PROVE  IsBeam(m) <=> m \in Beams
<1> DEFINE s == m.combinations
           Given == [id : Identifier, factors : {c.factors : c \in Elements(s)}]
           Rest(C) ==
             [beamType : {"continuous", "cantilever", "simply_supported"}, spans : Seq(Span),
              supports : Seq(BeamSupport), uniform : [on : BOOLEAN, from : Int, to : Int],
              linear : [on : BOOLEAN, loads : Seq(BeamRange)], points : Seq(BeamPoint), pointAt : Int,
              cases : Seq(BeamCase), combinations : C]
           Factors == \A c \in Elements(s) : DOMAIN c.factors \subseteq Identifier /\ c.factors \in [DOMAIN c.factors -> Int]
<1>1. (s \in Seq(Given) /\ Factors) <=> s \in Seq(Combination)
  <2> HIDE DEF s
  <2> QED  BY GivenCombinations
<1>2. m \in Rest(Seq(Given)) <=> m \in Rest({s}) /\ s \in Seq(Given)
  <2> HIDE DEF Given
  <2> QED  BY Zenon
<1>3. m \in Rest(Seq(Combination)) <=> m \in Rest({s}) /\ s \in Seq(Combination)
  BY Zenon
<1>4. IsBeam(m) <=> m \in Rest(Seq(Given)) /\ Factors
  BY DEF IsBeam
<1>5. m \in Beams <=> m \in Rest(Seq(Combination))
  BY DEF Beams
<1> HIDE DEF Rest, Given, s, Factors
<1> QED  BY <1>1, <1>2, <1>3, <1>4, <1>5

----------------------------------------------------------------------------
(* Edits of nodes, members, loads, load cases and combinations. *)

LEMMA PlaneFields ==
  ASSUME NEW Node, NEW types, NEW m \in Plane(Node, types)
  PROVE  /\ m = [nodes |-> m.nodes, members |-> m.members, loads |-> m.loads, cases |-> m.cases,
                 combinations |-> m.combinations]
         /\ m.nodes \in Seq(Node) /\ m.members \in Seq(Member) /\ m.loads \in Seq(LoadOf(types))
         /\ m.cases \in Seq(CaseOf(types)) /\ m.combinations \in Seq(Combination)
BY DEF Plane

LEMMA PlaneOf ==
  ASSUME NEW Node, NEW types, NEW nodes \in Seq(Node), NEW members \in Seq(Member), NEW loads \in Seq(LoadOf(types)),
         NEW cases \in Seq(CaseOf(types)), NEW combinations \in Seq(Combination)
  PROVE  [nodes |-> nodes, members |-> members, loads |-> loads, cases |-> cases,
          combinations |-> combinations] \in Plane(Node, types)
BY DEF Plane

(* One of the five collections is changed. *)
LEMMA PlaneWith ==
  ASSUME NEW Node, NEW types, NEW m \in Plane(Node, types)
  PROVE  /\ \A nodes \in Seq(Node) : [m EXCEPT !.nodes = nodes] \in Plane(Node, types)
         /\ \A members \in Seq(Member) : [m EXCEPT !.members = members] \in Plane(Node, types)
         /\ \A loads \in Seq(LoadOf(types)) : [m EXCEPT !.loads = loads] \in Plane(Node, types)
         /\ \A cases \in Seq(CaseOf(types)) : [m EXCEPT !.cases = cases] \in Plane(Node, types)
         /\ \A combinations \in Seq(Combination) : [m EXCEPT !.combinations = combinations] \in Plane(Node, types)
BY DEF Plane

LEMMA UpdateIsSeq ==
  ASSUME NEW T, NEW s \in Seq(T), NEW i \in DOMAIN s, NEW x \in T
  PROVE  /\ [s EXCEPT ![i] = x] \in Seq(T) /\ Len([s EXCEPT ![i] = x]) = Len(s)
         /\ DOMAIN [s EXCEPT ![i] = x] = DOMAIN s
         /\ [s EXCEPT ![i] = x][i] = x
         /\ \A k \in DOMAIN s \ {i} : [s EXCEPT ![i] = x][k] = s[k]
OBVIOUS

LEMMA AppendIsSeq ==
  ASSUME NEW T, NEW s \in Seq(T), NEW x \in T
  PROVE  /\ Append(s, x) \in Seq(T) /\ Len(Append(s, x)) = Len(s) + 1
         /\ Elements(Append(s, x)) = Elements(s) \cup {x}
         /\ Ids(Append(s, x)) = Ids(s) \cup {x.id}
<1> DEFINE r == Append(s, x)
<1>1. /\ r \in Seq(T) /\ Len(r) = Len(s) + 1 /\ DOMAIN r = 1..Len(s) + 1 /\ DOMAIN s = 1..Len(s) /\ Len(s) \in Nat
      /\ \A k \in 1..Len(s) : r[k] = s[k]
      /\ r[Len(s) + 1] = x
  OBVIOUS
<1> HIDE DEF r
<1>2. 1..Len(s) + 1 = 1..Len(s) \cup {Len(s) + 1}
  BY <1>1
<1>3. Elements(r) = Elements(s) \cup {x}
  BY <1>1, <1>2 DEF Elements
<1>4. Ids(r) = Ids(s) \cup {x.id}
  BY <1>1, <1>2 DEF Ids
<1> QED  BY <1>1, <1>3, <1>4 DEF r

LEMMA IdsOfElements ==
  ASSUME NEW T, NEW s \in Seq(T)
  PROVE  Ids(s) = {x.id : x \in Elements(s)}
BY DEF Ids, Elements

LEMMA ElementsAre ==
  ASSUME NEW T, NEW s \in Seq(T)
  PROVE  /\ Elements(s) \subseteq T
         /\ \A x \in Elements(s) : \E k \in DOMAIN s : s[k] = x
         /\ \A k \in DOMAIN s : s[k] \in Elements(s) /\ s[k] \in T
BY DEF Elements

LEMMA ConcatIsSeq ==
  ASSUME NEW T, NEW s \in Seq(T), NEW r \in Seq(T)
  PROVE  /\ s \o r \in Seq(T) /\ Len(s \o r) = Len(s) + Len(r)
         /\ Elements(s \o r) = Elements(s) \cup Elements(r)
         /\ Ids(s \o r) = Ids(s) \cup Ids(r)
<1> DEFINE q == s \o r
<1>1. /\ q \in Seq(T) /\ Len(q) = Len(s) + Len(r) /\ DOMAIN q = 1..Len(s) + Len(r)
      /\ DOMAIN s = 1..Len(s) /\ DOMAIN r = 1..Len(r) /\ Len(s) \in Nat /\ Len(r) \in Nat
      /\ \A k \in 1..Len(s) : q[k] = s[k]
      /\ \A k \in 1..Len(s) + Len(r) : k > Len(s) => q[k] = r[k - Len(s)]
  OBVIOUS
<1> HIDE DEF q
<1>2. Elements(q) = Elements(s) \cup Elements(r)
  <2>1. ASSUME NEW x \in Elements(q) PROVE x \in Elements(s) \cup Elements(r)
    <3>1. PICK k \in DOMAIN q : x = q[k]
      BY DEF Elements
    <3>2. CASE k <= Len(s)
      <4>1. k \in DOMAIN s /\ q[k] = s[k]
        BY <1>1, <3>2
      <4> QED  BY <3>1, <4>1 DEF Elements
    <3>3. CASE k > Len(s)
      <4>1. k - Len(s) \in DOMAIN r /\ q[k] = r[k - Len(s)]
        BY <1>1, <3>3
      <4> QED  BY <3>1, <4>1 DEF Elements
    <3> QED  BY <1>1, <3>2, <3>3
  <2>2. ASSUME NEW x \in Elements(s) PROVE x \in Elements(q)
    <3>1. PICK k \in DOMAIN s : x = s[k]
      BY DEF Elements
    <3>2. k \in DOMAIN q /\ q[k] = s[k]
      BY <1>1
    <3> QED  BY <3>1, <3>2 DEF Elements
  <2>3. ASSUME NEW x \in Elements(r) PROVE x \in Elements(q)
    <3>1. PICK k \in DOMAIN r : x = r[k]
      BY DEF Elements
    <3>2. k + Len(s) \in DOMAIN q /\ k + Len(s) > Len(s) /\ (k + Len(s)) - Len(s) = k
      BY <1>1
    <3>3. q[k + Len(s)] = r[k]
      BY <1>1, <3>2
    <3> QED  BY <3>1, <3>2, <3>3 DEF Elements
  <2> QED  BY <2>1, <2>2, <2>3
<1>3. Ids(q) = Ids(s) \cup Ids(r)
  <2>1. Ids(q) = {x.id : x \in Elements(q)} /\ Ids(s) = {x.id : x \in Elements(s)} /\ Ids(r) = {x.id : x \in Elements(r)}
    BY <1>1, IdsOfElements
  <2> QED  BY <1>2, <2>1
<1> QED  BY <1>1, <1>2, <1>3 DEF q

----------------------------------------------------------------------------
(* What a load acts on is among these. *)
LoadOn(load, nodeIds, memberIds) == Target(load) \in (IF load.type = "nodal" THEN nodeIds ELSE memberIds)
(* Where nothing is taken away, only what is new has to resolve. *)
Grown(m, r) ==
  /\ Ids(m.nodes) \subseteq Ids(r.nodes) /\ Ids(m.members) \subseteq Ids(r.members) /\ Ids(m.cases) \subseteq Ids(r.cases)
  /\ \A x \in Elements(r.members) : x \in Elements(m.members) \/ {x.start, x.end} \subseteq Ids(r.nodes)
  /\ \A x \in Elements(r.loads) : x \in Elements(m.loads) \/ LoadOn(x, Ids(r.nodes), Ids(r.members))
  /\ \A x \in Elements(r.cases) :
       \A y \in Elements(x.loads) :
         \/ LoadOn(y, Ids(r.nodes), Ids(r.members))
         \/ \E old \in Elements(m.cases) : y \in Elements(old.loads)
  /\ \A x \in Elements(r.combinations) : x \in Elements(m.combinations) \/ DOMAIN x.factors \subseteq Ids(r.cases)

(* One of the collections takes another's place. *)
LEMMA NodesSet ==
  ASSUME NEW Node, NEW types, NEW m \in Plane(Node, types), NEW nodes \in Seq(Node)
  PROVE  /\ [m EXCEPT !.nodes = nodes] \in Plane(Node, types)
         /\ Ids(m.nodes) \subseteq Ids(nodes) => Grown(m, [m EXCEPT !.nodes = nodes])
<1> DEFINE r == [m EXCEPT !.nodes = nodes]
<1>1. r.nodes = nodes /\ r.members = m.members /\ r.loads = m.loads /\ r.cases = m.cases /\ r.combinations = m.combinations
  BY DEF Plane
<1>2. r \in Plane(Node, types)
  BY PlaneWith
<1> HIDE DEF r
<1>3. Ids(m.nodes) \subseteq Ids(nodes) => Grown(m, r)
  BY <1>1 DEF Grown
<1> QED  BY <1>2, <1>3 DEF r

LEMMA MembersSet ==
  ASSUME NEW Node, NEW types, NEW m \in Plane(Node, types), NEW members \in Seq(Member)
  PROVE  /\ [m EXCEPT !.members = members] \in Plane(Node, types)
         /\ /\ Ids(m.members) \subseteq Ids(members)
            /\ \A x \in Elements(members) : x \in Elements(m.members) \/ {x.start, x.end} \subseteq Ids(m.nodes)
            => Grown(m, [m EXCEPT !.members = members])
<1> DEFINE r == [m EXCEPT !.members = members]
<1>1. r.nodes = m.nodes /\ r.members = members /\ r.loads = m.loads /\ r.cases = m.cases /\ r.combinations = m.combinations
  BY DEF Plane
<1>2. r \in Plane(Node, types)
  BY PlaneWith
<1> HIDE DEF r
<1>3. /\ Ids(m.members) \subseteq Ids(members)
      /\ \A x \in Elements(members) : x \in Elements(m.members) \/ {x.start, x.end} \subseteq Ids(m.nodes)
      => Grown(m, r)
  BY <1>1 DEF Grown
<1> QED  BY <1>2, <1>3 DEF r

LEMMA IdsThere ==
  ASSUME NEW T, Named(T), NEW s \in Seq(T), NEW k \in DOMAIN s
  PROVE  s[k] \in T /\ s[k].id \in Identifier /\ s[k].id \in Ids(s) /\ Ids(s) \subseteq Identifier
<1>1. s[k] \in T
  OBVIOUS
<1>2. s[k].id \in Ids(s)
  BY DEF Ids
<1>3. Ids(s) \subseteq Identifier
  BY IdsAreIdentifiers
<1> QED  BY <1>1, <1>2, <1>3

(* The first there is. *)
LEMMA FirstOrIs ==
  ASSUME NEW T, Named(T), NEW s \in Seq(T), NEW id \in Identifier
  PROVE  FirstOr(s, id) \in Identifier /\ (s # <<>> => FirstOr(s, id) \in Ids(s))
<1>1. CASE s = <<>>
  BY <1>1 DEF FirstOr
<1>2. CASE s # <<>>
  <2>1. 1 \in DOMAIN s
    BY <1>2
  <2>2. FirstOr(s, id) = s[1].id
    BY <1>2 DEF FirstOr
  <2> QED  BY <2>1, <2>2, IdsThere
<1> QED  BY <1>1, <1>2

(* A load as it is drafted. *)
Blank(type, node, member) ==
  [type |-> type, node |-> node, member |-> member, from |-> 0, to |-> 100, at |-> 50, role |-> "variable"]

LEMMA BlankIsLoad ==
  ASSUME NEW types, NEW type \in types, NEW node \in Identifier, NEW member \in Identifier
  PROVE  Blank(type, node, member) \in LoadOf(types)
BY DEF Blank, LoadOf

LEMMA BlankIsOn ==
  ASSUME NEW type, NEW node, NEW member, NEW nodeIds, NEW memberIds,
         IF type = "nodal" THEN node \in nodeIds ELSE member \in memberIds
  PROVE  LoadOn(Blank(type, node, member), nodeIds, memberIds)
BY DEF Blank, LoadOn, Target

(* The index counts the loads there are. *)
LEMMA FrameDraftIs ==
  ASSUME NEW Node, Named(Node), NEW m \in Plane(Node, LoadTypes), NEW index \in Nat
  PROVE  LET load == createFrameLoadDraft(index, m)
         IN /\ load \in LoadOf(LoadTypes)
            /\ m.nodes # <<>> => LoadOn(load, Ids(m.nodes), Ids(m.members))
<1> DEFINE load == createFrameLoadDraft(index, m)
           type == IF m.members = <<>> THEN "nodal"
                   ELSE <<"nodal", "distributed", "member_point", "temperature">>[(index % 4) + 1]
           node == FirstOr(m.nodes, Draft("N", 1))
           place == (index % Len(m.members)) + 1
           member == m.members[place].id
<1>1. m.nodes \in Seq(Node) /\ m.members \in Seq(Member)
  BY PlaneFields
<1>2. type \in LoadTypes /\ (type # "nodal" => m.members # <<>>)
  <2>1. (index % 4) + 1 \in 1..4
    OBVIOUS
  <2> DEFINE i == (index % 4) + 1
  <2> HIDE DEF i
  <2>2. <<"nodal", "distributed", "member_point", "temperature">>[i] \in LoadTypes
    <3>1. i = 1 \/ i = 2 \/ i = 3 \/ i = 4
      BY <2>1 DEF i
    <3> QED  BY <3>1 DEF LoadTypes, MemberLoadTypes
  <2> QED  BY <2>2 DEF LoadTypes, i
<1> DEFINE blank == [type |-> type, node |-> NoId, member |-> NoId, from |-> 0, to |-> 100, at |-> 50, role |-> "variable"]
<1>3. load = IF type = "nodal" THEN [blank EXCEPT !.node = node] ELSE [blank EXCEPT !.member = member]
  BY DEF createFrameLoadDraft
<1> HIDE DEF type, load
<1>4. CASE type = "nodal"
  <2>1. node \in Identifier /\ (m.nodes # <<>> => node \in Ids(m.nodes))
    <3>1. "N" \in Text
      BY DEF Text
    <3>2. Draft("N", 1) \in Identifier
      BY <3>1, DraftIsIdentifier
    <3> QED  BY <1>1, <3>2, FirstOrIs
  <2> HIDE DEF node
  <2>2. load = Blank("nodal", node, NoId)
    BY <1>3, <1>4 DEF Blank
  <2>3. load \in LoadOf(LoadTypes)
    BY <1>2, <1>4, <2>1, <2>2, NoIdIs, BlankIsLoad
  <2>4. m.nodes # <<>> => LoadOn(load, Ids(m.nodes), Ids(m.members))
    BY <2>1, <2>2, BlankIsOn
  <2> QED  BY <2>3, <2>4 DEF load
<1>5. CASE type # "nodal"
  <2>1. Len(m.members) \in Nat \ {0}
    BY <1>1, <1>2, <1>5
  <2>2. place \in DOMAIN m.members
    <3> DEFINE n == Len(m.members)
    <3> HIDE DEF n
    <3>1. n \in Nat \ {0} /\ DOMAIN m.members = 1..n
      BY <1>1, <2>1 DEF n
    <3>2. (index % n) + 1 \in 1..n
      BY <3>1
    <3> QED  BY <3>1, <3>2 DEF n
  <2> HIDE DEF place
  <2>3. member \in Identifier /\ member \in Ids(m.members)
    BY <1>1, <2>2, IdsThere, MembersAreNamed
  <2> HIDE DEF member
  <2>4. load = Blank(type, NoId, member)
    BY <1>3, <1>5 DEF Blank
  <2>5. load \in LoadOf(LoadTypes)
    BY <1>2, <2>3, <2>4, NoIdIs, BlankIsLoad
  <2>6. LoadOn(load, Ids(m.nodes), Ids(m.members))
    BY <1>5, <2>3, <2>4, BlankIsOn
  <2> QED  BY <2>5, <2>6 DEF load
<1> QED  BY <1>4, <1>5

(* A new node, and a new member between two. *)
LEMMA AppendNode ==
  ASSUME NEW Node, NEW types, NEW m \in Plane(Node, types), NEW x \in Node
  PROVE  LET r == [m EXCEPT !.nodes = Append(@, x)]
         IN r \in Plane(Node, types) /\ Grown(m, r) /\ Ids(r.nodes) = Ids(m.nodes) \cup {x.id}
<1> DEFINE r == [m EXCEPT !.nodes = Append(@, x)]
<1>1. m.nodes \in Seq(Node)
  BY PlaneFields
<1> DEFINE nodes == Append(m.nodes, x)
<1>2. nodes \in Seq(Node) /\ Ids(nodes) = Ids(m.nodes) \cup {x.id}
  BY <1>1, AppendIsSeq
<1>3. r = [m EXCEPT !.nodes = nodes] /\ r.nodes = nodes
  BY PlaneFields
<1> HIDE DEF r, nodes
<1> QED  BY <1>2, <1>3, NodesSet DEF r

LEMMA WithMemberIs ==
  ASSUME NEW Node, NEW types, NEW m \in Plane(Node, types), NEW a \in Identifier, NEW b \in Identifier, NEW stem \in Text
  PROVE  LET r == WithMember(m, a, b, stem)
         IN r \in Plane(Node, types) /\ ({a, b} \subseteq Ids(m.nodes) => Grown(m, r))
<1> DEFINE r == WithMember(m, a, b, stem)
           id == nextFrameDraftId(stem, Ids(m.members))
           x == [id |-> id, start |-> a, end |-> b, hinges |-> <<>>]
           members == Append(m.members, x)
<1>1. m.members \in Seq(Member)
  BY PlaneFields
<1>2. id \in Identifier
  <2>1. IsFiniteSet(Ids(m.members)) /\ Ids(m.members) \in SUBSET Identifier
    BY <1>1, IdsAreFinite, IdsAreIdentifiers, MembersAreNamed
  <2> QED  BY <2>1, NextDraftIsFree
<1>3. r = [m EXCEPT !.members = members]
  BY DEF WithMember
<1> HIDE DEF id, r
<1>4. x \in Member /\ x.start = a /\ x.end = b
  BY <1>2 DEF Member
<1> HIDE DEF x
<1>5. members \in Seq(Member) /\ Elements(members) = Elements(m.members) \cup {x} /\ Ids(m.members) \subseteq Ids(members)
  BY <1>1, <1>4, AppendIsSeq
<1> HIDE DEF members
<1>6. r \in Plane(Node, types) /\ ({a, b} \subseteq Ids(m.nodes) => Grown(m, r))
  BY <1>3, <1>4, <1>5, MembersSet
<1> QED  BY <1>6 DEF r

(* The loads of a sequence, one by one. *)
EachOf(f, T) == [s \in Seq(T) |-> [k \in DOMAIN s |-> f[s[k]]]]

LEMMA EachOfIs ==
  ASSUME NEW T, NEW f \in [T -> T]
  PROVE  /\ EachOf(f, T) \in [Seq(T) -> Seq(T)]
         /\ \A s \in Seq(T) : /\ EachOf(f, T)[s] = [k \in DOMAIN s |-> f[s[k]]]
                              /\ DOMAIN EachOf(f, T)[s] = DOMAIN s /\ Len(EachOf(f, T)[s]) = Len(s)
                              /\ \A k \in DOMAIN s : EachOf(f, T)[s][k] = f[s[k]]
<1> SUFFICES ASSUME NEW s \in Seq(T)
             PROVE  LET g == [k \in DOMAIN s |-> f[s[k]]] IN g \in Seq(T) /\ Len(g) = Len(s) /\ DOMAIN g = DOMAIN s
  BY DEF EachOf
<1> DEFINE g == [k \in DOMAIN s |-> f[s[k]]]
<1>1. g = [k \in DOMAIN s |-> g[k]] /\ \A k \in DOMAIN s : g[k] \in T
  OBVIOUS
<1> HIDE DEF g
<1>2. g \in Seq(T) /\ Len(g) = Len(s) /\ DOMAIN g = DOMAIN s
  BY <1>1, MapIsSeq
<1> QED  BY <1>2 DEF g

LEMMA CaseLoadsAre ==
  ASSUME NEW Node, NEW types, NEW m \in Plane(Node, types)
  PROVE  \A i \in DOMAIN m.cases : m.cases[i] \in CaseOf(types) /\ m.cases[i].loads \in Seq(LoadOf(types))
<1>1. m.cases \in Seq(CaseOf(types))
  BY PlaneFields
<1>2. \A i \in DOMAIN m.cases : m.cases[i] \in CaseOf(types)
  BY <1>1
<1> QED  BY <1>2 DEF CaseOf

(* Other loads in the model and in its load cases. *)
WithOther(m, loads, g) ==
  [m EXCEPT !.loads = loads, !.cases = [i \in DOMAIN m.cases |-> [m.cases[i] EXCEPT !.loads = g[i]]]]

LEMMA WithOtherIs ==
  ASSUME NEW Node, NEW types, NEW m \in Plane(Node, types), NEW loads \in Seq(LoadOf(types)),
         NEW g, \A i \in DOMAIN m.cases : g[i] \in Seq(LoadOf(types))
  PROVE  WithOther(m, loads, g) \in Plane(Node, types)
<1> DEFINE cases == [i \in DOMAIN m.cases |-> [m.cases[i] EXCEPT !.loads = g[i]]]
<1>1. m.cases \in Seq(CaseOf(types))
  BY PlaneFields
<1>2. ASSUME NEW i \in DOMAIN m.cases PROVE cases[i] \in CaseOf(types)
  <2>1. m.cases[i] \in CaseOf(types) /\ g[i] \in Seq(LoadOf(types))
    BY <1>1
  <2>2. \A case \in CaseOf(types), s \in Seq(LoadOf(types)) : [case EXCEPT !.loads = s] \in CaseOf(types)
    BY DEF CaseOf
  <2> QED  BY <2>1, <2>2
<1>3. cases = [i \in DOMAIN m.cases |-> cases[i]]
  OBVIOUS
<1>4. WithOther(m, loads, g) = [[m EXCEPT !.loads = loads] EXCEPT !.cases = cases]
  BY DEF WithOther, Plane
<1> HIDE DEF cases
<1>5. cases \in Seq(CaseOf(types))
  BY <1>1, <1>2, <1>3, MapIsSeq
<1> DEFINE m1 == [m EXCEPT !.loads = loads]
<1>6. m1 \in Plane(Node, types)
  BY PlaneWith
<1> HIDE DEF m1
<1>7. [m1 EXCEPT !.cases = cases] \in Plane(Node, types)
  BY <1>5, <1>6, PlaneWith
<1> QED  BY <1>4, <1>7 DEF m1

LEMMA LoadWith ==
  ASSUME NEW types, NEW load \in LoadOf(types), NEW id \in Identifier
  PROVE  [load EXCEPT !.node = id] \in LoadOf(types) /\ [load EXCEPT !.member = id] \in LoadOf(types)
BY DEF LoadOf

LEMMA RenameEndIs ==
  ASSUME NEW member \in Member, NEW old, NEW new \in Identifier
  PROVE  renameEnd(member, old, new) \in Member
BY DEF renameEnd, Member

(* Something is called another name. *)
LEMMA RenamedIs ==
  ASSUME NEW T, Named(T), NEW s \in Seq(T), NEW i \in DOMAIN s, NEW new \in Identifier
  PROVE  [s EXCEPT ![i].id = new] \in Seq(T) /\ s[i].id \in Identifier
<1>1. s[i] \in T
  OBVIOUS
<1>2. [s[i] EXCEPT !.id = new] \in T /\ s[i].id \in Identifier
  BY <1>1, Zenon DEF Named
<1>3. [s EXCEPT ![i].id = new] = [s EXCEPT ![i] = [s[i] EXCEPT !.id = new]]
  OBVIOUS
<1> QED  BY <1>2, <1>3, UpdateIsSeq

(* Every load that says so follows. *)
Followed(m, f) ==
  WithOther(m, [k \in DOMAIN m.loads |-> f[m.loads[k]]],
            [i \in DOMAIN m.cases |-> [k \in DOMAIN m.cases[i].loads |-> f[m.cases[i].loads[k]]]])

LEMMA FollowedIs ==
  ASSUME NEW Node, NEW types, NEW m \in Plane(Node, types), NEW f \in [LoadOf(types) -> LoadOf(types)]
  PROVE  Followed(m, f) \in Plane(Node, types)
<1> DEFINE L == LoadOf(types)
           g == [i \in DOMAIN m.cases |-> [k \in DOMAIN m.cases[i].loads |-> f[m.cases[i].loads[k]]]]
           loads == [k \in DOMAIN m.loads |-> f[m.loads[k]]]
<1>1. m.loads \in Seq(L) /\ \A i \in DOMAIN m.cases : m.cases[i].loads \in Seq(L)
  BY PlaneFields, CaseLoadsAre
<1> HIDE DEF L
<1>2. \A s \in Seq(L) : [k \in DOMAIN s |-> f[s[k]]] \in Seq(L)
  <2>1. \A s \in Seq(L) : EachOf(f, L)[s] = [k \in DOMAIN s |-> f[s[k]]]
    BY DEF EachOf
  <2>2. \A s \in Seq(L) : EachOf(f, L)[s] \in Seq(L)
    BY EachOfIs DEF L
  <2> QED  BY <2>1, <2>2
<1>3. loads \in Seq(L) /\ \A i \in DOMAIN m.cases : g[i] \in Seq(L)
  BY <1>1, <1>2
<1>4. Followed(m, f) = WithOther(m, loads, g)
  BY DEF Followed
<1> HIDE DEF loads, g
<1> QED  BY <1>3, <1>4, WithOtherIs DEF L

LEMMA RenameNodeIs ==
  ASSUME NEW Node, Named(Node), NEW types, NEW m \in Plane(Node, types), NEW i \in DOMAIN m.nodes, NEW new \in Identifier
  PROVE  renameNode(m, i, new) \in Plane(Node, types)
<1> DEFINE L == LoadOf(types)
           old == m.nodes[i].id
           follow(load) == IF load.type = "nodal" /\ load.node = old THEN [load EXCEPT !.node = new] ELSE load
           f == [load \in L |-> follow(load)]
           nodes == [m.nodes EXCEPT ![i].id = new]
           members == [k \in DOMAIN m.members |-> renameEnd(m.members[k], old, new)]
           m1 == [m EXCEPT !.nodes = nodes, !.members = members]
<1>1. m.nodes \in Seq(Node) /\ m.members \in Seq(Member)
  BY PlaneFields
<1>2. nodes \in Seq(Node)
  BY <1>1, RenamedIs
<1>3. members \in Seq(Member)
  <2> DEFINE g == members
  <2>1. g = [k \in DOMAIN m.members |-> g[k]] /\ \A k \in DOMAIN m.members : m.members[k] \in Member /\ g[k] = renameEnd(m.members[k], old, new)
    BY <1>1
  <2> HIDE DEF g, old
  <2>2. \A k \in DOMAIN m.members : g[k] \in Member
    BY <2>1, RenameEndIs
  <2>3. g \in Seq(Member)
    BY <1>1, <2>1, <2>2, MapIsSeq
  <2> QED  BY <2>3 DEF g
<1> DEFINE m0 == [m EXCEPT !.nodes[i].id = new, !.members = [k \in DOMAIN @ |-> renameEnd(@[k], old, new)]]
<1>4. renameNode(m, i, new) = [m1 EXCEPT !.loads = [k \in DOMAIN m1.loads |-> follow(m1.loads[k])],
                      !.cases = [j \in DOMAIN m1.cases |->
                         [m1.cases[j] EXCEPT !.loads = [k \in DOMAIN m1.cases[j].loads |-> follow(m1.cases[j].loads[k])]]]]
  <2>1. renameNode(m, i, new) = [m0 EXCEPT !.loads = [k \in DOMAIN m0.loads |-> follow(m0.loads[k])],
                      !.cases = [j \in DOMAIN m0.cases |->
                         [m0.cases[j] EXCEPT !.loads = [k \in DOMAIN m0.cases[j].loads |-> follow(m0.cases[j].loads[k])]]]]
    BY Zenon DEF renameNode, WithLoads, Each
  <2>2. m0 = m1
    <3>1. m0 = [m EXCEPT !.nodes = nodes, !.members = members]
      BY DEF Plane
    <3> QED BY <3>1
  <2> QED BY <2>1, <2>2, Zenon
<1>5. m1 = [[m EXCEPT !.nodes = nodes] EXCEPT !.members = members]
  BY DEF Plane
<1>6. \A load \in L : follow(load) \in L
  BY LoadWith
<1>7. f \in [L -> L] /\ \A load \in L : f[load] = follow(load)
  BY <1>6
<1> HIDE DEF nodes, members, m1, follow, f, L
<1>8. m1 \in Plane(Node, types)
  BY <1>2, <1>3, <1>5, PlaneWith
<1>9. renameNode(m, i, new) = Followed(m1, f)
  <2>1. m1.loads \in Seq(L) /\ \A j \in DOMAIN m1.cases : m1.cases[j].loads \in Seq(L)
    BY <1>8, PlaneFields, CaseLoadsAre DEF L
  <2>2. \A s \in Seq(L) : [k \in DOMAIN s |-> follow(s[k])] = [k \in DOMAIN s |-> f[s[k]]]
    BY <1>7
  <2>3. [k \in DOMAIN m1.loads |-> follow(m1.loads[k])] = [k \in DOMAIN m1.loads |-> f[m1.loads[k]]]
    BY <2>1, <2>2
  <2>4. \A j \in DOMAIN m1.cases : [k \in DOMAIN m1.cases[j].loads |-> follow(m1.cases[j].loads[k])]
                                   = [k \in DOMAIN m1.cases[j].loads |-> f[m1.cases[j].loads[k]]]
    BY <2>1, <2>2
  <2> DEFINE g == [j \in DOMAIN m1.cases |-> [k \in DOMAIN m1.cases[j].loads |-> f[m1.cases[j].loads[k]]]]
  <2>5. \A j \in DOMAIN m1.cases : g[j] = [k \in DOMAIN m1.cases[j].loads |-> follow(m1.cases[j].loads[k])]
    BY <2>4
  <2>6. Followed(m1, f) = WithOther(m1, [k \in DOMAIN m1.loads |-> f[m1.loads[k]]], g)
    BY DEF Followed
  <2> HIDE DEF g
  <2>7. [j \in DOMAIN m1.cases |->
           [m1.cases[j] EXCEPT !.loads = [k \in DOMAIN m1.cases[j].loads |-> follow(m1.cases[j].loads[k])]]]
        = [j \in DOMAIN m1.cases |-> [m1.cases[j] EXCEPT !.loads = g[j]]]
    BY <2>5, Zenon
  <2> QED  BY <1>4, <2>3, <2>6, <2>7, Zenon DEF WithOther
<1> QED  BY <1>7, <1>8, <1>9, FollowedIs DEF L

LEMMA RenameMemberIs ==
  ASSUME NEW Node, NEW types, NEW m \in Plane(Node, types), NEW i \in DOMAIN m.members, NEW new \in Identifier
  PROVE  renameMember(m, i, new) \in Plane(Node, types)
<1> DEFINE L == LoadOf(types)
           old == m.members[i].id
           follow(load) == IF load.type # "nodal" /\ load.member = old THEN [load EXCEPT !.member = new] ELSE load
           f == [load \in L |-> follow(load)]
           members == [m.members EXCEPT ![i].id = new]
           m1 == [m EXCEPT !.members = members]
           m0 == [m EXCEPT !.members[i].id = new]
<1>1. m.members \in Seq(Member)
  BY PlaneFields
<1>2. members \in Seq(Member)
  BY <1>1, RenamedIs, MembersAreNamed
<1>3. renameMember(m, i, new) = [m1 EXCEPT !.loads = [k \in DOMAIN m1.loads |-> follow(m1.loads[k])],
                      !.cases = [j \in DOMAIN m1.cases |->
                         [m1.cases[j] EXCEPT !.loads = [k \in DOMAIN m1.cases[j].loads |-> follow(m1.cases[j].loads[k])]]]]
  <2>1. renameMember(m, i, new) = [m0 EXCEPT !.loads = [k \in DOMAIN m0.loads |-> follow(m0.loads[k])],
                      !.cases = [j \in DOMAIN m0.cases |->
                         [m0.cases[j] EXCEPT !.loads = [k \in DOMAIN m0.cases[j].loads |-> follow(m0.cases[j].loads[k])]]]]
    BY Zenon DEF renameMember, WithLoads, Each
  <2>2. m0 = m1
    BY DEF Plane
  <2> QED BY <2>1, <2>2, Zenon
<1>6. \A load \in L : follow(load) \in L
  BY LoadWith
<1>7. f \in [L -> L] /\ \A load \in L : f[load] = follow(load)
  BY <1>6
<1>8. m1 \in Plane(Node, types)
  BY <1>2, PlaneWith
<1> HIDE DEF members, m1, follow, f, L
<1>9. renameMember(m, i, new) = Followed(m1, f)
  <2>1. m1.loads \in Seq(L) /\ \A j \in DOMAIN m1.cases : m1.cases[j].loads \in Seq(L)
    BY <1>8, PlaneFields, CaseLoadsAre DEF L
  <2>2. \A s \in Seq(L) : [k \in DOMAIN s |-> follow(s[k])] = [k \in DOMAIN s |-> f[s[k]]]
    BY <1>7
  <2>3. [k \in DOMAIN m1.loads |-> follow(m1.loads[k])] = [k \in DOMAIN m1.loads |-> f[m1.loads[k]]]
    BY <2>1, <2>2
  <2>4. \A j \in DOMAIN m1.cases : [k \in DOMAIN m1.cases[j].loads |-> follow(m1.cases[j].loads[k])]
                                   = [k \in DOMAIN m1.cases[j].loads |-> f[m1.cases[j].loads[k]]]
    BY <2>1, <2>2
  <2> DEFINE g == [j \in DOMAIN m1.cases |-> [k \in DOMAIN m1.cases[j].loads |-> f[m1.cases[j].loads[k]]]]
  <2>5. \A j \in DOMAIN m1.cases : g[j] = [k \in DOMAIN m1.cases[j].loads |-> follow(m1.cases[j].loads[k])]
    BY <2>4
  <2>6. Followed(m1, f) = WithOther(m1, [k \in DOMAIN m1.loads |-> f[m1.loads[k]]], g)
    BY DEF Followed
  <2> HIDE DEF g
  <2>7. [j \in DOMAIN m1.cases |->
           [m1.cases[j] EXCEPT !.loads = [k \in DOMAIN m1.cases[j].loads |-> follow(m1.cases[j].loads[k])]]]
        = [j \in DOMAIN m1.cases |-> [m1.cases[j] EXCEPT !.loads = g[j]]]
    BY <2>5, Zenon
  <2> QED  BY <1>3, <2>3, <2>6, <2>7, Zenon DEF WithOther
<1> QED  BY <1>7, <1>8, <1>9, FollowedIs DEF L

(* Loads on what is removed go with it. *)
LEMMA RemoveLoadsIs ==
  ASSUME NEW Node, NEW types, NEW m \in Plane(Node, types), NEW nodeIds, NEW memberIds
  PROVE  removeLoadsForTargets(m, nodeIds, memberIds) \in Plane(Node, types)
<1> DEFINE left(loads) == Where(loads,
             {load \in Elements(loads) : Target(load) \notin (IF load.type = "nodal" THEN nodeIds ELSE memberIds)})
           loads == left(m.loads)
           g == [i \in DOMAIN m.cases |-> left(m.cases[i].loads)]
<1>1. m.loads \in Seq(LoadOf(types)) /\ \A i \in DOMAIN m.cases : m.cases[i].loads \in Seq(LoadOf(types))
  BY PlaneFields, CaseLoadsAre
<1>2. removeLoadsForTargets(m, nodeIds, memberIds)
        = [m EXCEPT !.loads = loads, !.cases = [i \in DOMAIN m.cases |-> [m.cases[i] EXCEPT !.loads = left(m.cases[i].loads)]]]
  BY Zenon DEF removeLoadsForTargets, WithLoads
<1>3. \A s \in Seq(LoadOf(types)) : left(s) \in Seq(LoadOf(types))
  BY WhereIsSeq
<1>4. \A i \in DOMAIN m.cases : g[i] = left(m.cases[i].loads)
  OBVIOUS
<1> HIDE DEF left
<1>5. loads \in Seq(LoadOf(types)) /\ \A i \in DOMAIN m.cases : g[i] \in Seq(LoadOf(types))
  BY <1>1, <1>3
<1> HIDE DEF g
<1>6. removeLoadsForTargets(m, nodeIds, memberIds) = WithOther(m, loads, g)
  <2>1. [i \in DOMAIN m.cases |-> [m.cases[i] EXCEPT !.loads = left(m.cases[i].loads)]]
        = [i \in DOMAIN m.cases |-> [m.cases[i] EXCEPT !.loads = g[i]]]
    BY <1>4, Zenon
  <2> QED  BY <1>2, <2>1, Zenon DEF WithOther
<1> HIDE DEF loads
<1> QED  BY <1>5, <1>6, WithOtherIs

LEMMA RemoveMemberIs ==
  ASSUME NEW Node, NEW types, NEW m \in Plane(Node, types), NEW i \in DOMAIN m.members
  PROVE  removeMember(m, i) \in Plane(Node, types)
<1> DEFINE members == RemoveAt(m.members, i)
           m1 == [m EXCEPT !.members = members]
<1>1. m.members \in Seq(Member)
  BY PlaneFields
<1>2. members \in Seq(Member)
  BY <1>1, RemoveAtIsSeq
<1>3. removeMember(m, i) = removeLoadsForTargets(m1, {}, {m.members[i].id})
  BY DEF removeMember
<1> HIDE DEF members
<1>4. m1 \in Plane(Node, types)
  BY <1>2, PlaneWith
<1> HIDE DEF m1
<1> QED  BY <1>3, <1>4, RemoveLoadsIs

LEMMA RemoveNodeIs ==
  ASSUME NEW Node, NEW types, NEW m \in Plane(Node, types), NEW i \in DOMAIN m.nodes
  PROVE  removeNode(m, i) \in Plane(Node, types)
<1> DEFINE id == m.nodes[i].id
           gone == {member.id : member \in {k \in Elements(m.members) : id \in {k.start, k.end}}}
           nodes == RemoveAt(m.nodes, i)
           members == Where(m.members, {member \in Elements(m.members) : member.id \notin gone})
           m1 == [[m EXCEPT !.nodes = nodes] EXCEPT !.members = members]
<1>1. m.nodes \in Seq(Node) /\ m.members \in Seq(Member)
  BY PlaneFields
<1>2. nodes \in Seq(Node) /\ members \in Seq(Member)
  BY <1>1, RemoveAtIsSeq, WhereIsSeq
<1>3. removeNode(m, i) = removeLoadsForTargets([m EXCEPT !.nodes = nodes, !.members = members], {id}, gone)
  BY DEF removeNode
<1> HIDE DEF nodes, members, id, gone
<1>4. [m EXCEPT !.nodes = nodes, !.members = members] = m1
  BY DEF Plane
<1>5. m1 \in Plane(Node, types)
  BY <1>2, PlaneWith
<1> HIDE DEF m1
<1> QED  BY <1>3, <1>4, <1>5, RemoveLoadsIs

LEMMA DeleteSelectionsIs ==
  ASSUME NEW Node, NEW types, NEW m \in Plane(Node, types), NEW nodeIds, NEW memberIds, NEW chosen
  PROVE  deleteSelections(m, nodeIds, memberIds, chosen) \in Plane(Node, types)
<1> DEFINE gone == memberIds \cup {member.id : member \in
                     {k \in Elements(m.members) : {k.start, k.end} \cap nodeIds # {}}}
           nodes == Where(m.nodes, {node \in Elements(m.nodes) : node.id \notin nodeIds})
           members == Where(m.members, {member \in Elements(m.members) : member.id \notin gone})
           loads == Picked(m.loads, DOMAIN m.loads \ chosen)
           m1 == [[[m EXCEPT !.nodes = nodes] EXCEPT !.members = members] EXCEPT !.loads = loads]
<1>1. m.nodes \in Seq(Node) /\ m.members \in Seq(Member) /\ m.loads \in Seq(LoadOf(types))
  BY PlaneFields
<1>2. nodes \in Seq(Node) /\ members \in Seq(Member)
  BY <1>1, WhereIsSeq
<1>3. loads \in Seq(LoadOf(types))
  BY <1>1, PickedIsSeq
<1>4. deleteSelections(m, nodeIds, memberIds, chosen)
        = removeLoadsForTargets([m EXCEPT !.nodes = nodes, !.members = members, !.loads = loads], nodeIds, gone)
  BY DEF deleteSelections
<1> HIDE DEF nodes, members, loads, gone
<1>5. [m EXCEPT !.nodes = nodes, !.members = members, !.loads = loads] = m1
  BY DEF Plane
<1>6. m1 \in Plane(Node, types)
  BY <1>2, <1>3, PlaneWith
<1> HIDE DEF m1
<1> QED  BY <1>4, <1>5, <1>6, RemoveLoadsIs

LEMMA CombinationWith ==
  ASSUME NEW c \in Combination, NEW D \in SUBSET Identifier, NEW f \in [D -> Int]
  PROVE  [c EXCEPT !.factors = f] \in Combination
<1> DEFINE new == [c EXCEPT !.factors = f]
<1>1. c = [id |-> c.id, factors |-> c.factors] /\ c.id \in Identifier
  BY CombinationIs
<1>2. new = [id |-> c.id, factors |-> f]
  BY <1>1
<1>3. DOMAIN f = D
  OBVIOUS
<1> HIDE DEF new
<1>4. new.id = c.id /\ new.factors = f
  BY <1>2
<1> QED  BY <1>1, <1>2, <1>3, <1>4, CombinationIs DEF new

LEMMA RenameCaseIs ==
  ASSUME NEW Node, NEW types, NEW m \in Plane(Node, types), NEW i \in DOMAIN m.cases, NEW new \in Identifier
  PROVE  renameCase(m, i, new) \in Plane(Node, types)
<1> DEFINE old == m.cases[i].id
           with(c) == [id \in (DOMAIN c.factors \ {old}) \cup {new} |-> IF id = new THEN c.factors[old] ELSE c.factors[id]]
           follow(c) == IF old \notin DOMAIN c.factors THEN c ELSE [c EXCEPT !.factors = with(c)]
           cases == [m.cases EXCEPT ![i].id = new]
           combinations == [k \in DOMAIN m.combinations |-> follow(m.combinations[k])]
           m1 == [m EXCEPT !.cases[i].id = new, !.combinations = combinations]
<1>1. m.cases \in Seq(CaseOf(types)) /\ m.combinations \in Seq(Combination)
  BY PlaneFields
<1>2. cases \in Seq(CaseOf(types)) /\ old \in Identifier
  BY <1>1, RenamedIs, CasesAreNamed
<1>3. renameCase(m, i, new) = IF new = old THEN m ELSE m1
  BY Zenon DEF renameCase, Each
<1>4. m1 = [[m EXCEPT !.cases = cases] EXCEPT !.combinations = combinations]
  BY DEF Plane
<1> HIDE DEF m1, cases, old
<1>5. ASSUME NEW c \in Combination PROVE follow(c) \in Combination
  <2>1. CASE old \notin DOMAIN c.factors
    BY <2>1
  <2>2. CASE old \in DOMAIN c.factors
    <3>1. DOMAIN c.factors \subseteq Identifier /\ c.factors \in [DOMAIN c.factors -> Int]
      BY CombinationIs
    <3> DEFINE D == (DOMAIN c.factors \ {old}) \cup {new}
               f == with(c)
    <3>2. D \in SUBSET Identifier /\ f \in [D -> Int]
      BY <2>2, <3>1
    <3>3. follow(c) = [c EXCEPT !.factors = f]
      BY <2>2
    <3> HIDE DEF D, f, follow
    <3> QED  BY <3>2, <3>3, CombinationWith
  <2> QED  BY <2>1, <2>2
<1>6. combinations \in Seq(Combination)
  <2> DEFINE g == combinations
  <2>1. g = [k \in DOMAIN m.combinations |-> g[k]] /\ \A k \in DOMAIN m.combinations : g[k] = follow(m.combinations[k])
    OBVIOUS
  <2>4. \A k \in DOMAIN m.combinations : m.combinations[k] \in Combination
    BY <1>1
  <2>5. \A c \in Combination : follow(c) \in Combination
    BY <1>5
  <2> HIDE DEF g, follow
  <2>2. \A k \in DOMAIN m.combinations : g[k] \in Combination
    BY <2>1, <2>4, <2>5, Zenon
  <2>3. g \in Seq(Combination)
    BY <1>1, <2>1, <2>2, MapIsSeq
  <2> QED  BY <2>3 DEF g
<1> HIDE DEF combinations
<1> DEFINE m2 == [m EXCEPT !.cases = cases]
<1>7. m2 \in Plane(Node, types)
  BY <1>2, PlaneWith
<1> HIDE DEF m2
<1>8. [m2 EXCEPT !.combinations = combinations] \in Plane(Node, types)
  BY <1>6, <1>7, PlaneWith
<1> QED  BY <1>3, <1>4, <1>8 DEF m2

LEMMA RemoveCaseIs ==
  ASSUME NEW Node, NEW types, NEW m \in Plane(Node, types), NEW i \in DOMAIN m.cases
  PROVE  removeCase(m, i) \in Plane(Node, types)
<1> DEFINE id == m.cases[i].id
           without(c) == [c EXCEPT !.factors = [k \in DOMAIN c.factors \ {id} |-> c.factors[k]]]
           left == [k \in DOMAIN m.combinations |-> without(m.combinations[k])]
           cases == RemoveAt(m.cases, i)
           combinations == Where(left, {c \in Elements(left) : DOMAIN c.factors # {}})
<1>1. m.cases \in Seq(CaseOf(types)) /\ m.combinations \in Seq(Combination)
  BY PlaneFields
<1>2. cases \in Seq(CaseOf(types))
  BY <1>1, RemoveAtIsSeq
<1>3. removeCase(m, i) = [m EXCEPT !.cases = cases, !.combinations = combinations]
  BY Zenon DEF removeCase, Each
<1> HIDE DEF cases, id
<1>4. ASSUME NEW c \in Combination PROVE without(c) \in Combination
  <2>1. DOMAIN c.factors \subseteq Identifier /\ c.factors \in [DOMAIN c.factors -> Int]
    BY CombinationIs
  <2> DEFINE D == DOMAIN c.factors \ {id}
             f == [k \in D |-> c.factors[k]]
  <2>2. D \in SUBSET Identifier /\ f \in [D -> Int]
    BY <2>1
  <2>3. without(c) = [c EXCEPT !.factors = f]
    OBVIOUS
  <2> HIDE DEF D, f, without
  <2> QED  BY <2>2, <2>3, CombinationWith
<1>5. left \in Seq(Combination)
  <2> DEFINE g == left
  <2>1. g = [k \in DOMAIN m.combinations |-> g[k]] /\ \A k \in DOMAIN m.combinations : g[k] = without(m.combinations[k])
    OBVIOUS
  <2>4. \A k \in DOMAIN m.combinations : m.combinations[k] \in Combination
    BY <1>1
  <2>5. \A c \in Combination : without(c) \in Combination
    BY <1>4
  <2> HIDE DEF g, without
  <2>2. \A k \in DOMAIN m.combinations : g[k] \in Combination
    BY <2>1, <2>4, <2>5, Zenon
  <2>3. g \in Seq(Combination)
    BY <1>1, <2>1, <2>2, MapIsSeq
  <2> QED  BY <2>3 DEF g
<1> HIDE DEF left
<1>6. combinations \in Seq(Combination)
  BY <1>5, WhereIsSeq
<1> HIDE DEF combinations
<1> DEFINE m2 == [m EXCEPT !.cases = cases]
<1>7. m2 \in Plane(Node, types)
  BY <1>2, PlaneWith
<1>8. removeCase(m, i) = [m2 EXCEPT !.combinations = combinations]
  BY <1>3 DEF Plane
<1> HIDE DEF m2
<1> QED  BY <1>6, <1>7, <1>8, PlaneWith

LEMMA UniqueIdIs ==
  ASSUME NEW T, Named(T), NEW s \in Seq(T), NEW id \in Identifier, NEW index \in Int
  PROVE  uniqueId(id, Ids(s), index) \in Identifier
<1> DEFINE x == AddedTo(id, "_C", index)
           used == Ids(s)
<1>1. "_C" \in Text /\ "_" \in Text
  BY DEF Text
<1>2. x \in Identifier
  BY <1>1, AddedIsIdentifier
<1>3. IsFiniteSet(used)
  BY IdsAreFinite
<1>4. uniqueId(id, used, index) = firstUnused(x, "_", used)
  BY DEF uniqueId
<1> HIDE DEF x, used
<1>5. firstUnused(x, "_", used) \in Identifier
  BY <1>1, <1>2, <1>3, FirstUnusedIsFree
<1> QED  BY <1>4, <1>5 DEF used

(* Some of a sequence, each put through f. *)
LEMMA EachWhereIs ==
  ASSUME NEW T, NEW s \in Seq(T), NEW S, NEW U, NEW f, f = [k \in DOMAIN Where(s, S) |-> f[k]],
         \A k \in DOMAIN Where(s, S) : Where(s, S)[k] \in T \cap S => f[k] \in U
  PROVE  f \in Seq(U)
<1> DEFINE r == Where(s, S)
<1>1. r \in Seq(T) /\ Elements(r) = Elements(s) \cap S
  BY WhereIsSeq
<1> HIDE DEF r
<1>2. \A k \in DOMAIN r : r[k] \in T \cap S
  BY <1>1 DEF Elements
<1>3. f = [k \in DOMAIN r |-> f[k]] /\ \A k \in DOMAIN r : f[k] \in U
  BY <1>2 DEF r
<1> QED  BY <1>1, <1>3, MapIsSeq

(* Names for some of what there is. *)
Names(name) == DOMAIN name \subseteq Identifier /\ \A id \in DOMAIN name : name[id] \in Identifier

LEMMA CopyNamesAre ==
  ASSUME NEW Node, Named(Node), NEW types, NEW m \in Plane(Node, types),
         NEW nodeIds, NEW memberIds, NEW index \in Int
  PROVE  LET name == copyNames(m, nodeIds, memberIds, index) IN Names(name.nodes) /\ Names(name.members)
<1>1. m.nodes \in Seq(Node) /\ m.members \in Seq(Member)
  BY PlaneFields
<1>2. Ids(m.nodes) \subseteq Identifier /\ Ids(m.members) \subseteq Identifier
  BY <1>1, IdsAreIdentifiers, MembersAreNamed
<1>3. \A id \in Identifier : uniqueId(id, Ids(m.nodes), index) \in Identifier
                              /\ uniqueId(id, Ids(m.members), index) \in Identifier
  BY <1>1, UniqueIdIs, MembersAreNamed
<1> DEFINE ends == {id \in Ids(m.nodes) : \E member \in Elements(m.members) :
                      member.id \in memberIds /\ id \in {member.start, member.end}}
           chosen == nodeIds \cup ends
           nodes == IF chosen = {} /\ memberIds = {} THEN Ids(m.nodes) ELSE chosen \cap Ids(m.nodes)
           between == {k \in Elements(m.members) : {k.start, k.end} \subseteq nodes}
           members == {k.id : k \in {k \in between : memberIds = {} \/ k.id \in memberIds}}
           nodeName == [id \in nodes |-> uniqueId(id, Ids(m.nodes), index)]
           memberName == [id \in members |-> uniqueId(id, Ids(m.members), index)]
<1>4. copyNames(m, nodeIds, memberIds, index) = [nodes |-> nodeName, members |-> memberName]
  BY Zenon DEF copyNames
<1>5. nodes \subseteq Identifier
  BY <1>2
<1>6. members \subseteq Identifier
  <2> HIDE DEF nodes
  <2>1. Ids(m.members) = {k.id : k \in Elements(m.members)}
    BY <1>1, IdsOfElements
  <2> QED  BY <1>2, <2>1
<1> HIDE DEF nodes, members
<1>7. Names(nodeName) /\ Names(memberName)
  BY <1>3, <1>5, <1>6 DEF Names
<1> QED  BY <1>4, <1>7

LEMMA CopyNamedIs ==
  ASSUME NEW Node, Named(Node), NEW types, NEW m \in Plane(Node, types),
         NEW nodeName, Names(nodeName), NEW memberName, Names(memberName)
  PROVE  copyNamed(m, nodeName, memberName) \in Plane(Node, types)
<1> DEFINE L == LoadOf(types)
           chosenNodes == {node \in Elements(m.nodes) : node.id \in DOMAIN nodeName}
           nodes == Where(m.nodes, chosenNodes)
           chosenMembers == {k \in Elements(m.members) :
                               k.id \in DOMAIN memberName /\ {k.start, k.end} \subseteq DOMAIN nodeName}
           kept == Where(m.members, chosenMembers)
           onCopy(loads) == Where(loads, {load \in Elements(loads) :
             Target(load) \in (IF load.type = "nodal" THEN DOMAIN nodeName ELSE DOMAIN memberName)})
           copied(load) == IF load.type = "nodal" THEN [load EXCEPT !.node = nodeName[load.node]]
                           ELSE [load EXCEPT !.member = memberName[load.member]]
           newNodes == [k \in DOMAIN nodes |-> [nodes[k] EXCEPT !.id = nodeName[nodes[k].id]]]
           newMembers == [k \in DOMAIN kept |->
             [kept[k] EXCEPT !.id = memberName[kept[k].id], !.start = nodeName[kept[k].start], !.end = nodeName[kept[k].end]]]
           m1 == [m EXCEPT !.nodes = m.nodes \o newNodes, !.members = m.members \o newMembers]
           newLoads(loads) == [k \in DOMAIN onCopy(loads) |-> copied(onCopy(loads)[k])]
           all(loads) == loads \o newLoads(loads)
<1>1. copyNamed(m, nodeName, memberName)
        = [m1 EXCEPT !.loads = all(m1.loads),
                     !.cases = [i \in DOMAIN m1.cases |-> [m1.cases[i] EXCEPT !.loads = all(m1.cases[i].loads)]]]
  BY Zenon DEF copyNamed, WithLoads, Each
<1>2. m.nodes \in Seq(Node) /\ m.members \in Seq(Member) /\ m.loads \in Seq(L)
      /\ \A i \in DOMAIN m.cases : m.cases[i].loads \in Seq(L)
  BY PlaneFields, CaseLoadsAre
<1> HIDE DEF L
<1>4. DOMAIN nodeName \subseteq Identifier /\ \A id \in DOMAIN nodeName : nodeName[id] \in Identifier
  BY DEF Names
<1>6. \A id \in DOMAIN memberName : memberName[id] \in Identifier
  BY DEF Names
<1>7. newNodes \in Seq(Node)
  <2> DEFINE f == newNodes
  <2>1. f = [k \in DOMAIN nodes |-> f[k]] /\ \A k \in DOMAIN nodes : f[k] = [nodes[k] EXCEPT !.id = nodeName[nodes[k].id]]
    OBVIOUS
  <2> HIDE DEF f
  <2>2. \A x \in Node : \A new \in Identifier : [x EXCEPT !.id = new] \in Node
    BY Zenon DEF Named
  <2>3. \A x \in chosenNodes : nodeName[x.id] \in Identifier
    BY <1>4
  <2> HIDE DEF chosenNodes
  <2>4. \A k \in DOMAIN nodes : nodes[k] \in Node \cap chosenNodes => f[k] \in Node
    BY <2>1, <2>2, <2>3
  <2>5. f \in Seq(Node)
    <3>1. f = [k \in DOMAIN Where(m.nodes, chosenNodes) |-> f[k]]
      BY <2>1
    <3>2. \A k \in DOMAIN Where(m.nodes, chosenNodes) :
            Where(m.nodes, chosenNodes)[k] \in Node \cap chosenNodes => f[k] \in Node
      BY <2>4
    <3> QED  BY <1>2, <3>1, <3>2, EachWhereIs
  <2> QED  BY <2>5 DEF f
<1>8. newMembers \in Seq(Member)
  <2> DEFINE f == newMembers
  <2>1. f = [k \in DOMAIN kept |-> f[k]]
        /\ \A k \in DOMAIN kept : f[k] = [kept[k] EXCEPT !.id = memberName[kept[k].id], !.start = nodeName[kept[k].start],
                                                         !.end = nodeName[kept[k].end]]
    OBVIOUS
  <2> HIDE DEF f
  <2>3. \A x \in chosenMembers : memberName[x.id] \in Identifier /\ nodeName[x.start] \in Identifier
                                 /\ nodeName[x.end] \in Identifier
    BY <1>4, <1>6
  <2> HIDE DEF chosenMembers
  <2>4. ASSUME NEW k \in DOMAIN kept, kept[k] \in Member \cap chosenMembers PROVE f[k] \in Member
    <3> DEFINE x == kept[k]
    <3>1. f[k] = [x EXCEPT !.id = memberName[x.id], !.start = nodeName[x.start], !.end = nodeName[x.end]]
      BY <2>1
    <3>2. x \in Member /\ x \in chosenMembers
      BY <2>4
    <3> HIDE DEF x
    <3> DEFINE a == memberName[x.id]  b == nodeName[x.start]  c == nodeName[x.end]
    <3>3. a \in Identifier /\ b \in Identifier /\ c \in Identifier
      BY <2>3, <3>2
    <3>4. f[k] = [x EXCEPT !.id = a, !.start = b, !.end = c]
      BY <3>1
    <3> HIDE DEF a, b, c
    <3> QED  BY <3>2, <3>3, <3>4 DEF Member
  <2>7. f \in Seq(Member)
    <3>1. f = [k \in DOMAIN Where(m.members, chosenMembers) |-> f[k]]
      BY <2>1
    <3>2. \A k \in DOMAIN Where(m.members, chosenMembers) :
            Where(m.members, chosenMembers)[k] \in Member \cap chosenMembers => f[k] \in Member
      BY <2>4
    <3> QED  BY <1>2, <3>1, <3>2, EachWhereIs
  <2> QED  BY <2>7 DEF f
<1> HIDE DEF newNodes, newMembers
<1>9. m1 \in Plane(Node, types) /\ m1.loads = m.loads /\ m1.cases = m.cases
  <2> DEFINE a == m.nodes \o newNodes
             b == m.members \o newMembers
             m0 == [m EXCEPT !.nodes = a]
  <2>1. a \in Seq(Node) /\ b \in Seq(Member)
    BY <1>2, <1>7, <1>8, ConcatIsSeq
  <2> HIDE DEF a, b
  <2>2. m0 \in Plane(Node, types)
    BY <2>1, PlaneWith
  <2> HIDE DEF m0
  <2>3. [m0 EXCEPT !.members = b] \in Plane(Node, types)
    BY <2>1, <2>2, PlaneWith
  <2>4. m1 = [m0 EXCEPT !.members = b] /\ m1.loads = m.loads /\ m1.cases = m.cases
    BY DEF Plane, m0, a, b
  <2> QED  BY <2>3, <2>4
<1> HIDE DEF m1
<1>10. ASSUME NEW s \in Seq(L) PROVE all(s) \in Seq(L)
  <2> DEFINE S == {load \in Elements(s) :
               Target(load) \in (IF load.type = "nodal" THEN DOMAIN nodeName ELSE DOMAIN memberName)}
             f == newLoads(s)
  <2>1. f = [k \in DOMAIN Where(s, S) |-> f[k]] /\ \A k \in DOMAIN Where(s, S) : f[k] = copied(Where(s, S)[k])
    OBVIOUS
  <2>2. ASSUME NEW x \in L \cap S PROVE copied(x) \in L
    <3>1. CASE x.type = "nodal"
      <4>1. nodeName[x.node] \in Identifier
        BY <1>4, <3>1 DEF Target
      <4> QED  BY <3>1, <4>1, LoadWith DEF L
    <3>2. CASE x.type # "nodal"
      <4>1. memberName[x.member] \in Identifier
        BY <1>6, <3>2 DEF Target
      <4> QED  BY <3>2, <4>1, LoadWith DEF L
    <3> QED  BY <3>1, <3>2
  <2> HIDE DEF S, f, copied
  <2>3. \A k \in DOMAIN Where(s, S) : Where(s, S)[k] \in L \cap S => f[k] \in L
    BY <2>1, <2>2
  <2>4. f \in Seq(L)
    BY <2>1, <2>3, EachWhereIs
  <2>5. all(s) = s \o f
    BY DEF f
  <2> QED  BY <2>4, <2>5, ConcatIsSeq
<1> HIDE DEF all
<1> DEFINE loads == all(m1.loads)
           g == [i \in DOMAIN m1.cases |-> all(m1.cases[i].loads)]
<1>11. copyNamed(m, nodeName, memberName) = WithOther(m1, loads, g)
  <2>1. \A i \in DOMAIN m1.cases : g[i] = all(m1.cases[i].loads)
    OBVIOUS
  <2> HIDE DEF g
  <2>2. [i \in DOMAIN m1.cases |-> [m1.cases[i] EXCEPT !.loads = all(m1.cases[i].loads)]]
        = [i \in DOMAIN m1.cases |-> [m1.cases[i] EXCEPT !.loads = g[i]]]
    BY <2>1, Zenon
  <2> QED  BY <1>1, <2>2, Zenon DEF WithOther
<1>12. loads \in Seq(L) /\ \A i \in DOMAIN m1.cases : g[i] \in Seq(L)
  BY <1>2, <1>9, <1>10
<1> HIDE DEF loads, g
<1> QED  BY <1>9, <1>11, <1>12, WithOtherIs DEF L

LEMMA CopyOnceIs ==
  ASSUME NEW Node, Named(Node), NEW types, NEW m \in Plane(Node, types),
         NEW nodeIds, NEW memberIds, NEW index \in Int
  PROVE  copyOnce(m, nodeIds, memberIds, index) \in Plane(Node, types)
<1> DEFINE name == copyNames(m, nodeIds, memberIds, index)
<1>1. Names(name.nodes) /\ Names(name.members)
  BY CopyNamesAre
<1>2. copyOnce(m, nodeIds, memberIds, index) = copyNamed(m, name.nodes, name.members)
  BY DEF copyOnce
<1> HIDE DEF name
<1> QED  BY <1>1, <1>2, CopyNamedIs

----------------------------------------------------------------------------
(* The text of a frame. *)

(* Sequences one after another. *)
LEMMA FlattenedIsSeq ==
  ASSUME NEW T, NEW s \in Seq(Seq(T))
  PROVE  FlattenSeq(s) \in Seq(T)
<1> DEFINE n == Len(s)
           X == Seq(T)
           step == [k \in 1..n |-> [b \in X |-> b \o s[k]]]
           Recurs(g) == g = [i \in 1..n |-> IF i = 1 THEN s[i] ELSE g[i - 1] \o s[i]]
<1>1. n \in Nat /\ <<>> \in X /\ \A k \in 1..n : s[k] \in X
  OBVIOUS
<1>2. CASE n = 0
  <2>1. s = <<>>
    BY <1>2
  <2>2. FlattenSeq(s) = s
    BY <1>2 DEF FlattenSeq
  <2> QED  BY <1>1, <2>1, <2>2
<1>3. CASE n # 0
  <2>1. step \in [1..n -> [X -> X]]
    <3>1. \A k \in 1..n : \A b \in X : b \o s[k] \in X
      BY <1>1
    <3> HIDE DEF X, n
    <3> QED  BY <3>1
  <2>2. PICK f : MeetsRecursion(f, n, X, <<>>, step)
    <3> DEFINE empty == <<>>
    <3>1. empty \in X
      BY <1>1
    <3> HIDE DEF X, n, step, empty
    <3>2. \E f : MeetsRecursion(f, n, X, empty, step)
      BY <1>1, <2>1, <3>1, RecursionIsMet
    <3> QED  BY <3>2 DEF empty
  <2>3. f \in [0..n -> X] /\ f[0] = <<>> /\ \A k \in 1..n : f[k] = f[k - 1] \o s[k]
    <3>1. f \in [0..n -> X] /\ f[0] = <<>> /\ \A k \in 1..n : f[k] = step[k][f[k - 1]]
      BY <2>2 DEF MeetsRecursion
    <3>2. \A k \in 1..n : f[k - 1] \in X
      <4>1. \A k \in 1..n : k - 1 \in 0..n
        BY <1>1
      <4> QED  BY <3>1, <4>1
    <3> HIDE DEF X, n
    <3> QED  BY <3>1, <3>2
  <2>4. f[1] = s[1]
    <3>1. 1 \in 1..n /\ f[1 - 1] = <<>>
      BY <1>1, <1>3, <2>3
    <3>2. f[1] = <<>> \o s[1]
      BY <2>3, <3>1
    <3>3. s[1] \in Seq(T)
      BY <1>1, <3>1
    <3> HIDE DEF n
    <3> QED  BY <3>2, <3>3
  <2> DEFINE h == [i \in 1..n |-> f[i]]
  <2>5. Recurs(h)
    <3>1. \A i \in 1..n : h[i] = IF i = 1 THEN s[i] ELSE h[i - 1] \o s[i]
      <4> SUFFICES ASSUME NEW i \in 1..n PROVE h[i] = IF i = 1 THEN s[i] ELSE h[i - 1] \o s[i]
        OBVIOUS
      <4>1. i # 1 => i - 1 \in 1..n
        BY <1>1
      <4> HIDE DEF n
      <4> QED  BY <2>3, <2>4, <4>1
    <3>2. h = [i \in 1..n |-> h[i]]
      OBVIOUS
    <3> HIDE DEF h
    <3> QED  BY <3>1, <3>2, Zenon
  <2> DEFINE flatten == CHOOSE g : Recurs(g)
  <2>6. Recurs(flatten)
    <3> HIDE DEF Recurs
    <3> QED  BY <2>5
  <2>7. FlattenSeq(s) = flatten[n]
    BY <1>3 DEF FlattenSeq
  <2> HIDE DEF flatten
  <2>8. \A i \in 1..n : flatten[i] \in X
    <3> DEFINE Fails == {i \in 1..n : flatten[i] \notin X}
    <3> SUFFICES ASSUME Fails # {} PROVE FALSE
      OBVIOUS
    <3>1. PICK i \in Fails : \A j \in Fails : i <= j
      <4>1. Fails \in SUBSET Nat
        BY <1>1
      <4> HIDE DEF Fails
      <4> QED  BY <4>1, LeastNumber
    <3>2. i \in 1..n /\ flatten[i] \notin X
      BY <3>1
    <3>3. \A k \in 1..n : flatten[k] = IF k = 1 THEN s[k] ELSE flatten[k - 1] \o s[k]
      <4> HIDE DEF n
      <4> QED  BY <2>6
    <3>4. CASE i = 1
      BY <1>1, <3>2, <3>3, <3>4
    <3>5. CASE i # 1
      <4>1. i - 1 \in 1..n /\ ~(i <= i - 1)
        BY <3>2, <3>5
      <4>2. flatten[i - 1] \in X
        BY <3>1, <4>1
      <4>3. flatten[i] = flatten[i - 1] \o s[i] /\ s[i] \in X
        BY <1>1, <3>2, <3>3, <3>5
      <4>4. \A a, b \in Seq(T) : a \o b \in Seq(T)
        OBVIOUS
      <4> QED  BY <3>2, <4>2, <4>3, <4>4
    <3> QED  BY <3>4, <3>5
  <2> QED  BY <1>1, <1>3, <2>7, <2>8
<1> QED  BY <1>2, <1>3

LineOf(D) == [number : Int, dof : D]
SupportLine == [number : Int, support : {"fixed", "pinned", "roller", "free"}, angle : Int]
LoadLine == [load : LoadOf(LoadTypes), number : Int]
EndsLine == [start : Int, end : Int]
CaseLines == [id : Identifier, loads : Seq(LoadLine)]
SpringDofs == {"ux", "uy", "rz"}
DisplacementDofs == {"ux", "uy", "rz", "n"}

TextLines(text) ==
  /\ text.nodes \in Seq(Int) /\ text.supports \in Seq(SupportLine)
  /\ text.springs \in Seq(LineOf(SpringDofs)) /\ text.displacements \in Seq(LineOf(DisplacementDofs))
  /\ text.members \in Seq(EndsLine) /\ text.loads \in Seq(LoadLine)
  /\ text.cases \in Seq(CaseLines) /\ text.combinations \in Seq(Combination)

LEMMA NodeNumberIs ==
  ASSUME NEW m \in Frames, NEW i \in DOMAIN m.nodes
  PROVE  nodeNumber(m, i) \in Int
<1> DEFINE id == m.nodes[i].id
<1>1. m.nodes \in Seq(FrameNode)
  BY PlaneFields DEF Frames
<1>2. id \in Identifier /\ i \in Int
  <2>1. i \in Int
    BY <1>1
  <2> QED  BY <1>1, <2>1, IdsThere, FrameNodesAreNamed
<1>3. nodeNumber(m, i) = CASE id.n # 0 -> id.n [] id.n = 0 /\ id.tail # <<>> -> NumberIn(id.tail[1]) [] OTHER -> i
  BY DEF nodeNumber
<1> HIDE DEF id
<1>4. id.n \in Int /\ id.tail \in Seq([text : Text, n : Int])
  BY <1>2 DEF Identifier
<1>5. CASE id.n # 0
  BY <1>3, <1>4, <1>5
<1>6. CASE id.n = 0 /\ id.tail # <<>>
  <2> DEFINE Appended == [text : Text, n : Int]
             tail == id.tail
  <2>1. tail \in Seq(Appended) /\ tail # <<>>
    BY <1>4, <1>6
  <2>2. tail[1].n \in Int
    <3> HIDE DEF Appended, tail
    <3>1. tail[1] \in Appended
      BY <2>1
    <3> QED  BY <3>1 DEF Appended
  <2>3. NumberIn(id.tail[1]) \in Int
    BY <2>2 DEF NumberIn
  <2> QED  BY <1>3, <1>6, <2>3
<1>7. CASE id.n = 0 /\ id.tail = <<>>
  BY <1>2, <1>3, <1>7
<1> QED  BY <1>5, <1>6, <1>7

LEMMA PlaceIs ==
  ASSUME NEW s, NEW id \in Ids(s)
  PROVE  PlaceOf(id, s) \in DOMAIN s
<1>1. \E i \in DOMAIN s : s[i].id = id
  BY DEF Ids
<1> QED  BY <1>1 DEF PlaceOf

LEMMA NumberOfIs ==
  ASSUME NEW m \in Frames, NEW id
  PROVE  nodeNumberOf(m, id) \in Int /\ memberNumberOf(m, id) \in Int
<1>1. m.nodes \in Seq(FrameNode) /\ m.members \in Seq(Member)
  BY PlaneFields DEF Frames
<1>2. nodeNumberOf(m, id) \in Int
  <2>1. CASE id \in Ids(m.nodes)
    BY <2>1, PlaceIs, NodeNumberIs DEF nodeNumberOf
  <2> QED  BY <2>1 DEF nodeNumberOf
<1>3. memberNumberOf(m, id) \in Int
  <2>1. CASE id \in Ids(m.members)
    <3>1. PlaceOf(id, m.members) \in DOMAIN m.members
      BY <2>1, PlaceIs
    <3> QED  BY <1>1, <2>1, <3>1 DEF memberNumberOf
  <2> QED  BY <2>1 DEF memberNumberOf
<1> QED  BY <1>2, <1>3

LEMMA LoadLineIs ==
  ASSUME NEW m \in Frames, NEW load \in LoadOf(LoadTypes)
  PROVE  serializeFrameTextLoad(load, m) \in LoadLine
<1> DEFINE n == IF load.type = "nodal" THEN nodeNumberOf(m, load.node) ELSE memberNumberOf(m, load.member)
<1>1. n \in Int
  BY NumberOfIs
<1>2. serializeFrameTextLoad(load, m) = [load |-> load, number |-> n]
  BY DEF serializeFrameTextLoad
<1> HIDE DEF n
<1> QED  BY <1>1, <1>2 DEF LoadLine

(* What each node adds to the lines. *)
LEMMA LinesOfNodes ==
  ASSUME NEW s, NEW S, s \in Seq(S), NEW T, NEW f, f = [i \in DOMAIN s |-> f[i]], \A i \in DOMAIN s : f[i] \in Seq(T)
  PROVE  FlattenSeq(f) \in Seq(T)
<1> DEFINE U == Seq(T)
<1>1. \A i \in DOMAIN s : f[i] \in U
  OBVIOUS
<1> HIDE DEF U
<1>2. f \in Seq(U)
  BY <1>1, MapIsSeq
<1> QED  BY <1>2, FlattenedIsSeq DEF U

LEMMA TextLinesAre ==
  ASSUME NEW m \in Frames
  PROVE  TextLines(serializeFrameTextModel(m))
<1> DEFINE line(load) == serializeFrameTextLoad(load, m)
           linesOf(i, directions) == [k \in DOMAIN directions |-> [number |-> nodeNumber(m, i), dof |-> directions[k]]]
           supportLines(i) == IF m.nodes[i].support = "free" THEN <<>>
                              ELSE <<supportLine(m.nodes[i], nodeNumber(m, i))>>
           numbers == [i \in DOMAIN m.nodes |-> nodeNumber(m, i)]
           eachSupport == [i \in DOMAIN m.nodes |-> supportLines(i)]
           eachSpring == [i \in DOMAIN m.nodes |-> linesOf(i, m.nodes[i].springs)]
           eachDisplacement == [i \in DOMAIN m.nodes |-> linesOf(i, m.nodes[i].displacements)]
           ends == [k \in DOMAIN m.members |->
                     [start |-> nodeNumberOf(m, m.members[k].start), end |-> nodeNumberOf(m, m.members[k].end)]]
           lines(loads) == [k \in DOMAIN loads |-> line(loads[k])]
           cases == [k \in DOMAIN m.cases |-> [m.cases[k] EXCEPT !.loads = lines(m.cases[k].loads)]]
<1>1. serializeFrameTextModel(m) =
        [nodes |-> numbers, supports |-> FlattenSeq(eachSupport), springs |-> FlattenSeq(eachSpring),
         displacements |-> FlattenSeq(eachDisplacement), members |-> ends, loads |-> lines(m.loads),
         cases |-> cases, combinations |-> m.combinations]
  BY Zenon DEF serializeFrameTextModel, Each
<1>2. /\ m.nodes \in Seq(FrameNode) /\ m.members \in Seq(Member) /\ m.loads \in Seq(LoadOf(LoadTypes))
      /\ m.cases \in Seq(CaseOf(LoadTypes)) /\ m.combinations \in Seq(Combination)
  BY PlaneFields DEF Frames
<1>3. \A i \in DOMAIN m.nodes : nodeNumber(m, i) \in Int /\ m.nodes[i] \in FrameNode
  BY <1>2, NodeNumberIs
<1>4. numbers \in Seq(Int)
  <2> DEFINE f == numbers
  <2>1. f = [i \in DOMAIN m.nodes |-> f[i]] /\ \A i \in DOMAIN m.nodes : f[i] \in Int
    BY <1>3
  <2> HIDE DEF f
  <2>2. f \in Seq(Int)
    BY <1>2, <2>1, MapIsSeq
  <2> QED  BY <2>2 DEF f
<1>5. FlattenSeq(eachSupport) \in Seq(SupportLine)
  <2> DEFINE f == eachSupport
  <2>1. f = [i \in DOMAIN m.nodes |-> f[i]] /\ \A i \in DOMAIN m.nodes : f[i] = supportLines(i)
    OBVIOUS
  <2>2. ASSUME NEW i \in DOMAIN m.nodes PROVE supportLines(i) \in Seq(SupportLine)
    <3> DEFINE x == supportLine(m.nodes[i], nodeNumber(m, i))
    <3>1. x \in SupportLine
      <4>1. m.nodes[i].support \in {"fixed", "pinned", "roller", "free"} /\ m.nodes[i].angle \in Int
        BY <1>3 DEF FrameNode
      <4>2. nodeNumber(m, i) \in Int
        BY <1>3
      <4>3. (IF m.nodes[i].angle = NoAngle THEN 0 ELSE m.nodes[i].angle) \in Int
        BY <4>1
      <4> QED  BY <4>1, <4>2, <4>3 DEF supportLine, SupportLine
    <3> HIDE DEF x
    <3>2. <<>> \in Seq(SupportLine) /\ <<x>> \in Seq(SupportLine)
      BY <3>1
    <3> QED  BY <3>2 DEF x
  <2> HIDE DEF f, supportLines
  <2>3. FlattenSeq(f) \in Seq(SupportLine)
    <3>1. \A i \in DOMAIN m.nodes : f[i] \in Seq(SupportLine)
      BY <2>1, <2>2
    <3> QED  BY <1>2, <2>1, <3>1, LinesOfNodes
  <2> QED  BY <2>3 DEF f
<1>6. ASSUME NEW i \in DOMAIN m.nodes, NEW D, NEW s \in Seq(D) PROVE linesOf(i, s) \in Seq(LineOf(D))
  <2> DEFINE f == linesOf(i, s)
             n == nodeNumber(m, i)
  <2>1. n \in Int
    BY <1>3
  <2>2. f = [k \in DOMAIN s |-> f[k]] /\ \A k \in DOMAIN s : f[k] = [number |-> n, dof |-> s[k]]
    OBVIOUS
  <2> HIDE DEF f, n
  <2>3. \A k \in DOMAIN s : f[k] \in LineOf(D)
    <3>1. \A k \in DOMAIN s : s[k] \in D
      OBVIOUS
    <3> QED  BY <2>1, <2>2, <3>1 DEF LineOf
  <2>4. f \in Seq(LineOf(D))
    BY <2>2, <2>3, MapIsSeq
  <2> QED  BY <2>4 DEF f
<1>7. \A i \in DOMAIN m.nodes : m.nodes[i].springs \in Seq(SpringDofs) /\ m.nodes[i].displacements \in Seq(DisplacementDofs)
  BY <1>3 DEF FrameNode, SpringDofs, DisplacementDofs
<1>8. FlattenSeq(eachSpring) \in Seq(LineOf(SpringDofs))
  <2> DEFINE f == eachSpring
  <2>1. f = [i \in DOMAIN m.nodes |-> f[i]] /\ \A i \in DOMAIN m.nodes : f[i] = linesOf(i, m.nodes[i].springs)
    OBVIOUS
  <2> HIDE DEF f, linesOf
  <2>2. \A i \in DOMAIN m.nodes : f[i] \in Seq(LineOf(SpringDofs))
    BY <1>6, <1>7, <2>1
  <2>3. FlattenSeq(f) \in Seq(LineOf(SpringDofs))
    BY <1>2, <2>1, <2>2, LinesOfNodes
  <2> QED  BY <2>3 DEF f
<1>9. FlattenSeq(eachDisplacement) \in Seq(LineOf(DisplacementDofs))
  <2> DEFINE f == eachDisplacement
  <2>1. f = [i \in DOMAIN m.nodes |-> f[i]] /\ \A i \in DOMAIN m.nodes : f[i] = linesOf(i, m.nodes[i].displacements)
    OBVIOUS
  <2> HIDE DEF f, linesOf
  <2>2. \A i \in DOMAIN m.nodes : f[i] \in Seq(LineOf(DisplacementDofs))
    BY <1>6, <1>7, <2>1
  <2>3. FlattenSeq(f) \in Seq(LineOf(DisplacementDofs))
    BY <1>2, <2>1, <2>2, LinesOfNodes
  <2> QED  BY <2>3 DEF f
<1>10. ends \in Seq(EndsLine)
  <2> DEFINE f == ends
  <2>1. f = [k \in DOMAIN m.members |-> f[k]]
        /\ \A k \in DOMAIN m.members : f[k] = [start |-> nodeNumberOf(m, m.members[k].start), end |-> nodeNumberOf(m, m.members[k].end)]
    OBVIOUS
  <2> HIDE DEF f
  <2>2. ASSUME NEW k \in DOMAIN m.members PROVE f[k] \in EndsLine
    <3> DEFINE a == nodeNumberOf(m, m.members[k].start)
               b == nodeNumberOf(m, m.members[k].end)
    <3>1. a \in Int /\ b \in Int
      BY NumberOfIs
    <3>2. f[k] = [start |-> a, end |-> b]
      BY <2>1
    <3> HIDE DEF a, b
    <3> QED  BY <3>1, <3>2 DEF EndsLine
  <2>3. f \in Seq(EndsLine)
    BY <1>2, <2>1, <2>2, MapIsSeq
  <2> QED  BY <2>3 DEF f
<1>11. ASSUME NEW s \in Seq(LoadOf(LoadTypes)) PROVE lines(s) \in Seq(LoadLine)
  <2> DEFINE f == lines(s)
  <2>1. f = [k \in DOMAIN s |-> f[k]] /\ \A k \in DOMAIN s : f[k] = serializeFrameTextLoad(s[k], m)
    OBVIOUS
  <2> HIDE DEF f
  <2>2. \A k \in DOMAIN s : f[k] \in LoadLine
    <3>1. \A k \in DOMAIN s : s[k] \in LoadOf(LoadTypes)
      OBVIOUS
    <3> QED  BY <2>1, <3>1, LoadLineIs
  <2>3. f \in Seq(LoadLine)
    BY <2>1, <2>2, MapIsSeq
  <2> QED  BY <2>3 DEF f
<1>12. cases \in Seq(CaseLines)
  <2> DEFINE f == cases
  <2>1. f = [k \in DOMAIN m.cases |-> f[k]] /\ \A k \in DOMAIN m.cases : f[k] = [m.cases[k] EXCEPT !.loads = lines(m.cases[k].loads)]
    OBVIOUS
  <2> HIDE DEF f, lines
  <2>2. ASSUME NEW k \in DOMAIN m.cases PROVE f[k] \in CaseLines
    <3> DEFINE case == m.cases[k]
               new == lines(case.loads)
    <3>1. case \in CaseOf(LoadTypes)
      BY <1>2
    <3>2. case = [id |-> case.id, loads |-> case.loads] /\ case.id \in Identifier /\ case.loads \in Seq(LoadOf(LoadTypes))
      BY <3>1 DEF CaseOf
    <3>3. new \in Seq(LoadLine) /\ f[k] = [case EXCEPT !.loads = new]
      BY <1>11, <2>1, <3>2
    <3> HIDE DEF case, new
    <3>4. f[k] = [id |-> case.id, loads |-> new]
      BY <3>2, <3>3
    <3> QED  BY <3>2, <3>3, <3>4 DEF CaseLines
  <2>3. f \in Seq(CaseLines)
    BY <1>2, <2>1, <2>2, MapIsSeq
  <2> QED  BY <2>3 DEF f
<1>13. lines(m.loads) \in Seq(LoadLine)
  BY <1>2, <1>11
<1> DEFINE a == FlattenSeq(eachSupport)
           b == FlattenSeq(eachSpring)
           c == FlattenSeq(eachDisplacement)
           d == lines(m.loads)
<1>14. a \in Seq(SupportLine) /\ b \in Seq(LineOf(SpringDofs)) /\ c \in Seq(LineOf(DisplacementDofs)) /\ d \in Seq(LoadLine)
  BY <1>5, <1>8, <1>9, <1>13
<1>15. serializeFrameTextModel(m) =
        [nodes |-> numbers, supports |-> a, springs |-> b,
         displacements |-> c, members |-> ends, loads |-> d,
         cases |-> cases, combinations |-> m.combinations]
  BY <1>1
<1> HIDE DEF numbers, ends, cases, a, b, c, d
<1> QED  BY <1>2, <1>4, <1>10, <1>12, <1>14, <1>15 DEF TextLines

LEMMA LiteralsAreText ==
  /\ "N" \in Text /\ "M" \in Text /\ "B" \in Text /\ "C" \in Text /\ "L" \in Text /\ "U" \in Text /\ "V" \in Text
  /\ "D" \in Text /\ "S" \in Text /\ "P" \in Text /\ "(" \in Text /\ "LC" \in Text /\ "COMB" \in Text
BY DEF Text

LEMMA ReadLoadIs ==
  ASSUME NEW line \in LoadLine
  PROVE  parseFrameTextLoad(line) \in LoadOf(LoadTypes)
<1> DEFINE load == line.load
           node == IF load.type = "nodal" THEN Draft("N", line.number) ELSE NoId
           member == IF load.type = "nodal" THEN NoId ELSE Draft("M", line.number)
<1>1. load \in LoadOf(LoadTypes) /\ line.number \in Int
  BY DEF LoadLine
<1>2. node \in Identifier /\ member \in Identifier
  <2>1. Draft("N", line.number) \in Identifier /\ Draft("M", line.number) \in Identifier
    BY <1>1, LiteralsAreText, DraftIsIdentifier
  <2> QED  BY <2>1, NoIdIs
<1>3. parseFrameTextLoad(line) = [load EXCEPT !.node = node, !.member = member, !.role = "variable"]
  BY DEF parseFrameTextLoad
<1> HIDE DEF load, node, member
<1> QED  BY <1>1, <1>2, <1>3 DEF LoadOf

LEMMA LastOfEachIs ==
  ASSUME NEW D, NEW lines \in Seq(LineOf(D))
  PROVE  lastOfEach(lines) \in Seq(D)
<1> DEFINE P == {k \in DOMAIN lines : \A l \in DOMAIN lines : k < l => lines[l].dof # lines[k].dof}
           r == Picked(lines, P)
           f == [k \in DOMAIN r |-> r[k].dof]
<1>1. P \in SUBSET DOMAIN lines
  OBVIOUS
<1>2. lastOfEach(lines) = f
  BY DEF lastOfEach, Each
<1> HIDE DEF P
<1>3. r \in Seq(LineOf(D))
  BY <1>1, PickedIsSeq
<1> HIDE DEF r
<1>4. f = [k \in DOMAIN r |-> f[k]] /\ \A k \in DOMAIN r : f[k] \in D
  <2>1. \A k \in DOMAIN r : r[k] \in LineOf(D)
    BY <1>3
  <2> QED  BY <2>1 DEF LineOf
<1> HIDE DEF f
<1> QED  BY <1>2, <1>3, <1>4, MapIsSeq

----------------------------------------------------------------------------
(* Whatever a line is split into are names. *)
LEMMA WordFromIs ==
  ASSUME NEW id \in Identifier, NEW k \in {0} \cup Breaks(id), k # 0 => id.tail[k].text # CommentMark
  PROVE  wordFrom(id, k) \in Identifier
<1> DEFINE n == Len(id.tail)
           P == [text : Text, n : Int]
           stops == {l \in Breaks(id) : l > k} \cup {n + 1}
           stop == CHOOSE l \in stops : \A j \in stops : l <= j
           a == IF k = 0 THEN id.stem ELSE AfterSeparator[id.tail[k].text]
           b == IF k = 0 THEN id.n ELSE id.tail[k].n
           c == SubSeq(id.tail, k + 1, stop - 1)
<1>1. id.stem \in Text /\ id.n \in Int /\ id.tail \in Seq(P)
  BY DEF Identifier
<1>2. n \in Nat /\ DOMAIN id.tail = 1..n /\ \A l \in 1..n : id.tail[l].text \in Text /\ id.tail[l].n \in Int
  <2> DEFINE tail == id.tail
  <2>1. tail \in Seq(P)
    BY <1>1
  <2> HIDE DEF P, tail
  <2>2. Len(tail) \in Nat /\ DOMAIN tail = 1..Len(tail) /\ \A l \in 1..Len(tail) : tail[l] \in P
    BY <2>1
  <2>3. n \in Nat /\ DOMAIN id.tail = 1..n /\ \A l \in 1..n : id.tail[l] \in P
    BY <2>2 DEF tail
  <2> QED  BY <2>3 DEF P
<1>3. Breaks(id) \subseteq 1..n
  BY <1>2 DEF Breaks
<1>4. k \in 0..n
  BY <1>2, <1>3
<1>5. stop \in k + 1..n + 1
  <2>1. stops \in SUBSET Nat /\ stops # {}
    BY <1>2, <1>3, <1>4
  <2>2. \E l \in stops : \A j \in stops : l <= j
    <3> HIDE DEF stops
    <3> QED  BY <2>1, LeastNumber
  <2>3. stop \in stops
    <3> HIDE DEF stops
    <3> QED  BY <2>2
  <2> HIDE DEF stop
  <2> QED  BY <1>2, <1>3, <1>4, <2>3
<1>6. c \in Seq(P)
  <2> HIDE DEF stop, P
  <2>1. k + 1 \in 1..n + 1 /\ stop - 1 \in 0..n
    BY <1>2, <1>4, <1>5
  <2>2. \A l \in k + 1..stop - 1 : id.tail[l] \in P
    BY <1>1, <1>2, <1>4, <1>5
  <2> QED  BY <1>1, <1>2, <2>1, <2>2
<1>7. a \in Text /\ b \in Int
  <2>1. CASE k = 0
    BY <1>1, <2>1
  <2>2. CASE k # 0
    <3>1. k \in 1..n /\ id.tail[k].text \in DOMAIN AfterSeparator
      BY <1>2, <1>3, <2>2 DEF Breaks
    <3>2. AfterSeparator[id.tail[k].text] \in {"", "N"}
      BY <3>1 DEF AfterSeparator
    <3>3. {"", "N"} \subseteq Text
      BY DEF Text
    <3> QED  BY <1>2, <2>2, <3>1, <3>2, <3>3
  <2> QED  BY <2>1, <2>2
<1>8. wordFrom(id, k) = [stem |-> a, n |-> b, tail |-> c]
  BY DEF wordFrom
<1> HIDE DEF a, b, c
<1> QED  BY <1>6, <1>7, <1>8 DEF Identifier

LEMMA WordsAre ==
  ASSUME NEW id \in Identifier
  PROVE  words(id) \in Seq(Identifier)
<1> DEFINE uncut == {k \in {0} \cup Breaks(id) : \A l \in 1..k : id.tail[l].text # CommentMark}
           starts == {k \in uncut : wordFrom(id, k) # NoId}
           places == [k \in 1..Len(id.tail) + 1 |-> k - 1]
           r == Where(places, starts)
           f == [i \in DOMAIN r |-> wordFrom(id, r[i])]
<1>1. words(id) = IF IsWord(id) THEN <<id>> ELSE f
  BY Zenon DEF words, Each
<1>2. Len(id.tail) \in Nat /\ DOMAIN id.tail = 1..Len(id.tail)
  BY DEF Identifier
<1>3. places \in Seq(Int)
  BY <1>2
<1> HIDE DEF places
<1>4. \A k \in starts : wordFrom(id, k) \in Identifier
  <2>1. \A k \in starts : k \in {0} \cup Breaks(id) /\ (k # 0 => id.tail[k].text # CommentMark)
    BY <1>2 DEF Breaks
  <2> HIDE DEF starts
  <2> QED  BY <2>1, WordFromIs
<1> HIDE DEF starts
<1>5. r \in Seq(Int) /\ Elements(r) \subseteq starts
  BY <1>3, WhereIsSeq
<1> HIDE DEF r
<1>6. f = [i \in DOMAIN r |-> f[i]] /\ \A i \in DOMAIN r : f[i] \in Identifier
  BY <1>4, <1>5 DEF Elements
<1> HIDE DEF f
<1>7. f \in Seq(Identifier)
  BY <1>5, <1>6, MapIsSeq
<1>8. <<id>> \in Seq(Identifier)
  OBVIOUS
<1> QED  BY <1>1, <1>7, <1>8

LEMMA SplitIs ==
  ASSUME NEW names \in Seq(Identifier)
  PROVE  splitTextModelTokens(names) \in Seq(Identifier)
<1> DEFINE uncut == {k \in DOMAIN names : \A l \in 1..k - 1 : ~Marked(names[l])}
           r == Picked(names, uncut)
           f == [k \in DOMAIN r |-> words(r[k])]
<1>1. splitTextModelTokens(names) = FlattenSeq(f)
  BY DEF splitTextModelTokens, Each
<1>2. uncut \in SUBSET DOMAIN names
  OBVIOUS
<1> HIDE DEF uncut
<1>3. r \in Seq(Identifier)
  BY <1>2, PickedIsSeq
<1> HIDE DEF r
<1>4. f = [k \in DOMAIN r |-> f[k]] /\ \A k \in DOMAIN r : f[k] \in Seq(Identifier)
  BY <1>3, WordsAre
<1> HIDE DEF f
<1>5. f \in Seq(Seq(Identifier))
  BY <1>3, <1>4, MapIsSeq
<1> QED  BY <1>1, <1>5, FlattenedIsSeq

LEMMA TokenIs ==
  ASSUME NEW tokens \in Seq(Identifier), NEW k, NEW fallback \in Identifier
  PROVE  token(tokens, k, fallback) \in Identifier
BY DEF token

LEMMA FirstWordIs ==
  ASSUME NEW id \in Identifier, NEW k, NEW fallback \in Identifier
  PROVE  token(words(id), k, fallback) \in Identifier
BY WordsAre, TokenIs

LEMMA ReadNamesAre ==
  ASSUME NEW T, Named(T), NEW s \in Seq(T), NEW stem \in Text
  PROVE  readNames(s, stem) \in Seq(T)
<1> DEFINE f == [k \in DOMAIN s |-> [s[k] EXCEPT !.id = token(words(s[k].id), 1, Draft(stem, k))]]
<1>1. readNames(s, stem) = DistinctNames(f)
  BY DEF readNames
<1>2. f = [k \in DOMAIN s |-> f[k]]
      /\ \A k \in DOMAIN s : f[k] = [s[k] EXCEPT !.id = token(words(s[k].id), 1, Draft(stem, k))]
  OBVIOUS
<1> HIDE DEF f
<1>3. ASSUME NEW k \in DOMAIN s PROVE f[k] \in T
  <2> DEFINE x == s[k]
             new == token(words(x.id), 1, Draft(stem, k))
  <2>1. x \in T /\ k \in Int
    OBVIOUS
  <2>2. f[k] = [x EXCEPT !.id = new]
    BY <1>2
  <2> HIDE DEF x
  <2>3. x.id \in Identifier
    BY <2>1 DEF Named
  <2>4. new \in Identifier
    BY <2>1, <2>3, DraftIsIdentifier, FirstWordIs
  <2>5. \A y \in T : \A id \in Identifier : [y EXCEPT !.id = id] \in T
    BY Zenon DEF Named
  <2> HIDE DEF new
  <2> QED  BY <2>1, <2>2, <2>4, <2>5
<1>4. f \in Seq(T)
  BY <1>2, <1>3, MapIsSeq
<1> QED  BY <1>1, <1>4, DistinctNamesAre

LEMMA CaseLinesAreNamed == Named(CaseLines)
BY DEF Named, CaseLines

LEMMA ReadLoadsAre ==
  ASSUME NEW s \in Seq(LoadLine)
  PROVE  [k \in DOMAIN s |-> parseFrameTextLoad(s[k])] \in Seq(LoadOf(LoadTypes))
<1> DEFINE f == [k \in DOMAIN s |-> parseFrameTextLoad(s[k])]
<1>1. f = [k \in DOMAIN s |-> f[k]] /\ \A k \in DOMAIN s : f[k] = parseFrameTextLoad(s[k])
  OBVIOUS
<1> HIDE DEF f
<1>2. \A k \in DOMAIN s : s[k] \in LoadLine
  OBVIOUS
<1>3. \A k \in DOMAIN s : f[k] \in LoadOf(LoadTypes)
  BY <1>1, <1>2, ReadLoadIs
<1>4. f \in Seq(LoadOf(LoadTypes))
  BY <1>1, <1>3, MapIsSeq
<1> QED  BY <1>4 DEF f

LEMMA ReadCasesAre ==
  ASSUME NEW text, TextLines(text)
  PROVE  readCases(text) \in Seq(CaseOf(LoadTypes))
<1> DEFINE read == readNames(text.cases, "LC")
           loads(case) == [k \in DOMAIN case.loads |-> parseFrameTextLoad(case.loads[k])]
           said(case, id) == IF token(words(case.id), 1, NoId) = id THEN loads(case) ELSE <<>>
           added(id) == [i \in DOMAIN text.cases |-> said(text.cases[i], id)]
           f == [k \in DOMAIN read |-> [read[k] EXCEPT !.loads = FlattenSeq(added(read[k].id))]]
           L == LoadOf(LoadTypes)
<1>1. readCases(text) = f
  BY Zenon DEF readCases, Each
<1>2. text.cases \in Seq(CaseLines)
  BY DEF TextLines
<1>3. read \in Seq(CaseLines)
  BY <1>2, CaseLinesAreNamed, LiteralsAreText, ReadNamesAre
<1> HIDE DEF read
<1>4. ASSUME NEW id PROVE FlattenSeq(added(id)) \in Seq(L)
  <2> DEFINE g == added(id)
  <2>1. g = [i \in DOMAIN text.cases |-> g[i]] /\ \A i \in DOMAIN text.cases : g[i] = said(text.cases[i], id)
    OBVIOUS
  <2> HIDE DEF g
  <2>2. ASSUME NEW i \in DOMAIN text.cases PROVE g[i] \in Seq(L)
    <3> DEFINE case == text.cases[i]
    <3>1. case \in CaseLines
      BY <1>2
    <3> HIDE DEF case
    <3>2. case.loads \in Seq(LoadLine)
      BY <3>1 DEF CaseLines
    <3>3. loads(case) \in Seq(L) /\ <<>> \in Seq(L)
      BY <3>2, ReadLoadsAre
    <3>4. g[i] = said(case, id)
      BY <2>1 DEF case
    <3> HIDE DEF loads
    <3> QED  BY <3>3, <3>4
  <2>3. g \in Seq(Seq(L))
    BY <1>2, <2>1, <2>2, MapIsSeq
  <2>4. FlattenSeq(g) \in Seq(L)
    BY <2>3, FlattenedIsSeq
  <2> QED  BY <2>4 DEF g
<1>5. f = [k \in DOMAIN read |-> f[k]] /\ \A k \in DOMAIN read : f[k] = [read[k] EXCEPT !.loads = FlattenSeq(added(read[k].id))]
  OBVIOUS
<1> HIDE DEF f, added
<1>6. ASSUME NEW k \in DOMAIN read PROVE f[k] \in CaseOf(LoadTypes)
  <2> DEFINE case == read[k]
             new == FlattenSeq(added(case.id))
  <2>1. case \in CaseLines /\ new \in Seq(L) /\ f[k] = [case EXCEPT !.loads = new]
    BY <1>3, <1>4, <1>5
  <2> HIDE DEF case, new
  <2> QED  BY <2>1 DEF CaseLines, CaseOf
<1>7. f \in Seq(CaseOf(LoadTypes))
  BY <1>3, <1>5, <1>6, MapIsSeq
<1> QED  BY <1>1, <1>7

FactorLine == [combination : Identifier, case : Identifier, factor : Int]

LEMMA FactorLineIs ==
  ASSUME NEW c \in Combination, NEW id \in DOMAIN c.factors
  PROVE  factorLine(c, id) \in FactorLine
<1> DEFINE said == splitTextModelTokens(<<c.id, id>>)
           a == token(said, 1, NoId)
           b == token(said, 2, NoId)
           n == CASE Len(said) > 2 -> IF IsNumber(said[3]) THEN said[3].n ELSE 0
                  [] Len(said) <= 2 /\ (Marked(c.id) \/ Marked(id)) -> 0
                  [] OTHER -> c.factors[id]
<1>1. c.id \in Identifier /\ id \in Identifier /\ c.factors[id] \in Int
  BY CombinationIs
<1>2. factorLine(c, id) = [combination |-> a, case |-> b, factor |-> n]
  BY DEF factorLine
<1>3. said \in Seq(Identifier)
  <2>1. <<c.id, id>> \in Seq(Identifier)
    BY <1>1
  <2> QED  BY <2>1, SplitIs
<1> HIDE DEF said
<1>4. a \in Identifier /\ b \in Identifier
  BY <1>3, NoIdIs, TokenIs
<1>5. n \in Int
  <2>1. Len(said) \in Nat /\ (Len(said) > 2 => said[3] \in Identifier)
    BY <1>3
  <2>2. Len(said) > 2 => said[3].n \in Int
    BY <2>1 DEF Identifier
  <2>3. CASE Len(said) > 2
    BY <2>2, <2>3
  <2>4. CASE ~(Len(said) > 2) /\ Len(said) <= 2
    BY <1>1, <2>4
  <2> QED  BY <2>1, <2>3, <2>4
<1> HIDE DEF a, b, n
<1> QED  BY <1>2, <1>4, <1>5 DEF FactorLine

LEMMA FactorLinesAre ==
  ASSUME NEW text, TextLines(text)
  PROVE  factorLines(text) \in Seq(FactorLine)
<1> DEFINE ids == [k \in DOMAIN text.cases |-> text.cases[k].id]
           own(c) == Where(ids, DOMAIN c.factors)
           linesOf(c) == [k \in DOMAIN own(c) |-> factorLine(c, own(c)[k])]
           f == [i \in DOMAIN text.combinations |-> linesOf(text.combinations[i])]
<1>1. factorLines(text) = FlattenSeq(f)
  BY DEF factorLines, Each
<1>2. text.cases \in Seq(CaseLines) /\ text.combinations \in Seq(Combination)
  BY DEF TextLines
<1>3. ids \in Seq(Identifier)
  <2> DEFINE g == ids
  <2>1. g = [k \in DOMAIN text.cases |-> g[k]] /\ \A k \in DOMAIN text.cases : g[k] = text.cases[k].id
    OBVIOUS
  <2> HIDE DEF g
  <2>2. \A k \in DOMAIN text.cases : g[k] \in Identifier
    <3>1. \A case \in CaseLines : case.id \in Identifier
      BY DEF CaseLines
    <3>2. \A k \in DOMAIN text.cases : text.cases[k] \in CaseLines
      BY <1>2
    <3> QED  BY <2>1, <3>1, <3>2
  <2>3. g \in Seq(Identifier)
    BY <1>2, <2>1, <2>2, MapIsSeq
  <2> QED  BY <2>3 DEF g
<1> HIDE DEF ids
<1>4. ASSUME NEW c \in Combination PROVE linesOf(c) \in Seq(FactorLine)
  <2> DEFINE r == own(c)
             g == [k \in DOMAIN r |-> factorLine(c, r[k])]
  <2>1. r \in Seq(Identifier) /\ Elements(r) \subseteq DOMAIN c.factors
    BY <1>3, WhereIsSeq
  <2> HIDE DEF r
  <2>2. g = [k \in DOMAIN r |-> g[k]] /\ \A k \in DOMAIN r : g[k] \in FactorLine
    BY <2>1, FactorLineIs DEF Elements
  <2> HIDE DEF g
  <2>3. g \in Seq(FactorLine)
    BY <2>1, <2>2, MapIsSeq
  <2> QED  BY <2>3 DEF g, r
<1>5. f = [i \in DOMAIN text.combinations |-> f[i]]
      /\ \A i \in DOMAIN text.combinations : f[i] = linesOf(text.combinations[i])
  OBVIOUS
<1> HIDE DEF f, linesOf
<1>6. \A i \in DOMAIN text.combinations : f[i] \in Seq(FactorLine)
  <2>1. \A i \in DOMAIN text.combinations : text.combinations[i] \in Combination
    BY <1>2
  <2> QED  BY <1>4, <1>5, <2>1
<1>7. f \in Seq(Seq(FactorLine))
  BY <1>2, <1>5, <1>6, MapIsSeq
<1> QED  BY <1>1, <1>7, FlattenedIsSeq

LEMMA ReadFactorsAre ==
  ASSUME NEW id, NEW lines \in Seq(FactorLine)
  PROVE  factorsAsRead(id, lines) \in UNION {[S -> Int] : S \in SUBSET Identifier}
<1> DEFINE own(case) == {k \in DOMAIN lines : lines[k].combination = id /\ lines[k].case = case}
           cases == {line.case : line \in {l \in Elements(lines) : l.combination = id}}
           f == [case \in cases |-> lines[Highest(own(case))].factor]
<1>1. factorsAsRead(id, lines) = f
  BY DEF factorsAsRead
<1>2. \A k \in DOMAIN lines : lines[k] \in FactorLine
  OBVIOUS
<1>3. \A k \in DOMAIN lines : lines[k].case \in Identifier /\ lines[k].factor \in Int
  <2>1. \A line \in FactorLine : line.case \in Identifier /\ line.factor \in Int
    BY DEF FactorLine
  <2> QED  BY <1>2, <2>1
<1>4. cases \subseteq Identifier
  BY <1>3 DEF Elements
<1>5. ASSUME NEW case \in cases PROVE lines[Highest(own(case))].factor \in Int
  <2> DEFINE S == own(case)
  <2>1. S \in SUBSET DOMAIN lines /\ S # {}
    BY DEF Elements
  <2> HIDE DEF S
  <2>2. S \in SUBSET Int /\ IsFiniteSet(S)
    BY <2>1, DomainFinite
  <2>3. Highest(S) \in DOMAIN lines
    BY <2>1, <2>2, HighestIsOne
  <2>4. lines[Highest(S)].factor \in Int
    BY <1>3, <2>3
  <2> QED  BY <2>4 DEF S
<1> HIDE DEF own, cases
<1>6. f \in [cases -> Int]
  BY <1>5
<1> QED  BY <1>1, <1>4, <1>6

LEMMA ReadCombinationsAre ==
  ASSUME NEW text, TextLines(text)
  PROVE  readCombinations(text) \in Seq(Combination)
<1> DEFINE lines == factorLines(text)
           read == readNames(text.combinations, "COMB")
           f == [k \in DOMAIN read |-> [read[k] EXCEPT !.factors = factorsAsRead(read[k].id, lines)]]
<1>1. readCombinations(text) = f
  BY DEF readCombinations, Each
<1>2. lines \in Seq(FactorLine)
  BY FactorLinesAre
<1>3. read \in Seq(Combination)
  <2>1. text.combinations \in Seq(Combination)
    BY DEF TextLines
  <2> QED  BY <2>1, CombinationsAreNamed, LiteralsAreText, ReadNamesAre
<1> HIDE DEF lines, read
<1>4. f = [k \in DOMAIN read |-> f[k]]
      /\ \A k \in DOMAIN read : f[k] = [read[k] EXCEPT !.factors = factorsAsRead(read[k].id, lines)]
  OBVIOUS
<1> HIDE DEF f
<1>5. ASSUME NEW k \in DOMAIN read PROVE f[k] \in Combination
  <2> DEFINE c == read[k]
             new == factorsAsRead(c.id, lines)
  <2>1. c \in Combination /\ f[k] = [c EXCEPT !.factors = new]
    BY <1>3, <1>4
  <2>2. new \in UNION {[S -> Int] : S \in SUBSET Identifier}
    BY <1>2, ReadFactorsAre
  <2> HIDE DEF c, new
  <2> QED  BY <2>1, <2>2 DEF Combination
<1>6. f \in Seq(Combination)
  BY <1>3, <1>4, <1>5, MapIsSeq
<1> QED  BY <1>1, <1>6

LEMMA LinesForAre ==
  ASSUME NEW T, NEW node, NEW lines \in Seq(T)
  PROVE  linesFor(node, lines) \in Seq(T)
BY WhereIsSeq DEF linesFor

LEMMA HeldAsReadIs ==
  ASSUME NEW node \in FrameNode, NEW text, TextLines(text)
  PROVE  heldAsRead(node, text) \in FrameNode
<1> DEFINE supports == linesFor(node, text.supports)
           springs == lastOfEach(linesFor(node, text.springs))
           displacements == lastOfEach(linesFor(node, text.displacements))
           held == [node EXCEPT !.springs = springs, !.displacements = displacements]
<1>1. supports \in Seq(SupportLine)
  BY LinesForAre DEF TextLines
<1>2. springs \in Seq(SpringDofs)
  <2>1. linesFor(node, text.springs) \in Seq(LineOf(SpringDofs))
    BY LinesForAre DEF TextLines
  <2> QED  BY <2>1, LastOfEachIs
<1>3. displacements \in Seq(DisplacementDofs)
  <2>1. linesFor(node, text.displacements) \in Seq(LineOf(DisplacementDofs))
    BY LinesForAre DEF TextLines
  <2> QED  BY <2>1, LastOfEachIs
<1>4. heldAsRead(node, text) = IF supports = <<>> THEN held
                               ELSE [held EXCEPT !.support = supports[Len(supports)].support,
                                                 !.angle = supports[Len(supports)].angle]
  BY DEF heldAsRead, Last
<1> HIDE DEF supports, springs, displacements
<1>5. held \in FrameNode
  BY <1>2, <1>3 DEF FrameNode, SpringDofs, DisplacementDofs
<1> HIDE DEF held
<1>6. CASE supports = <<>>
  BY <1>4, <1>5, <1>6
<1>7. CASE supports # <<>>
  <2> DEFINE line == supports[Len(supports)]
             a == line.support
             b == line.angle
  <2>1. line \in SupportLine
    BY <1>1, <1>7
  <2>2. a \in {"fixed", "pinned", "roller", "free"} /\ b \in Int
    <3> HIDE DEF line
    <3> QED  BY <2>1 DEF SupportLine
  <2>3. heldAsRead(node, text) = [held EXCEPT !.support = a, !.angle = b]
    BY <1>4, <1>7
  <2> HIDE DEF a, b
  <2> QED  BY <1>5, <2>2, <2>3 DEF FrameNode
<1> QED  BY <1>6, <1>7

LEMMA FreeNodeIs ==
  ASSUME NEW id \in Identifier
  PROVE  FreeNode(id) \in FrameNode /\ FreeNode(id).id = id
BY DEF FreeNode, FrameNode, NoAngle

LEMMA ReadFrameIs ==
  ASSUME NEW text, TextLines(text)
  PROVE  parseFrameTextModel(text) \in Frames
<1> DEFINE free == [i \in DOMAIN text.nodes |-> FreeNode(Draft("N", text.nodes[i]))]
           named == DistinctNames(free)
           nodes == [i \in DOMAIN named |-> heldAsRead(named[i], text)]
           members == [i \in DOMAIN text.members |->
                        [id |-> Draft("M", i), start |-> Draft("N", text.members[i].start),
                         end |-> Draft("N", text.members[i].end), hinges |-> <<>>]]
           loads == [k \in DOMAIN text.loads |-> parseFrameTextLoad(text.loads[k])]
           cases == readCases(text)
           combinations == readCombinations(text)
<1>1. parseFrameTextModel(text) = [nodes |-> nodes, members |-> members, loads |-> loads,
                                   cases |-> cases, combinations |-> combinations]
  BY Zenon DEF parseFrameTextModel, Each
<1>2. text.nodes \in Seq(Int) /\ text.members \in Seq(EndsLine) /\ text.loads \in Seq(LoadLine)
  BY DEF TextLines
<1>3. \A n \in Int : Draft("N", n) \in Identifier /\ Draft("M", n) \in Identifier
  BY LiteralsAreText, DraftIsIdentifier
<1>4. free \in Seq(FrameNode)
  <2> DEFINE f == free
  <2>1. f = [i \in DOMAIN text.nodes |-> f[i]] /\ \A i \in DOMAIN text.nodes : f[i] = FreeNode(Draft("N", text.nodes[i]))
    OBVIOUS
  <2> HIDE DEF f
  <2>2. \A i \in DOMAIN text.nodes : text.nodes[i] \in Int
    BY <1>2
  <2>3. \A i \in DOMAIN text.nodes : f[i] \in FrameNode
    BY <1>3, <2>1, <2>2, FreeNodeIs
  <2>4. f \in Seq(FrameNode)
    BY <1>2, <2>1, <2>3, MapIsSeq
  <2> QED  BY <2>4 DEF f
<1> HIDE DEF free
<1>5. named \in Seq(FrameNode)
  BY <1>4, DistinctNamesAre, FrameNodesAreNamed
<1> HIDE DEF named
<1>6. nodes \in Seq(FrameNode)
  <2> DEFINE f == nodes
  <2>1. f = [i \in DOMAIN named |-> f[i]] /\ \A i \in DOMAIN named : f[i] = heldAsRead(named[i], text)
    OBVIOUS
  <2> HIDE DEF f
  <2>2. \A i \in DOMAIN named : named[i] \in FrameNode
    BY <1>5
  <2>3. \A i \in DOMAIN named : f[i] \in FrameNode
    BY <2>1, <2>2, HeldAsReadIs
  <2>4. f \in Seq(FrameNode)
    BY <1>5, <2>1, <2>3, MapIsSeq
  <2> QED  BY <2>4 DEF f
<1> HIDE DEF nodes
<1>7. members \in Seq(Member)
  <2> DEFINE f == members
  <2>1. f = [i \in DOMAIN text.members |-> f[i]]
        /\ \A i \in DOMAIN text.members : f[i] = [id |-> Draft("M", i), start |-> Draft("N", text.members[i].start),
                         end |-> Draft("N", text.members[i].end), hinges |-> <<>>]
    OBVIOUS
  <2> HIDE DEF f
  <2>2. ASSUME NEW i \in DOMAIN text.members PROVE f[i] \in Member
    <3> DEFINE line == text.members[i]
               a == Draft("M", i)
               b == Draft("N", line.start)
               c == Draft("N", line.end)
    <3>1. i \in Int /\ line \in EndsLine
      BY <1>2
    <3>2. line.start \in Int /\ line.end \in Int
      <4> HIDE DEF line
      <4> QED  BY <3>1 DEF EndsLine
    <3>3. a \in Identifier /\ b \in Identifier /\ c \in Identifier
      BY <1>3, <3>1, <3>2
    <3>4. f[i] = [id |-> a, start |-> b, end |-> c, hinges |-> <<>>]
      BY <2>1
    <3>5. <<>> \in Seq(Int)
      OBVIOUS
    <3> HIDE DEF a, b, c
    <3> QED  BY <3>3, <3>4, <3>5 DEF Member
  <2>4. f \in Seq(Member)
    BY <1>2, <2>1, <2>2, MapIsSeq
  <2> QED  BY <2>4 DEF f
<1> HIDE DEF members
<1>8. loads \in Seq(LoadOf(LoadTypes))
  BY <1>2, ReadLoadsAre
<1>9. cases \in Seq(CaseOf(LoadTypes)) /\ combinations \in Seq(Combination)
  BY ReadCasesAre, ReadCombinationsAre
<1> HIDE DEF loads, cases, combinations
<1> QED  BY <1>1, <1>6, <1>7, <1>8, <1>9, PlaneOf DEF Frames

(* A text without members gets a chain of them. *)
LEMMA CompletedIs ==
  ASSUME NEW m \in Frames, m.nodes # <<>>, NEW stems \in [1..Len(m.nodes) - 1 -> MemberStems]
  PROVE  completeFrameTextCollections(m, stems) \in Frames
<1> DEFINE members == [k \in DOMAIN stems |->
          [id |-> Draft(stems[k], Cardinality({l \in 1..k : stems[l] = stems[k]})),
           start |-> m.nodes[k].id, end |-> m.nodes[k + 1].id, hinges |-> <<>>]]
           n == Len(m.nodes)
<1>1. completeFrameTextCollections(m, stems) = IF m.members # <<>> THEN m ELSE [m EXCEPT !.members = members]
  BY DEF completeFrameTextCollections
<1>2. m.nodes \in Seq(FrameNode) /\ n \in Nat \ {0} /\ DOMAIN m.nodes = 1..n
  BY PlaneFields DEF Frames
<1>3. DOMAIN stems = 1..n - 1 /\ \A k \in 1..n - 1 : stems[k] \in Text
  BY InputsAssumption
<1>4. members \in Seq(Member)
  <2> DEFINE f == members
  <2>1. f = [k \in 1..n - 1 |-> f[k]]
        /\ \A k \in 1..n - 1 : f[k] = [id |-> Draft(stems[k], Cardinality({l \in 1..k : stems[l] = stems[k]})),
           start |-> m.nodes[k].id, end |-> m.nodes[k + 1].id, hinges |-> <<>>]
    BY <1>3
  <2> HIDE DEF f, n
  <2>2. ASSUME NEW k \in 1..n - 1 PROVE f[k] \in Member
    <3> DEFINE S == {l \in 1..k : stems[l] = stems[k]}
               a == Draft(stems[k], Cardinality(S))
               b == m.nodes[k].id
               c == m.nodes[k + 1].id
    <3>1. Cardinality(S) \in Int
      <4>1. S \subseteq 1..k /\ k \in Int /\ 1 \in Int
        BY <1>2
      <4> HIDE DEF S
      <4>2. IsFiniteSet(1..k)
        BY <4>1, FS_Interval
      <4>3. IsFiniteSet(S)
        BY <4>1, <4>2, FS_Subset
      <4>4. Cardinality(S) \in Nat
        BY <4>3, FS_CardinalityType
      <4> QED  BY <4>4
    <3> HIDE DEF S
    <3>2. k \in DOMAIN m.nodes /\ k + 1 \in DOMAIN m.nodes
      BY <1>2
    <3>3. a \in Identifier /\ b \in Identifier /\ c \in Identifier
      BY <1>2, <1>3, <3>1, <3>2, DraftIsIdentifier, IdsThere, FrameNodesAreNamed
    <3>4. f[k] = [id |-> a, start |-> b, end |-> c, hinges |-> <<>>]
      BY <2>1 DEF S
    <3>5. <<>> \in Seq(Int)
      OBVIOUS
    <3> HIDE DEF a, b, c
    <3> QED  BY <3>3, <3>4, <3>5 DEF Member
  <2>3. n - 1 \in Nat
    BY <1>2
  <2>4. f \in Seq(Member)
    BY <2>1, <2>2, <2>3
  <2> QED  BY <2>4 DEF f
<1> HIDE DEF members
<1>5. [m EXCEPT !.members = members] \in Frames
  BY <1>4, PlaneWith DEF Frames
<1> QED  BY <1>1, <1>5

----------------------------------------------------------------------------
(* One thing of a model is changed. *)

LEMMA NodePlaced ==
  ASSUME NEW Node, NEW types, NEW m \in Plane(Node, types), NEW i \in DOMAIN m.nodes, NEW x \in Node
  PROVE  [m EXCEPT !.nodes[i] = x] \in Plane(Node, types)
<1> DEFINE s == [m.nodes EXCEPT ![i] = x]
<1>1. s \in Seq(Node)
  BY PlaneFields, UpdateIsSeq
<1>2. [m EXCEPT !.nodes[i] = x] = [m EXCEPT !.nodes = s]
  BY DEF Plane
<1> HIDE DEF s
<1> QED  BY <1>1, <1>2, PlaneWith

LEMMA MemberPlaced ==
  ASSUME NEW Node, NEW types, NEW m \in Plane(Node, types), NEW i \in DOMAIN m.members, NEW x \in Member
  PROVE  [m EXCEPT !.members[i] = x] \in Plane(Node, types)
<1> DEFINE s == [m.members EXCEPT ![i] = x]
<1>1. s \in Seq(Member)
  BY PlaneFields, UpdateIsSeq
<1>2. [m EXCEPT !.members[i] = x] = [m EXCEPT !.members = s]
  BY DEF Plane
<1> HIDE DEF s
<1> QED  BY <1>1, <1>2, PlaneWith

(* Its ends or its hinges. *)
LEMMA MemberWith ==
  ASSUME NEW Node, NEW types, NEW m \in Plane(Node, types), NEW i \in DOMAIN m.members, NEW id \in Identifier,
         NEW hinges \in Seq(Int)
  PROVE  /\ [m EXCEPT !.members[i].start = id] \in Plane(Node, types)
         /\ [m EXCEPT !.members[i].end = id] \in Plane(Node, types)
         /\ [m EXCEPT !.members[i].hinges = hinges] \in Plane(Node, types)
<1> DEFINE a == [m.members[i] EXCEPT !.start = id]
           b == [m.members[i] EXCEPT !.end = id]
           c == [m.members[i] EXCEPT !.hinges = hinges]
<1>1. m.members \in Seq(Member)
  BY PlaneFields
<1>2. m.members[i] \in Member
  BY <1>1
<1>3. a \in Member /\ b \in Member /\ c \in Member
  BY <1>2 DEF Member
<1>4. /\ [m EXCEPT !.members[i].start = id] = [m EXCEPT !.members[i] = a]
      /\ [m EXCEPT !.members[i].end = id] = [m EXCEPT !.members[i] = b]
      /\ [m EXCEPT !.members[i].hinges = hinges] = [m EXCEPT !.members[i] = c]
  OBVIOUS
<1> HIDE DEF a, b, c
<1>5. /\ [m EXCEPT !.members[i] = a] \in Plane(Node, types)
      /\ [m EXCEPT !.members[i] = b] \in Plane(Node, types)
      /\ [m EXCEPT !.members[i] = c] \in Plane(Node, types)
  BY <1>3, MemberPlaced
<1> QED  BY <1>4, <1>5

LEMMA LoadPlaced ==
  ASSUME NEW Node, NEW types, NEW m \in Plane(Node, types), NEW i \in DOMAIN m.loads, NEW x \in LoadOf(types)
  PROVE  [m EXCEPT !.loads[i] = x] \in Plane(Node, types)
<1> DEFINE s == [m.loads EXCEPT ![i] = x]
           L == LoadOf(types)
<1>1. s \in Seq(LoadOf(types))
  <2>1. m.loads \in Seq(L) /\ x \in L
    BY PlaneFields
  <2> HIDE DEF L
  <2>2. s \in Seq(L)
    BY <2>1, UpdateIsSeq
  <2> QED  BY <2>2 DEF L
<1>2. [m EXCEPT !.loads[i] = x] = [m EXCEPT !.loads = s]
  BY DEF Plane
<1> HIDE DEF s
<1> QED  BY <1>1, <1>2, PlaneWith

LEMMA LoadAdded ==
  ASSUME NEW Node, NEW types, NEW m \in Plane(Node, types), NEW x \in LoadOf(types)
  PROVE  [m EXCEPT !.loads = Append(m.loads, x)] \in Plane(Node, types)
<1> DEFINE s == Append(m.loads, x)
<1>1. m.loads \in Seq(LoadOf(types))
  BY PlaneFields
<1>2. s \in Seq(LoadOf(types))
  BY <1>1, AppendIsSeq
<1> HIDE DEF s
<1>3. [m EXCEPT !.loads = s] \in Plane(Node, types)
  BY <1>2, PlaneWith
<1> QED  BY <1>3 DEF s

LEMMA LoadRemoved ==
  ASSUME NEW Node, NEW types, NEW m \in Plane(Node, types), NEW i \in DOMAIN m.loads
  PROVE  [m EXCEPT !.loads = RemoveAt(m.loads, i)] \in Plane(Node, types)
<1> DEFINE s == RemoveAt(m.loads, i)
<1>1. m.loads \in Seq(LoadOf(types))
  BY PlaneFields
<1>2. s \in Seq(LoadOf(types))
  BY <1>1, RemoveAtIsSeq
<1> HIDE DEF s
<1>3. [m EXCEPT !.loads = s] \in Plane(Node, types)
  BY <1>2, PlaneWith
<1> QED  BY <1>3 DEF s

LEMMA CaseAdded ==
  ASSUME NEW Node, NEW types, NEW m \in Plane(Node, types), NEW x \in CaseOf(types)
  PROVE  [m EXCEPT !.cases = Append(m.cases, x)] \in Plane(Node, types)
<1> DEFINE s == Append(m.cases, x)
<1>1. m.cases \in Seq(CaseOf(types))
  BY PlaneFields
<1>2. s \in Seq(CaseOf(types))
  BY <1>1, AppendIsSeq
<1> HIDE DEF s
<1>3. [m EXCEPT !.cases = s] \in Plane(Node, types)
  BY <1>2, PlaneWith
<1> QED  BY <1>3 DEF s

(* A load case that begins with one load. *)
LEMMA CaseDrafted ==
  ASSUME NEW Node, NEW types, NEW m \in Plane(Node, types), NEW x \in LoadOf(types)
  PROVE  [id |-> nextFrameDraftId("LC", Ids(m.cases)), loads |-> <<x>>] \in CaseOf(types)
<1> DEFINE id == nextFrameDraftId("LC", Ids(m.cases))
<1>1. m.cases \in Seq(CaseOf(types))
  BY PlaneFields
<1>2. IsFiniteSet(Ids(m.cases)) /\ Ids(m.cases) \in SUBSET Identifier
  BY <1>1, IdsAreFinite, IdsAreIdentifiers, CasesAreNamed
<1>3. id \in Identifier
  BY <1>2, LiteralsAreText, NextDraftIsFree
<1>4. <<x>> \in Seq(LoadOf(types))
  OBVIOUS
<1> HIDE DEF id
<1>5. [id |-> id, loads |-> <<x>>] \in CaseOf(types)
  BY <1>3, <1>4 DEF CaseOf
<1> QED  BY <1>5 DEF id

LEMMA CaseWith ==
  ASSUME NEW Node, NEW types, NEW m \in Plane(Node, types), NEW i \in DOMAIN m.cases, NEW s \in Seq(LoadOf(types))
  PROVE  [m EXCEPT !.cases[i].loads = s] \in Plane(Node, types)
<1> DEFINE case == [m.cases[i] EXCEPT !.loads = s]
           cases == [m.cases EXCEPT ![i] = case]
<1>1. m.cases \in Seq(CaseOf(types)) /\ m.cases[i] \in CaseOf(types)
  BY PlaneFields, CaseLoadsAre
<1>2. case \in CaseOf(types)
  BY <1>1 DEF CaseOf
<1>3. [m EXCEPT !.cases[i].loads = s] = [m EXCEPT !.cases = cases]
  BY DEF Plane
<1> HIDE DEF case
<1>4. cases \in Seq(CaseOf(types))
  BY <1>1, <1>2, UpdateIsSeq
<1> HIDE DEF cases
<1> QED  BY <1>3, <1>4, PlaneWith

(* One load of a load case. *)
LEMMA CaseLoadsEdited ==
  ASSUME NEW Node, NEW types, NEW m \in Plane(Node, types), NEW i \in DOMAIN m.cases, NEW x \in LoadOf(types)
  PROVE  /\ [m EXCEPT !.cases[i].loads = Append(m.cases[i].loads, x)] \in Plane(Node, types)
         /\ \A k \in DOMAIN m.cases[i].loads : [m EXCEPT !.cases[i].loads[k] = x] \in Plane(Node, types)
<1> DEFINE L == LoadOf(types)
           s == Append(m.cases[i].loads, x)
<1>1. m.cases[i].loads \in Seq(L)
  BY CaseLoadsAre
<1> HIDE DEF L
<1>2. s \in Seq(L)
  BY <1>1, AppendIsSeq DEF L
<1> HIDE DEF s
<1>3. [m EXCEPT !.cases[i].loads = s] \in Plane(Node, types)
  BY <1>2, CaseWith DEF L
<1>4. ASSUME NEW k \in DOMAIN m.cases[i].loads PROVE [m EXCEPT !.cases[i].loads[k] = x] \in Plane(Node, types)
  <2> DEFINE r == [m.cases[i].loads EXCEPT ![k] = x]
  <2>1. r \in Seq(L)
    BY <1>1, UpdateIsSeq DEF L
  <2>2. [m EXCEPT !.cases[i].loads[k] = x] = [m EXCEPT !.cases[i].loads = r]
    OBVIOUS
  <2> HIDE DEF r
  <2> QED  BY <2>1, <2>2, CaseWith DEF L
<1> QED  BY <1>3, <1>4 DEF s

LEMMA CaseLoadRemoved ==
  ASSUME NEW Node, NEW types, NEW m \in Plane(Node, types), NEW i \in DOMAIN m.cases,
         NEW k \in DOMAIN m.cases[i].loads
  PROVE  [m EXCEPT !.cases[i].loads = RemoveAt(m.cases[i].loads, k)] \in Plane(Node, types)
<1> DEFINE s == RemoveAt(m.cases[i].loads, k)
<1>1. m.cases[i].loads \in Seq(LoadOf(types))
  BY CaseLoadsAre
<1>2. s \in Seq(LoadOf(types))
  BY <1>1, RemoveAtIsSeq
<1> HIDE DEF s
<1>3. [m EXCEPT !.cases[i].loads = s] \in Plane(Node, types)
  BY <1>2, CaseWith
<1> QED  BY <1>3 DEF s

----------------------------------------------------------------------------
(* Combinations, of beams too. *)

LEMMA CombinationDrafted ==
  ASSUME NEW cases \in SUBSET Identifier, NEW s \in Seq(Combination)
  PROVE  Append(s, [id |-> nextFrameDraftId("COMB", Ids(s)), factors |-> [id \in cases |-> 1]]) \in Seq(Combination)
<1> DEFINE id == nextFrameDraftId("COMB", Ids(s))
           f == [id1 \in cases |-> 1]
           x == [id |-> id, factors |-> f]
<1>1. IsFiniteSet(Ids(s)) /\ Ids(s) \in SUBSET Identifier
  BY IdsAreFinite, IdsAreIdentifiers, CombinationsAreNamed
<1>2. id \in Identifier
  BY <1>1, LiteralsAreText, NextDraftIsFree
<1>3. DOMAIN f \subseteq Identifier /\ f \in [DOMAIN f -> Int]
  OBVIOUS
<1> HIDE DEF id, f
<1>4. x = [id |-> x.id, factors |-> x.factors] /\ x.id = id /\ x.factors = f
  OBVIOUS
<1> HIDE DEF x
<1>5. x \in Combination
  BY <1>2, <1>3, <1>4, CombinationIs
<1>6. Append(s, x) \in Seq(Combination)
  BY <1>5, AppendIsSeq
<1> QED  BY <1>6 DEF x, id, f

LEMMA CombinationRenamed ==
  ASSUME NEW s \in Seq(Combination), NEW i \in DOMAIN s, NEW new \in Identifier
  PROVE  [s EXCEPT ![i].id = new] \in Seq(Combination)
BY RenamedIs, CombinationsAreNamed

LEMMA FactorIsSet ==
  ASSUME NEW s \in Seq(Combination), NEW i \in DOMAIN s, NEW id \in Identifier, NEW factor \in {0, 1}
  PROVE  [s EXCEPT ![i].factors = withFactor(s[i].factors, id, factor)] \in Seq(Combination)
<1> DEFINE c == s[i]
           g == c.factors
           f == withFactor(g, id, factor)
           D == DOMAIN g \cup {id}
           new == [c EXCEPT !.factors = f]
<1>1. c \in Combination
  OBVIOUS
<1> HIDE DEF c
<1>2. DOMAIN g \subseteq Identifier /\ g \in [DOMAIN g -> Int]
  BY <1>1, CombinationIs
<1> HIDE DEF g
<1>3. f \in [D -> Int] /\ D \in SUBSET Identifier
  BY <1>2 DEF withFactor
<1> HIDE DEF f, D
<1>4. new \in Combination
  BY <1>1, <1>3, CombinationWith
<1>5. [s EXCEPT ![i].factors = f] = [s EXCEPT ![i] = new]
  BY DEF c
<1> HIDE DEF new
<1>6. [s EXCEPT ![i] = new] \in Seq(Combination)
  BY <1>4, UpdateIsSeq
<1> QED  BY <1>5, <1>6 DEF f, c, g

----------------------------------------------------------------------------
(* What the frame's own edits make is a frame. *)

LEMMA NodeAdded ==
  ASSUME NEW Node, NEW types, NEW m \in Plane(Node, types), NEW x \in Node
  PROVE  [m EXCEPT !.nodes = Append(m.nodes, x)] \in Plane(Node, types)
BY AppendNode

LEMMA WithNodeIs ==
  ASSUME NEW m \in Frames, NEW support \in draftSupports(m)
  PROVE  /\ WithNode(m, support) \in Frames
         /\ LET s == WithNode(m, support).nodes IN s[Len(s)].id \in Identifier
<1> DEFINE id == nextFrameDraftId("N", Ids(m.nodes))
           x == [FreeNode(id) EXCEPT !.support = support]
           nodes == Append(m.nodes, x)
<1>1. m.nodes \in Seq(FrameNode)
  BY PlaneFields DEF Frames
<1>2. IsFiniteSet(Ids(m.nodes)) /\ Ids(m.nodes) \in SUBSET Identifier
  BY <1>1, IdsAreFinite, IdsAreIdentifiers, FrameNodesAreNamed
<1>3. id \in Identifier
  BY <1>2, LiteralsAreText, NextDraftIsFree
<1>4. WithNode(m, support) = [m EXCEPT !.nodes = nodes]
  BY Zenon DEF WithNode
<1> HIDE DEF id
<1>5. support \in {"fixed", "pinned", "roller", "free"}
  BY DEF draftSupports
<1>6. FreeNode(id) \in FrameNode
  BY <1>3, FreeNodeIs
<1>7. x \in FrameNode
  BY <1>5, <1>6 DEF FrameNode
<1> HIDE DEF x
<1>8. nodes \in Seq(FrameNode) /\ Len(nodes) = Len(m.nodes) + 1 /\ nodes[Len(nodes)] = x
  BY <1>1, <1>7, AppendIsSeq
<1>9. x.id \in Identifier
  BY <1>7 DEF FrameNode
<1> HIDE DEF nodes
<1>10. [m EXCEPT !.nodes = nodes] \in Frames /\ [m EXCEPT !.nodes = nodes].nodes = nodes
  BY <1>8, PlaneWith, PlaneFields DEF Frames
<1> QED  BY <1>4, <1>8, <1>9, <1>10

LEMMA MemberAdded ==
  ASSUME NEW Node, NEW types, NEW m \in Plane(Node, types), NEW a \in Identifier, NEW b \in Identifier, NEW stem \in Text
  PROVE  WithMember(m, a, b, stem) \in Plane(Node, types)
BY WithMemberIs

(* What holds a node. *)
LEMMA HeldIs ==
  ASSUME NEW node \in FrameNode, NEW support \in {"fixed", "pinned", "roller", "free"}, NEW angle \in Int,
         NEW springs \in Seq({"ux", "uy", "rz"}), NEW displacements \in Seq({"ux", "uy", "rz", "n"})
  PROVE  /\ supportedBy(node, support) \in FrameNode
         /\ [node EXCEPT !.angle = angle] \in FrameNode
         /\ [node EXCEPT !.springs = springs] \in FrameNode
         /\ [node EXCEPT !.displacements = displacements] \in FrameNode
<1>1. node.angle \in Int /\ NoAngle \in Int
  BY DEF FrameNode, NoAngle
<1> DEFINE kept == IF support = "roller" THEN node.angle ELSE NoAngle
<1>2. supportedBy(node, support) = [node EXCEPT !.support = support, !.angle = kept, !.displacements = <<>>]
  BY Zenon DEF supportedBy
<1>3. kept \in Int /\ <<>> \in Seq({"ux", "uy", "rz", "n"})
  BY <1>1
<1> HIDE DEF kept
<1>4. supportedBy(node, support) \in FrameNode
  BY <1>2, <1>3 DEF FrameNode
<1> QED  BY <1>4 DEF FrameNode

LEMMA NodeAt ==
  ASSUME NEW m \in Frames, NEW i \in DOMAIN m.nodes
  PROVE  /\ m.nodes[i] \in FrameNode /\ m.nodes[i].angle \in Int
         /\ m.nodes[i].springs \in Seq({"ux", "uy", "rz"})
         /\ m.nodes[i].displacements \in Seq({"ux", "uy", "rz", "n"})
<1>1. m.nodes \in Seq(FrameNode)
  BY PlaneFields DEF Frames
<1>2. m.nodes[i] \in FrameNode
  BY <1>1
<1> QED  BY <1>2 DEF FrameNode

LEMMA DirectionsAre ==
  ASSUME NEW node \in FrameNode
  PROVE  supportDirections(node) \in Seq({"ux", "uy", "rz", "n"})
<1>1. /\ <<"ux", "uy", "rz">> \in Seq({"ux", "uy", "rz", "n"}) /\ <<"ux", "uy">> \in Seq({"ux", "uy", "rz", "n"})
      /\ <<"uy">> \in Seq({"ux", "uy", "rz", "n"}) /\ <<"n">> \in Seq({"ux", "uy", "rz", "n"})
      /\ <<>> \in Seq({"ux", "uy", "rz", "n"})
  OBVIOUS
<1>2. node.support \in {"fixed", "pinned", "roller", "free"}
  BY DEF FrameNode
<1>3. CASE node.support = "fixed"
  <2>1. supportDirections(node) = <<"ux", "uy", "rz">>
    BY <1>3 DEF supportDirections
  <2> QED  BY <1>1, <2>1
<1>4. CASE node.support = "pinned"
  <2>1. supportDirections(node) = <<"ux", "uy">>
    BY <1>4 DEF supportDirections
  <2> QED  BY <1>1, <2>1
<1>5. CASE node.support = "roller"
  <2>1. supportDirections(node) = <<"uy">> \/ supportDirections(node) = <<"n">>
    BY <1>5 DEF supportDirections
  <2> QED  BY <1>1, <2>1
<1>6. CASE node.support = "free"
  <2>1. supportDirections(node) = <<>>
    BY <1>6 DEF supportDirections
  <2> QED  BY <1>1, <2>1
<1> QED  BY <1>2, <1>3, <1>4, <1>5, <1>6

LEMMA DisplacementsAre ==
  ASSUME NEW node \in FrameNode
  PROVE  normalizeFrameSupportDisplacements(node) \in Seq({"ux", "uy", "rz", "n"})
<1> DEFINE given == node.displacements
           S == {k \in DOMAIN given : given[k] \in Elements(supportDirections(node))
                                      /\ \A l \in 1..k - 1 : given[l] # given[k]}
<1>1. given \in Seq({"ux", "uy", "rz", "n"})
  BY DEF FrameNode
<1>2. S \in SUBSET DOMAIN given
  OBVIOUS
<1>3. normalizeFrameSupportDisplacements(node) = Picked(given, S)
  BY DEF normalizeFrameSupportDisplacements
<1> HIDE DEF given, S
<1> QED  BY <1>1, <1>2, <1>3, PickedIsSeq

(* Loads. *)
LEMMA RetypedIs ==
  ASSUME model \in Frames, NEW load \in LoadOf(LoadTypes), NEW type \in LoadTypes
  PROVE  Retyped(load, type) \in LoadOf(LoadTypes)
<1> DEFINE first == FirstOr(model.members, Draft("M", 1))
           node == FirstOr(model.nodes, Draft("N", 1))
           member == IF load.member = NoId THEN first ELSE load.member
<1>1. Draft("M", 1) \in Identifier /\ Draft("N", 1) \in Identifier
  BY LiteralsAreText, DraftIsIdentifier
<1>2. model.members \in Seq(Member) /\ model.nodes \in Seq(FrameNode)
  BY PlaneFields DEF Frames
<1>3. first \in Identifier /\ node \in Identifier
  BY <1>1, <1>2, FirstOrIs, MembersAreNamed, FrameNodesAreNamed
<1>4. load.member \in Identifier
  BY DEF LoadOf
<1>5. CASE type = "nodal"
  <2>1. Retyped(load, type) = [load EXCEPT !.type = type, !.node = node]
    BY <1>5, Zenon DEF Retyped
  <2> HIDE DEF node
  <2> QED  BY <1>3, <2>1 DEF LoadOf
<1>6. CASE type = "distributed"
  <2>1. Retyped(load, type) = [load EXCEPT !.type = type, !.member = first]
    BY <1>6 DEF Retyped
  <2> HIDE DEF first
  <2> QED  BY <1>3, <2>1 DEF LoadOf
<1>7. CASE type # "nodal" /\ type # "distributed"
  <2>1. Retyped(load, type) = [load EXCEPT !.type = type, !.member = member]
    BY <1>7 DEF Retyped
  <2>2. member \in Identifier
    <3> HIDE DEF first
    <3> QED  BY <1>3, <1>4
  <2> HIDE DEF member
  <2> QED  BY <2>1, <2>2 DEF LoadOf
<1> QED  BY <1>5, <1>6, <1>7

LEMMA EditedIs ==
  ASSUME model \in Frames, NEW load \in LoadOf(LoadTypes)
  PROVE  Edited(load) \subseteq LoadOf(LoadTypes)
<1>1. model.members \in Seq(Member) /\ model.nodes \in Seq(FrameNode)
  BY PlaneFields DEF Frames
<1>2. Ids(model.nodes) \subseteq Identifier /\ Ids(model.members) \subseteq Identifier
  BY <1>1, IdsAreIdentifiers, MembersAreNamed, FrameNodesAreNamed
<1>3. Ratios \subseteq Int
  BY InputsAssumption
<1> SUFFICES ASSUME NEW new \in Edited(load)
             PROVE  new \in LoadOf(LoadTypes)
  OBVIOUS
<1>4. \/ \E type \in LoadTypes : new = Retyped(load, type)
      \/ \E role \in {"fixed", "variable"} : new = [load EXCEPT !.role = role]
      \/ \E id \in Identifier : new = [load EXCEPT !.node = id] \/ new = [load EXCEPT !.member = id]
      \/ \E r \in Int : new = [load EXCEPT !.from = r] \/ new = [load EXCEPT !.to = r] \/ new = [load EXCEPT !.at = r]
  BY <1>2, <1>3, Zenon DEF Edited
<1>5. ASSUME NEW type \in LoadTypes, new = Retyped(load, type) PROVE new \in LoadOf(LoadTypes)
  BY <1>5, RetypedIs
<1>6. ASSUME NEW role \in {"fixed", "variable"}, new = [load EXCEPT !.role = role] PROVE new \in LoadOf(LoadTypes)
  BY <1>6 DEF LoadOf
<1>7. ASSUME NEW id \in Identifier, new = [load EXCEPT !.node = id] \/ new = [load EXCEPT !.member = id]
      PROVE  new \in LoadOf(LoadTypes)
  BY <1>7 DEF LoadOf
<1>8. ASSUME NEW r \in Int, new = [load EXCEPT !.from = r] \/ new = [load EXCEPT !.to = r] \/ new = [load EXCEPT !.at = r]
      PROVE  new \in LoadOf(LoadTypes)
  BY <1>8 DEF LoadOf
<1> QED  BY <1>4, <1>5, <1>6, <1>7, <1>8

LEMMA DraftLoadIs ==
  ASSUME NEW types, NEW type \in types, NEW node \in Identifier, NEW member \in Identifier
  PROVE  DraftLoad(type, node, member) \in LoadOf(types)
BY DEF DraftLoad, LoadOf

LEMMA DraftsAre ==
  ASSUME NEW n \in Int
  PROVE  /\ Draft("N", n) \in Identifier /\ Draft("C", n) \in Identifier /\ Draft("B", n) \in Identifier
         /\ Draft("M", n) \in Identifier /\ Draft("L", n) \in Identifier /\ Draft("U", n) \in Identifier
         /\ Draft("V", n) \in Identifier /\ Draft("D", n) \in Identifier /\ Draft("P", n) \in Identifier
         /\ Draft("(", n) \in Identifier /\ Draft("S", n) \in Identifier
BY LiteralsAreText, DraftIsIdentifier

LEMMA FromOne ==
  ASSUME NEW T, NEW n \in Nat, NEW f, f = [k \in 1..n |-> f[k]], \A k \in 1..n : f[k] \in T
  PROVE  f \in Seq(T) /\ Len(f) = n
OBVIOUS

(* A regular frame. *)
LEMMA RegularFrameIs ==
  ASSUME NEW bays \in Nat \ {0}, NEW stories \in Nat \ {0}, NEW beamLoad \in BOOLEAN, NEW topLoad \in BOOLEAN
  PROVE  RegularFrame(bays, stories, beamLoad, topLoad) \in Frames
<1> DEFINE perFloor == bays + 1
           count == (stories + 1) * perFloor
           column(k) == [id |-> Draft("C", k), start |-> Draft("N", k), end |-> Draft("N", k + perFloor), hinges |-> <<>>]
           left(k) == ((k - 1) \div bays + 1) * perFloor + ((k - 1) % bays) + 1
           beam(k) == [id |-> Draft("B", k), start |-> Draft("N", left(k)), end |-> Draft("N", left(k) + 1), hinges |-> <<>>]
           nodes == [k \in 1..count |-> [FreeNode(Draft("N", k)) EXCEPT !.support = IF k <= perFloor THEN "fixed" ELSE @]]
           columns == [k \in 1..stories * perFloor |-> column(k)]
           beams == [k \in 1..stories * bays |-> beam(k)]
           onBeams == [k \in 1..stories * bays |-> DraftLoad("distributed", NoId, Draft("B", k))]
           onTop == <<DraftLoad("nodal", Draft("N", count), NoId)>>
           some == IF beamLoad THEN onBeams ELSE <<>>
           more == IF topLoad THEN onTop ELSE <<>>
<1>1. RegularFrame(bays, stories, beamLoad, topLoad) =
        [nodes |-> nodes, members |-> columns \o beams, loads |-> some \o more, cases |-> <<>>, combinations |-> <<>>]
  BY DEF RegularFrame
<1>2. perFloor \in Nat /\ count \in Nat /\ stories * perFloor \in Nat /\ stories * bays \in Nat
  OBVIOUS
<1>3. nodes \in Seq(FrameNode)
  <2> DEFINE f == nodes
  <2>1. f = [k \in 1..count |-> f[k]]
        /\ \A k \in 1..count : f[k] = [FreeNode(Draft("N", k)) EXCEPT !.support = IF k <= perFloor THEN "fixed" ELSE @]
    OBVIOUS
  <2> HIDE DEF f, count
  <2>2. ASSUME NEW k \in 1..count PROVE f[k] \in FrameNode
    <3> DEFINE x == FreeNode(Draft("N", k))
               support == IF k <= perFloor THEN "fixed" ELSE x.support
    <3>1. k \in Int
      BY <1>2
    <3>2. x \in FrameNode
      BY <3>1, DraftsAre, FreeNodeIs
    <3>3. f[k] = [x EXCEPT !.support = support]
      BY <2>1
    <3> HIDE DEF x
    <3>4. support \in {"fixed", "pinned", "roller", "free"}
      BY <3>2 DEF FrameNode
    <3> HIDE DEF support
    <3> QED  BY <3>2, <3>3, <3>4 DEF FrameNode
  <2>3. f \in Seq(FrameNode)
    BY <1>2, <2>1, <2>2, FromOne
  <2> QED  BY <2>3 DEF f
<1>4. columns \in Seq(Member)
  <2> DEFINE f == columns
             n == stories * perFloor
  <2>1. f = [k \in 1..n |-> f[k]] /\ \A k \in 1..n : f[k] = column(k)
    OBVIOUS
  <2> HIDE DEF f, n
  <2>2. ASSUME NEW k \in 1..n PROVE f[k] \in Member
    <3> DEFINE a == Draft("C", k)
               b == Draft("N", k)
               c == Draft("N", k + perFloor)
    <3>1. k \in Int /\ k + perFloor \in Int
      BY <1>2 DEF n
    <3>2. a \in Identifier /\ b \in Identifier /\ c \in Identifier
      BY <3>1, DraftsAre
    <3>3. f[k] = [id |-> a, start |-> b, end |-> c, hinges |-> <<>>]
      BY <2>1
    <3> HIDE DEF a, b, c
    <3> QED  BY <3>2, <3>3 DEF Member
  <2>3. n \in Nat
    BY <1>2 DEF n
  <2>4. f \in Seq(Member)
    BY <2>1, <2>2, <2>3, FromOne
  <2> QED  BY <2>4 DEF f
<1>5. beams \in Seq(Member)
  <2> DEFINE f == beams
             n == stories * bays
  <2>1. f = [k \in 1..n |-> f[k]] /\ \A k \in 1..n : f[k] = beam(k)
    OBVIOUS
  <2> HIDE DEF f, n
  <2>2. ASSUME NEW k \in 1..n PROVE f[k] \in Member
    <3> DEFINE a == left(k)
    <3>1. k \in Int
      BY <1>2 DEF n
    <3>2. a \in Int
      <4>1. (k - 1) \div bays \in Int /\ (k - 1) % bays \in Int
        BY <3>1
      <4> QED  BY <1>2, <4>1
    <3>3. f[k] = [id |-> Draft("B", k), start |-> Draft("N", a), end |-> Draft("N", a + 1), hinges |-> <<>>]
      BY <2>1
    <3> HIDE DEF a
    <3>4. Draft("B", k) \in Identifier /\ Draft("N", a) \in Identifier /\ Draft("N", a + 1) \in Identifier
      BY <3>1, <3>2, DraftsAre
    <3> QED  BY <3>3, <3>4 DEF Member
  <2>3. n \in Nat
    BY <1>2 DEF n
  <2>4. f \in Seq(Member)
    BY <2>1, <2>2, <2>3, FromOne
  <2> QED  BY <2>4 DEF f
<1> DEFINE L == LoadOf(LoadTypes)
<1>6. onBeams \in Seq(L)
  <2> DEFINE f == onBeams
             n == stories * bays
  <2>1. f = [k \in 1..n |-> f[k]] /\ \A k \in 1..n : f[k] = DraftLoad("distributed", NoId, Draft("B", k))
    OBVIOUS
  <2> HIDE DEF f, n
  <2>2. ASSUME NEW k \in 1..n PROVE f[k] \in LoadOf(LoadTypes)
    <3>1. k \in Int
      BY <1>2 DEF n
    <3>2. Draft("B", k) \in Identifier /\ "distributed" \in LoadTypes
      BY <3>1, DraftsAre DEF LoadTypes, MemberLoadTypes
    <3>3. DraftLoad("distributed", NoId, Draft("B", k)) \in LoadOf(LoadTypes)
      BY <3>2, NoIdIs, DraftLoadIs
    <3> QED  BY <2>1, <3>3
  <2>3. n \in Nat
    BY <1>2 DEF n
  <2>4. f \in Seq(L)
    BY <2>1, <2>2, <2>3, FromOne
  <2> QED  BY <2>4 DEF f
<1>7. onTop \in Seq(L)
  <2>1. Draft("N", count) \in Identifier /\ "nodal" \in LoadTypes
    <3> HIDE DEF count
    <3> QED  BY <1>2, DraftsAre DEF LoadTypes
  <2>2. DraftLoad("nodal", Draft("N", count), NoId) \in LoadOf(LoadTypes)
    BY <2>1, NoIdIs, DraftLoadIs
  <2> QED  BY <2>2
<1> HIDE DEF nodes, columns, beams, onBeams, onTop, L
<1>8. some \in Seq(L) /\ more \in Seq(L)
  BY <1>6, <1>7
<1> HIDE DEF some, more
<1>9. some \o more \in Seq(L) /\ columns \o beams \in Seq(Member)
  BY <1>4, <1>5, <1>8, ConcatIsSeq
<1>10. <<>> \in Seq(CaseOf(LoadTypes)) /\ <<>> \in Seq(Combination)
  OBVIOUS
<1> DEFINE members == columns \o beams
           loads == some \o more
<1>11. members \in Seq(Member) /\ loads \in Seq(LoadOf(LoadTypes))
  BY <1>9 DEF L
<1> HIDE DEF members, loads
<1>12. [nodes |-> nodes, members |-> members, loads |-> loads, cases |-> <<>>, combinations |-> <<>>]
         \in Plane(FrameNode, LoadTypes)
  BY <1>3, <1>10, <1>11, PlaneOf
<1> QED  BY <1>1, <1>12 DEF Frames, members, loads

(* A mirrored copy. *)
LEMMA MirroredIs ==
  ASSUME NEW m \in Frames, NEW last, NEW axis
  PROVE  mirrored(m, last, axis) \in Frames
<1> DEFINE f == [i \in DOMAIN m.nodes |->
            IF i <= last THEN m.nodes[i] ELSE [m.nodes[i] EXCEPT !.angle = mirrorAngleDeg(m.nodes[i].angle, axis)]]
<1>1. m.nodes \in Seq(FrameNode)
  BY PlaneFields DEF Frames
<1>2. f = [i \in DOMAIN m.nodes |-> f[i]] /\ \A i \in DOMAIN m.nodes : f[i] =
            IF i <= last THEN m.nodes[i] ELSE [m.nodes[i] EXCEPT !.angle = mirrorAngleDeg(m.nodes[i].angle, axis)]
  OBVIOUS
<1> HIDE DEF f
<1>3. ASSUME NEW i \in DOMAIN m.nodes PROVE f[i] \in FrameNode
  <2> DEFINE x == m.nodes[i]
             angle == mirrorAngleDeg(x.angle, axis)
  <2>1. x \in FrameNode /\ x.angle \in Int
    BY NodeAt
  <2>2. f[i] = IF i <= last THEN x ELSE [x EXCEPT !.angle = angle]
    BY <1>2
  <2> HIDE DEF x
  <2>3. angle \in Int
    BY <2>1 DEF mirrorAngleDeg, NoAngle
  <2> HIDE DEF angle
  <2>4. [x EXCEPT !.angle = angle] \in FrameNode
    BY <2>1, <2>3 DEF FrameNode
  <2> QED  BY <2>1, <2>2, <2>4
<1>4. f \in Seq(FrameNode)
  BY <1>1, <1>2, <1>3, MapIsSeq
<1>5. [m EXCEPT !.nodes = f] \in Frames
  BY <1>4, PlaneWith DEF Frames
<1>6. mirrored(m, last, axis) = [m EXCEPT !.nodes = f]
  BY Zenon DEF mirrored, f
<1> QED  BY <1>5, <1>6

(* One copy, or two. *)
LEMMA ArrayedIs ==
  ASSUME NEW Node, Named(Node), NEW types, NEW m \in Plane(Node, types), NEW nodeIds, NEW memberIds
  PROVE  LET once == copyOnce(m, nodeIds, memberIds, 1)
         IN once \in Plane(Node, types) /\ copyOnce(once, nodeIds, memberIds, 2) \in Plane(Node, types)
<1> DEFINE once == copyOnce(m, nodeIds, memberIds, 1)
<1>1. once \in Plane(Node, types)
  BY CopyOnceIs
<1> HIDE DEF once
<1>2. copyOnce(once, nodeIds, memberIds, 2) \in Plane(Node, types)
  BY <1>1, CopyOnceIs
<1> QED  BY <1>1, <1>2 DEF once

----------------------------------------------------------------------------
(* Every edit of a frame commits a frame. *)

FrameEdited == \E next \in Frames : updateWorkspace(next)

LEMMA CommitIs ==
  ASSUME NEW next \in Frames, Commit(next)
  PROVE  FrameEdited
BY DEF Commit, FrameEdited

LEMMA CommitRenameIs ==
  ASSUME NEW next \in Frames, NEW new, NEW used, CommitRename(next, new, used)
  PROVE  FrameEdited
BY DEF CommitRename, FrameEdited

(* The names in a frame. *)
LEMMA FrameNames ==
  ASSUME NEW m \in Frames
  PROVE  /\ m \in Plane(FrameNode, LoadTypes) /\ Named(FrameNode)
         /\ Ids(m.nodes) \subseteq Identifier /\ Ids(m.members) \subseteq Identifier
         /\ Ids(m.cases) \subseteq Identifier
<1>1. m.members \in Seq(Member) /\ m.nodes \in Seq(FrameNode) /\ m.cases \in Seq(CaseOf(LoadTypes))
  BY PlaneFields DEF Frames
<1>2. Ids(m.nodes) \subseteq Identifier /\ Ids(m.members) \subseteq Identifier /\ Ids(m.cases) \subseteq Identifier
  BY <1>1, IdsAreIdentifiers, MembersAreNamed, FrameNodesAreNamed, CasesAreNamed
<1> QED  BY <1>2, FrameNodesAreNamed DEF Frames

LEMMA WholeFrames ==
  ASSUME model \in Frames, ApplyTemplate \/ GenerateQuickModel \/ ImportText
  PROVE  FrameEdited
<1>1. CASE ApplyTemplate
  <2>1. PICK template \in Templates : Commit(template)
    BY <1>1 DEF ApplyTemplate
  <2>2. template \in Frames
    BY TemplatesAssumption, ModelIsPlane DEF IsFrame, Frames
  <2> QED  BY <2>1, <2>2, CommitIs
<1>2. CASE GenerateQuickModel
  <2>1. PICK size \in QuickSizes, beamLoad \in BOOLEAN, topLoad \in BOOLEAN :
          Commit(RegularFrame(size[1], size[2], beamLoad, topLoad))
    BY <1>2 DEF GenerateQuickModel
  <2>2. size[1] \in Nat \ {0} /\ size[2] \in Nat \ {0}
    BY InputsAssumption
  <2>3. RegularFrame(size[1], size[2], beamLoad, topLoad) \in Frames
    BY <2>2, RegularFrameIs
  <2> QED  BY <2>1, <2>3, CommitIs
<1>3. CASE ImportText
  <2> DEFINE text == serializeFrameTextModel(model)
             next == parseFrameTextModel(text)
  <2>1. next \in Frames
    <3>1. TextLines(text)
      BY TextLinesAre
    <3> HIDE DEF text
    <3> QED  BY <3>1, ReadFrameIs
  <2>2. PICK stems \in [1..Len(next.nodes) - 1 -> MemberStems] :
          ~Diagnosed(next) /\ Commit(completeFrameTextCollections(next, stems))
    BY <1>3 DEF ImportText
  <2> HIDE DEF next
  <2>3. next.nodes # <<>>
    BY <2>2 DEF Diagnosed
  <2>4. completeFrameTextCollections(next, stems) \in Frames
    BY <2>1, <2>3, CompletedIs
  <2> QED  BY <2>2, <2>4, CommitIs
<1> QED  BY <1>1, <1>2, <1>3

LEMMA NodeEdits ==
  ASSUME model \in Frames,
         AddNode \/ RenameNode \/ SetSupport \/ SetAngle \/ RemoveNode
  PROVE  FrameEdited
<1>1. CASE AddNode
  <2>1. PICK support \in draftSupports(model) : Commit(WithNode(model, support))
    BY <1>1 DEF AddNode
  <2>2. WithNode(model, support) \in Frames
    BY WithNodeIs
  <2> QED  BY <2>1, <2>2, CommitIs
<1>2. CASE RenameNode
  <2>1. PICK i \in DOMAIN model.nodes, new \in NewNames :
          CommitRename(renameNode(model, i, new), new, Ids(model.nodes))
    BY <1>2 DEF RenameNode
  <2>2. new \in Identifier
    BY InputsAssumption
  <2>3. renameNode(model, i, new) \in Frames
    BY <2>2, FrameNames, RenameNodeIs DEF Frames
  <2> QED  BY <2>1, <2>3, CommitRenameIs
<1>3. CASE SetSupport
  <2>1. PICK i \in DOMAIN model.nodes, support \in {"fixed", "pinned", "roller", "free"} :
          Commit([model EXCEPT !.nodes[i] = supportedBy(model.nodes[i], support)])
    BY <1>3 DEF SetSupport
  <2>2. supportedBy(model.nodes[i], support) \in FrameNode
    BY NodeAt, HeldIs
  <2>3. [model EXCEPT !.nodes[i] = supportedBy(model.nodes[i], support)] \in Frames
    BY <2>2, NodePlaced DEF Frames
  <2> QED  BY <2>1, <2>3, CommitIs
<1>4. CASE SetAngle
  <2>1. PICK i \in DOMAIN model.nodes, angle \in Angles \cup {NoAngle} :
          Commit([model EXCEPT !.nodes[i].angle = angle])
    BY <1>4 DEF SetAngle
  <2>2. angle \in Int
    BY InputsAssumption DEF NoAngle
  <2> DEFINE x == [model.nodes[i] EXCEPT !.angle = angle]
  <2>3. x \in FrameNode
    BY <2>2, NodeAt, HeldIs
  <2>4. [model EXCEPT !.nodes[i].angle = angle] = [model EXCEPT !.nodes[i] = x]
    OBVIOUS
  <2> HIDE DEF x
  <2>5. [model EXCEPT !.nodes[i] = x] \in Frames
    BY <2>3, NodePlaced DEF Frames
  <2> QED  BY <2>1, <2>4, <2>5, CommitIs
<1>5. CASE RemoveNode
  <2>1. PICK i \in DOMAIN model.nodes : Commit(removeNode(model, i))
    BY <1>5 DEF RemoveNode
  <2>2. removeNode(model, i) \in Frames
    BY RemoveNodeIs DEF Frames
  <2> QED  BY <2>1, <2>2, CommitIs
<1> QED  BY <1>1, <1>2, <1>3, <1>4, <1>5

(* Springs and displacements of a node. *)
LEMMA HeldEdits ==
  ASSUME model \in Frames, SetSprings \/ SetDisplacements
  PROVE  FrameEdited
<1>1. ASSUME NEW i \in DOMAIN model.nodes, NEW s \in Seq({"ux", "uy", "rz"})
      PROVE  [model EXCEPT !.nodes[i].springs = s] \in Frames
  <2> DEFINE x == [model.nodes[i] EXCEPT !.springs = s]
  <2>1. x \in FrameNode
    BY NodeAt, HeldIs
  <2>2. [model EXCEPT !.nodes[i].springs = s] = [model EXCEPT !.nodes[i] = x]
    OBVIOUS
  <2> HIDE DEF x
  <2> QED  BY <2>1, <2>2, NodePlaced DEF Frames
<1>2. ASSUME NEW i \in DOMAIN model.nodes, NEW s \in Seq({"ux", "uy", "rz", "n"})
      PROVE  [model EXCEPT !.nodes[i].displacements = s] \in Frames
  <2> DEFINE x == [model.nodes[i] EXCEPT !.displacements = s]
  <2>1. x \in FrameNode
    BY NodeAt, HeldIs
  <2>2. [model EXCEPT !.nodes[i].displacements = s] = [model EXCEPT !.nodes[i] = x]
    OBVIOUS
  <2> HIDE DEF x
  <2> QED  BY <2>1, <2>2, NodePlaced DEF Frames
<1>3. CASE SetSprings
  <2>1. PICK i \in DOMAIN model.nodes :
          \/ Commit([model EXCEPT !.nodes[i].springs = Append(model.nodes[i].springs, "uy")])
          \/ \E k \in DOMAIN model.nodes[i].springs :
               \/ Commit([model EXCEPT !.nodes[i].springs = RemoveAt(model.nodes[i].springs, k)])
               \/ \E dof \in {"ux", "uy", "rz"} : Commit([model EXCEPT !.nodes[i].springs[k] = dof])
    BY <1>3 DEF SetSprings
  <2> DEFINE s == model.nodes[i].springs
  <2>2. s \in Seq({"ux", "uy", "rz"})
    BY NodeAt
  <2>3. ASSUME Commit([model EXCEPT !.nodes[i].springs = Append(s, "uy")]) PROVE FrameEdited
    <3> DEFINE r == Append(s, "uy")
    <3>1. r \in Seq({"ux", "uy", "rz"})
      BY <2>2, AppendIsSeq
    <3> HIDE DEF r
    <3>2. [model EXCEPT !.nodes[i].springs = r] \in Frames
      BY <1>1, <3>1
    <3> QED  BY <2>3, <3>2, CommitIs DEF r
  <2>4. ASSUME NEW k \in DOMAIN s, Commit([model EXCEPT !.nodes[i].springs = RemoveAt(s, k)]) PROVE FrameEdited
    <3> DEFINE r == RemoveAt(s, k)
    <3>1. r \in Seq({"ux", "uy", "rz"})
      BY <2>2, RemoveAtIsSeq
    <3> HIDE DEF r
    <3>2. [model EXCEPT !.nodes[i].springs = r] \in Frames
      BY <1>1, <3>1
    <3> QED  BY <2>4, <3>2, CommitIs DEF r
  <2>5. ASSUME NEW k \in DOMAIN s, NEW dof \in {"ux", "uy", "rz"}, Commit([model EXCEPT !.nodes[i].springs[k] = dof])
        PROVE  FrameEdited
    <3> DEFINE r == [s EXCEPT ![k] = dof]
    <3>1. r \in Seq({"ux", "uy", "rz"})
      BY <2>2, UpdateIsSeq
    <3>2. [model EXCEPT !.nodes[i].springs[k] = dof] = [model EXCEPT !.nodes[i].springs = r]
      OBVIOUS
    <3> HIDE DEF r
    <3>3. [model EXCEPT !.nodes[i].springs = r] \in Frames
      BY <1>1, <3>1
    <3> QED  BY <2>5, <3>2, <3>3, CommitIs
  <2> QED  BY <2>1, <2>3, <2>4, <2>5
<1>4. CASE SetDisplacements
  <2>1. PICK i \in DOMAIN model.nodes :
          LET shown == normalizeFrameSupportDisplacements(model.nodes[i])
              options == supportDirections(model.nodes[i])
              others == Where(options, Elements(options) \ Elements(shown))
              Displace(next) == Commit([model EXCEPT !.nodes[i].displacements = next])
          IN \/ others # <<>> /\ Displace(Append(shown, others[1]))
             \/ \E k \in DOMAIN shown :
                  \/ Displace(RemoveAt(shown, k))
                  \/ \E dof \in Elements(options) : Displace([shown EXCEPT ![k] = dof])
    BY <1>4 DEF SetDisplacements
  <2> DEFINE shown == normalizeFrameSupportDisplacements(model.nodes[i])
             options == supportDirections(model.nodes[i])
             others == Where(options, Elements(options) \ Elements(shown))
             D == {"ux", "uy", "rz", "n"}
  <2>2. shown \in Seq(D) /\ options \in Seq(D)
    BY NodeAt, DisplacementsAre, DirectionsAre
  <2>3. ASSUME NEW r \in Seq(D), Commit([model EXCEPT !.nodes[i].displacements = r]) PROVE FrameEdited
    BY <1>2, <2>3, CommitIs
  <2>4. others \in Seq(D)
    <3> HIDE DEF shown, options, D
    <3> QED  BY <2>2, WhereIsSeq
  <2> HIDE DEF shown, options, others
  <2>5. /\ others # <<>> => others[1] \in D
        /\ Elements(options) \subseteq D
    BY <2>2, <2>4 DEF Elements
  <2>6. others # <<>> => Append(shown, others[1]) \in Seq(D)
    BY <2>2, <2>5, AppendIsSeq
  <2>7. \A k \in DOMAIN shown : RemoveAt(shown, k) \in Seq(D)
    BY <2>2, RemoveAtIsSeq
  <2>8. \A k \in DOMAIN shown, dof \in Elements(options) : [shown EXCEPT ![k] = dof] \in Seq(D)
    BY <2>2, <2>5, UpdateIsSeq
  <2>9. \/ others # <<>> /\ Commit([model EXCEPT !.nodes[i].displacements = Append(shown, others[1])])
        \/ \E k \in DOMAIN shown :
             \/ Commit([model EXCEPT !.nodes[i].displacements = RemoveAt(shown, k)])
             \/ \E dof \in Elements(options) : Commit([model EXCEPT !.nodes[i].displacements = [shown EXCEPT ![k] = dof]])
    BY <2>1, Zenon DEF shown, options, others
  <2> HIDE DEF D
  <2> QED  BY <2>3, <2>6, <2>7, <2>8, <2>9
<1> QED  BY <1>3, <1>4

LEMMA ConnectingEdits ==
  ASSUME model \in Frames, AddConnectedNode \/ Connect
  PROVE  FrameEdited
<1>1. MemberStems \subseteq Text
  BY InputsAssumption
<1>2. CASE AddConnectedNode
  <2>1. PICK stem \in MemberStems, support \in draftSupports(model) :
          LET next == WithNode(model, support)
              new == next.nodes[Len(next.nodes)].id
          IN \/ model.nodes = <<>> /\ Commit(next)
             \/ \E a \in Ids(model.nodes) :
                  Commit(IF memberExists(model, a, new) THEN next ELSE WithMember(next, a, new, stem))
    BY <1>2 DEF AddConnectedNode
  <2> DEFINE next == WithNode(model, support)
             new == next.nodes[Len(next.nodes)].id
  <2>2. next \in Frames /\ new \in Identifier
    BY WithNodeIs
  <2>3. \/ Commit(next)
        \/ \E a \in Ids(model.nodes) :
             Commit(IF memberExists(model, a, new) THEN next ELSE WithMember(next, a, new, stem))
    BY <2>1
  <2> HIDE DEF next, new
  <2>4. ASSUME NEW a \in Ids(model.nodes),
               Commit(IF memberExists(model, a, new) THEN next ELSE WithMember(next, a, new, stem))
        PROVE  FrameEdited
    <3> DEFINE r == IF memberExists(model, a, new) THEN next ELSE WithMember(next, a, new, stem)
    <3>1. a \in Identifier /\ stem \in Text
      BY <1>1, FrameNames
    <3>2. WithMember(next, a, new, stem) \in Frames
      BY <2>2, <3>1, MemberAdded DEF Frames
    <3>3. r \in Frames
      BY <2>2, <3>2
    <3> HIDE DEF r
    <3> QED  BY <2>4, <3>3, CommitIs DEF r
  <2> QED  BY <2>2, <2>3, <2>4, CommitIs
<1>3. CASE Connect
  <2>1. PICK a \in Ids(model.nodes), b \in Ids(model.nodes), stem \in MemberStems :
          Commit(WithMember(model, a, b, stem))
    BY <1>3 DEF Connect
  <2>2. a \in Identifier /\ b \in Identifier /\ stem \in Text
    BY <1>1, FrameNames
  <2>3. WithMember(model, a, b, stem) \in Frames
    BY <2>2, MemberAdded DEF Frames
  <2> QED  BY <2>1, <2>3, CommitIs
<1> QED  BY <1>2, <1>3

LEMMA MemberEdits ==
  ASSUME model \in Frames, RenameMember \/ MoveMember \/ SetHinges \/ RemoveMember
  PROVE  FrameEdited
<1>1. CASE RenameMember
  <2>1. PICK i \in DOMAIN model.members, new \in NewNames :
          CommitRename(renameMember(model, i, new), new, Ids(model.members))
    BY <1>1 DEF RenameMember
  <2>2. new \in Identifier
    BY InputsAssumption
  <2>3. renameMember(model, i, new) \in Frames
    BY <2>2, RenameMemberIs DEF Frames
  <2> QED  BY <2>1, <2>3, CommitRenameIs
<1>2. CASE MoveMember
  <2>1. PICK i \in DOMAIN model.members, id \in Ids(model.nodes) :
          \/ Commit([model EXCEPT !.members[i].start = id])
          \/ Commit([model EXCEPT !.members[i].end = id])
    BY <1>2 DEF MoveMember
  <2>2. id \in Identifier /\ <<>> \in Seq(Int)
    BY FrameNames
  <2>3. [model EXCEPT !.members[i].start = id] \in Frames /\ [model EXCEPT !.members[i].end = id] \in Frames
    BY <2>2, MemberWith DEF Frames
  <2> QED  BY <2>1, <2>3, CommitIs
<1>3. CASE SetHinges
  <2>1. PICK i \in DOMAIN model.members :
          \/ Commit([model EXCEPT !.members[i].hinges = Append(model.members[i].hinges, 50)])
          \/ \E k \in DOMAIN model.members[i].hinges :
               \/ Commit([model EXCEPT !.members[i].hinges = RemoveAt(model.members[i].hinges, k)])
               \/ \E ratio \in HingeRatios : Commit([model EXCEPT !.members[i].hinges[k] = ratio])
    BY <1>3 DEF SetHinges
  <2> DEFINE s == model.members[i].hinges
  <2>2. s \in Seq(Int)
    <3>1. model.members \in Seq(Member)
      BY PlaneFields DEF Frames
    <3>2. model.members[i] \in Member
      BY <3>1
    <3> QED  BY <3>2 DEF Member
  <2>3. ASSUME NEW r \in Seq(Int) PROVE [model EXCEPT !.members[i].hinges = r] \in Frames
    BY NoIdIs, MemberWith DEF Frames
  <2>4. ASSUME Commit([model EXCEPT !.members[i].hinges = Append(s, 50)]) PROVE FrameEdited
    <3> DEFINE r == Append(s, 50)
    <3>1. r \in Seq(Int)
      BY <2>2, AppendIsSeq
    <3> HIDE DEF r
    <3>2. [model EXCEPT !.members[i].hinges = r] \in Frames
      BY <2>3, <3>1
    <3> QED  BY <2>4, <3>2, CommitIs DEF r
  <2>5. ASSUME NEW k \in DOMAIN s, Commit([model EXCEPT !.members[i].hinges = RemoveAt(s, k)]) PROVE FrameEdited
    <3> DEFINE r == RemoveAt(s, k)
    <3>1. r \in Seq(Int)
      BY <2>2, RemoveAtIsSeq
    <3> HIDE DEF r
    <3>2. [model EXCEPT !.members[i].hinges = r] \in Frames
      BY <2>3, <3>1
    <3> QED  BY <2>5, <3>2, CommitIs DEF r
  <2>6. ASSUME NEW k \in DOMAIN s, NEW ratio \in HingeRatios, Commit([model EXCEPT !.members[i].hinges[k] = ratio])
        PROVE  FrameEdited
    <3> DEFINE r == [s EXCEPT ![k] = ratio]
    <3>1. r \in Seq(Int)
      BY <2>2, InputsAssumption, UpdateIsSeq
    <3>2. [model EXCEPT !.members[i].hinges[k] = ratio] = [model EXCEPT !.members[i].hinges = r]
      OBVIOUS
    <3> HIDE DEF r
    <3>3. [model EXCEPT !.members[i].hinges = r] \in Frames
      BY <2>3, <3>1
    <3> QED  BY <2>6, <3>2, <3>3, CommitIs
  <2> QED  BY <2>1, <2>4, <2>5, <2>6
<1>4. CASE RemoveMember
  <2>1. PICK i \in DOMAIN model.members : Commit(removeMember(model, i))
    BY <1>4 DEF RemoveMember
  <2>2. removeMember(model, i) \in Frames
    BY RemoveMemberIs DEF Frames
  <2> QED  BY <2>1, <2>2, CommitIs
<1> QED  BY <1>1, <1>2, <1>3, <1>4

LEMMA DraftedIs ==
  ASSUME model \in Frames, NEW s, NEW T, s \in Seq(T)
  PROVE  createFrameLoadDraft(Len(s), model) \in LoadOf(LoadTypes)
<1>1. Len(s) \in Nat
  OBVIOUS
<1>2. model \in Plane(FrameNode, LoadTypes) /\ Named(FrameNode)
  BY FrameNames
<1> QED  BY <1>1, <1>2, FrameDraftIs

LEMMA LoadEdits ==
  ASSUME model \in Frames, AddLoad \/ UpdateLoad \/ RemoveLoad
  PROVE  FrameEdited
<1>1. CASE AddLoad
  <2> DEFINE x == createFrameLoadDraft(Len(model.loads), model)
  <2>1. Commit([model EXCEPT !.loads = Append(model.loads, x)])
    BY <1>1 DEF AddLoad
  <2>2. model.loads \in Seq(LoadOf(LoadTypes))
    BY PlaneFields DEF Frames
  <2>3. x \in LoadOf(LoadTypes)
    BY <2>2, DraftedIs
  <2> HIDE DEF x
  <2>4. [model EXCEPT !.loads = Append(model.loads, x)] \in Frames
    BY <2>3, LoadAdded DEF Frames
  <2> QED  BY <2>1, <2>4, CommitIs
<1>2. CASE UpdateLoad
  <2>1. PICK i \in DOMAIN model.loads : \E load \in Edited(model.loads[i]) : Commit([model EXCEPT !.loads[i] = load])
    BY <1>2 DEF UpdateLoad
  <2>2. PICK load \in Edited(model.loads[i]) : Commit([model EXCEPT !.loads[i] = load])
    BY <2>1
  <2>3. model.loads \in Seq(LoadOf(LoadTypes))
    BY PlaneFields DEF Frames
  <2>4. model.loads[i] \in LoadOf(LoadTypes)
    BY <2>3
  <2>5. load \in LoadOf(LoadTypes)
    BY <2>4, EditedIs
  <2>6. [model EXCEPT !.loads[i] = load] \in Frames
    BY <2>5, LoadPlaced DEF Frames
  <2> QED  BY <2>2, <2>6, CommitIs
<1>3. CASE RemoveLoad
  <2>1. PICK i \in DOMAIN model.loads : Commit([model EXCEPT !.loads = RemoveAt(model.loads, i)])
    BY <1>3 DEF RemoveLoad
  <2>2. [model EXCEPT !.loads = RemoveAt(model.loads, i)] \in Frames
    BY LoadRemoved DEF Frames
  <2> QED  BY <2>1, <2>2, CommitIs
<1> QED  BY <1>1, <1>2, <1>3

LEMMA CaseEdits ==
  ASSUME model \in Frames, AddCase \/ RenameCase \/ RemoveCase \/ EditCaseLoads
  PROVE  FrameEdited
<1>1. CASE AddCase
  <2> DEFINE x == [id |-> nextFrameDraftId("LC", Ids(model.cases)), loads |-> <<createFrameLoadDraft(0, model)>>]
  <2>1. Commit([model EXCEPT !.cases = Append(model.cases, x)])
    BY <1>1 DEF AddCase
  <2>2. createFrameLoadDraft(0, model) \in LoadOf(LoadTypes)
    BY FrameNames, FrameDraftIs
  <2>3. x \in CaseOf(LoadTypes)
    BY <2>2, CaseDrafted DEF Frames
  <2> HIDE DEF x
  <2>4. [model EXCEPT !.cases = Append(model.cases, x)] \in Frames
    BY <2>3, CaseAdded DEF Frames
  <2> QED  BY <2>1, <2>4, CommitIs
<1>2. CASE RenameCase
  <2>1. PICK i \in DOMAIN model.cases, new \in NewNames :
          CommitRename(renameCase(model, i, new), new, Ids(model.cases))
    BY <1>2 DEF RenameCase
  <2>2. new \in Identifier
    BY InputsAssumption
  <2>3. renameCase(model, i, new) \in Frames
    BY <2>2, RenameCaseIs DEF Frames
  <2> QED  BY <2>1, <2>3, CommitRenameIs
<1>3. CASE RemoveCase
  <2>1. PICK i \in DOMAIN model.cases : Commit(removeCase(model, i))
    BY <1>3 DEF RemoveCase
  <2>2. removeCase(model, i) \in Frames
    BY RemoveCaseIs DEF Frames
  <2> QED  BY <2>1, <2>2, CommitIs
<1>4. CASE EditCaseLoads
  <2>1. PICK i \in DOMAIN model.cases :
          \/ Commit([model EXCEPT !.cases[i].loads =
               Append(model.cases[i].loads, createFrameLoadDraft(Len(model.cases[i].loads), model))])
          \/ \E k \in DOMAIN model.cases[i].loads :
               \/ Commit([model EXCEPT !.cases[i].loads = RemoveAt(model.cases[i].loads, k)])
               \/ \E load \in Edited(model.cases[i].loads[k]) : Commit([model EXCEPT !.cases[i].loads[k] = load])
    BY <1>4 DEF EditCaseLoads
  <2> DEFINE s == model.cases[i].loads
  <2>2. s \in Seq(LoadOf(LoadTypes))
    BY CaseLoadsAre DEF Frames
  <2>3. ASSUME Commit([model EXCEPT !.cases[i].loads = Append(s, createFrameLoadDraft(Len(s), model))])
        PROVE  FrameEdited
    <3> DEFINE x == createFrameLoadDraft(Len(s), model)
    <3>1. x \in LoadOf(LoadTypes)
      <4> HIDE DEF s
      <4> QED  BY <2>2, DraftedIs
    <3> HIDE DEF x
    <3>2. [model EXCEPT !.cases[i].loads = Append(model.cases[i].loads, x)] \in Frames
      BY <3>1, CaseLoadsEdited DEF Frames
    <3> QED  BY <2>3, <3>2, CommitIs DEF x
  <2>4. ASSUME NEW k \in DOMAIN s, Commit([model EXCEPT !.cases[i].loads = RemoveAt(s, k)]) PROVE FrameEdited
    <3>1. [model EXCEPT !.cases[i].loads = RemoveAt(model.cases[i].loads, k)] \in Frames
      BY CaseLoadRemoved DEF Frames
    <3> QED  BY <2>4, <3>1, CommitIs
  <2>5. ASSUME NEW k \in DOMAIN s, NEW load \in Edited(s[k]), Commit([model EXCEPT !.cases[i].loads[k] = load])
        PROVE  FrameEdited
    <3>1. s[k] \in LoadOf(LoadTypes)
      BY <2>2
    <3>2. load \in LoadOf(LoadTypes)
      BY <3>1, EditedIs
    <3>3. [model EXCEPT !.cases[i].loads[k] = load] \in Frames
      BY <3>2, CaseLoadsEdited DEF Frames
    <3> QED  BY <2>5, <3>3, CommitIs
  <2> QED  BY <2>1, <2>3, <2>4, <2>5
<1> QED  BY <1>1, <1>2, <1>3, <1>4

(* What is done to the combinations of a model. *)
LEMMA CombinationAdded ==
  ASSUME NEW Node, NEW types, NEW m \in Plane(Node, types)
  PROVE  [m EXCEPT !.combinations = Append(m.combinations,
            [id |-> nextFrameDraftId("COMB", Ids(m.combinations)), factors |-> [id \in Ids(m.cases) |-> 1]])]
           \in Plane(Node, types)
<1> DEFINE s == Append(m.combinations,
            [id |-> nextFrameDraftId("COMB", Ids(m.combinations)), factors |-> [id \in Ids(m.cases) |-> 1]])
           C == Ids(m.cases)
<1>1. m.combinations \in Seq(Combination) /\ m.cases \in Seq(CaseOf(types))
  BY PlaneFields
<1>2. C \in SUBSET Identifier
  BY <1>1, IdsAreIdentifiers, CasesAreNamed
<1>3. s \in Seq(Combination)
  <2> HIDE DEF C
  <2>1. Append(m.combinations,
            [id |-> nextFrameDraftId("COMB", Ids(m.combinations)), factors |-> [id \in C |-> 1]]) \in Seq(Combination)
    BY <1>1, <1>2, CombinationDrafted
  <2> QED  BY <2>1 DEF C
<1> HIDE DEF s
<1>4. [m EXCEPT !.combinations = s] \in Plane(Node, types)
  BY <1>3, PlaneWith
<1> QED  BY <1>4 DEF s

LEMMA CombinationEdited ==
  ASSUME NEW Node, NEW types, NEW m \in Plane(Node, types), NEW i \in DOMAIN m.combinations
  PROVE  /\ [m EXCEPT !.combinations = RemoveAt(m.combinations, i)] \in Plane(Node, types)
         /\ \A new \in Identifier : [m EXCEPT !.combinations[i].id = new] \in Plane(Node, types)
         /\ \A id \in Identifier, factor \in {0, 1} :
              [m EXCEPT !.combinations[i].factors = withFactor(m.combinations[i].factors, id, factor)] \in Plane(Node, types)
<1>1. m.combinations \in Seq(Combination)
  BY PlaneFields
<1>2. [m EXCEPT !.combinations = RemoveAt(m.combinations, i)] \in Plane(Node, types)
  <2> DEFINE s == RemoveAt(m.combinations, i)
  <2>1. s \in Seq(Combination)
    BY <1>1, RemoveAtIsSeq
  <2> HIDE DEF s
  <2>2. [m EXCEPT !.combinations = s] \in Plane(Node, types)
    BY <2>1, PlaneWith
  <2> QED  BY <2>2 DEF s
<1>3. ASSUME NEW new \in Identifier PROVE [m EXCEPT !.combinations[i].id = new] \in Plane(Node, types)
  <2> DEFINE s == [m.combinations EXCEPT ![i].id = new]
  <2>1. s \in Seq(Combination)
    BY <1>1, CombinationRenamed
  <2>2. [m EXCEPT !.combinations[i].id = new] = [m EXCEPT !.combinations = s]
    OBVIOUS
  <2> HIDE DEF s
  <2>3. [m EXCEPT !.combinations = s] \in Plane(Node, types)
    BY <2>1, PlaneWith
  <2> QED  BY <2>2, <2>3
<1>4. ASSUME NEW id \in Identifier, NEW factor \in {0, 1}
      PROVE  [m EXCEPT !.combinations[i].factors = withFactor(m.combinations[i].factors, id, factor)] \in Plane(Node, types)
  <2> DEFINE s == [m.combinations EXCEPT ![i].factors = withFactor(m.combinations[i].factors, id, factor)]
  <2>1. s \in Seq(Combination)
    BY <1>1, FactorIsSet
  <2>2. [m EXCEPT !.combinations[i].factors = withFactor(m.combinations[i].factors, id, factor)] = [m EXCEPT !.combinations = s]
    OBVIOUS
  <2> HIDE DEF s
  <2>3. [m EXCEPT !.combinations = s] \in Plane(Node, types)
    BY <2>1, PlaneWith
  <2> QED  BY <2>2, <2>3
<1> QED  BY <1>2, <1>3, <1>4

LEMMA CombinationEdits ==
  ASSUME model \in Frames, AddCombination \/ RenameCombination \/ SetFactor \/ RemoveCombination
  PROVE  FrameEdited
<1>1. CASE AddCombination
  <2>1. Commit([model EXCEPT !.combinations = Append(model.combinations,
            [id |-> nextFrameDraftId("COMB", Ids(model.combinations)), factors |-> [id \in Ids(model.cases) |-> 1]])])
    BY <1>1 DEF AddCombination
  <2>2. [model EXCEPT !.combinations = Append(model.combinations,
            [id |-> nextFrameDraftId("COMB", Ids(model.combinations)), factors |-> [id \in Ids(model.cases) |-> 1]])] \in Frames
    BY CombinationAdded DEF Frames
  <2> QED  BY <2>1, <2>2, CommitIs
<1>2. CASE RenameCombination
  <2>1. PICK i \in DOMAIN model.combinations, new \in NewNames : Commit([model EXCEPT !.combinations[i].id = new])
    BY <1>2 DEF RenameCombination
  <2>2. new \in Identifier
    BY InputsAssumption
  <2>3. [model EXCEPT !.combinations[i].id = new] \in Frames
    BY <2>2, CombinationEdited DEF Frames
  <2> QED  BY <2>1, <2>3, CommitIs
<1>3. CASE SetFactor
  <2>1. PICK i \in DOMAIN model.combinations, id \in Ids(model.cases), factor \in {0, 1} :
          Commit([model EXCEPT !.combinations[i].factors = withFactor(model.combinations[i].factors, id, factor)])
    BY <1>3 DEF SetFactor
  <2>2. id \in Identifier
    BY FrameNames
  <2>3. [model EXCEPT !.combinations[i].factors = withFactor(model.combinations[i].factors, id, factor)] \in Frames
    BY <2>2, CombinationEdited DEF Frames
  <2> QED  BY <2>1, <2>3, CommitIs
<1>4. CASE RemoveCombination
  <2>1. PICK i \in DOMAIN model.combinations : Commit([model EXCEPT !.combinations = RemoveAt(model.combinations, i)])
    BY <1>4 DEF RemoveCombination
  <2>2. [model EXCEPT !.combinations = RemoveAt(model.combinations, i)] \in Frames
    BY CombinationEdited DEF Frames
  <2> QED  BY <2>1, <2>2, CommitIs
<1> QED  BY <1>1, <1>2, <1>3, <1>4

LEMMA SelectionEdits ==
  ASSUME model \in Frames, DeleteSelections \/ Copy \/ Mirror \/ Array
  PROVE  FrameEdited
<1>1. model \in Plane(FrameNode, LoadTypes) /\ Named(FrameNode)
  BY FrameNames
<1>2. CASE DeleteSelections
  <2>1. PICK nodeIds \in Selections(Ids(model.nodes)), memberIds \in Selections(Ids(model.members)),
             loads \in Selections(DOMAIN model.loads) :
          Commit(deleteSelections(model, nodeIds, memberIds, loads))
    BY <1>2 DEF DeleteSelections
  <2>2. deleteSelections(model, nodeIds, memberIds, loads) \in Frames
    BY <1>1, DeleteSelectionsIs DEF Frames
  <2> QED  BY <2>1, <2>2, CommitIs
<1>3. CASE Copy
  <2>1. PICK target \in Targets(model) : Commit(copyOnce(model, target[1], target[2], 1))
    BY <1>3 DEF Copy
  <2>2. copyOnce(model, target[1], target[2], 1) \in Frames
    BY <1>1, CopyOnceIs DEF Frames
  <2> QED  BY <2>1, <2>2, CommitIs
<1>4. CASE Mirror
  <2>1. PICK target \in Targets(model), axis \in {"x", "y"} :
          Commit(mirrored(copyOnce(model, target[1], target[2], 1), Len(model.nodes), axis))
    BY <1>4 DEF Mirror
  <2> DEFINE next == copyOnce(model, target[1], target[2], 1)
  <2>2. next \in Frames
    BY <1>1, CopyOnceIs DEF Frames
  <2> HIDE DEF next
  <2>3. mirrored(next, Len(model.nodes), axis) \in Frames
    BY <2>2, MirroredIs
  <2> QED  BY <2>1, <2>3, CommitIs DEF next
<1>5. CASE Array
  <2>1. PICK target \in Targets(model) :
          LET once == copyOnce(model, target[1], target[2], 1)
          IN Commit(IF ArrayCount = 1 THEN once ELSE copyOnce(once, target[1], target[2], 2))
    BY <1>5 DEF Array
  <2> DEFINE once == copyOnce(model, target[1], target[2], 1)
             twice == copyOnce(once, target[1], target[2], 2)
  <2>2. once \in Frames /\ twice \in Frames
    BY <1>1, ArrayedIs DEF Frames
  <2>3. Commit(IF ArrayCount = 1 THEN once ELSE twice)
    BY <2>1
  <2> HIDE DEF once, twice
  <2> QED  BY <2>2, <2>3, CommitIs
<1> QED  BY <1>2, <1>3, <1>4, <1>5

(* The frame step. *)
LEMMA FrameSteps ==
  ASSUME model \in Frames, Next
  PROVE  FrameEdited
BY WholeFrames, NodeEdits, HeldEdits, ConnectingEdits, MemberEdits, LoadEdits, CaseEdits, CombinationEdits,
   SelectionEdits DEF Next

----------------------------------------------------------------------------
(* Every edit of a truss commits a truss. *)

TrussEdited == \E next \in Trusses : updateTrussWorkspace(next)

LEMMA TrussCommitIs ==
  ASSUME NEW next \in Trusses, trussCommit(next)
  PROVE  TrussEdited
BY DEF trussCommit, TrussEdited

LEMMA TrussRenameIs ==
  ASSUME NEW next \in Trusses, NEW new, NEW used, trussRename(next, new, used)
  PROVE  TrussEdited
BY DEF trussRename, TrussEdited

LEMMA TrussNames ==
  ASSUME NEW m \in Trusses
  PROVE  /\ m \in Plane(TrussNode, TrussTypes) /\ Named(TrussNode)
         /\ m.nodes \in Seq(TrussNode) /\ m.members \in Seq(Member)
         /\ Ids(m.nodes) \subseteq Identifier /\ Ids(m.members) \subseteq Identifier
         /\ Ids(m.cases) \subseteq Identifier
<1>1. m.members \in Seq(Member) /\ m.nodes \in Seq(TrussNode) /\ m.cases \in Seq(CaseOf(TrussTypes))
  BY PlaneFields DEF Trusses
<1>2. Ids(m.nodes) \subseteq Identifier /\ Ids(m.members) \subseteq Identifier /\ Ids(m.cases) \subseteq Identifier
  BY <1>1, IdsAreIdentifiers, MembersAreNamed, TrussNodesAreNamed, CasesAreNamed
<1> QED  BY <1>1, <1>2, TrussNodesAreNamed DEF Trusses

LEMMA TrussTypesAre == "nodal" \in TrussTypes /\ "distributed" \in TrussTypes /\ "temperature" \in TrussTypes
BY DEF TrussTypes, SpreadTypes

LEMMA TrussNodeDraftIs ==
  ASSUME NEW m \in Trusses
  PROVE  createTrussNodeDraft(m) \in TrussNode /\ createTrussNodeDraft(m).id \in Identifier
<1> DEFINE id == nextFrameDraftId("N", Ids(m.nodes))
           support == CASE Len(m.nodes) = 0 -> "pinned" [] Len(m.nodes) = 1 -> "roller" [] OTHER -> "free"
<1>1. IsFiniteSet(Ids(m.nodes)) /\ Ids(m.nodes) \in SUBSET Identifier
  BY TrussNames, IdsAreFinite
<1>2. id \in Identifier
  BY <1>1, LiteralsAreText, NextDraftIsFree
<1>3. support \in {"pinned", "roller", "free"}
  OBVIOUS
<1>4. createTrussNodeDraft(m) = [id |-> id, support |-> support]
  BY DEF createTrussNodeDraft
<1> HIDE DEF id, support
<1> QED  BY <1>2, <1>3, <1>4 DEF TrussNode

LEMMA TrussDraftsAre ==
  ASSUME NEW m \in Trusses, NEW id \in Identifier
  PROVE  /\ createTrussNodalLoadDraft(m) \in LoadOf(TrussTypes)
         /\ createTrussMemberLoadDraft(m, id) \in LoadOf(TrussTypes)
         /\ createTrussTemperatureLoadDraft(m, id) \in LoadOf(TrussTypes)
<1> DEFINE node == FirstOr(m.nodes, Draft("N", 1))
           member == preferredMember(m, id)
<1>1. 1 \in Int
  OBVIOUS
<1>2. Draft("N", 1) \in Identifier /\ Draft("M", 1) \in Identifier
  BY <1>1, DraftsAre
<1>3. node \in Identifier
  BY <1>2, TrussNames, FirstOrIs
<1>4. FirstOr(m.members, Draft("M", 1)) \in Identifier
  BY <1>2, TrussNames, MembersAreNamed, FirstOrIs
<1>5. member \in Identifier
  BY <1>4 DEF preferredMember
<1> HIDE DEF node, member
<1>6. /\ DraftLoad("nodal", node, NoId) \in LoadOf(TrussTypes)
      /\ DraftLoad("distributed", NoId, member) \in LoadOf(TrussTypes)
      /\ DraftLoad("temperature", NoId, member) \in LoadOf(TrussTypes)
  BY <1>3, <1>5, TrussTypesAre, NoIdIs, DraftLoadIs
<1> QED  BY <1>6 DEF createTrussNodalLoadDraft, createTrussMemberLoadDraft, createTrussTemperatureLoadDraft, node, member

LEMMA TrussEditedIs ==
  ASSUME NEW m \in Trusses, NEW load \in LoadOf(TrussTypes)
  PROVE  trussEdited(load, m) \subseteq LoadOf(TrussTypes)
<1>1. Ids(m.nodes) \subseteq Identifier /\ Ids(m.members) \subseteq Identifier
  BY TrussNames
<1>2. load.member \in Identifier
  BY DEF LoadOf
<1> SUFFICES ASSUME NEW new \in trussEdited(load, m)
             PROVE  new \in LoadOf(TrussTypes)
  OBVIOUS
<1>3. \/ \E id \in Identifier : new = [load EXCEPT !.node = id] \/ new = [load EXCEPT !.member = id]
      \/ new = createTrussNodalLoadDraft(m)
      \/ new = createTrussMemberLoadDraft(m, load.member)
      \/ new = createTrussTemperatureLoadDraft(m, load.member)
  BY <1>1, Zenon DEF trussEdited
<1>4. ASSUME NEW id \in Identifier, new = [load EXCEPT !.node = id] \/ new = [load EXCEPT !.member = id]
      PROVE  new \in LoadOf(TrussTypes)
  BY <1>4, LoadWith
<1> QED  BY <1>2, <1>3, <1>4, TrussDraftsAre

LEMMA BarIs ==
  ASSUME NEW stem \in {"L", "U", "V", "D"}, NEW k \in Int, NEW a \in Int, NEW b \in Int
  PROVE  [id |-> Draft(stem, k), start |-> Draft("N", a), end |-> Draft("N", b), hinges |-> <<>>] \in Member
<1> DEFINE id == Draft(stem, k)
           x == Draft("N", a)
           y == Draft("N", b)
<1>1. id \in Identifier /\ x \in Identifier /\ y \in Identifier
  BY DraftsAre
<1> HIDE DEF id, x, y
<1>2. [id |-> id, start |-> x, end |-> y, hinges |-> <<>>] \in Member
  BY <1>1 DEF Member
<1> QED  BY <1>2 DEF id, x, y

LEMMA ParallelChordTrussIs ==
  ASSUME NEW panels \in Nat \ {0}, NEW topLoad \in BOOLEAN
  PROVE  ParallelChordTruss(panels, topLoad) \in Trusses
<1> DEFINE lower(k) == Draft("N", k + 1)
           upper(k) == Draft("N", panels + 2 + k)
           bar(stem, n, a, b) == [id |-> Draft(stem, n), start |-> a, end |-> b, hinges |-> <<>>]
           inner == IF panels < 2 THEN 1 ELSE panels - 1
           support(k) == CASE k = 1 -> "pinned" [] k = panels + 1 -> "roller" [] OTHER -> "free"
           nodes == [k \in 1..2 * (panels + 1) |-> [id |-> Draft("N", k), support |-> support(k)]]
           chords == [k \in 1..2 * panels |->
             IF k % 2 = 1 THEN bar("L", (k + 1) \div 2, lower((k - 1) \div 2), lower((k + 1) \div 2))
             ELSE bar("U", k \div 2, upper(k \div 2 - 1), upper(k \div 2))]
           verticals == [k \in 1..panels + 1 |-> bar("V", k, lower(k - 1), upper(k - 1))]
           diagonals == [k \in 1..panels |-> IF k % 2 = 1 THEN bar("D", k, lower(k - 1), upper(k))
                                             ELSE bar("D", k, upper(k - 1), lower(k))]
           onTop == [k \in 1..inner |-> DraftLoad("nodal", upper(smaller(panels - 1, k)), NoId)]
           loads == IF topLoad THEN onTop ELSE <<>>
           members == chords \o verticals \o diagonals
<1>1. ParallelChordTruss(panels, topLoad) =
        [nodes |-> nodes, members |-> members, loads |-> loads, cases |-> <<>>, combinations |-> <<>>]
  BY DEF ParallelChordTruss
<1>2. panels \in Nat /\ 2 * (panels + 1) \in Nat /\ 2 * panels \in Nat /\ panels + 1 \in Nat /\ inner \in Nat
  OBVIOUS
<1>3. nodes \in Seq(TrussNode)
  <2> DEFINE f == nodes
             n == 2 * (panels + 1)
  <2>1. f = [k \in 1..n |-> f[k]] /\ \A k \in 1..n : f[k] = [id |-> Draft("N", k), support |-> support(k)]
    OBVIOUS
  <2> HIDE DEF f, n
  <2>2. ASSUME NEW k \in 1..n PROVE f[k] \in TrussNode
    <3> DEFINE id == Draft("N", k)
               held == support(k)
    <3>1. k \in Int
      BY <1>2 DEF n
    <3>2. id \in Identifier
      BY <3>1, DraftsAre
    <3>3. held \in {"pinned", "roller", "free"}
      OBVIOUS
    <3>4. f[k] = [id |-> id, support |-> held]
      BY <2>1
    <3> HIDE DEF id, held
    <3> QED  BY <3>2, <3>3, <3>4 DEF TrussNode
  <2>3. n \in Nat
    BY <1>2 DEF n
  <2>4. f \in Seq(TrussNode)
    BY <2>1, <2>2, <2>3, FromOne
  <2> QED  BY <2>4 DEF f
<1>4. chords \in Seq(Member)
  <2> DEFINE f == chords
             n == 2 * panels
  <2>1. f = [k \in 1..n |-> f[k]]
        /\ \A k \in 1..n : f[k] =
             IF k % 2 = 1 THEN bar("L", (k + 1) \div 2, lower((k - 1) \div 2), lower((k + 1) \div 2))
             ELSE bar("U", k \div 2, upper(k \div 2 - 1), upper(k \div 2))
    OBVIOUS
  <2> HIDE DEF f, n
  <2>2. ASSUME NEW k \in 1..n PROVE f[k] \in Member
    <3> DEFINE a == (k - 1) \div 2
               b == (k + 1) \div 2
               c == k \div 2
    <3>1. k \in Int
      BY <1>2 DEF n
    <3>2. a \in Int /\ b \in Int /\ c \in Int
      BY <3>1
    <3>3. f[k] = bar("L", b, lower(a), lower(b)) \/ f[k] = bar("U", c, upper(c - 1), upper(c))
      BY <2>1
    <3> HIDE DEF a, b, c
    <3>4. a + 1 \in Int /\ b + 1 \in Int /\ panels + 2 + (c - 1) \in Int /\ panels + 2 + c \in Int
      BY <1>2, <3>2
    <3>5. bar("L", b, lower(a), lower(b)) \in Member
      BY <3>2, <3>4, BarIs
    <3>6. bar("U", c, upper(c - 1), upper(c)) \in Member
      BY <3>2, <3>4, BarIs
    <3> QED  BY <3>3, <3>5, <3>6
  <2>3. n \in Nat
    BY <1>2 DEF n
  <2>4. f \in Seq(Member)
    BY <2>1, <2>2, <2>3, FromOne
  <2> QED  BY <2>4 DEF f
<1>5. verticals \in Seq(Member)
  <2> DEFINE f == verticals
             n == panels + 1
  <2>1. f = [k \in 1..n |-> f[k]] /\ \A k \in 1..n : f[k] = bar("V", k, lower(k - 1), upper(k - 1))
    OBVIOUS
  <2> HIDE DEF f, n
  <2>2. ASSUME NEW k \in 1..n PROVE f[k] \in Member
    <3>1. k \in Int /\ k - 1 + 1 \in Int /\ panels + 2 + (k - 1) \in Int
      BY <1>2 DEF n
    <3>2. bar("V", k, lower(k - 1), upper(k - 1)) \in Member
      BY <3>1, BarIs
    <3> QED  BY <2>1, <3>2
  <2>3. n \in Nat
    BY <1>2 DEF n
  <2>4. f \in Seq(Member)
    BY <2>1, <2>2, <2>3, FromOne
  <2> QED  BY <2>4 DEF f
<1>6. diagonals \in Seq(Member)
  <2> DEFINE f == diagonals
             n == panels
  <2>1. f = [k \in 1..n |-> f[k]]
        /\ \A k \in 1..n : f[k] = bar("D", k, lower(k - 1), upper(k)) \/ f[k] = bar("D", k, upper(k - 1), lower(k))
    OBVIOUS
  <2> HIDE DEF f
  <2>2. ASSUME NEW k \in 1..n PROVE f[k] \in Member
    <3>1. k \in Int /\ k - 1 + 1 \in Int /\ panels + 2 + k \in Int /\ panels + 2 + (k - 1) \in Int /\ k + 1 \in Int
      BY <1>2
    <3>2. bar("D", k, lower(k - 1), upper(k)) \in Member /\ bar("D", k, upper(k - 1), lower(k)) \in Member
      BY <3>1, BarIs
    <3> QED  BY <2>1, <3>2
  <2>3. n \in Nat
    BY <1>2
  <2>4. f \in Seq(Member)
    BY <2>1, <2>2, <2>3, FromOne
  <2> QED  BY <2>4 DEF f
<1> DEFINE L == LoadOf(TrussTypes)
<1>7. onTop \in Seq(L)
  <2> DEFINE f == onTop
             n == inner
  <2>1. f = [k \in 1..n |-> f[k]] /\ \A k \in 1..n : f[k] = DraftLoad("nodal", upper(smaller(panels - 1, k)), NoId)
    OBVIOUS
  <2> HIDE DEF f, n
  <2>2. ASSUME NEW k \in 1..n PROVE f[k] \in LoadOf(TrussTypes)
    <3>1. smaller(panels - 1, k) \in Int
      BY <1>2 DEF n, smaller
    <3> DEFINE id == upper(smaller(panels - 1, k))
    <3>2. panels + 2 + smaller(panels - 1, k) \in Int
      BY <1>2, <3>1
    <3>3. id \in Identifier
      BY <3>2, DraftsAre
    <3>4. f[k] = DraftLoad("nodal", id, NoId)
      BY <2>1
    <3> HIDE DEF id
    <3> QED  BY <3>3, <3>4, TrussTypesAre, NoIdIs, DraftLoadIs
  <2>3. n \in Nat
    BY <1>2 DEF n
  <2>4. f \in Seq(L)
    BY <2>1, <2>2, <2>3, FromOne
  <2> QED  BY <2>4 DEF f
<1> HIDE DEF nodes, chords, verticals, diagonals, onTop, L
<1>8. loads \in Seq(L)
  BY <1>7
<1>9. chords \o verticals \in Seq(Member)
  BY <1>4, <1>5, ConcatIsSeq
<1>10. members \in Seq(Member)
  BY <1>6, <1>9, ConcatIsSeq
<1> HIDE DEF loads, members
<1>11. <<>> \in Seq(CaseOf(TrussTypes)) /\ <<>> \in Seq(Combination)
  OBVIOUS
<1>12. [nodes |-> nodes, members |-> members, loads |-> loads, cases |-> <<>>, combinations |-> <<>>]
         \in Plane(TrussNode, TrussTypes)
  BY <1>3, <1>8, <1>10, <1>11, PlaneOf DEF L
<1> QED  BY <1>1, <1>12 DEF Trusses

(* A text of a truss is read as lines of one. *)
LEMMA ReadTrussLinesAre ==
  ASSUME NEW text, text.nodes \in Seq(TrussNode), text.members \in Seq(Member), text.loads \in Seq(LoadOf(TrussTypes))
  PROVE  /\ readTrussLines(text).nodes \in Seq(TrussNode)
         /\ readTrussLines(text).members \in Seq(Member)
         /\ readTrussLines(text).loads \in Seq(LoadOf(TrussTypes))
<1> DEFINE nodes == [k \in DOMAIN text.nodes |-> readTrussNode(text.nodes[k], k)]
           members == [k \in DOMAIN text.members |-> readTrussMember(text.members[k], k)]
           loads == [k \in DOMAIN text.loads |-> readTrussLoad(text.loads[k])]
           L == LoadOf(TrussTypes)
<1>1. readTrussLines(text) = [nodes |-> nodes, members |-> members, loads |-> loads]
  BY DEF readTrussLines, Each
<1>2. \A k \in Int : Draft("N", k) \in Identifier /\ Draft("M", k) \in Identifier
  BY DraftsAre
<1>3. nodes \in Seq(TrussNode)
  <2> DEFINE f == nodes
  <2>1. f = [k \in DOMAIN text.nodes |-> f[k]] /\ \A k \in DOMAIN text.nodes : f[k] = readTrussNode(text.nodes[k], k)
    OBVIOUS
  <2> HIDE DEF f
  <2>2. ASSUME NEW k \in DOMAIN text.nodes PROVE f[k] \in TrussNode
    <3> DEFINE x == text.nodes[k]
               id == token(words(x.id), 1, Draft("N", k))
               support == IF Len(words(x.id)) > 1 THEN "free" ELSE x.support
    <3>1. x \in TrussNode /\ k \in Int
      OBVIOUS
    <3> HIDE DEF x
    <3>2. x.id \in Identifier /\ support \in {"pinned", "roller", "free"}
      BY <3>1 DEF TrussNode
    <3>3. id \in Identifier
      BY <1>2, <3>1, <3>2, FirstWordIs
    <3>4. f[k] = [id |-> id, support |-> support]
      BY <2>1 DEF readTrussNode, x
    <3> HIDE DEF id, support
    <3> QED  BY <3>2, <3>3, <3>4 DEF TrussNode
  <2>3. f \in Seq(TrussNode)
    BY <2>1, <2>2, MapIsSeq
  <2> QED  BY <2>3 DEF f
<1>4. members \in Seq(Member)
  <2> DEFINE f == members
  <2>1. f = [k \in DOMAIN text.members |-> f[k]]
        /\ \A k \in DOMAIN text.members : f[k] = readTrussMember(text.members[k], k)
    OBVIOUS
  <2> HIDE DEF f
  <2>2. ASSUME NEW k \in DOMAIN text.members PROVE f[k] \in Member
    <3> DEFINE x == text.members[k]
               said == splitTextModelTokens(<<x.id, x.start, x.end>>)
               a == token(said, 1, Draft("M", k))
               b == token(said, 2, Draft("N", 1))
               c == token(said, 3, Draft("N", 2))
    <3>1. x \in Member /\ k \in Int
      OBVIOUS
    <3> HIDE DEF x
    <3>2. said \in Seq(Identifier)
      <4>1. x.id \in Identifier /\ x.start \in Identifier /\ x.end \in Identifier
        BY <3>1 DEF Member
      <4>2. <<x.id, x.start, x.end>> \in Seq(Identifier)
        BY <4>1
      <4> QED  BY <4>2, SplitIs
    <3>3. a \in Identifier /\ b \in Identifier /\ c \in Identifier
      <4> HIDE DEF said
      <4> QED  BY <1>2, <3>1, <3>2, TokenIs
    <3>4. f[k] = [x EXCEPT !.id = a, !.start = b, !.end = c]
      BY <2>1 DEF readTrussMember, x
    <3> HIDE DEF a, b, c
    <3> QED  BY <3>1, <3>3, <3>4 DEF Member
  <2>3. f \in Seq(Member)
    BY <2>1, <2>2, MapIsSeq
  <2> QED  BY <2>3 DEF f
<1>5. loads \in Seq(L)
  <2> DEFINE f == loads
  <2>1. f = [k \in DOMAIN text.loads |-> f[k]] /\ \A k \in DOMAIN text.loads : f[k] = readTrussLoad(text.loads[k])
    OBVIOUS
  <2> HIDE DEF f
  <2>2. ASSUME NEW k \in DOMAIN text.loads PROVE f[k] \in L
    <3> DEFINE x == text.loads[k]
               a == token(words(x.node), 1, Draft("N", 1))
    <3>1. x \in L
      OBVIOUS
    <3> HIDE DEF x
    <3>2. x.node \in Identifier
      BY <3>1 DEF LoadOf
    <3>3. a \in Identifier
      BY <1>2, <3>2, FirstWordIs
    <3>4. f[k] = [x EXCEPT !.node = a]
      BY <2>1 DEF readTrussLoad, x
    <3> HIDE DEF a
    <3> QED  BY <3>1, <3>3, <3>4 DEF LoadOf
  <2>3. f \in Seq(L)
    BY <2>1, <2>2, MapIsSeq
  <2> QED  BY <2>3 DEF f
<1> HIDE DEF nodes, members, loads
<1> QED  BY <1>1, <1>3, <1>4, <1>5

LEMMA WholeTrusses ==
  ASSUME model \in Trusses, TrussTemplate \/ TrussQuickModel \/ TrussImportText
  PROVE  TrussEdited
<1>1. CASE TrussTemplate
  <2>1. PICK template \in TrussTemplates : trussCommit(template)
    BY <1>1 DEF TrussTemplate
  <2>2. template \in Trusses
    BY TrussTemplatesAssumption, ModelIsPlane DEF IsTruss, Trusses, TrussTypes
  <2> QED  BY <2>1, <2>2, TrussCommitIs
<1>2. CASE TrussQuickModel
  <2>1. PICK panels \in PanelCounts, topLoad \in BOOLEAN : trussCommit(ParallelChordTruss(panels, topLoad))
    BY <1>2 DEF TrussQuickModel
  <2>2. panels \in Nat \ {0}
    BY PanelsAssumption
  <2>3. ParallelChordTruss(panels, topLoad) \in Trusses
    BY <2>2, ParallelChordTrussIs
  <2> QED  BY <2>1, <2>3, TrussCommitIs
<1>3. CASE TrussImportText
  <2> DEFINE text == serializeTrussTextModel(model)
             loads == Where(model.loads, {load \in Elements(model.loads) : load.type = "nodal"})
             read == readTrussLines(text)
             m1 == [model EXCEPT !.nodes = read.nodes]
             m2 == [m1 EXCEPT !.members = read.members]
             m3 == [m2 EXCEPT !.loads = read.loads]
  <2>1. trussCommit(parseTrussTextModel(text, model))
    BY <1>3 DEF TrussImportText
  <2>2. parseTrussTextModel(text, model) = m3
    BY DEF parseTrussTextModel, Trusses, Plane
  <2>3. text.nodes = model.nodes /\ text.members = model.members /\ text.loads = loads
    BY DEF serializeTrussTextModel
  <2> HIDE DEF text
  <2>4. /\ model \in Plane(TrussNode, TrussTypes)
        /\ model.nodes \in Seq(TrussNode) /\ model.members \in Seq(Member) /\ model.loads \in Seq(LoadOf(TrussTypes))
    BY PlaneFields DEF Trusses
  <2>5. loads \in Seq(LoadOf(TrussTypes))
    BY <2>4, WhereIsSeq
  <2> HIDE DEF loads
  <2>6. read.nodes \in Seq(TrussNode) /\ read.members \in Seq(Member) /\ read.loads \in Seq(LoadOf(TrussTypes))
    BY <2>3, <2>4, <2>5, ReadTrussLinesAre
  <2> HIDE DEF read
  <2>7. m1 \in Plane(TrussNode, TrussTypes)
    BY <2>4, <2>6, PlaneWith
  <2> HIDE DEF m1
  <2>8. m2 \in Plane(TrussNode, TrussTypes)
    BY <2>6, <2>7, PlaneWith
  <2> HIDE DEF m2
  <2>9. m3 \in Plane(TrussNode, TrussTypes)
    BY <2>6, <2>8, PlaneWith
  <2> HIDE DEF m3
  <2> QED  BY <2>1, <2>2, <2>9, TrussCommitIs DEF Trusses
<1> QED  BY <1>1, <1>2, <1>3

LEMMA TrussNodeEdits ==
  ASSUME model \in Trusses,
         TrussAddNode \/ TrussAddConnectedNode \/ TrussConnect \/ TrussRenameNode \/ TrussSetSupport \/ TrussRemoveNode
  PROVE  TrussEdited
<1>1. model \in Plane(TrussNode, TrussTypes) /\ Named(TrussNode) /\ Ids(model.nodes) \subseteq Identifier
  BY TrussNames
<1>2. CASE TrussAddNode
  <2> DEFINE x == createTrussNodeDraft(model)
  <2>1. trussCommit([model EXCEPT !.nodes = Append(model.nodes, x)])
    BY <1>2 DEF TrussAddNode
  <2>2. x \in TrussNode
    BY TrussNodeDraftIs
  <2> HIDE DEF x
  <2>3. [model EXCEPT !.nodes = Append(model.nodes, x)] \in Trusses
    BY <2>2, NodeAdded DEF Trusses
  <2> QED  BY <2>1, <2>3, TrussCommitIs
<1>3. CASE TrussAddConnectedNode
  <2> DEFINE new == createTrussNodeDraft(model)
             next == [model EXCEPT !.nodes = Append(model.nodes, new)]
  <2>1. \/ trussCommit(next)
        \/ \E a \in Ids(model.nodes) :
             trussCommit(IF trussMemberExists(model, a, new.id) THEN next
                         ELSE createConnectedTrussMember(next, a, new.id))
    BY <1>3 DEF TrussAddConnectedNode
  <2>2. new \in TrussNode /\ new.id \in Identifier
    BY TrussNodeDraftIs
  <2> HIDE DEF new
  <2>3. next \in Trusses
    BY <2>2, NodeAdded DEF Trusses
  <2> HIDE DEF next
  <2>4. ASSUME NEW a \in Ids(model.nodes),
               trussCommit(IF trussMemberExists(model, a, new.id) THEN next
                           ELSE createConnectedTrussMember(next, a, new.id))
        PROVE  TrussEdited
    <3> DEFINE r == IF trussMemberExists(model, a, new.id) THEN next
                    ELSE createConnectedTrussMember(next, a, new.id)
    <3>1. a \in Identifier
      BY <1>1
    <3>2. createConnectedTrussMember(next, a, new.id) \in Trusses
      BY <2>2, <2>3, <3>1, LiteralsAreText, MemberAdded DEF createConnectedTrussMember, Trusses
    <3>3. r \in Trusses
      BY <2>3, <3>2
    <3> HIDE DEF r
    <3> QED  BY <2>4, <3>3, TrussCommitIs DEF r
  <2> QED  BY <2>1, <2>3, <2>4, TrussCommitIs
<1>4. CASE TrussConnect
  <2>1. PICK a \in Ids(model.nodes), b \in Ids(model.nodes) : trussCommit(createConnectedTrussMember(model, a, b))
    BY <1>4 DEF TrussConnect
  <2>2. a \in Identifier /\ b \in Identifier
    BY <1>1
  <2>3. createConnectedTrussMember(model, a, b) \in Trusses
    BY <2>2, LiteralsAreText, MemberAdded DEF createConnectedTrussMember, Trusses
  <2> QED  BY <2>1, <2>3, TrussCommitIs
<1>5. CASE TrussRenameNode
  <2>1. PICK i \in DOMAIN model.nodes, new \in NewNames :
          trussRename(updateTrussNodeCollections(model, i, new), new, Ids(model.nodes))
    BY <1>5 DEF TrussRenameNode
  <2>2. new \in Identifier
    BY InputsAssumption
  <2>3. updateTrussNodeCollections(model, i, new) \in Trusses
    BY <1>1, <2>2, RenameNodeIs DEF Trusses, updateTrussNodeCollections
  <2> QED  BY <2>1, <2>3, TrussRenameIs
<1>6. CASE TrussSetSupport
  <2>1. PICK i \in DOMAIN model.nodes, support \in {"pinned", "roller", "free"} :
          trussCommit([model EXCEPT !.nodes[i].support = support])
    BY <1>6 DEF TrussSetSupport
  <2> DEFINE x == [model.nodes[i] EXCEPT !.support = support]
  <2>2. model.nodes \in Seq(TrussNode)
    BY TrussNames
  <2>3. model.nodes[i] \in TrussNode
    BY <2>2
  <2>4. x \in TrussNode
    BY <2>3 DEF TrussNode
  <2>5. [model EXCEPT !.nodes[i].support = support] = [model EXCEPT !.nodes[i] = x]
    OBVIOUS
  <2> HIDE DEF x
  <2>6. [model EXCEPT !.nodes[i] = x] \in Trusses
    BY <2>4, NodePlaced DEF Trusses
  <2> QED  BY <2>1, <2>5, <2>6, TrussCommitIs
<1>7. CASE TrussRemoveNode
  <2>1. PICK i \in DOMAIN model.nodes : trussCommit(removeTrussNodeCollections(model, i))
    BY <1>7 DEF TrussRemoveNode
  <2>2. removeTrussNodeCollections(model, i) \in Trusses
    BY RemoveNodeIs DEF Trusses, removeTrussNodeCollections
  <2> QED  BY <2>1, <2>2, TrussCommitIs
<1> QED  BY <1>2, <1>3, <1>4, <1>5, <1>6, <1>7

LEMMA TrussMemberEdits ==
  ASSUME model \in Trusses, TrussRenameMember \/ TrussMoveMember \/ TrussRemoveMember
  PROVE  TrussEdited
<1>1. CASE TrussRenameMember
  <2>1. PICK i \in DOMAIN model.members, new \in NewNames :
          trussRename(updateTrussMemberCollections(model, i, new), new, Ids(model.members))
    BY <1>1 DEF TrussRenameMember
  <2>2. new \in Identifier
    BY InputsAssumption
  <2>3. updateTrussMemberCollections(model, i, new) \in Trusses
    BY <2>2, RenameMemberIs DEF Trusses, updateTrussMemberCollections
  <2> QED  BY <2>1, <2>3, TrussRenameIs
<1>2. CASE TrussMoveMember
  <2>1. PICK i \in DOMAIN model.members, id \in Ids(model.nodes) :
          \/ trussCommit([model EXCEPT !.members[i].start = id])
          \/ trussCommit([model EXCEPT !.members[i].end = id])
    BY <1>2 DEF TrussMoveMember
  <2>2. id \in Identifier /\ <<>> \in Seq(Int)
    BY TrussNames
  <2>3. [model EXCEPT !.members[i].start = id] \in Trusses /\ [model EXCEPT !.members[i].end = id] \in Trusses
    BY <2>2, MemberWith DEF Trusses
  <2> QED  BY <2>1, <2>3, TrussCommitIs
<1>3. CASE TrussRemoveMember
  <2>1. PICK i \in DOMAIN model.members : trussCommit(removeTrussMemberCollections(model, i))
    BY <1>3 DEF TrussRemoveMember
  <2>2. removeTrussMemberCollections(model, i) \in Trusses
    BY RemoveMemberIs DEF Trusses, removeTrussMemberCollections
  <2> QED  BY <2>1, <2>2, TrussCommitIs
<1> QED  BY <1>1, <1>2, <1>3

LEMMA TrussLoadEdits ==
  ASSUME model \in Trusses, TrussAddNodalLoad \/ TrussAddMemberLoad \/ TrussUpdateLoad \/ TrussRemoveLoad
  PROVE  TrussEdited
<1>1. ASSUME NEW x \in LoadOf(TrussTypes), trussCommit([model EXCEPT !.loads = Append(model.loads, x)])
      PROVE  TrussEdited
  <2>1. [model EXCEPT !.loads = Append(model.loads, x)] \in Trusses
    BY LoadAdded DEF Trusses
  <2> QED  BY <1>1, <2>1, TrussCommitIs
<1>2. CASE TrussAddNodalLoad
  <2>1. trussCommit([model EXCEPT !.loads = Append(model.loads, createTrussNodalLoadDraft(model))])
    BY <1>2 DEF TrussAddNodalLoad
  <2>2. createTrussNodalLoadDraft(model) \in LoadOf(TrussTypes)
    BY NoIdIs, TrussDraftsAre
  <2> QED  BY <1>1, <2>1, <2>2
<1>3. CASE TrussAddMemberLoad
  <2>1. PICK id \in Ids(model.members) :
          trussCommit([model EXCEPT !.loads = Append(model.loads, createTrussMemberLoadDraft(model, id))])
    BY <1>3 DEF TrussAddMemberLoad
  <2>2. id \in Identifier
    BY TrussNames
  <2>3. createTrussMemberLoadDraft(model, id) \in LoadOf(TrussTypes)
    BY <2>2, TrussDraftsAre
  <2> QED  BY <1>1, <2>1, <2>3
<1>4. CASE TrussUpdateLoad
  <2>1. PICK i \in DOMAIN model.loads : \E load \in trussEdited(model.loads[i], model) :
          trussCommit([model EXCEPT !.loads[i] = load])
    BY <1>4 DEF TrussUpdateLoad
  <2>2. PICK load \in trussEdited(model.loads[i], model) : trussCommit([model EXCEPT !.loads[i] = load])
    BY <2>1
  <2>3. model.loads \in Seq(LoadOf(TrussTypes))
    BY PlaneFields DEF Trusses
  <2>4. model.loads[i] \in LoadOf(TrussTypes)
    BY <2>3
  <2>5. load \in LoadOf(TrussTypes)
    BY <2>4, TrussEditedIs
  <2>6. [model EXCEPT !.loads[i] = load] \in Trusses
    BY <2>5, LoadPlaced DEF Trusses
  <2> QED  BY <2>2, <2>6, TrussCommitIs
<1>5. CASE TrussRemoveLoad
  <2>1. PICK i \in DOMAIN model.loads : trussCommit([model EXCEPT !.loads = RemoveAt(model.loads, i)])
    BY <1>5 DEF TrussRemoveLoad
  <2>2. [model EXCEPT !.loads = RemoveAt(model.loads, i)] \in Trusses
    BY LoadRemoved DEF Trusses
  <2> QED  BY <2>1, <2>2, TrussCommitIs
<1> QED  BY <1>2, <1>3, <1>4, <1>5

LEMMA TrussCaseEdits ==
  ASSUME model \in Trusses, TrussAddCase \/ TrussRenameCase \/ TrussRemoveCase \/ TrussEditCaseLoads
  PROVE  TrussEdited
<1>1. createTrussNodalLoadDraft(model) \in LoadOf(TrussTypes)
  BY NoIdIs, TrussDraftsAre
<1>2. CASE TrussAddCase
  <2> DEFINE x == [id |-> nextFrameDraftId("LC", Ids(model.cases)), loads |-> <<createTrussNodalLoadDraft(model)>>]
  <2>1. trussCommit([model EXCEPT !.cases = Append(model.cases, x)])
    BY <1>2 DEF TrussAddCase
  <2>2. x \in CaseOf(TrussTypes)
    BY <1>1, CaseDrafted DEF Trusses
  <2> HIDE DEF x
  <2>3. [model EXCEPT !.cases = Append(model.cases, x)] \in Trusses
    BY <2>2, CaseAdded DEF Trusses
  <2> QED  BY <2>1, <2>3, TrussCommitIs
<1>3. CASE TrussRenameCase
  <2>1. PICK i \in DOMAIN model.cases, new \in NewNames :
          trussRename(updateTrussLoadCaseCollections(model, i, new), new, Ids(model.cases))
    BY <1>3 DEF TrussRenameCase
  <2>2. new \in Identifier
    BY InputsAssumption
  <2>3. updateTrussLoadCaseCollections(model, i, new) \in Trusses
    BY <2>2, RenameCaseIs DEF Trusses, updateTrussLoadCaseCollections
  <2> QED  BY <2>1, <2>3, TrussRenameIs
<1>4. CASE TrussRemoveCase
  <2>1. PICK i \in DOMAIN model.cases : trussCommit(removeTrussLoadCaseCollections(model, i))
    BY <1>4 DEF TrussRemoveCase
  <2>2. removeTrussLoadCaseCollections(model, i) \in Trusses
    BY RemoveCaseIs DEF Trusses, removeTrussLoadCaseCollections
  <2> QED  BY <2>1, <2>2, TrussCommitIs
<1>5. CASE TrussEditCaseLoads
  <2>1. PICK i \in DOMAIN model.cases :
          \/ trussCommit([model EXCEPT !.cases[i].loads = Append(model.cases[i].loads, createTrussNodalLoadDraft(model))])
          \/ \E k \in DOMAIN model.cases[i].loads :
               \/ trussCommit([model EXCEPT !.cases[i].loads = RemoveAt(model.cases[i].loads, k)])
               \/ \E load \in trussEdited(model.cases[i].loads[k], model) :
                    trussCommit([model EXCEPT !.cases[i].loads[k] = load])
    BY <1>5 DEF TrussEditCaseLoads
  <2> DEFINE s == model.cases[i].loads
             x == createTrussNodalLoadDraft(model)
  <2>2. s \in Seq(LoadOf(TrussTypes))
    BY CaseLoadsAre DEF Trusses
  <2>3. ASSUME trussCommit([model EXCEPT !.cases[i].loads = Append(s, x)])
        PROVE  TrussEdited
    <3> HIDE DEF x
    <3>1. [model EXCEPT !.cases[i].loads = Append(model.cases[i].loads, x)] \in Trusses
      BY <1>1, CaseLoadsEdited DEF Trusses, x
    <3> QED  BY <2>3, <3>1, TrussCommitIs
  <2>4. ASSUME NEW k \in DOMAIN s, trussCommit([model EXCEPT !.cases[i].loads = RemoveAt(s, k)]) PROVE TrussEdited
    <3>1. [model EXCEPT !.cases[i].loads = RemoveAt(model.cases[i].loads, k)] \in Trusses
      BY CaseLoadRemoved DEF Trusses
    <3> QED  BY <2>4, <3>1, TrussCommitIs
  <2>5. ASSUME NEW k \in DOMAIN s, NEW load \in trussEdited(s[k], model),
               trussCommit([model EXCEPT !.cases[i].loads[k] = load])
        PROVE  TrussEdited
    <3>1. s[k] \in LoadOf(TrussTypes)
      BY <2>2
    <3>2. load \in LoadOf(TrussTypes)
      BY <3>1, TrussEditedIs
    <3>3. [model EXCEPT !.cases[i].loads[k] = load] \in Trusses
      BY <3>2, CaseLoadsEdited DEF Trusses
    <3> QED  BY <2>5, <3>3, TrussCommitIs
  <2> QED  BY <2>1, <2>3, <2>4, <2>5
<1> QED  BY <1>2, <1>3, <1>4, <1>5

LEMMA TrussCombinationEdits ==
  ASSUME model \in Trusses, TrussAddCombination \/ TrussUpdateCombination \/ TrussRemoveCombination
  PROVE  TrussEdited
<1>1. CASE TrussAddCombination
  <2>1. trussCommit([model EXCEPT !.combinations = Append(model.combinations,
            [id |-> nextFrameDraftId("COMB", Ids(model.combinations)), factors |-> [id \in Ids(model.cases) |-> 1]])])
    BY <1>1 DEF TrussAddCombination
  <2>2. [model EXCEPT !.combinations = Append(model.combinations,
            [id |-> nextFrameDraftId("COMB", Ids(model.combinations)), factors |-> [id \in Ids(model.cases) |-> 1]])] \in Trusses
    BY CombinationAdded DEF Trusses
  <2> QED  BY <2>1, <2>2, TrussCommitIs
<1>2. CASE TrussUpdateCombination
  <2>1. PICK i \in DOMAIN model.combinations :
          \/ \E new \in NewNames : trussCommit([model EXCEPT !.combinations[i].id = new])
          \/ \E id \in Ids(model.cases), factor \in {0, 1} :
               trussCommit([model EXCEPT !.combinations[i].factors = withFactor(model.combinations[i].factors, id, factor)])
    BY <1>2 DEF TrussUpdateCombination
  <2>2. NewNames \subseteq Identifier /\ Ids(model.cases) \subseteq Identifier
    BY InputsAssumption, TrussNames
  <2>3. /\ \A new \in NewNames : [model EXCEPT !.combinations[i].id = new] \in Trusses
        /\ \A id \in Ids(model.cases), factor \in {0, 1} :
             [model EXCEPT !.combinations[i].factors = withFactor(model.combinations[i].factors, id, factor)] \in Trusses
    BY <2>2, CombinationEdited DEF Trusses
  <2> QED  BY <2>1, <2>3, TrussCommitIs
<1>3. CASE TrussRemoveCombination
  <2>1. PICK i \in DOMAIN model.combinations : trussCommit([model EXCEPT !.combinations = RemoveAt(model.combinations, i)])
    BY <1>3 DEF TrussRemoveCombination
  <2>2. [model EXCEPT !.combinations = RemoveAt(model.combinations, i)] \in Trusses
    BY CombinationEdited DEF Trusses
  <2> QED  BY <2>1, <2>2, TrussCommitIs
<1> QED  BY <1>1, <1>2, <1>3

LEMMA TrussSelectionEdits ==
  ASSUME model \in Trusses, TrussDeleteSelections \/ TrussCopy \/ TrussArray
  PROVE  TrussEdited
<1>1. model \in Plane(TrussNode, TrussTypes) /\ Named(TrussNode)
  BY TrussNames
<1>2. CASE TrussDeleteSelections
  <2>1. PICK nodeIds \in Selections(Ids(model.nodes)), memberIds \in Selections(Ids(model.members)),
             loads \in Selections(DOMAIN model.loads) :
          trussCommit(deleteTrussSelections(model, nodeIds, memberIds, loads))
    BY <1>2 DEF TrussDeleteSelections
  <2>2. deleteTrussSelections(model, nodeIds, memberIds, loads) \in Trusses
    BY <1>1, DeleteSelectionsIs DEF Trusses, deleteTrussSelections
  <2> QED  BY <2>1, <2>2, TrussCommitIs
<1>3. CASE TrussCopy
  <2>1. PICK target \in TrussTargets(model) : trussCommit(copyTrussOnce(model, target[1], target[2], 1))
    BY <1>3 DEF TrussCopy
  <2>2. copyTrussOnce(model, target[1], target[2], 1) \in Trusses
    BY <1>1, CopyOnceIs DEF Trusses, copyTrussOnce
  <2> QED  BY <2>1, <2>2, TrussCommitIs
<1>4. CASE TrussArray
  <2>1. PICK target \in TrussTargets(model) : trussCommit(arrayTrussCollections(model, target[1], target[2]))
    BY <1>4 DEF TrussArray
  <2> DEFINE once == copyOnce(model, target[1], target[2], 1)
             twice == copyOnce(once, target[1], target[2], 2)
  <2>2. once \in Trusses /\ twice \in Trusses
    BY <1>1, ArrayedIs DEF Trusses
  <2>3. arrayTrussCollections(model, target[1], target[2]) = IF ArrayCount = 1 THEN once ELSE twice
    BY DEF arrayTrussCollections, copyTrussOnce
  <2> HIDE DEF once, twice
  <2> QED  BY <2>1, <2>2, <2>3, TrussCommitIs
<1> QED  BY <1>2, <1>3, <1>4

(* The truss step. *)
LEMMA TrussSteps ==
  ASSUME model \in Trusses, TrussNext
  PROVE  TrussEdited
BY WholeTrusses, TrussNodeEdits, TrussMemberEdits, TrussLoadEdits, TrussCaseEdits, TrussCombinationEdits,
   TrussSelectionEdits DEF TrussNext

----------------------------------------------------------------------------
(* Every edit of a beam commits a beam. *)

BeamEdited == \E next \in Beams : updateBeamWorkspace(next)

LEMMA BeamCommitIs ==
  ASSUME NEW next \in Beams, beamCommit(next)
  PROVE  BeamEdited
BY DEF beamCommit, BeamEdited

LEMMA BeamRenameIs ==
  ASSUME NEW next \in Beams, NEW new, NEW used, beamRename(next, new, used)
  PROVE  BeamEdited
BY DEF beamRename, BeamEdited

Linear == [on : BOOLEAN, loads : Seq(BeamRange)]

LEMMA BeamFields ==
  ASSUME NEW m \in Beams
  PROVE  /\ m = [beamType |-> m.beamType, spans |-> m.spans, supports |-> m.supports, uniform |-> m.uniform,
                 linear |-> m.linear, points |-> m.points, pointAt |-> m.pointAt, cases |-> m.cases,
                 combinations |-> m.combinations]
         /\ m.beamType \in BeamTypes /\ m.spans \in Seq(Span) /\ m.supports \in Seq(BeamSupport)
         /\ m.uniform \in Uniform /\ m.linear \in Linear /\ m.points \in Seq(BeamPoint)
         /\ m.pointAt \in Int /\ m.cases \in Seq(BeamCase) /\ m.combinations \in Seq(Combination)
BY DEF Beams, BeamTypes, Uniform, Linear

LEMMA BeamWith ==
  ASSUME NEW m \in Beams
  PROVE  /\ \A beamType \in BeamTypes : [m EXCEPT !.beamType = beamType] \in Beams
         /\ \A spans \in Seq(Span) : [m EXCEPT !.spans = spans] \in Beams
         /\ \A supports \in Seq(BeamSupport) : [m EXCEPT !.supports = supports] \in Beams
         /\ \A uniform \in Uniform : [m EXCEPT !.uniform = uniform] \in Beams
         /\ \A linear \in Linear : [m EXCEPT !.linear = linear] \in Beams
         /\ \A points \in Seq(BeamPoint) : [m EXCEPT !.points = points] \in Beams
         /\ \A pointAt \in Int : [m EXCEPT !.pointAt = pointAt] \in Beams
         /\ \A cases \in Seq(BeamCase) : [m EXCEPT !.cases = cases] \in Beams
         /\ \A combinations \in Seq(Combination) : [m EXCEPT !.combinations = combinations] \in Beams
BY DEF Beams, BeamTypes, Uniform, Linear

LEMMA BeamNames ==
  ASSUME NEW m \in Beams
  PROVE  /\ Ids(m.spans) \subseteq Identifier /\ Ids(m.supports) \subseteq Identifier
         /\ Ids(m.cases) \subseteq Identifier
BY BeamFields, IdsAreIdentifiers, SpansAreNamed, SupportsAreNamed, BeamCasesAreNamed

LEMMA BeamSupportFields ==
  ASSUME NEW s \in BeamSupport
  PROVE  /\ s = [id |-> s.id, x |-> s.x, type |-> s.type, held |-> s.held, springs |-> s.springs]
         /\ s.id \in Identifier /\ s.x \in Int /\ s.type \in {"fixed", "pinned", "roller", "free"}
         /\ s.held \in (SUBSET {"v", "rz"}) \cup {Unstated} /\ s.springs \in SUBSET {"v", "rz"}
BY DEF BeamSupport

(* What a support keeps of the one before it. *)
LEMMA MergedSupportsAre ==
  ASSUME NEW beamType \in BeamTypes, NEW spans \in Seq(Span), NEW prior \in Seq(BeamSupport)
  PROVE  mergeDefaultBeamSupportLayout(beamType, spans, prior) \in Seq(BeamSupport)
<1> DEFINE D == defaultBeamSupports(beamType, spans)
           named == \E support \in Elements(prior) : ~isDefaultBeamSupportId(support.id)
           ends(k) == beamType = "continuous" /\ k = Len(D) /\ prior[k].type = "pinned"
           f == mergeDefaultBeamSupportLayout(beamType, spans, prior)
<1>1. f = [k \in DOMAIN D |->
             IF k \notin DOMAIN prior THEN D[k]
             ELSE [D[k] EXCEPT !.id = IF named THEN prior[k].id ELSE D[k].id,
                               !.type = IF ends(k) THEN D[k].type ELSE prior[k].type,
                               !.held = IF prior[k].held = Unstated THEN D[k].held ELSE prior[k].held,
                               !.springs = prior[k].springs]]
  BY DEF mergeDefaultBeamSupportLayout
<1>2. D \in Seq(DefaultSupports)
  BY DefaultSupportsAre
<1> HIDE DEF D, named, f
<1>3. ASSUME NEW k \in DOMAIN D PROVE f[k] \in BeamSupport
  <2>1. D[k] \in BeamSupport
    BY <1>2 DEF DefaultSupports
  <2>2. CASE k \notin DOMAIN prior
    BY <1>1, <2>1, <2>2
  <2>3. CASE k \in DOMAIN prior
    <3> DEFINE old == D[k]
               p == prior[k]
               id == IF named THEN p.id ELSE old.id
               type == IF ends(k) THEN old.type ELSE p.type
               held == IF p.held = Unstated THEN old.held ELSE p.held
    <3>1. p \in BeamSupport
      BY <2>3
    <3>2. f[k] = [old EXCEPT !.id = id, !.type = type, !.held = held, !.springs = p.springs]
      BY <1>1, <2>3, Zenon
    <3> HIDE DEF p, old, ends
    <3>3. p.id \in Identifier /\ p.type \in {"fixed", "pinned", "roller", "free"}
          /\ p.held \in (SUBSET {"v", "rz"}) \cup {Unstated} /\ p.springs \in SUBSET {"v", "rz"}
      BY <3>1, BeamSupportFields
    <3>4. old = [id |-> old.id, x |-> old.x, type |-> old.type, held |-> old.held, springs |-> old.springs]
          /\ old.id \in Identifier /\ old.x \in Int /\ old.type \in {"fixed", "pinned", "roller", "free"}
          /\ old.held \in (SUBSET {"v", "rz"}) \cup {Unstated}
      BY <2>1, BeamSupportFields DEF old
    <3>5. id \in Identifier /\ type \in {"fixed", "pinned", "roller", "free"}
          /\ held \in (SUBSET {"v", "rz"}) \cup {Unstated}
      BY <3>3, <3>4
    <3> HIDE DEF id, type, held
    <3>6. f[k] = [id |-> id, x |-> old.x, type |-> type, held |-> held, springs |-> p.springs]
      BY <3>2, <3>4
    <3> DEFINE x == old.x
               springs == p.springs
    <3>7. x \in Int /\ springs \in SUBSET {"v", "rz"}
      BY <3>3, <3>4
    <3>8. f[k] = [id |-> id, x |-> x, type |-> type, held |-> held, springs |-> springs]
      BY <3>6
    <3> HIDE DEF x, springs
    <3>9. [id |-> id, x |-> x, type |-> type, held |-> held, springs |-> springs] \in BeamSupport
      BY <3>5, <3>7 DEF BeamSupport
    <3> QED  BY <3>8, <3>9
  <2> QED  BY <2>2, <2>3
<1>4. f = [k \in DOMAIN D |-> f[k]]
  BY <1>1
<1>5. f \in Seq(BeamSupport)
  BY <1>2, <1>3, <1>4, MapIsSeq
<1> QED  BY <1>5 DEF f

LEMMA WithSpansIs ==
  ASSUME NEW m \in Beams, NEW spans \in Seq(Span), NEW beamType \in BeamTypes, NEW prior \in Seq(BeamSupport)
  PROVE  withSpans(m, spans, beamType, prior) \in Beams
<1> DEFINE supports == mergeDefaultBeamSupportLayout(beamType, spans, prior)
           m1 == [m EXCEPT !.spans = spans]
           m2 == [m1 EXCEPT !.beamType = beamType]
           m3 == [m2 EXCEPT !.supports = supports]
<1>1. supports \in Seq(BeamSupport)
  BY MergedSupportsAre
<1>2. withSpans(m, spans, beamType, prior) = [m EXCEPT !.spans = spans, !.beamType = beamType, !.supports = supports]
  BY Zenon DEF withSpans
<1> HIDE DEF supports
<1>3. withSpans(m, spans, beamType, prior) = m3
  BY <1>2, BeamFields
<1>4. m1 \in Beams
  BY BeamWith
<1> HIDE DEF m1
<1>5. m2 \in Beams
  BY <1>4, BeamWith
<1> HIDE DEF m2
<1>6. m3 \in Beams
  BY <1>1, <1>5, BeamWith
<1> QED  BY <1>3, <1>6

LEMMA NothingIs ==
  /\ <<>> \in Seq(BeamPoint) /\ <<>> \in Seq(BeamCase) /\ <<>> \in Seq(Combination) /\ <<>> \in Seq(BeamSupport)
  /\ <<>> \in Seq(BeamRange)
OBVIOUS

(* Without load cases there are no combinations. *)
LEMMA WithoutCasesIs ==
  ASSUME NEW m \in Beams
  PROVE  [m EXCEPT !.cases = <<>>, !.combinations = <<>>] \in Beams
<1> DEFINE m1 == [m EXCEPT !.cases = <<>>]
           m2 == [m1 EXCEPT !.combinations = <<>>]
<1>1. m1 \in Beams
  BY NothingIs, BeamWith
<1>2. [m EXCEPT !.cases = <<>>, !.combinations = <<>>] = m2
  BY BeamFields
<1> HIDE DEF m1
<1>3. m2 \in Beams
  BY <1>1, NothingIs, BeamWith
<1> QED  BY <1>2, <1>3

LEMMA DraftSpansAre ==
  ASSUME NEW n \in Nat, NEW length \in Int
  PROVE  [k \in 1..n |-> [id |-> Draft("(", k), length |-> length]] \in Seq(Span)
<1> DEFINE f == [k \in 1..n |-> [id |-> Draft("(", k), length |-> length]]
<1>1. f = [k \in 1..n |-> f[k]] /\ \A k \in 1..n : f[k] = [id |-> Draft("(", k), length |-> length]
  OBVIOUS
<1> HIDE DEF f
<1>2. ASSUME NEW k \in 1..n PROVE f[k] \in Span
  <2>1. k \in Int
    OBVIOUS
  <2>2. Draft("(", k) \in Identifier
    BY <2>1, DraftsAre
  <2> QED  BY <1>1, <2>2 DEF Span
<1>3. f \in Seq(Span)
  BY <1>1, <1>2, FromOne
<1> QED  BY <1>3 DEF f

LEMMA DefaultBeamIs == createDefaultBeamWorkspaceState \in Beams
<1> DEFINE spans == [k \in 1..2 |-> [id |-> Draft("(", k), length |-> DefaultLength]]
           supports == defaultBeamSupports("continuous", spans)
           uniform == [on |-> TRUE, from |-> 0, to |-> 100]
           linear == [on |-> FALSE, loads |-> <<>>]
<1>1. spans \in Seq(Span)
  BY BeamLimitsAre, DraftSpansAre
<1>2. createDefaultBeamWorkspaceState =
        [beamType |-> "continuous", spans |-> spans, supports |-> supports, uniform |-> uniform, linear |-> linear,
         points |-> <<>>, pointAt |-> 50, cases |-> <<>>, combinations |-> <<>>]
  BY DEF createDefaultBeamWorkspaceState
<1>3. "continuous" \in BeamTypes
  BY DEF BeamTypes
<1> HIDE DEF spans
<1>4. supports \in Seq(BeamSupport)
  <2>1. supports \in Seq(DefaultSupports)
    BY <1>1, <1>3, DefaultSupportsAre
  <2> HIDE DEF supports
  <2> QED  BY <2>1 DEF DefaultSupports
<1>5. uniform \in Uniform /\ linear \in Linear
  BY NothingIs DEF Uniform, Linear
<1> HIDE DEF supports, uniform, linear
<1> DEFINE at == 50
<1>6. at \in Int
  OBVIOUS
<1> HIDE DEF at
<1>7. [beamType |-> "continuous", spans |-> spans, supports |-> supports, uniform |-> uniform, linear |-> linear,
       points |-> <<>>, pointAt |-> at, cases |-> <<>>, combinations |-> <<>>] \in Beams
  BY <1>1, <1>3, <1>4, <1>5, <1>6, NothingIs DEF Beams, BeamTypes, Uniform, Linear
<1> QED  BY <1>2, <1>7 DEF at

LEMMA ContinuousBeamIs ==
  ASSUME NEW count \in Nat, NEW length \in Int, NEW loaded \in BOOLEAN, NEW m \in Beams
  PROVE  ContinuousBeam(count, length, loaded, m) \in Beams
<1> DEFINE type == IF count = 1 THEN "simply_supported" ELSE "continuous"
           each == Clamped(length, 500, 60000)
           spans == [k \in 1..count |-> [id |-> Draft("(", k), length |-> each]]
           supports == mergeDefaultBeamSupportLayout(type, spans, <<>>)
           uniform == [on |-> loaded, from |-> 0, to |-> 100]
           linear == [on |-> FALSE, loads |-> <<>>]
           m1 == [m EXCEPT !.beamType = type, !.spans = spans, !.supports = supports, !.uniform = uniform,
                           !.linear = linear, !.points = <<>>, !.cases = <<>>, !.combinations = <<>>]
<1>1. each \in Int
  BY DEF Clamped, smaller, larger
<1>2. spans \in Seq(Span)
  <2> HIDE DEF each
  <2> QED  BY <1>1, DraftSpansAre
<1>3. type \in BeamTypes
  BY DEF BeamTypes
<1>4. ContinuousBeam(count, length, loaded, m) = m1
  BY DEF ContinuousBeam
<1> HIDE DEF spans, type
<1>5. supports \in Seq(BeamSupport)
  BY <1>2, <1>3, NothingIs, MergedSupportsAre
<1>6. uniform \in Uniform /\ linear \in Linear
  BY NothingIs DEF Uniform, Linear
<1> HIDE DEF supports, uniform, linear
<1> DEFINE m2 == [m EXCEPT !.beamType = type]
           m3 == [m2 EXCEPT !.spans = spans]
           m4 == [m3 EXCEPT !.supports = supports]
           m5 == [m4 EXCEPT !.uniform = uniform]
           m6 == [m5 EXCEPT !.linear = linear]
           m7 == [m6 EXCEPT !.points = <<>>]
<1>7. m1 = [m7 EXCEPT !.cases = <<>>, !.combinations = <<>>]
  OBVIOUS
<1> HIDE DEF m1
<1>8. m2 \in Beams
  BY <1>3, BeamWith
<1> HIDE DEF m2
<1>9. m3 \in Beams
  BY <1>2, <1>8, BeamWith
<1> HIDE DEF m3
<1>10. m4 \in Beams
  BY <1>5, <1>9, BeamWith
<1> HIDE DEF m4
<1>11. m5 \in Beams
  BY <1>6, <1>10, BeamWith
<1> HIDE DEF m5
<1>12. m6 \in Beams
  BY <1>6, <1>11, BeamWith
<1> HIDE DEF m6
<1>13. m7 \in Beams
  BY <1>12, NothingIs, BeamWith
<1> HIDE DEF m7
<1>14. [m7 EXCEPT !.cases = <<>>, !.combinations = <<>>] \in Beams
  BY <1>13, WithoutCasesIs
<1> QED  BY <1>4, <1>7, <1>14

----------------------------------------------------------------------------
(* What the text of a beam says. *)

SupportLineOf == [id : Identifier, x : Int, type : {"fixed", "pinned", "roller", "free"},
                  held : (SUBSET {"v", "rz"}) \cup {Unstated}]
Extent == [from : Int, to : Int]

BeamLines(text) ==
  /\ text.beamType \in BeamTypes /\ text.spans \in Seq(Span) /\ text.supports \in Seq(SupportLineOf)
  /\ \A spring \in text.springs : spring[2] \in {"v", "rz"}
  /\ text.uniform \in Seq(Extent) /\ text.linear \in Seq(Extent) /\ text.points \in Seq(Int)

LEMMA HeldByIs ==
  ASSUME NEW s, s.held \in (SUBSET {"v", "rz"}) \cup {Unstated}
  PROVE  supportConstraints(s) \in SUBSET {"v", "rz"}
<1>1. beamSupportConstraints(s.type) \in SUBSET {"v", "rz"}
  <2>1. CASE s.type = "fixed"
    BY <2>1 DEF beamSupportConstraints
  <2>2. CASE s.type = "free"
    BY <2>2 DEF beamSupportConstraints
  <2>3. CASE s.type # "fixed" /\ s.type # "free"
    BY <2>3 DEF beamSupportConstraints
  <2> QED  BY <2>1, <2>2, <2>3
<1>2. CASE s.held = Unstated
  BY <1>1, <1>2 DEF supportConstraints
<1>3. CASE s.held # Unstated
  BY <1>3 DEF supportConstraints
<1> QED  BY <1>2, <1>3

LEMMA BeamLinesAre ==
  ASSUME NEW m \in Beams
  PROVE  BeamLines(serializeBeamTextModel(m))
<1> DEFINE text == serializeBeamTextModel(m)
           line(s) == [id |-> s.id, x |-> s.x, type |-> s.type, held |-> supportConstraintToken(s)]
           supports == [k \in DOMAIN m.supports |-> line(m.supports[k])]
           springs == UNION {{<<support.id, dof>> : dof \in support.springs} : support \in Elements(m.supports)}
           uniform == IF m.uniform.on THEN <<[from |-> m.uniform.from, to |-> m.uniform.to]>> ELSE <<>>
           all == [k \in DOMAIN m.linear.loads |-> [from |-> m.linear.loads[k].from, to |-> m.linear.loads[k].to]]
           linear == IF m.linear.on THEN all ELSE <<>>
           points == [k \in DOMAIN m.points |-> m.points[k].at]
<1>1. text = [beamType |-> m.beamType, spans |-> m.spans, supports |-> supports, springs |-> springs,
              uniform |-> uniform, linear |-> linear, points |-> points]
  BY DEF serializeBeamTextModel, Each
<1>2. m.beamType \in BeamTypes /\ m.spans \in Seq(Span) /\ m.supports \in Seq(BeamSupport)
      /\ m.points \in Seq(BeamPoint)
  BY BeamFields
<1>3. m.linear.loads \in Seq(BeamRange) /\ m.uniform.from \in Int /\ m.uniform.to \in Int
  BY BeamFields DEF Linear, Uniform
<1> HIDE DEF text
<1>4. supports \in Seq(SupportLineOf)
  <2> DEFINE f == supports
  <2>1. f = [k \in DOMAIN m.supports |-> f[k]] /\ \A k \in DOMAIN m.supports : f[k] = line(m.supports[k])
    OBVIOUS
  <2> HIDE DEF f
  <2>2. ASSUME NEW k \in DOMAIN m.supports PROVE f[k] \in SupportLineOf
    <3> DEFINE s == m.supports[k]
               held == supportConstraintToken(s)
               id == s.id
               x == s.x
               type == s.type
    <3>1. s \in BeamSupport
      BY <1>2
    <3>2. f[k] = [id |-> id, x |-> x, type |-> type, held |-> held]
      BY <2>1
    <3> HIDE DEF s
    <3>3. id \in Identifier /\ x \in Int /\ type \in {"fixed", "pinned", "roller", "free"}
          /\ s.held \in (SUBSET {"v", "rz"}) \cup {Unstated}
      BY <3>1, BeamSupportFields
    <3>4. supportConstraints(s) \in SUBSET {"v", "rz"}
      BY <3>3, HeldByIs
    <3>5. held \in (SUBSET {"v", "rz"}) \cup {Unstated}
      BY <3>4 DEF supportConstraintToken
    <3> HIDE DEF held, id, x, type
    <3> QED  BY <3>2, <3>3, <3>5 DEF SupportLineOf
  <2>3. f \in Seq(SupportLineOf)
    BY <1>2, <2>1, <2>2, MapIsSeq
  <2> QED  BY <2>3 DEF f
<1>5. \A spring \in springs : spring[2] \in {"v", "rz"}
  <2> SUFFICES ASSUME NEW support \in Elements(m.supports), NEW dof \in support.springs
               PROVE  <<support.id, dof>>[2] \in {"v", "rz"}
    OBVIOUS
  <2>1. support \in BeamSupport
    BY <1>2, ElementsAre
  <2>2. dof \in {"v", "rz"}
    BY <2>1, BeamSupportFields
  <2> QED  BY <2>2
<1>6. uniform \in Seq(Extent)
  <2>1. [from |-> m.uniform.from, to |-> m.uniform.to] \in Extent
    BY <1>3 DEF Extent
  <2> QED  BY <2>1
<1>7. all \in Seq(Extent)
  <2> DEFINE f == all
             s == m.linear.loads
  <2>1. f = [k \in DOMAIN s |-> f[k]] /\ \A k \in DOMAIN s : f[k] = [from |-> s[k].from, to |-> s[k].to]
    OBVIOUS
  <2> HIDE DEF f
  <2>2. ASSUME NEW k \in DOMAIN s PROVE f[k] \in Extent
    <3>1. s[k] \in BeamRange
      BY <1>3
    <3> DEFINE from == s[k].from
               to == s[k].to
    <3>2. from \in Int /\ to \in Int
      BY <3>1 DEF BeamRange
    <3>3. f[k] = [from |-> from, to |-> to]
      BY <2>1
    <3> HIDE DEF s, from, to
    <3> QED  BY <3>2, <3>3 DEF Extent
  <2>4. s \in Seq(BeamRange)
    BY <1>3
  <2> HIDE DEF s
  <2>3. f \in Seq(Extent)
    BY <2>1, <2>2, <2>4, MapIsSeq
  <2> QED  BY <2>3 DEF f
<1> HIDE DEF all
<1>8. linear \in Seq(Extent)
  BY <1>7
<1>9. points \in Seq(Int)
  <2> DEFINE f == points
  <2>1. f = [k \in DOMAIN m.points |-> f[k]] /\ \A k \in DOMAIN m.points : f[k] = m.points[k].at
    OBVIOUS
  <2> HIDE DEF f
  <2>2. ASSUME NEW k \in DOMAIN m.points PROVE f[k] \in Int
    <3>1. m.points[k] \in BeamPoint
      BY <1>2
    <3> QED  BY <2>1, <3>1 DEF BeamPoint
  <2>3. f \in Seq(Int)
    BY <1>2, <2>1, <2>2, MapIsSeq
  <2> QED  BY <2>3 DEF f
<1> HIDE DEF supports, springs, uniform, linear, points
<1>10. /\ text.beamType = m.beamType /\ text.spans = m.spans /\ text.supports = supports /\ text.springs = springs
       /\ text.uniform = uniform /\ text.linear = linear /\ text.points = points
  BY <1>1
<1> QED  BY <1>2, <1>4, <1>5, <1>6, <1>8, <1>9, <1>10 DEF BeamLines, text

LEMMA BeamSupportReadIs ==
  ASSUME NEW line \in SupportLineOf, NEW springs, \A spring \in springs : spring[2] \in {"v", "rz"}
  PROVE  readSupport(line, springs) \in BeamSupport
<1> DEFINE own == {spring[2] : spring \in {s \in springs : s[1] = line.id}}
           held == supportConstraints(line) \ own
           type == IF own # {} /\ held = {} THEN "free" ELSE line.type
           id == line.id
           x == line.x
<1>1. readSupport(line, springs) = [id |-> id, x |-> x, held |-> held, springs |-> own, type |-> type]
  BY DEF readSupport
<1>2. id \in Identifier /\ x \in Int /\ line.type \in {"fixed", "pinned", "roller", "free"}
      /\ line.held \in (SUBSET {"v", "rz"}) \cup {Unstated}
  BY DEF SupportLineOf
<1>3. own \in SUBSET {"v", "rz"}
  BY Zenon
<1> HIDE DEF own
<1>4. held \in SUBSET {"v", "rz"}
  <2>1. supportConstraints(line) \in SUBSET {"v", "rz"}
    BY <1>2, HeldByIs
  <2> QED  BY <2>1
<1> HIDE DEF held
<1>5. type \in {"fixed", "pinned", "roller", "free"}
  BY <1>2
<1> HIDE DEF type, id, x
<1> QED  BY <1>1, <1>2, <1>3, <1>4, <1>5 DEF BeamSupport

LEMMA ReadSpanIs ==
  ASSUME NEW span \in Span, NEW k \in Int
  PROVE  readSpan(span, k) \in Span
<1> DEFINE said == words(span.id)
           at == lengthAt(span)
           id == IF at = 1 THEN Draft("(", k) ELSE token(said, 1, NoId)
           length == IF at <= Len(said) THEN 1000 * said[at].n ELSE span.length
<1>1. span.id \in Identifier /\ span.length \in Int
  BY DEF Span
<1>2. readSpan(span, k) = [id |-> id, length |-> length]
  BY DEF readSpan
<1>3. said \in Seq(Identifier)
  BY <1>1, WordsAre
<1>4. at \in {1, 2}
  BY DEF lengthAt
<1> HIDE DEF said, at
<1>5. id \in Identifier
  BY <1>3, DraftsAre, NoIdIs, TokenIs
<1>6. length \in Int
  <2>1. CASE at <= Len(said)
    <3>1. said[at] \in Identifier
      BY <1>3, <1>4, <2>1
    <3>2. said[at].n \in Int
      BY <3>1 DEF Identifier
    <3> QED  BY <2>1, <3>2
  <2> QED  BY <1>1, <2>1
<1> HIDE DEF id, length
<1> QED  BY <1>2, <1>5, <1>6 DEF Span

LEMMA ReadBeamIs ==
  ASSUME NEW text, BeamLines(text), NEW m \in Beams
  PROVE  parseBeamTextModel(text, m) \in Beams
<1> DEFINE supports == [k \in DOMAIN text.supports |-> readSupport(text.supports[k], text.springs)]
           spans == [k \in DOMAIN text.spans |-> readSpan(text.spans[k], k)]
           read == [m EXCEPT !.beamType = text.beamType, !.spans = spans, !.supports = supports]
           linear == [k \in DOMAIN text.linear |->
                        [id |-> Draft("L", k), from |-> text.linear[k].from, to |-> text.linear[k].to]]
           uniform == IF text.uniform = <<>> THEN [read.uniform EXCEPT !.on = FALSE]
                      ELSE [on |-> TRUE, from |-> text.uniform[1].from, to |-> text.uniform[1].to]
           loads == [on |-> linear # <<>>, loads |-> linear]
           points == [k \in DOMAIN text.points |-> [id |-> Draft("P", k), at |-> text.points[k]]]
           at == IF text.points = <<>> THEN read.pointAt ELSE text.points[1]
           whole == [read EXCEPT !.uniform = uniform, !.linear = loads, !.points = points, !.pointAt = at]
           r == parseBeamTextModel(text, m)
<1>1. r = IF text.uniform \o text.linear = <<>> /\ text.points = <<>> THEN read ELSE whole
  BY DEF parseBeamTextModel, Each
<1>2. /\ text.beamType \in BeamTypes /\ text.spans \in Seq(Span) /\ text.supports \in Seq(SupportLineOf)
      /\ \A spring \in text.springs : spring[2] \in {"v", "rz"}
      /\ text.uniform \in Seq(Extent) /\ text.linear \in Seq(Extent) /\ text.points \in Seq(Int)
  BY DEF BeamLines
<1> HIDE DEF r
<1>3. supports \in Seq(BeamSupport)
  <2> DEFINE f == supports
  <2>1. f = [k \in DOMAIN text.supports |-> f[k]]
        /\ \A k \in DOMAIN text.supports : f[k] = readSupport(text.supports[k], text.springs)
    OBVIOUS
  <2> HIDE DEF f
  <2>2. ASSUME NEW k \in DOMAIN text.supports PROVE f[k] \in BeamSupport
    <3>1. text.supports[k] \in SupportLineOf
      BY <1>2
    <3> QED  BY <1>2, <2>1, <3>1, BeamSupportReadIs
  <2>3. f \in Seq(BeamSupport)
    BY <1>2, <2>1, <2>2, MapIsSeq
  <2> QED  BY <2>3 DEF f
<1>4. linear \in Seq(BeamRange)
  <2> DEFINE f == linear
             s == text.linear
  <2>1. f = [k \in DOMAIN s |-> f[k]]
        /\ \A k \in DOMAIN s : f[k] = [id |-> Draft("L", k), from |-> s[k].from, to |-> s[k].to]
    OBVIOUS
  <2> HIDE DEF f
  <2>2. ASSUME NEW k \in DOMAIN s PROVE f[k] \in BeamRange
    <3> DEFINE from == s[k].from
               to == s[k].to
               id == Draft("L", k)
    <3>1. s[k] \in Extent /\ k \in Int
      BY <1>2
    <3>2. from \in Int /\ to \in Int
      BY <3>1 DEF Extent
    <3>3. id \in Identifier
      BY <3>1, DraftsAre
    <3>4. f[k] = [id |-> id, from |-> from, to |-> to]
      BY <2>1
    <3> HIDE DEF from, to, id
    <3> QED  BY <3>2, <3>3, <3>4 DEF BeamRange
  <2>3. f \in Seq(BeamRange)
    BY <1>2, <2>1, <2>2, MapIsSeq
  <2> QED  BY <2>3 DEF f
<1>5. points \in Seq(BeamPoint)
  <2> DEFINE f == points
             s == text.points
  <2>1. f = [k \in DOMAIN s |-> f[k]] /\ \A k \in DOMAIN s : f[k] = [id |-> Draft("P", k), at |-> s[k]]
    OBVIOUS
  <2> HIDE DEF f
  <2>2. ASSUME NEW k \in DOMAIN s PROVE f[k] \in BeamPoint
    <3> DEFINE x == s[k]
               id == Draft("P", k)
    <3>1. x \in Int /\ k \in Int
      BY <1>2
    <3>3. id \in Identifier
      BY <3>1, DraftsAre
    <3>4. f[k] = [id |-> id, at |-> x]
      BY <2>1
    <3> HIDE DEF x, id
    <3> QED  BY <3>1, <3>3, <3>4 DEF BeamPoint
  <2>3. f \in Seq(BeamPoint)
    BY <1>2, <2>1, <2>2, MapIsSeq
  <2> QED  BY <2>3 DEF f
<1>5b. spans \in Seq(Span)
  <2> DEFINE f == spans
  <2>1. f = [k \in DOMAIN text.spans |-> f[k]] /\ \A k \in DOMAIN text.spans : f[k] = readSpan(text.spans[k], k)
    OBVIOUS
  <2> HIDE DEF f
  <2>2. \A k \in DOMAIN text.spans : text.spans[k] \in Span /\ k \in Int
    BY <1>2
  <2>3. \A k \in DOMAIN text.spans : f[k] \in Span
    BY <2>1, <2>2, ReadSpanIs
  <2>4. f \in Seq(Span)
    BY <1>2, <2>1, <2>3, MapIsSeq
  <2> QED  BY <2>4 DEF f
<1> HIDE DEF supports, linear, points, spans
<1> DEFINE m1 == [m EXCEPT !.beamType = text.beamType]
           m2 == [m1 EXCEPT !.spans = spans]
           m3 == [m2 EXCEPT !.supports = supports]
<1>6. read = m3
  OBVIOUS
<1>7. m1 \in Beams
  BY <1>2, BeamWith
<1> HIDE DEF m1
<1>8. m2 \in Beams
  BY <1>5b, <1>7, BeamWith
<1> HIDE DEF m2
<1>9. read \in Beams
  BY <1>3, <1>6, <1>8, BeamWith
<1> HIDE DEF m3, read
<1>10. read.uniform \in Uniform /\ read.pointAt \in Int
  BY <1>9, BeamFields
<1>11. uniform \in Uniform
  <2>1. CASE text.uniform = <<>>
    BY <1>10, <2>1 DEF Uniform
  <2>2. CASE text.uniform # <<>>
    <3>1. text.uniform[1] \in Extent
      BY <1>2, <2>2
    <3> QED  BY <2>2, <3>1 DEF Extent, Uniform
  <2> QED  BY <2>1, <2>2
<1>12. loads \in Linear
  BY <1>4 DEF Linear
<1>13. at \in Int
  BY <1>2, <1>10
<1> HIDE DEF uniform, loads, at
<1> DEFINE w1 == [read EXCEPT !.uniform = uniform]
           w2 == [w1 EXCEPT !.linear = loads]
           w3 == [w2 EXCEPT !.points = points]
           w4 == [w3 EXCEPT !.pointAt = at]
<1>14. whole = w4
  OBVIOUS
<1>15. w1 \in Beams
  BY <1>9, <1>11, BeamWith
<1> HIDE DEF w1, whole
<1>16. w2 \in Beams
  BY <1>12, <1>15, BeamWith
<1> HIDE DEF w2
<1>17. w3 \in Beams
  BY <1>5, <1>16, BeamWith
<1> HIDE DEF w3
<1>18. w4 \in Beams
  BY <1>13, <1>17, BeamWith
<1> HIDE DEF w4
<1> QED  BY <1>1, <1>9, <1>14, <1>18 DEF r

LEMMA WholeBeams ==
  ASSUME model \in Beams, BeamTemplate \/ BeamReset \/ BeamQuickModel \/ BeamImportText
  PROVE  BeamEdited
<1>1. CASE BeamTemplate
  <2>1. PICK template \in BeamTemplates : beamCommit(applyBeamModelTemplate(template))
    BY <1>1 DEF BeamTemplate
  <2>2. template \in Beams
    BY BeamTemplatesAssumption, ModelIsBeam
  <2>3. applyBeamModelTemplate(template) \in Beams
    BY <2>2, WithoutCasesIs DEF applyBeamModelTemplate
  <2> QED  BY <2>1, <2>3, BeamCommitIs
<1>2. CASE BeamReset
  BY <1>2, DefaultBeamIs, BeamCommitIs DEF BeamReset
<1>3. CASE BeamQuickModel
  <2>1. PICK count \in SpanCounts, length \in Lengths, loaded \in BOOLEAN :
          beamCommit(ContinuousBeam(Clamped(count, 1, MaxBeamSpans), length, loaded, model))
    BY <1>3 DEF BeamQuickModel
  <2> DEFINE n == Clamped(count, 1, MaxBeamSpans)
  <2>2. count \in Int /\ length \in Int
    BY BeamInputsAssumption
  <2>4. n \in Nat
    BY <2>2, BeamLimitsAre DEF Clamped, smaller, larger
  <2> HIDE DEF n
  <2>5. ContinuousBeam(n, length, loaded, model) \in Beams
    BY <2>2, <2>4, ContinuousBeamIs
  <2> QED  BY <2>1, <2>5, BeamCommitIs DEF n
<1>4. CASE BeamImportText
  <2>1. beamCommit(parseBeamTextModel(serializeBeamTextModel(model), model))
    BY <1>4 DEF BeamImportText
  <2>2. parseBeamTextModel(serializeBeamTextModel(model), model) \in Beams
    BY BeamLinesAre, ReadBeamIs
  <2> QED  BY <2>1, <2>2, BeamCommitIs
<1> QED  BY <1>1, <1>2, <1>3, <1>4

(* The number of a new span is one of those tried: a beam of n spans cannot
   use all n + 1 of them. *)
LEMMA NextSpanIs ==
  ASSUME NEW spans \in Seq(Span)
  PROVE  nextSpanId(spans) \in Identifier
<1> DEFINE n == Len(spans)
           tried == n + 1..2 * n + 1
           free == {k \in tried : Draft("(", k) \notin Ids(spans)}
           used == {k \in tried : Draft("(", k) \in Ids(spans)}
           least == CHOOSE k \in free : \A l \in free : k <= l
           S == {k \in DOMAIN spans : spans[k].id \in {Draft("(", l) : l \in used}}
<1>1. n \in Nat
  OBVIOUS
<1>2. free # {}
  <2> SUFFICES ASSUME free = {} PROVE FALSE
    OBVIOUS
  <2>1. \A k \in tried : \E i \in DOMAIN spans : spans[i].id = Draft("(", k)
    BY DEF Ids
  <2> DEFINE at == [k \in tried |-> CHOOSE i \in DOMAIN spans : spans[i].id = Draft("(", k)]
  <2>2. \A k \in tried : at[k] \in 1..n /\ spans[at[k]].id = Draft("(", k)
    BY <2>1
  <2> HIDE DEF at
  <2>3. \A k, l \in tried : at[k] = at[l] => k = l
    <3> SUFFICES ASSUME NEW k \in tried, NEW l \in tried, at[k] = at[l] PROVE k = l
      OBVIOUS
    <3>1. Draft("(", k) = Draft("(", l)
      BY <2>2
    <3> QED  BY <3>1 DEF Draft
  <2> DEFINE g == [k \in 1..n + 1 |-> at[n + k]]
  <2>4. \A k \in 1..n + 1 : n + k \in tried
    BY <1>1
  <2>5. g \in [1..n + 1 -> 1..n]
    BY <2>2, <2>4
  <2>6. \A k, l \in 1..n + 1 : g[k] = g[l] => k = l
    <3> SUFFICES ASSUME NEW k \in 1..n + 1, NEW l \in 1..n + 1, g[k] = g[l] PROVE k = l
      OBVIOUS
    <3>1. n + k = n + l
      BY <2>3, <2>4
    <3> QED  BY <1>1, <3>1
  <2> HIDE DEF g
  <2>7. IsFiniteSet(1..n + 1) /\ Cardinality(1..n + 1) = n + 1
    BY <1>1, FS_Interval
  <2>8. IsFiniteSet(1..n) /\ Cardinality(1..n) = n
    BY <1>1, FS_Interval
  <2>9. \E k, l \in 1..n + 1 : k # l /\ g[k] = g[l]
    <3> DEFINE A == 1..n + 1
               B == 1..n
    <3>1. Cardinality(A) > Cardinality(B) /\ IsFiniteSet(A) /\ IsFiniteSet(B)
      BY <1>1, <2>7, <2>8
    <3>2. g \in [A -> B]
      BY <2>5
    <3> HIDE DEF A, B
    <3>3. \E x, y \in A : x # y /\ g[x] = g[y]
      BY <3>1, <3>2, FS_PigeonHole
    <3> QED  BY <3>3 DEF A
  <2> QED  BY <2>6, <2>9
<1>3. free \in SUBSET Nat
  BY <1>1
<1>4. \E m \in free : \A l \in free : m <= l
  <2> HIDE DEF free
  <2> QED  BY <1>2, <1>3, LeastNumber
<1>5. least \in free
  <2> HIDE DEF free
  <2> QED  BY <1>4
<1>6. least \in Int
  BY <1>1, <1>5
<1>7. nextSpanId(spans) = Draft("(", least)
  BY DEF nextSpanId
<1> HIDE DEF least
<1> QED  BY <1>6, <1>7, DraftsAre

LEMMA WithSpanIs ==
  ASSUME NEW m \in Beams, NEW length \in Int
  PROVE  WithSpan(m, length) \in Beams
<1> DEFINE id == nextSpanId(m.spans)
           span == [id |-> id, length |-> length]
           spans == Append(m.spans, span)
           type == IF m.beamType = "simply_supported" THEN "continuous" ELSE m.beamType
<1>1. m.spans \in Seq(Span) /\ m.beamType \in BeamTypes /\ m.supports \in Seq(BeamSupport)
  BY BeamFields
<1>2. id \in Identifier
  BY <1>1, NextSpanIs
<1>3. WithSpan(m, length) = withSpans(m, spans, type, m.supports)
  BY DEF WithSpan
<1> HIDE DEF id
<1>4. span \in Span
  BY <1>2 DEF Span
<1> HIDE DEF span
<1>5. spans \in Seq(Span)
  BY <1>1, <1>4, AppendIsSeq
<1>6. type \in BeamTypes
  BY <1>1 DEF BeamTypes
<1> HIDE DEF spans, type
<1> QED  BY <1>1, <1>3, <1>5, <1>6, WithSpansIs

LEMMA RenumberedAre ==
  ASSUME NEW spans \in Seq(Span)
  PROVE  renumberDefaultBeamSpanIds(spans) \in Seq(Span)
<1> DEFINE f == [k \in DOMAIN spans |-> [spans[k] EXCEPT !.id = Draft("(", k)]]
<1>1. f = [k \in DOMAIN spans |-> f[k]] /\ \A k \in DOMAIN spans : f[k] = [spans[k] EXCEPT !.id = Draft("(", k)]
  OBVIOUS
<1>2. renumberDefaultBeamSpanIds(spans) \in {f, spans}
  BY DEF renumberDefaultBeamSpanIds
<1> HIDE DEF f
<1>3. ASSUME NEW k \in DOMAIN spans PROVE f[k] \in Span
  <2> DEFINE span == spans[k]
             id == Draft("(", k)
  <2>1. span \in Span /\ k \in Int
    OBVIOUS
  <2>2. id \in Identifier
    BY <2>1, DraftsAre
  <2>3. f[k] = [span EXCEPT !.id = id]
    BY <1>1
  <2> HIDE DEF span, id
  <2> QED  BY <2>1, <2>2, <2>3 DEF Span
<1>4. f \in Seq(Span)
  BY <1>1, <1>3, MapIsSeq
<1> QED  BY <1>2, <1>4

LEMMA WithoutIsSeq ==
  ASSUME NEW T, NEW s \in Seq(T), NEW gone
  PROVE  Without(s, gone) \in Seq(T)
BY PickedIsSeq DEF Without

LEMMA WithoutSpansIs ==
  ASSUME NEW m \in Beams, NEW gone
  PROVE  WithoutSpans(m, gone) \in Beams
<1> DEFINE left == Without(m.spans, gone)
           spans == renumberDefaultBeamSpanIds(left)
           type == IF m.beamType = "continuous" /\ Len(spans) = 1 THEN "simply_supported" ELSE m.beamType
           prior == Without(m.supports, gone)
<1>1. m.spans \in Seq(Span) /\ m.beamType \in BeamTypes /\ m.supports \in Seq(BeamSupport)
  BY BeamFields
<1>2. left \in Seq(Span) /\ prior \in Seq(BeamSupport)
  BY <1>1, WithoutIsSeq
<1>3. WithoutSpans(m, gone) = withSpans(m, spans, type, prior)
  BY DEF WithoutSpans
<1> HIDE DEF left, prior
<1>4. spans \in Seq(Span)
  BY <1>2, RenumberedAre
<1>5. type \in BeamTypes
  BY <1>1 DEF BeamTypes
<1> HIDE DEF spans, type
<1> QED  BY <1>2, <1>3, <1>4, <1>5, WithSpansIs

LEMMA SpanPatched ==
  ASSUME NEW m \in Beams, NEW i \in DOMAIN m.spans, NEW span \in Span
  PROVE  updateSpanPatch(m, i, span) \in Beams
<1> DEFINE spans == [m.spans EXCEPT ![i] = span]
<1>1. m.spans \in Seq(Span) /\ m.beamType \in BeamTypes /\ m.supports \in Seq(BeamSupport)
  BY BeamFields
<1>2. spans \in Seq(Span)
  BY <1>1, UpdateIsSeq
<1>3. updateSpanPatch(m, i, span) = withSpans(m, spans, m.beamType, m.supports)
  BY DEF updateSpanPatch
<1> HIDE DEF spans
<1> QED  BY <1>1, <1>2, <1>3, WithSpansIs

LEMMA SpanAt ==
  ASSUME NEW m \in Beams, NEW i \in DOMAIN m.spans
  PROVE  /\ m.spans[i] \in Span /\ m.spans[i].length \in Int
         /\ \A id \in Identifier : [m.spans[i] EXCEPT !.id = id] \in Span
         /\ \A length \in Int : [m.spans[i] EXCEPT !.length = length] \in Span
<1>1. m.spans[i] \in Span
  BY BeamFields
<1> QED  BY <1>1 DEF Span

LEMMA MovedJointIs ==
  ASSUME NEW m \in Beams, NEW i \in 1..Len(m.spans) - 1, NEW x \in Int
  PROVE  moveJoint(m, i, x) \in Beams
<1> DEFINE both == m.spans[i].length + m.spans[i + 1].length
           begin == beamSpanBoundaries(m.spans)[i]
           left == larger(100, smaller(both - 100, x - begin))
           a == [m.spans[i] EXCEPT !.length = left]
           b == [m.spans[i + 1] EXCEPT !.length = both - left]
           s1 == [m.spans EXCEPT ![i] = a]
           spans == [s1 EXCEPT ![i + 1] = b]
<1>1. m.spans \in Seq(Span) /\ m.beamType \in BeamTypes /\ m.supports \in Seq(BeamSupport)
  BY BeamFields
<1>2. Len(m.spans) \in Nat /\ i \in Int /\ DOMAIN m.spans = 1..Len(m.spans)
  BY <1>1
<1>3. i \in DOMAIN m.spans /\ i + 1 \in DOMAIN m.spans /\ i # i + 1 /\ i \in 1..Len(m.spans) + 1
  BY <1>2
<1>4. m.spans[i].length \in Int /\ m.spans[i + 1].length \in Int
  BY <1>3, SpanAt
<1>5. begin \in Int
  BY <1>1, <1>3, BoundariesAre
<1>6. both \in Int
  BY <1>4
<1>7. moveJoint(m, i, x) =
        withSpans(m, [m.spans EXCEPT ![i].length = left, ![i + 1].length = both - left], m.beamType, m.supports)
  BY Zenon DEF moveJoint
<1> HIDE DEF both, begin
<1>8. left \in Int
  BY <1>5, <1>6 DEF larger, smaller
<1> HIDE DEF left
<1>9. both - left \in Int
  BY <1>6, <1>8
<1> DEFINE right == both - left
<1>10. [m.spans EXCEPT ![i].length = left, ![i + 1].length = right] = spans
  BY <1>1, <1>3
<1> HIDE DEF right
<1>11. a \in Span /\ b \in Span
  BY <1>3, <1>8, <1>9, SpanAt DEF right
<1> HIDE DEF a, b
<1>12. s1 \in Seq(Span) /\ DOMAIN s1 = DOMAIN m.spans
  BY <1>1, <1>3, <1>11, UpdateIsSeq
<1> HIDE DEF s1
<1>13. spans \in Seq(Span)
  BY <1>3, <1>11, <1>12, UpdateIsSeq
<1> HIDE DEF spans
<1> QED  BY <1>1, <1>7, <1>10, <1>13, WithSpansIs DEF right

LEMMA TotalIs ==
  ASSUME NEW spans \in Seq(Span)
  PROVE  totalLength(spans) \in Int
<1>1. beamSpanBoundaries(spans) \in Seq(Int) /\ Len(beamSpanBoundaries(spans)) = Len(spans) + 1
  BY BoundariesAre
<1> HIDE DEF beamSpanBoundaries
<1>2. Len(spans) \in Nat
  OBVIOUS
<1> QED  BY <1>1, <1>2 DEF totalLength

LEMMA SpanAdditions ==
  ASSUME model \in Beams, BeamFits(model), addSpan \/ applyBeamGeometryAction
  PROVE  BeamEdited
<1>1. CASE addSpan
  <2>1. beamCommit(WithSpan(model, DefaultLength))
    BY <1>1 DEF addSpan
  <2>2. WithSpan(model, DefaultLength) \in Beams
    BY BeamLimitsAre, WithSpanIs
  <2> QED  BY <2>1, <2>2, BeamCommitIs
<1>2. CASE applyBeamGeometryAction
  <2> DEFINE length == model.spans[Len(model.spans)].length
  <2>1. beamCommit(WithSpan(model, length))
    BY <1>2 DEF applyBeamGeometryAction
  <2>2. model.spans \in Seq(Span) /\ model.spans # <<>>
    BY BeamFields DEF BeamFits, SpansFit
  <2>3. Len(model.spans) \in DOMAIN model.spans
    BY <2>2
  <2>4. length \in Int
    BY <2>3, SpanAt
  <2> HIDE DEF length
  <2>5. WithSpan(model, length) \in Beams
    BY <2>4, WithSpanIs
  <2> QED  BY <2>1, <2>5, BeamCommitIs
<1> QED  BY <1>1, <1>2

LEMMA SpanRemovals ==
  ASSUME model \in Beams, removeSpan \/ deleteBeamSelections
  PROVE  BeamEdited
<1>1. PICK gone : beamCommit(WithoutSpans(model, gone))
  BY DEF removeSpan, deleteBeamSelections
<1> QED  BY <1>1, WithoutSpansIs, BeamCommitIs

LEMMA SpanEdits ==
  ASSUME model \in Beams, updateSpanId \/ updateSpan \/ updateSpanMaterial
  PROVE  BeamEdited
<1>1. CASE updateSpanId
  <2>1. PICK i \in DOMAIN model.spans, new \in BeamNewNames :
          beamRename(updateSpanPatch(model, i, [model.spans[i] EXCEPT !.id = new]), new, Ids(model.spans))
    BY <1>1 DEF updateSpanId
  <2> DEFINE span == [model.spans[i] EXCEPT !.id = new]
  <2>2. span \in Span
    BY BeamInputsAssumption, SpanAt
  <2> HIDE DEF span
  <2>3. updateSpanPatch(model, i, span) \in Beams
    BY <2>2, SpanPatched
  <2> QED  BY <2>1, <2>3, BeamRenameIs DEF span
<1>2. CASE updateSpan
  <2>1. PICK i \in DOMAIN model.spans, length \in Lengths :
          beamCommit(updateSpanPatch(model, i, [model.spans[i] EXCEPT !.length = length]))
    BY <1>2 DEF updateSpan
  <2> DEFINE span == [model.spans[i] EXCEPT !.length = length]
  <2>2. span \in Span
    BY BeamInputsAssumption, SpanAt
  <2> HIDE DEF span
  <2>3. updateSpanPatch(model, i, span) \in Beams
    BY <2>2, SpanPatched
  <2> QED  BY <2>1, <2>3, BeamCommitIs DEF span
<1>3. CASE updateSpanMaterial
  <2>1. PICK i \in DOMAIN model.spans : beamCommit(updateSpanPatch(model, i, model.spans[i]))
    BY <1>3 DEF updateSpanMaterial
  <2>2. updateSpanPatch(model, i, model.spans[i]) \in Beams
    BY SpanAt, SpanPatched
  <2> QED  BY <2>1, <2>2, BeamCommitIs
<1> QED  BY <1>1, <1>2, <1>3

----------------------------------------------------------------------------
(* Supports. *)

LEMMA SupportPatched ==
  ASSUME NEW m \in Beams, NEW i \in DOMAIN m.supports, NEW support \in BeamSupport
  PROVE  updateSupport(m, i, support) \in Beams
<1> DEFINE supports == [m.supports EXCEPT ![i] = support]
<1>1. m.supports \in Seq(BeamSupport)
  BY BeamFields
<1>2. supports \in Seq(BeamSupport)
  BY <1>1, UpdateIsSeq
<1>3. updateSupport(m, i, support) = [m EXCEPT !.supports = supports]
  BY DEF updateSupport
<1> HIDE DEF supports
<1> QED  BY <1>2, <1>3, BeamWith

LEMMA JointMoves ==
  ASSUME model \in Beams, moveBeamCanvasNode
  PROVE  BeamEdited
<1>1. PICK x \in Positions :
        \/ \E i \in 1..Len(model.spans) - 1 : beamCommit(moveJoint(model, i, x))
        \/ \E i \in DOMAIN model.supports :
             beamCommit([model EXCEPT !.supports[i].x = Clamped(x, 0, larger(100, totalLength(model.spans)))])
  BY DEF moveBeamCanvasNode
<1>2. x \in Int
  BY BeamInputsAssumption
<1>3. ASSUME NEW i \in 1..Len(model.spans) - 1, beamCommit(moveJoint(model, i, x)) PROVE BeamEdited
  BY <1>2, <1>3, MovedJointIs, BeamCommitIs
<1>4. ASSUME NEW i \in DOMAIN model.supports,
             beamCommit([model EXCEPT !.supports[i].x = Clamped(x, 0, larger(100, totalLength(model.spans)))])
      PROVE BeamEdited
  <2> DEFINE at == Clamped(x, 0, larger(100, totalLength(model.spans)))
             support == [model.supports[i] EXCEPT !.x = at]
  <2>1. model.spans \in Seq(Span) /\ model.supports[i] \in BeamSupport
    BY BeamFields
  <2>2. at \in Int
    <3>1. totalLength(model.spans) \in Int
      BY <2>1, TotalIs
    <3> QED  BY <1>2, <3>1 DEF Clamped, smaller, larger
  <2>3. [model EXCEPT !.supports[i].x = at] = updateSupport(model, i, support)
    BY DEF updateSupport
  <2> HIDE DEF at
  <2>4. support \in BeamSupport
    BY <2>1, <2>2 DEF BeamSupport
  <2> HIDE DEF support
  <2>5. updateSupport(model, i, support) \in Beams
    BY <2>4, SupportPatched
  <2> QED  BY <1>4, <2>3, <2>5, BeamCommitIs DEF at
<1> QED  BY <1>1, <1>3, <1>4

LEMMA ConstraintsAre ==
  ASSUME NEW type
  PROVE  beamSupportConstraints(type) \in SUBSET {"v", "rz"}
<1>1. CASE type = "fixed"
  BY <1>1 DEF beamSupportConstraints
<1>2. CASE type = "free"
  BY <1>2 DEF beamSupportConstraints
<1>3. CASE type # "fixed" /\ type # "free"
  BY <1>3 DEF beamSupportConstraints
<1> QED  BY <1>1, <1>2, <1>3

LEMMA WithDofIs ==
  ASSUME NEW support \in BeamSupport, NEW dof \in {"v", "rz"}, NEW mode
  PROVE  withDof(support, dof, mode) \in BeamSupport
<1> DEFINE held == (supportConstraints(support) \ {dof}) \cup IF mode = "fixed" THEN {dof} ELSE {}
           type == deriveSupportType(held, support.type)
           springs == (support.springs \ {dof}) \cup IF mode = "spring" THEN {dof} ELSE {}
           old == support
<1>1. withDof(support, dof, mode) = [support EXCEPT !.held = held, !.type = type, !.springs = springs]
  BY DEF withDof
<1>2. support.held \in (SUBSET {"v", "rz"}) \cup {Unstated} /\ support.springs \in SUBSET {"v", "rz"}
  BY BeamSupportFields
<1>3. supportConstraints(support) \in SUBSET {"v", "rz"}
  BY <1>2, HeldByIs
<1>4. held \in SUBSET {"v", "rz"}
  BY <1>3
<1>5. springs \in SUBSET {"v", "rz"}
  BY <1>2
<1> HIDE DEF held, springs
<1>6. type \in {"fixed", "pinned", "roller", "free"}
  <2>1. CASE held = {"v", "rz"}
    BY <2>1 DEF deriveSupportType
  <2>2. CASE held = {"v"} /\ support.type = "roller"
    <3>1. held # {"v", "rz"}
      BY <2>2
    <3> QED  BY <2>2, <3>1 DEF deriveSupportType
  <2>3. CASE held = {"v"} /\ support.type # "roller"
    <3>1. held # {"v", "rz"}
      BY <2>3
    <3> QED  BY <2>3, <3>1 DEF deriveSupportType
  <2>4. CASE held # {"v"} /\ held # {"v", "rz"}
    BY <2>4 DEF deriveSupportType
  <2> QED  BY <2>1, <2>2, <2>3, <2>4
<1> HIDE DEF type
<1> QED  BY <1>1, <1>4, <1>5, <1>6 DEF BeamSupport

LEMMA SupportEdits ==
  ASSUME model \in Beams, updateSupportId \/ updateSupportType \/ updateSupportDofMode \/ updateSupportSpring
  PROVE  BeamEdited
<1>0. ASSUME NEW i \in DOMAIN model.supports PROVE model.supports[i] \in BeamSupport
  BY <1>0, BeamFields
<1>1. CASE updateSupportId
  <2>1. PICK i \in DOMAIN model.supports, new \in BeamNewNames :
          beamRename(updateSupport(model, i, [model.supports[i] EXCEPT !.id = new]), new, Ids(model.supports))
    BY <1>1 DEF updateSupportId
  <2> DEFINE support == [model.supports[i] EXCEPT !.id = new]
  <2>2. support \in BeamSupport
    BY <1>0, BeamInputsAssumption DEF BeamSupport
  <2> HIDE DEF support
  <2>3. updateSupport(model, i, support) \in Beams
    BY <2>2, SupportPatched
  <2> QED  BY <2>1, <2>3, BeamRenameIs DEF support
<1>2. CASE updateSupportType
  <2>1. PICK i \in DOMAIN model.supports, type \in {"fixed", "pinned", "roller", "free"} :
          beamCommit(updateSupport(model, i,
            [model.supports[i] EXCEPT !.type = type, !.held = beamSupportConstraints(type), !.springs = {}]))
    BY <1>2 DEF updateSupportType
  <2> DEFINE held == beamSupportConstraints(type)
             support == [model.supports[i] EXCEPT !.type = type, !.held = held, !.springs = {}]
  <2>2. held \in SUBSET {"v", "rz"}
    BY ConstraintsAre
  <2> HIDE DEF held
  <2>3. support \in BeamSupport
    BY <1>0, <2>2 DEF BeamSupport
  <2> HIDE DEF support
  <2>4. updateSupport(model, i, support) \in Beams
    BY <2>3, SupportPatched
  <2> QED  BY <2>1, <2>4, BeamCommitIs DEF support, held
<1>3. CASE updateSupportDofMode
  <2>1. PICK i \in DOMAIN model.supports, dof \in {"v", "rz"}, mode \in {"fixed", "spring", "free"} :
          beamCommit(updateSupport(model, i, withDof(model.supports[i], dof, mode)))
    BY <1>3 DEF updateSupportDofMode
  <2>2. withDof(model.supports[i], dof, mode) \in BeamSupport
    BY <1>0, WithDofIs
  <2>3. updateSupport(model, i, withDof(model.supports[i], dof, mode)) \in Beams
    BY <2>2, SupportPatched
  <2> QED  BY <2>1, <2>3, BeamCommitIs
<1>4. CASE updateSupportSpring
  <2>0. PICK i \in DOMAIN model.supports : \E dof \in model.supports[i].springs :
          beamCommit([model EXCEPT !.supports[i].springs = model.supports[i].springs \ {dof}])
    BY <1>4 DEF updateSupportSpring
  <2>1. PICK dof \in model.supports[i].springs :
          beamCommit([model EXCEPT !.supports[i].springs = model.supports[i].springs \ {dof}])
    BY <2>0
  <2> DEFINE springs == model.supports[i].springs \ {dof}
             support == [model.supports[i] EXCEPT !.springs = springs]
  <2>2. springs \in SUBSET {"v", "rz"}
    <3>1. model.supports[i].springs \in SUBSET {"v", "rz"}
      BY <1>0, BeamSupportFields
    <3> QED  BY <3>1
  <2>3. [model EXCEPT !.supports[i].springs = springs] = updateSupport(model, i, support)
    BY DEF updateSupport
  <2> HIDE DEF springs
  <2>4. support \in BeamSupport
    BY <1>0, <2>2 DEF BeamSupport
  <2> HIDE DEF support
  <2>5. updateSupport(model, i, support) \in Beams
    BY <2>4, SupportPatched
  <2> QED  BY <2>1, <2>3, <2>5, BeamCommitIs DEF springs
<1> QED  BY <1>1, <1>2, <1>3, <1>4

----------------------------------------------------------------------------
(* Loads of the beam. *)

LEMMA UniformEdits ==
  ASSUME model \in Beams, updateUniformLoadRange \/ toggleUniformLoad
  PROVE  BeamEdited
<1>1. model.uniform \in Uniform
  BY BeamFields
<1>2. CASE updateUniformLoadRange
  <2>1. PICK ratio \in PositionRatios :
          \/ beamCommit([model EXCEPT !.uniform = normalizeBeamRange([model.uniform EXCEPT !.from = ratio])])
          \/ beamCommit([model EXCEPT !.uniform = normalizeBeamRange([model.uniform EXCEPT !.to = ratio])])
    BY <1>2 DEF updateUniformLoadRange
  <2>2. ratio \in Int
    BY BeamInputsAssumption
  <2> DEFINE a == [model.uniform EXCEPT !.from = ratio]
             b == [model.uniform EXCEPT !.to = ratio]
  <2>3. a \in Uniform /\ b \in Uniform
    BY <1>1, <2>2 DEF Uniform
  <2> HIDE DEF a, b
  <2>4. normalizeBeamRange(a) \in Uniform /\ normalizeBeamRange(b) \in Uniform
    BY <2>3, UniformBecomesFit
  <2>5. [model EXCEPT !.uniform = normalizeBeamRange(a)] \in Beams
        /\ [model EXCEPT !.uniform = normalizeBeamRange(b)] \in Beams
    BY <2>4, BeamWith
  <2> QED  BY <2>1, <2>5, BeamCommitIs DEF a, b
<1>3. CASE toggleUniformLoad
  <2> DEFINE on == ~model.uniform.on
             u == [model.uniform EXCEPT !.on = on]
  <2>1. beamCommit([model EXCEPT !.uniform.on = on])
    BY <1>3 DEF toggleUniformLoad
  <2>2. [model EXCEPT !.uniform.on = on] = [model EXCEPT !.uniform = u]
    OBVIOUS
  <2>3. on \in BOOLEAN
    OBVIOUS
  <2> HIDE DEF on
  <2>4. u \in Uniform
    BY <1>1, <2>3 DEF Uniform
  <2> HIDE DEF u
  <2>5. [model EXCEPT !.uniform = u] \in Beams
    BY <2>4, BeamWith
  <2> QED  BY <2>1, <2>2, <2>5, BeamCommitIs
<1> QED  BY <1>2, <1>3

LEMMA FirstLinearIs ==
  ASSUME NEW m \in Beams
  PROVE  primaryLinearLoad(m) \in BeamRange
<1> DEFINE s == m.linear.loads
           draft == Draft("L", 1)
           id == IF m.linear.on THEN s[1].id ELSE draft
<1>1. s \in Seq(BeamRange)
  BY BeamFields DEF Linear
<1>2. 1 \in Int
  OBVIOUS
<1>3. draft \in Identifier
  BY <1>2, DraftsAre
<1>4. primaryLinearLoad(m) = IF s = <<>> THEN [id |-> draft, from |-> 0, to |-> 100] ELSE [s[1] EXCEPT !.id = id]
  BY DEF primaryLinearLoad
<1> HIDE DEF draft
<1>5. CASE s = <<>>
  BY <1>3, <1>4, <1>5 DEF BeamRange
<1>6. CASE s # <<>>
  <2> DEFINE first == s[1]
  <2>1. first \in BeamRange
    BY <1>1, <1>6
  <2>2. first.id \in Identifier
    BY <2>1 DEF BeamRange
  <2>3. id \in Identifier
    BY <1>3, <2>2
  <2>4. primaryLinearLoad(m) = [first EXCEPT !.id = id]
    BY <1>4, <1>6
  <2> HIDE DEF id, first
  <2> QED  BY <2>1, <2>3, <2>4 DEF BeamRange
<1> QED  BY <1>5, <1>6

(* Linear loads are switched on only if there are any. *)
LEMMA LinearEdits ==
  ASSUME model \in Beams, BeamFits(model), toggleLinearLoad \/ updatePrimaryLinearLoad
  PROVE  BeamEdited
<1> DEFINE s == model.linear.loads
           first == primaryLinearLoad(model)
<1>1. model.linear \in Linear /\ s \in Seq(BeamRange)
  BY BeamFields DEF Linear
<1>2. model.linear.on => s # <<>>
  BY DEF BeamFits
<1>3. first \in BeamRange
  BY FirstLinearIs
<1>4. CASE toggleLinearLoad
  <2> DEFINE off == [model.linear EXCEPT !.on = FALSE]
             on == [on |-> TRUE, loads |-> <<first>>]
             next == IF model.linear.on THEN off ELSE on
  <2>1. beamCommit([model EXCEPT !.linear = next])
    BY <1>4, Zenon DEF toggleLinearLoad
  <2> HIDE DEF first
  <2>5. off \in Linear
    BY <1>1 DEF Linear
  <2>2. on \in Linear
    <3> DEFINE loads == <<first>>
    <3>1. loads \in Seq(BeamRange)
      BY <1>3
    <3> HIDE DEF loads
    <3>2. [on |-> TRUE, loads |-> loads] \in Linear
      BY <3>1 DEF Linear
    <3> QED  BY <3>2 DEF loads
  <2> HIDE DEF on, off
  <2>3. next \in Linear
    BY <2>2, <2>5
  <2> HIDE DEF next
  <2>4. [model EXCEPT !.linear = next] \in Beams
    BY <2>3, BeamWith
  <2> QED  BY <2>1, <2>4, BeamCommitIs
<1>5. CASE updatePrimaryLinearLoad
  <2> DEFINE rest == IF model.linear.on THEN Tail(s) ELSE <<>>
             next(load) == [on |-> TRUE, loads |-> <<load>> \o rest]
  <2>1. PICK ratio \in PositionRatios :
          \/ beamCommit([model EXCEPT !.linear = next([first EXCEPT !.from = ratio])])
          \/ beamCommit([model EXCEPT !.linear = next([first EXCEPT !.to = ratio])])
    BY <1>5, Zenon DEF updatePrimaryLinearLoad
  <2>2. ratio \in Int
    BY BeamInputsAssumption
  <2>3. rest \in Seq(BeamRange)
    <3> HIDE DEF s
    <3> QED  BY <1>1, <1>2
  <2> HIDE DEF rest, first
  <2> DEFINE a == [first EXCEPT !.from = ratio]
             b == [first EXCEPT !.to = ratio]
  <2>4. a \in BeamRange /\ b \in BeamRange
    BY <1>3, <2>2 DEF BeamRange
  <2> HIDE DEF a, b
  <2>5. ASSUME NEW load \in BeamRange PROVE [model EXCEPT !.linear = next(load)] \in Beams
    <3>1. <<load>> \in Seq(BeamRange)
      OBVIOUS
    <3>2. <<load>> \o rest \in Seq(BeamRange)
      BY <2>3, <3>1, ConcatIsSeq
    <3> DEFINE loads == <<load>> \o rest
               linear == [on |-> TRUE, loads |-> loads]
    <3> HIDE DEF loads
    <3>3. linear \in Linear
      BY <3>2 DEF Linear, loads
    <3> HIDE DEF linear
    <3>4. [model EXCEPT !.linear = linear] \in Beams
      BY <3>3, BeamWith
    <3> QED  BY <3>4 DEF linear, loads
  <2>6. [model EXCEPT !.linear = next(a)] \in Beams /\ [model EXCEPT !.linear = next(b)] \in Beams
    BY <2>4, <2>5
  <2> HIDE DEF next
  <2> QED  BY <2>1, <2>6, BeamCommitIs DEF a, b
<1> QED  BY <1>4, <1>5

LEMMA WithPointsIs ==
  ASSUME NEW m \in Beams, NEW points \in Seq(BeamPoint), NEW none \in Int
  PROVE  withPoints(m, points, none) \in Beams
<1> DEFINE at == IF points = <<>> THEN none ELSE points[1].at
           m1 == [m EXCEPT !.points = points]
           m2 == [m1 EXCEPT !.pointAt = at]
<1>1. at \in Int
  <2>1. ASSUME points # <<>> PROVE points[1].at \in Int
    <3>1. points[1] \in BeamPoint
      BY <2>1
    <3> QED  BY <3>1 DEF BeamPoint
  <2> QED  BY <2>1
<1>2. withPoints(m, points, none) = m2
  BY DEF withPoints
<1> HIDE DEF at
<1>3. m1 \in Beams
  BY BeamWith
<1> HIDE DEF m1
<1>4. m2 \in Beams
  BY <1>1, <1>3, BeamWith
<1> QED  BY <1>2, <1>4

LEMMA PointEdits ==
  ASSUME model \in Beams, addPointLoad \/ updatePointLoad \/ removePointLoad
  PROVE  BeamEdited
<1>1. model.points \in Seq(BeamPoint) /\ model.pointAt \in Int
  BY BeamFields
<1>2. CASE addPointLoad
  <2> DEFINE n == Len(model.points) + 1
             at == IF n = 1 THEN model.pointAt ELSE (100 * n) \div (n + 1)
             id == Draft("P", n)
             point == [id |-> id, at |-> at]
             points == Append(model.points, point)
  <2>1. beamCommit(withPoints(model, points, model.pointAt))
    BY <1>2 DEF addPointLoad
  <2>2. n \in Nat \ {0}
    BY <1>1
  <2> HIDE DEF n
  <2>3. id \in Identifier
    BY <2>2, DraftsAre
  <2>4. at \in Int
    <3>1. n + 1 \in Nat \ {0} /\ 100 * n \in Int
      BY <2>2
    <3>2. (100 * n) \div (n + 1) \in Int
      BY <3>1
    <3> QED  BY <1>1, <3>2
  <2> HIDE DEF id, at
  <2>5. point \in BeamPoint
    BY <2>3, <2>4 DEF BeamPoint
  <2> HIDE DEF point
  <2>6. points \in Seq(BeamPoint)
    BY <1>1, <2>5, AppendIsSeq
  <2> HIDE DEF points
  <2>7. withPoints(model, points, model.pointAt) \in Beams
    BY <1>1, <2>6, WithPointsIs
  <2> QED  BY <2>1, <2>7, BeamCommitIs
<1>3. CASE updatePointLoad
  <2>1. PICK i \in DOMAIN model.points, ratio \in PositionRatios :
          beamCommit(withPoints(model, [model.points EXCEPT ![i].at = ratio], model.pointAt))
    BY <1>3 DEF updatePointLoad
  <2> DEFINE s == model.points
             point == [s[i] EXCEPT !.at = ratio]
             points == [s EXCEPT ![i] = point]
  <2>2. s[i] \in BeamPoint /\ ratio \in Int
    BY <1>1, BeamInputsAssumption
  <2>3. point \in BeamPoint
    BY <2>2 DEF BeamPoint
  <2>4. [model.points EXCEPT ![i].at = ratio] = points
    OBVIOUS
  <2> HIDE DEF point
  <2>5. points \in Seq(BeamPoint)
    BY <1>1, <2>3, UpdateIsSeq
  <2> HIDE DEF points
  <2>6. withPoints(model, points, model.pointAt) \in Beams
    BY <1>1, <2>5, WithPointsIs
  <2> QED  BY <2>1, <2>4, <2>6, BeamCommitIs
<1>4. CASE removePointLoad
  <2>1. PICK i \in DOMAIN model.points : beamCommit(withPoints(model, RemoveAt(model.points, i), 50))
    BY <1>4 DEF removePointLoad
  <2> DEFINE points == RemoveAt(model.points, i)
             middle == 50
  <2>2. points \in Seq(BeamPoint)
    BY <1>1, RemoveAtIsSeq
  <2>3. middle \in Int
    OBVIOUS
  <2> HIDE DEF points, middle
  <2>4. withPoints(model, points, middle) \in Beams
    BY <2>2, <2>3, WithPointsIs
  <2> QED  BY <2>1, <2>4, BeamCommitIs DEF points, middle
<1> QED  BY <1>2, <1>3, <1>4

----------------------------------------------------------------------------
(* Load cases and combinations of a beam. *)

LEMMA BeamCaseFields ==
  ASSUME NEW m \in Beams
  PROVE  /\ m.cases \in Seq(BeamCase) /\ m.combinations \in Seq(Combination)
         /\ \A i \in DOMAIN m.cases : /\ m.cases[i] \in BeamCase /\ m.cases[i].id \in Identifier
                                      /\ m.cases[i].loads \in Seq(CaseLoad)
<1>1. m.cases \in Seq(BeamCase) /\ m.combinations \in Seq(Combination)
  BY BeamFields
<1>2. ASSUME NEW i \in DOMAIN m.cases
      PROVE  m.cases[i] \in BeamCase /\ m.cases[i].id \in Identifier /\ m.cases[i].loads \in Seq(CaseLoad)
  <2>1. m.cases[i] \in BeamCase
    BY <1>1
  <2> QED  BY <2>1 DEF BeamCase, CaseLoad
<1> QED  BY <1>1, <1>2

LEMMA BeamRenameCaseIs ==
  ASSUME NEW m \in Beams, NEW i \in DOMAIN m.cases, NEW new \in Identifier
  PROVE  renameCase(m, i, new) \in Beams
<1> DEFINE old == m.cases[i].id
           with(c) == [id \in (DOMAIN c.factors \ {old}) \cup {new} |-> IF id = new THEN c.factors[old] ELSE c.factors[id]]
           follow(c) == IF old \notin DOMAIN c.factors THEN c ELSE [c EXCEPT !.factors = with(c)]
           cases == [m.cases EXCEPT ![i].id = new]
           combinations == [k \in DOMAIN m.combinations |-> follow(m.combinations[k])]
           m1 == [m EXCEPT !.cases[i].id = new, !.combinations = combinations]
<1>1. m.cases \in Seq(BeamCase) /\ m.combinations \in Seq(Combination)
  BY BeamFields
<1>2. cases \in Seq(BeamCase) /\ old \in Identifier
  BY <1>1, RenamedIs, BeamCasesAreNamed
<1>3. renameCase(m, i, new) = IF new = old THEN m ELSE m1
  BY Zenon DEF renameCase, Each
<1>4. m1 = [[m EXCEPT !.cases = cases] EXCEPT !.combinations = combinations]
  BY BeamFields
<1> HIDE DEF m1, cases, old
<1>5. ASSUME NEW c \in Combination PROVE follow(c) \in Combination
  <2>1. CASE old \notin DOMAIN c.factors
    BY <2>1
  <2>2. CASE old \in DOMAIN c.factors
    <3>1. DOMAIN c.factors \subseteq Identifier /\ c.factors \in [DOMAIN c.factors -> Int]
      BY CombinationIs
    <3> DEFINE D == (DOMAIN c.factors \ {old}) \cup {new}
               f == with(c)
    <3>2. D \in SUBSET Identifier /\ f \in [D -> Int]
      BY <2>2, <3>1
    <3>3. follow(c) = [c EXCEPT !.factors = f]
      BY <2>2
    <3> HIDE DEF D, f, follow
    <3> QED  BY <3>2, <3>3, CombinationWith
  <2> QED  BY <2>1, <2>2
<1>6. combinations \in Seq(Combination)
  <2> DEFINE g == combinations
  <2>1. g = [k \in DOMAIN m.combinations |-> g[k]] /\ \A k \in DOMAIN m.combinations : g[k] = follow(m.combinations[k])
    OBVIOUS
  <2>4. \A k \in DOMAIN m.combinations : m.combinations[k] \in Combination
    BY <1>1
  <2>5. \A c \in Combination : follow(c) \in Combination
    BY <1>5
  <2> HIDE DEF g, follow
  <2>2. \A k \in DOMAIN m.combinations : g[k] \in Combination
    BY <2>1, <2>4, <2>5, Zenon
  <2>3. g \in Seq(Combination)
    BY <1>1, <2>1, <2>2, MapIsSeq
  <2> QED  BY <2>3 DEF g
<1> HIDE DEF combinations
<1> DEFINE m2 == [m EXCEPT !.cases = cases]
<1>7. m2 \in Beams
  BY <1>2, BeamWith
<1> HIDE DEF m2
<1>8. [m2 EXCEPT !.combinations = combinations] \in Beams
  BY <1>6, <1>7, BeamWith
<1> QED  BY <1>3, <1>4, <1>8 DEF m2

LEMMA BeamRemoveCaseIs ==
  ASSUME NEW m \in Beams, NEW i \in DOMAIN m.cases
  PROVE  removeCase(m, i) \in Beams
<1> DEFINE id == m.cases[i].id
           without(c) == [c EXCEPT !.factors = [k \in DOMAIN c.factors \ {id} |-> c.factors[k]]]
           left == [k \in DOMAIN m.combinations |-> without(m.combinations[k])]
           cases == RemoveAt(m.cases, i)
           combinations == Where(left, {c \in Elements(left) : DOMAIN c.factors # {}})
<1>1. m.cases \in Seq(BeamCase) /\ m.combinations \in Seq(Combination)
  BY BeamFields
<1>2. cases \in Seq(BeamCase)
  BY <1>1, RemoveAtIsSeq
<1>3. removeCase(m, i) = [m EXCEPT !.cases = cases, !.combinations = combinations]
  BY Zenon DEF removeCase, Each
<1> HIDE DEF cases, id
<1>4. ASSUME NEW c \in Combination PROVE without(c) \in Combination
  <2>1. DOMAIN c.factors \subseteq Identifier /\ c.factors \in [DOMAIN c.factors -> Int]
    BY CombinationIs
  <2> DEFINE D == DOMAIN c.factors \ {id}
             f == [k \in D |-> c.factors[k]]
  <2>2. D \in SUBSET Identifier /\ f \in [D -> Int]
    BY <2>1
  <2>3. without(c) = [c EXCEPT !.factors = f]
    OBVIOUS
  <2> HIDE DEF D, f, without
  <2> QED  BY <2>2, <2>3, CombinationWith
<1>5. left \in Seq(Combination)
  <2> DEFINE g == left
  <2>1. g = [k \in DOMAIN m.combinations |-> g[k]] /\ \A k \in DOMAIN m.combinations : g[k] = without(m.combinations[k])
    OBVIOUS
  <2>4. \A k \in DOMAIN m.combinations : m.combinations[k] \in Combination
    BY <1>1
  <2>5. \A c \in Combination : without(c) \in Combination
    BY <1>4
  <2> HIDE DEF g, without
  <2>2. \A k \in DOMAIN m.combinations : g[k] \in Combination
    BY <2>1, <2>4, <2>5, Zenon
  <2>3. g \in Seq(Combination)
    BY <1>1, <2>1, <2>2, MapIsSeq
  <2> QED  BY <2>3 DEF g
<1> HIDE DEF left
<1>6. combinations \in Seq(Combination)
  BY <1>5, WhereIsSeq
<1> HIDE DEF combinations
<1> DEFINE m2 == [m EXCEPT !.cases = cases]
<1>7. m2 \in Beams
  BY <1>2, BeamWith
<1>8. removeCase(m, i) = [m2 EXCEPT !.combinations = combinations]
  BY <1>3, BeamFields
<1> HIDE DEF m2
<1> QED  BY <1>6, <1>7, <1>8, BeamWith

LEMMA NewCaseLoadIs ==
  ASSUME NEW type \in {"uniform", "linear", "point"}, NEW total \in Int
  PROVE  createBeamCaseLoadForType(type, total) \in CaseLoad
<1>1. total \div 2 \in Int
  OBVIOUS
<1> QED  BY <1>1 DEF createBeamCaseLoadForType, CaseLoad

LEMMA EditedCaseLoadsAre ==
  ASSUME NEW load \in CaseLoad, NEW total \in Int
  PROVE  editedCaseLoad(load, total) \subseteq CaseLoad
<1> SUFFICES ASSUME NEW new \in editedCaseLoad(load, total)
             PROVE  new \in CaseLoad
  OBVIOUS
<1>1. \/ \E type \in {"uniform", "linear", "point"} : new = createBeamCaseLoadForType(type, total)
      \/ \E x \in Positions : \/ new = [load EXCEPT !.from = Clamped(x, 0, total), !.to = Clamped(x, 0, total)]
                              \/ new = [load EXCEPT !.from = Clamped(x, 0, total)]
                              \/ new = [load EXCEPT !.to = Clamped(x, 0, total)]
  BY Zenon DEF editedCaseLoad
<1>2. ASSUME NEW x \in Positions, \/ new = [load EXCEPT !.from = Clamped(x, 0, total), !.to = Clamped(x, 0, total)]
                                  \/ new = [load EXCEPT !.from = Clamped(x, 0, total)]
                                  \/ new = [load EXCEPT !.to = Clamped(x, 0, total)]
      PROVE  new \in CaseLoad
  <2> DEFINE at == Clamped(x, 0, total)
  <2>1. x \in Int
    BY BeamInputsAssumption
  <2>2. at \in Int
    BY <2>1 DEF Clamped, smaller, larger
  <2>3. \/ new = [load EXCEPT !.from = at, !.to = at]
        \/ new = [load EXCEPT !.from = at]
        \/ new = [load EXCEPT !.to = at]
    BY <1>2
  <2> HIDE DEF at
  <2> QED  BY <2>2, <2>3 DEF CaseLoad
<1> QED  BY <1>1, <1>2, NewCaseLoadIs

LEMMA CaseReloaded ==
  ASSUME NEW m \in Beams, NEW i \in DOMAIN m.cases, NEW s \in Seq(CaseLoad)
  PROVE  [m EXCEPT !.cases[i].loads = s] \in Beams
<1> DEFINE case == [m.cases[i] EXCEPT !.loads = s]
           cases == [m.cases EXCEPT ![i] = case]
<1>1. m.cases \in Seq(BeamCase) /\ m.cases[i] \in BeamCase
  BY BeamCaseFields
<1>2. case \in BeamCase
  BY <1>1 DEF BeamCase, CaseLoad
<1>3. [m EXCEPT !.cases[i].loads = s] = [m EXCEPT !.cases = cases]
  OBVIOUS
<1> HIDE DEF case
<1>4. cases \in Seq(BeamCase)
  BY <1>1, <1>2, UpdateIsSeq
<1> HIDE DEF cases
<1> QED  BY <1>3, <1>4, BeamWith

LEMMA BeamCaseEdits ==
  ASSUME model \in Beams,
         addLoadCase \/ updateLoadCase \/ removeLoadCase \/ addLoadToCase \/ removeLoadFromCase \/ updateLoadInCase
  PROVE  BeamEdited
<1> DEFINE total == totalLength(model.spans)
           load == createBeamCaseLoadForType("uniform", total)
<1>1. total \in Int
  BY BeamFields, TotalIs
<1>2. load \in CaseLoad
  BY <1>1, NewCaseLoadIs
<1>3. CASE addLoadCase
  <2> DEFINE id == nextFrameDraftId("LC", Ids(model.cases))
             loads == <<load>>
             case == [id |-> id, loads |-> loads]
             cases == Append(model.cases, case)
  <2>1. beamCommit([model EXCEPT !.cases = cases])
    BY <1>3, Zenon DEF addLoadCase
  <2>2. model.cases \in Seq(BeamCase)
    BY BeamFields
  <2>3. IsFiniteSet(Ids(model.cases)) /\ Ids(model.cases) \in SUBSET Identifier
    BY <2>2, IdsAreFinite, IdsAreIdentifiers, BeamCasesAreNamed
  <2>4. id \in Identifier
    BY <2>3, LiteralsAreText, NextDraftIsFree
  <2> HIDE DEF load, id
  <2>5. loads \in Seq(CaseLoad)
    BY <1>2
  <2> HIDE DEF loads
  <2>6. case \in BeamCase
    BY <2>4, <2>5 DEF BeamCase, CaseLoad
  <2> HIDE DEF case
  <2>7. cases \in Seq(BeamCase)
    BY <2>2, <2>6, AppendIsSeq
  <2> HIDE DEF cases
  <2>8. [model EXCEPT !.cases = cases] \in Beams
    BY <2>7, BeamWith
  <2> QED  BY <2>1, <2>8, BeamCommitIs
<1>4. CASE updateLoadCase
  <2>1. PICK i \in DOMAIN model.cases, new \in BeamNewNames :
          beamRename(renameCase(model, i, new), new, Ids(model.cases))
    BY <1>4 DEF updateLoadCase
  <2>2. new \in Identifier
    BY BeamInputsAssumption
  <2>3. renameCase(model, i, new) \in Beams
    BY <2>2, BeamRenameCaseIs
  <2> QED  BY <2>1, <2>3, BeamRenameIs
<1>5. CASE removeLoadCase
  <2>1. PICK i \in DOMAIN model.cases : beamCommit(removeCase(model, i))
    BY <1>5 DEF removeLoadCase
  <2>2. removeCase(model, i) \in Beams
    BY BeamRemoveCaseIs
  <2> QED  BY <2>1, <2>2, BeamCommitIs
<1>6. CASE addLoadToCase
  <2>1. PICK i \in DOMAIN model.cases :
          beamCommit([model EXCEPT !.cases[i].loads = Append(model.cases[i].loads, load)])
    BY <1>6 DEF addLoadToCase
  <2> DEFINE s == Append(model.cases[i].loads, load)
  <2>2. model.cases[i].loads \in Seq(CaseLoad)
    BY BeamCaseFields
  <2> HIDE DEF load
  <2>3. s \in Seq(CaseLoad)
    BY <1>2, <2>2, AppendIsSeq
  <2> HIDE DEF s
  <2>4. [model EXCEPT !.cases[i].loads = s] \in Beams
    BY <2>3, CaseReloaded
  <2> QED  BY <2>1, <2>4, BeamCommitIs DEF s
<1>7. CASE removeLoadFromCase
  <2>0. PICK i \in DOMAIN model.cases : \E k \in DOMAIN model.cases[i].loads :
          beamCommit([model EXCEPT !.cases[i].loads = RemoveAt(model.cases[i].loads, k)])
    BY <1>7 DEF removeLoadFromCase
  <2>1. PICK k \in DOMAIN model.cases[i].loads :
          beamCommit([model EXCEPT !.cases[i].loads = RemoveAt(model.cases[i].loads, k)])
    BY <2>0
  <2> DEFINE s == RemoveAt(model.cases[i].loads, k)
  <2>2. model.cases[i].loads \in Seq(CaseLoad)
    BY BeamCaseFields
  <2>3. s \in Seq(CaseLoad)
    BY <2>2, RemoveAtIsSeq
  <2> HIDE DEF s
  <2>4. [model EXCEPT !.cases[i].loads = s] \in Beams
    BY <2>3, CaseReloaded
  <2> QED  BY <2>1, <2>4, BeamCommitIs DEF s
<1>8. CASE updateLoadInCase
  <2>0. PICK i \in DOMAIN model.cases : \E k \in DOMAIN model.cases[i].loads :
          \E new \in editedCaseLoad(model.cases[i].loads[k], total) :
            beamCommit([model EXCEPT !.cases[i].loads[k] = new])
    BY <1>8 DEF updateLoadInCase
  <2>1. PICK k \in DOMAIN model.cases[i].loads : \E new \in editedCaseLoad(model.cases[i].loads[k], total) :
            beamCommit([model EXCEPT !.cases[i].loads[k] = new])
    BY <2>0
  <2>2. PICK new \in editedCaseLoad(model.cases[i].loads[k], total) :
            beamCommit([model EXCEPT !.cases[i].loads[k] = new])
    BY <2>1
  <2> HIDE DEF total
  <2> DEFINE r == model.cases[i].loads
             s == [r EXCEPT ![k] = new]
  <2>3. r \in Seq(CaseLoad) /\ r[k] \in CaseLoad
    BY BeamCaseFields
  <2>4. new \in CaseLoad
    BY <1>1, <2>3, EditedCaseLoadsAre
  <2>5. [model EXCEPT !.cases[i].loads[k] = new] = [model EXCEPT !.cases[i].loads = s]
    OBVIOUS
  <2>6. s \in Seq(CaseLoad)
    BY <2>3, <2>4, UpdateIsSeq
  <2> HIDE DEF s
  <2>7. [model EXCEPT !.cases[i].loads = s] \in Beams
    BY <2>6, CaseReloaded
  <2> QED  BY <2>2, <2>5, <2>7, BeamCommitIs
<1> QED  BY <1>3, <1>4, <1>5, <1>6, <1>7, <1>8

LEMMA BeamCombinationEdits ==
  ASSUME model \in Beams, addLoadCombination \/ updateLoadCombination \/ removeLoadCombination
  PROVE  BeamEdited
<1>1. model.combinations \in Seq(Combination) /\ Ids(model.cases) \in SUBSET Identifier
  BY BeamFields, BeamNames
<1>2. CASE addLoadCombination
  <2> DEFINE next == Append(model.combinations,
                       [id |-> nextFrameDraftId("COMB", Ids(model.combinations)),
                        factors |-> [id \in Ids(model.cases) |-> 1]])
  <2>1. beamCommit([model EXCEPT !.combinations = next])
    BY <1>2 DEF addLoadCombination
  <2>2. next \in Seq(Combination)
    BY <1>1, CombinationDrafted
  <2> HIDE DEF next
  <2>3. [model EXCEPT !.combinations = next] \in Beams
    BY <2>2, BeamWith
  <2> QED  BY <2>1, <2>3, BeamCommitIs
<1>3. CASE updateLoadCombination
  <2>1. PICK i \in DOMAIN model.combinations :
          \/ \E new \in BeamNewNames : beamCommit([model EXCEPT !.combinations[i].id = new])
          \/ \E id \in Ids(model.cases), factor \in {0, 1} :
               beamCommit([model EXCEPT !.combinations[i].factors =
                 withFactor(model.combinations[i].factors, id, factor)])
    BY <1>3 DEF updateLoadCombination
  <2>2. ASSUME NEW new \in BeamNewNames, beamCommit([model EXCEPT !.combinations[i].id = new]) PROVE BeamEdited
    <3> DEFINE s == [model.combinations EXCEPT ![i].id = new]
    <3>1. new \in Identifier
      BY BeamInputsAssumption
    <3>2. s \in Seq(Combination)
      BY <1>1, <3>1, CombinationRenamed
    <3>3. [model EXCEPT !.combinations[i].id = new] = [model EXCEPT !.combinations = s]
      OBVIOUS
    <3> HIDE DEF s
    <3>4. [model EXCEPT !.combinations = s] \in Beams
      BY <3>2, BeamWith
    <3> QED  BY <2>2, <3>3, <3>4, BeamCommitIs
  <2>3. ASSUME NEW id \in Ids(model.cases), NEW factor \in {0, 1},
               beamCommit([model EXCEPT !.combinations[i].factors =
                 withFactor(model.combinations[i].factors, id, factor)])
        PROVE  BeamEdited
    <3> DEFINE f == withFactor(model.combinations[i].factors, id, factor)
               s == [model.combinations EXCEPT ![i].factors = f]
    <3>1. id \in Identifier
      BY <1>1
    <3>2. s \in Seq(Combination)
      BY <1>1, <3>1, FactorIsSet
    <3> HIDE DEF f
    <3>3. [model EXCEPT !.combinations[i].factors = f] = [model EXCEPT !.combinations = s]
      OBVIOUS
    <3> HIDE DEF s
    <3>4. [model EXCEPT !.combinations = s] \in Beams
      BY <3>2, BeamWith
    <3> QED  BY <2>3, <3>3, <3>4, BeamCommitIs DEF f
  <2> QED  BY <2>1, <2>2, <2>3
<1>4. CASE removeLoadCombination
  <2>1. PICK i \in DOMAIN model.combinations :
          beamCommit([model EXCEPT !.combinations = RemoveAt(model.combinations, i)])
    BY <1>4 DEF removeLoadCombination
  <2> DEFINE s == RemoveAt(model.combinations, i)
  <2>2. s \in Seq(Combination)
    BY <1>1, RemoveAtIsSeq
  <2> HIDE DEF s
  <2>3. [model EXCEPT !.combinations = s] \in Beams
    BY <2>2, BeamWith
  <2> QED  BY <2>1, <2>3, BeamCommitIs DEF s
<1> QED  BY <1>2, <1>3, <1>4

(* The beam step. *)
LEMMA BeamSteps ==
  ASSUME model \in Beams, BeamFits(model), BeamNext \/ BeamReset
  PROVE  BeamEdited
BY WholeBeams, SpanAdditions, SpanRemovals, SpanEdits, JointMoves, SupportEdits, UniformEdits, LinearEdits,
   PointEdits, BeamCaseEdits, BeamCombinationEdits DEF BeamNext

----------------------------------------------------------------------------
(* The whole: a frame, a truss or a beam stays what it is, with numbers and
   names, and what the workspace normalizer has to put right is right. *)

ModelFits ==
  /\ kind \in {"frame", "truss", "beam"}
  /\ kind = "frame" => model \in Frames /\ FrameFits(model)
  /\ kind = "truss" => model \in Trusses /\ TrussFits(model)
  /\ kind = "beam" => model \in Beams /\ BeamFits(model)

LEMMA ModelFitsAtFirst ==
  ASSUME EditInit
  PROVE  ModelFits
<1>1. CASE kind = "frame" /\ Init
  <2>1. PICK start \in Starts : model = start.model
    BY <1>1 DEF Init
  <2>2. IsFrame(start.model) /\ normalizeFrameWorkspaceState(start.model) = start.model
    BY StartsAssumption
  <2>3. model \in Frames /\ normalizeFrameWorkspaceState(model) = model
    BY <2>1, <2>2, ModelIsPlane DEF IsFrame, Frames
  <2>4. FrameFits(model)
    BY <2>3, FrameBecomesFit
  <2> QED  BY <1>1, <2>3, <2>4 DEF ModelFits
<1>2. CASE kind = "truss" /\ TrussInit
  <2>1. PICK start \in TrussStarts : model = start.model
    BY <1>2 DEF TrussInit
  <2>2. IsTruss(start.model) /\ normalizeTrussWorkspaceState(start.model) = start.model
    BY TrussStartsAssumption
  <2>3. model \in Trusses /\ normalizeTrussWorkspaceState(model) = model
    BY <2>1, <2>2, ModelIsPlane DEF IsTruss, Trusses, TrussTypes
  <2>4. TrussFits(model)
    BY <2>3, TrussBecomesFit
  <2> QED  BY <1>2, <2>3, <2>4 DEF ModelFits
<1>3. CASE kind = "beam" /\ BeamInit
  <2>1. PICK start \in BeamStarts : model = start.model
    BY <1>3 DEF BeamInit
  <2>2. IsBeam(start.model) /\ normalizeBeamWorkspaceState(start.model) = start.model
    BY BeamStartsAssumption
  <2>3. model \in Beams /\ normalizeBeamWorkspaceState(model) = model
    BY <2>1, <2>2, ModelIsBeam
  <2>4. BeamFits(model)
    BY <2>3, BeamBecomesFit
  <2> QED  BY <1>3, <2>3, <2>4 DEF ModelFits
<1> QED  BY <1>1, <1>2, <1>3 DEF EditInit

LEMMA EditKeepsFits ==
  ASSUME ModelFits, [EditNext]_editVars
  PROVE  ModelFits'
<1>1. CASE UNCHANGED <<model, kind>>
  BY <1>1 DEF ModelFits
<1>2. CASE kind = "frame" /\ Next /\ UNCHANGED <<kind, reviews>>
  <2>1. model \in Frames
    BY <1>2 DEF ModelFits
  <2>2. PICK next \in Frames : updateWorkspace(next)
    BY <1>2, <2>1, FrameSteps DEF FrameEdited
  <2>3. model' = normalizeFrameWorkspaceState(next)
    BY <2>2 DEF updateWorkspace
  <2>4. model' \in Frames /\ FrameFits(model')
    BY <2>3, FrameBecomesFit
  <2> QED  BY <1>2, <2>4 DEF ModelFits
<1>3. CASE kind = "truss" /\ TrussNext /\ UNCHANGED <<kind, reviews>>
  <2>1. model \in Trusses
    BY <1>3 DEF ModelFits
  <2>2. PICK next \in Trusses : updateTrussWorkspace(next)
    BY <1>3, <2>1, TrussSteps DEF TrussEdited
  <2>3. model' = normalizeTrussWorkspaceState(next)
    BY <2>2 DEF updateTrussWorkspace
  <2>4. model' \in Trusses /\ TrussFits(model')
    BY <2>3, TrussBecomesFit
  <2> QED  BY <1>3, <2>4 DEF ModelFits
<1>4. CASE kind = "beam" /\ (BeamNext \/ BeamReset) /\ UNCHANGED kind
  <2>1. model \in Beams /\ BeamFits(model)
    BY <1>4 DEF ModelFits
  <2>2. PICK next \in Beams : updateBeamWorkspace(next)
    BY <1>4, <2>1, BeamSteps DEF BeamEdited
  <2>3. model' = normalizeBeamWorkspaceState(next)
    BY <2>2 DEF updateBeamWorkspace
  <2>4. model' \in Beams /\ BeamFits(model')
    BY <2>3, BeamBecomesFit
  <2> QED  BY <1>4, <2>4 DEF ModelFits
<1>5. CASE AddReviewPoint \/ DeleteReviewPoint
  BY <1>1, <1>5 DEF AddReviewPoint, DeleteReviewPoint, updateReviewPoints
<1>6. CASE UNCHANGED editVars
  BY <1>1, <1>6 DEF editVars, vars
<1> QED  BY <1>2, <1>3, <1>4, <1>5, <1>6 DEF EditNext

(* What the normalizer would have to put right never stays on the screen:
   after every edit of a frame, truss or beam, from every start, the model is
   one of its kind and fit, as every commit goes through the normalizer
   (frame-workspace.ts, truss-model.ts, beam-model.ts). *)
THEOREM EditedModelsFit == EditSpec => []ModelFits
BY ModelFitsAtFirst, EditKeepsFits, PTL DEF EditSpec

(* A project saved after any sequence of edits opens as the model that was
   saved: the normalizer that reads it changes nothing, and so drops no load,
   combination or support, renames nothing and moves no point of the beam. *)
THEOREM SavedModelsReopen == EditSpec => []ReopenKeepsModel
<1>1. ModelFits => ReopenKeepsModel
  BY FrameBecomesFit, TrussBecomesFit, BeamBecomesFit
     DEF ModelFits, ReopenKeepsModel, ByKind, FrameReopens, TrussReopens, BeamReopens
<1> QED  BY <1>1, EditedModelsFit, PTL

====
