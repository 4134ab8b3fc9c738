---------------------------- MODULE TurnsProofs -----------------------------
(***************************************************************************)
(* What a model is told, for every number of turns, messages and pieces of *)
(* text, every limit of the mailbox, all lists of calls and every wire     *)
(* format: the loop's copy of the journal is the journal, each call of a   *)
(* request has its result, and no call is skipped.                         *)
(*                                                                         *)
(* The invariant relates the copy to the places of the record that it was  *)
(* made of: while the calls of a turn are made, it is what the record said *)
(* up to the turn's answer, and all that came later is of that turn        *)
(* (Since). The lemmas before it are about a sequence at some of its       *)
(* places, and about the messages that are made of events one by one.      *)
(***************************************************************************)
EXTENDS ServiceProofs, WellFoundedInduction

-----------------------------------------------------------------------------
(* What a sequence has at some of its places.                              *)

Earlier(S) == {d \in S \X S : d[1] < d[2]}
LowerIn(S, e) == {d \in S : d < e}
PlacesIn(S) == SortedBy(S, Earlier(S))

LEMMA EarlierIsLinear == ASSUME NEW S, S \subseteq Nat PROVE LinearOn(S, Earlier(S))
BY DEF LinearOn, Earlier

LEMMA BeforeIs ==
  ASSUME NEW S, S \subseteq Nat, NEW e \in S
  PROVE  {d \in S : <<d, e>> \in Earlier(S)} = LowerIn(S, e) /\ Below1(S, Earlier(S), e) = LowerIn(S, e)
BY DEF LowerIn, Earlier, Below1

LEMMA FiniteOfNat == ASSUME NEW n \in Nat, NEW S, S \subseteq 1..n PROVE IsFiniteSet(S) /\ S \subseteq Nat
<1>1. \A x \in S : x \in Nat /\ x <= n
  OBVIOUS
<1> QED BY <1>1, FS_BoundedSetOfNaturals

\* A member's place says where it is.
LEMMA SortedPlace ==
  ASSUME NEW S, IsFiniteSet(S), S \subseteq Nat, NEW e \in S,
         NEW i \in Nat, Cardinality(LowerIn(S, e)) = i - 1
  PROVE  PlacesIn(S)[i] = e /\ i \in 1..Cardinality(S)
<1>1. LinearOn(S, Earlier(S))
  BY EarlierIsLinear
<1>2. PICK R : R = Earlier(S)
  OBVIOUS
<1>3. PlaceOf(S, R, e) = Cardinality(LowerIn(S, e)) + 1
  BY <1>2, BeforeIs DEF PlaceOf
<1>4. Cardinality(LowerIn(S, e)) \in Nat
  <2>1. LowerIn(S, e) \subseteq S
    BY DEF LowerIn
  <2> QED BY <2>1, FS_Subset, FS_CardinalityType
<1>5. PlaceOf(S, R, e) = i
  BY <1>3, <1>4
<1>6. PlaceOf(S, R, e) \in 1..Cardinality(S)
  BY <1>1, <1>2, PlacesAreApart
<1>7. \A d \in S : Cardinality({x \in S : <<x, d>> \in R}) = i - 1 => d = e
  <2> SUFFICES ASSUME NEW d \in S, Cardinality({x \in S : <<x, d>> \in R}) = i - 1, d # e PROVE FALSE
    OBVIOUS
  <2>1. PlaceOf(S, R, d) = i
    BY <1>2 DEF PlaceOf, Below1
  <2>2. <<d, e>> \in R \/ <<e, d>> \in R
    BY <1>1, <1>2 DEF LinearOn
  <2>3. PlaceOf(S, R, d) < PlaceOf(S, R, e) \/ PlaceOf(S, R, e) < PlaceOf(S, R, d)
    BY <1>1, <1>2, <2>2, PlacesAreApart
  <2> QED BY <1>5, <2>1, <2>3
<1>8. Cardinality({x \in S : <<x, e>> \in R}) = i - 1
  BY <1>2, BeforeIs
<1>9. i \in 1..Cardinality(S)
  BY <1>5, <1>6
<1>10. SortedBy(S, R)[i] = CHOOSE d \in S : Cardinality({x \in S : <<x, d>> \in R}) = i - 1
  BY <1>9 DEF SortedBy
<1>11. SortedBy(S, R)[i] = e
  BY <1>7, <1>8, <1>10
<1> QED BY <1>2, <1>9, <1>11 DEF PlacesIn

LEMMA SortedPlaces ==
  ASSUME NEW S, IsFiniteSet(S), S \subseteq Nat
  PROVE  /\ Cardinality(S) \in Nat /\ PlacesIn(S) \in [1..Cardinality(S) -> S]
         /\ Len(PlacesIn(S)) = Cardinality(S)
         /\ \A i, j \in 1..Cardinality(S) : i < j => PlacesIn(S)[i] < PlacesIn(S)[j]
         /\ \A e \in S : \E i \in 1..Cardinality(S) : PlacesIn(S)[i] = e
<1>1. PICK p : p = PlacesIn(S)
  OBVIOUS
<1>2. PICK R : R = Earlier(S) /\ LinearOn(S, R) /\ p = SortedBy(S, R)
  BY <1>1, EarlierIsLinear DEF PlacesIn
<1>3. PICK m \in Nat : m = Cardinality(S)
  BY FS_CardinalityType
<1>4. /\ p \in [1..m -> S]
      /\ \A i, j \in 1..m : i < j => <<p[i], p[j]>> \in R
      /\ \A e \in S : \E i \in 1..m : p[i] = e
  BY <1>2, <1>3, SortedByIsSorted
<1>5. Len(p) = m
  BY <1>2, <1>3, SortedSeq
<1>6. \A i, j \in 1..m : i < j => p[i] < p[j]
  BY <1>2, <1>4 DEF Earlier
<1> QED BY <1>1, <1>3, <1>4, <1>5, <1>6

LEMMA SortedRank ==
  ASSUME NEW S, IsFiniteSet(S), S \subseteq Nat, NEW i \in 1..Cardinality(S)
  PROVE  Cardinality(LowerIn(S, PlacesIn(S)[i])) = i - 1
<1>1. PICK p : p = PlacesIn(S)
  OBVIOUS
<1>2. PICK R : R = Earlier(S) /\ LinearOn(S, R)
  BY EarlierIsLinear
<1>3. PICK m \in Nat : m = Cardinality(S) /\ p \in [1..m -> S]
  BY <1>1, SortedPlaces
<1>4. PICK e \in S : e = p[i]
  BY <1>3
<1>5. PICK k : k = PlaceOf(S, R, e)
  OBVIOUS
<1>6. k \in 1..m /\ Cardinality(LowerIn(S, e)) = k - 1
  <2>1. k = Cardinality(LowerIn(S, e)) + 1
    BY <1>2, <1>5, BeforeIs DEF PlaceOf
  <2>2. k \in 1..m
    BY <1>2, <1>3, <1>5, PlacesAreApart
  <2>3. Cardinality(LowerIn(S, e)) \in Nat
    <3>1. LowerIn(S, e) \subseteq S
      BY DEF LowerIn
    <3> QED BY <3>1, FS_Subset, FS_CardinalityType
  <2> QED BY <2>1, <2>2, <2>3
<1>7. p[k] = e
  <2>1. k \in Nat
    BY <1>6
  <2> QED BY <1>1, <1>6, <2>1, SortedPlace
<1>8. \A x, y \in 1..m : x < y => p[x] < p[y]
  BY <1>1, <1>3, SortedPlaces
<1>9. \A x \in 1..m : p[x] \in Nat
  BY <1>3
<1>10. i = k
  BY <1>3, <1>4, <1>6, <1>7, <1>8, <1>9
<1> QED BY <1>1, <1>4, <1>6, <1>10

LEMMA PickedPlaces ==
  ASSUME NEW T, NEW seq \in Seq(T), NEW S, S \subseteq 1..Len(seq)
  PROVE  IsFiniteSet(S) /\ S \subseteq Nat /\ Cardinality(S) \in Nat
<1>1. PICK n \in Nat : n = Len(seq) /\ S \subseteq 1..n
  BY LenProperties
<1> QED BY <1>1, FiniteOfNat, FS_CardinalityType

LEMMA PickedIs ==
  ASSUME NEW T, NEW seq \in Seq(T), NEW S, S \subseteq 1..Len(seq)
  PROVE  Picked(seq, S) \in Seq(T) /\ Len(Picked(seq, S)) = Cardinality(S)
<1>1. PICK n \in Nat : n = Len(seq) /\ S \subseteq 1..n
  BY LenProperties
<1>b. PICK p : p = PlacesIn(S)
  OBVIOUS
<1>2. PICK m \in Nat : m = Cardinality(S) /\ p \in [1..m -> S] /\ Len(p) = m
  BY <1>b, PickedPlaces, SortedPlaces
<1>c. PICK t : t = Picked(seq, S)
  OBVIOUS
<1>3. t = [k \in 1..m |-> seq[p[k]]]
  BY <1>b, <1>c, <1>2 DEF Picked, PlacesIn, Earlier
<1>4. \A k \in 1..m : seq[p[k]] \in T
  BY <1>1, <1>2, ElementOfSeq
<1>5. t \in [1..m -> T]
  BY <1>3, <1>4
<1>6. t \in Seq(T)
  BY <1>5, SeqDef
<1>7. Len(t) = m
  BY <1>5, <1>6, LenProperties
<1> QED BY <1>c, <1>2, <1>6, <1>7

\* It does not matter what the sequence has elsewhere.
LEMMA PickedAgrees ==
  ASSUME NEW T, NEW seq \in Seq(T), NEW two \in Seq(T), NEW S, S \subseteq 1..Len(seq), S \subseteq 1..Len(two),
         \A i \in S : seq[i] = two[i]
  PROVE  Picked(seq, S) = Picked(two, S)
<1>1. IsFiniteSet(S) /\ S \subseteq Nat
  BY PickedPlaces
<1>2. PICK p : p = PlacesIn(S)
  OBVIOUS
<1>3. PICK m \in Nat : m = Cardinality(S) /\ p \in [1..m -> S]
  BY <1>1, <1>2, SortedPlaces
<1>4. PICK t, u : t = Picked(seq, S) /\ u = Picked(two, S)
  OBVIOUS
<1>5. t \in Seq(T) /\ Len(t) = m
  BY <1>3, <1>4, PickedIs
<1>5a. t = [k \in 1..m |-> seq[p[k]]]
  <2>1. Len(PlacesIn(S)) = m
    BY <1>1, <1>3, SortedPlaces
  <2> QED BY <1>2, <1>3, <1>4, <2>1 DEF Picked, PlacesIn, Earlier
<1>6. u \in Seq(T) /\ Len(u) = m
  BY <1>3, <1>4, PickedIs
<1>6a. u = [k \in 1..m |-> two[p[k]]]
  <2>1. Len(PlacesIn(S)) = m
    BY <1>1, <1>3, SortedPlaces
  <2> QED BY <1>2, <1>3, <1>4, <2>1 DEF Picked, PlacesIn, Earlier
<1>7. ASSUME NEW k \in 1..m PROVE t[k] = u[k]
  <2>1. p[k] \in S
    BY <1>3
  <2>2. seq[p[k]] = two[p[k]]
    BY <2>1
  <2> QED BY <1>5a, <1>6a, <2>2
<1>8. t = u
  BY <1>5, <1>6, <1>7, SeqEqual
<1> QED BY <1>4, <1>8

LEMMA CardUnion ==
  ASSUME NEW A, NEW B, IsFiniteSet(A), IsFiniteSet(B), A \cap B = {}
  PROVE  Cardinality(A \cup B) = Cardinality(A) + Cardinality(B) /\ Cardinality(A) \in Nat /\ Cardinality(B) \in Nat
<1>1. Cardinality(A) \in Nat /\ Cardinality(B) \in Nat
  BY FS_CardinalityType
<1>2. Cardinality(A \cup B) = Cardinality(A) + Cardinality(B) - Cardinality(A \cap B)
  BY FS_Union
<1>3. Cardinality(A \cap B) = 0
  BY FS_EmptySet
<1> QED BY <1>1, <1>2, <1>3

\* What comes after goes after.
LEMMA PickedConcat ==
  ASSUME NEW T, NEW seq \in Seq(T), NEW A, NEW B, A \cup B \subseteq 1..Len(seq),
         \A a \in A : \A b \in B : a < b
  PROVE  Picked(seq, A \cup B) = Picked(seq, A) \o Picked(seq, B)
<1>1. PICK n \in Nat : n = Len(seq)
  BY LenProperties
<1>2. PICK U : U = A \cup B
  OBVIOUS
<1>3. A \subseteq 1..n /\ B \subseteq 1..n /\ U \subseteq 1..n /\ A \cap B = {}
  BY <1>1, <1>2
<1>4. /\ IsFiniteSet(A) /\ IsFiniteSet(B) /\ IsFiniteSet(U)
      /\ U \subseteq Nat /\ A \subseteq Nat /\ B \subseteq Nat
  BY <1>3, FiniteOfNat
<1>5. PICK p, q, r : p = PlacesIn(A) /\ q = PlacesIn(B) /\ r = PlacesIn(U)
  OBVIOUS
<1>6. PICK x \in Nat, y \in Nat : x = Cardinality(A) /\ y = Cardinality(B) /\ Cardinality(U) = x + y
  BY <1>2, <1>3, <1>4, CardUnion
<1>7. p \in [1..x -> A] /\ q \in [1..y -> B] /\ r \in [1..(x + y) -> U]
  BY <1>4, <1>5, <1>6, SortedPlaces
<1>8. ASSUME NEW i \in 1..x PROVE r[i] = p[i]
  <2>a. PICK e \in A : e = p[i]
    BY <1>7
  <2>1. Cardinality(LowerIn(A, e)) = i - 1
    BY <1>4, <1>5, <1>6, <2>a, SortedRank
  <2>2. LowerIn(U, e) = LowerIn(A, e)
    <3>1. \A b \in B : ~(b < e)
      BY <1>3
    <3> QED BY <1>2, <3>1 DEF LowerIn
  <2>3. e \in U /\ i \in Nat
    BY <1>2
  <2>4. Cardinality(LowerIn(U, e)) = i - 1
    BY <2>1, <2>2
  <2>5. r[i] = e
    BY <1>4, <1>5, <2>3, <2>4, SortedPlace
  <2> QED BY <2>a, <2>5
<1>9. ASSUME NEW i \in 1..y PROVE r[x + i] = q[i]
  <2>a. PICK e \in B : e = q[i]
    BY <1>7
  <2>1. Cardinality(LowerIn(B, e)) = i - 1
    BY <1>4, <1>5, <1>6, <2>a, SortedRank
  <2>2. LowerIn(U, e) = A \cup LowerIn(B, e) /\ A \cap LowerIn(B, e) = {} /\ LowerIn(B, e) \subseteq B
    BY <1>2, <1>3 DEF LowerIn
  <2>3. Cardinality(LowerIn(U, e)) = x + (i - 1)
    BY <1>4, <1>6, <2>1, <2>2, FS_Subset, CardUnion
  <2>4. e \in U /\ x + i \in Nat /\ Cardinality(LowerIn(U, e)) = (x + i) - 1
    BY <1>2, <2>3
  <2>5. r[x + i] = e
    BY <1>4, <1>5, <2>4, SortedPlace
  <2> QED BY <2>a, <2>5
<1>10. PICK a, b, u : a = Picked(seq, A) /\ b = Picked(seq, B) /\ u = Picked(seq, U)
  OBVIOUS
<1>11. a \in Seq(T) /\ Len(a) = x
  BY <1>1, <1>3, <1>6, <1>10, PickedIs
<1>11a. a = [k \in 1..x |-> seq[p[k]]]
  <2>1. Len(PlacesIn(A)) = x
    BY <1>4, <1>6, SortedPlaces
  <2> QED BY <1>5, <1>6, <1>10, <2>1 DEF Picked, PlacesIn, Earlier
<1>12. b \in Seq(T) /\ Len(b) = y
  BY <1>1, <1>3, <1>6, <1>10, PickedIs
<1>12a. b = [k \in 1..y |-> seq[q[k]]]
  <2>1. Len(PlacesIn(B)) = y
    BY <1>4, <1>6, SortedPlaces
  <2> QED BY <1>5, <1>6, <1>10, <2>1 DEF Picked, PlacesIn, Earlier
<1>13. u \in Seq(T) /\ Len(u) = x + y
  BY <1>1, <1>3, <1>6, <1>10, PickedIs
<1>13a. u = [k \in 1..(x + y) |-> seq[r[k]]]
  <2>1. Len(PlacesIn(U)) = x + y
    BY <1>4, <1>6, SortedPlaces
  <2> QED BY <1>5, <1>6, <1>10, <2>1 DEF Picked, PlacesIn, Earlier
<1>14. PICK c : c = a \o b
  OBVIOUS
<1>15. c \in Seq(T) /\ Len(c) = x + y /\ \A i \in 1..(x + y) : c[i] = IF i <= x THEN a[i] ELSE b[i - x]
  BY <1>11, <1>12, <1>14, ConcatProperties
<1>16. ASSUME NEW i \in 1..(x + y) PROVE c[i] = u[i]
  <2>1. CASE i <= x
    <3>1. i \in 1..x
      BY <2>1
    <3>2. c[i] = a[i] /\ a[i] = seq[p[i]]
      BY <1>11a, <1>15, <2>1, <3>1
    <3>3. u[i] = seq[r[i]] /\ r[i] = p[i]
      BY <1>8, <1>13a, <3>1
    <3> QED BY <3>2, <3>3
  <2>2. CASE ~(i <= x)
    <3>1. PICK j \in 1..y : j = i - x /\ i = x + j
      BY <2>2
    <3>2. c[i] = b[j] /\ b[j] = seq[q[j]]
      BY <1>12a, <1>15, <2>2, <3>1
    <3>3. u[i] = seq[r[i]] /\ r[i] = q[j]
      BY <1>9, <1>13a, <3>1
    <3> QED BY <3>2, <3>3
  <2> QED BY <2>1, <2>2
<1>17. c = u
  BY <1>13, <1>15, <1>16, SeqEqual
<1> QED BY <1>2, <1>10, <1>14, <1>17

LEMMA PickedOne ==
  ASSUME NEW T, NEW seq \in Seq(T), NEW i \in 1..Len(seq)
  PROVE  Picked(seq, {i}) = <<seq[i]>>
<1>1. PICK S : S = {i} /\ S \subseteq 1..Len(seq)
  OBVIOUS
<1>2. PICK p : p = PlacesIn(S)
  OBVIOUS
<1>3. Cardinality(S) = 1
  BY <1>1, FS_Singleton
<1>4. IsFiniteSet(S) /\ S \subseteq Nat
  BY <1>1, PickedPlaces
<1>5. p \in [1..1 -> S]
  BY <1>2, <1>3, <1>4, SortedPlaces
<1>6. p[1] = i
  BY <1>1, <1>5
<1>7. PICK t : t = Picked(seq, S)
  OBVIOUS
<1>8. t \in Seq(T) /\ Len(t) = 1
  BY <1>1, <1>3, <1>7, PickedIs
<1>9. t[1] = seq[i]
  <2>1. Len(PlacesIn(S)) = 1
    BY <1>3, <1>4, SortedPlaces
  <2>2. t = [k \in 1..1 |-> seq[p[k]]]
    BY <1>2, <1>7, <2>1 DEF Picked, PlacesIn, Earlier
  <2> QED BY <1>6, <2>2
<1>10. t = <<seq[i]>>
  BY <1>8, <1>9
<1> QED BY <1>1, <1>7, <1>10

LEMMA PickedNone == ASSUME NEW T, NEW seq \in Seq(T) PROVE Picked(seq, {}) = <<>>
<1>1. PICK S : S = {} /\ S \subseteq 1..Len(seq)
  OBVIOUS
<1>2. Cardinality(S) = 0
  BY <1>1, FS_EmptySet
<1>3. Picked(seq, S) \in Seq(T) /\ Len(Picked(seq, S)) = 0
  BY <1>1, <1>2, PickedIs
<1> QED BY <1>1, <1>3, EmptySeq

\* One more event, which is picked too.
LEMMA PickedAppend ==
  ASSUME NEW T, NEW seq \in Seq(T), NEW x \in T, NEW S, S \subseteq 1..Len(seq)
  PROVE  /\ Picked(Append(seq, x), S) = Picked(seq, S)
         /\ Picked(Append(seq, x), S \cup {Len(seq) + 1}) = Append(Picked(seq, S), x)
<1>1. PICK n \in Nat : n = Len(seq)
  BY LenProperties
<1>2. PICK two : two = Append(seq, x)
  OBVIOUS
<1>3. two \in Seq(T) /\ Len(two) = n + 1 /\ two[n + 1] = x /\ \A i \in 1..n : two[i] = seq[i]
  BY <1>1, <1>2, AppendProperties
<1>4. S \subseteq 1..Len(two) /\ S \subseteq 1..n /\ n + 1 \in 1..Len(two)
  BY <1>1, <1>3
<1>5. Picked(two, S) = Picked(seq, S)
  BY <1>1, <1>3, <1>4, PickedAgrees
<1>6. Picked(two, {n + 1}) = <<x>>
  BY <1>3, <1>4, PickedOne
<1>7. Picked(two, S \cup {n + 1}) = Picked(two, S) \o Picked(two, {n + 1})
  <2>1. S \cup {n + 1} \subseteq 1..Len(two)
    BY <1>4
  <2>2. \A a \in S : \A b \in {n + 1} : a < b
    BY <1>4
  <2> QED BY <1>3, <2>1, <2>2, PickedConcat, ZenonT(60)
<1>8. Picked(seq, S) \in Seq(T)
  BY PickedIs
<1>9. Picked(seq, S) \o <<x>> = Append(Picked(seq, S), x)
  BY <1>8, AppendIsConcat
<1> QED BY <1>1, <1>2, <1>5, <1>6, <1>7, <1>9

\* What an item of a sequence that was picked is, and that two are two.
LEMMA PickedFrom ==
  ASSUME NEW T, NEW seq \in Seq(T), NEW S, S \subseteq 1..Len(seq)
  PROVE  \A k \in 1..Len(Picked(seq, S)) :
           /\ PlacesIn(S)[k] \in S /\ Picked(seq, S)[k] = seq[PlacesIn(S)[k]]
           /\ \A l \in 1..Len(Picked(seq, S)) : k # l => PlacesIn(S)[k] # PlacesIn(S)[l]
<1>1. IsFiniteSet(S) /\ S \subseteq Nat
  BY PickedPlaces
<1>2. PICK p : p = PlacesIn(S)
  OBVIOUS
<1>3. PICK m \in Nat : m = Cardinality(S) /\ p \in [1..m -> S] /\ Len(p) = m
  BY <1>1, <1>2, SortedPlaces
<1>4. PICK t : t = Picked(seq, S)
  OBVIOUS
<1>5. t = [k \in 1..m |-> seq[p[k]]]
  BY <1>2, <1>3, <1>4 DEF Picked, PlacesIn, Earlier
<1>6. Len(t) = m
  BY <1>3, <1>4, PickedIs
<1>7. \A k, l \in 1..m : k < l => p[k] < p[l]
  BY <1>1, <1>2, <1>3, SortedPlaces
<1>8. \A k, l \in 1..m : k # l => p[k] # p[l]
  <2>1. \A k \in 1..m : p[k] \in Nat
    BY <1>1, <1>3
  <2>2. \A k, l \in 1..m : k # l => k < l \/ l < k
    OBVIOUS
  <2> QED BY <1>7, <2>1, <2>2
<1>9. ASSUME NEW k \in 1..m PROVE t[k] = seq[p[k]] /\ p[k] \in S
  BY <1>3, <1>5
<1> QED BY <1>2, <1>4, <1>6, <1>8, <1>9

\* Of the numbers with a property one is the least.
LEMMA LeastIs == ASSUME NEW S, S \subseteq Nat, S # {} PROVE \E n \in S : \A m \in S : n <= m
<1> DEFINE R == OpToRel(<, Nat)
<1>1. IsWellFoundedOn(R, Nat)
  BY NatLessThanWellFounded
<1>2. \A m, n \in Nat : m < n => <<m, n>> \in R
  BY Zenon DEF OpToRel, R
<1> HIDE DEF R
<1>3. PICK n \in S : \A m \in S : ~(<<m, n>> \in R)
  BY <1>1, WFMin
<1>4. \A m \in S : ~(m < n)
  BY <1>2, <1>3
<1>5. \A m \in S : m \in Nat /\ n \in Nat /\ n <= m
  BY <1>4
<1> QED
  BY <1>5

-----------------------------------------------------------------------------
(* A sequence of sequences, one after the other.                           *)

FlatUpTo(g, m, k) ==
  DOMAIN g = 0..k /\ g[0] = <<>> /\ \A n \in 1..k : g[n] = g[n - 1] \o m[n]

LEMMA FlatOnce ==
  ASSUME NEW m, NEW k \in Nat, NEW l \in Nat, NEW g, NEW h, FlatUpTo(g, m, k), FlatUpTo(h, m, l),
         NEW n \in Nat, n <= k, n <= l
  PROVE  g[n] = h[n]
<1> SUFFICES ASSUME g[n] # h[n] PROVE FALSE
  OBVIOUS
<1>1. PICK S : S = {i \in 0..n : g[i] # h[i]}
  OBVIOUS
<1>2. n \in S /\ S \subseteq Nat
  BY <1>1
<1>3. PICK i \in S : \A j \in S : i <= j
  BY <1>2, LeastIs
<1>4. i \in 0..n /\ g[i] # h[i]
  BY <1>1, <1>3
<1>5. i # 0
  BY <1>4 DEF FlatUpTo
<1>6. i - 1 \in 0..n /\ i \in 1..k /\ i \in 1..l /\ i - 1 \notin S
  <2>1. i - 1 \in 0..n /\ i \in 1..k /\ i \in 1..l
    BY <1>4, <1>5
  <2>2. ~(i <= i - 1)
    BY <1>4
  <2> QED BY <1>3, <2>1, <2>2
<1>7. g[i - 1] = h[i - 1]
  BY <1>1, <1>6
<1>8. g[i] = g[i - 1] \o m[i] /\ h[i] = h[i - 1] \o m[i]
  BY <1>6 DEF FlatUpTo
<1> QED BY <1>4, <1>7, <1>8

LEMMA FlatExists == ASSUME NEW m, NEW k \in Nat PROVE \E g : FlatUpTo(g, m, k)
<1> SUFFICES ASSUME ~\E g : FlatUpTo(g, m, k) PROVE FALSE
  OBVIOUS
<1>1. PICK S : S = {i \in Nat : ~\E g : FlatUpTo(g, m, i)}
  OBVIOUS
<1>2. k \in S /\ S \subseteq Nat
  BY <1>1
<1>3. PICK i \in S : \A j \in S : i <= j
  BY <1>2, LeastIs
<1>4. i \in Nat /\ ~\E g : FlatUpTo(g, m, i)
  BY <1>1, <1>3
<1>5. i # 0
  <2>1. SUFFICES ASSUME i = 0 PROVE FALSE
    OBVIOUS
  <2>2. PICK g : g = [n \in 0..0 |-> <<>>]
    OBVIOUS
  <2>3. DOMAIN g = 0..0 /\ g[0] = <<>> /\ \A n \in 1..0 : g[n] = g[n - 1] \o m[n]
    BY <2>2
  <2>4. FlatUpTo(g, m, 0)
    BY <2>3 DEF FlatUpTo
  <2> QED BY <1>4, <2>1, <2>4
<1>6. PICK j \in Nat : i = j + 1
  <2>1. i - 1 \in Nat /\ i = (i - 1) + 1
    BY <1>4, <1>5
  <2> QED BY <2>1
<1>7. PICK g : FlatUpTo(g, m, j)
  <2>1. ~(i <= j)
    BY <1>6
  <2>2. j \notin S
    BY <1>3, <2>1
  <2> QED BY <1>1, <2>2
<1>8. PICK h : h = [n \in 0..i |-> IF n = i THEN g[j] \o m[i] ELSE g[n]]
  OBVIOUS
<1>9. FlatUpTo(h, m, i)
  <2>1. DOMAIN h = 0..i /\ h[i] = g[j] \o m[i] /\ \A n \in 0..j : h[n] = g[n]
    BY <1>6, <1>8
  <2>2. h[0] = <<>>
    BY <1>7, <2>1 DEF FlatUpTo
  <2>3. ASSUME NEW n \in 1..i PROVE h[n] = h[n - 1] \o m[n]
    <3>1. CASE n = i
      <4>1. j \in 0..j /\ n - 1 = j
        BY <1>6, <3>1
      <4>2. h[n - 1] = g[j]
        BY <2>1, <4>1
      <4> QED BY <2>1, <3>1, <4>2
    <3>2. CASE n # i
      <4>1. n \in 1..j /\ n \in 0..j /\ n - 1 \in 0..j
        BY <1>6, <3>2
      <4>2. g[n] = g[n - 1] \o m[n]
        BY <1>7, <4>1 DEF FlatUpTo
      <4> QED BY <2>1, <4>1, <4>2
    <3> QED BY <3>1, <3>2
  <2> QED BY <2>1, <2>2, <2>3 DEF FlatUpTo
<1> QED BY <1>4, <1>9

LEMMA FlatIs ==
  ASSUME NEW m
  PROVE  \E f : f = [n \in Nat |-> IF n = 0 THEN <<>> ELSE f[n - 1] \o m[n]]
<1>1. PICK f : f = [n \in Nat |-> (CHOOSE g : FlatUpTo(g, m, n))[n]]
  OBVIOUS
<1>2. ASSUME NEW n \in Nat PROVE f[n] = IF n = 0 THEN <<>> ELSE f[n - 1] \o m[n]
  <2>1. PICK g : g = CHOOSE x : FlatUpTo(x, m, n)
    OBVIOUS
  <2>2. FlatUpTo(g, m, n) /\ f[n] = g[n]
    BY <1>1, <2>1, FlatExists
  <2>3. CASE n = 0
    BY <2>2, <2>3 DEF FlatUpTo
  <2>4. CASE n # 0
    <3>1. PICK j \in Nat : j = n - 1
      BY <2>4
    <3>2. PICK h : h = CHOOSE x : FlatUpTo(x, m, j)
      OBVIOUS
    <3>3. FlatUpTo(h, m, j) /\ f[j] = h[j]
      BY <1>1, <3>2, FlatExists
    <3>4. j <= n /\ j <= j /\ n \in 1..n
      BY <2>4, <3>1
    <3>5. g[j] = h[j]
      BY <2>2, <3>3, <3>4, FlatOnce
    <3>6. g[n] = g[n - 1] \o m[n]
      BY <2>2, <3>4 DEF FlatUpTo
    <3> QED BY <2>2, <2>4, <3>1, <3>3, <3>5, <3>6
  <2> QED BY <2>3, <2>4
<1>3. f = [n \in Nat |-> IF n = 0 THEN <<>> ELSE f[n - 1] \o m[n]]
  BY <1>1, <1>2, Zenon
<1> QED BY <1>3

-----------------------------------------------------------------------------
(* What a model is told.                                                   *)

CallKinds == {"plain", "ask", "delegate", "malformed"}
CallIds == Nat \X Nat
TurnEvent == [event : {"turn"}, pieces : Nat, calls : Seq(CallKinds)]
ToolEvent == [event : {"tool"}, id : CallIds, kind : CallKinds, of : CallIds \cup {<<>>}]
MailEvent == [event : {"mail"}, kind : {"user", "note", "announce", "assistant"}]
RunEvent == TurnEvent \cup ToolEvent
AnyEvent == RunEvent \cup MailEvent
Message ==
  [role : {"user", "assistant", "system"}] \cup [role : {"call"}, id : CallIds]
    \cup [role : {"result"}, id : CallIds, of : CallIds \cup {<<>>}]

\* Each call is there once and followed by its result, as an event has it.
CallHasResult(s, events, i) ==
  /\ i < Len(s) /\ s[i + 1].role = "result" /\ s[i + 1].id = s[i].id
  /\ \E e \in DOMAIN events : events[e].event = "tool" /\ events[e].id = s[i].id /\ events[e].of = s[i + 1].of
CallsHaveResults(s, events) == \A i \in 1..Len(s) : s[i].role = "call" => CallHasResult(s, events, i)
CallsDiffer(s) ==
  \A i, j \in 1..Len(s) : s[i].role = "call" /\ s[j].role = "call" /\ i # j => s[i].id # s[j].id
EventsDiffer(events) ==
  \A i, j \in DOMAIN events : events[i].event = "tool" /\ events[j].event = "tool" /\ i # j => events[i].id # events[j].id

LEMMA EventIs ==
  /\ \A e \in AnyEvent : e.event \in {"turn", "tool", "mail"}
  /\ \A e \in AnyEvent : e.event = "tool" => e \in ToolEvent
  /\ \A e \in AnyEvent : e.event = "turn" => e \in TurnEvent
  /\ \A e \in AnyEvent : e.event = "mail" => e \in MailEvent
  /\ RunEvent \subseteq AnyEvent /\ MailEvent \subseteq AnyEvent
  /\ \A e \in RunEvent : e.event # "mail"
BY DEF AnyEvent, RunEvent, MailEvent, TurnEvent, ToolEvent

LEMMA MessagesAre ==
  ASSUME NEW e \in AnyEvent
  PROVE  /\ MessagesOf(e) \in Seq(Message)
         /\ e.event # "tool" => \A i \in 1..Len(MessagesOf(e)) : MessagesOf(e)[i].role # "call"
         /\ e.event = "tool" =>
              /\ Len(MessagesOf(e)) = 2
              /\ MessagesOf(e)[1] = [role |-> "call", id |-> e.id]
              /\ MessagesOf(e)[2] = [role |-> "result", id |-> e.id, of |-> e.of]
<1>1. CASE e.event = "mail"
  <2>1. PICK r \in {"assistant", "user"} : MessagesOf(e) = <<[role |-> r]>>
    BY <1>1 DEF MessagesOf
  <2>2. [role |-> r] \in Message
    BY DEF Message
  <2>3. <<[role |-> r]>> \in Seq(Message) /\ Len(<<[role |-> r]>>) = 1 /\ <<[role |-> r]>>[1] = [role |-> r]
    BY <2>2
  <2>4. \A i \in 1..1 : i = 1
    OBVIOUS
  <2> QED BY <1>1, <2>1, <2>3, <2>4
<1>2. CASE e.event = "turn"
  <2>1. PICK r : r = [role |-> "assistant"]
    OBVIOUS
  <2>2. r \in Message /\ r.role # "call"
    BY <2>1 DEF Message
  <2>3. PICK m : m = MessagesOf(e)
    OBVIOUS
  <2>4. m = <<>> \/ m = <<r>>
    BY <1>2, <2>1, <2>3 DEF MessagesOf
  <2>5. m \in Seq(Message) /\ \A i \in 1..Len(m) : m[i].role # "call"
    <3>1. CASE m = <<>>
      BY <3>1, EmptySeq
    <3>2. CASE m = <<r>>
      <4>1. m \in Seq(Message) /\ Len(m) = 1 /\ m[1] = r
        BY <2>2, <3>2
      <4>2. \A i \in 1..1 : i = 1
        OBVIOUS
      <4> QED BY <2>2, <4>1, <4>2
    <3> QED BY <2>4, <3>1, <3>2
  <2> QED BY <1>2, <2>3, <2>5
<1>3. CASE e.event = "tool"
  <2>1. e \in ToolEvent
    BY <1>3, EventIs
  <2>2. PICK c, r : c = [role |-> "call", id |-> e.id] /\ r = [role |-> "result", id |-> e.id, of |-> e.of]
    OBVIOUS
  <2>3. c \in Message /\ r \in Message
    BY <2>1, <2>2 DEF Message, ToolEvent
  <2>4. MessagesOf(e) = <<c, r>>
    BY <1>3, <2>2 DEF MessagesOf
  <2>5. <<c, r>> \in Seq(Message) /\ Len(<<c, r>>) = 2 /\ <<c, r>>[1] = c /\ <<c, r>>[2] = r
    BY <2>3
  <2> QED BY <1>3, <2>2, <2>4, <2>5
<1>4. e.event = "mail" \/ e.event = "turn" \/ e.event = "tool"
  BY EventIs
<1> QED BY <1>1, <1>2, <1>3, <1>4, Zenon

FlatGood(s, events, n) ==
  /\ s \in Seq(Message) /\ CallsHaveResults(s, events) /\ CallsDiffer(s)
  /\ \A i \in 1..Len(s) : s[i].role = "call" =>
       \E e \in 1..n : events[e].event = "tool" /\ events[e].id = s[i].id

LEMMA FlatGrows ==
  ASSUME NEW events \in Seq(AnyEvent), EventsDiffer(events), NEW n \in 1..Len(events),
         NEW s, FlatGood(s, events, n - 1), NEW t, t = s \o MessagesOf(events[n])
  PROVE  FlatGood(t, events, n)
<1>1. PICK e \in AnyEvent : e = events[n]
  BY ElementOfSeq
<1>2. PICK m \in Seq(Message) : m = MessagesOf(e)
  BY MessagesAre
<1>3. s \in Seq(Message) /\ t = s \o m
  BY <1>1, <1>2 DEF FlatGood
<1>4. PICK k \in Nat, l \in Nat : k = Len(s) /\ l = Len(m)
  BY <1>3, LenProperties
<1>5. t \in Seq(Message) /\ Len(t) = k + l
  BY <1>3, <1>4, ConcatProperties
<1>6. \A i \in 1..k : t[i] = s[i]
  BY <1>3, <1>4, ConcatProperties
<1>7. \A i \in 1..l : t[k + i] = m[i]
  <2> SUFFICES ASSUME NEW i \in 1..l PROVE t[k + i] = m[i]
    OBVIOUS
  <2>1. k + i \in 1..(k + l) /\ ~(k + i <= k) /\ (k + i) - k = i
    BY <1>4
  <2> QED BY <1>3, <1>4, <2>1, ConcatProperties
<1>8. DOMAIN events = 1..Len(events) /\ Len(events) \in Nat /\ n \in Nat
  BY LenProperties
<1>9. ASSUME NEW i \in 1..k, s[i].role = "call"
      PROVE  /\ CallHasResult(t, events, i) /\ t[i] = s[i]
             /\ \E x \in 1..n : x < n /\ events[x].event = "tool" /\ events[x].id = s[i].id
  <2>1. CallHasResult(s, events, i)
    BY <1>3, <1>4, <1>9 DEF FlatGood, CallsHaveResults
  <2>2. i < k /\ i + 1 \in 1..k /\ i < k + l
    BY <1>4, <2>1 DEF CallHasResult
  <2>3. t[i] = s[i] /\ t[i + 1] = s[i + 1]
    BY <1>6, <2>2
  <2>4. CallHasResult(t, events, i)
    BY <1>5, <2>1, <2>2, <2>3 DEF CallHasResult
  <2>5. PICK x \in 1..(n - 1) : events[x].event = "tool" /\ events[x].id = s[i].id
    BY <1>4, <1>9 DEF FlatGood
  <2>6. x \in 1..n /\ x < n
    BY <1>8
  <2> QED BY <2>3, <2>4, <2>5, <2>6
<1>10. CASE e.event # "tool"
  <2>1. \A i \in 1..l : m[i].role # "call"
    BY <1>2, <1>4, <1>10, MessagesAre
  <2>2. ASSUME NEW i \in 1..(k + l), t[i].role = "call" PROVE i \in 1..k /\ s[i].role = "call"
    <3>1. CASE i \in 1..k
      BY <1>6, <2>2, <3>1
    <3>2. CASE i \notin 1..k
      <4>1. PICK j \in 1..l : i = k + j
        <5>1. i - k \in 1..l /\ i = k + (i - k)
          BY <3>2
        <5> QED BY <5>1
      <4> QED BY <1>7, <2>1, <2>2, <4>1
    <3> QED BY <3>1, <3>2
  <2>3. CallsHaveResults(t, events)
    BY <1>5, <1>9, <2>2 DEF CallsHaveResults
  <2>4. CallsDiffer(t)
    <3> SUFFICES ASSUME NEW i \in 1..(k + l), NEW j \in 1..(k + l), t[i].role = "call", t[j].role = "call", i # j
                 PROVE  t[i].id # t[j].id
      BY <1>5 DEF CallsDiffer
    <3>1. i \in 1..k /\ j \in 1..k /\ s[i].role = "call" /\ s[j].role = "call"
      BY <2>2
    <3>2. s[i].id # s[j].id
      BY <1>4, <3>1 DEF FlatGood, CallsDiffer
    <3> QED BY <1>6, <3>1, <3>2
  <2>5. ASSUME NEW i \in 1..Len(t), t[i].role = "call"
        PROVE  \E x \in 1..n : events[x].event = "tool" /\ events[x].id = t[i].id
    <3>1. i \in 1..k /\ s[i].role = "call"
      BY <1>5, <2>2, <2>5
    <3> QED BY <1>9, <3>1
  <2> QED BY <1>5, <2>3, <2>4, <2>5 DEF FlatGood
<1>11. CASE e.event = "tool"
  <2>1. l = 2 /\ m[1] = [role |-> "call", id |-> e.id] /\ m[2] = [role |-> "result", id |-> e.id, of |-> e.of]
    BY <1>2, <1>4, <1>11, MessagesAre
  <2>2. t[k + 1] = [role |-> "call", id |-> e.id] /\ t[k + 2] = [role |-> "result", id |-> e.id, of |-> e.of]
    <3>1. 1 \in 1..l /\ 2 \in 1..l
      BY <2>1
    <3> QED BY <1>7, <2>1, <3>1
  <2>3. ASSUME NEW i \in 1..(k + l), t[i].role = "call" PROVE i = k + 1 \/ (i \in 1..k /\ s[i].role = "call")
    <3>1. CASE i \in 1..k
      BY <1>6, <2>3, <3>1
    <3>2. CASE i \notin 1..k
      <4>1. i = k + 1 \/ i = k + 2
        BY <2>1, <3>2
      <4>2. t[k + 2].role # "call"
        BY <2>2
      <4> QED BY <2>3, <4>1, <4>2
    <3> QED BY <3>1, <3>2
  <2>4. CallHasResult(t, events, k + 1) /\ t[k + 1].id = e.id
    <3>1. k + 1 < Len(t) /\ (k + 1) + 1 = k + 2
      BY <1>5, <2>1
    <3>2. t[(k + 1) + 1].role = "result" /\ t[(k + 1) + 1].id = e.id /\ t[(k + 1) + 1].of = e.of /\ t[k + 1].id = e.id
      BY <2>2, <3>1
    <3>3. n \in DOMAIN events
      BY <1>8
    <3> QED BY <1>1, <1>11, <3>1, <3>2, <3>3 DEF CallHasResult
  <2>5. CallsHaveResults(t, events)
    <3> SUFFICES ASSUME NEW i \in 1..(k + l), t[i].role = "call" PROVE CallHasResult(t, events, i)
      BY <1>5 DEF CallsHaveResults
    <3> QED BY <1>9, <2>3, <2>4
  <2>6. ASSUME NEW i \in 1..k, s[i].role = "call" PROVE t[i].id # e.id
    <3>1. PICK x \in 1..n : x < n /\ events[x].event = "tool" /\ events[x].id = t[i].id
      BY <1>9, <2>6
    <3>2. x # n /\ x \in DOMAIN events /\ n \in DOMAIN events
      BY <1>8, <3>1
    <3> QED BY <1>1, <1>11, <3>1, <3>2 DEF EventsDiffer
  <2>7. CallsDiffer(t)
    <3> SUFFICES ASSUME NEW i \in 1..(k + l), NEW j \in 1..(k + l), t[i].role = "call", t[j].role = "call", i # j
                 PROVE  t[i].id # t[j].id
      BY <1>5 DEF CallsDiffer
    <3>1. CASE i = k + 1
      <4>1. j \in 1..k /\ s[j].role = "call"
        BY <2>3, <3>1
      <4> QED BY <2>4, <2>6, <3>1, <4>1
    <3>2. CASE j = k + 1
      <4>1. i \in 1..k /\ s[i].role = "call"
        BY <2>3, <3>2
      <4> QED BY <2>4, <2>6, <3>2, <4>1
    <3>3. CASE i # k + 1 /\ j # k + 1
      <4>1. i \in 1..k /\ j \in 1..k /\ s[i].role = "call" /\ s[j].role = "call"
        BY <2>3, <3>3
      <4>2. s[i].id # s[j].id
        BY <1>4, <4>1 DEF FlatGood, CallsDiffer
      <4> QED BY <1>6, <4>1, <4>2
    <3> QED BY <3>1, <3>2, <3>3
  <2>8. ASSUME NEW i \in 1..Len(t), t[i].role = "call"
        PROVE  \E x \in 1..n : events[x].event = "tool" /\ events[x].id = t[i].id
    <3>1. CASE i = k + 1
      <4>1. n \in 1..n
        BY <1>8
      <4> QED BY <1>1, <1>11, <2>4, <3>1, <4>1
    <3>2. CASE i # k + 1
      <4>1. i \in 1..k /\ s[i].role = "call"
        BY <1>5, <2>3, <2>8, <3>2
      <4> QED BY <1>9, <4>1
    <3> QED BY <3>1, <3>2
  <2> QED BY <1>5, <2>5, <2>7, <2>8 DEF FlatGood
<1> QED BY <1>10, <1>11

\* What a provider makes of a run's events.
LEMMA FlatIsGood ==
  ASSUME NEW events \in Seq(AnyEvent), EventsDiffer(events),
         NEW f, f = [n \in Nat |-> IF n = 0 THEN <<>> ELSE f[n - 1] \o MessagesOf(events[n])],
         NEW n \in Nat, n <= Len(events)
  PROVE  FlatGood(f[n], events, n)
<1> SUFFICES ASSUME ~FlatGood(f[n], events, n) PROVE FALSE
  OBVIOUS
<1>1. PICK S : S = {i \in 0..n : ~FlatGood(f[i], events, i)}
  OBVIOUS
<1>2. n \in S /\ S \subseteq Nat
  BY <1>1
<1>3. PICK i \in S : \A j \in S : i <= j
  BY <1>2, LeastIs
<1>4. i \in 0..n /\ ~FlatGood(f[i], events, i) /\ i \in Nat
  BY <1>1, <1>3
<1>5. i # 0
  <2>1. f[0] = <<>>
    OBVIOUS
  <2>2. <<>> \in Seq(Message) /\ Len(<<>>) = 0 /\ \A x \in 1..0 : FALSE
    BY EmptySeq
  <2>3. FlatGood(<<>>, events, 0)
    BY <2>2 DEF FlatGood, CallsHaveResults, CallsDiffer
  <2> QED BY <1>4, <2>1, <2>3
<1>6. i \in 1..Len(events) /\ i - 1 \in 0..n /\ i - 1 \notin S
  <2>1. Len(events) \in Nat
    BY LenProperties
  <2>2. ~(i <= i - 1) /\ i - 1 \in 0..n
    BY <1>4, <1>5
  <2> QED BY <1>3, <1>4, <1>5, <2>1, <2>2
<1>7. FlatGood(f[i - 1], events, i - 1)
  BY <1>1, <1>6
<1>8. f[i] = f[i - 1] \o MessagesOf(events[i])
  BY <1>4, <1>5
<1>9. FlatGood(f[i], events, i)
  BY <1>6, <1>7, <1>8, FlatGrows
<1> QED BY <1>4, <1>9

-----------------------------------------------------------------------------
(* A run's events, one by one.                                             *)

TurnsTo(rec, n) == Cardinality({f \in 1..n : rec[f].event = "turn"})
Made(rec, id) == \E f \in DOMAIN rec : rec[f].event = "tool" /\ rec[f].id = id
Waited(rec, asked, t, j) ==
  \/ asked[j] = "ask"
  \/ \E f \in DOMAIN rec :
       rec[f].event = "tool" /\ rec[f].id = <<t, j>> /\ rec[f].kind = "delegate" /\ rec[f].of = <<>>
NoneSkippedIn(rec, t) ==
  \A e \in DOMAIN rec : rec[e].event = "turn" /\ TurnsTo(rec, e) = t =>
    \A i \in DOMAIN rec[e].calls :
      Made(rec, <<t, i>>) \/ \E j \in 1..(i - 1) : Waited(rec, rec[e].calls, t, j)
Kept(rec, n) == {i \in 1..n : ~\E j \in 1..n : i < j /\ SameCall(rec[i], rec[j])}

Extends(two, rec, e) ==
  /\ rec \in Seq(RunEvent) /\ two \in Seq(RunEvent) /\ Len(rec) \in Nat /\ Len(two) = Len(rec) + 1
  /\ DOMAIN rec = 1..Len(rec) /\ DOMAIN two = 1..(Len(rec) + 1)
  /\ two[Len(rec) + 1] = e /\ \A i \in 1..Len(rec) : two[i] = rec[i]

LEMMA AppendExtends ==
  ASSUME NEW rec \in Seq(RunEvent), NEW e \in RunEvent
  PROVE  Extends(Append(rec, e), rec, e)
<1>1. PICK n \in Nat : n = Len(rec) /\ DOMAIN rec = 1..n
  BY LenProperties
<1>2. PICK two : two = Append(rec, e)
  OBVIOUS
<1>3. two \in Seq(RunEvent) /\ Len(two) = n + 1 /\ two[n + 1] = e /\ \A i \in 1..n : two[i] = rec[i]
  BY <1>1, <1>2, AppendProperties
<1>4. DOMAIN two = 1..(n + 1)
  BY <1>3, LenProperties
<1> QED BY <1>1, <1>2, <1>3, <1>4 DEF Extends

LEMMA TurnsToIs == ASSUME NEW rec, NEW n \in Nat PROVE TurnsTo(rec, n) \in Nat /\ TurnsTo(rec, 0) = 0
<1>1. IsFiniteSet({f \in 1..n : rec[f].event = "turn"})
  BY FiniteOfNat
<1>2. {f \in 1..0 : rec[f].event = "turn"} = {}
  OBVIOUS
<1> QED BY <1>1, <1>2, FS_CardinalityType, FS_EmptySet DEF TurnsTo

LEMMA TurnsToNext ==
  ASSUME NEW rec, NEW n \in Nat
  PROVE  TurnsTo(rec, n + 1) = IF rec[n + 1].event = "turn" THEN TurnsTo(rec, n) + 1 ELSE TurnsTo(rec, n)
<1>1. PICK A, B : A = {f \in 1..n : rec[f].event = "turn"} /\ B = {f \in 1..(n + 1) : rec[f].event = "turn"}
  OBVIOUS
<1>2. IsFiniteSet(A) /\ n + 1 \notin A
  BY <1>1, FiniteOfNat
<1>3. CASE rec[n + 1].event = "turn"
  <2>1. B = A \cup {n + 1}
    BY <1>1, <1>3
  <2>2. Cardinality(B) = Cardinality(A) + 1
    BY <1>2, <2>1, FS_AddElement
  <2> QED BY <1>1, <1>3, <2>2 DEF TurnsTo
<1>4. CASE rec[n + 1].event # "turn"
  <2>1. B = A
    BY <1>1, <1>4
  <2> QED BY <1>1, <1>4, <2>1 DEF TurnsTo
<1> QED BY <1>3, <1>4

LEMMA TurnsToSame ==
  ASSUME NEW rec, NEW two, NEW n \in Nat, \A i \in 1..n : two[i].event = rec[i].event
  PROVE  TurnsTo(two, n) = TurnsTo(rec, n)
<1>1. {f \in 1..n : rec[f].event = "turn"} = {f \in 1..n : two[f].event = "turn"}
  OBVIOUS
<1> QED BY <1>1 DEF TurnsTo

\* The turns are numbered.
LEMMA TurnsToLess ==
  ASSUME NEW rec, NEW m \in Nat, NEW n \in Nat, m < n
  PROVE  /\ TurnsTo(rec, m) <= TurnsTo(rec, n)
         /\ rec[n].event = "turn" => TurnsTo(rec, m) < TurnsTo(rec, n)
<1>1. PICK A, B : A = {f \in 1..m : rec[f].event = "turn"} /\ B = {f \in 1..n : rec[f].event = "turn"}
  OBVIOUS
<1>2. IsFiniteSet(A) /\ IsFiniteSet(B) /\ A \subseteq B
  BY <1>1, FiniteOfNat
<1>3. Cardinality(A) \in Nat /\ Cardinality(B) \in Nat /\ Cardinality(A) <= Cardinality(B)
  BY <1>2, FS_Subset, FS_CardinalityType
<1>4. ASSUME rec[n].event = "turn" PROVE Cardinality(A) < Cardinality(B)
  <2>1. n \in B /\ n \notin A
    BY <1>1, <1>4
  <2>2. Cardinality(A) # Cardinality(B)
    BY <1>2, <2>1, FS_Subset
  <2> QED BY <1>3, <2>2
<1> QED BY <1>1, <1>3, <1>4 DEF TurnsTo

LEMMA TurnIs == ASSUME record \in Seq(RunEvent) PROVE Turn = TurnsTo(record, Len(record)) + 1 /\ Turn \in Nat \ {0}
<1>1. Len(record) \in Nat /\ DOMAIN record = 1..Len(record)
  BY LenProperties
<1>2. Turn = TurnsTo(record, Len(record)) + 1
  BY <1>1 DEF Turn, TurnsTo
<1> QED BY <1>1, <1>2, TurnsToIs

LEMMA TurnNext ==
  ASSUME NEW e \in RunEvent, record \in Seq(RunEvent), record' = Append(record, e)
  PROVE  Turn' = IF e.event = "turn" THEN Turn + 1 ELSE Turn
<1>1. PICK rec, two : rec = record /\ two = record'
  OBVIOUS
<1>2. Extends(two, rec, e)
  BY <1>1, AppendExtends
<1>3. PICK n \in Nat : n = Len(rec) /\ DOMAIN rec = 1..n /\ DOMAIN two = 1..(n + 1) /\ two[n + 1] = e
  BY <1>2 DEF Extends
<1>4. Turn = TurnsTo(rec, n) + 1 /\ Turn' = TurnsTo(two, n + 1) + 1
  BY <1>1, <1>3 DEF Turn, TurnsTo
<1>5. TurnsTo(two, n) = TurnsTo(rec, n)
  BY <1>2, <1>3, TurnsToSame DEF Extends
<1>6. TurnsTo(two, n + 1) = IF e.event = "turn" THEN TurnsTo(two, n) + 1 ELSE TurnsTo(two, n)
  BY <1>3, TurnsToNext
<1>7. TurnsTo(rec, n) \in Nat
  BY TurnsToIs
<1> QED BY <1>4, <1>5, <1>6, <1>7

LEMMA MadeStays == ASSUME NEW rec, NEW two, NEW e, Extends(two, rec, e), NEW id, Made(rec, id) PROVE Made(two, id)
<1>1. PICK f \in DOMAIN rec : rec[f].event = "tool" /\ rec[f].id = id
  BY DEF Made
<1>2. f \in DOMAIN two /\ two[f] = rec[f]
  BY <1>1 DEF Extends
<1> QED BY <1>1, <1>2 DEF Made

LEMMA WaitedStays ==
  ASSUME NEW rec, NEW two, NEW e, Extends(two, rec, e), NEW asked, NEW t, NEW j, Waited(rec, asked, t, j)
  PROVE  Waited(two, asked, t, j)
<1>1. CASE asked[j] = "ask"
  BY <1>1 DEF Waited
<1>2. CASE asked[j] # "ask"
  <2>1. PICK f \in DOMAIN rec :
          rec[f].event = "tool" /\ rec[f].id = <<t, j>> /\ rec[f].kind = "delegate" /\ rec[f].of = <<>>
    BY <1>2 DEF Waited
  <2>2. f \in DOMAIN two /\ two[f] = rec[f]
    BY <2>1 DEF Extends
  <2> QED BY <2>1, <2>2 DEF Waited
<1> QED BY <1>1, <1>2

LEMMA NoneSkippedStays ==
  ASSUME NEW rec, NEW two, NEW e, Extends(two, rec, e), NEW t, NoneSkippedIn(rec, t),
         e.event = "turn" => t # TurnsTo(rec, Len(rec)) + 1
  PROVE  NoneSkippedIn(two, t)
<1>1. PICK n \in Nat : n = Len(rec) /\ DOMAIN rec = 1..n /\ DOMAIN two = 1..(n + 1) /\ two[n + 1] = e
  BY DEF Extends
<1> SUFFICES ASSUME NEW x \in 1..(n + 1), two[x].event = "turn", TurnsTo(two, x) = t, NEW i \in DOMAIN two[x].calls
             PROVE  Made(two, <<t, i>>) \/ \E j \in 1..(i - 1) : Waited(two, two[x].calls, t, j)
  BY <1>1 DEF NoneSkippedIn
<1>2. \A y \in 1..n : two[y] = rec[y]
  BY <1>1 DEF Extends
<1>3. x # n + 1
  <2> SUFFICES ASSUME x = n + 1 PROVE FALSE
    OBVIOUS
  <2>1. TurnsTo(two, n) = TurnsTo(rec, n)
    BY <1>2, TurnsToSame
  <2>2. TurnsTo(two, n + 1) = TurnsTo(two, n) + 1
    BY TurnsToNext
  <2> QED BY <1>1, <2>1, <2>2
<1>4. x \in 1..n
  BY <1>3
<1>5. two[x] = rec[x]
  BY <1>2, <1>4
<1>6. TurnsTo(rec, x) = t
  <2>1. \A i1 \in 1..x : two[i1].event = rec[i1].event
    BY <1>2, <1>4
  <2> QED BY <1>4, <2>1, TurnsToSame
<1>7. Made(rec, <<t, i>>) \/ \E j \in 1..(i - 1) : Waited(rec, rec[x].calls, t, j)
  BY <1>1, <1>4, <1>5, <1>6 DEF NoneSkippedIn
<1>8. \A j : Waited(rec, rec[x].calls, t, j) => Waited(two, two[x].calls, t, j)
  BY <1>5, WaitedStays
<1> QED BY <1>7, <1>8, MadeStays

LEMMA KeptStays ==
  ASSUME NEW rec, NEW two, NEW e, Extends(two, rec, e)
  PROVE  /\ \A m \in 1..Len(rec) : Kept(two, m) = Kept(rec, m)
         /\ e.event # "tool" => Kept(two, Len(rec) + 1) = Kept(rec, Len(rec)) \cup {Len(rec) + 1}
<1>1. PICK n \in Nat : n = Len(rec) /\ two[n + 1] = e
  BY DEF Extends
<1>2. \A y \in 1..n : two[y] = rec[y]
  BY <1>1 DEF Extends
<1>3. ASSUME NEW m \in 1..n PROVE Kept(two, m) = Kept(rec, m)
  BY <1>2 DEF Kept
<1>4. ASSUME e.event # "tool" PROVE Kept(two, n + 1) = Kept(rec, n) \cup {n + 1}
  <2>1. \A y : ~SameCall(y, e)
    BY <1>4 DEF SameCall
  <2>2. \A i \in 1..n : i \in Kept(two, n + 1) <=> i \in Kept(rec, n)
    <3> SUFFICES ASSUME NEW i \in 1..n
                 PROVE  (\E j \in 1..(n + 1) : i < j /\ SameCall(two[i], two[j]))
                          <=> (\E j \in 1..n : i < j /\ SameCall(rec[i], rec[j]))
      BY DEF Kept
    <3>1. \A j \in 1..(n + 1) : j \in 1..n \/ j = n + 1
      OBVIOUS
    <3> QED BY <1>1, <1>2, <2>1, <3>1
  <2>3. n + 1 \in Kept(two, n + 1)
    BY DEF Kept
  <2>4. Kept(two, n + 1) \subseteq 1..(n + 1) /\ Kept(rec, n) \subseteq 1..n
    BY DEF Kept
  <2> QED BY <2>2, <2>3, <2>4
<1> QED BY <1>1, <1>3, <1>4

LEMMA LatestIs ==
  ASSUME NEW rec \in Seq(RunEvent)
  PROVE  latestToolCallEvents(rec) = Picked(rec, Kept(rec, Len(rec))) /\ Kept(rec, Len(rec)) \subseteq 1..Len(rec)
<1>1. DOMAIN rec = 1..Len(rec)
  BY LenProperties
<1>2. {i \in DOMAIN rec : ~\E j \in DOMAIN rec : i < j /\ SameCall(rec[i], rec[j])} = Kept(rec, Len(rec))
  BY <1>1 DEF Kept
<1> QED BY <1>2 DEF latestToolCallEvents, Kept

\* A turn that is over is in the context.
LEMMA LatestNext ==
  ASSUME NEW rec \in Seq(RunEvent), NEW e \in RunEvent, e.event # "tool"
  PROVE  latestToolCallEvents(Append(rec, e)) = Append(latestToolCallEvents(rec), e)
<1>1. PICK n \in Nat : n = Len(rec)
  BY LenProperties
<1>2. PICK two : two = Append(rec, e)
  OBVIOUS
<1>3. Extends(two, rec, e)
  BY <1>2, AppendExtends
<1>4. two \in Seq(RunEvent) /\ Len(two) = n + 1
  BY <1>1, <1>3 DEF Extends
<1>5. PICK S : S = Kept(rec, n) /\ S \subseteq 1..n
  BY <1>1, LatestIs
<1>6. Kept(two, n + 1) = S \cup {n + 1}
  BY <1>1, <1>3, <1>5, KeptStays
<1>7. latestToolCallEvents(two) = Picked(two, S \cup {n + 1})
  BY <1>4, <1>6, LatestIs
<1>8. latestToolCallEvents(rec) = Picked(rec, S)
  BY <1>1, <1>5, LatestIs
<1>9. Picked(two, S \cup {n + 1}) = Append(Picked(rec, S), e)
  BY <1>1, <1>2, <1>5, PickedAppend
<1> QED BY <1>2, <1>7, <1>8, <1>9

\* The calls of a turn that is over are in the context.
Since(rec, asked, ctx, l, t) ==
  /\ l \in 1..Len(rec) /\ rec[l].event = "turn" /\ rec[l].calls = asked
  /\ ctx = Picked(rec, Kept(rec, l))
  /\ \A i \in 1..Len(rec) : l < i => rec[i].event = "tool" /\ rec[i].id[1] = t
  /\ \A i \in 1..l : rec[i].event = "tool" => rec[i].id[1] < t
  /\ \A i, j \in 1..Len(rec) : l < i /\ i < j => rec[i].id # rec[j].id

LEMMA LatestOfTurn ==
  ASSUME NEW rec \in Seq(RunEvent), NEW asked, NEW ctx, NEW l, NEW t \in Nat, Since(rec, asked, ctx, l, t)
  PROVE  ctx \o Picked(rec, {i \in DOMAIN rec : rec[i].event = "tool" /\ rec[i].id[1] = t}) = latestToolCallEvents(rec)
<1>1. PICK n \in Nat : n = Len(rec) /\ DOMAIN rec = 1..n
  BY LenProperties
<1>2. l \in 1..n /\ l \in Nat
  BY <1>1 DEF Since
<1>3. PICK A, B : A = Kept(rec, l) /\ B = (l + 1)..n
  OBVIOUS
<1>4. {i \in DOMAIN rec : rec[i].event = "tool" /\ rec[i].id[1] = t} = B
  <2>1. ASSUME NEW i \in 1..n, l < i PROVE rec[i].event = "tool" /\ rec[i].id[1] = t /\ i \in B
    BY <1>1, <1>2, <1>3, <2>1 DEF Since
  <2>2. ASSUME NEW i \in 1..n, ~(l < i), rec[i].event = "tool" PROVE rec[i].id[1] # t
    <3>1. i \in 1..l
      BY <1>2, <2>2
    <3>2. rec[i].id[1] < t
      BY <2>2, <3>1 DEF Since
    <3> QED BY <3>2
  <2>3. \A i \in B : i \in 1..n /\ l < i
    BY <1>2, <1>3
  <2> QED BY <1>1, <2>1, <2>2, <2>3
<1>5. Kept(rec, n) = A \cup B
  <2>1. \A i, j \in 1..n : l < i /\ i < j => ~SameCall(rec[i], rec[j])
    BY <1>1 DEF Since, SameCall
  <2>2. ASSUME NEW i \in 1..l, NEW j \in 1..n, l < j PROVE ~SameCall(rec[i], rec[j])
    <3> SUFFICES ASSUME rec[i].event = "tool", rec[i].id = rec[j].id PROVE FALSE
      BY DEF SameCall
    <3>1. rec[i].id[1] < t /\ rec[j].id[1] = t
      BY <1>1, <2>2 DEF Since
    <3> QED BY <3>1
  <2>3. ASSUME NEW i \in 1..n PROVE i \in Kept(rec, n) <=> i \in A \cup B
    <3>1. CASE l < i
      <4>1. i \in B /\ i \in Kept(rec, n)
        BY <1>2, <1>3, <2>1, <3>1 DEF Kept
      <4> QED BY <4>1
    <3>2. CASE ~(l < i)
      <4>1. i \in 1..l /\ i \notin B
        BY <1>2, <1>3, <3>2
      <4>2. (\E j \in 1..n : i < j /\ SameCall(rec[i], rec[j])) <=> (\E j \in 1..l : i < j /\ SameCall(rec[i], rec[j]))
        <5>1. \A j \in 1..n : l < j \/ j \in 1..l
          BY <1>2
        <5>2. \A j \in 1..l : j \in 1..n
          BY <1>2
        <5> QED BY <2>2, <4>1, <5>1, <5>2
      <4> QED BY <1>3, <4>1, <4>2 DEF Kept
    <3> QED BY <3>1, <3>2
  <2>4. Kept(rec, n) \subseteq 1..n /\ A \subseteq 1..n /\ B \subseteq 1..n
    BY <1>2, <1>3 DEF Kept
  <2> QED BY <2>3, <2>4
<1>6. Picked(rec, A \cup B) = Picked(rec, A) \o Picked(rec, B)
  <2>1. A \cup B \subseteq 1..Len(rec)
    BY <1>1, <1>2, <1>3 DEF Kept
  <2>2. \A a \in A : \A b \in B : a < b
    BY <1>2, <1>3 DEF Kept
  <2> QED BY <2>1, <2>2, PickedConcat
<1>7. latestToolCallEvents(rec) = Picked(rec, A \cup B)
  BY <1>1, <1>5, LatestIs
<1>8. ctx = Picked(rec, A)
  BY <1>3 DEF Since
<1> QED BY <1>4, <1>6, <1>7, <1>8

LEMMA MailIs ==
  ASSUME mailbox \in Seq(MailEvent)
  PROVE  listSessionMessages \in Seq(MailEvent)
<1>1. PICK n \in Nat : n = Len(mailbox)
  BY LenProperties
<1>2. CASE n <= MailLimit
  BY <1>1, <1>2 DEF listSessionMessages
<1>3. CASE ~(n <= MailLimit)
  <2>1. MailLimit \in Nat \ {0}
    BY TurnsAssumption
  <2>2. PICK a \in Nat : a = n - MailLimit + 1 /\ a \in 1..(n + 1)
    BY <1>3, <2>1
  <2>3. SubSeq(mailbox, a, n) \in Seq(MailEvent)
    BY <1>1, <2>2, SubSeqProperties
  <2> QED BY <1>1, <1>3, <2>2, <2>3 DEF listSessionMessages
<1> QED BY <1>2, <1>3

LEMMA ConversationIs ==
  ASSUME mailbox \in Seq(MailEvent), context \in Seq(RunEvent), EventsDiffer(context)
  PROVE  /\ Conversation \in Seq(Message) /\ CallsHaveResults(Conversation, context)
         /\ CallsDiffer(Conversation)
<1>1. PICK letters \in Seq(MailEvent) : letters = listSessionMessages
  BY MailIs
<1>2. PICK k \in Nat, l \in Nat : k = Len(letters) /\ l = Len(context)
  BY LenProperties
<1>3. PICK events : events = letters \o context
  OBVIOUS
<1>4. letters \in Seq(AnyEvent) /\ context \in Seq(AnyEvent)
  BY EventIs, SeqMonotonic
<1>5. events \in Seq(AnyEvent) /\ Len(events) = k + l
  BY <1>2, <1>3, <1>4, ConcatProperties
<1>6. \A i \in 1..k : events[i].event = "mail"
  <2> SUFFICES ASSUME NEW i \in 1..k PROVE events[i].event = "mail"
    OBVIOUS
  <2>1. events[i] = letters[i]
    BY <1>2, <1>3, <1>4, ConcatProperties
  <2>2. letters[i] \in MailEvent
    BY <1>2, ElementOfSeq
  <2> QED BY <2>1, <2>2 DEF MailEvent
<1>7. ASSUME NEW i \in 1..(k + l), events[i].event = "tool" PROVE i - k \in 1..l /\ events[i] = context[i - k]
  <2>1. ~(i <= k)
    BY <1>6, <1>7
  <2>2. i - k \in 1..l
    BY <2>1
  <2> QED BY <1>2, <1>3, <1>4, <2>1, <2>2, ConcatProperties
<1>8. DOMAIN events = 1..(k + l) /\ DOMAIN context = 1..l
  BY <1>2, <1>5, LenProperties
<1>9. EventsDiffer(events)
  <2> SUFFICES ASSUME NEW i \in 1..(k + l), NEW j \in 1..(k + l), events[i].event = "tool", events[j].event = "tool",
                      i # j
               PROVE  events[i].id # events[j].id
    BY <1>8 DEF EventsDiffer
  <2>1. i - k \in 1..l /\ events[i] = context[i - k] /\ j - k \in 1..l /\ events[j] = context[j - k]
    BY <1>7
  <2>2. PICK a \in 1..l, b \in 1..l : a = i - k /\ b = j - k /\ a # b
    BY <2>1
  <2> QED BY <1>8, <2>1, <2>2 DEF EventsDiffer
<1>10. PICK m : m = [n \in Nat |-> MessagesOf(events[n])]
  OBVIOUS
<1>11. PICK g : g = [n \in Nat |-> IF n = 0 THEN <<>> ELSE g[n - 1] \o m[n]]
  BY FlatIs
<1>12. g = [n \in Nat |-> IF n = 0 THEN <<>> ELSE g[n - 1] \o MessagesOf(events[n])]
  <2>1. ASSUME NEW n \in Nat PROVE m[n] = MessagesOf(events[n])
    BY <1>10
  <2>2. [n \in Nat |-> IF n = 0 THEN <<>> ELSE g[n - 1] \o m[n]]
          = [n \in Nat |-> IF n = 0 THEN <<>> ELSE g[n - 1] \o MessagesOf(events[n])]
    BY <2>1, Zenon
  <2> QED BY <1>11, <2>2, Zenon
<1>13. PICK f : f = eventsToMessages
  OBVIOUS
<1>14. f = CHOOSE x : x = [n \in Nat |-> IF n = 0 THEN <<>> ELSE x[n - 1] \o MessagesOf(events[n])]
  BY <1>1, <1>3, <1>13, Zenon DEF eventsToMessages
<1>15. f = [n \in Nat |-> IF n = 0 THEN <<>> ELSE f[n - 1] \o MessagesOf(events[n])]
  BY <1>12, <1>14, Zenon
<1>16. PICK t : t = f[k + l]
  OBVIOUS
<1>17. FlatGood(t, events, k + l)
  <2>1. k + l \in Nat /\ k + l <= Len(events)
    BY <1>5
  <2> QED BY <1>5, <1>9, <1>15, <1>16, <2>1, FlatIsGood
<1>18. Conversation = t
  BY <1>1, <1>3, <1>5, <1>13, <1>16 DEF Conversation
<1>19. CallsHaveResults(t, context)
  <2> SUFFICES ASSUME NEW i \in 1..Len(t), t[i].role = "call" PROVE CallHasResult(t, context, i)
    BY DEF CallsHaveResults
  <2>1. CallHasResult(t, events, i)
    BY <1>17 DEF FlatGood, CallsHaveResults
  <2>2. PICK e \in DOMAIN events : events[e].event = "tool" /\ events[e].id = t[i].id /\ events[e].of = t[i + 1].of
    BY <2>1 DEF CallHasResult
  <2>3. e - k \in DOMAIN context /\ events[e] = context[e - k]
    BY <1>7, <1>8, <2>2
  <2> QED BY <2>1, <2>2, <2>3 DEF CallHasResult
<1> QED BY <1>17, <1>18, <1>19 DEF FlatGood

LEMMA PlainMessage ==
  ASSUME NEW r \in {"user", "system"}, NEW events
  PROVE  /\ <<[role |-> r]>> \in Seq(Message) /\ CallsHaveResults(<<[role |-> r]>>, events)
         /\ CallsDiffer(<<[role |-> r]>>)
<1>1. PICK m : m = [role |-> r]
  OBVIOUS
<1>2. m \in Message /\ m.role # "call"
  BY <1>1 DEF Message
<1>3. PICK s : s = <<m>>
  OBVIOUS
<1>4. s \in Seq(Message) /\ Len(s) = 1 /\ s[1] = m
  BY <1>2, <1>3
<1>5. \A i \in 1..Len(s) : s[i].role # "call"
  BY <1>2, <1>4
<1> QED BY <1>1, <1>3, <1>4, <1>5 DEF CallsHaveResults, CallsDiffer

LEMMA SystemFirst ==
  ASSUME NEW events, NEW s \in Seq(Message), CallsHaveResults(s, events), CallsDiffer(s)
  PROVE  /\ Instructions \o s \in Seq(Message) /\ CallsHaveResults(Instructions \o s, events)
         /\ CallsDiffer(Instructions \o s)
<1>1. PICK h : h = Instructions
  OBVIOUS
<1>2. h \in Seq(Message) /\ Len(h) = 1 /\ h[1].role = "system"
  <2>1. [role |-> "system"] \in Message
    BY DEF Message
  <2> QED BY <1>1, <2>1 DEF Instructions
<1>3. PICK t : t = h \o s
  OBVIOUS
<1>4. PICK n \in Nat : n = Len(s)
  BY LenProperties
<1>5. t \in Seq(Message) /\ Len(t) = n + 1
  <2>1. t \in Seq(Message) /\ Len(t) = Len(h) + Len(s)
    BY <1>2, <1>3, ConcatProperties
  <2> QED BY <1>2, <1>4, <2>1
<1>6. t[1].role = "system"
  <2>1. 1 \in 1..(1 + n) /\ 1 <= 1
    OBVIOUS
  <2> QED BY <1>2, <1>3, <1>4, <2>1, ConcatProperties
<1>7. ASSUME NEW i \in 1..n PROVE t[i + 1] = s[i]
  <2>1. i + 1 \in 1..(Len(h) + Len(s)) /\ ~(i + 1 <= Len(h)) /\ (i + 1) - Len(h) = i
    BY <1>2, <1>4
  <2>2. t[i + 1] = s[(i + 1) - Len(h)]
    BY <1>2, <1>3, <2>1, ConcatProperties
  <2> QED BY <2>1, <2>2
<1>8. ASSUME NEW i \in 1..(n + 1), t[i].role = "call" PROVE \E j \in 1..n : i = j + 1 /\ s[j].role = "call"
  <2>1. i # 1
    BY <1>6, <1>8
  <2>2. i - 1 \in 1..n /\ i = (i - 1) + 1
    BY <2>1
  <2> QED BY <1>7, <1>8, <2>2
<1>9. CallsHaveResults(t, events)
  <2> SUFFICES ASSUME NEW i \in 1..(n + 1), t[i].role = "call" PROVE CallHasResult(t, events, i)
    BY <1>5 DEF CallsHaveResults
  <2>1. PICK j \in 1..n : i = j + 1 /\ s[j].role = "call"
    BY <1>8
  <2>2. CallHasResult(s, events, j)
    BY <1>4, <2>1 DEF CallsHaveResults
  <2>3. j < n /\ j + 1 \in 1..n
    BY <1>4, <2>2 DEF CallHasResult
  <2>4. t[i] = s[j] /\ t[i + 1] = s[j + 1] /\ i < n + 1
    BY <1>7, <2>1, <2>3
  <2> QED BY <1>5, <2>2, <2>4 DEF CallHasResult
<1>10. CallsDiffer(t)
  <2> SUFFICES ASSUME NEW i \in 1..(n + 1), NEW j \in 1..(n + 1), t[i].role = "call", t[j].role = "call", i # j
               PROVE  t[i].id # t[j].id
    BY <1>5 DEF CallsDiffer
  <2>1. PICK a \in 1..n : i = a + 1 /\ s[a].role = "call"
    BY <1>8
  <2>2. PICK b \in 1..n : j = b + 1 /\ s[b].role = "call"
    BY <1>8
  <2>3. s[a].id # s[b].id
    BY <1>4, <2>1, <2>2 DEF CallsDiffer
  <2> QED BY <1>7, <2>1, <2>2, <2>3
<1> QED BY <1>1, <1>3, <1>5, <1>9, <1>10

\* The request of a turn, whatever the wire format.
LEMMA PromptIs ==
  ASSUME mailbox \in Seq(MailEvent), context \in Seq(RunEvent), EventsDiffer(context)
  PROVE  /\ PromptMessages \in Seq(Message) /\ CallsHaveResults(PromptMessages, context)
         /\ CallsDiffer(PromptMessages)
<1>1. PICK c : c = Begun(Conversation)
  OBVIOUS
<1>2. c \in Seq(Message) /\ CallsHaveResults(c, context) /\ CallsDiffer(c)
  <2>1. c = Conversation \/ c = <<[role |-> "user"]>>
    BY <1>1 DEF Begun
  <2> QED BY <2>1, ConversationIs, PlainMessage
<1>3. /\ Instructions \o c \in Seq(Message) /\ CallsHaveResults(Instructions \o c, context)
      /\ CallsDiffer(Instructions \o c)
  BY <1>2, SystemFirst
<1>4. PromptMessages = Instructions \o c \/ PromptMessages = c
  BY <1>1 DEF PromptMessages, buildChatCompletionParams, buildResponsesParams, buildMessageParams
<1> QED BY <1>2, <1>3, <1>4

-----------------------------------------------------------------------------
(* The loop's invariant.                                                   *)

Reply == [pieces : 0..MaxPieces, calls : Seq(CallKinds), stop : {"", "end_turn", "tool_calls", "length"}]
Kid == [for : CallIds, state : {"ended", "active"}]
AtWork == {"tools", "ticket", "child"}
Shows == {"begin", "tools", "ticket", "child", "completed"}
LastTurnAt(rec, e) ==
  e \in DOMAIN rec /\ rec[e].event = "turn" /\ \A f \in DOMAIN rec : rec[f].event = "turn" => f <= e

TurnsTyped ==
  /\ record \in Seq(RunEvent) /\ mailbox \in Seq(MailEvent) /\ context \in Seq(RunEvent)
  /\ prompt \in Seq(Message) /\ reply \in Reply /\ shown \in 0..MaxPieces /\ kids \subseteq Kid
  /\ turnAt \in {"begin", "asking", "tools", "ticket", "child", "completed", "failed", "interrupted", "lost"}
  /\ Turn \in Nat \ {0} /\ Turn <= MaxTurns + 1
  /\ turnAt = "asking" => shown <= reply.pieces /\ Turn <= MaxTurns

\* A call's id has the number of its turn.
IdsArePast == \A i \in 1..Len(record) : record[i].event = "tool" => record[i].id[1] < Turn

\* The copy is what was read, and what was done since.
CopyIsTrue ==
  /\ turnAt \in {"begin", "asking"} => context = latestToolCallEvents(record)
  /\ turnAt \in AtWork => \E l \in 1..Len(record) : Since(record, reply.calls, context, l, Turn - 1)

\* A child that is at work is that of the last record; one that has ended has told.
KidsAreTold ==
  /\ \A k \in kids : Made(record, k.for)
  /\ \A k \in kids : k.state = "active" =>
       /\ turnAt = "child" /\ Len(record) \in DOMAIN record /\ Delegated(Len(record))
       /\ record[Len(record)].id = k.for
  /\ \A k \in kids, i \in Kept(record, Len(record)) :
       k.state = "ended" /\ record[i].event = "tool" /\ record[i].id = k.for => record[i].of = k.for

PromptIsTrue ==
  /\ CallsDiffer(prompt)
  /\ \A i \in 1..Len(prompt) : prompt[i].role = "call" =>
       /\ i < Len(prompt) /\ prompt[i + 1].role = "result" /\ prompt[i + 1].id = prompt[i].id
       /\ (\E k \in kids : k.for = prompt[i].id) => prompt[i + 1].of = prompt[i].id
       /\ turnAt = "asking" => prompt[i].id[1] < Turn
       /\ turnAt \in AtWork => prompt[i].id[1] < Turn - 1

CallsAreMade ==
  /\ \A t \in 1..(Turn - 1) : t < Turn - 1 \/ turnAt \in {"begin", "asking", "child"} => NoneSkippedIn(record, t)
  /\ turnAt = "ticket" => NextCall # 0 /\ reply.calls[NextCall] = "ask"

TextIsShown ==
  turnAt \in Shows /\ Turn > 1 => \E e \in DOMAIN record : LastTurnAt(record, e) /\ record[e].pieces = shown

TurnsInv ==
  TurnsTyped /\ IdsArePast /\ CopyIsTrue /\ KidsAreTold /\ PromptIsTrue /\ CallsAreMade /\ TextIsShown

-----------------------------------------------------------------------------

LEMMA TurnsStart == TurnsInit => TurnsInv
<1> SUFFICES ASSUME TurnsInit PROVE TurnsInv
  OBVIOUS
<1>1. /\ record = <<>> /\ context = <<>> /\ prompt = <<>> /\ reply = NoReply /\ shown = 0 /\ kids = {}
      /\ turnAt = "begin" /\ mailbox = <<Mail("user")>>
  BY DEF TurnsInit
<1>2. MaxPieces \in Nat /\ MaxTurns \in Nat
  BY TurnsAssumption
<1>3. Len(<<>>) = 0 /\ <<>> \in Seq(RunEvent) /\ <<>> \in Seq(Message) /\ <<>> \in Seq(CallKinds) /\ DOMAIN <<>> = {}
  BY EmptySeq
<1>4. Turn = 1
  <2>1. {i \in DOMAIN record : record[i].event = "turn"} = {}
    BY <1>1, <1>3
  <2> QED BY <2>1, FS_EmptySet DEF Turn
<1>5. TurnsTyped
  <2>1. mailbox \in Seq(MailEvent)
    <3>1. Mail("user") \in MailEvent
      BY DEF Mail, MailEvent
    <3> QED BY <1>1, <3>1
  <2>2. reply \in Reply
    <3>1. 0 \in 0..MaxPieces
      BY <1>2
    <3>2. PICK q : q = <<>>
      OBVIOUS
    <3>3. reply = [pieces |-> 0, calls |-> q, stop |-> ""] /\ q \in Seq(CallKinds)
      BY <1>1, <1>3, <3>2 DEF NoReply
    <3> QED BY <3>1, <3>3 DEF Reply
  <2> QED BY <1>1, <1>2, <1>3, <1>4, <2>1, <2>2 DEF TurnsTyped
<1>6. IdsArePast /\ TextIsShown
  BY <1>1, <1>3, <1>4 DEF IdsArePast, TextIsShown
<1>7. CopyIsTrue
  <2>1. Kept(<<>>, 0) = {}
    BY DEF Kept
  <2>2. latestToolCallEvents(<<>>) = <<>>
    BY <1>3, <2>1, LatestIs, PickedNone
  <2> QED BY <1>1, <2>2 DEF CopyIsTrue, AtWork
<1>8. KidsAreTold /\ PromptIsTrue
  BY <1>1, <1>3 DEF KidsAreTold, PromptIsTrue, CallsDiffer
<1>9. CallsAreMade
  BY <1>1, <1>4 DEF CallsAreMade
<1> QED BY <1>5, <1>6, <1>7, <1>8, <1>9 DEF TurnsInv

LEMMA TurnSame == UNCHANGED record => Turn' = Turn
BY DEF Turn

LEMMA IdsSame == ASSUME IdsArePast, UNCHANGED record PROVE IdsArePast'
BY TurnSame DEF IdsArePast

LEMMA KidsSame ==
  ASSUME KidsAreTold, UNCHANGED <<record, kids>>, turnAt' = turnAt \/ turnAt # "child"
  PROVE  KidsAreTold'
<1>1. (\A k \in kids' : Made(record', k.for))
  BY DEF KidsAreTold
<1>2. \A k \in kids' : k.state = "active" =>
       /\ turnAt' = "child" /\ Len(record') \in DOMAIN record' /\ Delegated(Len(record))'
       /\ record'[Len(record')].id = k.for
  BY DEF KidsAreTold, Delegated
<1>3. \A k \in kids', i \in Kept(record', Len(record')) :
       k.state = "ended" /\ record'[i].event = "tool" /\ record'[i].id = k.for => record'[i].of = k.for
  BY DEF KidsAreTold
<1> QED BY <1>1, <1>2, <1>3 DEF KidsAreTold

LEMMA PromptSame ==
  ASSUME PromptIsTrue, UNCHANGED <<kids, prompt>>, Turn' = Turn,
         turnAt' # "asking" \/ turnAt = "asking", turnAt' \notin AtWork \/ turnAt \in AtWork
  PROVE  PromptIsTrue'
<1>1. CallsDiffer(prompt')
  BY DEF PromptIsTrue
<1> SUFFICES ASSUME NEW i \in 1..Len(prompt'), prompt'[i].role = "call"
             PROVE  /\ i < Len(prompt') /\ prompt'[i + 1].role = "result" /\ prompt'[i + 1].id = prompt'[i].id
                    /\ (\E k \in kids' : k.for = prompt'[i].id) => prompt'[i + 1].of = prompt'[i].id
                    /\ turnAt' = "asking" => prompt'[i].id[1] < Turn'
                    /\ turnAt' \in AtWork => prompt'[i].id[1] < Turn' - 1
  BY <1>1 DEF PromptIsTrue
<1> QED BY DEF PromptIsTrue

LEMMA TextSame ==
  ASSUME TextIsShown, UNCHANGED <<record, shown>>, turnAt' \in Shows => turnAt \in Shows PROVE TextIsShown'
BY TurnSame DEF TextIsShown

LEMMA MadeSame ==
  ASSUME CallsAreMade, UNCHANGED record,
         turnAt' \in {"begin", "asking", "child"} => turnAt \in {"begin", "asking", "child"}, turnAt' # "ticket"
  PROVE  CallsAreMade'
BY TurnSame DEF CallsAreMade

LEMMA TypedSame ==
  ASSUME TurnsTyped, UNCHANGED <<record, kids>>
  PROVE  /\ record' \in Seq(RunEvent) /\ kids' \subseteq Kid /\ Turn' \in Nat \ {0} /\ Turn' <= MaxTurns + 1
BY TurnSame DEF TurnsTyped

\* The ids in the loop's copy differ.
LEMMA LatestDiffers ==
  ASSUME NEW rec \in Seq(RunEvent), NEW ctx, ctx = latestToolCallEvents(rec)
  PROVE  /\ ctx \in Seq(RunEvent) /\ EventsDiffer(ctx)
         /\ \A e \in DOMAIN ctx : \E i \in Kept(rec, Len(rec)) : i \in 1..Len(rec) /\ ctx[e] = rec[i]
<1>1. PICK S : S = Kept(rec, Len(rec)) /\ S \subseteq 1..Len(rec) /\ ctx = Picked(rec, S)
  BY LatestIs
<1>2. PICK p : p = PlacesIn(S)
  OBVIOUS
<1>3. ctx \in Seq(RunEvent)
  BY <1>1, PickedIs
<1>4. PICK m \in Nat : m = Len(ctx) /\ DOMAIN ctx = 1..m
  BY <1>3, LenProperties
<1>5. /\ \A k \in 1..m : p[k] \in S /\ ctx[k] = rec[p[k]]
      /\ \A k, l \in 1..m : k # l => p[k] # p[l]
  BY <1>1, <1>2, <1>4, PickedFrom
<1>6. EventsDiffer(ctx)
  <2> SUFFICES ASSUME NEW k \in 1..m, NEW l \in 1..m, ctx[k].event = "tool", ctx[l].event = "tool", k # l,
                      ctx[k].id = ctx[l].id
               PROVE  FALSE
    BY <1>4 DEF EventsDiffer
  <2>1. PICK a \in S, b \in S : a = p[k] /\ b = p[l] /\ a # b /\ ctx[k] = rec[a] /\ ctx[l] = rec[b]
    BY <1>5
  <2>2. SameCall(rec[a], rec[b]) /\ SameCall(rec[b], rec[a])
    BY <2>1 DEF SameCall
  <2>3. PICK n \in Nat : n = Len(rec) /\ a \in 1..n /\ b \in 1..n
    BY <1>1, LenProperties
  <2>4. a < b \/ b < a
    BY <2>1, <2>3
  <2>5. ~\E j \in 1..n : a < j /\ SameCall(rec[a], rec[j])
    BY <1>1, <2>3 DEF Kept
  <2>6. ~\E j \in 1..n : b < j /\ SameCall(rec[b], rec[j])
    BY <1>1, <2>3 DEF Kept
  <2> QED BY <2>2, <2>3, <2>4, <2>5, <2>6
<1>7. ASSUME NEW e \in DOMAIN ctx PROVE \E i \in S : i \in 1..Len(rec) /\ ctx[e] = rec[i]
  BY <1>1, <1>4, <1>5
<1> QED BY <1>1, <1>3, <1>6, <1>7

LEMMA AssembleKeeps == ASSUME TurnsInv, Assemble PROVE TurnsInv'
<1>1. /\ turnAt = "begin" /\ Turn <= MaxTurns /\ prompt' = PromptMessages /\ shown' = 0 /\ turnAt' = "asking"
      /\ UNCHANGED <<api, mailbox, record, context, kids>>
  BY DEF Assemble
<1>2. TurnsTyped /\ IdsArePast /\ CopyIsTrue /\ KidsAreTold /\ PromptIsTrue /\ CallsAreMade /\ TextIsShown
  BY DEF TurnsInv
<1>3. /\ record \in Seq(RunEvent) /\ context \in Seq(RunEvent) /\ mailbox \in Seq(MailEvent)
      /\ context = latestToolCallEvents(record)
  BY <1>1, <1>2 DEF TurnsTyped, CopyIsTrue
<1>4. /\ EventsDiffer(context)
      /\ \A e \in DOMAIN context : \E i \in Kept(record, Len(record)) : i \in 1..Len(record) /\ context[e] = record[i]
  <2>1. PICK rec, ctx : rec \in Seq(RunEvent) /\ rec = record /\ ctx = context /\ ctx = latestToolCallEvents(rec)
    BY <1>3
  <2>2. EventsDiffer(ctx)
    BY <2>1, LatestDiffers
  <2>3. \A e \in DOMAIN ctx : \E i \in Kept(rec, Len(rec)) : i \in 1..Len(rec) /\ ctx[e] = rec[i]
    BY <2>1, LatestDiffers
  <2> QED BY <2>1, <2>2, <2>3
<1>5. PICK p : p = prompt'
  OBVIOUS
<1>6. p \in Seq(Message) /\ CallsHaveResults(p, context) /\ CallsDiffer(p)
  BY <1>1, <1>3, <1>4, <1>5, PromptIs
<1>7. reply' \in Reply
  <2>1. PICK pieces \in 0..MaxPieces, asked \in CallLists, stop \in {"end_turn", "tool_calls", "length"} :
          reply' = [pieces |-> pieces, calls |-> asked, stop |-> stop]
    BY DEF Assemble
  <2>2. asked \in Seq(CallKinds)
    BY TurnsAssumption DEF CallKinds
  <2> QED BY <2>1, <2>2 DEF Reply
<1>8. TurnsTyped'
  <2>1. reply'.pieces \in 0..MaxPieces /\ MaxPieces \in Nat
    BY <1>7, TurnsAssumption DEF Reply
  <2>2. shown' \in 0..MaxPieces /\ shown' <= reply'.pieces
    BY <1>1, <2>1
  <2>3. Turn' = Turn
    BY <1>1, TurnSame
  <2> QED BY <1>1, <1>2, <1>5, <1>6, <1>7, <2>2, <2>3 DEF TurnsTyped
<1>9. PromptIsTrue'
  <2> SUFFICES ASSUME NEW i \in 1..Len(p), p[i].role = "call"
               PROVE  /\ i < Len(p) /\ p[i + 1].role = "result" /\ p[i + 1].id = p[i].id
                      /\ (\E k \in kids : k.for = p[i].id) => p[i + 1].of = p[i].id
                      /\ p[i].id[1] < Turn
    BY <1>1, <1>5, <1>6, TurnSame DEF PromptIsTrue, AtWork
  <2>1. CallHasResult(p, context, i)
    BY <1>6 DEF CallsHaveResults
  <2>2. PICK e \in DOMAIN context : context[e].event = "tool" /\ context[e].id = p[i].id /\ context[e].of = p[i + 1].of
    BY <2>1 DEF CallHasResult
  <2>3. PICK x \in Kept(record, Len(record)) : x \in 1..Len(record) /\ context[e] = record[x]
    BY <1>4
  <2>4. p[i].id[1] < Turn
    BY <1>2, <2>2, <2>3 DEF IdsArePast
  <2>5. ASSUME NEW k \in kids, k.for = p[i].id PROVE p[i + 1].of = p[i].id
    <3>1. k.state # "active"
      BY <1>1, <1>2 DEF KidsAreTold
    <3>2. k.state = "ended"
      BY <1>2, <3>1 DEF TurnsTyped, Kid
    <3> QED BY <1>2, <2>2, <2>3, <2>5, <3>2 DEF KidsAreTold
  <2> QED BY <2>1, <2>4, <2>5 DEF CallHasResult
<1>10. KidsAreTold' /\ IdsArePast'
  BY <1>1, <1>2, KidsSame, IdsSame
<1>11. CallsAreMade'
  BY <1>1, <1>2, MadeSame
<1>12. CopyIsTrue' /\ TextIsShown'
  BY <1>1, <1>3 DEF CopyIsTrue, TextIsShown, AtWork, Shows
<1> QED BY <1>8, <1>9, <1>10, <1>11, <1>12 DEF TurnsInv

LEMMA OnDeltaKeeps == ASSUME TurnsInv, OnDelta PROVE TurnsInv'
<1>1. /\ turnAt = "asking" /\ shown < reply.pieces /\ shown' = shown + 1
      /\ UNCHANGED <<api, mailbox, record, context, prompt, reply, kids, turnAt>>
  BY DEF OnDelta
<1>2. TurnsTyped /\ IdsArePast /\ CopyIsTrue /\ KidsAreTold /\ PromptIsTrue /\ CallsAreMade /\ TextIsShown
  BY DEF TurnsInv
<1>3. Turn' = Turn
  BY <1>1, TurnSame
<1>4. TurnsTyped'
  <2>1. shown \in 0..MaxPieces /\ reply.pieces \in 0..MaxPieces /\ MaxPieces \in Nat
    BY <1>2, TurnsAssumption DEF TurnsTyped, Reply
  <2>2. shown' \in 0..MaxPieces /\ shown' <= reply.pieces
    BY <1>1, <2>1
  <2> QED BY <1>1, <1>2, <1>3, <2>2 DEF TurnsTyped
<1>5. KidsAreTold' /\ IdsArePast' /\ PromptIsTrue'
  BY <1>1, <1>2, <1>3, KidsSame, IdsSame, PromptSame
<1>6. CallsAreMade' /\ CopyIsTrue' /\ TextIsShown'
  BY <1>1, <1>2, <1>3 DEF CallsAreMade, CopyIsTrue, TextIsShown, AtWork, Shows
<1> QED BY <1>4, <1>5, <1>6 DEF TurnsInv

\* What fails or is given up stays as it was.
LEMMA GivenUp ==
  ASSUME TurnsInv, UNCHANGED <<mailbox, record, context, prompt, shown, kids>>, reply' \in Reply,
         turnAt # "child", turnAt' \in {"failed", "interrupted", "lost"}
  PROVE  TurnsInv'
<1>1. TurnsTyped /\ IdsArePast /\ CopyIsTrue /\ KidsAreTold /\ PromptIsTrue /\ CallsAreMade /\ TextIsShown
  BY DEF TurnsInv
<1>2. Turn' = Turn
  BY TurnSame
<1>3. turnAt' \notin AtWork /\ turnAt' \notin Shows /\ turnAt' \notin {"begin", "asking", "child"} /\ turnAt' # "ticket"
  BY DEF AtWork, Shows
<1>4. TurnsTyped'
  BY <1>1, <1>2, <1>3 DEF TurnsTyped
<1>5. KidsAreTold' /\ IdsArePast' /\ PromptIsTrue'
  BY <1>1, <1>2, <1>3, KidsSame, IdsSame, PromptSame
<1>6. CallsAreMade' /\ TextIsShown'
  BY <1>1, <1>3, MadeSame, TextSame
<1>7. CopyIsTrue'
  BY <1>3 DEF CopyIsTrue
<1> QED BY <1>4, <1>5, <1>6, <1>7 DEF TurnsInv

LEMMA NoReplyIs == NoReply \in Reply
<1>1. 0 \in 0..MaxPieces
  BY TurnsAssumption
<1>2. PICK q : q = <<>>
  OBVIOUS
<1>3. NoReply = [pieces |-> 0, calls |-> q, stop |-> ""] /\ q \in Seq(CallKinds)
  BY <1>2, EmptySeq DEF NoReply
<1> QED BY <1>1, <1>3 DEF Reply

LEMMA ProviderErrorKeeps == ASSUME TurnsInv, ProviderError PROVE TurnsInv'
BY NoReplyIs, GivenUp DEF ProviderError

LEMMA InjectNoteKeeps == ASSUME TurnsInv, InjectNote PROVE TurnsInv'
<1>1. mailbox' = Append(mailbox, Mail("note")) /\ UNCHANGED <<api, record, context, prompt, reply, shown, kids, turnAt>>
  BY DEF InjectNote
<1>2. TurnsTyped /\ IdsArePast /\ CopyIsTrue /\ KidsAreTold /\ PromptIsTrue /\ CallsAreMade /\ TextIsShown
  BY DEF TurnsInv
<1>3. Turn' = Turn
  BY <1>1, TurnSame
<1>4. TurnsTyped'
  <2>1. Mail("note") \in MailEvent
    BY DEF Mail, MailEvent
  <2>2. mailbox' \in Seq(MailEvent)
    BY <1>1, <1>2, <2>1, AppendProperties DEF TurnsTyped
  <2> QED BY <1>1, <1>2, <1>3, <2>2 DEF TurnsTyped
<1>5. KidsAreTold' /\ IdsArePast' /\ PromptIsTrue' /\ TextIsShown'
  BY <1>1, <1>2, <1>3, KidsSame, IdsSame, PromptSame, TextSame
<1>6. CallsAreMade'
  <2>1. LastCalls' = LastCalls
    BY <1>1, <1>3 DEF LastCalls
  <2>2. NextCall' = NextCall
    BY <2>1 DEF NextCall
  <2> QED BY <1>1, <1>2, <1>3, <2>2 DEF CallsAreMade
<1>7. CopyIsTrue'
  BY <1>1, <1>2, <1>3 DEF CopyIsTrue
<1> QED BY <1>4, <1>5, <1>6, <1>7 DEF TurnsInv

-----------------------------------------------------------------------------

LEMMA KeptShrinks ==
  ASSUME NEW rec, NEW two, NEW e, Extends(two, rec, e), NEW i \in Kept(two, Len(two)), i # Len(two)
  PROVE  i \in Kept(rec, Len(rec)) /\ i \in 1..Len(rec) /\ two[i] = rec[i] /\ ~SameCall(rec[i], e)
<1>1. PICK n \in Nat : n = Len(rec) /\ Len(two) = n + 1 /\ two[n + 1] = e
  BY DEF Extends
<1>2. \A y \in 1..n : two[y] = rec[y]
  BY <1>1 DEF Extends
<1>3. i \in 1..(n + 1) /\ ~\E j \in 1..(n + 1) : i < j /\ SameCall(two[i], two[j])
  BY <1>1 DEF Kept
<1>4. i \in 1..n /\ n + 1 \in 1..(n + 1) /\ i < n + 1
  BY <1>1, <1>3
<1>5. ~\E j \in 1..n : i < j /\ SameCall(rec[i], rec[j])
  <2> SUFFICES ASSUME NEW j \in 1..n, i < j, SameCall(rec[i], rec[j]) PROVE FALSE
    OBVIOUS
  <2>1. j \in 1..(n + 1) /\ two[i] = rec[i] /\ two[j] = rec[j]
    BY <1>2, <1>4
  <2> QED BY <1>3, <2>1
<1>6. ~SameCall(rec[i], e)
  BY <1>1, <1>2, <1>3, <1>4
<1> QED BY <1>1, <1>2, <1>4, <1>5, <1>6 DEF Kept

LEMMA SinceStarts ==
  ASSUME NEW rec \in Seq(RunEvent), NEW e \in RunEvent, e.event = "turn", NEW t, NEW two, Extends(two, rec, e),
         two = Append(rec, e),
         \A i \in 1..Len(rec) : rec[i].event = "tool" => rec[i].id[1] < t
  PROVE  Since(two, e.calls, Append(latestToolCallEvents(rec), e), Len(rec) + 1, t)
<1>1. PICK n \in Nat : n = Len(rec) /\ Len(two) = n + 1 /\ two[n + 1] = e /\ two \in Seq(RunEvent)
  BY DEF Extends
<1>2. \A y \in 1..n : two[y] = rec[y]
  BY <1>1 DEF Extends
<1>3. Append(latestToolCallEvents(rec), e) = Picked(two, Kept(two, n + 1))
  BY <1>1, LatestNext, LatestIs
<1>4. \A i \in 1..(n + 1) : i \in 1..n \/ i = n + 1
  BY <1>1
<1>5. \A i \in 1..(n + 1) : ~(n + 1 < i)
  BY <1>1
<1>6. \A i \in 1..(n + 1) : two[i].event = "tool" => two[i].id[1] < t
  BY <1>1, <1>2, <1>4
<1>7. n + 1 \in 1..(n + 1)
  BY <1>1
<1> QED BY <1>1, <1>3, <1>5, <1>6, <1>7 DEF Since

LEMMA SinceGrows ==
  ASSUME NEW rec, NEW two, NEW e, Extends(two, rec, e), NEW asked, NEW ctx, NEW l, NEW t,
         Since(rec, asked, ctx, l, t), e.event = "tool", e.id[1] = t, ~Made(rec, e.id)
  PROVE  Since(two, asked, ctx, l, t)
<1>1. PICK n \in Nat : /\ n = Len(rec) /\ Len(two) = n + 1 /\ two[n + 1] = e /\ two \in Seq(RunEvent)
                       /\ rec \in Seq(RunEvent) /\ DOMAIN rec = 1..n
  BY DEF Extends
<1>2. \A y \in 1..n : two[y] = rec[y]
  BY <1>1 DEF Extends
<1>3. l \in 1..n /\ l \in 1..(n + 1)
  BY <1>1 DEF Since
<1>4. Kept(two, l) = Kept(rec, l)
  BY <1>1, <1>3, KeptStays
<1>5. ctx = Picked(two, Kept(two, l))
  <2>a. PICK S : S = Kept(rec, l)
    OBVIOUS
  <2>b. \A i \in S : i \in 1..l
    BY <2>a DEF Kept
  <2>1. S = Kept(rec, l) /\ S \subseteq 1..n /\ S \subseteq 1..(n + 1)
    BY <1>3, <2>a, <2>b
  <2>2. Picked(rec, S) = Picked(two, S)
    BY <1>1, <1>2, <2>1, PickedAgrees
  <2> QED BY <1>4, <2>1, <2>2 DEF Since
<1>6. \A i \in 1..(n + 1) : i \in 1..n \/ i = n + 1
  BY <1>1
<1>7. \A i \in 1..(n + 1) : l < i => two[i].event = "tool" /\ two[i].id[1] = t
  BY <1>1, <1>2, <1>6 DEF Since
<1>8. \A i \in 1..l : two[i].event = "tool" => two[i].id[1] < t
  <2>1. \A i \in 1..l : i \in 1..n
    BY <1>3
  <2> QED BY <1>2, <2>1 DEF Since
<1>9. \A i, j \in 1..(n + 1) : l < i /\ i < j => two[i].id # two[j].id
  <2> SUFFICES ASSUME NEW i \in 1..(n + 1), NEW j \in 1..(n + 1), l < i, i < j PROVE two[i].id # two[j].id
    OBVIOUS
  <2>1. i \in 1..n /\ two[i] = rec[i] /\ rec[i].event = "tool"
    <3>1. i \in 1..n
      BY <1>1
    <3> QED BY <1>1, <1>2, <3>1 DEF Since
  <2>2. CASE j \in 1..n
    BY <1>1, <1>2, <2>1, <2>2 DEF Since
  <2>3. CASE j = n + 1
    BY <1>1, <2>1, <2>3 DEF Made
  <2> QED BY <1>6, <2>2, <2>3
<1>10. two[l].event = "turn" /\ two[l].calls = asked
  BY <1>2, <1>3 DEF Since
<1> QED BY <1>1, <1>3, <1>5, <1>7, <1>8, <1>9, <1>10 DEF Since

\* The last turn's calls are all made when they are.
LEMMA TurnIsDone ==
  ASSUME NEW rec \in Seq(RunEvent), NEW asked, NEW ctx, NEW l, NEW t, t = TurnsTo(rec, Len(rec)),
         Since(rec, asked, ctx, l, t),
         \A i \in DOMAIN asked : Made(rec, <<t, i>>) \/ \E j \in 1..(i - 1) : Waited(rec, asked, t, j)
  PROVE  NoneSkippedIn(rec, t)
<1>1. PICK n \in Nat : n = Len(rec) /\ DOMAIN rec = 1..n
  BY LenProperties
<1>2. l \in 1..n /\ rec[l].event = "turn" /\ rec[l].calls = asked
  BY <1>1 DEF Since
<1> SUFFICES ASSUME NEW e \in 1..n, rec[e].event = "turn", TurnsTo(rec, e) = t PROVE e = l
  BY <1>1, <1>2 DEF NoneSkippedIn
<1>3. ~(l < e)
  <2> SUFFICES ASSUME l < e PROVE FALSE
    OBVIOUS
  <2>1. rec[e].event = "tool"
    BY <1>1 DEF Since
  <2> QED BY <2>1
<1>4. ~(e < l)
  <2> SUFFICES ASSUME e < l PROVE FALSE
    OBVIOUS
  <2>1. TurnsTo(rec, e) < TurnsTo(rec, l)
    BY <1>1, <1>2, TurnsToLess
  <2>2. TurnsTo(rec, l) <= TurnsTo(rec, n)
    <3>1. CASE l = n
      BY <3>1, TurnsToIs, <1>1
    <3>2. CASE l < n
      BY <1>2, <3>2, TurnsToLess
    <3> QED BY <1>1, <1>2, <3>1, <3>2
  <2>3. TurnsTo(rec, e) \in Nat /\ TurnsTo(rec, l) \in Nat /\ TurnsTo(rec, n) \in Nat
    BY <1>2, TurnsToIs
  <2> QED BY <1>1, <2>1, <2>2, <2>3
<1> QED BY <1>2, <1>3, <1>4

Finished(asked, stop) ==
  /\ turnAt = "asking" /\ asked \in Seq(CallKinds) /\ stop \in {"", "end_turn", "tool_calls", "length"}
  /\ FinishTurn(shown, asked, stop)

LEMMA FinishKeeps == ASSUME TurnsInv, NEW asked, NEW stop, Finished(asked, stop) PROVE TurnsInv'
<1>a. turnAt = "asking" /\ asked \in Seq(CallKinds)
  BY DEF Finished
<1>b. stop \in {"", "end_turn", "tool_calls", "length"} /\ FinishTurn(shown, asked, stop)
  BY DEF Finished
<1>1. TurnsTyped /\ IdsArePast /\ CopyIsTrue /\ KidsAreTold /\ PromptIsTrue /\ CallsAreMade /\ TextIsShown
  BY DEF TurnsInv
<1>2. PICK e : e = [event |-> "turn", pieces |-> shown, calls |-> asked]
  OBVIOUS
<1>3. e \in RunEvent /\ e.event = "turn" /\ e.calls = asked /\ e.pieces = shown
  <2>1. shown \in Nat
    BY <1>1, TurnsAssumption DEF TurnsTyped
  <2> QED BY <1>2, <1>a, <2>1 DEF RunEvent, TurnEvent
<1>4. PICK rec, two, ctx : rec = record /\ two = record' /\ ctx = context'
  OBVIOUS
<1>5. rec \in Seq(RunEvent) /\ two = Append(rec, e) /\ Extends(two, rec, e)
  BY <1>1, <1>2, <1>3, <1>4, AppendExtends, <1>b DEF FinishTurn, TurnsTyped
<1>6. PICK n \in Nat : /\ n = Len(rec) /\ DOMAIN rec = 1..n /\ Len(two) = n + 1 /\ DOMAIN two = 1..(n + 1)
                       /\ two[n + 1] = e /\ two \in Seq(RunEvent)
  BY <1>5 DEF Extends
<1>7. \A i \in 1..n : two[i] = rec[i]
  BY <1>5, <1>6 DEF Extends
<1>8. Turn' = Turn + 1 /\ Turn \in Nat \ {0} /\ Turn <= MaxTurns
  BY <1>1, <1>a, <1>3, <1>4, <1>5, TurnNext DEF TurnsTyped
<1>9. ctx = Append(latestToolCallEvents(rec), e) /\ ctx = latestToolCallEvents(two) /\ ctx \in Seq(RunEvent)
  <2>1. ctx = Append(context, e)
    BY <1>4, <1>6, <1>b DEF FinishTurn
  <2>2. ctx \in Seq(RunEvent)
    BY <1>1, <1>3, <2>1, AppendProperties DEF TurnsTyped
  <2>3. ctx = Append(latestToolCallEvents(rec), e)
    BY <1>1, <1>a, <1>4, <2>1 DEF CopyIsTrue
  <2> QED BY <1>3, <1>5, <2>2, <2>3, LatestNext
<1>10. Since(two, asked, ctx, n + 1, Turn)
  <2>1. \A i \in 1..Len(rec) : rec[i].event = "tool" => rec[i].id[1] < Turn
    BY <1>1, <1>4 DEF IdsArePast
  <2> QED BY <1>3, <1>5, <1>6, <1>9, <2>1, SinceStarts
<1>11. /\ reply' = [pieces |-> shown, calls |-> asked, stop |-> stop] /\ UNCHANGED <<api, prompt, shown, kids>>
       /\ turnAt' \in {"tools", "completed", "interrupted", "begin"}
       /\ turnAt' = "begin" => asked = <<>>
  BY <1>b DEF FinishTurn
<1>12. TurnsTyped'
  <2>1. mailbox' \in Seq(MailEvent)
    <3>1. Mail("assistant") \in MailEvent
      BY DEF Mail, MailEvent
    <3>2. mailbox' = mailbox \/ mailbox' = Append(mailbox, Mail("assistant"))
      BY <1>b DEF FinishTurn
    <3> QED BY <1>1, <3>1, <3>2, AppendProperties DEF TurnsTyped
  <2>2. reply' \in Reply /\ MaxTurns \in Nat
    BY <1>1, <1>11, <1>a, <1>b, TurnsAssumption DEF Reply, TurnsTyped
  <2>3. Turn' \in Nat \ {0} /\ Turn' <= MaxTurns + 1
    BY <1>8, <2>2
  <2> QED BY <1>1, <1>4, <1>6, <1>9, <1>11, <2>1, <2>2, <2>3 DEF TurnsTyped
<1>13. IdsArePast'
  <2> SUFFICES ASSUME NEW i \in 1..(n + 1), two[i].event = "tool" PROVE two[i].id[1] < Turn + 1
    BY <1>4, <1>6, <1>8 DEF IdsArePast
  <2>1. i \in 1..n /\ two[i] = rec[i]
    BY <1>3, <1>6, <1>7
  <2>2. rec[i].id[1] < Turn /\ rec[i] \in RunEvent
    BY <1>1, <1>4, <1>5, <1>6, <2>1, ElementOfSeq DEF IdsArePast
  <2>3. rec[i].id[1] \in Nat
    <3>1. rec[i] \in ToolEvent
      BY <2>1, <2>2, EventIs
    <3> QED BY <3>1 DEF ToolEvent, CallIds
  <2> QED BY <1>8, <2>1, <2>2, <2>3
<1>14. CopyIsTrue'
  <2>1. turnAt' \in AtWork => Since(two, reply'.calls, ctx, n + 1, Turn' - 1) /\ n + 1 \in 1..Len(two)
    <3>1. Turn' - 1 = Turn /\ reply'.calls = asked /\ n + 1 \in 1..Len(two)
      BY <1>6, <1>8, <1>11
    <3> QED BY <1>10, <3>1
  <2> QED BY <1>4, <1>9, <2>1 DEF CopyIsTrue
<1>15. KidsAreTold'
  <2>1. \A k \in kids : Made(two, k.for)
    BY <1>1, <1>4, <1>5, MadeStays DEF KidsAreTold
  <2>2. \A k \in kids : k.state # "active"
    BY <1>1, <1>a DEF KidsAreTold
  <2>3. ASSUME NEW k \in kids, NEW i \in Kept(two, n + 1), k.state = "ended", two[i].event = "tool", two[i].id = k.for
        PROVE  two[i].of = k.for
    <3>1. i # n + 1
      BY <1>3, <1>6, <2>3
    <3>2. i \in Kept(rec, n) /\ two[i] = rec[i]
      BY <1>5, <1>6, <3>1, KeptShrinks
    <3> QED BY <1>1, <1>4, <1>6, <2>3, <3>2 DEF KidsAreTold
  <2> QED BY <1>4, <1>6, <1>11, <2>1, <2>2, <2>3 DEF KidsAreTold
<1>16. PromptIsTrue'
  <2> SUFFICES ASSUME NEW i \in 1..Len(prompt), prompt[i].role = "call"
               PROVE  /\ i < Len(prompt) /\ prompt[i + 1].role = "result" /\ prompt[i + 1].id = prompt[i].id
                      /\ (\E k \in kids : k.for = prompt[i].id) => prompt[i + 1].of = prompt[i].id
                      /\ prompt[i].id[1] < Turn
    <3>1. turnAt' # "asking" /\ Turn' - 1 = Turn
      BY <1>8, <1>11
    <3> QED BY <1>1, <1>11, <3>1 DEF PromptIsTrue
  <2> QED BY <1>1, <1>a DEF PromptIsTrue
<1>17. CallsAreMade'
  <2>1. Turn = TurnsTo(rec, n) + 1 /\ TurnsTo(rec, n) \in Nat
    BY <1>4, <1>5, <1>6, TurnIs, TurnsToIs
  <2>2. ASSUME NEW t \in 1..Turn, t < Turn PROVE NoneSkippedIn(two, t)
    <3>1. t \in 1..(Turn - 1) /\ t # TurnsTo(rec, n) + 1
      BY <1>8, <2>1, <2>2
    <3>2. NoneSkippedIn(rec, t)
      BY <1>1, <1>a, <1>4, <3>1 DEF CallsAreMade
    <3> QED BY <1>5, <1>6, <3>1, <3>2, NoneSkippedStays
  <2>3. ASSUME turnAt' = "begin" PROVE NoneSkippedIn(two, Turn)
    <3>1. asked = <<>>
      BY <1>11, <2>3
    <3>2. \A i \in DOMAIN asked : FALSE
      BY <3>1, EmptySeq
    <3>3. Turn = TurnsTo(two, n + 1)
      <4>1. TurnsTo(two, n) = TurnsTo(rec, n)
        BY <1>7, TurnsToSame
      <4> QED BY <1>3, <1>6, <2>1, <4>1, TurnsToNext
    <3> QED BY <1>6, <1>10, <3>2, <3>3, TurnIsDone
  <2>4. turnAt' \notin {"asking", "child", "ticket"}
    BY <1>11
  <2>5. \A t \in 1..Turn : t < Turn \/ t = Turn
    BY <1>8
  <2>6. Turn' - 1 = Turn
    BY <1>8
  <2>7. \A t \in 1..(Turn' - 1) : t < Turn' - 1 \/ turnAt' \in {"begin", "asking", "child"} => NoneSkippedIn(two, t)
    BY <2>2, <2>3, <2>4, <2>5, <2>6
  <2> QED BY <1>4, <2>4, <2>7 DEF CallsAreMade
<1>18. TextIsShown'
  <2>1. LastTurnAt(two, n + 1)
    <3>1. \A f \in DOMAIN two : f <= n + 1
      BY <1>6
    <3> QED BY <1>3, <1>6, <3>1 DEF LastTurnAt
  <2>2. n + 1 \in DOMAIN two /\ two[n + 1].pieces = shown'
    BY <1>3, <1>6, <1>11
  <2> QED BY <1>4, <2>1, <2>2 DEF TextIsShown
<1> QED BY <1>12, <1>13, <1>14, <1>15, <1>16, <1>17, <1>18 DEF TurnsInv

LEMMA GatheredAre == reply.calls \in Seq(CallKinds) => Gathered \subseteq Seq(CallKinds)
<1> SUFFICES ASSUME reply.calls \in Seq(CallKinds), NEW asked \in Gathered PROVE asked \in Seq(CallKinds)
  OBVIOUS
<1>a. PICK all \in Seq(CallKinds) : all = reply.calls
  OBVIOUS
<1>1. \A n \in 0..Len(reply.calls) : SubSeq(reply.calls, 1, n) \in Seq(CallKinds)
  <2> SUFFICES ASSUME NEW n \in 0..Len(all) PROVE SubSeq(all, 1, n) \in Seq(CallKinds)
    BY <1>a
  <2>1. \A i \in 1..n : all[i] \in CallKinds
    BY ElementOfSeq, LenProperties
  <2>2. n \in Int /\ 1 \in Int
    BY LenProperties
  <2>3. PICK k : k = 1
    OBVIOUS
  <2>4. \A i \in k..n : all[i] \in CallKinds
    BY <2>1, <2>3
  <2>5. SubSeq(all, k, n) \in Seq(CallKinds)
    BY <2>2, <2>3, <2>4, SubSeqProperties, Zenon
  <2> QED BY <2>3, <2>5, Zenon
<1>2. "malformed" \in CallKinds
  BY DEF CallKinds
<1>3. PICK whole : whole = {SubSeq(reply.calls, 1, n) : n \in 0..Len(reply.calls)}
  OBVIOUS
<1>4. whole \subseteq Seq(CallKinds)
  BY <1>1, <1>3
<1>5. \A q \in whole : Append(q, "malformed") \in Seq(CallKinds)
  BY <1>2, <1>4, AppendProperties
<1>6. asked \in whole \/ \E q \in whole : asked = Append(q, "malformed")
  BY <1>3 DEF Gathered
<1> QED BY <1>4, <1>5, <1>6

LEMMA GenerateKeeps == ASSUME TurnsInv, Generate PROVE TurnsInv'
<1>1. turnAt = "asking" /\ reply.calls \in Seq(CallKinds) /\ reply.stop \in {"", "end_turn", "tool_calls", "length"}
  BY DEF Generate, TurnsInv, TurnsTyped, Reply
<1>3. CASE streamChatCompletions
  <2>1. FinishTurn(shown, reply.calls, reply.stop)
    BY <1>3 DEF streamChatCompletions
  <2> QED BY <1>1, <2>1, FinishKeeps DEF Finished
<1>4. CASE consumeMessageStream
  <2>1. FinishTurn(shown, reply.calls, reply.stop)
    BY <1>4 DEF consumeMessageStream
  <2> QED BY <1>1, <2>1, FinishKeeps DEF Finished
<1>5. CASE StreamEndsEarly
  <2>1. PICK asked \in Gathered : FinishTurn(shown, asked, "")
    BY <1>5 DEF StreamEndsEarly
  <2>2. asked \in Seq(CallKinds)
    BY <1>1, GatheredAre
  <2> QED BY <1>1, <2>1, <2>2, FinishKeeps DEF Finished
<1>6. CASE streamResponses
  <2>1. PICK stop : stop = IF reply.calls # <<>> THEN "tool_calls" ELSE "end_turn"
    OBVIOUS
  <2>2. FinishTurn(shown, reply.calls, stop)
    BY <1>6, <2>1 DEF streamResponses
  <2>3. stop \in {"", "end_turn", "tool_calls", "length"}
    BY <2>1
  <2> QED BY <1>1, <2>2, <2>3, FinishKeeps DEF Finished
<1> QED BY <1>3, <1>4, <1>5, <1>6 DEF Generate

-----------------------------------------------------------------------------
(* The records of the calls.                                               *)

Tool(id, kd, of) == [event |-> "tool", id |-> id, kind |-> kd, of |-> of]

LEMMA RecordedIs ==
  ASSUME TurnsTyped, NEW id \in CallIds, NEW kd \in CallKinds, NEW of \in CallIds \cup {<<>>}, Recorded(id, kd, of)
  PROVE  /\ Tool(id, kd, of) \in RunEvent /\ Turn' = Turn
         /\ record' = Append(record, Tool(id, kd, of))
         /\ Extends(record', record, Tool(id, kd, of)) /\ record' \in Seq(RunEvent)
<1>1. PICK e : e = Tool(id, kd, of)
  OBVIOUS
<1>2. e \in RunEvent /\ e.event = "tool"
  BY <1>1 DEF RunEvent, ToolEvent, Tool
<1>3. record' = Append(record, e) /\ record \in Seq(RunEvent)
  BY <1>1 DEF Recorded, Tool, TurnsTyped
<1>4. Turn' = Turn
  BY <1>2, <1>3, TurnNext
<1>5. Extends(record', record, e)
  BY <1>2, <1>3, AppendExtends
<1>6. record' \in Seq(RunEvent)
  BY <1>5 DEF Extends
<1> QED BY <1>1, <1>2, <1>3, <1>4, <1>5, <1>6

LEMMA IdsGrow ==
  ASSUME IdsArePast, NEW e, e.event = "tool", e.id[1] < Turn, Extends(record', record, e), Turn' = Turn
  PROVE  IdsArePast'
<1>1. PICK rec, two : rec = record /\ two = record'
  OBVIOUS
<1>2. PICK n \in Nat : n = Len(rec) /\ Len(two) = n + 1 /\ two[n + 1] = e
  BY <1>1 DEF Extends
<1>3. \A i \in 1..n : two[i] = rec[i]
  BY <1>1, <1>2 DEF Extends
<1> SUFFICES ASSUME NEW i \in 1..(n + 1), two[i].event = "tool" PROVE two[i].id[1] < Turn
  BY <1>1, <1>2 DEF IdsArePast
<1>4. i \in 1..n \/ i = n + 1
  BY <1>2
<1>5. CASE i = n + 1
  BY <1>2, <1>5
<1>6. CASE i \in 1..n
  BY <1>1, <1>2, <1>3, <1>6 DEF IdsArePast
<1> QED BY <1>4, <1>5, <1>6

LEMMA TextGrows ==
  ASSUME TextIsShown, NEW e, e.event = "tool", Extends(record', record, e), Turn' = Turn, UNCHANGED shown,
         turnAt \in Shows
  PROVE  TextIsShown'
<1>1. PICK rec, two : rec = record /\ two = record'
  OBVIOUS
<1>2. PICK n \in Nat : n = Len(rec) /\ two[n + 1] = e /\ DOMAIN rec = 1..n /\ DOMAIN two = 1..(n + 1)
  BY <1>1 DEF Extends
<1>3. \A i \in 1..n : two[i] = rec[i]
  BY <1>1, <1>2 DEF Extends
<1> SUFFICES ASSUME Turn > 1 PROVE \E x \in DOMAIN two : LastTurnAt(two, x) /\ two[x].pieces = shown
  BY <1>1 DEF TextIsShown
<1>4. PICK x \in DOMAIN rec : LastTurnAt(rec, x) /\ rec[x].pieces = shown
  BY <1>1 DEF TextIsShown
<1>5. x \in DOMAIN two /\ two[x] = rec[x]
  BY <1>2, <1>3, <1>4
<1>6. LastTurnAt(two, x)
  <2>1. ASSUME NEW f \in DOMAIN two, two[f].event = "turn" PROVE f <= x
    <3>1. f \in DOMAIN rec /\ two[f] = rec[f]
      BY <1>2, <1>3, <2>1
    <3> QED BY <1>4, <2>1, <3>1 DEF LastTurnAt
  <2> QED BY <1>4, <1>5, <2>1 DEF LastTurnAt
<1> QED BY <1>4, <1>5, <1>6

LEMMA NextCallIs ==
  ASSUME TurnsTyped
  PROVE  \/ NextCall = 0 /\ \A i \in DOMAIN reply.calls : Made(record, <<Turn - 1, i>>)
         \/ /\ NextCall \in Nat \ {0} /\ NextCall \in DOMAIN reply.calls
            /\ ~Made(record, <<Turn - 1, NextCall>>)
            /\ \A i \in DOMAIN reply.calls : i < NextCall => Made(record, <<Turn - 1, i>>)
<1>1. PICK q : q = reply.calls
  OBVIOUS
<1>2. q \in Seq(CallKinds)
  BY <1>1 DEF TurnsTyped, Reply
<1>3. DOMAIN q = 1..Len(q) /\ Len(q) \in Nat
  BY <1>2, LenProperties
<1>4. PICK S : S = LastCalls
  OBVIOUS
<1>5. S \subseteq DOMAIN q /\ \A i \in DOMAIN q : i \in S <=> ~Made(record, <<Turn - 1, i>>)
  BY <1>1, <1>4 DEF LastCalls, Made
<1>6. S \subseteq Nat \ {0}
  BY <1>3, <1>5
<1>7. CASE S = {}
  BY <1>1, <1>4, <1>5, <1>7 DEF NextCall
<1>8. CASE S # {}
  <2>1. PICK m \in S : \A j \in S : m <= j
    BY <1>6, <1>8, LeastIs
  <2>2. PICK c : c = NextCall
    OBVIOUS
  <2>3. c \in S /\ \A j \in S : c <= j
    BY <1>4, <1>8, <2>1, <2>2 DEF NextCall
  <2>4. \A i \in DOMAIN q : i < c => i \notin S
    <3>1. \A i \in S : i \in Nat /\ c \in Nat
      BY <1>6, <2>3
    <3> QED BY <2>3, <3>1
  <2> QED BY <1>1, <1>5, <1>6, <2>2, <2>3, <2>4
<1> QED BY <1>7, <1>8

\* What stays true of the requests while calls are recorded.
LEMMA PromptGrows ==
  ASSUME PromptIsTrue, turnAt \in AtWork, Turn' = Turn, UNCHANGED prompt, turnAt' # "asking",
         \A k \in kids' : (\E l \in kids : l.for = k.for) \/ ~(k.for[1] < Turn - 1)
  PROVE  PromptIsTrue'
<1>1. CallsDiffer(prompt')
  BY DEF PromptIsTrue
<1> SUFFICES ASSUME NEW i \in 1..Len(prompt'), prompt'[i].role = "call"
             PROVE  /\ i < Len(prompt') /\ prompt'[i + 1].role = "result" /\ prompt'[i + 1].id = prompt'[i].id
                    /\ (\E k \in kids' : k.for = prompt'[i].id) => prompt'[i + 1].of = prompt'[i].id
                    /\ turnAt' \in AtWork => prompt'[i].id[1] < Turn' - 1
  BY <1>1 DEF PromptIsTrue
<1>2. i < Len(prompt) /\ prompt[i + 1].role = "result" /\ prompt[i + 1].id = prompt[i].id
  BY DEF PromptIsTrue
<1>3. prompt[i].id[1] < Turn - 1
  BY DEF PromptIsTrue
<1>4. ASSUME NEW k \in kids', k.for = prompt[i].id PROVE prompt[i + 1].of = prompt[i].id
  <2>1. \E l \in kids : l.for = prompt[i].id
    BY <1>3, <1>4
  <2> QED BY <2>1 DEF PromptIsTrue
<1> QED BY <1>2, <1>3, <1>4

\* A call that was not made before, and the child that it is for.
LEMMA KidsGrow ==
  ASSUME KidsAreTold, turnAt # "child", NEW e, e.event = "tool", Extends(record', record, e), ~Made(record, e.id),
         NEW kid, kid.for = e.id, kids' = kids \/ kids' = kids \cup {kid},
         kids' = kids \/ (kid.state = "ended" /\ e.of = e.id) \/ (kid.state = "active" /\ turnAt' = "child" /\ e.kind = "delegate")
  PROVE  KidsAreTold'
<1>1. PICK rec, two, old, new : rec = record /\ two = record' /\ old = kids /\ new = kids'
  OBVIOUS
<1>2. PICK n \in Nat : /\ n = Len(rec) /\ Len(two) = n + 1 /\ two[n + 1] = e /\ DOMAIN two = 1..(n + 1) /\ DOMAIN rec = 1..n
  BY <1>1 DEF Extends
<1>3. Made(two, e.id)
  <2>1. n + 1 \in DOMAIN two
    BY <1>2
  <2> QED BY <1>2, <2>1 DEF Made
<1>4. \A k \in new : Made(two, k.for)
  <2>1. \A k \in old : Made(two, k.for)
    BY <1>1, MadeStays DEF KidsAreTold
  <2> QED BY <1>1, <1>3, <2>1
<1>5. ASSUME NEW k \in new, k.state = "active"
      PROVE  turnAt' = "child" /\ n + 1 \in DOMAIN two /\ two[n + 1].event = "tool" /\ two[n + 1].kind = "delegate"
             /\ two[n + 1].id = k.for
  <2>1. k \notin old
    BY <1>1, <1>5 DEF KidsAreTold
  <2>2. k = kid /\ new # old
    BY <1>1, <2>1
  <2>3. n + 1 \in DOMAIN two
    BY <1>2
  <2> QED BY <1>1, <1>2, <1>5, <2>2, <2>3
<1>6. ASSUME NEW k \in new, NEW i \in Kept(two, n + 1), k.state = "ended", two[i].event = "tool", two[i].id = k.for
      PROVE  two[i].of = k.for
  <2>1. CASE i = n + 1
    <3>1. two[i] = e /\ k.for = e.id
      BY <1>2, <1>6, <2>1
    <3>2. k \notin old
      BY <1>1, <3>1 DEF KidsAreTold
    <3> QED BY <1>1, <1>6, <3>1, <3>2
  <2>2. CASE i # n + 1
    <3>1. i \in Kept(rec, n) /\ i \in 1..n /\ two[i] = rec[i]
      BY <1>1, <1>2, <2>2, KeptShrinks
    <3>2. Made(rec, k.for)
      BY <1>2, <1>6, <3>1 DEF Made
    <3>3. k \in old
      BY <1>1, <3>2
    <3> QED BY <1>1, <1>2, <1>6, <3>1, <3>3 DEF KidsAreTold
  <2> QED BY <2>1, <2>2
<1>7. \A k \in kids' : k.state = "active" =>
       /\ turnAt' = "child" /\ Len(record') \in DOMAIN record' /\ Delegated(Len(record))'
       /\ record'[Len(record')].id = k.for
  BY <1>1, <1>2, <1>5 DEF Delegated
<1>8. \A k \in kids', i \in Kept(record', Len(record')) :
       k.state = "ended" /\ record'[i].event = "tool" /\ record'[i].id = k.for => record'[i].of = k.for
  BY <1>1, <1>2, <1>6
<1>9. \A k \in kids' : Made(record', k.for)
  BY <1>1, <1>4
<1> QED BY <1>7, <1>8, <1>9 DEF KidsAreTold

\* The turns before the one at work stay as they are.
LEMMA OldTurnsStay ==
  ASSUME TurnsTyped, CallsAreMade, NEW e, e.event = "tool", Extends(record', record, e), Turn' = Turn
  PROVE  /\ \A t \in 1..(Turn' - 1) : t < Turn' - 1 => NoneSkippedIn(record', t)
         /\ turnAt = "child" => \A t \in 1..(Turn' - 1) : NoneSkippedIn(record', t)
<1>1. PICK rec, two : rec = record /\ two = record'
  OBVIOUS
<1>2. ASSUME NEW t, NoneSkippedIn(rec, t) PROVE NoneSkippedIn(two, t)
  BY <1>1, <1>2, NoneSkippedStays
<1>3. \A t \in 1..(Turn - 1) : t < Turn - 1 => NoneSkippedIn(rec, t)
  BY <1>1 DEF CallsAreMade
<1>4. turnAt = "child" => \A t \in 1..(Turn - 1) : NoneSkippedIn(rec, t)
  BY <1>1 DEF CallsAreMade
<1> QED BY <1>1, <1>2, <1>3, <1>4

\* The turn at work is over when its next call is made and made the run wait.
LEMMA TurnEnds ==
  ASSUME TurnsTyped, CopyIsTrue, turnAt \in AtWork, NextCall # 0,
         NEW e, e.event = "tool", e.id = <<Turn - 1, NextCall>>, Extends(record', record, e), Turn' = Turn,
         reply.calls[NextCall] = "ask" \/ (e.kind = "delegate" /\ e.of = <<>>)
  PROVE  NoneSkippedIn(record', Turn - 1)
<1>1. PICK rec, two, ctx, asked, c : rec = record /\ two = record' /\ ctx = context /\ asked = reply.calls /\ c = NextCall
  OBVIOUS
<1>2. PICK t : t = Turn - 1
  OBVIOUS
<1>3. /\ c \in Nat \ {0} /\ ~Made(rec, <<t, c>>)
      /\ \A i \in DOMAIN asked : i < c => Made(rec, <<t, i>>)
  BY <1>1, <1>2, NextCallIs
<1>4. PICK l \in 1..Len(rec) : Since(rec, asked, ctx, l, t)
  BY <1>1, <1>2 DEF CopyIsTrue
<1>5. e.id[1] = t /\ ~Made(rec, e.id)
  BY <1>1, <1>2, <1>3
<1>6. Since(two, asked, ctx, l, t)
  BY <1>1, <1>4, <1>5, SinceGrows
<1>7. two \in Seq(RunEvent) /\ Len(two) \in DOMAIN two /\ two[Len(two)] = e
  BY <1>1 DEF Extends
<1>8. t = TurnsTo(two, Len(two))
  <2>1. PICK n \in Nat : n = Len(rec) /\ Len(two) = n + 1 /\ two[n + 1] = e
    BY <1>1 DEF Extends
  <2>2. \A i \in 1..n : two[i] = rec[i]
    BY <1>1, <2>1 DEF Extends
  <2>3. TurnsTo(two, n + 1) = TurnsTo(two, n)
    BY <2>1, TurnsToNext
  <2>4. TurnsTo(two, n) = TurnsTo(rec, n)
    BY <2>2, TurnsToSame
  <2>5. Turn = TurnsTo(rec, n) + 1 /\ TurnsTo(rec, n) \in Nat
    BY <1>1, <2>1, TurnIs, TurnsToIs DEF TurnsTyped
  <2> QED BY <1>2, <2>1, <2>3, <2>4, <2>5
<1>9. Made(two, <<t, c>>)
  BY <1>1, <1>2, <1>7 DEF Made
<1>10. Waited(two, asked, t, c)
  BY <1>1, <1>2, <1>7 DEF Waited
<1>11. ASSUME NEW i \in DOMAIN asked PROVE Made(two, <<t, i>>) \/ \E j \in 1..(i - 1) : Waited(two, asked, t, j)
  <2>1. i \in Nat
    <3>1. asked \in Seq(CallKinds)
      BY <1>1 DEF TurnsTyped, Reply
    <3> QED BY <3>1, LenProperties
  <2>2. i < c \/ i = c \/ c \in 1..(i - 1)
    BY <1>3, <2>1
  <2>3. ASSUME i < c PROVE Made(two, <<t, i>>)
    <3>1. Made(rec, <<t, i>>)
      BY <1>3, <2>3
    <3> QED BY <1>1, <3>1, MadeStays
  <2> QED BY <1>9, <1>10, <2>2, <2>3
<1>12. NoneSkippedIn(two, t)
  BY <1>6, <1>7, <1>8, <1>11, TurnIsDone
<1> QED BY <1>1, <1>2, <1>12

\* A call that is made while the loop goes through those of its turn, or that pauses the loop.
LEMMA CallKeeps ==
  ASSUME TurnsInv, turnAt = "tools", NextCall # 0,
         NEW id, id = <<Turn - 1, NextCall>>, NEW kd \in CallKinds, kd = reply.calls[NextCall],
         NEW of \in CallIds \cup {<<>>}, Recorded(id, kd, of),
         UNCHANGED <<mailbox, context, prompt, reply, shown>>,
         NEW kid \in Kid, kid.for = id, kids' = kids \/ kids' = kids \cup {kid},
         kids' = kids \/ (kid.state = "ended" /\ of = id) \/ (kid.state = "active" /\ turnAt' = "child" /\ kd = "delegate"),
         turnAt' = "tools" \/ (turnAt' = "child" /\ kd = "delegate" /\ of = <<>>)
  PROVE  TurnsInv'
<1>1. TurnsTyped /\ IdsArePast /\ CopyIsTrue /\ KidsAreTold /\ PromptIsTrue /\ CallsAreMade /\ TextIsShown
  BY DEF TurnsInv
<1>2. PICK e : e = Tool(id, kd, of)
  OBVIOUS
<1>3. PICK t : t = Turn - 1
  OBVIOUS
<1>4. t \in Nat /\ Turn = t + 1 /\ NextCall \in Nat /\ id = <<t, NextCall>> /\ id[1] = t
  BY <1>1, <1>3, NextCallIs DEF TurnsTyped
<1>5. id \in CallIds
  BY <1>4 DEF CallIds
<1>6. Turn' = Turn /\ Extends(record', record, e) /\ record' \in Seq(RunEvent)
  BY <1>1, <1>2, <1>5, RecordedIs
<1>7. e.event = "tool" /\ e.id = id /\ e.kind = kd /\ e.of = of
  BY <1>2 DEF Tool
<1>8. ~Made(record, e.id)
  BY <1>1, <1>7, NextCallIs
<1>9. TurnsTyped'
  <2>1. kids' \subseteq Kid
    BY <1>1 DEF TurnsTyped
  <2> QED BY <1>1, <1>6, <2>1 DEF TurnsTyped
<1>10. IdsArePast'
  BY <1>1, <1>4, <1>6, <1>7, IdsGrow
<1>11. CopyIsTrue'
  <2>1. PICK rec, two, ctx, asked : rec = record /\ two = record' /\ ctx = context /\ asked = reply.calls
    OBVIOUS
  <2>2. PICK l \in 1..Len(rec) : Since(rec, asked, ctx, l, t)
    BY <1>1, <1>3, <2>1 DEF CopyIsTrue, AtWork
  <2>3. Since(two, asked, ctx, l, t)
    BY <1>4, <1>6, <1>7, <1>8, <2>1, <2>2, SinceGrows
  <2>4. l \in 1..Len(two)
    BY <2>3 DEF Since
  <2>5. Turn' - 1 = t
    BY <1>3, <1>6
  <2>6. reply'.calls = asked /\ context' = ctx
    BY <2>1
  <2>7. \E m \in 1..Len(record') : Since(record', reply'.calls, context', m, Turn' - 1)
    BY <2>1, <2>3, <2>4, <2>5, <2>6
  <2> QED BY <2>7 DEF CopyIsTrue
<1>12. KidsAreTold'
  <2>1. kids' = kids \/ (kid.state = "ended" /\ e.of = e.id) \/ (kid.state = "active" /\ turnAt' = "child" /\ e.kind = "delegate")
    BY <1>7
  <2>2. turnAt # "child" /\ kid.for = e.id
    BY <1>7
  <2> QED BY <1>1, <1>6, <1>7, <1>8, <2>1, <2>2, KidsGrow
<1>13. PromptIsTrue'
  <2>1. ASSUME NEW k \in kids' PROVE (\E l \in kids : l.for = k.for) \/ ~(k.for[1] < Turn - 1)
    <3>1. k \in kids \/ k.for = id
      OBVIOUS
    <3>2. ~(id[1] < Turn - 1)
      BY <1>4
    <3> QED BY <3>1, <3>2
  <2>2. turnAt \in AtWork /\ turnAt' # "asking"
    BY DEF AtWork
  <2> QED BY <1>1, <1>6, <2>1, <2>2, PromptGrows
<1>14. CallsAreMade'
  <2>1. \A s \in 1..(Turn' - 1) : s < Turn' - 1 => NoneSkippedIn(record', s)
    BY <1>1, <1>6, <1>7, OldTurnsStay
  <2>2. turnAt' = "child" => NoneSkippedIn(record', t)
    <3>1. turnAt \in AtWork /\ e.id = <<Turn - 1, NextCall>>
      BY <1>7 DEF AtWork
    <3>2. turnAt' = "child" => e.kind = "delegate" /\ e.of = <<>>
      BY <1>7
    <3> QED BY <1>1, <1>3, <1>6, <1>7, <3>1, <3>2, TurnEnds
  <2>3. \A s \in 1..(Turn' - 1) : s < Turn' - 1 \/ s = t
    BY <1>3, <1>4, <1>6
  <2>4. turnAt' \notin {"begin", "asking", "ticket"}
    OBVIOUS
  <2>5. \A s \in 1..(Turn' - 1) : s < Turn' - 1 \/ turnAt' \in {"begin", "asking", "child"} => NoneSkippedIn(record', s)
    BY <2>1, <2>2, <2>3, <2>4
  <2> QED BY <2>4, <2>5 DEF CallsAreMade
<1>15. TextIsShown'
  <2>1. turnAt \in Shows
    BY DEF Shows
  <2> QED BY <1>1, <1>6, <1>7, <2>1, TextGrows
<1> QED BY <1>9, <1>10, <1>11, <1>12, <1>13, <1>14, <1>15 DEF TurnsInv

LEMMA RunCallKeeps == ASSUME TurnsInv, RunCall PROVE TurnsInv'
<1>1. TurnsTyped /\ IdsArePast /\ CopyIsTrue /\ KidsAreTold /\ PromptIsTrue /\ CallsAreMade /\ TextIsShown
  BY DEF TurnsInv
<1>2. PICK id, kd : id = <<Turn - 1, NextCall>> /\ kd = reply.calls[NextCall]
  OBVIOUS
<1>3. turnAt = "tools" /\ NextCall # 0 /\ UNCHANGED <<api, mailbox, context, prompt, reply, shown>>
  BY DEF RunCall
<1>4. NextCall \in Nat \ {0} /\ NextCall \in DOMAIN reply.calls
  BY <1>1, <1>3, NextCallIs
<1>5. id \in CallIds
  <2>1. Turn - 1 \in Nat
    BY <1>1 DEF TurnsTyped
  <2> QED BY <1>2, <1>4, <2>1 DEF CallIds
<1>6. kd \in CallKinds
  <2>1. reply.calls \in Seq(CallKinds)
    BY <1>1 DEF TurnsTyped, Reply
  <2> QED BY <1>2, <1>4, <2>1, ElementOfSeq, LenProperties
<1>7. \/ kd = "plain" /\ Recorded(id, kd, <<>>) /\ UNCHANGED <<kids, turnAt>>
      \/ kd = "ask" /\ turnAt' = "ticket" /\ UNCHANGED <<record, kids>>
      \/ /\ kd = "delegate"
         /\ \E state \in {"ended", "active"} :
              /\ kids' = kids \cup {[for |-> id, state |-> state]}
              /\ Recorded(id, kd, IF state = "ended" THEN id ELSE <<>>)
              /\ turnAt' = IF state = "active" THEN "child" ELSE "tools"
      \/ turnAt' = "lost" /\ UNCHANGED <<record, kids>>
  BY <1>2 DEF RunCall
<1>8. ASSUME kd = "plain", Recorded(id, kd, <<>>), UNCHANGED <<kids, turnAt>> PROVE TurnsInv'
  <2>1. PICK kid : kid = [for |-> id, state |-> "ended"]
    OBVIOUS
  <2>2. kid \in Kid /\ kid.for = id
    BY <1>5, <2>1 DEF Kid
  <2>3. kids' = kids /\ turnAt' = "tools"
    BY <1>3, <1>8
  <2>4. PICK of : of = <<>>
    OBVIOUS
  <2>5. of \in CallIds \cup {<<>>} /\ Recorded(id, kd, of)
    BY <1>8, <2>4
  <2> QED BY <1>2, <1>3, <1>6, <2>2, <2>3, <2>5, CallKeeps
<1>9. ASSUME kd = "ask", turnAt' = "ticket", UNCHANGED <<record, kids>> PROVE TurnsInv'
  <2>1. Turn' = Turn
    BY <1>9, TurnSame
  <2>2. NextCall' = NextCall
    BY <1>3, <1>9, <2>1 DEF NextCall, LastCalls
  <2>3. TurnsTyped'
    BY <1>1, <1>3, <1>9, TypedSame DEF TurnsTyped
  <2>4. IdsArePast'
    BY <1>1, <1>9, IdsSame
  <2>5. CopyIsTrue'
    BY <1>1, <1>3, <1>9, <2>1 DEF CopyIsTrue, AtWork
  <2>6. KidsAreTold'
    BY <1>1, <1>3, <1>9, KidsSame
  <2>7. PromptIsTrue'
    BY <1>1, <1>3, <1>9, <2>1, PromptSame DEF AtWork
  <2>8. CallsAreMade'
    <3>1. \A t \in 1..(Turn' - 1) : t < Turn' - 1 => NoneSkippedIn(record', t)
      BY <1>1, <1>9, <2>1 DEF CallsAreMade
    <3>2. NextCall' # 0 /\ reply'.calls[NextCall'] = "ask"
      BY <1>2, <1>3, <1>9, <2>2
    <3> QED BY <1>9, <3>1, <3>2 DEF CallsAreMade
  <2>9. TextIsShown'
    BY <1>1, <1>3, <1>9, TextSame DEF Shows
  <2> QED BY <2>3, <2>4, <2>5, <2>6, <2>7, <2>8, <2>9 DEF TurnsInv
<1>10. ASSUME kd = "delegate", NEW state \in {"ended", "active"},
              kids' = kids \cup {[for |-> id, state |-> state]},
              Recorded(id, kd, IF state = "ended" THEN id ELSE <<>>),
              turnAt' = IF state = "active" THEN "child" ELSE "tools"
       PROVE  TurnsInv'
  <2>1. PICK kid : kid = [for |-> id, state |-> state]
    OBVIOUS
  <2>2. kid \in Kid /\ kid.for = id /\ kid.state = state
    BY <1>5, <2>1 DEF Kid
  <2>3. kids' = kids \cup {kid}
    BY <1>10, <2>1
  <2>4. PICK of : of = IF state = "ended" THEN id ELSE <<>>
    OBVIOUS
  <2>5. of \in CallIds \cup {<<>>} /\ Recorded(id, kd, of)
    BY <1>5, <1>10, <2>4
  <2>6. (kid.state = "ended" /\ of = id) \/ (kid.state = "active" /\ turnAt' = "child" /\ kd = "delegate")
    BY <1>10, <2>2, <2>4
  <2>7. turnAt' = "tools" \/ (turnAt' = "child" /\ kd = "delegate" /\ of = <<>>)
    BY <1>10, <2>4
  <2> QED BY <1>2, <1>3, <1>6, <2>2, <2>3, <2>5, <2>6, <2>7, CallKeeps
<1>11. ASSUME turnAt' = "lost", UNCHANGED <<record, kids>> PROVE TurnsInv'
  <2>1. reply' \in Reply
    BY <1>1, <1>3 DEF TurnsTyped
  <2> QED BY <1>3, <1>11, <2>1, GivenUp
<1> QED BY <1>7, <1>8, <1>9, <1>10, <1>11

LEMMA NextTurnKeeps == ASSUME TurnsInv, NextTurn PROVE TurnsInv'
<1>1. TurnsTyped /\ IdsArePast /\ CopyIsTrue /\ KidsAreTold /\ PromptIsTrue /\ CallsAreMade /\ TextIsShown
  BY DEF TurnsInv
<1>2. /\ turnAt = "tools" /\ NextCall = 0 /\ turnAt' = "begin"
      /\ UNCHANGED <<api, mailbox, record, prompt, reply, shown, kids>>
  BY DEF NextTurn
<1>3. PICK rec, ctx, asked, t : rec = record /\ ctx = context /\ asked = reply.calls /\ t = Turn - 1
  OBVIOUS
<1>4. rec \in Seq(RunEvent) /\ t \in Nat /\ Turn = t + 1
  BY <1>1, <1>3 DEF TurnsTyped
<1>5. PICK l \in 1..Len(rec) : Since(rec, asked, ctx, l, t)
  BY <1>1, <1>2, <1>3 DEF CopyIsTrue, AtWork
<1>6. context' = latestToolCallEvents(rec)
  <2>1. context' = ctx \o Picked(rec, {i \in DOMAIN rec : rec[i].event = "tool" /\ rec[i].id[1] = t})
    BY <1>3 DEF NextTurn
  <2> QED BY <1>4, <1>5, <2>1, LatestOfTurn
<1>7. Turn' = Turn
  BY <1>2, TurnSame
<1>8. TurnsTyped'
  <2>1. context' \in Seq(RunEvent)
    BY <1>4, <1>6, LatestDiffers
  <2> QED BY <1>1, <1>2, <2>1, TypedSame DEF TurnsTyped
<1>9. IdsArePast'
  BY <1>1, <1>2, IdsSame
<1>10. CopyIsTrue'
  BY <1>2, <1>3, <1>6 DEF CopyIsTrue, AtWork
<1>11. KidsAreTold'
  BY <1>1, <1>2, KidsSame
<1>12. PromptIsTrue'
  BY <1>1, <1>2, <1>7, PromptSame DEF AtWork
<1>13. CallsAreMade'
  <2>1. \A i \in DOMAIN asked : Made(rec, <<t, i>>)
    BY <1>1, <1>2, <1>3, NextCallIs
  <2>2. t = TurnsTo(rec, Len(rec))
    <3>1. Turn = TurnsTo(rec, Len(rec)) + 1
      BY <1>3, <1>4, TurnIs
    <3>2. TurnsTo(rec, Len(rec)) \in Nat
      BY <1>4, LenProperties, TurnsToIs
    <3> QED BY <1>4, <3>1, <3>2
  <2>3. NoneSkippedIn(rec, t)
    BY <1>4, <1>5, <2>1, <2>2, TurnIsDone
  <2>4. \A s \in 1..(Turn - 1) : s < Turn - 1 => NoneSkippedIn(rec, s)
    BY <1>1, <1>3 DEF CallsAreMade
  <2>5. \A s \in 1..(Turn - 1) : s < Turn - 1 \/ s = t
    BY <1>4
  <2> QED BY <1>2, <1>3, <1>7, <2>3, <2>4, <2>5 DEF CallsAreMade
<1>14. TextIsShown'
  BY <1>1, <1>2, TextSame DEF Shows
<1> QED BY <1>8, <1>9, <1>10, <1>11, <1>12, <1>13, <1>14 DEF TurnsInv

LEMMA ResumedIs ==
  ASSUME record' \in Seq(RunEvent), Resume(record')
  PROVE  context' = latestToolCallEvents(record') /\ context' \in Seq(RunEvent) /\ turnAt' = "begin" /\ reply' \in Reply
<1>1. PICK two, ctx : two = record' /\ ctx = context'
  OBVIOUS
<1>2. ctx = latestToolCallEvents(two) /\ turnAt' = "begin" /\ reply' = NoReply
  BY <1>1 DEF Resume
<1>3. ctx \in Seq(RunEvent)
  BY <1>1, <1>2, LatestDiffers
<1> QED BY <1>1, <1>2, <1>3, NoReplyIs

LEMMA AnswerTicketKeeps == ASSUME TurnsInv, AnswerTicket PROVE TurnsInv'
<1>1. TurnsTyped /\ IdsArePast /\ CopyIsTrue /\ KidsAreTold /\ PromptIsTrue /\ CallsAreMade /\ TextIsShown
  BY DEF TurnsInv
<1>2. turnAt = "ticket" /\ UNCHANGED <<api, mailbox, prompt, shown, kids>>
  BY DEF AnswerTicket
<1>3. NextCall # 0 /\ reply.calls[NextCall] = "ask"
  BY <1>1, <1>2 DEF CallsAreMade
<1>4. PICK id, of : id = <<Turn - 1, NextCall>> /\ of = <<>>
  OBVIOUS
<1>5. PICK t : t = Turn - 1
  OBVIOUS
<1>6. t \in Nat /\ Turn = t + 1 /\ NextCall \in Nat /\ id = <<t, NextCall>> /\ id[1] = t /\ ~Made(record, id)
  BY <1>1, <1>3, <1>4, <1>5, NextCallIs DEF TurnsTyped
<1>7. id \in CallIds /\ of \in CallIds \cup {<<>>} /\ "ask" \in CallKinds
  BY <1>4, <1>6 DEF CallIds, CallKinds
<1>8. \/ Recorded(id, "ask", of) /\ Resume(record')
      \/ Recorded(id, "ask", of) /\ turnAt' = "interrupted" /\ UNCHANGED <<context, reply>>
      \/ turnAt' = "interrupted" /\ UNCHANGED <<record, context, reply>>
  BY <1>4 DEF AnswerTicket
<1>9. ASSUME turnAt' = "interrupted", UNCHANGED <<record, context, reply>> PROVE TurnsInv'
  <2>1. reply' \in Reply
    BY <1>1, <1>9 DEF TurnsTyped
  <2> QED BY <1>2, <1>9, <2>1, GivenUp
<1>10. ASSUME Recorded(id, "ask", of), Resume(record') \/ (turnAt' = "interrupted" /\ UNCHANGED <<context, reply>>)
       PROVE  TurnsInv'
  <2>1. PICK e : e = Tool(id, "ask", of)
    OBVIOUS
  <2>2. Turn' = Turn /\ Extends(record', record, e) /\ record' \in Seq(RunEvent)
    BY <1>1, <1>7, <1>10, <2>1, RecordedIs
  <2>3. e.event = "tool" /\ e.id = id
    BY <2>1 DEF Tool
  <2>4. Resume(record') => context' = latestToolCallEvents(record') /\ context' \in Seq(RunEvent) /\ turnAt' = "begin" /\ reply' \in Reply
    BY <2>2, ResumedIs
  <2>5. turnAt' \in {"begin", "interrupted"} /\ context' \in Seq(RunEvent) /\ reply' \in Reply
    BY <1>1, <1>10, <2>4 DEF TurnsTyped
  <2>6. TurnsTyped'
    BY <1>1, <1>2, <2>2, <2>5 DEF TurnsTyped
  <2>7. IdsArePast'
    BY <1>1, <1>6, <2>2, <2>3, IdsGrow
  <2>8. CopyIsTrue'
    BY <1>10, <2>4, <2>5 DEF CopyIsTrue, AtWork
  <2>9. KidsAreTold'
    <3>1. PICK kid : kid = [for |-> id, state |-> "ended"]
      OBVIOUS
    <3>2. kid.for = e.id /\ ~Made(record, e.id) /\ turnAt # "child" /\ kids' = kids
      BY <1>2, <1>6, <2>3, <3>1
    <3> QED BY <1>1, <2>2, <2>3, <3>2, KidsGrow
  <2>10. PromptIsTrue'
    <3>1. turnAt' # "asking" /\ turnAt' \notin AtWork
      BY <2>5 DEF AtWork
    <3> QED BY <1>1, <1>2, <2>2, <3>1, PromptSame
  <2>11. CallsAreMade'
    <3>1. \A s \in 1..(Turn' - 1) : s < Turn' - 1 => NoneSkippedIn(record', s)
      BY <1>1, <2>2, <2>3, OldTurnsStay
    <3>2. NoneSkippedIn(record', t)
      <4>1. turnAt \in AtWork /\ e.id = <<Turn - 1, NextCall>> /\ reply.calls[NextCall] = "ask"
        BY <1>2, <1>3, <1>4, <2>3 DEF AtWork
      <4> QED BY <1>1, <1>3, <1>5, <2>2, <2>3, <4>1, TurnEnds
    <3>3. \A s \in 1..(Turn' - 1) : s < Turn' - 1 \/ s = t
      BY <1>5, <1>6, <2>2
    <3>4. \A s \in 1..(Turn' - 1) : NoneSkippedIn(record', s)
      BY <3>1, <3>2, <3>3
    <3>5. turnAt' # "ticket"
      BY <2>5
    <3> QED BY <3>4, <3>5 DEF CallsAreMade
  <2>12. TextIsShown'
    <3>1. turnAt \in Shows
      BY <1>2 DEF Shows
    <3> QED BY <1>1, <1>2, <2>2, <2>3, <3>1, TextGrows
  <2> QED BY <2>6, <2>7, <2>8, <2>9, <2>10, <2>11, <2>12 DEF TurnsInv
<1> QED BY <1>8, <1>9, <1>10

\* The call of the child that is at work is the last of the record.
LEMMA LastIsSpawn ==
  ASSUME record \in Seq(RunEvent), Delegated(Len(record)), Len(record) \in DOMAIN record
  PROVE  SpawnMatch = Len(record)
<1>1. PICK n \in Nat : n = Len(record) /\ DOMAIN record = 1..n
  BY LenProperties
<1>2. n \in 1..n /\ Delegated(n)
  BY <1>1
<1>3. PICK m : m = SpawnMatch
  OBVIOUS
<1>4. \A j \in 1..n : Delegated(j) => j <= n
  OBVIOUS
<1>5. m \in 1..n /\ Delegated(m) /\ \A j \in 1..n : Delegated(j) => j <= m
  BY <1>1, <1>2, <1>3, <1>4 DEF SpawnMatch
<1>6. m = n
  BY <1>2, <1>5
<1> QED BY <1>1, <1>3, <1>6

\* One child is at work at a time.
LEMMA KidsEnd ==
  ASSUME TurnsTyped, KidsAreTold, NEW k \in kids, k.state = "active",
         NEW e, e.event = "tool", e.id = k.for, e.of = k.for, Extends(record', record, e),
         kids' = (kids \ {k}) \cup {[for |-> k.for, state |-> "ended"]}
  PROVE  KidsAreTold'
<1>1. PICK rec, two, old, new, kid : /\ rec = record /\ two = record' /\ old = kids /\ new = kids'
                                     /\ kid = [for |-> k.for, state |-> "ended"]
  OBVIOUS
<1>2. kid.for = k.for /\ kid.state = "ended" /\ new = (old \ {k}) \cup {kid}
  BY <1>1
<1>3. PICK n \in Nat : n = Len(rec) /\ Len(two) = n + 1 /\ two[n + 1] = e
  BY <1>1 DEF Extends
<1>4. \A j \in old : Made(two, j.for)
  BY <1>1, MadeStays DEF KidsAreTold
<1>5. \A j \in new : Made(two, j.for)
  BY <1>1, <1>2, <1>4
<1>6. ASSUME NEW j \in new PROVE j.state # "active"
  <2>1. CASE j \in old
    <3> SUFFICES ASSUME j.state = "active" PROVE FALSE
      OBVIOUS
    <3>1. j.for = rec[n].id /\ k.for = rec[n].id
      BY <1>1, <1>3, <2>1 DEF KidsAreTold
    <3>2. j \in Kid /\ k \in Kid
      BY <1>1, <2>1 DEF TurnsTyped
    <3>3. j = k
      <4>1. j = [for |-> j.for, state |-> j.state] /\ k = [for |-> k.for, state |-> k.state]
        BY <3>2 DEF Kid
      <4> QED BY <3>1, <4>1
    <3>4. j = kid
      BY <1>2, <3>3
    <3> QED BY <1>2, <3>4
  <2>2. CASE j \notin old
    BY <1>2, <2>2
  <2> QED BY <2>1, <2>2
<1>7. ASSUME NEW j \in new, NEW i \in Kept(two, n + 1), two[i].event = "tool", two[i].id = j.for
      PROVE  two[i].of = j.for
  <2>1. CASE i = n + 1
    BY <1>3, <1>7, <2>1
  <2>2. CASE i # n + 1
    <3>1. i \in Kept(rec, n) /\ two[i] = rec[i] /\ ~SameCall(rec[i], e)
      BY <1>1, <1>3, <2>2, KeptShrinks
    <3>2. rec[i].id # k.for
      BY <1>7, <3>1 DEF SameCall
    <3>3. j \in old
      BY <1>2, <1>7, <3>1, <3>2
    <3>4. j.state = "ended"
      BY <1>1, <1>6, <3>3 DEF TurnsTyped, Kid
    <3> QED BY <1>1, <1>3, <1>7, <3>1, <3>3, <3>4 DEF KidsAreTold
  <2> QED BY <2>1, <2>2
<1>8. \A j \in kids' : j.state = "active" =>
       /\ turnAt' = "child" /\ Len(record') \in DOMAIN record' /\ Delegated(Len(record))'
       /\ record'[Len(record')].id = j.for
  BY <1>1, <1>6
<1>9. \A j \in kids', i \in Kept(record', Len(record')) :
       j.state = "ended" /\ record'[i].event = "tool" /\ record'[i].id = j.for => record'[i].of = j.for
  BY <1>1, <1>3, <1>7
<1>10. \A j \in kids' : Made(record', j.for)
  BY <1>1, <1>5
<1> QED BY <1>8, <1>9, <1>10 DEF KidsAreTold

LEMMA ChildEndsKeeps == ASSUME TurnsInv, childTerminalMessage PROVE TurnsInv'
<1>1. TurnsTyped /\ IdsArePast /\ CopyIsTrue /\ KidsAreTold /\ PromptIsTrue /\ CallsAreMade /\ TextIsShown
  BY DEF TurnsInv
<1>2. turnAt = "child" /\ UNCHANGED <<api, prompt, shown>>
  BY DEF childTerminalMessage
<1>3. PICK k \in kids, ok \in BOOLEAN :
        /\ k.state = "active"
        /\ kids' = (kids \ {k}) \cup {[k EXCEPT !.state = "ended"]}
        /\ mailbox' = Append(mailbox, Mail("announce"))
        /\ Recorded(record[SpawnMatch].id, "delegate", k.for)
        /\ IF ok THEN Resume(record') ELSE turnAt' = "interrupted" /\ UNCHANGED <<context, reply>>
  BY DEF childTerminalMessage
<1>4. k \in Kid /\ k.for \in CallIds
  BY <1>1 DEF TurnsTyped, Kid
<1>5. [k EXCEPT !.state = "ended"] = [for |-> k.for, state |-> "ended"]
  BY <1>4 DEF Kid
<1>6. Len(record) \in DOMAIN record /\ Delegated(Len(record)) /\ record[Len(record)].id = k.for
  BY <1>1, <1>3 DEF KidsAreTold
<1>7. SpawnMatch = Len(record)
  BY <1>1, <1>6, LastIsSpawn DEF TurnsTyped
<1>8. PICK id : id = k.for
  OBVIOUS
<1>9. Recorded(id, "delegate", id) /\ id \in CallIds /\ "delegate" \in CallKinds
  BY <1>3, <1>4, <1>6, <1>7, <1>8 DEF CallKinds
<1>10. PICK e : e = Tool(id, "delegate", id)
  OBVIOUS
<1>11. Turn' = Turn /\ Extends(record', record, e) /\ record' \in Seq(RunEvent)
  BY <1>1, <1>9, <1>10, RecordedIs
<1>12. e.event = "tool" /\ e.id = id /\ e.of = id
  BY <1>10 DEF Tool
<1>13. Resume(record') => context' = latestToolCallEvents(record') /\ context' \in Seq(RunEvent) /\ turnAt' = "begin" /\ reply' \in Reply
  BY <1>11, ResumedIs
<1>14. Resume(record') \/ (turnAt' = "interrupted" /\ UNCHANGED <<context, reply>>)
  BY <1>3
<1>15. turnAt' \in {"begin", "interrupted"} /\ context' \in Seq(RunEvent) /\ reply' \in Reply
  BY <1>1, <1>13, <1>14 DEF TurnsTyped
<1>16. kids' = (kids \ {k}) \cup {[for |-> k.for, state |-> "ended"]}
  BY <1>3, <1>5
<1>17. TurnsTyped'
  <2>1. mailbox' \in Seq(MailEvent)
    <3>1. Mail("announce") \in MailEvent
      BY DEF Mail, MailEvent
    <3> QED BY <1>1, <1>3, <3>1, AppendProperties DEF TurnsTyped
  <2>2. kids' \subseteq Kid
    BY <1>1, <1>4, <1>16 DEF TurnsTyped, Kid
  <2> QED BY <1>1, <1>2, <1>11, <1>15, <2>1, <2>2 DEF TurnsTyped
<1>18. IdsArePast'
  <2>1. e.id[1] < Turn
    <3>1. PICK n \in Nat : n = Len(record) /\ DOMAIN record = 1..n
      BY <1>1, LenProperties DEF TurnsTyped
    <3>2. n \in 1..Len(record) /\ record[n].event = "tool" /\ record[n].id = id
      BY <1>6, <1>8, <3>1 DEF Delegated
    <3> QED BY <1>1, <1>12, <3>2 DEF IdsArePast
  <2> QED BY <1>1, <1>11, <1>12, <2>1, IdsGrow
<1>19. CopyIsTrue'
  BY <1>13, <1>14, <1>15 DEF CopyIsTrue, AtWork
<1>20. KidsAreTold'
  BY <1>1, <1>3, <1>8, <1>11, <1>12, <1>16, KidsEnd
<1>21. PromptIsTrue'
  <2>1. ASSUME NEW j \in kids' PROVE \E l \in kids : l.for = j.for
    <3>1. j \in kids \/ j.for = k.for
      BY <1>16
    <3> QED BY <3>1
  <2>2. turnAt \in AtWork /\ turnAt' # "asking"
    BY <1>2, <1>15 DEF AtWork
  <2> QED BY <1>1, <1>2, <1>11, <2>1, <2>2, PromptGrows
<1>22. CallsAreMade'
  <2>1. \A s \in 1..(Turn' - 1) : NoneSkippedIn(record', s)
    BY <1>1, <1>2, <1>11, <1>12, OldTurnsStay
  <2>2. turnAt' # "ticket"
    BY <1>15
  <2> QED BY <2>1, <2>2 DEF CallsAreMade
<1>23. TextIsShown'
  <2>1. turnAt \in Shows
    BY <1>2 DEF Shows
  <2> QED BY <1>1, <1>2, <1>11, <1>12, <2>1, TextGrows
<1> QED BY <1>17, <1>18, <1>19, <1>20, <1>21, <1>22, <1>23 DEF TurnsInv

LEMMA TurnsStep == TurnsInv /\ [TurnsNext]_turnsVars => TurnsInv'
<1>1. ASSUME TurnsInv, UNCHANGED turnsVars PROVE TurnsInv'
  <2>1. TurnsTyped /\ IdsArePast /\ CopyIsTrue /\ KidsAreTold /\ PromptIsTrue /\ CallsAreMade /\ TextIsShown
    BY <1>1 DEF TurnsInv
  <2>2. UNCHANGED <<api, mailbox, record, context, prompt, reply, shown, kids, turnAt>>
    BY <1>1 DEF turnsVars
  <2>3. Turn' = Turn
    BY <2>2, TurnSame
  <2>4. NextCall' = NextCall
    BY <2>2, <2>3 DEF NextCall, LastCalls
  <2>5. TurnsTyped' /\ IdsArePast' /\ TextIsShown'
    BY <2>1, <2>2, <2>3, IdsSame, TextSame DEF TurnsTyped
  <2>6. CopyIsTrue'
    BY <2>1, <2>2, <2>3 DEF CopyIsTrue
  <2>7. KidsAreTold' /\ PromptIsTrue'
    BY <2>1, <2>2, <2>3, KidsSame, PromptSame
  <2>8. CallsAreMade'
    BY <2>1, <2>2, <2>3, <2>4 DEF CallsAreMade
  <2> QED BY <2>5, <2>6, <2>7, <2>8 DEF TurnsInv
<1> QED BY <1>1, AssembleKeeps, OnDeltaKeeps, ProviderErrorKeeps, GenerateKeeps, RunCallKeeps, NextTurnKeeps,
           AnswerTicketKeeps, ChildEndsKeeps, InjectNoteKeeps DEF TurnsNext

LEMMA TurnsAreAsTyped == TurnsInv => TurnsTypeOK
<1> SUFFICES ASSUME TurnsInv PROVE TurnsTypeOK
  OBVIOUS
<1>1. TurnsTyped /\ KidsAreTold
  BY DEF TurnsInv
<1>2. MaxTurns \in Nat
  BY TurnsAssumption
<1>3. Turn \in 1..(MaxTurns + 1)
  BY <1>1, <1>2 DEF TurnsTyped
<1>4. \A k \in kids : k.state = "active" => turnAt = "child"
  BY <1>1 DEF KidsAreTold
<1> QED BY <1>1, <1>3, <1>4 DEF TurnsTyped, TurnsTypeOK

LEMMA TurnsTellTheJournal == TurnsInv => ContextIsTheJournal /\ CallsAreAnswered /\ NoCallIsSkipped /\ TurnsAreShown
<1> SUFFICES ASSUME TurnsInv PROVE ContextIsTheJournal /\ CallsAreAnswered /\ NoCallIsSkipped /\ TurnsAreShown
  OBVIOUS
<1>1. TurnsTyped /\ CopyIsTrue /\ PromptIsTrue /\ CallsAreMade /\ TextIsShown
  BY DEF TurnsInv
<1>2. ContextIsTheJournal
  BY <1>1 DEF CopyIsTrue, ContextIsTheJournal, loadRunContextEvents
<1>3. CallsAreAnswered
  <2>1. DOMAIN prompt = 1..Len(prompt)
    BY <1>1, LenProperties DEF TurnsTyped
  <2> SUFFICES ASSUME NEW i \in 1..Len(prompt), prompt[i].role = "call"
               PROVE  /\ i < Len(prompt) /\ prompt[i + 1].role = "result" /\ prompt[i + 1].id = prompt[i].id
                      /\ \A j \in 1..Len(prompt) : j # i /\ prompt[j].role = "call" => prompt[j].id # prompt[i].id
                      /\ (\E k \in kids : k.for = prompt[i].id) => prompt[i + 1].of = prompt[i].id
    BY <2>1 DEF CallsAreAnswered
  <2>2. \A j \in 1..Len(prompt) : j # i /\ prompt[j].role = "call" => prompt[j].id # prompt[i].id
    BY <1>1 DEF PromptIsTrue, CallsDiffer
  <2>3. /\ i < Len(prompt) /\ prompt[i + 1].role = "result" /\ prompt[i + 1].id = prompt[i].id
        /\ (\E k \in kids : k.for = prompt[i].id) => prompt[i + 1].of = prompt[i].id
    BY <1>1 DEF PromptIsTrue
  <2> QED BY <2>2, <2>3
<1>4. NoCallIsSkipped
  <2> SUFFICES ASSUME turnAt = "begin", NEW t \in 1..(Turn - 1), NEW e \in DOMAIN record,
                      record[e].event = "turn" /\ Cardinality({f \in 1..e : record[f].event = "turn"}) = t,
                      NEW i \in DOMAIN record[e].calls
               PROVE  \/ \E f \in DOMAIN record : record[f].event = "tool" /\ record[f].id = <<t, i>>
                      \/ \E j \in 1..(i - 1) : Waited(record, record[e].calls, t, j)
    BY DEF NoCallIsSkipped, MadeItWait, Waited
  <2>1. NoneSkippedIn(record, t)
    BY <1>1 DEF CallsAreMade
  <2>2. TurnsTo(record, e) = t
    BY DEF TurnsTo
  <2> QED BY <2>1, <2>2 DEF NoneSkippedIn, Made
<1>5. TurnsAreShown
  <2> SUFFICES ASSUME Turn > 1, turnAt \in Shows
               PROVE  LET last == CHOOSE e \in DOMAIN record :
                                    record[e].event = "turn" /\ \A f \in DOMAIN record : record[f].event = "turn" => f <= e
                      IN  shown = record[last].pieces
    BY DEF TurnsAreShown, Shows
  <2>1. PICK n \in DOMAIN record : LastTurnAt(record, n) /\ record[n].pieces = shown
    BY <1>1 DEF TextIsShown
  <2>2. PICK m : m = CHOOSE e \in DOMAIN record :
                       record[e].event = "turn" /\ \A f \in DOMAIN record : record[f].event = "turn" => f <= e
    OBVIOUS
  <2>3. m \in DOMAIN record /\ record[m].event = "turn" /\ \A f \in DOMAIN record : record[f].event = "turn" => f <= m
    BY <2>1, <2>2 DEF LastTurnAt
  <2>4. m <= n /\ n <= m
    BY <2>1, <2>3 DEF LastTurnAt
  <2>5. DOMAIN record = 1..Len(record) /\ Len(record) \in Nat
    BY <1>1, LenProperties DEF TurnsTyped
  <2>6. m = n
    BY <2>1, <2>3, <2>4, <2>5
  <2> QED BY <2>1, <2>2, <2>6
<1> QED BY <1>2, <1>3, <1>4, <1>5

\* What a model is told is the run's journal, each call in it with its result
\* (loadRunContextEvents, the providers' messages), no call of a turn that is
\* over was left out but behind one that made the run wait, and the text that is
\* recorded is the one that was shown: for every number of turns, messages and
\* pieces, every mailbox limit, all lists of calls and each of the wire formats.
THEOREM ModelsAreToldTheJournal ==
  TurnsSpec => [](TurnsTypeOK /\ ContextIsTheJournal /\ CallsAreAnswered /\ NoCallIsSkipped /\ TurnsAreShown)
<1>1. TurnsInv => TurnsTypeOK /\ ContextIsTheJournal /\ CallsAreAnswered /\ NoCallIsSkipped /\ TurnsAreShown
  BY TurnsAreAsTyped, TurnsTellTheJournal
<1> QED BY <1>1, TurnsStart, TurnsStep, PTL DEF TurnsSpec
=============================================================================
