---------------------------- MODULE PagesProofs -----------------------------
(***************************************************************************)
(* What the web pages show, for all lists, rows, page sizes and times, and *)
(* every tree of runs: a reader who goes through a list page by page sees  *)
(* each row that stays, a session or a route only once, and exact pages    *)
(* while nothing changes; the views of a run show the tree of its runs,    *)
(* and what waits for somebody.                                            *)
(*                                                                         *)
(* While a reader goes on through a list, each row that nobody changed is  *)
(* on a page that was shown or beyond the cursor (SeenOK), no row that was *)
(* shown is beyond the cursor (OnceOK), and before the first change a page *)
(* is a piece of the list (ExactOK). A run is younger than its parent,     *)
(* which stays (TreeOK); so what the pages compute by recursion is what    *)
(* the tree has, and what a query read of the way up holds at the next.    *)
(***************************************************************************)
EXTENDS TurnsProofs

-----------------------------------------------------------------------------
(* Sorted sequences.                                                       *)

\* A sequence has as many members as places, if none of them is twice.
LEMMA MembersCounted ==
  ASSUME NEW S, NEW q \in Seq(S), \A i, j \in 1..Len(q) : i # j => q[i] # q[j]
  PROVE  IsFiniteSet(ToSet(q)) /\ Cardinality(ToSet(q)) = Len(q)
<1>1. PICK n \in Nat : n = Len(q)
  BY LenProperties
<1>2. IsFiniteSet(1..n) /\ Cardinality(1..n) = n
  BY FS_Interval
<1> DEFINE f == [i \in 1..n |-> q[i]]
<1>3. DOMAIN q = 1..n
  BY <1>1, LenProperties
<1>4. f \in Surjection(1..n, ToSet(q))
  BY <1>1, <1>3 DEF Surjection, ToSet
<1>5. f \in Injection(1..n, ToSet(q))
  BY <1>1, <1>4 DEF Injection, IsInjective, Surjection
<1>6. IsFiniteSet(ToSet(q)) /\ Cardinality(ToSet(q)) = n
  BY <1>2, <1>4, <1>5, FS_Surjection
<1> QED BY <1>1, <1>6

\* There is one sequence of a set in an order.
LEMMA OneSortedSeq ==
  ASSUME NEW S, IsFiniteSet(S), NEW R, LinearOn(S, R), NEW u \in Seq(S), ToSet(u) = S,
         \A i, j \in 1..Len(u) : i < j => <<u[i], u[j]>> \in R
  PROVE  u = SortedBy(S, R)
<1>1. PICK n \in Nat : n = Len(u)
  BY LenProperties
<1>2. DOMAIN u = 1..n /\ \A i \in 1..n : u[i] \in S
  BY <1>1, LenProperties, ElementOfSeq
<1>3. \A i, j \in 1..n : i # j => u[i] # u[j]
  <2> SUFFICES ASSUME NEW i \in 1..n, NEW j \in 1..n, i # j, u[i] = u[j] PROVE FALSE
    OBVIOUS
  <2>1. i < j \/ j < i
    OBVIOUS
  <2>2. <<u[i], u[i]>> \in R
    BY <1>1, <2>1
  <2> QED BY <1>2, <2>2 DEF LinearOn
<1>4. Cardinality(S) = n
  BY <1>1, <1>3, MembersCounted
<1>5. ASSUME NEW i \in 1..n PROVE Cardinality(Below1(S, R, u[i])) = i - 1
  <2>1. PICK k \in Nat : k = i - 1
    OBVIOUS
  <2>2. \A j \in 1..k : j \in 1..n /\ j < i
    BY <1>1, <2>1
  <2>3. PICK q : q = [j \in 1..k |-> u[j]]
    OBVIOUS
  <2>4. q \in Seq(S) /\ Len(q) = k /\ DOMAIN q = 1..k
    <3>1. \A j \in 1..k : u[j] \in S
      BY <1>2, <2>2
    <3>2. q \in [1..k -> S]
      BY <2>3, <3>1
    <3>3. q \in Seq(S)
      BY <2>1, <3>2, SeqDef
    <3> QED BY <2>1, <2>3, <3>3, LenProperties
  <2>5. \A a, b \in 1..Len(q) : a # b => q[a] # q[b]
    BY <1>3, <2>2, <2>3, <2>4
  <2>6. Cardinality(ToSet(q)) = k
    BY <2>4, <2>5, MembersCounted
  <2>7. \A x \in Below1(S, R, u[i]) : x \in ToSet(q)
    <3> SUFFICES ASSUME NEW x \in S, <<x, u[i]>> \in R PROVE x \in ToSet(q)
      BY DEF Below1
    <3>1. PICK j \in 1..n : u[j] = x
      BY <1>2 DEF ToSet
    <3>2. ~(i < j)
      <4> SUFFICES ASSUME i < j PROVE FALSE
        OBVIOUS
      <4>1. <<u[i], x>> \in R
        BY <1>1, <3>1
      <4>2. <<x, x>> \in R
        BY <1>2, <4>1 DEF LinearOn
      <4> QED BY <4>2 DEF LinearOn
    <3>3. j # i
      BY <3>1 DEF LinearOn
    <3>4. j \in 1..k
      BY <2>1, <3>2, <3>3
    <3>5. q[j] = x
      BY <2>3, <3>1, <3>4
    <3> QED BY <2>4, <3>4, <3>5 DEF ToSet
  <2>8. \A x \in ToSet(q) : x \in Below1(S, R, u[i])
    <3> SUFFICES ASSUME NEW j \in 1..k PROVE u[j] \in S /\ <<u[j], u[i]>> \in R
      BY <2>3, <2>4 DEF ToSet, Below1
    <3> QED BY <1>1, <1>2, <2>2
  <2>9. Below1(S, R, u[i]) = ToSet(q)
    BY <2>7, <2>8
  <2> QED BY <2>1, <2>6, <2>9
<1>6. PICK t : t = SortedBy(S, R)
  OBVIOUS
<1>7. ASSUME NEW i \in 1..n PROVE t[i] = u[i]
  <2>1. t[i] = CHOOSE e \in S : Cardinality(Below1(S, R, e)) = i - 1
    BY <1>4, <1>6 DEF SortedBy, Below1
  <2>2. \A e \in S : Cardinality(Below1(S, R, e)) = i - 1 => e = u[i]
    <3> SUFFICES ASSUME NEW e \in S, Cardinality(Below1(S, R, e)) = i - 1 PROVE e = u[i]
      OBVIOUS
    <3>1. PICK j \in 1..n : u[j] = e
      BY <1>2 DEF ToSet
    <3>2. j - 1 = i - 1
      BY <1>5, <3>1
    <3>3. j = i
      BY <1>1, <3>2
    <3> QED BY <3>1, <3>3
  <2> QED BY <1>2, <1>5, <2>1, <2>2
<1>8. t = [i \in 1..n |-> t[i]]
  <2>1. t = [i \in 1..n |-> CHOOSE e \in S : Cardinality({d \in S : <<d, e>> \in R}) = i - 1]
    BY <1>4, <1>6 DEF SortedBy
  <2>2. DOMAIN t = 1..n
    BY <2>1
  <2>3. \A i \in 1..n : t[i] = CHOOSE e \in S : Cardinality({d \in S : <<d, e>> \in R}) = i - 1
    BY <2>1
  <2> QED BY <2>1, <2>2, <2>3, Zenon
<1>9. u = [i \in 1..n |-> u[i]]
  BY <1>1, SeqDef, LenProperties
<1>10. t = u
  BY <1>7, <1>8, <1>9
<1> QED BY <1>6, <1>10

-----------------------------------------------------------------------------
(* The keys of a list's rows, and their order.                             *)

Numbered == {"sessions", "routes", "deliveries"}
Keys == [id : Nat, rank : Nat, created : Nat, updated : Nat]
TimeTexts == Nat \X {0, 1} \X Nat
TextKeys == [id : Nat, text : TimeTexts]
KeysOf(l) == IF l \in Numbered THEN Keys ELSE TextKeys

LEMMA ListIs == list \in Lists => list \in {"sessions", "routes", "deliveries", "work", "facts"}
BY PagingAssumption

LEMMA TextBelowIs ==
  ASSUME NEW s \in TimeTexts, NEW t \in TimeTexts
  PROVE  TextBelow(s, t) <=> \/ s[1] < t[1]
                             \/ s[1] = t[1] /\ s[2] < t[2]
                             \/ s[1] = t[1] /\ s[2] = t[2] /\ s[3] < t[3]
<1>1. /\ \A j \in 1..(1 - 1) : FALSE
      /\ \A j \in 1..(2 - 1) : j = 1
      /\ \A j \in 1..(3 - 1) : j = 1 \/ j = 2
      /\ 1 \in 1..(2 - 1) /\ 1 \in 1..(3 - 1) /\ 2 \in 1..(3 - 1)
      /\ \A k \in 1..3 : k = 1 \/ k = 2 \/ k = 3
      /\ 1 \in 1..3 /\ 2 \in 1..3 /\ 3 \in 1..3
  OBVIOUS
<1> DEFINE agree(k) == \A j \in 1..(k - 1) : s[j] = t[j]
<1>2. agree(1) /\ (agree(2) <=> s[1] = t[1]) /\ (agree(3) <=> s[1] = t[1] /\ s[2] = t[2])
  BY <1>1, Zenon
<1>3. TextBelow(s, t) <=> \E k \in 1..3 : s[k] < t[k] /\ agree(k)
  BY Zenon DEF TextBelow
<1> HIDE DEF agree
<1>4. (\E k \in 1..3 : s[k] < t[k] /\ agree(k)) <=> (s[1] < t[1] /\ agree(1)) \/ (s[2] < t[2] /\ agree(2)) \/ (s[3] < t[3] /\ agree(3))
  BY <1>1, Zenon
<1> QED BY <1>2, <1>3, <1>4, Zenon

\* Two times are the same or one is the earlier.
LEMMA TextOrder ==
  ASSUME NEW s \in TimeTexts, NEW t \in TimeTexts, NEW u \in TimeTexts
  PROVE  /\ ~TextBelow(s, s) /\ (TextBelow(s, t) /\ TextBelow(t, u) => TextBelow(s, u))
         /\ s = t \/ TextBelow(s, t) \/ TextBelow(t, s)
<1>1. PICK a, b, c \in Nat : s[1] = a /\ s[3] = b /\ s[2] = c /\ c \in {0, 1} /\ s = <<a, c, b>>
  BY DEF TimeTexts
<1>2. PICK d, e, f \in Nat : t[1] = d /\ t[3] = e /\ t[2] = f /\ f \in {0, 1} /\ t = <<d, f, e>>
  BY DEF TimeTexts
<1>3. PICK g, h, i \in Nat : u[1] = g /\ u[3] = h /\ u[2] = i /\ i \in {0, 1} /\ u = <<g, i, h>>
  BY DEF TimeTexts
<1>4. TextBelow(s, t) <=> a < d \/ (a = d /\ c < f) \/ (a = d /\ c = f /\ b < e)
  BY <1>1, <1>2, TextBelowIs
<1>5. TextBelow(t, u) <=> d < g \/ (d = g /\ f < i) \/ (d = g /\ f = i /\ e < h)
  BY <1>2, <1>3, TextBelowIs
<1>6. TextBelow(s, u) <=> a < g \/ (a = g /\ c < i) \/ (a = g /\ c = i /\ b < h)
  BY <1>1, <1>3, TextBelowIs
<1>7. TextBelow(t, s) <=> d < a \/ (d = a /\ f < c) \/ (d = a /\ f = c /\ e < b)
  BY <1>1, <1>2, TextBelowIs
<1>8. TextBelow(s, s) <=> a < a \/ (a = a /\ c < c) \/ (a = a /\ c = c /\ b < b)
  BY <1>1, TextBelowIs
<1>9. ~TextBelow(s, s)
  BY <1>8
<1>10. TextBelow(s, t) /\ TextBelow(t, u) => TextBelow(s, u)
  BY <1>4, <1>5, <1>6
<1>11. s = t \/ TextBelow(s, t) \/ TextBelow(t, s)
  BY <1>1, <1>2, <1>4, <1>7
<1> QED BY <1>9, <1>10, <1>11

LEMMA BeforeIrreflexive == ASSUME list \in Lists, NEW a \in KeysOf(list) PROVE ~Before(a, a)
<1>1. CASE list \in Numbered
  BY <1>1 DEF Numbered, KeysOf, Keys, Before, SessionBefore, RouteBefore, DeliveryBefore
<1>2. CASE list \notin Numbered
  <2>1. a.id \in Nat /\ a.text \in TimeTexts
    BY <1>2 DEF KeysOf, TextKeys
  <2>2. Before(a, a) <=> NewerText(a, a)
    BY <1>2 DEF Before, Numbered
  <2>3. NewerText(a, a) => a.id > a.id
    BY <2>1, TextOrder DEF NewerText
  <2> QED BY <2>1, <2>2, <2>3
<1> QED BY <1>1, <1>2

LEMMA BeforeTransitive ==
  ASSUME list \in Lists, NEW a \in KeysOf(list), NEW b \in KeysOf(list), NEW c \in KeysOf(list),
         Before(a, b), Before(b, c)
  PROVE  Before(a, c)
<1>1. CASE list = "sessions"
  BY <1>1 DEF Numbered, KeysOf, Keys, Before, SessionBefore
<1>2. CASE list = "routes"
  BY <1>2 DEF Numbered, KeysOf, Keys, Before, RouteBefore
<1>3. CASE list = "deliveries"
  BY <1>3 DEF Numbered, KeysOf, Keys, Before, DeliveryBefore
<1>4. CASE list \notin Numbered
  <2>1. /\ a.id \in Nat /\ a.text \in TimeTexts /\ b.id \in Nat /\ b.text \in TimeTexts
        /\ c.id \in Nat /\ c.text \in TimeTexts
    BY <1>4 DEF KeysOf, TextKeys
  <2>2. NewerText(a, b) /\ NewerText(b, c)
    BY <1>4 DEF Before, Numbered
  <2>3. TextBelow(b.text, a.text) /\ TextBelow(c.text, b.text) => TextBelow(c.text, a.text)
    BY <2>1, TextOrder
  <2>4. NewerText(a, c)
    BY <2>1, <2>2, <2>3 DEF NewerText
  <2> QED BY <1>4, <2>4 DEF Before, Numbered
<1> QED BY <1>1, <1>2, <1>3, <1>4 DEF Numbered

LEMMA BeforeTotal ==
  ASSUME list \in Lists, NEW a \in KeysOf(list), NEW b \in KeysOf(list), a.id # b.id
  PROVE  Before(a, b) \/ Before(b, a)
<1>1. CASE list = "sessions"
  BY <1>1 DEF Numbered, KeysOf, Keys, Before, SessionBefore
<1>2. CASE list = "routes"
  BY <1>2 DEF Numbered, KeysOf, Keys, Before, RouteBefore
<1>3. CASE list = "deliveries"
  BY <1>3 DEF Numbered, KeysOf, Keys, Before, DeliveryBefore
<1>4. CASE list \notin Numbered
  <2>1. a.id \in Nat /\ a.text \in TimeTexts /\ b.id \in Nat /\ b.text \in TimeTexts
    BY <1>4 DEF KeysOf, TextKeys
  <2>2. a.text = b.text \/ TextBelow(a.text, b.text) \/ TextBelow(b.text, a.text)
    BY <2>1, TextOrder
  <2>3. NewerText(a, b) \/ NewerText(b, a)
    BY <2>1, <2>2 DEF NewerText
  <2> QED BY <1>4, <2>3 DEF Before, Numbered
<1> QED BY <1>1, <1>2, <1>3, <1>4 DEF Numbered

RowShape ==
  [there : BOOLEAN, flag : BOOLEAN, rank : 0..2, created : 1..(MaxTime + 1), updated : 1..(MaxTime + 1)]
RowsTyped == list \in Lists /\ rows \in [RowIds -> RowShape]

LEMMA DayIs == ASSUME NEW t \in 1..(MaxTime + 1) PROVE Day(t) \in Nat
<1>1. MaxTime \in Nat /\ TimesPerDay \in Nat \ {0}
  BY PagingAssumption
<1>2. PICK n \in Nat : n = t - 1
  BY <1>1
<1>3. n \div TimesPerDay \in Nat
  BY <1>1, <1>2
<1> QED BY <1>2, <1>3 DEF Day

LEMMA KeyIs ==
  ASSUME RowsTyped, NEW i \in RowIds
  PROVE  /\ KeyOf(i) \in KeysOf(list) /\ KeyOf(i).id = i
         /\ CursorOf(i) \in KeysOf(list) /\ CursorOf(i) # NoKey
         /\ list \in Numbered =>
              /\ CursorOf(i) = KeyOf(i)
              /\ KeyOf(i) = [id |-> i, rank |-> rows[i].rank, created |-> rows[i].created, updated |-> rows[i].updated]
<1>1. /\ i \in Nat \ {0} /\ MaxTime \in Nat
      /\ rows[i].rank \in 0..2 /\ rows[i].created \in 1..(MaxTime + 1) /\ rows[i].updated \in 1..(MaxTime + 1)
  BY PagingAssumption DEF RowsTyped, RowShape
<1>2. Day(rows[i].created) \in Nat /\ Day(rows[i].updated) \in Nat
  BY <1>1, DayIs
<1>3. \A m \in Nat, b \in {0, 1}, n \in Nat : <<m, b, n>> \in TimeTexts
  BY DEF TimeTexts
<1>4. /\ ColumnText(rows[i].created) \in TimeTexts /\ ScannedText(rows[i].created) \in TimeTexts
      /\ ColumnText(rows[i].updated) \in TimeTexts /\ ScannedText(rows[i].updated) \in TimeTexts
  BY <1>1, <1>2, <1>3 DEF ColumnText, ScannedText
<1>5. CASE list \in Numbered
  <2>1. KeyOf(i) = [id |-> i, rank |-> rows[i].rank, created |-> rows[i].created, updated |-> rows[i].updated]
    BY <1>5 DEF KeyOf, Numbered
  <2>2. CursorOf(i) = KeyOf(i)
    BY <1>5 DEF CursorOf, Numbered
  <2>3. KeyOf(i) \in Keys /\ KeyOf(i).id = i
    BY <1>1, <2>1 DEF Keys
  <2>4. KeyOf(i) # NoKey
    BY <1>1, <2>3 DEF NoKey
  <2> QED BY <1>5, <2>1, <2>2, <2>3, <2>4 DEF KeysOf
<1>6. CASE list \notin Numbered
  <2>1. list = "work" \/ list = "facts"
    BY <1>6, ListIs DEF RowsTyped, Numbered
  <2>2. \A s \in TimeTexts : [id |-> i, text |-> s] \in TextKeys /\ [id |-> i, text |-> s].id = i
    BY <1>1 DEF TextKeys
  <2>3. PICK k \in TimeTexts : KeyOf(i) = [id |-> i, text |-> k]
    BY <1>4, <2>1 DEF KeyOf
  <2>4. PICK c \in TimeTexts : CursorOf(i) = [id |-> i, text |-> c]
    BY <1>4, <2>1 DEF CursorOf, WorkCursor, FactCursor
  <2>5. CursorOf(i).id = i /\ CursorOf(i) # NoKey
    BY <1>1, <2>2, <2>4 DEF NoKey
  <2> QED BY <1>6, <2>2, <2>3, <2>4, <2>5 DEF KeysOf
<1> QED BY <1>5, <1>6

OrderOf(ids) == {d \in ids \X ids : Before(KeyOf(d[1]), KeyOf(d[2]))}

LEMMA OrderIsLinear == ASSUME RowsTyped, NEW ids, ids \subseteq RowIds PROVE LinearOn(ids, OrderOf(ids))
<1>1. \A i \in ids : KeyOf(i) \in KeysOf(list) /\ KeyOf(i).id = i
  BY KeyIs
<1>2. list \in Lists
  BY DEF RowsTyped
<1>3. \A d, e \in ids : <<d, e>> \in OrderOf(ids) <=> Before(KeyOf(d), KeyOf(e))
  BY DEF OrderOf
<1>4. \A d, e \in ids : d # e => <<d, e>> \in OrderOf(ids) \/ <<e, d>> \in OrderOf(ids)
  BY <1>1, <1>2, <1>3, BeforeTotal
<1>5. \A d \in ids : <<d, d>> \notin OrderOf(ids)
  BY <1>1, <1>2, <1>3, BeforeIrreflexive
<1>6. \A d, e, f \in ids : <<d, e>> \in OrderOf(ids) /\ <<e, f>> \in OrderOf(ids) => <<d, f>> \in OrderOf(ids)
  <2> SUFFICES ASSUME NEW d \in ids, NEW e \in ids, NEW f \in ids, Before(KeyOf(d), KeyOf(e)), Before(KeyOf(e), KeyOf(f))
               PROVE  Before(KeyOf(d), KeyOf(f))
    BY <1>3
  <2> QED BY <1>1, <1>2, BeforeTransitive
<1> QED BY <1>4, <1>5, <1>6 DEF LinearOn

\* The ids in the order of the list.
InLine(ids, q) ==
  /\ q \in Seq(RowIds) /\ ToSet(q) = ids /\ \A i \in 1..Len(q) : q[i] \in ids
  /\ \A i, j \in 1..Len(q) : i < j => Before(KeyOf(q[i]), KeyOf(q[j]))

LEMMA InOrderIs == ASSUME RowsTyped, NEW ids, ids \subseteq RowIds PROVE InLine(ids, InOrder(ids))
<1>1. IsFiniteSet(ids)
  BY PagingAssumption, FS_Subset
<1>2. PICK R : R = OrderOf(ids) /\ LinearOn(ids, R)
  BY OrderIsLinear
<1>3. PICK q : q = InOrder(ids) /\ q = SortedBy(ids, R)
  BY <1>2 DEF InOrder, OrderOf
<1>4. /\ q \in Seq(RowIds) /\ ToSet(q) = ids
      /\ \A i \in 1..Len(q) : q[i] \in ids
      /\ \A i, j \in 1..Len(q) : i < j => <<q[i], q[j]>> \in R
  BY <1>1, <1>2, <1>3, SortedSeq
<1>5. \A i, j \in 1..Len(q) : i < j => Before(KeyOf(q[i]), KeyOf(q[j]))
  BY <1>2, <1>4 DEF OrderOf
<1> QED BY <1>3, <1>4, <1>5 DEF InLine

LEMMA OrderedIsOne ==
  ASSUME RowsTyped, NEW ids, ids \subseteq RowIds, NEW q, InLine(ids, q) PROVE q = InOrder(ids)
<1>1. IsFiniteSet(ids)
  BY PagingAssumption, FS_Subset
<1>2. PICK R : R = OrderOf(ids) /\ LinearOn(ids, R)
  BY OrderIsLinear
<1>3. q \in Seq(ids) /\ ToSet(q) = ids
  <2>1. PICK n \in Nat : n = Len(q) /\ DOMAIN q = 1..n /\ q = [i \in 1..n |-> q[i]]
    BY LenProperties, SeqDef DEF InLine
  <2>2. q \in [1..n -> ids]
    BY <2>1 DEF InLine
  <2> QED BY <2>1, <2>2, SeqDef DEF InLine
<1>4. \A i, j \in 1..Len(q) : i < j => <<q[i], q[j]>> \in R
  BY <1>2 DEF InLine, OrderOf
<1>5. q = SortedBy(ids, R)
  BY <1>1, <1>2, <1>3, <1>4, OneSortedSeq
<1> QED BY <1>2, <1>5 DEF InOrder, OrderOf

\* A piece of a line is in line.
LEMMA PieceInLine ==
  ASSUME NEW ids, NEW all, InLine(ids, all), NEW a \in Nat \ {0}, NEW b \in Nat, b <= Len(all)
  PROVE  /\ InLine({all[i] : i \in a..b}, SubSeq(all, a, b)) /\ {all[i] : i \in a..b} \subseteq ids
         /\ Len(SubSeq(all, a, b)) = IF a <= b THEN b - a + 1 ELSE 0
         /\ \A i \in 1..Len(SubSeq(all, a, b)) : SubSeq(all, a, b)[i] = all[a + i - 1]
<1>1. PICK n \in Nat : n = Len(all)
  BY LenProperties DEF InLine
<1>2. \A i \in a..b : i \in 1..n
  BY <1>1
<1>3. \A i \in a..b : all[i] \in ids /\ all[i] \in RowIds
  <2>1. \A i \in 1..n : all[i] \in RowIds
    BY <1>1, ElementOfSeq DEF InLine
  <2> QED BY <1>1, <1>2, <2>1 DEF InLine
<1>4. PICK q : q = SubSeq(all, a, b)
  OBVIOUS
<1>5. PICK m \in Nat : m = IF a <= b THEN b - a + 1 ELSE 0
  <2>1. (IF a <= b THEN b - a + 1 ELSE 0) \in Nat
    OBVIOUS
  <2> QED BY <2>1
<1>6. q \in Seq(RowIds) /\ Len(q) = m /\ \A i \in 1..(b - a + 1) : q[i] = all[a + i - 1]
  <2>1. a \in Int /\ b \in Int
    OBVIOUS
  <2>2. /\ q \in Seq(RowIds) /\ Len(q) = IF a <= b THEN b - a + 1 ELSE 0
        /\ \A i \in 1..(b - a + 1) : q[i] = all[a + i - 1]
    BY <1>3, <1>4, <2>1, SubSeqProperties
  <2> QED BY <1>5, <2>2
<1>7. \A i \in 1..m : q[i] = all[a + i - 1] /\ a + i - 1 \in a..b
  BY <1>5, <1>6
<1>8. DOMAIN q = 1..m
  BY <1>6, LenProperties
<1>9. ToSet(q) = {all[i] : i \in a..b}
  <2>1. \A x \in ToSet(q) : x \in {all[i] : i \in a..b}
    BY <1>7, <1>8 DEF ToSet
  <2>2. ASSUME NEW i \in a..b PROVE all[i] \in ToSet(q)
    <3>1. PICK k \in Nat : k = i - a + 1
      OBVIOUS
    <3>2. k \in 1..m /\ a + k - 1 = i
      BY <1>5, <3>1
    <3>3. q[k] = all[i]
      BY <1>7, <3>2
    <3> QED BY <1>8, <3>2, <3>3 DEF ToSet
  <2> QED BY <2>1, <2>2
<1>10. \A i, j \in 1..m : i < j => Before(KeyOf(q[i]), KeyOf(q[j]))
  <2> SUFFICES ASSUME NEW i \in 1..m, NEW j \in 1..m, i < j PROVE Before(KeyOf(q[i]), KeyOf(q[j]))
    OBVIOUS
  <2>1. /\ a + i - 1 \in 1..n /\ a + j - 1 \in 1..n /\ a + i - 1 < a + j - 1
        /\ q[i] = all[a + i - 1] /\ q[j] = all[a + j - 1]
    <3>1. a + i - 1 \in a..b /\ q[i] = all[a + i - 1]
      BY <1>7
    <3>2. a + j - 1 \in a..b /\ q[j] = all[a + j - 1]
      BY <1>7
    <3>3. a + i - 1 < a + j - 1
      BY <1>5
    <3> QED BY <1>2, <3>1, <3>2, <3>3
  <2>3. PICK k \in 1..n, l \in 1..n : k = a + i - 1 /\ l = a + j - 1
    BY <2>1
  <2>2. Before(KeyOf(all[k]), KeyOf(all[l]))
    BY <1>1, <2>1, <2>3 DEF InLine
  <2> QED BY <2>1, <2>2, <2>3
<1>11. \A i \in 1..m : q[i] \in {all[k] : k \in a..b}
  BY <1>7
<1>12. InLine({all[i] : i \in a..b}, q)
  BY <1>6, <1>9, <1>10, <1>11 DEF InLine
<1>13. {all[i] : i \in a..b} \subseteq ids
  BY <1>3
<1> QED BY <1>4, <1>5, <1>6, <1>7, <1>12, <1>13

LEMMA LineIsStrict ==
  ASSUME RowsTyped, NEW ids, ids \subseteq RowIds, NEW all, InLine(ids, all),
         NEW k \in 1..Len(all), NEW l \in 1..Len(all)
  PROVE  Before(KeyOf(all[k]), KeyOf(all[l])) <=> k < l
<1>1. Len(all) \in Nat
  BY LenProperties DEF InLine
<1>2. all[k] \in RowIds /\ all[l] \in RowIds
  BY DEF InLine
<1>3. KeyOf(all[k]) \in KeysOf(list) /\ KeyOf(all[l]) \in KeysOf(list) /\ list \in Lists
  BY <1>2, KeyIs DEF RowsTyped
<1>4. k < l => Before(KeyOf(all[k]), KeyOf(all[l]))
  BY DEF InLine
<1>5. k = l => ~Before(KeyOf(all[k]), KeyOf(all[l]))
  BY <1>3, BeforeIrreflexive
<1>6. l < k => ~Before(KeyOf(all[k]), KeyOf(all[l]))
  <2>1. l < k => Before(KeyOf(all[l]), KeyOf(all[k]))
    BY DEF InLine
  <2> QED BY <1>3, <2>1, BeforeIrreflexive, BeforeTransitive
<1> QED BY <1>1, <1>4, <1>5, <1>6

\* What is behind a row of the line, and what is before it.
LEMMA RestOfLine ==
  ASSUME RowsTyped, NEW ids, ids \subseteq RowIds, NEW all, InLine(ids, all), NEW l \in 1..Len(all)
  PROVE  /\ InOrder({i \in ids : Before(KeyOf(all[l]), KeyOf(i))}) = SubSeq(all, l + 1, Len(all))
         /\ InOrder({i \in ids : Before(KeyOf(i), KeyOf(all[l]))}) = SubSeq(all, 1, l - 1)
<1>1. PICK n \in Nat : n = Len(all) /\ DOMAIN all = 1..n
  BY LenProperties DEF InLine
<1>2. \A i \in ids : \E k \in 1..n : all[k] = i
  BY <1>1 DEF InLine, ToSet
<1>3. \A k \in 1..n : all[k] \in ids
  BY <1>1 DEF InLine
<1>4. \A k \in 1..n : /\ Before(KeyOf(all[l]), KeyOf(all[k])) <=> l < k
                      /\ Before(KeyOf(all[k]), KeyOf(all[l])) <=> k < l
  BY <1>1, LineIsStrict
<1>5. PICK a, b \in Nat : a = l + 1 /\ b = l - 1
  BY <1>1
<1>6. {i \in ids : Before(KeyOf(all[l]), KeyOf(i))} = {all[k] : k \in a..n}
  <2>1. \A k \in 1..n : k \in a..n <=> l < k
    BY <1>1, <1>5
  <2>2. \A k \in a..n : k \in 1..n
    BY <1>5
  <2>3. \A i \in ids : Before(KeyOf(all[l]), KeyOf(i)) => \E k \in a..n : i = all[k]
    BY <1>2, <1>4, <2>1
  <2>4. \A k \in a..n : all[k] \in ids /\ Before(KeyOf(all[l]), KeyOf(all[k]))
    BY <1>3, <1>4, <2>1, <2>2
  <2> QED BY <2>3, <2>4
<1>7. {i \in ids : Before(KeyOf(i), KeyOf(all[l]))} = {all[k] : k \in 1..b}
  <2>1. \A k \in 1..n : k \in 1..b <=> k < l
    BY <1>1, <1>5
  <2>2. \A k \in 1..b : k \in 1..n
    BY <1>1, <1>5
  <2>3. \A i \in ids : Before(KeyOf(i), KeyOf(all[l])) => \E k \in 1..b : i = all[k]
    BY <1>2, <1>4, <2>1
  <2>4. \A k \in 1..b : all[k] \in ids /\ Before(KeyOf(all[k]), KeyOf(all[l]))
    BY <1>3, <1>4, <2>1, <2>2
  <2> QED BY <2>3, <2>4
<1>8. InLine({all[k] : k \in a..n}, SubSeq(all, a, n)) /\ {all[k] : k \in a..n} \subseteq RowIds
  <2>1. a \in Nat \ {0} /\ n <= Len(all)
    BY <1>1, <1>5
  <2> QED BY <2>1, PieceInLine
<1>9. InLine({all[k] : k \in 1..b}, SubSeq(all, 1, b)) /\ {all[k] : k \in 1..b} \subseteq RowIds
  <2>1. PICK c \in Nat \ {0} : c = 1
    OBVIOUS
  <2>2. b <= Len(all)
    BY <1>1, <1>5
  <2>3. InLine({all[k] : k \in c..b}, SubSeq(all, c, b)) /\ {all[k] : k \in c..b} \subseteq ids
    BY <2>2, PieceInLine
  <2> QED BY <2>1, <2>3
<1>10. SubSeq(all, a, n) = InOrder({all[k] : k \in a..n}) /\ SubSeq(all, 1, b) = InOrder({all[k] : k \in 1..b})
  BY <1>8, <1>9, OrderedIsOne
<1> QED BY <1>1, <1>5, <1>6, <1>7, <1>10

-----------------------------------------------------------------------------
(* What a page is.                                                         *)

\* A page with these rows and links.
PageHas(p, items, prev, next) ==
  /\ p.items = items /\ p.asked = TRUE
  /\ p.prev = (prev /\ items # <<>>) /\ p.next = (next /\ items # <<>>)
  /\ p.first = IF p.prev THEN CursorOf(items[1]) ELSE NoKey
  /\ p.last = IF p.next THEN CursorOf(items[Len(items)]) ELSE NoKey

LEMMA PageWithIs ==
  ASSUME NEW items, NEW prev \in BOOLEAN, NEW next \in BOOLEAN
  PROVE  PageHas(PageWith(items, prev, next), items, prev, next)
<1>1. CASE items = <<>>
  <2>1. PageWith(items, prev, next) =
          [items |-> <<>>, prev |-> FALSE, next |-> FALSE, first |-> NoKey, last |-> NoKey, asked |-> TRUE]
    BY <1>1 DEF PageWith, NoPage
  <2>2. PICK p : p = PageWith(items, prev, next)
    OBVIOUS
  <2>3. p.items = items /\ p.asked = TRUE /\ p.prev = FALSE /\ p.next = FALSE /\ p.first = NoKey /\ p.last = NoKey
    BY <1>1, <2>1, <2>2
  <2> QED BY <1>1, <2>2, <2>3, Zenon DEF PageHas
<1>2. CASE items # <<>>
  <2>1. PICK a, b : a = CursorOf(Head(items)) /\ b = CursorOf(Last(items))
    OBVIOUS
  <2>2. PageWith(items, prev, next) =
          [items |-> items, asked |-> TRUE, prev |-> prev, next |-> next,
           first |-> IF prev THEN a ELSE NoKey, last |-> IF next THEN b ELSE NoKey]
    BY <1>2, <2>1 DEF PageWith
  <2>3. a = CursorOf(items[1]) /\ b = CursorOf(items[Len(items)])
    BY <2>1 DEF Last
  <2>4. PICK p : p = PageWith(items, prev, next)
    OBVIOUS
  <2>5. /\ p.items = items /\ p.asked = TRUE /\ p.prev = prev /\ p.next = next
        /\ p.first = (IF prev THEN a ELSE NoKey) /\ p.last = (IF next THEN b ELSE NoKey)
    BY <2>2, <2>4
  <2>6. p.prev = (prev /\ items # <<>>) /\ p.next = (next /\ items # <<>>)
    BY <1>2, <2>5
  <2> QED BY <2>3, <2>4, <2>5, <2>6, Zenon DEF PageHas
<1> QED BY <1>1, <1>2

Fit(n) == IF n < size THEN n ELSE size

LEMMA FitIs ==
  ASSUME size \in PageSizes, NEW n \in Nat
  PROVE  Fit(n) \in 0..n /\ Fit(n) <= size /\ (n > 0 => Fit(n) > 0) /\ (n > size <=> Fit(n) < n) /\ size \in Nat
<1>1. size \in Nat \ {0}
  BY PagingAssumption
<1> QED BY <1>1 DEF Fit

LEMMA ReverseIs ==
  ASSUME NEW S, NEW q \in Seq(S)
  PROVE  /\ Reverse(q) \in Seq(S) /\ Len(Reverse(q)) = Len(q)
         /\ \A i \in 1..Len(q) : Reverse(q)[i] = q[Len(q) - i + 1]
<1>1. PICK n \in Nat : n = Len(q)
  BY LenProperties
<1>2. PICK r : r = Reverse(q)
  OBVIOUS
<1>3. r = [i \in 1..n |-> q[(n - i) + 1]]
  BY <1>1, <1>2 DEF Reverse
<1>4. \A i \in 1..n : r[i] = q[n - i + 1] /\ n - i + 1 \in 1..n
  BY <1>3
<1>5. \A i \in 1..n : q[n - i + 1] \in S
  BY <1>1, <1>4, ElementOfSeq
<1>6. r \in [1..n -> S]
  BY <1>3, <1>4, <1>5
<1>7. r \in Seq(S)
  BY <1>6, SeqDef
<1>8. Len(r) = n
  BY <1>1, <1>3, <1>7, LenProperties
<1> QED BY <1>1, <1>2, <1>4, <1>7, <1>8

LEMMA FirstOfIs ==
  ASSUME size \in PageSizes, NEW found \in Seq(RowIds)
  PROVE  FirstOf(found) = SubSeq(found, 1, Fit(Len(found)))
BY DEF FirstOf, Fit

\* The part of a sequence that is the same backwards twice.
LEMMA LastOfIs ==
  ASSUME size \in PageSizes, NEW found \in Seq(RowIds)
  PROVE  LastOf(found) = SubSeq(found, Len(found) - Fit(Len(found)) + 1, Len(found))
<1>1. PICK n \in Nat : n = Len(found)
  BY LenProperties
<1>2. PICK m \in 0..n : m = Fit(n)
  BY FitIs
<1>3. PICK r : r = Reverse(found)
  OBVIOUS
<1>4. r \in Seq(RowIds) /\ Len(r) = n /\ \A i \in 1..n : r[i] = found[n - i + 1]
  BY <1>1, <1>3, ReverseIs
<1>5. PICK f : f = FirstOf(r)
  OBVIOUS
<1>6. f \in Seq(RowIds) /\ Len(f) = m /\ \A i \in 1..m : f[i] = r[i]
  <2>1. PICK a \in Int : a = 1
    OBVIOUS
  <2>2. \A i \in a..m : r[i] \in RowIds
    <3>1. \A i \in 1..n : r[i] \in RowIds
      BY <1>4, ElementOfSeq
    <3> QED BY <2>1, <3>1
  <2>3. f = SubSeq(r, a, m)
    BY <1>2, <1>4, <1>5, <2>1, FirstOfIs
  <2>4. /\ SubSeq(r, a, m) \in Seq(RowIds) /\ Len(SubSeq(r, a, m)) = IF a <= m THEN m - a + 1 ELSE 0
        /\ \A i \in 1..(m - a + 1) : SubSeq(r, a, m)[i] = r[a + i - 1]
    BY <2>1, <2>2, SubSeqProperties
  <2> QED BY <2>1, <2>3, <2>4
<1>7. PICK g : g = Reverse(f)
  OBVIOUS
<1>8. g \in Seq(RowIds) /\ Len(g) = m /\ \A i \in 1..m : g[i] = f[m - i + 1]
  BY <1>6, <1>7, ReverseIs
<1>9. PICK k \in Int : k = n - m + 1
  OBVIOUS
<1>10. PICK s : s = SubSeq(found, k, n)
  OBVIOUS
<1>11. s \in Seq(RowIds) /\ Len(s) = m /\ \A i \in 1..m : s[i] = found[k + i - 1]
  <2>1. \A i \in k..n : found[i] \in RowIds
    <3>1. \A i \in 1..n : found[i] \in RowIds
      BY <1>1, ElementOfSeq
    <3> QED BY <1>9, <3>1
  <2>2. /\ s \in Seq(RowIds) /\ Len(s) = IF k <= n THEN n - k + 1 ELSE 0
        /\ \A i \in 1..(n - k + 1) : s[i] = found[k + i - 1]
    BY <1>9, <1>10, <2>1, SubSeqProperties
  <2> QED BY <1>9, <2>2
<1>12. \A i \in 1..m : g[i] = s[i]
  <2> SUFFICES ASSUME NEW i \in 1..m PROVE g[i] = s[i]
    OBVIOUS
  <2>1. PICK j \in 1..m : j = m - i + 1
    OBVIOUS
  <2>2. g[i] = r[j]
    BY <1>6, <1>8, <2>1
  <2>3. j \in 1..n /\ n - j + 1 = k + i - 1
    BY <1>9, <2>1
  <2>4. r[j] = found[n - j + 1]
    BY <1>4, <2>3
  <2> QED BY <1>11, <2>2, <2>3, <2>4
<1>13. g = s
  <2>1. g = [i \in 1..m |-> g[i]] /\ s = [i \in 1..m |-> s[i]]
    BY <1>8, <1>11, SeqDef, LenProperties
  <2> QED BY <1>12, <2>1
<1>14. LastOf(found) = g
  BY <1>3, <1>5, <1>7 DEF LastOf
<1> QED BY <1>1, <1>2, <1>9, <1>10, <1>13, <1>14

\* A page beyond a cursor, and one before it, of what was found.
AfterHas(p, found, followed) ==
  PageHas(p, SubSeq(found, 1, Fit(Len(found))), followed, Len(found) > size)
AheadHas(p, found) ==
  PageHas(p, SubSeq(found, Len(found) - Fit(Len(found)) + 1, Len(found)), Len(found) > size, TRUE)

LEMMA PagesAre ==
  ASSUME size \in PageSizes, NEW found \in Seq(RowIds), NEW followed \in BOOLEAN
  PROVE  AfterHas(PageAfter(found, followed), found, followed) /\ AheadHas(PageBefore(found), found)
<1>1. (Len(found) > size) \in BOOLEAN /\ TRUE \in BOOLEAN
  OBVIOUS
<1>2. PICK b : b = (Len(found) > size)
  OBVIOUS
<1>3. PICK f, g : f = FirstOf(found) /\ g = LastOf(found)
  OBVIOUS
<1>4. b \in BOOLEAN
  BY <1>1, <1>2
<1>5. PageHas(PageWith(f, followed, b), f, followed, b) /\ PageHas(PageWith(g, b, TRUE), g, b, TRUE)
  BY <1>1, <1>4, PageWithIs
<1>6. PageAfter(found, followed) = PageWith(f, followed, b) /\ PageBefore(found) = PageWith(g, b, TRUE)
  BY <1>2, <1>3 DEF PageAfter, PageBefore
<1>7. /\ f = SubSeq(found, 1, Fit(Len(found)))
      /\ g = SubSeq(found, Len(found) - Fit(Len(found)) + 1, Len(found))
  BY <1>3, FirstOfIs, LastOfIs
<1> QED BY <1>2, <1>5, <1>6, <1>7 DEF AfterHas, AheadHas

-----------------------------------------------------------------------------
(* The types.                                                              *)

PageTyped(p) ==
  /\ p.items \in Seq(RowIds) /\ Len(p.items) <= size
  /\ p.prev \in BOOLEAN /\ p.next \in BOOLEAN /\ p.asked \in BOOLEAN
  /\ IF p.prev THEN p.first \in KeysOf(list) /\ p.first # NoKey ELSE p.first = NoKey
  /\ IF p.next THEN p.last \in KeysOf(list) /\ p.last # NoKey ELSE p.last = NoKey

PagingTyped ==
  /\ RowsTyped /\ filter \in Filters[list] /\ size \in PageSizes /\ changes \in 0..MaxChanges
  /\ PageTyped(current) /\ walk \in Seq(RowIds) /\ same \subseteq RowIds

LEMMA PagingTypes == PagingTyped => PagingTypeOK
<1> SUFFICES ASSUME PagingTyped PROVE PagingTypeOK
  OBVIOUS
<1>1. ASSUME NEW q \in Seq(RowIds) PROVE ToSet(q) \subseteq RowIds
  <2>1. DOMAIN q = 1..Len(q)
    BY LenProperties
  <2> QED BY <2>1, ElementOfSeq DEF ToSet
<1>2. ToSet(current.items) \subseteq RowIds /\ ToSet(walk) \subseteq RowIds
  BY <1>1 DEF PagingTyped, PageTyped
<1>3. current.next = (current.last # NoKey) /\ current.prev = (current.first # NoKey)
  BY DEF PagingTyped, PageTyped
<1> QED BY <1>2, <1>3 DEF PagingTyped, PageTyped, RowsTyped, RowShape, PagingTypeOK

\* A piece of what was found is a page.
LEMMA PageIsTyped ==
  ASSUME RowsTyped, size \in PageSizes, NEW items \in Seq(RowIds), Len(items) <= size,
         NEW prev \in BOOLEAN, NEW next \in BOOLEAN, NEW p, PageHas(p, items, prev, next)
  PROVE  PageTyped(p)
<1>1. items # <<>> => items[1] \in RowIds /\ items[Len(items)] \in RowIds
  BY LenProperties, ElementOfSeq, EmptySeq
<1>2. /\ p.items = items /\ p.asked = TRUE
      /\ p.prev = (prev /\ items # <<>>) /\ p.next = (next /\ items # <<>>)
      /\ p.first = IF p.prev THEN CursorOf(items[1]) ELSE NoKey
      /\ p.last = IF p.next THEN CursorOf(items[Len(items)]) ELSE NoKey
  BY DEF PageHas
<1>3. p.prev \in BOOLEAN /\ p.next \in BOOLEAN /\ p.asked \in BOOLEAN
  BY <1>2
<1>4. IF p.prev THEN p.first \in KeysOf(list) /\ p.first # NoKey ELSE p.first = NoKey
  <2>1. p.prev => items # <<>> /\ p.first = CursorOf(items[1])
    BY <1>2
  <2> QED BY <1>1, <1>2, <2>1, KeyIs
<1>5. IF p.next THEN p.last \in KeysOf(list) /\ p.last # NoKey ELSE p.last = NoKey
  <2>1. p.next => items # <<>> /\ p.last = CursorOf(items[Len(items)])
    BY <1>2
  <2> QED BY <1>1, <1>2, <2>1, KeyIs
<1> QED BY <1>2, <1>3, <1>4, <1>5 DEF PageTyped

\* What a page shows of n rows: the first m of them, f, or the last, g.
Portions(found, n, m, f, g) ==
  /\ n = Len(found) /\ m = Fit(n) /\ m <= n /\ m <= size /\ (n > 0 => m > 0) /\ (n > size <=> m < n)
  /\ f = SubSeq(found, 1, Fit(Len(found))) /\ Len(f) = m /\ \A i \in 1..m : f[i] = found[i]
  /\ g = SubSeq(found, Len(found) - Fit(Len(found)) + 1, Len(found))
  /\ Len(g) = m /\ \A i \in 1..m : g[i] = found[n - m + i]

LEMMA PiecesAreItems ==
  ASSUME size \in PageSizes, NEW found \in Seq(RowIds)
  PROVE  \E n, m \in Nat, f, g \in Seq(RowIds) : Portions(found, n, m, f, g)
<1>1. PICK n \in Nat : n = Len(found)
  BY LenProperties
<1>2. PICK m \in Nat : m = Fit(n)
  BY FitIs
<1>3. m <= n /\ m <= size /\ (n > 0 => m > 0) /\ (n > size <=> m < n)
  BY <1>2, FitIs
<1>4. \A i \in 1..n : found[i] \in RowIds
  BY <1>1, ElementOfSeq
<1>5. PICK a \in Int : a = 1
  OBVIOUS
<1>6. PICK k \in Int : k = n - m + 1
  OBVIOUS
<1>7. PICK f : f = SubSeq(found, a, m)
  OBVIOUS
<1>8. PICK g : g = SubSeq(found, k, n)
  OBVIOUS
<1>9. \A i \in a..m : found[i] \in RowIds
  BY <1>3, <1>4, <1>5
<1>10. \A i \in k..n : found[i] \in RowIds
  BY <1>3, <1>4, <1>6
<1>11. /\ f \in Seq(RowIds) /\ Len(f) = IF a <= m THEN m - a + 1 ELSE 0
       /\ \A i \in 1..(m - a + 1) : f[i] = found[a + i - 1]
  BY <1>7, <1>9, SubSeqProperties
<1>12. /\ g \in Seq(RowIds) /\ Len(g) = IF k <= n THEN n - k + 1 ELSE 0
       /\ \A i \in 1..(n - k + 1) : g[i] = found[k + i - 1]
  BY <1>8, <1>10, SubSeqProperties
<1>13. Len(f) = m /\ \A i \in 1..m : f[i] = found[i]
  BY <1>3, <1>5, <1>11
<1>14. Len(g) = m /\ \A i \in 1..m : g[i] = found[n - m + i]
  BY <1>3, <1>6, <1>12
<1>15. f = SubSeq(found, 1, Fit(Len(found)))
  BY <1>1, <1>2, <1>5, <1>7
<1>16. g = SubSeq(found, Len(found) - Fit(Len(found)) + 1, Len(found))
  BY <1>1, <1>2, <1>6, <1>8
<1>17. Portions(found, n, m, f, g)
  BY <1>1, <1>2, <1>3, <1>13, <1>14, <1>15, <1>16, Zenon DEF Portions
<1> QED BY <1>11, <1>12, <1>17

LEMMA PagesAreTyped ==
  ASSUME RowsTyped, size \in PageSizes, NEW found \in Seq(RowIds), NEW p,
         AheadHas(p, found) \/ \E followed \in BOOLEAN : AfterHas(p, found, followed)
  PROVE  PageTyped(p)
<1>0. PICK n, m \in Nat, f, g \in Seq(RowIds) : Portions(found, n, m, f, g)
  BY PiecesAreItems
<1>1. /\ n = Len(found) /\ m <= size
      /\ f = SubSeq(found, 1, Fit(Len(found))) /\ Len(f) = m
      /\ g = SubSeq(found, Len(found) - Fit(Len(found)) + 1, Len(found)) /\ Len(g) = m
  BY <1>0 DEF Portions
<1>2. PICK b : b = (n > size)
  OBVIOUS
<1>3. b \in BOOLEAN
  BY <1>2
<1>4. Len(f) <= size /\ Len(g) <= size
  BY <1>1
<1>5. CASE AheadHas(p, found)
  <2>1. PageHas(p, g, b, TRUE)
    BY <1>1, <1>2, <1>5, Zenon DEF AheadHas
  <2> QED BY <1>3, <1>4, <2>1, PageIsTyped
<1>6. CASE \E followed \in BOOLEAN : AfterHas(p, found, followed)
  <2>1. PICK followed \in BOOLEAN : AfterHas(p, found, followed)
    BY <1>6
  <2>2. PageHas(p, f, followed, b)
    BY <1>1, <1>2, <2>1, Zenon DEF AfterHas
  <2> QED BY <1>3, <1>4, <2>2, PageIsTyped
<1> QED BY <1>5, <1>6

LEMMA ListedAre == ListedIds \subseteq RowIds
BY DEF ListedIds

\* What the requests do.
LEMMA OpenIs ==
  ASSUME PagingTyped, OpenList
  PROVE  /\ AfterHas(current', InOrder(ListedIds), FALSE) /\ walk' = current'.items /\ same' = ListedIds
         /\ ~current.asked /\ UNCHANGED <<list, filter, size, rows, changes>>
<1>1. InLine(ListedIds, InOrder(ListedIds))
  BY ListedAre, InOrderIs DEF PagingTyped
<1>2. InOrder(ListedIds) \in Seq(RowIds)
  BY <1>1 DEF InLine
<1>3. AfterHas(FirstPage, InOrder(ListedIds), FALSE)
  BY <1>2, PagesAre DEF FirstPage, PagingTyped
<1> QED BY <1>3 DEF OpenList

Beyond(ids, key) == {i \in ids : Before(key, KeyOf(i))}
Preceding(ids, key) == {i \in ids : Before(KeyOf(i), key)}

LEMMA NextIs ==
  ASSUME PagingTyped, FollowNext
  PROVE  /\ AfterHas(current', InOrder(Beyond(ListedIds, current.last)), TRUE)
         /\ walk' = IF walk = <<>> THEN <<>> ELSE walk \o current'.items
         /\ current.next /\ UNCHANGED <<list, filter, size, rows, same, changes>>
<1>1. PICK ids : ids = Beyond(ListedIds, current.last)
  OBVIOUS
<1>2. ids \subseteq RowIds
  BY <1>1, ListedAre DEF Beyond
<1>3. InOrder(ids) \in Seq(RowIds)
  BY <1>2, InOrderIs DEF InLine, PagingTyped
<1>4. AfterHas(PageAfter(InOrder(ids), TRUE), InOrder(ids), TRUE)
  BY <1>3, PagesAre DEF PagingTyped
<1>5. NextPage = PageAfter(InOrder(ids), TRUE)
  BY <1>1 DEF NextPage, Beyond
<1>6. current' = PageAfter(InOrder(ids), TRUE)
  BY <1>5 DEF FollowNext
<1>7. walk' = IF walk = <<>> THEN <<>> ELSE walk \o current'.items
  BY <1>5, <1>6 DEF FollowNext
<1> QED BY <1>1, <1>4, <1>6, <1>7 DEF FollowNext

LEMMA PrevIs ==
  ASSUME PagingTyped, FollowPrev
  PROVE  /\ AheadHas(current', InOrder(Preceding(ListedIds, current.first)))
         /\ walk' = <<>> /\ same' = {}
         /\ current.prev /\ UNCHANGED <<list, filter, size, rows, changes>>
<1>1. PICK ids : ids = Preceding(ListedIds, current.first)
  OBVIOUS
<1>2. ids \subseteq RowIds
  BY <1>1, ListedAre DEF Preceding
<1>3. InOrder(ids) \in Seq(RowIds)
  BY <1>2, InOrderIs DEF InLine, PagingTyped
<1>4. AheadHas(PageBefore(InOrder(ids)), InOrder(ids))
  BY <1>3, PagesAre DEF PagingTyped
<1>5. PrevPage = PageBefore(InOrder(ids))
  BY <1>1 DEF PrevPage, Preceding
<1>6. current' = PageBefore(InOrder(ids))
  BY <1>5 DEF FollowPrev
<1> QED BY <1>1, <1>4, <1>6 DEF FollowPrev

RowChanges(i) == RowAdded(i) \/ RowMoved(i) \/ RowFlagged(i)

LEMMA RanksAre == ASSUME list \in Lists PROVE Ranks[list] \subseteq 0..2
<1>1. Ranks.sessions = 0..1 /\ Ranks.routes = {0} /\ Ranks.deliveries = 0..2 /\ Ranks.work = {0} /\ Ranks.facts = {0}
  BY DEF Ranks
<1>2. /\ Ranks["sessions"] = 0..1 /\ Ranks["routes"] = {0} /\ Ranks["deliveries"] = 0..2
      /\ Ranks["work"] = {0} /\ Ranks["facts"] = {0}
  BY <1>1
<1> QED BY <1>2, ListIs

\* What happens to a row: it comes; or its update is now; or its rank or its
\* flag is another, of which a session and a route keep the rank.
LEMMA ChangeIs ==
  ASSUME PagingTyped, NEW i \in RowIds, RowChanges(i)
  PROVE  \E row \in RowShape :
           /\ Change(i, row)
           /\ rows[i].there =>
                /\ row.there /\ row.created = rows[i].created
                /\ row.rank = rows[i].rank \/ list = "deliveries"
                /\ row.updated = rows[i].updated
                     \/ (list \in {"sessions", "facts"} /\ row.updated >= MaxTime)
<1>1. /\ rows[i] \in RowShape /\ MaxTime \in Nat \ {0}
      /\ \A t \in Now : t \in 1..(MaxTime + 1) /\ t >= MaxTime
  BY PagingAssumption DEF PagingTyped, RowsTyped, Now
<1>2. Ranks[list] \subseteq 0..2
  BY RanksAre DEF PagingTyped, RowsTyped
<1>3. CASE RowAdded(i)
  <2>1. PICK k \in Ranks[list], t \in Now : ~rows[i].there /\ Change(i, Row(TRUE, k, t, t))
    BY <1>3 DEF RowAdded
  <2>2. Row(TRUE, k, t, t) \in RowShape
    BY <1>1, <1>2, <2>1 DEF Row, RowShape
  <2> QED BY <2>1, <2>2
<1>4. CASE RowMoved(i)
  <2>1. CASE list \in {"sessions", "facts"} /\ \E t \in Now : Change(i, [rows[i] EXCEPT !.updated = t])
    <3>1. PICK t \in Now : Change(i, [rows[i] EXCEPT !.updated = t])
      BY <2>1
    <3>2. PICK row : row = [rows[i] EXCEPT !.updated = t]
      OBVIOUS
    <3>3. /\ row \in RowShape /\ row.there = rows[i].there /\ row.created = rows[i].created
          /\ row.rank = rows[i].rank /\ row.updated = t
      BY <1>1, <3>2 DEF RowShape
    <3> QED BY <1>1, <2>1, <3>1, <3>2, <3>3
  <2>2. CASE list = "deliveries" /\ \E k \in Ranks[list] : Change(i, [rows[i] EXCEPT !.rank = k])
    <3>1. PICK k \in Ranks[list] : Change(i, [rows[i] EXCEPT !.rank = k])
      BY <2>2
    <3>2. PICK row : row = [rows[i] EXCEPT !.rank = k]
      OBVIOUS
    <3>3. /\ row \in RowShape /\ row.there = rows[i].there /\ row.created = rows[i].created
          /\ row.updated = rows[i].updated
      BY <1>1, <1>2, <3>2 DEF RowShape
    <3> QED BY <2>2, <3>1, <3>2, <3>3
  <2> QED BY <1>4, <2>1, <2>2 DEF RowMoved
<1>5. CASE RowFlagged(i)
  <2>1. PICK row : row = [rows[i] EXCEPT !.flag = ~rows[i].flag]
    OBVIOUS
  <2>2. /\ row \in RowShape /\ row.there = rows[i].there /\ row.created = rows[i].created
        /\ row.rank = rows[i].rank /\ row.updated = rows[i].updated
    BY <1>1, <2>1 DEF RowShape
  <2>3. Change(i, row)
    BY <1>5, <2>1 DEF RowFlagged
  <2> QED BY <2>2, <2>3
<1> QED BY <1>3, <1>4, <1>5 DEF RowChanges

LEMMA TypesBegin == PagingInit => PagingTyped
<1> SUFFICES ASSUME PagingInit PROVE PagingTyped
  OBVIOUS
<1>1. list \in Lists /\ filter \in Filters[list] /\ size \in PageSizes /\ MaxTime \in Nat \ {0}
  BY PagingAssumption DEF PagingInit
<1>2. Ranks[list] \subseteq 0..2
  BY <1>1, RanksAre
<1>3. StoredRows \subseteq RowShape
  <2>1. NoRow \in RowShape
    BY <1>1 DEF NoRow, RowShape
  <2>2. ASSUME NEW x \in [there : {TRUE}, flag : {TRUE}, rank : Ranks[list], created : 1..MaxTime, updated : 1..MaxTime]
        PROVE  x \in RowShape
    <3>1. x = [there |-> x.there, flag |-> x.flag, rank |-> x.rank, created |-> x.created, updated |-> x.updated]
      BY <2>2
    <3>2. x.there \in {TRUE} /\ x.flag \in {TRUE} /\ x.rank \in Ranks[list] /\ x.created \in 1..MaxTime /\ x.updated \in 1..MaxTime
      BY <2>2
    <3>3. x.there \in BOOLEAN /\ x.flag \in BOOLEAN
      BY <3>2
    <3>4. x.rank \in 0..2 /\ x.created \in 1..(MaxTime + 1) /\ x.updated \in 1..(MaxTime + 1)
      BY <1>1, <1>2, <3>2
    <3> QED BY <3>1, <3>3, <3>4, Zenon DEF RowShape
  <2> QED BY <2>1, <2>2, Zenon DEF StoredRows
<1>4. rows \in [RowIds -> RowShape]
  BY <1>3 DEF PagingInit
<1>5. PageTyped(current) /\ walk \in Seq(RowIds)
  <2>1. <<>> \in Seq(RowIds) /\ Len(<<>>) = 0
    BY EmptySeq
  <2>2. size \in Nat
    BY <1>1, PagingAssumption
  <2> QED BY <2>1, <2>2 DEF PagingInit, NoPage, PageTyped
<1>6. changes \in 0..MaxChanges
  BY PagingAssumption DEF PagingInit
<1> QED BY <1>1, <1>4, <1>5, <1>6 DEF PagingInit, PagingTyped, RowsTyped

LEMMA TypesStep == ASSUME PagingTyped, [PagingNext]_pagingVars PROVE PagingTyped'
<1>0. RowsTyped /\ size \in PageSizes
  BY DEF PagingTyped
<1>1. CASE OpenList
  <2>1. PICK found : found = InOrder(ListedIds)
    OBVIOUS
  <2>2. found \in Seq(RowIds)
    BY <1>0, <2>1, ListedAre, InOrderIs DEF InLine
  <2>3. AfterHas(current', found, FALSE) /\ walk' = current'.items /\ same' = ListedIds /\ UNCHANGED <<list, filter, size, rows, changes>>
    BY <1>1, <2>1, OpenIs
  <2>4. PageTyped(current')
    BY <1>0, <2>2, <2>3, PagesAreTyped
  <2> QED BY <2>3, <2>4, ListedAre DEF PagingTyped, PageTyped, RowsTyped
<1>2. CASE FollowNext
  <2>1. PICK ids : ids = Beyond(ListedIds, current.last)
    OBVIOUS
  <2>2. PICK found : found = InOrder(ids)
    OBVIOUS
  <2>3. found \in Seq(RowIds)
    <3>1. ids \subseteq RowIds
      BY <2>1, ListedAre DEF Beyond
    <3> QED BY <1>0, <2>2, <3>1, InOrderIs DEF InLine
  <2>4. /\ AfterHas(current', found, TRUE) /\ UNCHANGED <<list, filter, size, rows, same, changes>>
        /\ walk' = IF walk = <<>> THEN <<>> ELSE walk \o current'.items
    BY <1>2, <2>1, <2>2, NextIs
  <2>5. PageTyped(current')
    BY <1>0, <2>3, <2>4, PagesAreTyped
  <2>6. walk' \in Seq(RowIds)
    <3>1. current'.items \in Seq(RowIds) /\ walk \in Seq(RowIds)
      BY <2>5 DEF PageTyped, PagingTyped
    <3>2. walk \o current'.items \in Seq(RowIds)
      BY <3>1, ConcatProperties
    <3> QED BY <2>4, <3>1, <3>2, EmptySeq
  <2> QED BY <2>4, <2>5, <2>6 DEF PagingTyped, PageTyped, RowsTyped
<1>3. CASE FollowPrev
  <2>1. PICK ids : ids = Preceding(ListedIds, current.first)
    OBVIOUS
  <2>2. PICK found : found = InOrder(ids)
    OBVIOUS
  <2>3. found \in Seq(RowIds)
    <3>1. ids \subseteq RowIds
      BY <2>1, ListedAre DEF Preceding
    <3> QED BY <1>0, <2>2, <3>1, InOrderIs DEF InLine
  <2>4. AheadHas(current', found) /\ walk' = <<>> /\ same' = {} /\ UNCHANGED <<list, filter, size, rows, changes>>
    BY <1>3, <2>1, <2>2, PrevIs
  <2>5. PageTyped(current')
    BY <1>0, <2>3, <2>4, PagesAreTyped
  <2> QED BY <2>4, <2>5, EmptySeq DEF PagingTyped, PageTyped, RowsTyped
<1>4. ASSUME NEW i \in RowIds, RowChanges(i) PROVE PagingTyped'
  <2>1. PICK row \in RowShape : Change(i, row)
    BY <1>4, ChangeIs
  <2>2. /\ rows' = [rows EXCEPT ![i] = row] /\ same' = same \ {i} /\ changes < MaxChanges /\ changes' = changes + 1
        /\ UNCHANGED <<list, filter, size, current, walk>>
    BY <2>1 DEF Change
  <2>3. rows' \in [RowIds -> RowShape] /\ changes' \in 0..MaxChanges
    BY <2>2, PagingAssumption DEF PagingTyped, RowsTyped
  <2> QED BY <2>2, <2>3 DEF PagingTyped, PageTyped, RowsTyped
<1>5. CASE UNCHANGED pagingVars
  BY <1>5 DEF pagingVars, PagingTyped, PageTyped, RowsTyped
<1> QED BY <1>1, <1>2, <1>3, <1>4, <1>5 DEF PagingNext, RowChanges

-----------------------------------------------------------------------------
(* Nothing is skipped.                                                     *)

\* A page shows the first m of n rows, and its last link is the last one's key.
ShowsAfter(p, ids, followed, found, n, m) ==
  /\ found = InOrder(ids) /\ InLine(ids, found) /\ n = Len(found) /\ DOMAIN found = 1..n
  /\ m <= n /\ m <= size /\ (n > 0 => m > 0)
  /\ p.items \in Seq(RowIds) /\ Len(p.items) = m /\ DOMAIN p.items = 1..m
  /\ \A i \in 1..m : p.items[i] = found[i]
  /\ p.asked = TRUE /\ (p.next <=> m < n) /\ (p.prev <=> followed /\ n > 0)
  /\ (p.next => m > 0 /\ p.last = KeyOf(found[m]))
  /\ (p.prev => m > 0 /\ p.first = KeyOf(found[1]))

LEMMA AfterIs ==
  ASSUME RowsTyped, size \in PageSizes, list \in Numbered, NEW ids, ids \subseteq RowIds,
         NEW followed \in BOOLEAN, NEW p, AfterHas(p, InOrder(ids), followed)
  PROVE  \E found \in Seq(RowIds), n \in Nat, m \in Nat : ShowsAfter(p, ids, followed, found, n, m)
<1>1. PICK found : found = InOrder(ids) /\ InLine(ids, found)
  BY InOrderIs
<1>2. found \in Seq(RowIds)
  BY <1>1 DEF InLine
<1>3. PICK n, m \in Nat, f, g \in Seq(RowIds) : Portions(found, n, m, f, g)
  BY <1>2, PiecesAreItems
<1>4. /\ n = Len(found) /\ m <= n /\ m <= size /\ (n > 0 => m > 0) /\ (n > size <=> m < n)
      /\ f = SubSeq(found, 1, Fit(Len(found))) /\ Len(f) = m /\ \A i \in 1..m : f[i] = found[i]
  BY <1>3 DEF Portions
<1>5. /\ p.items = f /\ p.asked = TRUE
      /\ p.prev = (followed /\ f # <<>>) /\ p.next = ((n > size) /\ f # <<>>)
      /\ p.first = IF p.prev THEN CursorOf(f[1]) ELSE NoKey
      /\ p.last = IF p.next THEN CursorOf(f[Len(f)]) ELSE NoKey
  BY <1>1, <1>4, Zenon DEF AfterHas, PageHas
<1>6. f # <<>> <=> m > 0
  BY <1>4, EmptySeq
<1>7. n > 0 <=> m > 0
  BY <1>4
<1>8. (p.next <=> m < n) /\ (p.prev <=> followed /\ n > 0)
  <2>1. p.prev <=> followed /\ f # <<>>
    BY <1>5, Zenon
  <2>2. p.next <=> (n > size) /\ f # <<>>
    BY <1>5, Zenon
  <2>3. m < n => n > 0
    OBVIOUS
  <2> QED BY <1>4, <1>6, <1>7, <2>1, <2>2, <2>3
<1>9. \A i \in 1..m : f[i] \in RowIds /\ CursorOf(f[i]) = KeyOf(f[i])
  <2>1. \A i \in 1..m : f[i] \in RowIds
    BY <1>4, ElementOfSeq
  <2> QED BY <2>1, KeyIs
<1>10. p.next => m > 0 /\ p.last = KeyOf(found[m])
  <2> SUFFICES ASSUME p.next PROVE m > 0 /\ p.last = KeyOf(found[m])
    OBVIOUS
  <2>1. m < n /\ m > 0
    BY <1>7, <1>8
  <2>2. m \in 1..m
    BY <2>1
  <2>3. p.last = CursorOf(f[m])
    BY <1>4, <1>5
  <2> QED BY <1>4, <1>9, <2>1, <2>2, <2>3
<1>11. p.prev => m > 0 /\ p.first = KeyOf(found[1])
  <2> SUFFICES ASSUME p.prev PROVE m > 0 /\ p.first = KeyOf(found[1])
    OBVIOUS
  <2>1. m > 0
    BY <1>7, <1>8
  <2>2. 1 \in 1..m
    BY <2>1
  <2>3. p.first = CursorOf(f[1])
    BY <1>5
  <2> QED BY <1>4, <1>9, <2>1, <2>2, <2>3
<1>12. DOMAIN found = 1..n /\ DOMAIN f = 1..m
  BY <1>2, <1>4, LenProperties
<1>13. p.items \in Seq(RowIds) /\ Len(p.items) = m /\ DOMAIN p.items = 1..m /\ \A i \in 1..m : p.items[i] = found[i]
  BY <1>4, <1>5, <1>12
<1>14. ShowsAfter(p, ids, followed, found, n, m)
  BY <1>1, <1>4, <1>5, <1>8, <1>10, <1>11, <1>12, <1>13, Zenon DEF ShowsAfter
<1> QED BY <1>2, <1>14

LEMMA PageCovers ==
  ASSUME RowsTyped, size \in PageSizes, list \in Numbered, NEW ids, ids \subseteq RowIds,
         NEW followed \in BOOLEAN, NEW p, AfterHas(p, InOrder(ids), followed)
  PROVE  \A i \in ids : i \in ToSet(p.items) \/ (p.next /\ Before(p.last, KeyOf(i)))
<1>0. PICK found \in Seq(RowIds), n \in Nat, m \in Nat : ShowsAfter(p, ids, followed, found, n, m)
  BY AfterIs
<1>1. /\ InLine(ids, found) /\ n = Len(found) /\ DOMAIN found = 1..n
      /\ m <= n /\ (n > 0 => m > 0)
      /\ DOMAIN p.items = 1..m /\ \A i \in 1..m : p.items[i] = found[i]
      /\ (p.next <=> m < n)
      /\ (p.next => m > 0 /\ p.last = KeyOf(found[m]))
  BY <1>0 DEF ShowsAfter
<1> SUFFICES ASSUME NEW i \in ids PROVE i \in ToSet(p.items) \/ (p.next /\ Before(p.last, KeyOf(i)))
  OBVIOUS
<1>2. PICK k \in 1..n : found[k] = i
  BY <1>1 DEF InLine, ToSet
<1>3. CASE k <= m
  <2>1. k \in 1..m /\ p.items[k] = i
    BY <1>1, <1>2, <1>3
  <2> QED BY <1>1, <2>1 DEF ToSet
<1>4. CASE k > m
  <2>1. p.next /\ p.last = KeyOf(found[m]) /\ m \in 1..n /\ m < k
    BY <1>1, <1>4
  <2>2. Before(KeyOf(found[m]), KeyOf(found[k]))
    BY <1>1, <2>1 DEF InLine
  <2> QED BY <1>2, <2>1, <2>2
<1> QED BY <1>1, <1>3, <1>4

SeenOK ==
  /\ ~current.asked => same = {} /\ walk = <<>> /\ ~current.next /\ ~current.prev
  /\ same \subseteq ListedIds
  /\ list \in Numbered /\ walk # <<>> =>
       \A i \in same : i \in ToSet(walk) \/ (current.next /\ Before(current.last, KeyOf(i)))

LEMMA SeenGives == SeenOK => NothingSkipped
BY DEF SeenOK, NothingSkipped, Exact, Numbered

LEMMA SeenBegins == PagingInit => SeenOK
BY DEF PagingInit, SeenOK, NoPage

\* The items of one walk after those of another.
LEMMA ToSetConcat ==
  ASSUME NEW S, NEW q \in Seq(S), NEW r \in Seq(S) PROVE ToSet(q \o r) = ToSet(q) \cup ToSet(r)
<1>1. PICK m, n \in Nat : m = Len(q) /\ n = Len(r)
  BY LenProperties
<1>2. PICK u : u = q \o r
  OBVIOUS
<1>3. /\ u \in Seq(S) /\ Len(u) = m + n
      /\ \A i \in 1..(m + n) : u[i] = IF i <= m THEN q[i] ELSE r[i - m]
  BY <1>1, <1>2, ConcatProperties
<1>4. DOMAIN q = 1..m /\ DOMAIN r = 1..n /\ DOMAIN u = 1..(m + n)
  BY <1>1, <1>3, LenProperties
<1>5. ASSUME NEW x \in ToSet(u) PROVE x \in ToSet(q) \cup ToSet(r)
  <2>0. PICK i \in 1..(m + n) : u[i] = x
    BY <1>4 DEF ToSet
  <2>1. CASE i <= m
    <3>1. i \in 1..m /\ q[i] = x
      BY <1>3, <2>0, <2>1
    <3> QED BY <1>4, <3>1 DEF ToSet
  <2>2. CASE i > m
    <3>1. i - m \in 1..n /\ x = r[i - m]
      BY <1>3, <2>0, <2>2
    <3> QED BY <1>4, <3>1 DEF ToSet
  <2> QED BY <2>1, <2>2
<1>6. \A x \in ToSet(q) : x \in ToSet(u)
  <2> SUFFICES ASSUME NEW i \in 1..m PROVE q[i] \in ToSet(u)
    BY <1>4 DEF ToSet
  <2>1. i \in 1..(m + n) /\ u[i] = q[i]
    BY <1>3
  <2> QED BY <1>4, <2>1 DEF ToSet
<1>7. \A x \in ToSet(r) : x \in ToSet(u)
  <2> SUFFICES ASSUME NEW i \in 1..n PROVE r[i] \in ToSet(u)
    BY <1>4 DEF ToSet
  <2>1. PICK k \in 1..(m + n) : k = m + i /\ k > m /\ k - m = i
    OBVIOUS
  <2>2. u[k] = r[i]
    BY <1>3, <2>1
  <2> QED BY <1>4, <2>1, <2>2 DEF ToSet
<1> QED BY <1>2, <1>5, <1>6, <1>7

LEMMA RowsAsTheyWere ==
  ASSUME UNCHANGED <<list, filter, rows>>
  PROVE  ListedIds' = ListedIds /\ (\A i : KeyOf(i)' = KeyOf(i)) /\ \A i, k : Before(k, KeyOf(i))' <=> Before(k, KeyOf(i))
<1>1. ListedIds' = ListedIds /\ \A i : KeyOf(i)' = KeyOf(i)
  BY DEF ListedIds, ListedRow, SessionListed, RouteListed, DeliveryListed, WorkListed, FactListed, KeyOf
<1> QED BY <1>1 DEF Before

LEMMA OtherRows ==
  ASSUME PagingTyped, NEW i \in RowIds, NEW row, Change(i, row), NEW j \in RowIds, j # i
  PROVE  rows'[j] = rows[j] /\ KeyOf(j)' = KeyOf(j) /\ (j \in ListedIds => j \in ListedIds')
<1>1. rows'[j] = rows[j] /\ list' = list /\ filter' = filter
  BY DEF Change, PagingTyped, RowsTyped
<1>2. KeyOf(j)' = KeyOf(j)
  BY <1>1 DEF KeyOf
<1>3. ListedRow(rows[j])' <=> ListedRow(rows[j])
  BY <1>1 DEF ListedRow, SessionListed, RouteListed, DeliveryListed, WorkListed, FactListed
<1>4. rows'[j].there = rows[j].there
  BY <1>1
<1>5. j \in ListedIds => j \in ListedIds'
  BY <1>3, <1>4 DEF ListedIds
<1> QED BY <1>1, <1>2, <1>5

LEMMA SeenStep == ASSUME PagingTyped, SeenOK, [PagingNext]_pagingVars PROVE SeenOK'
<1>0. RowsTyped /\ size \in PageSizes
  BY DEF PagingTyped
<1>1. CASE OpenList
  <2>1. /\ AfterHas(current', InOrder(ListedIds), FALSE) /\ walk' = current'.items /\ same' = ListedIds
        /\ UNCHANGED <<list, filter, size, rows, changes>>
    BY <1>1, OpenIs
  <2>2. current'.asked
    BY <2>1 DEF AfterHas, PageHas
  <2>3. list \in Numbered => \A i \in ListedIds : i \in ToSet(current'.items) \/ (current'.next /\ Before(current'.last, KeyOf(i)))
    BY <1>0, <2>1, ListedAre, PageCovers
  <2>4. ListedIds' = ListedIds /\ \A i, k : Before(k, KeyOf(i))' <=> Before(k, KeyOf(i))
    BY <2>1, RowsAsTheyWere
  <2> QED BY <2>1, <2>2, <2>3, <2>4 DEF SeenOK
<1>2. CASE FollowNext
  <2>1. PICK ids : ids = Beyond(ListedIds, current.last)
    OBVIOUS
  <2>2. /\ AfterHas(current', InOrder(ids), TRUE) /\ current.next
        /\ walk' = IF walk = <<>> THEN <<>> ELSE walk \o current'.items
        /\ UNCHANGED <<list, filter, size, rows, same, changes>>
    BY <1>2, <2>1, NextIs
  <2>3. current'.asked /\ current.asked
    BY <2>2 DEF AfterHas, PageHas, SeenOK
  <2>4. ids \subseteq RowIds
    BY <2>1, ListedAre DEF Beyond
  <2>5. list \in Numbered => \A i \in ids : i \in ToSet(current'.items) \/ (current'.next /\ Before(current'.last, KeyOf(i)))
    BY <1>0, <2>2, <2>4, PageCovers
  <2>6. ListedIds' = ListedIds /\ \A i, k : Before(k, KeyOf(i))' <=> Before(k, KeyOf(i))
    BY <2>2, RowsAsTheyWere
  <2>7. ASSUME list \in Numbered, walk' # <<>>, NEW i \in same
        PROVE  i \in ToSet(walk') \/ (current'.next /\ Before(current'.last, KeyOf(i)))
    <3>1. walk # <<>> /\ walk' = walk \o current'.items
      BY <2>2, <2>7
    <3>2. PageTyped(current)'
      BY TypesStep DEF PagingTyped
    <3>3. current'.items \in Seq(RowIds) /\ walk \in Seq(RowIds)
      BY <3>2 DEF PageTyped, PagingTyped
    <3>4. ToSet(walk') = ToSet(walk) \cup ToSet(current'.items)
      BY <3>1, <3>3, ToSetConcat
    <3>5. i \in ToSet(walk) \/ Before(current.last, KeyOf(i))
      BY <2>7, <3>1 DEF SeenOK
    <3>6. i \in ListedIds
      BY DEF SeenOK
    <3>7. i \in ToSet(walk) \/ i \in ids
      BY <2>1, <3>5, <3>6 DEF Beyond
    <3> QED BY <2>5, <2>7, <3>4, <3>7
  <2> QED BY <2>2, <2>3, <2>6, <2>7 DEF SeenOK
<1>3. CASE FollowPrev
  <2>1. /\ AheadHas(current', InOrder(Preceding(ListedIds, current.first)))
        /\ walk' = <<>> /\ same' = {} /\ list' = list
    BY <1>3, PrevIs
  <2>2. current'.asked
    BY <2>1 DEF AheadHas, PageHas
  <2> QED BY <2>1, <2>2 DEF SeenOK
<1>4. ASSUME NEW i \in RowIds, RowChanges(i) PROVE SeenOK'
  <2>1. PICK row \in RowShape : Change(i, row)
    BY <1>4, ChangeIs
  <2>2. current.asked /\ same' = same \ {i} /\ UNCHANGED <<list, filter, size, current, walk>>
    BY <2>1 DEF Change
  <2>3. ASSUME NEW j \in same'
        PROVE  j \in same /\ j \in ListedIds' /\ KeyOf(j)' = KeyOf(j)
    <3>1. j \in same /\ j # i /\ j \in ListedIds
      BY <2>2, <2>3 DEF SeenOK
    <3> QED BY <2>1, <3>1, ListedAre, OtherRows
  <2>4. \A k, l : Before(k, l)' <=> Before(k, l)
    BY <2>2 DEF Before, SessionBefore, RouteBefore, DeliveryBefore, NewerText, TextBelow
  <2>5. ASSUME list \in Numbered, walk # <<>>, NEW j \in same'
        PROVE  j \in ToSet(walk) \/ (current.next /\ Before(current.last, KeyOf(j))')
    <3>1. j \in ToSet(walk) \/ (current.next /\ Before(current.last, KeyOf(j)))
      BY <2>3, <2>5 DEF SeenOK
    <3>2. PICK k : k = KeyOf(j)
      OBVIOUS
    <3>3. Before(current.last, KeyOf(j))' <=> Before(current.last, k)
      BY <2>2, <2>3, <2>4, <2>5, <3>2 DEF Before
    <3> QED BY <3>1, <3>2, <3>3
  <2> QED BY <2>2, <2>3, <2>5 DEF SeenOK
<1>5. CASE UNCHANGED pagingVars
  <2>1. UNCHANGED <<list, filter, rows, current, walk, same>>
    BY <1>5 DEF pagingVars
  <2>2. ListedIds' = ListedIds /\ \A i, k : Before(k, KeyOf(i))' <=> Before(k, KeyOf(i))
    BY <2>1, RowsAsTheyWere
  <2> QED BY <2>1, <2>2 DEF SeenOK
<1> QED BY <1>1, <1>2, <1>3, <1>4, <1>5 DEF PagingNext, RowChanges

-----------------------------------------------------------------------------
(* No session and no route is met twice.                                   *)

Steady == list \in {"sessions", "routes"}

\* The key that a session has at the latest as it was when the walk began.
KeyAtTop(i) == [id |-> i, rank |-> rows[i].rank, created |-> rows[i].created, updated |-> MaxTime]

NotBeyond(key, i) ==
  /\ ~Before(key, KeyOf(i))
  /\ list = "sessions" => ~Before(key, KeyAtTop(i))

OnceOK ==
  /\ ~current.asked => walk = <<>> /\ \A i \in RowIds : rows[i].updated <= MaxTime
  /\ Steady /\ walk # <<>> =>
       /\ \A i, j \in 1..Len(walk) : i # j => walk[i] # walk[j]
       /\ \A i \in ToSet(walk) : rows[i].there
       /\ current.next => \A i \in ToSet(walk) : NotBeyond(current.last, i)
       /\ current.next /\ list = "sessions" => current.last.updated <= MaxTime

LEMMA OnceGives == PagingTyped /\ OnceOK => NoRowTwice
<1> SUFFICES ASSUME PagingTyped, OnceOK, list \in {"sessions", "routes"} PROVE Len(walk) = Cardinality(ToSet(walk))
  BY DEF NoRowTwice
<1>1. walk \in Seq(RowIds)
  BY DEF PagingTyped
<1>2. \A i, j \in 1..Len(walk) : i # j => walk[i] # walk[j]
  <2>1. CASE walk = <<>>
    <3>1. Len(walk) = 0
      BY <2>1, EmptySeq
    <3> QED BY <3>1
  <2>2. CASE walk # <<>>
    BY <2>2 DEF OnceOK, Steady
  <2> QED BY <2>1, <2>2
<1> QED BY <1>1, <1>2, MembersCounted

LEMMA OnceBegins == PagingInit => OnceOK
<1> SUFFICES ASSUME PagingInit PROVE OnceOK
  OBVIOUS
<1>1. list \in Lists /\ MaxTime \in Nat \ {0}
  BY PagingAssumption DEF PagingInit
<1>2. ASSUME NEW x \in StoredRows PROVE x.updated <= MaxTime
  <2>1. CASE x = NoRow
    BY <1>1, <2>1 DEF NoRow
  <2>2. CASE x \in [there : {TRUE}, flag : {TRUE}, rank : Ranks[list], created : 1..MaxTime, updated : 1..MaxTime]
    <3>1. x.updated \in 1..MaxTime
      BY <2>2
    <3> QED BY <1>1, <3>1
  <2> QED BY <1>2, <2>1, <2>2 DEF StoredRows
<1>3. \A i \in RowIds : rows[i].updated <= MaxTime
  BY <1>2 DEF PagingInit
<1> QED BY <1>3 DEF PagingInit, OnceOK

\* What a page beyond a cursor shows is not beyond the cursor that it ends with.
LEMMA PageIsPassed ==
  ASSUME RowsTyped, size \in PageSizes, Steady, NEW ids, ids \subseteq RowIds,
         NEW followed \in BOOLEAN, NEW p, AfterHas(p, InOrder(ids), followed), p.next,
         list = "sessions" => \A i \in ids : rows[i].updated <= MaxTime
  PROVE  /\ \A i \in ToSet(p.items) : NotBeyond(p.last, i)
         /\ list = "sessions" => p.last.updated <= MaxTime
<1>0. list \in Numbered
  BY DEF Steady, Numbered
<1>1. PICK found \in Seq(RowIds), n \in Nat, m \in Nat : ShowsAfter(p, ids, followed, found, n, m)
  BY <1>0, AfterIs
<1>2. /\ InLine(ids, found) /\ n = Len(found) /\ m <= n /\ m > 0
      /\ DOMAIN p.items = 1..m /\ \A i \in 1..m : p.items[i] = found[i]
      /\ p.last = KeyOf(found[m])
  BY <1>1 DEF ShowsAfter
<1>3. m \in 1..n /\ found[m] \in ids
  BY <1>2 DEF InLine
<1>4. PICK z \in RowIds : z = found[m] /\ z \in ids /\ p.last = KeyOf(z)
  BY <1>2, <1>3
<1>5. KeyOf(z) = [id |-> z, rank |-> rows[z].rank, created |-> rows[z].created, updated |-> rows[z].updated]
  BY <1>0, KeyIs
<1>6. list = "sessions" => p.last.updated <= MaxTime
  BY <1>4, <1>5
<1>7. ASSUME NEW i \in ToSet(p.items) PROVE i \in ids /\ ~Before(p.last, KeyOf(i))
  <2>1. PICK k \in 1..m : i = found[k]
    BY <1>2, <1>7 DEF ToSet
  <2>2. k \in 1..n /\ ~(m < k)
    BY <1>2
  <2>3. Before(KeyOf(found[m]), KeyOf(found[k])) <=> m < k
    BY <1>2, <1>3, <2>2, LineIsStrict
  <2> QED BY <1>2, <2>1, <2>2, <2>3 DEF InLine
<1>8. ASSUME NEW i \in ToSet(p.items), list = "sessions" PROVE ~Before(p.last, KeyAtTop(i))
  <2>1. i \in ids /\ i \in RowIds /\ ~SessionBefore(KeyOf(z), KeyOf(i))
    BY <1>4, <1>7, <1>8 DEF Before
  <2>2. KeyOf(i) = [id |-> i, rank |-> rows[i].rank, created |-> rows[i].created, updated |-> rows[i].updated]
    BY <1>0, <2>1, KeyIs
  <2>3. /\ rows[i].updated <= MaxTime /\ rows[z].updated <= MaxTime /\ MaxTime \in Nat
        /\ rows[i].updated \in Nat /\ rows[z].updated \in Nat
    BY <1>4, <1>8, <2>1, PagingAssumption DEF RowsTyped, RowShape
  <2>4. CASE rows[i].updated = MaxTime
    <3>1. KeyAtTop(i) = KeyOf(i)
      BY <2>2, <2>4 DEF KeyAtTop
    <3> QED BY <1>7, <3>1
  <2>5. CASE rows[i].updated < MaxTime
    <3>1. rows[z].updated < MaxTime
      BY <1>5, <2>1, <2>2, <2>3, <2>5 DEF SessionBefore
    <3>2. ~SessionBefore(KeyOf(z), KeyAtTop(i))
      BY <1>5, <2>3, <3>1 DEF SessionBefore, KeyAtTop
    <3> QED BY <1>4, <1>8, <3>2 DEF Before
  <2> QED BY <2>3, <2>4, <2>5
<1> QED BY <1>6, <1>7, <1>8 DEF NotBeyond

LEMMA LineIsOnce ==
  ASSUME RowsTyped, size \in PageSizes, Steady, NEW ids, ids \subseteq RowIds,
         NEW followed \in BOOLEAN, NEW p, AfterHas(p, InOrder(ids), followed)
  PROVE  /\ p.items \in Seq(RowIds) /\ ToSet(p.items) \subseteq ids
         /\ \A i, j \in 1..Len(p.items) : i # j => p.items[i] # p.items[j]
<1>0. list \in Numbered
  BY DEF Steady, Numbered
<1>1. PICK found \in Seq(RowIds), n \in Nat, m \in Nat : ShowsAfter(p, ids, followed, found, n, m)
  BY <1>0, AfterIs
<1>2. /\ InLine(ids, found) /\ n = Len(found) /\ m <= n
      /\ p.items \in Seq(RowIds) /\ Len(p.items) = m /\ DOMAIN p.items = 1..m /\ \A i \in 1..m : p.items[i] = found[i]
  BY <1>1 DEF ShowsAfter
<1>3. \A i \in 1..m : i \in 1..n
  BY <1>2
<1>4. ToSet(p.items) \subseteq ids
  BY <1>2, <1>3 DEF InLine, ToSet
<1>5. \A i, j \in 1..m : i # j => p.items[i] # p.items[j]
  <2> SUFFICES ASSUME NEW i \in 1..m, NEW j \in 1..m, i # j, found[i] = found[j] PROVE FALSE
    BY <1>2
  <2>1. Before(KeyOf(found[i]), KeyOf(found[j])) <=> i < j
    BY <1>2, <1>3, LineIsStrict
  <2>2. Before(KeyOf(found[j]), KeyOf(found[i])) <=> j < i
    BY <1>2, <1>3, LineIsStrict
  <2> QED BY <2>1, <2>2
<1> QED BY <1>2, <1>4, <1>5

LEMMA PassedStays ==
  ASSUME RowsTyped, list \in Numbered, NEW a \in KeysOf(list), NEW b \in KeysOf(list), NEW i \in RowIds,
         NotBeyond(a, i), Before(a, b)
  PROVE  NotBeyond(b, i)
<1>1. KeyOf(i) \in KeysOf(list) /\ list \in Lists
  BY KeyIs DEF RowsTyped
<1>2. KeyAtTop(i) \in KeysOf(list)
  <2>1. /\ i \in Nat /\ rows[i].rank \in Nat /\ rows[i].created \in Nat /\ MaxTime \in Nat
    BY PagingAssumption DEF RowsTyped, RowShape
  <2> QED BY <2>1 DEF KeyAtTop, KeysOf, Keys
<1>3. ~Before(b, KeyOf(i))
  BY <1>1, BeforeTransitive DEF NotBeyond
<1>4. list = "sessions" => ~Before(b, KeyAtTop(i))
  BY <1>1, <1>2, BeforeTransitive DEF NotBeyond
<1> QED BY <1>3, <1>4 DEF NotBeyond

LEMMA OnceConcat ==
  ASSUME NEW S, NEW q \in Seq(S), NEW r \in Seq(S),
         \A i, j \in 1..Len(q) : i # j => q[i] # q[j], \A i, j \in 1..Len(r) : i # j => r[i] # r[j],
         ToSet(q) \cap ToSet(r) = {}
  PROVE  \A i, j \in 1..Len(q \o r) : i # j => (q \o r)[i] # (q \o r)[j]
<1>1. PICK m \in Nat : m = Len(q)
  BY LenProperties
<1>2. PICK n \in Nat : n = Len(r)
  BY LenProperties
<1>3. PICK u : u = q \o r
  OBVIOUS
<1>4. /\ u \in Seq(S) /\ Len(u) = m + n
      /\ \A i \in 1..(m + n) : u[i] = IF i <= m THEN q[i] ELSE r[i - m]
  BY <1>1, <1>2, <1>3, ConcatProperties
<1>5. (\A i \in 1..m : q[i] \in ToSet(q)) /\ (\A i \in 1..n : r[i] \in ToSet(r))
  BY <1>1, <1>2, LenProperties DEF ToSet
<1> SUFFICES ASSUME NEW i \in 1..(m + n), NEW j \in 1..(m + n), i # j PROVE u[i] # u[j]
  BY <1>3, <1>4
<1>6. CASE i <= m /\ j <= m
  <2>1. i \in 1..m /\ j \in 1..m /\ u[i] = q[i] /\ u[j] = q[j]
    BY <1>4, <1>6
  <2> QED BY <1>1, <2>1
<1>7. CASE i <= m /\ j > m
  <2>1. i \in 1..m /\ u[i] = q[i] /\ j - m \in 1..n /\ u[j] = r[j - m]
    BY <1>4, <1>7
  <2> QED BY <1>5, <2>1
<1>8. CASE i > m /\ j <= m
  <2>1. j \in 1..m /\ u[j] = q[j] /\ i - m \in 1..n /\ u[i] = r[i - m]
    BY <1>4, <1>8
  <2> QED BY <1>5, <2>1
<1>9. CASE i > m /\ j > m
  <2>1. i - m \in 1..n /\ u[i] = r[i - m] /\ j - m \in 1..n /\ u[j] = r[j - m] /\ i - m # j - m
    BY <1>4, <1>9
  <2> QED BY <1>2, <2>1
<1> QED BY <1>6, <1>7, <1>8, <1>9

LEMMA OnceNext == ASSUME PagingTyped, OnceOK, FollowNext PROVE OnceOK'
<1>0. RowsTyped /\ size \in PageSizes /\ list \in Lists
  BY DEF PagingTyped, RowsTyped
<1>1. PICK ids : ids = Beyond(ListedIds, current.last)
  OBVIOUS
<1>2. PICK p : p = current'
  OBVIOUS
<1>3. /\ AfterHas(p, InOrder(ids), TRUE) /\ current.next
      /\ walk' = IF walk = <<>> THEN <<>> ELSE walk \o p.items
      /\ UNCHANGED <<list, filter, size, rows, same, changes>>
  BY <1>1, <1>2, NextIs
<1>4. ids \subseteq RowIds /\ \A i \in ids : rows[i].there /\ Before(current.last, KeyOf(i))
  BY <1>1 DEF Beyond, ListedIds
<1>5. p.asked
  BY <1>3 DEF AfterHas, PageHas
<1>6. current.last \in KeysOf(list)
  BY <1>3 DEF PagingTyped, PageTyped
<1>7. ASSUME Steady, walk # <<>>
      PROVE  /\ \A i, j \in 1..Len(walk \o p.items) : i # j => (walk \o p.items)[i] # (walk \o p.items)[j]
             /\ \A i \in ToSet(walk \o p.items) : rows[i].there
             /\ p.next => \A i \in ToSet(walk \o p.items) : NotBeyond(p.last, i)
             /\ p.next /\ list = "sessions" => p.last.updated <= MaxTime
  <2>0. list \in Numbered
    BY <1>7 DEF Steady, Numbered
  <2>1. /\ \A i, j \in 1..Len(walk) : i # j => walk[i] # walk[j]
        /\ \A i \in ToSet(walk) : rows[i].there /\ NotBeyond(current.last, i)
        /\ list = "sessions" => current.last.updated <= MaxTime
    BY <1>3, <1>7 DEF OnceOK
  <2>2. /\ p.items \in Seq(RowIds) /\ ToSet(p.items) \subseteq ids
        /\ \A i, j \in 1..Len(p.items) : i # j => p.items[i] # p.items[j]
    BY <1>0, <1>3, <1>4, <1>7, LineIsOnce
  <2>3. walk \in Seq(RowIds)
    BY DEF PagingTyped
  <2>4. \A i \in ToSet(p.items) : Before(current.last, KeyOf(i))
    BY <1>4, <2>2
  <2>5. \A i \in ToSet(walk) : ~Before(current.last, KeyOf(i))
    BY <2>1 DEF NotBeyond
  <2>6. ToSet(walk) \cap ToSet(p.items) = {}
    BY <2>4, <2>5
  <2>7. \A i, j \in 1..Len(walk \o p.items) : i # j => (walk \o p.items)[i] # (walk \o p.items)[j]
    BY <2>1, <2>2, <2>3, <2>6, OnceConcat
  <2>8. ToSet(walk \o p.items) = ToSet(walk) \cup ToSet(p.items)
    BY <2>2, <2>3, ToSetConcat
  <2>9. \A i \in ToSet(walk \o p.items) : rows[i].there
    BY <1>4, <2>1, <2>2, <2>8
  <2>10. ASSUME list = "sessions", NEW i \in ids PROVE rows[i].updated <= MaxTime
    <3>1. SessionBefore(current.last, KeyOf(i))
      BY <1>4, <2>10 DEF Before
    <3>2. KeyOf(i).updated = rows[i].updated /\ rows[i].updated \in Nat
      <4>1. KeyOf(i) = [id |-> i, rank |-> rows[i].rank, created |-> rows[i].created, updated |-> rows[i].updated]
        BY <1>0, <1>4, <2>0, KeyIs
      <4>2. rows[i].updated \in 1..(MaxTime + 1) /\ MaxTime \in Nat
        BY <1>0, <1>4, PagingAssumption DEF RowsTyped, RowShape
      <4> QED BY <4>1, <4>2
    <3>3. current.last.updated \in Nat /\ MaxTime \in Nat
      BY <1>6, <2>0, PagingAssumption DEF KeysOf, Keys
    <3>4. KeyOf(i).updated <= current.last.updated
      BY <3>1, <3>2, <3>3 DEF SessionBefore
    <3> QED BY <2>1, <2>10, <3>2, <3>3, <3>4
  <2>11. ASSUME p.next
         PROVE  /\ \A i \in ToSet(walk \o p.items) : NotBeyond(p.last, i)
                /\ list = "sessions" => p.last.updated <= MaxTime
    <3>1. /\ \A i \in ToSet(p.items) : NotBeyond(p.last, i)
          /\ list = "sessions" => p.last.updated <= MaxTime
      BY <1>0, <1>3, <1>4, <1>7, <2>10, <2>11, PageIsPassed
    <3>2. PICK found \in Seq(RowIds), n \in Nat, m \in Nat : ShowsAfter(p, ids, TRUE, found, n, m)
      BY <1>0, <1>3, <1>4, <2>0, AfterIs
    <3>3. m \in 1..n /\ n = Len(found) /\ p.last = KeyOf(found[m]) /\ InLine(ids, found)
      BY <2>11, <3>2 DEF ShowsAfter
    <3>4. found[m] \in ids
      BY <3>3 DEF InLine
    <3>5. Before(current.last, p.last) /\ p.last \in KeysOf(list)
      BY <1>0, <1>4, <3>3, <3>4, KeyIs
    <3>6. \A i \in ToSet(walk) : i \in RowIds
      BY <2>3, LenProperties, ElementOfSeq DEF ToSet
    <3>7. \A i \in ToSet(walk) : NotBeyond(p.last, i)
      BY <1>0, <1>6, <2>0, <2>1, <3>5, <3>6, PassedStays
    <3> QED BY <2>8, <3>1, <3>7
  <2> QED BY <2>7, <2>9, <2>11
<1>8. \A k, i : NotBeyond(k, i)' <=> NotBeyond(k, i)
  BY <1>3, RowsAsTheyWere DEF NotBeyond, Before, KeyAtTop, KeyOf
<1> QED BY <1>2, <1>3, <1>5, <1>7, <1>8 DEF OnceOK, Steady

LEMMA OnceOpen == ASSUME PagingTyped, OnceOK, OpenList PROVE OnceOK'
<1>0. RowsTyped /\ size \in PageSizes
  BY DEF PagingTyped
<1>1. PICK p : p = current'
  OBVIOUS
<1>2. PICK ids : ids = ListedIds
  OBVIOUS
<1>3. /\ AfterHas(p, InOrder(ids), FALSE) /\ walk' = p.items /\ ~current.asked
      /\ UNCHANGED <<list, filter, size, rows, changes>>
  BY <1>1, <1>2, OpenIs
<1>4. ids \subseteq RowIds /\ \A i \in ids : rows[i].there /\ rows[i].updated <= MaxTime
  BY <1>2, <1>3 DEF ListedIds, OnceOK
<1>5. p.asked
  BY <1>3 DEF AfterHas, PageHas
<1>6. ASSUME Steady
      PROVE  /\ \A i, j \in 1..Len(p.items) : i # j => p.items[i] # p.items[j]
             /\ \A i \in ToSet(p.items) : rows[i].there
  BY <1>0, <1>3, <1>4, <1>6, LineIsOnce
<1>7. ASSUME Steady, p.next
      PROVE  /\ \A i \in ToSet(p.items) : NotBeyond(p.last, i)
             /\ list = "sessions" => p.last.updated <= MaxTime
  BY <1>0, <1>3, <1>4, <1>7, PageIsPassed
<1>8. \A k, i : NotBeyond(k, i)' <=> NotBeyond(k, i)
  BY <1>3, RowsAsTheyWere DEF NotBeyond, Before, KeyAtTop, KeyOf
<1> QED BY <1>1, <1>3, <1>5, <1>6, <1>7, <1>8 DEF OnceOK, Steady

LEMMA OnceChange == ASSUME PagingTyped, OnceOK, NEW i \in RowIds, RowChanges(i) PROVE OnceOK'
<1>0. RowsTyped
  BY DEF PagingTyped
<1>1. PICK row \in RowShape :
        /\ Change(i, row)
        /\ rows[i].there =>
             /\ row.there /\ row.created = rows[i].created
             /\ row.rank = rows[i].rank \/ list = "deliveries"
             /\ row.updated = rows[i].updated
                  \/ (list \in {"sessions", "facts"} /\ row.updated >= MaxTime)
  BY ChangeIs
<1>2. /\ current.asked /\ rows' = [rows EXCEPT ![i] = row] /\ UNCHANGED <<list, filter, size, current, walk>>
  BY <1>1 DEF Change
<1>3. rows'[i] = row /\ \A j \in RowIds : j # i => rows'[j] = rows[j]
  BY <1>0, <1>2 DEF RowsTyped
<1>4. ToSet(walk) \subseteq RowIds
  BY LenProperties, ElementOfSeq DEF ToSet, PagingTyped
<1>5. ASSUME Steady, walk # <<>>, NEW j \in ToSet(walk) PROVE rows'[j].there
  <2>1. rows[j].there
    BY <1>5 DEF OnceOK
  <2> QED BY <1>1, <1>3, <1>4, <2>1
<1>6. ASSUME Steady, walk # <<>>, current.next, NEW j \in ToSet(walk) PROVE NotBeyond(current.last, j)'
  <2>0. list \in Numbered /\ list # "deliveries" /\ list # "facts"
    BY <1>6 DEF Steady, Numbered
  <2>1. rows[j].there /\ NotBeyond(current.last, j) /\ (list = "sessions" => current.last.updated <= MaxTime)
    BY <1>6 DEF OnceOK
  <2>2. j \in RowIds
    BY <1>4
  <2>3. PICK c : c = current.last /\ c' = c
    BY <1>2
  <2>4. c \in Keys
    BY <1>6, <2>0, <2>3 DEF PagingTyped, PageTyped, KeysOf
  <2>5. KeyOf(j) = [id |-> j, rank |-> rows[j].rank, created |-> rows[j].created, updated |-> rows[j].updated]
    BY <1>0, <2>0, <2>2, KeyIs
  <2>6. KeyOf(j)' = [id |-> j, rank |-> rows'[j].rank, created |-> rows'[j].created, updated |-> rows'[j].updated]
    BY <1>2, <2>0 DEF KeyOf, Numbered
  <2>7. /\ rows'[j].rank = rows[j].rank /\ rows'[j].created = rows[j].created
        /\ rows'[j].updated = rows[j].updated \/ (list = "sessions" /\ rows'[j].updated >= MaxTime)
    BY <1>1, <1>3, <2>0, <2>1, <2>2
  <2>8. KeyAtTop(j)' = KeyAtTop(j)
    BY <2>7 DEF KeyAtTop
  <2>9. PICK k : k = KeyOf(j)'
    OBVIOUS
  <2>10. ~Before(c, k)
    <3>1. CASE rows'[j].updated = rows[j].updated
      <4>1. k = KeyOf(j)
        BY <2>5, <2>6, <2>7, <2>9, <3>1
      <4> QED BY <2>1, <2>3, <4>1 DEF NotBeyond
    <3>2. CASE list = "sessions" /\ rows'[j].updated >= MaxTime
      <4>1. /\ c.updated <= MaxTime /\ MaxTime \in Nat /\ c.updated \in Nat
            /\ rows'[j].updated \in Nat
        <5>1. rows'[j] \in RowShape
          BY <1>0, <1>1, <1>3, <2>2 DEF RowsTyped
        <5> QED BY <2>1, <2>3, <2>4, <3>2, <5>1, PagingAssumption DEF Keys, RowShape
      <4>2. CASE rows'[j].updated = MaxTime
        <5>1. k = KeyAtTop(j)
          BY <2>6, <2>7, <2>9, <4>2 DEF KeyAtTop
        <5> QED BY <2>1, <2>3, <3>2, <5>1 DEF NotBeyond
      <4>3. CASE rows'[j].updated > MaxTime
        <5>1. k.updated > c.updated /\ k.updated \in Nat
          BY <2>6, <2>9, <4>1, <4>3
        <5>2. ~SessionBefore(c, k)
          BY <4>1, <5>1 DEF SessionBefore
        <5> QED BY <3>2, <5>2 DEF Before
      <4> QED BY <3>2, <4>1, <4>2, <4>3
    <3> QED BY <2>7, <3>1, <3>2
  <2>11. list = "sessions" => ~Before(c, KeyAtTop(j))
    BY <2>1, <2>3 DEF NotBeyond
  <2>12. ~Before(current.last, KeyOf(j))'
    BY <1>2, <2>3, <2>9, <2>10 DEF Before
  <2>13. (list = "sessions" => ~Before(current.last, KeyAtTop(j)))'
    BY <1>2, <2>3, <2>8, <2>11 DEF Before
  <2> QED BY <2>12, <2>13 DEF NotBeyond
<1> QED BY <1>2, <1>5, <1>6 DEF OnceOK, Steady

LEMMA OnceStep == ASSUME PagingTyped, OnceOK, [PagingNext]_pagingVars PROVE OnceOK'
<1>1. CASE FollowPrev
  <2>1. /\ AheadHas(current', InOrder(Preceding(ListedIds, current.first)))
        /\ walk' = <<>> /\ list' = list
    BY <1>1, PrevIs
  <2>2. current'.asked
    BY <2>1 DEF AheadHas, PageHas
  <2> QED BY <2>1, <2>2 DEF OnceOK
<1>2. CASE UNCHANGED pagingVars
  <2>1. UNCHANGED <<list, filter, rows, current, walk>>
    BY <1>2 DEF pagingVars
  <2>2. \A k, i : NotBeyond(k, i)' <=> NotBeyond(k, i)
    BY <2>1, RowsAsTheyWere DEF NotBeyond, Before, KeyAtTop, KeyOf
  <2> QED BY <2>1, <2>2 DEF OnceOK, Steady
<1> QED BY <1>1, <1>2, OnceOpen, OnceNext, OnceChange DEF PagingNext, RowChanges

-----------------------------------------------------------------------------
(* Pages are exact.                                                        *)

\* A page shows the list from place k to place l.
ShowsRows(p, all, k, l) ==
  /\ k <= l /\ p.items = SubSeq(all, k, l) /\ p.prev = (k > 1) /\ p.next = (l < Len(all))
  /\ (p.prev => p.first = KeyOf(all[k])) /\ (p.next => p.last = KeyOf(all[l]))
ShowsPiece(p, all) ==
  IF all = <<>> THEN p.items = <<>> /\ ~p.prev /\ ~p.next ELSE \E k, l \in 1..Len(all) : ShowsRows(p, all, k, l)

ExactOK ==
  list \in Numbered /\ current.asked /\ changes = 0 => ShowsPiece(current, InOrder(ListedIds))

LEMMA ExactGives == ExactOK => PagesAreExact
BY DEF ExactOK, PagesAreExact, ShowsPiece, ShowsRows, Exact, Numbered

LEMMA SameSeq ==
  ASSUME NEW S, NEW q \in Seq(S), NEW r \in Seq(S), Len(q) = Len(r), \A i \in 1..Len(q) : q[i] = r[i]
  PROVE  q = r
<1>1. PICK n \in Nat : n = Len(q)
  BY LenProperties
<1>2. q = [i \in 1..n |-> q[i]] /\ r = [i \in 1..n |-> r[i]]
  BY <1>1, SeqDef, LenProperties
<1> QED BY <1>1, <1>2

LEMMA ExactOpen == ASSUME PagingTyped, OpenList PROVE ExactOK'
<1>0. RowsTyped /\ size \in PageSizes
  BY DEF PagingTyped
<1>1. PICK p : p = current'
  OBVIOUS
<1>2. PICK ids : ids = ListedIds /\ ids \subseteq RowIds
  BY ListedAre
<1>3. AfterHas(p, InOrder(ids), FALSE) /\ UNCHANGED <<list, filter, rows>>
  BY <1>1, <1>2, OpenIs
<1>4. ASSUME list \in Numbered PROVE ShowsPiece(p, InOrder(ids))
  <2>1. PICK all \in Seq(RowIds), n \in Nat, m \in Nat : ShowsAfter(p, ids, FALSE, all, n, m)
    BY <1>0, <1>2, <1>3, <1>4, AfterIs
  <2>2. /\ all = InOrder(ids) /\ n = Len(all) /\ m <= n /\ (n > 0 => m > 0)
        /\ p.items \in Seq(RowIds) /\ Len(p.items) = m
        /\ \A i \in 1..m : p.items[i] = all[i]
        /\ (p.next <=> m < n) /\ ~p.prev
        /\ (p.next => m > 0 /\ p.last = KeyOf(all[m]))
    BY <2>1 DEF ShowsAfter
  <2>3. CASE n = 0
    <3>1. all = <<>> /\ p.items = <<>> /\ ~p.next
      <4>1. Len(all) = 0 /\ m = 0 /\ ~(m < n)
        BY <2>2, <2>3
      <4>2. Len(p.items) = 0
        BY <2>2, <4>1
      <4> QED BY <2>2, <4>1, <4>2, EmptySeq
    <3> QED BY <2>2, <3>1 DEF ShowsPiece
  <2>4. CASE n > 0
    <3>1. all # <<>> /\ m \in 1..n
      BY <2>2, <2>4, EmptySeq
    <3>2. PICK k \in Nat \ {0} : k = 1
      OBVIOUS
    <3>3. PICK q : q = SubSeq(all, k, m)
      OBVIOUS
    <3>4. InLine(ids, all)
      BY <1>0, <1>2, <2>2, InOrderIs
    <3>5. InLine({all[i] : i \in k..m}, q) /\ Len(q) = (IF k <= m THEN m - k + 1 ELSE 0) /\ \A i \in 1..Len(q) : q[i] = all[k + i - 1]
      BY <2>2, <3>2, <3>3, <3>4, PieceInLine
    <3>6. q \in Seq(RowIds) /\ Len(q) = m /\ \A i \in 1..m : q[i] = all[i]
      BY <3>1, <3>2, <3>5 DEF InLine
    <3>7. p.items = q
      BY <2>2, <3>6, SameSeq
    <3>8. p.prev = (k > 1) /\ p.next = (m < n)
      <4>1. p.prev \in BOOLEAN /\ p.next \in BOOLEAN
        BY <1>3 DEF AfterHas, PageHas
      <4> QED BY <2>2, <3>2, <4>1
    <3>9. ShowsRows(p, all, k, m)
      BY <2>2, <3>1, <3>2, <3>3, <3>7, <3>8 DEF ShowsRows
    <3>10. k \in 1..Len(all) /\ m \in 1..Len(all)
      BY <2>2, <3>1, <3>2
    <3> QED BY <2>2, <3>1, <3>9, <3>10 DEF ShowsPiece
  <2> QED BY <2>3, <2>4
<1>5. InOrder(ListedIds)' = InOrder(ids)
  <2>1. ListedIds' = ids /\ \A i, j : Before(KeyOf(i), KeyOf(j))' <=> Before(KeyOf(i), KeyOf(j))
    BY <1>2, <1>3, RowsAsTheyWere DEF Before
  <2> QED BY <2>1 DEF InOrder
<1>6. \A q, all, k, l : ShowsRows(q, all, k, l)' <=> ShowsRows(q, all, k, l)
  BY <1>3, RowsAsTheyWere DEF ShowsRows
<1>7. \A q, all : ShowsPiece(q, all)' <=> ShowsPiece(q, all)
  BY <1>6 DEF ShowsPiece
<1> QED BY <1>1, <1>3, <1>4, <1>5, <1>7 DEF ExactOK, ShowsPiece

\* A part of a part.
LEMMA PartOfPart ==
  ASSUME NEW ids, NEW all, InLine(ids, all), NEW n \in Nat, n = Len(all),
         NEW a \in 1..n, NEW b \in 1..n, NEW items \in Seq(RowIds), a <= b, Len(items) = b - a + 1,
         \A i \in 1..Len(items) : items[i] = all[a + i - 1]
  PROVE  items = SubSeq(all, a, b)
<1>1. PICK q : q = SubSeq(all, a, b)
  OBVIOUS
<1>2. /\ InLine({all[i] : i \in a..b}, q) /\ Len(q) = (IF a <= b THEN b - a + 1 ELSE 0)
      /\ \A i \in 1..Len(q) : q[i] = all[a + i - 1]
  <2>1. PICK c \in Nat \ {0}, d \in Nat : c = a /\ d = b /\ d <= Len(all)
    OBVIOUS
  <2>2. InLine({all[i] : i \in c..d}, SubSeq(all, c, d))
    BY <2>1, PieceInLine
  <2>3. Len(SubSeq(all, c, d)) = (IF c <= d THEN d - c + 1 ELSE 0)
    BY <2>1, PieceInLine
  <2>4. \A i \in 1..Len(SubSeq(all, c, d)) : SubSeq(all, c, d)[i] = all[c + i - 1]
    BY <2>1, PieceInLine
  <2>5. InLine({all[i] : i \in a..b}, q)
    BY <1>1, <2>1, <2>2
  <2>6. Len(q) = (IF a <= b THEN b - a + 1 ELSE 0)
    BY <1>1, <2>1, <2>3
  <2>7. \A i \in 1..Len(q) : q[i] = all[a + i - 1]
    BY <1>1, <2>1, <2>4
  <2> QED BY <2>5, <2>6, <2>7
<1>3. q \in Seq(RowIds) /\ Len(q) = Len(items)
  BY <1>2 DEF InLine
<1>4. \A i \in 1..Len(items) : items[i] = q[i]
  BY <1>2, <1>3
<1> QED BY <1>1, <1>3, <1>4, SameSeq

LEMMA SameList ==
  ASSUME UNCHANGED <<list, filter, rows>>
  PROVE  InOrder(ListedIds)' = InOrder(ListedIds) /\ \A q, all : ShowsPiece(q, all)' <=> ShowsPiece(q, all)
<1>1. InOrder(ListedIds)' = InOrder(ListedIds)
  <2>1. ListedIds' = ListedIds /\ \A i, j : Before(KeyOf(i), KeyOf(j))' <=> Before(KeyOf(i), KeyOf(j))
    BY RowsAsTheyWere DEF Before
  <2> QED BY <2>1 DEF InOrder
<1>2. \A q, all, k, l : ShowsRows(q, all, k, l)' <=> ShowsRows(q, all, k, l)
  BY RowsAsTheyWere DEF ShowsRows
<1> QED BY <1>1, <1>2 DEF ShowsPiece

LEMMA ExactNext == ASSUME PagingTyped, ExactOK, SeenOK, FollowNext PROVE ExactOK'
<1>0. RowsTyped /\ size \in PageSizes
  BY DEF PagingTyped
<1>1. PICK p : p = current'
  OBVIOUS
<1>2. PICK ids : ids = ListedIds /\ ids \subseteq RowIds
  BY ListedAre
<1>3. PICK set : set = Beyond(ids, current.last)
  OBVIOUS
<1>4. set \subseteq RowIds
  BY <1>2, <1>3 DEF Beyond
<1>5. AfterHas(p, InOrder(set), TRUE) /\ current.next /\ UNCHANGED <<list, filter, size, rows, changes>>
  BY <1>1, <1>2, <1>3, NextIs
<1>6. current.asked
  BY <1>5 DEF SeenOK
<1>7. ASSUME list \in Numbered, changes = 0 PROVE ShowsPiece(p, InOrder(ids))
  <2>1. PICK all : all = InOrder(ids) /\ InLine(ids, all)
    BY <1>0, <1>2, InOrderIs
  <2>2. ShowsPiece(current, all)
    BY <1>2, <1>6, <1>7, <2>1 DEF ExactOK
  <2>3. all # <<>>
    BY <1>5, <2>2 DEF ShowsPiece
  <2>4. PICK k \in 1..Len(all), l \in 1..Len(all) : ShowsRows(current, all, k, l)
    BY <2>2, <2>3 DEF ShowsPiece
  <2>5. PICK n \in Nat : n = Len(all)
    BY <2>1, LenProperties DEF InLine
  <2>6. l < n /\ current.last = KeyOf(all[l]) /\ l \in 1..n
    BY <1>5, <2>4, <2>5 DEF ShowsRows
  <2>7. PICK found \in Seq(RowIds), f \in Nat, m \in Nat : ShowsAfter(p, set, TRUE, found, f, m)
    BY <1>0, <1>4, <1>5, <1>7, AfterIs
  <2>8. /\ found = InOrder(set) /\ f = Len(found) /\ m <= f /\ (f > 0 => m > 0)
        /\ p.items \in Seq(RowIds) /\ Len(p.items) = m
        /\ \A i \in 1..m : p.items[i] = found[i]
        /\ (p.next <=> m < f) /\ (p.prev <=> f > 0)
        /\ (p.next => m > 0 /\ p.last = KeyOf(found[m]))
        /\ (p.prev => m > 0 /\ p.first = KeyOf(found[1]))
    BY <2>7 DEF ShowsAfter
  <2>9. PICK a \in Nat \ {0} : a = l + 1
    BY <2>6
  <2>10. found = SubSeq(all, a, n)
    <3>1. set = {i \in ids : Before(KeyOf(all[l]), KeyOf(i))}
      BY <1>3, <2>6 DEF Beyond
    <3>2. l \in 1..Len(all)
      BY <2>5, <2>6
    <3>3. InOrder({i \in ids : Before(KeyOf(all[l]), KeyOf(i))}) = SubSeq(all, l + 1, Len(all))
      <4>1. RowsTyped /\ ids \subseteq RowIds /\ InLine(ids, all)
        BY <1>0, <1>2, <2>1
      <4> QED BY <3>2, <4>1, RestOfLine
    <3>4. InOrder(set) = SubSeq(all, l + 1, Len(all))
      BY <3>1, <3>3
    <3> QED BY <2>5, <2>8, <2>9, <3>4
  <2>11. Len(found) = (IF a <= n THEN n - a + 1 ELSE 0) /\ \A i \in 1..Len(found) : found[i] = all[a + i - 1]
    BY <2>1, <2>5, <2>10, PieceInLine
  <2>12. f = n - l /\ f > 0 /\ m \in 1..f
    <3>1. Len(found) = n - l
      BY <2>6, <2>9, <2>11
    <3> QED BY <2>6, <2>8, <3>1
  <2>13. PICK b \in 1..n : b = l + m
    BY <2>6, <2>12
  <2>14. \A i \in 1..m : found[i] = all[a + i - 1]
    BY <2>8, <2>11, <2>12
  <2>15. p.items = SubSeq(all, a, b)
    <3>1. a \in 1..n /\ a <= b /\ Len(p.items) = b - a + 1
      BY <2>6, <2>8, <2>9, <2>12, <2>13
    <3>2. \A i \in 1..Len(p.items) : p.items[i] = all[a + i - 1]
      BY <2>8, <2>14
    <3> QED BY <2>1, <2>5, <2>8, <3>1, <3>2, PartOfPart
  <2>16. p.prev = (a > 1) /\ p.next = (b < n)
    <3>1. p.prev \in BOOLEAN /\ p.next \in BOOLEAN
      BY <1>5 DEF AfterHas, PageHas
    <3> QED BY <2>6, <2>8, <2>9, <2>12, <2>13, <3>1
  <2>17. found[1] = all[a] /\ found[m] = all[b]
    <3>1. 1 \in 1..m /\ m \in 1..m /\ a + 1 - 1 = a /\ a + m - 1 = b
      BY <2>9, <2>12, <2>13
    <3> QED BY <2>14, <3>1
  <2>18. ShowsRows(p, all, a, b)
    BY <2>5, <2>8, <2>9, <2>12, <2>13, <2>15, <2>16, <2>17 DEF ShowsRows
  <2>19. a \in 1..Len(all) /\ b \in 1..Len(all)
    BY <2>5, <2>6, <2>9, <2>13
  <2> QED BY <2>1, <2>3, <2>18, <2>19 DEF ShowsPiece
<1> QED BY <1>1, <1>2, <1>5, <1>7, SameList DEF ExactOK

LEMMA ExactPrev == ASSUME PagingTyped, ExactOK, SeenOK, FollowPrev PROVE ExactOK'
<1>0. RowsTyped /\ size \in PageSizes
  BY DEF PagingTyped
<1>1. PICK p : p = current'
  OBVIOUS
<1>2. PICK ids : ids = ListedIds /\ ids \subseteq RowIds
  BY ListedAre
<1>3. PICK set : set = Preceding(ids, current.first)
  OBVIOUS
<1>4. set \subseteq RowIds
  BY <1>2, <1>3 DEF Preceding
<1>5. AheadHas(p, InOrder(set)) /\ current.prev /\ UNCHANGED <<list, filter, size, rows, changes>>
  BY <1>1, <1>2, <1>3, PrevIs
<1>6. current.asked
  BY <1>5 DEF SeenOK
<1>7. ASSUME list \in Numbered, changes = 0 PROVE ShowsPiece(p, InOrder(ids))
  <2>1. PICK all : all = InOrder(ids) /\ InLine(ids, all)
    BY <1>0, <1>2, InOrderIs
  <2>2. ShowsPiece(current, all)
    BY <1>2, <1>6, <1>7, <2>1 DEF ExactOK
  <2>3. all # <<>>
    BY <1>5, <2>2 DEF ShowsPiece
  <2>4. PICK k \in 1..Len(all), l \in 1..Len(all) : ShowsRows(current, all, k, l)
    BY <2>2, <2>3 DEF ShowsPiece
  <2>5. PICK n \in Nat : n = Len(all)
    BY <2>1, LenProperties DEF InLine
  <2>6. k > 1 /\ current.first = KeyOf(all[k]) /\ k \in 1..n
    BY <1>5, <2>4, <2>5 DEF ShowsRows
  <2>7. PICK found : found = InOrder(set)
    OBVIOUS
  <2>8. found \in Seq(RowIds)
    BY <1>0, <1>4, <2>7, InOrderIs DEF InLine
  <2>9. PICK f, m \in Nat, g, h \in Seq(RowIds) : Portions(found, f, m, g, h)
    BY <1>0, <2>8, PiecesAreItems
  <2>10. /\ f = Len(found) /\ m <= f /\ (f > 0 => m > 0) /\ (f > size <=> m < f)
         /\ h = SubSeq(found, Len(found) - Fit(Len(found)) + 1, Len(found))
         /\ Len(h) = m /\ \A i \in 1..m : h[i] = found[f - m + i]
    BY <2>9 DEF Portions
  <2>a. PICK more : more = (f > size)
    OBVIOUS
  <2>b. more \in BOOLEAN /\ (more <=> m < f)
    <3>1. (f > size) \in BOOLEAN
      OBVIOUS
    <3>2. (f > size) <=> (m < f)
      BY <2>10
    <3> QED BY <2>a, <3>1, <3>2
  <2>11. PageHas(p, h, more, TRUE)
    BY <1>5, <2>7, <2>10, <2>a, Zenon DEF AheadHas
  <2>12. PICK b \in Nat : b = k - 1
    BY <2>6
  <2>13. PICK c \in Nat \ {0} : c = 1
    OBVIOUS
  <2>14. found = SubSeq(all, c, b)
    <3>1. set = {i \in ids : Before(KeyOf(i), KeyOf(all[k]))}
      BY <1>3, <2>6 DEF Preceding
    <3>2. k \in 1..Len(all)
      BY <2>5, <2>6
    <3>3. InOrder({i \in ids : Before(KeyOf(i), KeyOf(all[k]))}) = SubSeq(all, 1, k - 1)
      <4>1. RowsTyped /\ ids \subseteq RowIds /\ InLine(ids, all)
        BY <1>0, <1>2, <2>1
      <4> QED BY <3>2, <4>1, RestOfLine
    <3>4. InOrder(set) = SubSeq(all, 1, k - 1)
      BY <3>1, <3>3
    <3> QED BY <2>7, <2>12, <2>13, <3>4
  <2>15. Len(found) = (IF c <= b THEN b - c + 1 ELSE 0) /\ \A i \in 1..Len(found) : found[i] = all[c + i - 1]
    <3>1. b <= Len(all)
      BY <2>5, <2>6, <2>12
    <3> QED BY <2>1, <2>14, <3>1, PieceInLine
  <2>16. f = b /\ b \in 1..n /\ m \in 1..b /\ \A i \in 1..b : found[i] = all[i]
    BY <2>6, <2>10, <2>12, <2>13, <2>15
  <2>17. PICK a \in 1..n : a = b - m + 1 /\ a <= b
    BY <2>16
  <2>18. \A i \in 1..m : h[i] = all[a + i - 1]
    <3> SUFFICES ASSUME NEW i \in 1..m PROVE h[i] = all[a + i - 1]
      OBVIOUS
    <3>1. f - m + i = a + i - 1 /\ a + i - 1 \in 1..b
      BY <2>16, <2>17
    <3> QED BY <2>10, <2>16, <3>1
  <2>19. h = SubSeq(all, a, b)
    <3>1. Len(h) = b - a + 1
      BY <2>10, <2>17
    <3>2. \A i \in 1..Len(h) : h[i] = all[a + i - 1]
      BY <2>10, <2>18
    <3> QED BY <2>1, <2>5, <2>9, <2>16, <2>17, <3>1, <3>2, PartOfPart
  <2>20. h # <<>>
    <3>1. Len(h) # 0
      BY <2>10, <2>16
    <3> QED BY <3>1, EmptySeq
  <2>21. /\ p.items = h /\ p.prev = more /\ p.next = TRUE
         /\ (p.prev => p.first = CursorOf(h[1])) /\ p.last = CursorOf(h[Len(h)])
    <3>1. p.items = h /\ p.prev = (more /\ h # <<>>) /\ p.next = (TRUE /\ h # <<>>)
      BY <2>11, Zenon DEF PageHas
    <3>2. p.first = (IF p.prev THEN CursorOf(h[1]) ELSE NoKey) /\ p.last = (IF p.next THEN CursorOf(h[Len(h)]) ELSE NoKey)
      BY <2>11, Zenon DEF PageHas
    <3>3. p.prev = more /\ p.next = TRUE
      BY <2>b, <2>20, <3>1
    <3> QED BY <3>1, <3>2, <3>3
  <2>22. h[1] = all[a] /\ h[Len(h)] = all[b] /\ h[1] \in RowIds /\ h[Len(h)] \in RowIds
    <3>1. 1 \in 1..m /\ m \in 1..m /\ a + 1 - 1 = a /\ a + m - 1 = b
      BY <2>16, <2>17
    <3>2. h[1] = all[a + 1 - 1] /\ h[m] = all[a + m - 1] /\ h[1] \in RowIds /\ h[m] \in RowIds
      BY <2>9, <2>10, <2>18, <3>1, ElementOfSeq
    <3> QED BY <2>10, <3>1, <3>2
  <2>23. CursorOf(h[1]) = KeyOf(all[a]) /\ CursorOf(h[Len(h)]) = KeyOf(all[b])
    BY <1>0, <1>7, <2>22, KeyIs
  <2>24. p.prev = (a > 1) /\ p.next = (b < n)
    <3>1. (m < f) <=> (a > 1)
      BY <2>16, <2>17
    <3>2. b < n
      BY <2>6, <2>12
    <3>3. more = (a > 1)
      BY <2>b, <3>1
    <3>4. p.prev = (a > 1)
      BY <2>21, <3>3
    <3>5. p.next = (b < n)
      BY <2>21, <3>2
    <3> QED BY <3>4, <3>5
  <2>25. ShowsRows(p, all, a, b)
    BY <2>5, <2>17, <2>19, <2>21, <2>23, <2>24 DEF ShowsRows
  <2>26. a \in 1..Len(all) /\ b \in 1..Len(all)
    BY <2>5, <2>16, <2>17
  <2> QED BY <2>1, <2>3, <2>25, <2>26 DEF ShowsPiece
<1> QED BY <1>1, <1>2, <1>5, <1>7, SameList DEF ExactOK

\* A change to a row ends what the invariant says.
LEMMA ExactStep == ASSUME PagingTyped, SeenOK, ExactOK, [PagingNext]_pagingVars PROVE ExactOK'
<1>1. ASSUME NEW i \in RowIds, RowChanges(i) PROVE ExactOK'
  <2>1. PICK row : Change(i, row)
    BY <1>1, ChangeIs
  <2>2. changes \in Nat /\ changes' = changes + 1
    BY <2>1 DEF PagingTyped, Change
  <2> QED BY <2>2 DEF ExactOK
<1>2. CASE UNCHANGED pagingVars
  <2>1. UNCHANGED <<list, filter, rows, current, changes>>
    BY <1>2 DEF pagingVars
  <2> QED BY <2>1, SameList DEF ExactOK
<1> QED BY <1>1, <1>2, ExactOpen, ExactNext, ExactPrev DEF PagingNext, RowChanges

PagingHolds == PagingTyped /\ SeenOK /\ OnceOK /\ ExactOK

LEMMA PagingHoldsAlways == PagingSpec => []PagingHolds
<1>1. PagingInit => PagingHolds
  BY TypesBegin, SeenBegins, OnceBegins DEF PagingHolds, PagingInit, ExactOK, NoPage
<1>2. PagingHolds /\ [PagingNext]_pagingVars => PagingHolds'
  BY TypesStep, SeenStep, OnceStep, ExactStep DEF PagingHolds
<1> QED BY <1>1, <1>2, PTL DEF PagingSpec

\* Whatever is added, removed or moved between two of its pages, a walk through
\* a list by its cursors skips no row that was left alone and shows no session
\* or route twice; while nothing changes its pages are the pieces of the list.
\* (Of the lists whose cursors are numbers: the sessions, routes and deliveries.)
THEOREM ListsAreRight == PagingSpec => [](PagingTypeOK /\ PagesAreExact /\ NothingSkipped /\ NoRowTwice)
<1>1. PagingHolds => PagingTypeOK /\ PagesAreExact /\ NothingSkipped /\ NoRowTwice
  BY PagingTypes, ExactGives, SeenGives, OnceGives DEF PagingHolds
<1> QED BY <1>1, PagingHoldsAlways, PTL

-----------------------------------------------------------------------------
(* The tree of runs.                                                       *)

TreeOK ==
  /\ status \in [RunIds -> Statuses] /\ status[1] # "none"
  /\ parent = [r \in RunIds |-> parent[r]]
  /\ \A r \in RunIds :
       /\ parent[r] \in 0..(r - 1)
       /\ parent[r] # 0 => r \in ExistingRuns /\ parent[r] \in ExistingRuns
       /\ r \in ExistingRuns /\ r # 1 => parent[r] # 0
       /\ r \in ExistingRuns => \A q \in RunIds : q < r => q \in ExistingRuns

\* A function on 1..n that is given for some, and for the others by what it
\* gives for an earlier one.
UpTo(f, k, p, B, b, e) == f = [r \in 1..k |-> IF r \in B \/ p[r] = 0 THEN b[r] ELSE e[<<r, f[p[r]]>>]]

LEMMA GrowsByOne ==
  ASSUME NEW j \in Nat, NEW p, \A r \in 1..(j + 1) : p[r] \in 0..(r - 1), NEW B, NEW b, NEW e,
         NEW f, UpTo(f, j, p, B, b, e)
  PROVE  \E g : UpTo(g, j + 1, p, B, b, e)
<1>1. PICK k \in Nat \ {0} : k = j + 1
  OBVIOUS
<1>2. PICK last : last = IF k \in B \/ p[k] = 0 THEN b[k] ELSE e[<<k, f[p[k]]>>]
  OBVIOUS
<1>3. PICK g : g = [r \in 1..k |-> IF r = k THEN last ELSE f[r]]
  OBVIOUS
<1>4. \A r \in 1..k : p[r] # 0 => p[r] \in 1..j /\ p[r] # k /\ p[r] \in 1..k
  BY <1>1
<1>5. \A r \in 1..k : p[r] # 0 => g[p[r]] = f[p[r]]
  BY <1>3, <1>4
<1>6. ASSUME NEW r \in 1..k PROVE g[r] = IF r \in B \/ p[r] = 0 THEN b[r] ELSE e[<<r, g[p[r]]>>]
  <2>1. CASE r = k
    BY <1>2, <1>3, <1>5, <2>1
  <2>2. CASE r # k
    <3>1. r \in 1..j
      BY <1>1, <2>2
    <3>2. f[r] = IF r \in B \/ p[r] = 0 THEN b[r] ELSE e[<<r, f[p[r]]>>]
      BY <3>1 DEF UpTo
    <3>3. g[r] = f[r]
      BY <1>3, <2>2
    <3> QED BY <1>5, <3>2, <3>3
  <2> QED BY <2>1, <2>2
<1>7. g = [r \in 1..k |-> IF r \in B \/ p[r] = 0 THEN b[r] ELSE e[<<r, g[p[r]]>>]]
  BY <1>3, <1>6, Zenon
<1> QED BY <1>1, <1>7 DEF UpTo

LEMMA RecursionExists ==
  ASSUME NEW n \in Nat, NEW p, \A r \in 1..n : p[r] \in 0..(r - 1), NEW B, NEW b, NEW e
  PROVE  \E f : UpTo(f, n, p, B, b, e)
<1> SUFFICES ASSUME ~\E f : UpTo(f, n, p, B, b, e) PROVE FALSE
  OBVIOUS
<1>1. PICK S : S = {k \in 0..n : ~\E f : UpTo(f, k, p, B, b, e)}
  OBVIOUS
<1>2. n \in S /\ S \subseteq Nat
  BY <1>1
<1>3. PICK k \in S : \A j \in S : k <= j
  BY <1>2, LeastIs
<1>4. k \in 0..n /\ ~\E f : UpTo(f, k, p, B, b, e)
  BY <1>1, <1>3
<1>5. k # 0
  <2>1. \E f : f = [r \in 1..0 |-> {}]
    OBVIOUS
  <2>2. PICK f : f = [r \in 1..0 |-> {}]
    BY <2>1
  <2>3. f = [r \in 1..0 |-> IF r \in B \/ p[r] = 0 THEN b[r] ELSE e[<<r, f[p[r]]>>]]
    BY <2>2
  <2> QED BY <1>4, <2>3 DEF UpTo
<1>6. PICK j \in Nat : j = k - 1
  BY <1>4, <1>5
<1>7. j \in 0..n /\ ~(k <= j) /\ j + 1 = k
  BY <1>4, <1>6
<1>8. PICK f : UpTo(f, j, p, B, b, e)
  BY <1>1, <1>3, <1>7
<1>9. \A r \in 1..(j + 1) : p[r] \in 0..(r - 1)
  BY <1>4, <1>7
<1> QED BY <1>4, <1>7, <1>8, <1>9, GrowsByOne

\* What goes down from a run to its parent holds of every run.
LEMMA FromTheRoot ==
  ASSUME TreeOK, NEW S, 1 \in S, \A r \in ExistingRuns : parent[r] \in S => r \in S
  PROVE  ExistingRuns \subseteq S
<1> SUFFICES ASSUME NEW r \in ExistingRuns, r \notin S PROVE FALSE
  OBVIOUS
<1>1. PICK out : out = {d \in ExistingRuns : d \notin S}
  OBVIOUS
<1>2. out \subseteq Nat /\ out # {}
  BY <1>1 DEF ExistingRuns, RunIds
<1>3. PICK least \in out : \A d \in out : least <= d
  BY <1>2, LeastIs
<1>4. least \in ExistingRuns /\ least \notin S /\ least # 1 /\ least \in RunIds
  BY <1>1, <1>3 DEF ExistingRuns
<1>5. parent[least] \in ExistingRuns /\ parent[least] \in Int /\ least \in Int /\ parent[least] < least
  BY <1>4, RunViewsAssumption DEF TreeOK, RunIds
<1>6. parent[least] \in out
  BY <1>1, <1>4, <1>5
<1>7. least <= parent[least]
  BY <1>3, <1>6
<1> QED BY <1>5, <1>7

LEMMA RootIsThere == TreeOK => 1 \in ExistingRuns /\ 1 \in RunIds /\ parent[1] = 0
BY RunViewsAssumption DEF TreeOK, ExistingRuns, RunIds

LEMMA NodesAre == TreeOK => Nodes = ExistingRuns
<1> SUFFICES ASSUME TreeOK PROVE Nodes = ExistingRuns
  OBVIOUS
<1>0. ExistingRuns \subseteq RunIds /\ 1 \in ExistingRuns
  BY RootIsThere DEF ExistingRuns
<1>1. ASSUME NEW d \in Nodes PROVE d \in ExistingRuns
  <2>1. \A s \in SUBSET RunIds : 1 \in s /\ (\A c \in RunIds : parent[c] \in s => c \in s) => d \in s
    BY <1>1 DEF Nodes, Lineage
  <2>2. \A c \in RunIds : parent[c] \in ExistingRuns => c \in ExistingRuns
    <3>1. 0 \notin ExistingRuns
      BY DEF ExistingRuns, RunIds
    <3> QED BY <3>1 DEF TreeOK
  <2> QED BY <1>0, <2>1, <2>2
<1>2. ASSUME NEW s \in SUBSET RunIds, 1 \in s, \A c \in RunIds : parent[c] \in s => c \in s
      PROVE  ExistingRuns \subseteq s
  BY <1>0, <1>2, FromTheRoot
<1>3. ASSUME NEW d \in ExistingRuns PROVE d \in Nodes
  BY <1>0, <1>2, <1>3 DEF Nodes, Lineage
<1> QED BY <1>1, <1>3


\* The two recursive functions are what their definitions say.
LEMMA PathIs == TreeOK => PathFrom = [r \in RunIds |-> IF r = 1 \/ parent[r] = 0 THEN <<r>> ELSE Append(PathFrom[parent[r]], r)]
<1> SUFFICES ASSUME TreeOK PROVE PathFrom = [r \in RunIds |-> IF r = 1 \/ parent[r] = 0 THEN <<r>> ELSE Append(PathFrom[parent[r]], r)]
  OBVIOUS
<1>1. PICK p : p = parent
  OBVIOUS
<1>2. PICK n \in Nat : n = MaxRuns /\ RunIds = 1..n
  BY RunViewsAssumption DEF RunIds
<1>3. \A r \in 1..n : p[r] \in 0..(r - 1)
  BY <1>1, <1>2 DEF TreeOK
<1>4. PICK B : B = {1}
  OBVIOUS
<1>5. PICK b : b = [r \in Nat |-> <<r>>]
  OBVIOUS
<1>6. PICK e : e = [x \in Nat \X Seq(Nat) |-> Append(x[2], x[1])]
  OBVIOUS
<1>7. PICK f : UpTo(f, n, p, B, b, e)
  BY <1>3, RecursionExists
<1>8. \A r \in 1..n : f[r] = IF r \in B \/ p[r] = 0 THEN b[r] ELSE e[<<r, f[p[r]]>>]
  BY <1>7 DEF UpTo
<1>9. \A r \in 1..n : f[r] \in Seq(Nat)
  <2> SUFFICES ASSUME NEW r \in 1..n, f[r] \notin Seq(Nat) PROVE FALSE
    OBVIOUS
  <2>1. PICK S : S = {d \in 1..n : f[d] \notin Seq(Nat)}
    OBVIOUS
  <2>2. S \subseteq Nat /\ S # {}
    BY <2>1
  <2>3. PICK l \in S : \A d \in S : l <= d
    BY <2>2, LeastIs
  <2>4. l \in 1..n /\ f[l] \notin Seq(Nat)
    BY <2>1, <2>3
  <2>5. CASE l = 1 \/ p[l] = 0
    <3>a. l \in B \/ p[l] = 0
      BY <1>4, <2>5
    <3>b. f[l] = b[l]
      BY <1>8, <2>4, <3>a
    <3>0. f[l] = b[l] /\ l \in Nat
      BY <2>4, <3>b
    <3>1. f[l] = <<l>> /\ l \in Nat
      BY <1>5, <3>0
    <3>2. <<l>> \in Seq(Nat)
      BY <3>1
    <3> QED BY <2>4, <3>1, <3>2
  <2>6. CASE ~(l = 1 \/ p[l] = 0)
    <3>1. p[l] \in 1..n /\ ~(l <= p[l])
      BY <1>3, <2>4, <2>6
    <3>2. f[p[l]] \in Seq(Nat)
      BY <2>1, <2>3, <3>1
    <3>3. PICK q \in Seq(Nat) : q = f[p[l]]
      BY <3>2
    <3>4. f[l] = e[<<l, q>>]
      BY <1>4, <1>8, <2>4, <2>6, <3>3
    <3>5. e[<<l, q>>] = Append(q, l) /\ l \in Nat
      BY <1>6, <2>4, <3>3
    <3>6. Append(q, l) \in Seq(Nat)
      BY <3>3, <3>5, AppendProperties
    <3> QED BY <2>4, <3>4, <3>5, <3>6
  <2> QED BY <2>5, <2>6
<1>10. ASSUME NEW r \in 1..n PROVE f[r] = IF r = 1 \/ p[r] = 0 THEN <<r>> ELSE Append(f[p[r]], r)
  <2>1. CASE r = 1 \/ p[r] = 0
    <3>a. r \in B \/ p[r] = 0
      BY <1>4, <2>1
    <3>b. f[r] = b[r]
      BY <1>8, <3>a
    <3>1. f[r] = b[r] /\ r \in Nat
      BY <3>b
    <3>2. b[r] = <<r>>
      BY <1>5, <3>1
    <3> QED BY <2>1, <3>1, <3>2
  <2>2. CASE ~(r = 1 \/ p[r] = 0)
    <3>1. p[r] \in 1..n
      BY <1>3, <2>2
    <3>2. PICK q \in Seq(Nat) : q = f[p[r]]
      BY <1>9, <3>1
    <3>3. f[r] = e[<<r, q>>]
      BY <1>4, <1>8, <2>2, <3>2
    <3>4. e[<<r, q>>] = Append(q, r)
      BY <1>6, <3>2
    <3> QED BY <2>2, <3>2, <3>3, <3>4
  <2> QED BY <2>1, <2>2
<1>11. f = [r \in 1..n |-> f[r]]
  BY <1>7 DEF UpTo
<1>12. f = [r \in 1..n |-> IF r = 1 \/ p[r] = 0 THEN <<r>> ELSE Append(f[p[r]], r)]
  BY <1>10, <1>11, Zenon
<1>13. \E g : g = [r \in RunIds |-> IF r = 1 \/ parent[r] = 0 THEN <<r>> ELSE Append(g[parent[r]], r)]
  BY <1>1, <1>2, <1>12
<1>14. PathFrom = CHOOSE g : g = [r \in RunIds |-> IF r = 1 \/ parent[r] = 0 THEN <<r>> ELSE Append(g[parent[r]], r)]
  BY Zenon DEF PathFrom
<1> QED BY <1>13, <1>14, Zenon

LEMMA BranchIs ==
  TreeOK => graphBranchRootID = [r \in RunIds |-> IF r = 1 \/ parent[r] \in {0, 1} THEN r ELSE graphBranchRootID[parent[r]]]
<1> SUFFICES ASSUME TreeOK PROVE graphBranchRootID = [r \in RunIds |-> IF r = 1 \/ parent[r] \in {0, 1} THEN r ELSE graphBranchRootID[parent[r]]]
  OBVIOUS
<1>1. PICK p : p = parent
  OBVIOUS
<1>2. PICK n \in Nat : n = MaxRuns /\ RunIds = 1..n
  BY RunViewsAssumption DEF RunIds
<1>3. \A r \in 1..n : p[r] \in 0..(r - 1)
  BY <1>1, <1>2 DEF TreeOK
<1>4. PICK B : B = {r \in 1..n : r = 1 \/ p[r] = 1}
  OBVIOUS
<1>5. PICK b : b = [r \in 1..n |-> r]
  OBVIOUS
<1>6. PICK e : e = [x \in Nat \X Nat |-> x[2]]
  OBVIOUS
<1>7. PICK f : UpTo(f, n, p, B, b, e)
  BY <1>3, RecursionExists
<1>8. \A r \in 1..n : f[r] = IF r \in B \/ p[r] = 0 THEN b[r] ELSE e[<<r, f[p[r]]>>]
  BY <1>7 DEF UpTo
<1>9. \A r \in 1..n : f[r] \in Nat
  <2> SUFFICES ASSUME NEW r \in 1..n, f[r] \notin Nat PROVE FALSE
    OBVIOUS
  <2>1. PICK S : S = {d \in 1..n : f[d] \notin Nat}
    OBVIOUS
  <2>2. S \subseteq Nat /\ S # {}
    BY <2>1
  <2>3. PICK l \in S : \A d \in S : l <= d
    BY <2>2, LeastIs
  <2>4. l \in 1..n /\ f[l] \notin Nat
    BY <2>1, <2>3
  <2>5. CASE l \in B \/ p[l] = 0
    <3>1. f[l] = b[l]
      BY <1>8, <2>4, <2>5
    <3>2. b[l] = l /\ l \in Nat
      BY <1>5, <2>4
    <3> QED BY <2>4, <3>1, <3>2
  <2>6. CASE ~(l \in B \/ p[l] = 0)
    <3>1. p[l] \in 1..n /\ ~(l <= p[l])
      BY <1>3, <2>4, <2>6
    <3>2. f[p[l]] \in Nat
      BY <2>1, <2>3, <3>1
    <3>3. PICK q \in Nat : q = f[p[l]]
      BY <3>2
    <3>4. f[l] = e[<<l, q>>]
      BY <1>8, <2>4, <2>6, <3>3
    <3>5. e[<<l, q>>] = q
      BY <1>6, <2>4, <3>3
    <3> QED BY <2>4, <3>3, <3>4, <3>5
  <2> QED BY <2>5, <2>6
<1>10. ASSUME NEW r \in 1..n PROVE f[r] = IF r = 1 \/ p[r] \in {0, 1} THEN r ELSE f[p[r]]
  <2>1. CASE r = 1 \/ p[r] \in {0, 1}
    BY <1>4, <1>5, <1>8, <2>1
  <2>2. CASE ~(r = 1 \/ p[r] \in {0, 1})
    <3>1. p[r] \in 1..n /\ r \notin B /\ p[r] # 0
      BY <1>3, <1>4, <2>2
    <3>2. PICK q \in Nat : q = f[p[r]]
      BY <1>9, <3>1
    <3>3. f[r] = e[<<r, q>>]
      BY <1>8, <3>1, <3>2
    <3>4. e[<<r, q>>] = q
      BY <1>6, <3>2
    <3> QED BY <2>2, <3>2, <3>3, <3>4
  <2> QED BY <2>1, <2>2
<1>11. f = [r \in 1..n |-> f[r]]
  BY <1>7 DEF UpTo
<1>12. f = [r \in 1..n |-> IF r = 1 \/ p[r] \in {0, 1} THEN r ELSE f[p[r]]]
  BY <1>10, <1>11, Zenon
<1>13. \E g : g = [r \in RunIds |-> IF r = 1 \/ parent[r] \in {0, 1} THEN r ELSE g[parent[r]]]
  BY <1>1, <1>2, <1>12
<1>14. graphBranchRootID = CHOOSE g : g = [r \in RunIds |-> IF r = 1 \/ parent[r] \in {0, 1} THEN r ELSE g[parent[r]]]
  BY Zenon DEF graphBranchRootID
<1> QED BY <1>13, <1>14, Zenon


\* The way from the root to a run.
WayTo(path, n, r) ==
  /\ path \in Seq(RunIds) /\ Len(path) = n /\ n > 0 /\ path[1] = 1 /\ path[n] = r
  /\ \A k \in 1..n : path[k] \in ExistingRuns
  /\ \A k \in 2..n : parent[path[k]] = path[k - 1]
BranchOf(path, n, r) == (r = 1 => n = 1) /\ (r # 1 => n > 1 /\ path[2] = graphBranchRootID[r])
PathOK(path, r) == \E n \in Nat : WayTo(path, n, r) /\ BranchOf(path, n, r)

LEMMA PathGrows ==
  ASSUME TreeOK, NEW r \in ExistingRuns, NEW p \in ExistingRuns, p = parent[r],
         NEW q, PathOK(q, p), NEW s, s = Append(q, r)
  PROVE  PathOK(s, r)
<1>1. PICK m \in Nat : WayTo(q, m, p) /\ BranchOf(q, m, p)
  BY DEF PathOK
<1>2. r \in RunIds /\ p \in RunIds /\ r # 1 /\ p # 0 /\ p \in Nat
  <2>1. r \in RunIds /\ p \in RunIds /\ p # 0 /\ p \in Nat
    BY DEF ExistingRuns, RunIds
  <2>2. r # 1
    BY <2>1, RootIsThere
  <2> QED BY <2>1, <2>2
<1>3. PICK n \in Nat : n = m + 1
  OBVIOUS
<1>4. q \in Seq(RunIds) /\ Len(q) = m /\ m > 0 /\ q[1] = 1 /\ q[m] = p
  BY <1>1 DEF WayTo
<1>5. s \in Seq(RunIds) /\ Len(s) = n /\ s[n] = r /\ \A k \in 1..m : s[k] = q[k]
  <2>1. s \in Seq(RunIds) /\ Len(s) = Len(q) + 1 /\ s[Len(q) + 1] = r /\ \A k \in 1..Len(q) : s[k] = q[k]
    BY <1>2, <1>4, AppendProperties
  <2> QED BY <1>3, <1>4, <2>1
<1>6. 1 \in 1..m /\ m \in 1..m /\ s[1] = 1 /\ s[m] = p
  <2>1. 1 \in 1..m /\ m \in 1..m
    BY <1>4
  <2> QED BY <1>4, <1>5, <2>1
<1>7. \A k \in 1..n : s[k] \in ExistingRuns
  <2> SUFFICES ASSUME NEW k \in 1..n PROVE s[k] \in ExistingRuns
    OBVIOUS
  <2>1. k = n \/ k \in 1..m
    BY <1>3
  <2> QED BY <1>1, <1>5, <2>1 DEF WayTo
<1>8. \A k \in 2..n : parent[s[k]] = s[k - 1]
  <2> SUFFICES ASSUME NEW k \in 2..n PROVE parent[s[k]] = s[k - 1]
    OBVIOUS
  <2>1. CASE k = n
    <3>1. k - 1 = m
      BY <1>3, <2>1
    <3> QED BY <1>5, <1>6, <2>1, <3>1
  <2>2. CASE k # n
    <3>1. k \in 2..m /\ k \in 1..m /\ k - 1 \in 1..m
      BY <1>3, <2>2
    <3>2. parent[q[k]] = q[k - 1]
      BY <1>1, <3>1 DEF WayTo
    <3> QED BY <1>5, <3>1, <3>2
  <2> QED BY <2>1, <2>2
<1>9. WayTo(s, n, r)
  BY <1>3, <1>5, <1>6, <1>7, <1>8 DEF WayTo
<1>10. graphBranchRootID[r] = IF r = 1 \/ parent[r] \in {0, 1} THEN r ELSE graphBranchRootID[parent[r]]
  BY <1>2, BranchIs
<1>11. s[2] = graphBranchRootID[r] /\ n > 1
  <2>1. CASE p = 1
    <3>1. m = 1 /\ n = 2
      BY <1>1, <1>3, <2>1 DEF BranchOf
    <3>2. graphBranchRootID[r] = r
      BY <1>10, <2>1
    <3> QED BY <1>5, <3>1, <3>2
  <2>2. CASE p # 1
    <3>1. m > 1 /\ q[2] = graphBranchRootID[p]
      BY <1>1, <2>2 DEF BranchOf
    <3>2. graphBranchRootID[r] = graphBranchRootID[p]
      BY <1>2, <1>10, <2>2
    <3>3. 2 \in 1..m /\ n > 1
      BY <1>3, <3>1
    <3> QED BY <1>5, <3>1, <3>2, <3>3
  <2> QED BY <2>1, <2>2
<1> QED BY <1>2, <1>9, <1>11 DEF PathOK, BranchOf

LEMMA PathsAreWays == ASSUME TreeOK PROVE \A r \in ExistingRuns : PathOK(PathFrom[r], r)
<1>1. PICK S : S = {r \in ExistingRuns : PathOK(PathFrom[r], r)}
  OBVIOUS
<1>2. 1 \in ExistingRuns /\ 1 \in RunIds /\ parent[1] = 0
  BY RootIsThere
<1>3. PathOK(PathFrom[1], 1)
  <2>1. PathFrom[1] = <<1>>
    BY <1>2, PathIs
  <2>2. PICK s : s = <<1>>
    OBVIOUS
  <2>3. s \in Seq(RunIds) /\ Len(s) = 1 /\ s[1] = 1
    BY <1>2, <2>2
  <2>4. WayTo(s, 1, 1)
    BY <1>2, <2>3 DEF WayTo
  <2>5. PathOK(s, 1)
    BY <2>4 DEF PathOK, BranchOf
  <2> QED BY <2>1, <2>2, <2>5
<1>4. ASSUME NEW r \in ExistingRuns, parent[r] \in S PROVE r \in S
  <2>1. PICK p \in ExistingRuns : p = parent[r] /\ PathOK(PathFrom[p], p)
    BY <1>1, <1>4
  <2>2. r \in RunIds /\ p # 0 /\ r # 1
    <3>1. r \in RunIds /\ p \in RunIds
      BY DEF ExistingRuns
    <3>2. p # 0
      BY <3>1 DEF RunIds
    <3> QED BY <1>2, <2>1, <3>1, <3>2
  <2>3. PathFrom[r] = Append(PathFrom[p], r)
    BY <2>1, <2>2, PathIs
  <2>4. PathOK(PathFrom[r], r)
    BY <2>1, <2>3, PathGrows
  <2> QED BY <1>1, <2>4
<1>5. 1 \in S
  BY <1>1, <1>2, <1>3
<1>6. ExistingRuns \subseteq S
  BY <1>4, <1>5, FromTheRoot
<1> QED BY <1>1, <1>6

LEMMA WayEnds ==
  ASSUME NEW path, NEW r, PathOK(path, r)
  PROVE  /\ Head(path) = 1 /\ Last(path) = r /\ r \in ExistingRuns
         /\ \A k \in 2..Len(path) : parent[path[k]] = path[k - 1]
         /\ path \in Seq(RunIds)
<1>1. PICK n \in Nat : WayTo(path, n, r)
  BY DEF PathOK
<1>2. path \in Seq(RunIds) /\ Len(path) = n /\ n > 0 /\ path[1] = 1 /\ path[n] = r
  BY <1>1 DEF WayTo
<1>3. n \in 1..n
  BY <1>2
<1> QED BY <1>1, <1>2, <1>3 DEF WayTo, Last


-----------------------------------------------------------------------------
(* The graph of the runs.                                                  *)

DelegationEdge(r) == <<parent[r], r, graphDelegationEdge(r)>>
ReportEdge(r) == <<r, parent[r], "reports">>
EdgesOf(r) == {e \in GraphEdges : r \in {e[1], e[2]} /\ parent[r] \in {e[1], e[2]}}

LEMMA TwoEdges ==
  ASSUME TreeOK, NEW r \in ExistingRuns, r # 1
  PROVE  EdgesOf(r) = IF status[r] \in SettledStatuses THEN {DelegationEdge(r), ReportEdge(r)} ELSE {DelegationEdge(r)}
<1>1. Nodes = ExistingRuns /\ r \in RunIds
  BY NodesAre DEF ExistingRuns
<1>2. \A q \in ExistingRuns \ {1} : parent[q] \in Int /\ q \in Int /\ parent[q] < q
  BY RunViewsAssumption DEF TreeOK, ExistingRuns, RunIds
<1>3. \A q \in ExistingRuns \ {1} : r \in {parent[q], q} /\ parent[r] \in {parent[q], q} => q = r
  <2> SUFFICES ASSUME NEW q \in ExistingRuns \ {1}, r \in {parent[q], q}, parent[r] \in {parent[q], q}, q # r
               PROVE  FALSE
    OBVIOUS
  <2>1. r = parent[q]
    OBVIOUS
  <2>2. parent[r] < r /\ parent[q] < q /\ r \in Int /\ q \in Int /\ parent[r] \in Int
    BY <1>2
  <2>3. parent[r] = parent[q] \/ parent[r] = q
    OBVIOUS
  <2> QED BY <2>1, <2>2, <2>3
<1>4. GraphEdges = {DelegationEdge(q) : q \in ExistingRuns \ {1}}
                     \cup {ReportEdge(q) : q \in {q \in ExistingRuns \ {1} : status[q] \in SettledStatuses}}
  BY <1>1 DEF GraphEdges, DelegationEdge, ReportEdge
<1>5. ASSUME NEW e \in EdgesOf(r) PROVE e = DelegationEdge(r) \/ (e = ReportEdge(r) /\ status[r] \in SettledStatuses)
  <2>1. e \in GraphEdges /\ r \in {e[1], e[2]} /\ parent[r] \in {e[1], e[2]}
    BY <1>5 DEF EdgesOf
  <2>2. CASE e \in {DelegationEdge(q) : q \in ExistingRuns \ {1}}
    <3>1. PICK q \in ExistingRuns \ {1} : e = DelegationEdge(q)
      BY <2>2
    <3>2. e[1] = parent[q] /\ e[2] = q
      BY <3>1 DEF DelegationEdge
    <3>3. r \in {parent[q], q} /\ parent[r] \in {parent[q], q}
      BY <2>1, <3>2
    <3>4. q = r
      BY <1>3, <3>3
    <3> QED BY <3>1, <3>4
  <2>3. CASE e \notin {DelegationEdge(q) : q \in ExistingRuns \ {1}}
    <3>1. PICK q \in ExistingRuns \ {1} : e = ReportEdge(q) /\ status[q] \in SettledStatuses
      BY <1>4, <2>1, <2>3
    <3>2. e[1] = q /\ e[2] = parent[q]
      BY <3>1 DEF ReportEdge
    <3>3. r \in {parent[q], q} /\ parent[r] \in {parent[q], q}
      BY <2>1, <3>2
    <3>4. q = r
      BY <1>3, <3>3
    <3> QED BY <3>1, <3>4
  <2> QED BY <2>2, <2>3
<1>6. DelegationEdge(r) \in EdgesOf(r)
  <2>1. DelegationEdge(r) \in GraphEdges
    BY <1>4
  <2>2. DelegationEdge(r)[1] = parent[r] /\ DelegationEdge(r)[2] = r
    BY DEF DelegationEdge
  <2> QED BY <2>1, <2>2 DEF EdgesOf
<1>7. status[r] \in SettledStatuses => ReportEdge(r) \in EdgesOf(r)
  <2> SUFFICES ASSUME status[r] \in SettledStatuses PROVE ReportEdge(r) \in EdgesOf(r)
    OBVIOUS
  <2>1. ReportEdge(r) \in GraphEdges
    BY <1>4
  <2>2. ReportEdge(r)[1] = r /\ ReportEdge(r)[2] = parent[r]
    BY DEF ReportEdge
  <2> QED BY <2>1, <2>2 DEF EdgesOf
<1> QED BY <1>5, <1>6, <1>7

LEMMA EdgesCounted ==
  ASSUME TreeOK, NEW r \in ExistingRuns, r # 1
  PROVE  Cardinality(EdgesOf(r)) = IF status[r] \in SettledStatuses THEN 2 ELSE 1
<1>1. PICK x, y : x = DelegationEdge(r) /\ y = ReportEdge(r)
  OBVIOUS
<1>2. parent[r] # r
  BY RunViewsAssumption DEF TreeOK, ExistingRuns, RunIds
<1>3. x # y
  BY <1>1, <1>2 DEF DelegationEdge, ReportEdge
<1>4. IsFiniteSet({x}) /\ Cardinality({x}) = 1
  BY FS_Singleton
<1>5. Cardinality({x} \cup {y}) = 2
  BY <1>3, <1>4, FS_AddElement
<1>6. {x, y} = {x} \cup {y}
  OBVIOUS
<1> QED BY <1>1, <1>4, <1>5, <1>6, TwoEdges

LEMMA GraphNow ==
  ASSUME TreeOK
  PROVE  /\ Nodes = ExistingRuns
         /\ \A b \in Branches : \A r \in BranchNodes(b) : b.root = IF r = 1 THEN 1 ELSE PathFrom[r][2]
         /\ \A r \in ExistingRuns \ {1} :
              Cardinality({e \in GraphEdges : r \in {e[1], e[2]} /\ parent[r] \in {e[1], e[2]}})
                = IF status[r] \in SettledStatuses THEN 2 ELSE 1
<1>1. Nodes = ExistingRuns
  BY NodesAre
<1>2. ASSUME NEW b \in Branches, NEW r \in BranchNodes(b) PROVE b.root = IF r = 1 THEN 1 ELSE PathFrom[r][2]
  <2>1. r \in ExistingRuns /\ b.root = graphBranchRootID[r]
    BY <1>1, <1>2 DEF BranchNodes
  <2>2. CASE r = 1
    BY <2>1, <2>2, RootIsThere, BranchIs
  <2>3. CASE r # 1
    BY <2>1, <2>3, PathsAreWays DEF PathOK, BranchOf
  <2> QED BY <2>2, <2>3
<1>3. ASSUME NEW r \in ExistingRuns \ {1} PROVE Cardinality(EdgesOf(r)) = IF status[r] \in SettledStatuses THEN 2 ELSE 1
  BY EdgesCounted
<1> QED BY <1>1, <1>2, <1>3 DEF EdgesOf


-----------------------------------------------------------------------------
(* What is pressing.                                                       *)

Pressing == <<"needs_approval", "failed", "interrupted", "active", "pending">>
FoundBelow == {i \in DOMAIN Pressing : \E d \in Descendants(1) : status[d] = Pressing[i]}

LEMMA QueueIs == QueueStatus(1) = IF FoundBelow = {} THEN status[1] ELSE Pressing[Min(FoundBelow)]
BY Zenon DEF QueueStatus, FoundBelow, Pressing

LEMMA PressingIs ==
  /\ DOMAIN Pressing = 1..5 /\ FoundBelow \subseteq 1..5
  /\ Pressing[1] = "needs_approval" /\ Pressing[2] = "failed" /\ Pressing[3] = "interrupted"
  /\ Pressing[4] = "active" /\ Pressing[5] = "pending"
<1>1. DOMAIN Pressing = 1..5
  BY DEF Pressing
<1>2. FoundBelow \subseteq 1..5
  BY <1>1 DEF FoundBelow
<1> QED BY <1>1, <1>2 DEF Pressing

LEMMA BelowTheRoot == TreeOK => Descendants(1) = ExistingRuns \ {1}
BY NodesAre DEF Descendants, Nodes

LEMMA LeastFound ==
  ASSUME FoundBelow # {}
  PROVE  Min(FoundBelow) \in FoundBelow /\ \A i \in FoundBelow : Min(FoundBelow) <= i
<1>1. FoundBelow \subseteq Nat
  BY PressingIs
<1>2. PICK i \in FoundBelow : \A j \in FoundBelow : i <= j
  BY <1>1, LeastIs
<1>3. FoundBelow \subseteq Int /\ i \in FoundBelow
  BY <1>1, <1>2
<1>4. Min(FoundBelow) = i
  BY <1>2, <1>3, MinIs
<1> QED BY <1>2, <1>4

LEMMA QueueNow ==
  ASSUME TreeOK
  PROVE  /\ \A r \in ExistingRuns \ {1} : status[r] = "needs_approval" => QueueStatus(1) = "needs_approval"
         /\ QueueStatus(1) = "completed" => \A r \in ExistingRuns : status[r] \notin BusyStatuses
<1>1. ASSUME NEW r \in ExistingRuns \ {1}, status[r] = "needs_approval" PROVE QueueStatus(1) = "needs_approval"
  <2>1. 1 \in FoundBelow
    BY <1>1, BelowTheRoot, PressingIs DEF FoundBelow
  <2>2. \A i \in FoundBelow : i \in 1..5 /\ (i <= 1 => i = 1)
    BY PressingIs
  <2>3. Min(FoundBelow) = 1
    BY <2>1, <2>2, LeastFound
  <2> QED BY <2>1, <2>3, QueueIs, PressingIs
<1>2. ASSUME QueueStatus(1) = "completed", NEW r \in ExistingRuns PROVE status[r] \notin BusyStatuses
  <2>1. FoundBelow = {}
    <3> SUFFICES ASSUME FoundBelow # {} PROVE FALSE
      OBVIOUS
    <3>1. Min(FoundBelow) \in 1..5
      BY LeastFound, PressingIs
    <3>2. Min(FoundBelow) \in {1, 2, 3, 4, 5}
      BY <3>1
    <3>3. Pressing[Min(FoundBelow)] # "completed"
      BY <3>2, PressingIs
    <3> QED BY <1>2, <3>3, QueueIs
  <2>2. status[1] = "completed"
    BY <1>2, <2>1, QueueIs
  <2>3. CASE r = 1
    BY <2>2, <2>3 DEF BusyStatuses
  <2>4. CASE r # 1
    <3>1. r \in Descendants(1)
      BY <2>4, BelowTheRoot
    <3>2. \A i \in 1..5 : status[r] # Pressing[i]
      BY <2>1, <3>1, PressingIs DEF FoundBelow
    <3>3. 1 \in 1..5 /\ 4 \in 1..5 /\ 5 \in 1..5
      OBVIOUS
    <3> QED BY <3>2, <3>3, PressingIs DEF BusyStatuses
  <2> QED BY <2>3, <2>4
<1> QED BY <1>1, <1>2

\* The active path.
SnapshotLess ==
  {d \in Nodes \X Nodes : Depth(d[1]) < Depth(d[2]) \/ (Depth(d[1]) = Depth(d[2]) /\ d[1] < d[2])}

LEMMA SnapshotHasAll ==
  ASSUME TreeOK
  PROVE  \E n \in Nat : /\ DOMAIN SnapshotOrder = 1..n
                        /\ \A k \in 1..n : SnapshotOrder[k] \in ExistingRuns
                        /\ \A r \in ExistingRuns : \E k \in 1..n : SnapshotOrder[k] = r
<1>1. PICK S : S = Nodes /\ S = ExistingRuns
  BY NodesAre
<1>2. IsFiniteSet(S)
  <2>1. IsFiniteSet(1..MaxRuns)
    BY RunViewsAssumption, FS_Interval
  <2>2. S \in SUBSET (1..MaxRuns)
    BY <1>1 DEF ExistingRuns, RunIds
  <2> QED BY <2>1, <2>2, FS_Subset
<1>3. \A r \in S : Depth(r) \in Nat /\ r \in Nat
  <2>1. \A r \in S : r \in Nat
    BY <1>1 DEF ExistingRuns, RunIds
  <2>2. ASSUME NEW r \in S PROVE Depth(r) \in Nat
    <3>1. PICK n \in Nat : WayTo(PathFrom[r], n, r)
      BY <1>1, PathsAreWays DEF PathOK
    <3> QED BY <3>1 DEF WayTo, Depth
  <2> QED BY <2>1, <2>2
<1>4. PICK R : R = SnapshotLess
  OBVIOUS
<1>5. \A d, e \in S : <<d, e>> \in R <=> Depth(d) < Depth(e) \/ (Depth(d) = Depth(e) /\ d < e)
  BY <1>1, <1>4 DEF SnapshotLess
<1>6. LinearOn(S, R)
  <2>1. \A d, e \in S : d # e => <<d, e>> \in R \/ <<e, d>> \in R
    BY <1>3, <1>5
  <2>2. \A d \in S : <<d, d>> \notin R
    BY <1>3, <1>5
  <2>3. ASSUME NEW d \in S, NEW e \in S, NEW f \in S, <<d, e>> \in R, <<e, f>> \in R PROVE <<d, f>> \in R
    <3>1. Depth(d) \in Nat /\ Depth(e) \in Nat /\ Depth(f) \in Nat /\ d \in Nat /\ e \in Nat /\ f \in Nat
      BY <1>3
    <3>2. Depth(d) < Depth(e) \/ (Depth(d) = Depth(e) /\ d < e)
      BY <1>5, <2>3
    <3>3. Depth(e) < Depth(f) \/ (Depth(e) = Depth(f) /\ e < f)
      BY <1>5, <2>3
    <3>4. Depth(d) < Depth(f) \/ (Depth(d) = Depth(f) /\ d < f)
      BY <3>1, <3>2, <3>3
    <3> QED BY <1>5, <3>4
  <2> QED BY <2>1, <2>2, <2>3 DEF LinearOn
<1>7. PICK t : t = SortedBy(S, R) /\ t = SnapshotOrder
  BY <1>1, <1>4 DEF SnapshotOrder, SnapshotLess
<1>8. PICK n \in Nat : n = Cardinality(S)
  BY <1>2, FS_CardinalityType
<1>9. t \in [1..n -> S] /\ \A e \in S : \E i \in 1..n : t[i] = e
  <2>1. /\ SortedBy(S, R) \in [1..Cardinality(S) -> S]
        /\ \A e \in S : \E i \in 1..Cardinality(S) : SortedBy(S, R)[i] = e
    BY <1>2, <1>6, SortedByIsSorted
  <2> QED BY <1>7, <1>8, <2>1
<1> QED BY <1>1, <1>7, <1>9

LEMMA MostPressing ==
  ASSUME TreeOK
  PROVE  \E r \in ExistingRuns :
           /\ ActivePath = PathFrom[r]
           /\ \A d \in ExistingRuns : graphStatusPriority(status[d]) <= graphStatusPriority(status[r])
<1>1. PICK ps : ps = {graphStatusPriority(status[r]) : r \in Nodes}
  OBVIOUS
<1>2. ps = {graphStatusPriority(status[r]) : r \in ExistingRuns} /\ ps # {} /\ \A p \in ps : p \in 0..6
  <2>1. Nodes = ExistingRuns /\ 1 \in ExistingRuns
    BY NodesAre, RootIsThere
  <2>2. \A s : graphStatusPriority(s) \in 0..6
    BY DEF graphStatusPriority
  <2> QED BY <1>1, <2>1, <2>2
<1>3. PICK best \in ps : \A p \in ps : best >= p
  <2>1. PICK S : S = {k \in 0..6 : \A p \in ps : k >= p}
    OBVIOUS
  <2>2. 6 \in S /\ S \subseteq Nat
    BY <1>2, <2>1
  <2>3. PICK k \in S : \A j \in S : k <= j
    BY <2>2, LeastIs
  <2>4. k \in 0..6 /\ \A p \in ps : k >= p
    BY <2>1, <2>3
  <2>5. k \in ps
    <3> SUFFICES ASSUME k \notin ps PROVE FALSE
      OBVIOUS
    <3>1. PICK p \in ps : p \in 0..6
      BY <1>2
    <3>2. k # 0
      BY <2>4, <3>1
    <3>3. PICK j \in 0..6 : j = k - 1
      BY <2>4, <3>2
    <3>4. \A q \in ps : j >= q
      BY <1>2, <2>4, <3>3
    <3>5. k <= j
      BY <2>1, <2>3, <3>4
    <3> QED BY <2>4, <3>3, <3>5
  <2> QED BY <2>4, <2>5
<1>4. Max(ps) = best
  <2>1. \A x \in ps : (\A y \in ps : x >= y) => x = best
    BY <1>2, <1>3
  <2> QED BY <1>3, <2>1 DEF Max
<1>5. PICK n \in Nat : /\ DOMAIN SnapshotOrder = 1..n
                       /\ \A k \in 1..n : SnapshotOrder[k] \in ExistingRuns
                       /\ \A r \in ExistingRuns : \E k \in 1..n : SnapshotOrder[k] = r
  BY SnapshotHasAll
<1>6. PICK places : places = {k \in DOMAIN SnapshotOrder : graphStatusPriority(status[SnapshotOrder[k]]) = best}
  OBVIOUS
<1>7. places # {} /\ places \subseteq Nat /\ places \subseteq 1..n
  <2>1. PICK r \in ExistingRuns : graphStatusPriority(status[r]) = best
    BY <1>2, <1>3
  <2> QED BY <1>5, <1>6, <2>1
<1>8. PICK k \in places : \A j \in places : k <= j
  BY <1>7, LeastIs
<1>9. Min(places) = k
  <2>1. places \subseteq Int /\ k \in places
    BY <1>7, <1>8
  <2> QED BY <1>8, <2>1, MinIs
<1>10. PICK r \in ExistingRuns : r = SnapshotOrder[k] /\ graphStatusPriority(status[r]) = best
  BY <1>5, <1>6, <1>7, <1>8
<1>11. ActivePath = PathFrom[SnapshotOrder[Min(places)]]
  BY <1>1, <1>4, <1>6, Zenon DEF ActivePath
<1>12. \A d \in ExistingRuns : graphStatusPriority(status[d]) <= best
  BY <1>2, <1>3
<1> QED BY <1>9, <1>10, <1>11, <1>12

LEMMA ActiveNow ==
  ASSUME TreeOK
  PROVE  /\ (\E r \in ExistingRuns : status[r] = "needs_approval") => status[Last(ActivePath)] = "needs_approval"
         /\ \A k \in 2..Len(ActivePath) : parent[ActivePath[k]] = ActivePath[k - 1]
<1>1. PICK t \in ExistingRuns :
           /\ ActivePath = PathFrom[t]
           /\ \A d \in ExistingRuns : graphStatusPriority(status[d]) <= graphStatusPriority(status[t])
  BY MostPressing
<1>2. PathOK(ActivePath, t)
  BY <1>1, PathsAreWays
<1>3. Last(ActivePath) = t /\ \A k \in 2..Len(ActivePath) : parent[ActivePath[k]] = ActivePath[k - 1]
  BY <1>2, WayEnds
<1>4. ASSUME NEW r \in ExistingRuns, status[r] = "needs_approval" PROVE status[t] = "needs_approval"
  <2>1. graphStatusPriority(status[r]) = 6
    BY <1>4 DEF graphStatusPriority
  <2>2. 6 <= graphStatusPriority(status[t])
    BY <1>1, <2>1
  <2> QED BY <2>2 DEF graphStatusPriority
<1> QED BY <1>3, <1>4


-----------------------------------------------------------------------------
(* The steps of the runs and of the pages.                                 *)

TicketsOK ==
  /\ tickets \in [RunIds -> Seq({"pending", "resolved"})]
  /\ \A r \in RunIds : Len(tickets[r]) <= MaxTickets

ChildRow == [id : RunIds, status : Statuses]
ReadingOf(r, path) == \E n \in Nat : WayTo(path, n, r)
ViewOK ==
  /\ view.pc \in {"none", "roots", "cluster", "read", "record", "node"}
  /\ view.pc = "cluster" => view.children \in Seq(ChildRow)
  /\ view.pc \in {"read", "record", "node"} => ReadingOf(view.run, view.path)

ViewsHold == TreeOK /\ TicketsOK /\ ViewOK

LEMMA ViewsBegin == RunViewsInit => ViewsHold
<1> SUFFICES ASSUME RunViewsInit PROVE ViewsHold
  OBVIOUS
<1>1. ExistingRuns = {1} /\ 1 \in RunIds
  BY RunViewsAssumption DEF RunViewsInit, ExistingRuns, RunIds
<1>2. status \in [RunIds -> Statuses] /\ status[1] # "none" /\ \A r \in RunIds : parent[r] = 0
  BY <1>1 DEF RunViewsInit, Statuses, BusyStatuses
<1>3. TreeOK
  <2>1. \A r \in RunIds : 0 \in 0..(r - 1) /\ r \in Nat /\ r >= 1
    BY RunViewsAssumption DEF RunIds
  <2>2. parent = [r \in RunIds |-> parent[r]]
    BY DEF RunViewsInit
  <2>3. \A q \in RunIds : ~(q < 1)
    BY <2>1
  <2>4. \A r \in ExistingRuns : \A q \in RunIds : q < r => q \in ExistingRuns
    BY <1>1, <2>3
  <2> QED BY <1>1, <1>2, <2>1, <2>2, <2>4 DEF TreeOK
<1>4. TicketsOK
  <2>1. <<>> \in Seq({"pending", "resolved"}) /\ Len(<<>>) = 0 /\ 0 <= MaxTickets
    BY RunViewsAssumption
  <2> QED BY <2>1 DEF RunViewsInit, TicketsOK
<1>5. ViewOK
  BY DEF RunViewsInit, ViewOK, NoView
<1> QED BY <1>3, <1>4, <1>5 DEF ViewsHold

\* The runs stay, and stay where they are.
WaysStay == \A r \in ExistingRuns : r \in ExistingRuns' /\ parent'[r] = parent[r]

LEMMA WayStays ==
  ASSUME WaysStay, NEW r, NEW path, ReadingOf(r, path)
  PROVE  ReadingOf(r, path)'
<1>1. PICK n \in Nat : WayTo(path, n, r)
  BY DEF ReadingOf
<1>2. path \in Seq(RunIds) /\ Len(path) = n /\ n > 0 /\ path[1] = 1 /\ path[n] = r
  BY <1>1 DEF WayTo
<1>3. \A k \in 1..n : path[k] \in ExistingRuns /\ path[k] \in ExistingRuns' /\ parent'[path[k]] = parent[path[k]]
  BY <1>1 DEF WayTo, WaysStay
<1>4. \A k \in 2..n : k \in 1..n /\ parent[path[k]] = path[k - 1]
  BY <1>1 DEF WayTo
<1>5. \A k \in 2..n : parent'[path[k]] = path[k - 1]
  BY <1>3, <1>4
<1>6. WayTo(path, n, r)'
  BY <1>2, <1>3, <1>5 DEF WayTo
<1> QED BY <1>6 DEF ReadingOf

\* A step of the runs that leaves the page alone.
LEMMA ViewStays == ASSUME ViewOK, WaysStay, view' = view PROVE ViewOK'
<1>1. PICK v : v = view
  OBVIOUS
<1>2. v.pc \in {"read", "record", "node"} => ReadingOf(v.run, v.path)'
  BY <1>1, WayStays DEF ViewOK
<1> QED BY <1>1, <1>2 DEF ViewOK, ChildRow

LEMMA MoveIs ==
  ASSUME TreeOK, NEW r \in RunIds, NEW from, NEW to \in Statuses \ {"none"}, "none" \notin from,
         Move(r, from, to), parent' = parent
  PROVE  TreeOK' /\ WaysStay
<1>1. r \in ExistingRuns /\ status' = [status EXCEPT ![r] = to]
  BY DEF Move, ExistingRuns
<1>2. status' \in [RunIds -> Statuses] /\ \A d \in RunIds : d # r => status'[d] = status[d]
  BY <1>1 DEF TreeOK
<1>3. status'[r] = to /\ to # "none"
  BY <1>1 DEF TreeOK
<1>4. ExistingRuns' = ExistingRuns
  BY <1>1, <1>2, <1>3 DEF ExistingRuns
<1>5. status'[1] # "none"
  BY <1>2, <1>3, RootIsThere DEF TreeOK
<1>6. TreeOK'
  BY <1>2, <1>4, <1>5 DEF TreeOK
<1> QED BY <1>4, <1>6 DEF WaysStay

LEMMA SpawnedIs ==
  ASSUME TreeOK, NEW p \in RunIds, NEW r \in RunIds, Spawned(p, r)
  PROVE  TreeOK' /\ WaysStay
<1>1. /\ p \in ExistingRuns /\ r \notin ExistingRuns /\ \A q \in RunIds : q < r => q \in ExistingRuns
      /\ parent' = [parent EXCEPT ![r] = p] /\ status' = [status EXCEPT ![r] = "pending"]
  BY DEF Spawned
<1>2. p \in Nat /\ r \in Nat /\ p # 0 /\ p \in 0..(r - 1) /\ r # 1
  <2>1. p \in Nat /\ r \in Nat /\ p # 0
    BY RunViewsAssumption DEF RunIds
  <2>2. ~(r < p) /\ r # p
    BY <1>1 DEF TreeOK
  <2> QED BY <1>1, <2>1, <2>2, RootIsThere
<1>3. status' \in [RunIds -> Statuses] /\ status'[r] = "pending" /\ \A d \in RunIds : d # r => status'[d] = status[d]
  BY <1>1 DEF TreeOK, Statuses, BusyStatuses
<1>4. ExistingRuns' = ExistingRuns \cup {r}
  BY <1>3 DEF ExistingRuns
<1>5. parent' = [d \in RunIds |-> parent'[d]] /\ parent'[r] = p /\ \A d \in RunIds : d # r => parent'[d] = parent[d]
  <2>1. parent = [d \in RunIds |-> parent[d]]
    BY DEF TreeOK
  <2> QED BY <1>1, <2>1
<1>6. status'[1] # "none"
  BY <1>2, <1>3, RootIsThere DEF TreeOK
<1>7. ASSUME NEW d \in RunIds
      PROVE  /\ parent'[d] \in 0..(d - 1)
             /\ parent'[d] # 0 => d \in ExistingRuns' /\ parent'[d] \in ExistingRuns'
             /\ d \in ExistingRuns' /\ d # 1 => parent'[d] # 0
             /\ d \in ExistingRuns' => \A q \in RunIds : q < d => q \in ExistingRuns'
  <2>1. CASE d = r
    BY <1>1, <1>2, <1>4, <1>5, <2>1
  <2>2. CASE d # r
    BY <1>4, <1>5, <2>2 DEF TreeOK
  <2> QED BY <2>1, <2>2
<1>8. TreeOK'
  BY <1>3, <1>5, <1>6, <1>7 DEF TreeOK
<1> QED BY <1>1, <1>4, <1>5, <1>8 DEF WaysStay, ExistingRuns

LEMMA AskedTickets == ASSUME TicketsOK, NEW r \in RunIds, Asked(r) PROVE TicketsOK'
<1>1. Len(tickets[r]) < MaxTickets /\ tickets' = [tickets EXCEPT ![r] = Append(@, "pending")]
  BY DEF Asked
<1>2. PICK q \in Seq({"pending", "resolved"}) : q = tickets[r]
  BY DEF TicketsOK
<1>3. Append(q, "pending") \in Seq({"pending", "resolved"}) /\ Len(Append(q, "pending")) = Len(q) + 1
  BY <1>2, AppendProperties
<1>4. Len(q) \in Nat /\ MaxTickets \in Nat
  BY <1>2, LenProperties, RunViewsAssumption
<1>5. Len(Append(q, "pending")) <= MaxTickets
  BY <1>1, <1>2, <1>3, <1>4
<1>6. tickets' = [tickets EXCEPT ![r] = Append(q, "pending")]
  BY <1>1, <1>2
<1> QED BY <1>3, <1>5, <1>6 DEF TicketsOK

LEMMA AnsweredTickets == ASSUME TicketsOK, NEW r \in RunIds, Answered(r) PROVE TicketsOK'
<1>1. PICK q \in Seq({"pending", "resolved"}) : q = tickets[r]
  BY DEF TicketsOK
<1>2. PICK n \in Nat : n = Len(q) /\ DOMAIN q = 1..n
  BY LenProperties
<1>3. PICK s : s = [k \in 1..n |-> "resolved"]
  OBVIOUS
<1>4. s \in Seq({"pending", "resolved"}) /\ Len(s) = n
  <2>1. s \in [1..n -> {"pending", "resolved"}]
    BY <1>3
  <2>2. s \in Seq({"pending", "resolved"}) /\ DOMAIN s = 1..n
    BY <1>2, <2>1, SeqDef
  <2> QED BY <1>2, <2>2, LenProperties
<1>5. tickets' = [tickets EXCEPT ![r] = s]
  BY <1>1, <1>2, <1>3 DEF Answered
<1> QED BY <1>1, <1>2, <1>4, <1>5 DEF TicketsOK

LEMMA RunsGoOn ==
  ASSUME ViewsHold, NEW r \in RunIds,
         Asked(r) \/ Answered(r) \/ Proceeded(r) \/ dismissRun(r) \/ \E p \in RunIds : Spawned(p, r)
  PROVE  ViewsHold'
<1>0. TreeOK /\ TicketsOK /\ ViewOK
  BY DEF ViewsHold
<1>1. view' = view
  BY DEF Asked, Answered, Proceeded, dismissRun, Spawned
<1>2. {"needs_approval", "active", "completed", "failed", "interrupted", "dismissed"} \subseteq Statuses \ {"none"}
  BY DEF Statuses, BusyStatuses, SettledStatuses
<1>3. TreeOK' /\ WaysStay
  <2>1. CASE Asked(r)
    BY <1>0, <1>2, <2>1, MoveIs DEF Asked
  <2>2. CASE Answered(r)
    BY <1>0, <1>2, <2>2, MoveIs DEF Answered
  <2>3. CASE Proceeded(r)
    BY <1>0, <1>2, <2>3, MoveIs DEF Proceeded
  <2>4. CASE dismissRun(r)
    BY <1>0, <1>2, <2>4, MoveIs DEF dismissRun
  <2>5. CASE \E p \in RunIds : Spawned(p, r)
    BY <1>0, <2>5, SpawnedIs
  <2> QED BY <2>1, <2>2, <2>3, <2>4, <2>5
<1>4. TicketsOK'
  <2>1. CASE tickets' = tickets
    BY <1>0, <2>1 DEF TicketsOK
  <2> QED BY <1>0, <2>1, AskedTickets, AnsweredTickets DEF Proceeded, dismissRun, Spawned
<1> QED BY <1>0, <1>1, <1>3, <1>4, ViewStays DEF ViewsHold


LEMMA AgesAre ==
  ASSUME NEW S, S \subseteq RunIds, NEW t, t = ByAge(S)
  PROVE  \E n \in Nat : t \in [1..n -> S]
<1>1. IsFiniteSet(S)
  <2>1. IsFiniteSet(1..MaxRuns)
    BY RunViewsAssumption, FS_Interval
  <2>2. S \in SUBSET (1..MaxRuns)
    BY DEF RunIds
  <2> QED BY <2>1, <2>2, FS_Subset
<1>2. PICK R : R = {d \in S \X S : d[1] < d[2]}
  OBVIOUS
<1>3. S \subseteq Nat /\ \A d, e \in S : <<d, e>> \in R <=> d < e
  BY <1>2 DEF RunIds
<1>4. LinearOn(S, R)
  BY <1>3 DEF LinearOn
<1>5. Cardinality(S) \in Nat /\ SortedBy(S, R) \in [1..Cardinality(S) -> S]
  BY <1>1, <1>4, SortedByIsSorted
<1>6. t = SortedBy(S, R)
  BY <1>2 DEF ByAge
<1> QED BY <1>5, <1>6

LEMMA ChildrenAre == ASSUME TreeOK PROVE loadRunDescendants(1) \in Seq(ChildRow)
<1>1. PICK S : S = Descendants(1) /\ S \subseteq ExistingRuns /\ S \subseteq RunIds
  BY BelowTheRoot DEF ExistingRuns
<1>2. PICK t : t = ByAge(S)
  OBVIOUS
<1>3. PICK n \in Nat : t \in [1..n -> S]
  BY <1>1, <1>2, AgesAre
<1>4. PICK c : c = [k \in 1..n |-> [id |-> t[k], status |-> status[t[k]]]]
  OBVIOUS
<1>5. \A k \in 1..n : t[k] \in RunIds /\ status[t[k]] \in Statuses
  BY <1>1, <1>3 DEF TreeOK
<1>6. \A k \in 1..n : [id |-> t[k], status |-> status[t[k]]] \in ChildRow
  BY <1>5 DEF ChildRow
<1>7. c \in [1..n -> ChildRow]
  BY <1>4, <1>6
<1>8. c \in Seq(ChildRow)
  BY <1>7, SeqDef
<1>9. DOMAIN t = 1..n
  BY <1>3
<1>10. loadRunDescendants(1) = c
  BY <1>1, <1>2, <1>4, <1>9 DEF loadRunDescendants
<1> QED BY <1>8, <1>10

LEMMA PagesGoOn ==
  ASSUME ViewsHold, (\E r \in RunIds : OpenNode(r)) \/ QueryRoots \/ ShowCluster \/ ReadRecord \/ ShowNode \/ ClosePage
  PROVE  ViewsHold'
<1>0. TreeOK /\ TicketsOK /\ ViewOK
  BY DEF ViewsHold
<1>1. UNCHANGED <<parent, status, tickets>>
  BY DEF OpenNode, QueryRoots, ShowCluster, ReadRecord, ShowNode, ClosePage, runVars
<1>2. TreeOK' /\ WaysStay /\ TicketsOK'
  BY <1>0, <1>1 DEF TreeOK, TicketsOK, WaysStay, ExistingRuns
<1>3. ASSUME NEW r \in RunIds, OpenNode(r) PROVE ViewOK'
  <2>1. PICK path : path = PathFrom[r]
    OBVIOUS
  <2>2. r \in ExistingRuns /\ view'.pc = "read" /\ view'.run = r /\ view'.path = path
    BY <1>0, <1>3, <2>1, NodesAre DEF OpenNode
  <2>3. ReadingOf(r, path)
    BY <1>0, <2>1, <2>2, PathsAreWays DEF PathOK, ReadingOf
  <2>4. ReadingOf(r, path)'
    BY <1>2, <2>3, WayStays
  <2> QED BY <2>2, <2>4 DEF ViewOK
<1>4. ASSUME QueryRoots PROVE ViewOK'
  <2>1. view'.pc = "roots"
    BY <1>4 DEF QueryRoots
  <2> QED BY <2>1 DEF ViewOK
<1>5. ASSUME ShowCluster PROVE ViewOK'
  <2>1. view'.pc = "cluster" /\ view'.children = loadRunDescendants(1)
    BY <1>5 DEF ShowCluster
  <2>2. view'.children \in Seq(ChildRow)
    BY <1>0, <2>1, ChildrenAre
  <2> QED BY <2>1, <2>2 DEF ViewOK, ChildRow
<1>6. ASSUME ReadRecord \/ ShowNode PROVE ViewOK'
  <2>1. PICK r, path : r = view.run /\ path = view.path
    OBVIOUS
  <2>2. view.pc \in {"read", "record"} /\ view'.pc \in {"record", "node"} /\ view'.run = r /\ view'.path = path
    BY <1>6, <2>1 DEF ReadRecord, ShowNode
  <2>3. ReadingOf(r, path)
    BY <1>0, <2>1, <2>2 DEF ViewOK
  <2>4. ReadingOf(r, path)'
    BY <1>2, <2>3, WayStays
  <2> QED BY <2>2, <2>4 DEF ViewOK
<1>7. ASSUME ClosePage PROVE ViewOK'
  <2>1. view'.pc = "none"
    BY <1>7 DEF ClosePage, NoView
  <2> QED BY <2>1 DEF ViewOK
<1> QED BY <1>2, <1>3, <1>4, <1>5, <1>6, <1>7 DEF ViewsHold

LEMMA ViewsStep == ASSUME ViewsHold, [RunViewsNext]_runViewsVars PROVE ViewsHold'
<1>1. CASE UNCHANGED runViewsVars
  <2>1. UNCHANGED <<parent, status, tickets, view>>
    BY <1>1 DEF runViewsVars
  <2>2. TreeOK' /\ WaysStay /\ TicketsOK'
    BY <2>1 DEF ViewsHold, TreeOK, TicketsOK, WaysStay, ExistingRuns
  <2> QED BY <2>1, <2>2, ViewStays DEF ViewsHold
<1> QED BY <1>1, RunsGoOn, PagesGoOn DEF RunViewsNext

LEMMA ViewsHoldAlways == RunViewsSpec => []ViewsHold
<1> QED BY ViewsBegin, ViewsStep, PTL DEF RunViewsSpec

\* What a cluster counts.
LEMMA Counted ==
  ASSUME NEW n \in Nat, NEW places, places \subseteq 1..n
  PROVE  Cardinality(places) \in Nat /\ (places # {} => Cardinality(places) > 0)
<1>1. IsFiniteSet(1..n) /\ places \in SUBSET (1..n)
  BY FS_Interval
<1>2. IsFiniteSet(places)
  BY <1>1, FS_Subset
<1>3. PICK c \in Nat : c = Cardinality(places)
  BY <1>2, FS_CardinalityType
<1>4. Cardinality(places) = 0 <=> places = {}
  BY <1>2, FS_EmptySet
<1>5. ASSUME places # {} PROVE c > 0
  <2>1. c # 0
    BY <1>3, <1>4, <1>5, Zenon
  <2> QED BY <2>1
<1> QED BY <1>3, <1>5

CountsAll(counted, n, below) ==
  DOMAIN counted = 1..n /\ \A k \in DOMAIN below : \E j \in 1..n : counted[j] = below[k].status

LEMMA RootAndRows ==
  ASSUME NEW root, NEW below \in Seq(ChildRow),
         NEW counted, counted = <<root>> \o [k \in DOMAIN below |-> below[k].status]
  PROVE  \E n \in Nat : CountsAll(counted, n, below)
<1>1. PICK m \in Nat : m = Len(below) /\ DOMAIN below = 1..m
  BY LenProperties
<1>2. PICK T : T = Statuses \cup {root}
  OBVIOUS
<1>3. PICK statuses : statuses = [k \in 1..m |-> below[k].status]
  OBVIOUS
<1>4. statuses \in Seq(T) /\ Len(statuses) = m
  <2>1. \A k \in 1..m : below[k] \in ChildRow
    BY <1>1, ElementOfSeq
  <2>2. \A k \in 1..m : below[k].status \in T
    BY <1>2, <2>1 DEF ChildRow
  <2>3. statuses \in [1..m -> T]
    BY <1>3, <2>2
  <2>4. statuses \in Seq(T)
    BY <1>1, <2>3, SeqDef, SMTT(30)
  <2>5. DOMAIN statuses = 1..m
    BY <1>3
  <2> QED BY <1>1, <2>4, <2>5, LenProperties
<1>5. PICK head : head = <<root>>
  OBVIOUS
<1>6. head \in Seq(T) /\ Len(head) = 1
  BY <1>2, <1>5
<1>7. counted = head \o statuses
  BY <1>1, <1>3, <1>5
<1>8. /\ counted \in Seq(T) /\ Len(counted) = 1 + m
      /\ \A i \in 1..(1 + m) : counted[i] = IF i <= 1 THEN head[i] ELSE statuses[i - 1]
  <2>1. /\ head \o statuses \in Seq(T) /\ Len(head \o statuses) = Len(head) + Len(statuses)
        /\ \A i \in 1..(Len(head) + Len(statuses)) :
             (head \o statuses)[i] = IF i <= Len(head) THEN head[i] ELSE statuses[i - Len(head)]
    BY <1>4, <1>6, ConcatProperties
  <2> QED BY <1>4, <1>6, <1>7, <2>1
<1>9. PICK n \in Nat : n = 1 + m
  BY <1>1
<1>10. DOMAIN counted = 1..n
  BY <1>8, <1>9, LenProperties
<1>11. ASSUME NEW k \in 1..m PROVE \E j \in 1..n : counted[j] = below[k].status
  <2>1. PICK j \in 1..n : j = k + 1
    BY <1>9
  <2>2. ~(j <= 1) /\ j - 1 = k /\ j \in 1..(1 + m)
    BY <1>9, <2>1
  <2>3. counted[j] = statuses[k]
    BY <1>8, <2>2
  <2> QED BY <1>3, <2>3
<1> QED BY <1>1, <1>10, <1>11 DEF CountsAll

LEMMA RecoveryCounted ==
  ASSUME view.children \in Seq(ChildRow), \E k \in DOMAIN view.children : view.children[k].status = "needs_approval"
  PROVE  RecoveryRuns > 0
<1>1. PICK counted : counted = <<view.root>> \o [k \in DOMAIN view.children |-> view.children[k].status]
  OBVIOUS
<1>2. PICK n \in Nat : CountsAll(counted, n, view.children)
  <2>1. PICK root, below : root = view.root /\ below = view.children
    OBVIOUS
  <2>2. below \in Seq(ChildRow) /\ counted = <<root>> \o [k \in DOMAIN below |-> below[k].status]
    BY <1>1, <2>1
  <2>3. \E n \in Nat : CountsAll(counted, n, below)
    BY <2>2, RootAndRows
  <2> QED BY <2>1, <2>3
<1>3. QueueStrip = [s \in Statuses |-> Cardinality({k \in DOMAIN counted : counted[k] = s})]
  BY <1>1, Zenon DEF QueueStrip
<1>4. ASSUME NEW s \in {"needs_approval", "failed", "interrupted"} PROVE QueueStrip[s] \in Nat
  <2>1. PICK places : places = {k \in DOMAIN counted : counted[k] = s}
    OBVIOUS
  <2>2. places \subseteq 1..n
    BY <1>2, <2>1 DEF CountsAll
  <2>4. Cardinality(places) \in Nat
    BY <2>2, Counted
  <2>3. s \in Statuses
    BY DEF Statuses, BusyStatuses, SettledStatuses
  <2> QED BY <1>3, <2>1, <2>3, <2>4
<1>5. QueueStrip["needs_approval"] > 0
  <2>1. PICK places : places = {k \in DOMAIN counted : counted[k] = "needs_approval"}
    OBVIOUS
  <2>2. places # {} /\ places \subseteq 1..n
    BY <1>2, <2>1 DEF CountsAll
  <2>3. Cardinality(places) > 0
    BY <2>2, Counted
  <2>4. "needs_approval" \in Statuses
    BY DEF Statuses, BusyStatuses
  <2> QED BY <1>3, <2>1, <2>3, <2>4
<1>6. PICK a, b, c : a = QueueStrip["needs_approval"] /\ b = QueueStrip["failed"] /\ c = QueueStrip["interrupted"]
  OBVIOUS
<1>7. a \in Nat /\ b \in Nat /\ c \in Nat /\ a > 0
  BY <1>4, <1>5, <1>6
<1>8. a + b + c > 0
  BY <1>7
<1> QED BY <1>6, <1>8 DEF RecoveryRuns

LEMMA ReadingEnds ==
  ASSUME NEW path, NEW r, ReadingOf(r, path)
  PROVE  /\ Head(path) = 1 /\ Last(path) = r
         /\ \A k \in 2..Len(path) : parent[path[k]] = path[k - 1]
<1>1. PICK n \in Nat : WayTo(path, n, r)
  BY DEF ReadingOf
<1>2. path \in Seq(RunIds) /\ Len(path) = n /\ n > 0 /\ path[1] = 1 /\ path[n] = r
  BY <1>1 DEF WayTo
<1> QED BY <1>1, <1>2 DEF WayTo, Last

LEMMA ViewsAreTrue == ViewsHold => RunViewsTypeOK /\ GraphIsTheTree /\ NothingPressingIsHidden
<1> SUFFICES ASSUME ViewsHold PROVE RunViewsTypeOK /\ GraphIsTheTree /\ NothingPressingIsHidden
  OBVIOUS
<1>0. TreeOK /\ TicketsOK /\ ViewOK
  BY DEF ViewsHold
<1>1. RunViewsTypeOK
  BY <1>0 DEF TreeOK, TicketsOK, ViewOK, RunViewsTypeOK
<1>2. GraphIsTheTree
  <2>1. ASSUME view.pc \in {"read", "record", "node"}
        PROVE  /\ Head(view.path) = 1 /\ Last(view.path) = view.run
               /\ \A k \in 2..Len(view.path) : parent[view.path[k]] = view.path[k - 1]
    BY <1>0, <2>1, ReadingEnds DEF ViewOK
  <2> QED BY <1>0, <2>1, GraphNow DEF GraphIsTheTree
<1>3. NothingPressingIsHidden
  <2>1. ASSUME NEW b \in Branches, DefaultCollapsed(b) PROVE \A r \in BranchNodes(b) : status[r] \notin BusyStatuses
    BY <2>1 DEF DefaultCollapsed
  <2>2. ASSUME view.pc = "cluster", \E k \in DOMAIN view.children : view.children[k].status = "needs_approval"
        PROVE  RecoveryRuns > 0
    BY <1>0, <2>2, RecoveryCounted DEF ViewOK
  <2>3. (\E r \in ExistingRuns : status[r] = "needs_approval") => status[Last(ActivePath)] = "needs_approval"
    BY <1>0, ActiveNow
  <2>4. \A k \in 2..Len(ActivePath) : parent[ActivePath[k]] = ActivePath[k - 1]
    BY <1>0, ActiveNow
  <2>5. \A r \in ExistingRuns \ {1} : status[r] = "needs_approval" => QueueStatus(1) = "needs_approval"
    BY <1>0, QueueNow
  <2>6. QueueStatus(1) = "completed" => \A r \in ExistingRuns : status[r] \notin BusyStatuses
    BY <1>0, QueueNow
  <2> QED BY <2>1, <2>2, <2>3, <2>4, <2>5, <2>6, Zenon DEF NothingPressingIsHidden
<1> QED BY <1>1, <1>2, <1>3

\* Whichever runs are spawned, and whatever becomes of them between two queries
\* of a page, the graph, its branches and its active path are those of the tree,
\* and no run that waits for a person is hidden by a collapsed branch or a label.
THEOREM RunPagesAreRight == RunViewsSpec => [](RunViewsTypeOK /\ GraphIsTheTree /\ NothingPressingIsHidden)
<1> QED BY ViewsAreTrue, ViewsHoldAlways, PTL

-----------------------------------------------------------------------------

\* A reader who goes through a list page by page sees each row that stays, a
\* session or a route only once, and exact pages while nothing changes. The
\* views of a run show the tree of its runs, and what waits for somebody.
THEOREM PagesAreTrueAlways == PagingSpec /\ RunViewsSpec => []PagesAreTrue
<1>1. /\ PagingTypeOK /\ PagesAreExact /\ NothingSkipped /\ NoRowTwice
      /\ RunViewsTypeOK /\ GraphIsTheTree /\ NothingPressingIsHidden
      => PagesAreTrue
  BY DEF PagesAreTrue
<1> QED BY <1>1, ListsAreRight, RunPagesAreRight, PTL
=============================================================================
