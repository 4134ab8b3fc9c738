---------------------------- MODULE ToolsProofs -----------------------------
(***************************************************************************)
(* What the tools tell, for every text that a program prints, every tree   *)
(* of files and every inbox, however many calls: the log and the result of *)
(* a command are what was printed (Commands), what is read of a directory   *)
(* is what it held (RepoFiles), and a listing, a text and a file of a Zalo  *)
(* account are of that account, in order and whole (ZaloAccount).          *)
(*                                                                         *)
(* Each part has an invariant of its own: CallInv says how far the copiers *)
(* of a call have come in the text and which of it they have flushed;      *)
(* FilesInv and ReadsInv that the tree is one, and what a search that      *)
(* nobody disturbed has still to open; AccountInv that a listing which     *)
(* nothing changed under has what it would be told now, and that of a text  *)
(* the first pieces were heard.                                            *)
(***************************************************************************)
EXTENDS ServiceProofs

-----------------------------------------------------------------------------
(* Places in a text.                                                       *)

LEMMA LeastOf == ASSUME NEW S, S \subseteq Nat, IsFiniteSet(S), S # {} PROVE \E n \in S : \A m \in S : n <= m
<1>1. PICK R : R = {d \in S \X S : d[1] < d[2]}
  OBVIOUS
<1>2. LinearOn(S, R)
  BY <1>1 DEF LinearOn
<1>3. PICK t : t = SortedBy(S, R)
  OBVIOUS
<1>4. /\ t \in Seq(S) /\ ToSet(t) = S
      /\ \A i, j \in 1..Len(t) : i < j => <<t[i], t[j]>> \in R
  BY <1>2, <1>3, SortedSeq
<1>5. Len(t) \in Nat /\ DOMAIN t = 1..Len(t) /\ \A i \in 1..Len(t) : t[i] \in S
  BY <1>4, LenProperties, ElementOfSeq
<1>6. Len(t) # 0
  BY <1>4, <1>5 DEF ToSet
<1>7. 1 \in 1..Len(t) /\ t[1] \in S
  BY <1>5, <1>6
<1>8. ASSUME NEW m \in S PROVE t[1] <= m
  <2>1. PICK i \in 1..Len(t) : t[i] = m
    BY <1>4, <1>5 DEF ToSet
  <2>2. CASE i = 1
    BY <1>7, <2>1, <2>2
  <2>3. CASE i # 1
    <3>1. 1 < i
      BY <1>5, <2>3
    <3>2. <<t[1], t[i]>> \in R
      BY <1>4, <1>7, <3>1
    <3>3. t[1] < t[i]
      BY <1>1, <3>2
    <3>4. t[1] \in Nat /\ m \in Nat
      BY <1>7
    <3> QED BY <2>1, <3>3, <3>4
  <2> QED BY <2>2, <2>3
<1> QED BY <1>7, <1>8

LEMMA GreatestOf ==
  ASSUME NEW S, S \subseteq Nat, IsFiniteSet(S), S # {} PROVE \E n \in S : \A m \in S : m <= n
<1>1. PICK R : R = {d \in S \X S : d[1] > d[2]}
  OBVIOUS
<1>2. LinearOn(S, R)
  BY <1>1 DEF LinearOn
<1>3. PICK t : t = SortedBy(S, R)
  OBVIOUS
<1>4. /\ t \in Seq(S) /\ ToSet(t) = S
      /\ \A i, j \in 1..Len(t) : i < j => <<t[i], t[j]>> \in R
  BY <1>2, <1>3, SortedSeq
<1>5. Len(t) \in Nat /\ DOMAIN t = 1..Len(t) /\ \A i \in 1..Len(t) : t[i] \in S
  BY <1>4, LenProperties, ElementOfSeq
<1>6. Len(t) # 0
  BY <1>4, <1>5 DEF ToSet
<1>7. 1 \in 1..Len(t) /\ t[1] \in S
  BY <1>5, <1>6
<1>8. ASSUME NEW m \in S PROVE m <= t[1]
  <2>1. PICK i \in 1..Len(t) : t[i] = m
    BY <1>4, <1>5 DEF ToSet
  <2>2. CASE i = 1
    BY <1>7, <2>1, <2>2
  <2>3. CASE i # 1
    <3>1. 1 < i
      BY <1>5, <2>3
    <3>2. <<t[1], t[i]>> \in R
      BY <1>4, <1>7, <3>1
    <3>3. t[1] > t[i]
      BY <1>1, <3>2
    <3>4. t[1] \in Nat /\ m \in Nat
      BY <1>7
    <3> QED BY <2>1, <3>3, <3>4
  <2> QED BY <2>2, <2>3
<1> QED BY <1>7, <1>8

Text == Seq({"c", "n"})
Record == [from : Nat, to : Nat]

LEMMA EndOfLineIs ==
  ASSUME NEW tx, NEW i \in Nat, NEW n \in Nat
  PROVE  LET e == EndOfLine(tx, i, n)
         IN  /\ e \in Nat
             /\ e = 0 <=> \A j \in (i + 1)..n : tx[j] # "n"
             /\ e # 0 => /\ e \in (i + 1)..n /\ tx[e] = "n"
                         /\ \A j \in (i + 1)..n : tx[j] = "n" => e <= j
<1>1. PICK ends : ends = {j \in (i + 1)..n : tx[j] = "n"}
  OBVIOUS
<1>2. EndOfLine(tx, i, n) = IF ends = {} THEN 0 ELSE CHOOSE j \in ends : \A k \in ends : j <= k
  BY <1>1 DEF EndOfLine
<1>3. CASE ends = {}
  BY <1>1, <1>2, <1>3
<1>4. CASE ends # {}
  <2>1. ends \subseteq Nat /\ IsFiniteSet(ends)
    <3>1. IsFiniteSet((i + 1)..n) /\ ends \in SUBSET ((i + 1)..n)
      BY <1>1, FS_Interval
    <3>2. IsFiniteSet(ends)
      BY <3>1, FS_Subset
    <3>3. ends \subseteq Nat
      BY <3>1
    <3> QED BY <3>2, <3>3
  <2>2. \E j \in ends : \A k \in ends : j <= k
    BY <1>4, <2>1, LeastOf
  <2>3. PICK e : e = EndOfLine(tx, i, n)
    OBVIOUS
  <2>4. e = CHOOSE j \in ends : \A k \in ends : j <= k
    BY <1>2, <1>4, <2>3
  <2>5. e \in ends /\ \A k \in ends : e <= k
    BY <2>2, <2>4
  <2>6. e # 0 /\ e \in (i + 1)..n /\ tx[e] = "n" /\ \A j \in (i + 1)..n : tx[j] = "n" => e <= j
    BY <1>1, <2>5
  <2> QED BY <2>3, <2>6
<1> QED BY <1>3, <1>4

\* A record of the text from one place to another: a line, or what follows the last one.
Begins(tx, from, n, i) == i \in from..(n - 1) /\ (i = from \/ tx[i] = "n")
EndOf(tx, i, n) == IF EndOfLine(tx, i, n) = 0 THEN n ELSE EndOfLine(tx, i, n)
Piece(tx, from, n, r) == Begins(tx, from, n, r.from) /\ r = [from |-> r.from, to |-> EndOf(tx, r.from, n)]

LEMMA PieceIs ==
  ASSUME NEW tx, NEW from \in Nat, NEW n \in Nat, NEW r, Piece(tx, from, n, r)
  PROVE  /\ r \in Record /\ from <= r.from /\ r.from < r.to /\ r.to <= n
         /\ \A j \in (r.from + 1)..(r.to - 1) : tx[j] # "n"
<1>1. PICK i : i = r.from
  OBVIOUS
<1>2. i \in from..(n - 1) /\ i \in Nat
  BY <1>1 DEF Piece, Begins
<1>3. PICK e : e = EndOfLine(tx, i, n)
  OBVIOUS
<1>4. /\ e \in Nat
      /\ e = 0 <=> \A j \in (i + 1)..n : tx[j] # "n"
      /\ e # 0 => /\ e \in (i + 1)..n
                  /\ \A j \in (i + 1)..n : tx[j] = "n" => e <= j
  BY <1>2, <1>3, EndOfLineIs
<1>5. r = [from |-> i, to |-> IF e = 0 THEN n ELSE e]
  BY <1>1, <1>3 DEF Piece, EndOf
<1>6. r.from = i /\ r.to = (IF e = 0 THEN n ELSE e)
  BY <1>5
<1>7. CASE e = 0
  BY <1>2, <1>4, <1>5, <1>6, <1>7 DEF Record
<1>8. CASE e # 0
  BY <1>2, <1>4, <1>5, <1>6, <1>8 DEF Record
<1> QED BY <1>7, <1>8

\* Two records do not overlap.
LEMMA PiecesApart ==
  ASSUME NEW tx, NEW from \in Nat, NEW n \in Nat, NEW r, Piece(tx, from, n, r), NEW q, Piece(tx, from, n, q)
  PROVE  /\ r.from < q.from => r.to <= q.from
         /\ r.from = q.from => r = q
<1>1. /\ r \in Record /\ from <= r.from /\ r.from < r.to /\ r.to <= n
      /\ \A j \in (r.from + 1)..(r.to - 1) : tx[j] # "n"
      /\ q \in Record
  BY PieceIs
<1>2. r.from < q.from => tx[q.from] = "n"
  BY <1>1 DEF Piece, Begins, Record
<1>3. r.from < q.from => r.to <= q.from
  BY <1>1, <1>2 DEF Record
<1>4. r.from = q.from => r = q
  BY DEF Piece
<1> QED BY <1>3, <1>4

\* A place of the text is in the record that begins at the last break before it.
LEMMA EveryPlaceIsIn ==
  ASSUME NEW tx, NEW from \in Nat, NEW n \in Nat, NEW i \in (from + 1)..n
  PROVE  \E b \in from..(n - 1) :
           /\ Begins(tx, from, n, b) /\ b < i /\ i <= EndOf(tx, b, n)
           /\ (\E j \in i..n : tx[j] = "n") => EndOfLine(tx, b, n) # 0
<1>1. PICK breaks : breaks = {k \in from..(i - 1) : k = from \/ tx[k] = "n"}
  OBVIOUS
<1>2. breaks \subseteq Nat /\ IsFiniteSet(breaks) /\ from \in breaks
  <2>1. IsFiniteSet(from..(i - 1)) /\ breaks \in SUBSET (from..(i - 1))
    BY <1>1, FS_Interval
  <2>2. from \in from..(i - 1)
    OBVIOUS
  <2> QED BY <1>1, <2>1, <2>2, FS_Subset
<1>3. PICK b \in breaks : \A m \in breaks : m <= b
  BY <1>2, GreatestOf
<1>4. b \in from..(n - 1) /\ b \in Nat /\ b < i /\ (b = from \/ tx[b] = "n")
  BY <1>1, <1>3
<1>5. \A j \in (b + 1)..(i - 1) : tx[j] # "n"
  <2> SUFFICES ASSUME NEW j \in (b + 1)..(i - 1), tx[j] = "n" PROVE FALSE
    OBVIOUS
  <2>1. j \in from..(i - 1)
    BY <1>4
  <2>2. j \in breaks
    BY <1>1, <2>1
  <2> QED BY <1>3, <1>4, <2>2
<1>6. PICK e : e = EndOfLine(tx, b, n)
  OBVIOUS
<1>7. /\ e \in Nat
      /\ e = 0 <=> \A j \in (b + 1)..n : tx[j] # "n"
      /\ e # 0 => e \in (b + 1)..n /\ tx[e] = "n"
  BY <1>4, <1>6, EndOfLineIs
<1>8. i <= IF e = 0 THEN n ELSE e
  BY <1>4, <1>5, <1>7
<1>9. (\E j \in i..n : tx[j] = "n") => e # 0
  BY <1>4, <1>7
<1>10. Begins(tx, from, n, b) /\ i <= EndOf(tx, b, n)
  BY <1>4, <1>6, <1>8 DEF Begins, EndOf
<1> QED BY <1>4, <1>6, <1>9, <1>10
-----------------------------------------------------------------------------
(* The records of a stream.                                                *)

\* Of what lies between two places the lines are sent, and at the end what follows them.
Pieces1(tx, from, n, set) == \A r \in set : Piece(tx, from, n, r)

LEMMA LinesArePieces ==
  ASSUME NEW s, NEW tx, tx = printed[s].text, NEW from \in Nat, NEW n \in Nat
  PROVE  /\ Pieces1(tx, from, n, LineRecords(s, from, n))
         /\ \A b \in from..(n - 1) : Begins(tx, from, n, b) /\ EndOfLine(tx, b, n) # 0 =>
              [from |-> b, to |-> EndOf(tx, b, n)] \in LineRecords(s, from, n)
<1>1. PICK begins : begins = {i \in from..n : (i = from \/ tx[i] = "n") /\ EndOfLine(tx, i, n) > 0}
  OBVIOUS
<1>2. LineRecords(s, from, n) = {[from |-> i, to |-> EndOfLine(tx, i, n)] : i \in begins}
  BY <1>1 DEF LineRecords
<1>3. ASSUME NEW i \in begins
      PROVE  Begins(tx, from, n, i) /\ EndOfLine(tx, i, n) = EndOf(tx, i, n)
  <2>1. i \in from..n /\ i \in Nat /\ (i = from \/ tx[i] = "n") /\ EndOfLine(tx, i, n) # 0
    <3>1. i \in from..n /\ (i = from \/ tx[i] = "n") /\ EndOfLine(tx, i, n) > 0
      BY <1>1
    <3> QED BY <3>1
  <2>2. EndOfLine(tx, i, n) \in (i + 1)..n
    BY <2>1, EndOfLineIs
  <2>3. i \in from..(n - 1)
    BY <2>1, <2>2
  <2> QED BY <2>1, <2>3 DEF Begins, EndOf
<1>4. ASSUME NEW r \in LineRecords(s, from, n) PROVE Piece(tx, from, n, r)
  <2>1. PICK i \in begins : r = [from |-> i, to |-> EndOfLine(tx, i, n)]
    BY <1>2
  <2>2. r.from = i /\ r = [from |-> i, to |-> EndOf(tx, i, n)]
    BY <1>3, <2>1
  <2> QED BY <1>3, <2>2 DEF Piece
<1>5. ASSUME NEW b \in from..(n - 1), Begins(tx, from, n, b), EndOfLine(tx, b, n) # 0
      PROVE  [from |-> b, to |-> EndOf(tx, b, n)] \in LineRecords(s, from, n)
  <2>1. b \in Nat /\ b \in from..n
    OBVIOUS
  <2>2. EndOfLine(tx, b, n) \in Nat
    BY <2>1, EndOfLineIs
  <2>3. EndOfLine(tx, b, n) > 0
    BY <1>5, <2>2
  <2>4. b \in begins
    BY <1>1, <1>5, <2>1, <2>3 DEF Begins
  <2> QED BY <1>2, <1>5, <2>4 DEF EndOf
<1> QED BY <1>4, <1>5 DEF Pieces1

LEMMA PiecesAreFinite ==
  ASSUME NEW tx, NEW from \in Nat, NEW n \in Nat, NEW set, Pieces1(tx, from, n, set)
  PROVE  IsFiniteSet(set) /\ set \subseteq Record
<1>1. PICK all : all = {[from |-> i, to |-> EndOf(tx, i, n)] : i \in from..(n - 1)}
  OBVIOUS
<1>2. IsFiniteSet(from..(n - 1))
  BY FS_Interval
<1>3. IsFiniteSet(all)
  <2> DEFINE f == [i \in from..(n - 1) |-> [from |-> i, to |-> EndOf(tx, i, n)]]
  <2>1. f \in Surjection(from..(n - 1), all)
    BY <1>1 DEF Surjection
  <2> QED BY <1>2, <2>1, FS_Surjection
<1>4. \A r \in set : r \in all /\ r \in Record
  <2> TAKE r \in set
  <2>1. Piece(tx, from, n, r)
    BY DEF Pieces1
  <2>2. r.from \in from..(n - 1) /\ r = [from |-> r.from, to |-> EndOf(tx, r.from, n)]
    BY <2>1 DEF Piece, Begins
  <2> QED BY <1>1, <2>1, <2>2, PieceIs
<1>5. set \in SUBSET all
  BY <1>4
<1> QED BY <1>3, <1>4, <1>5, FS_Subset

\* The events of some records, in their order.
LEMMA ByPlaceIs ==
  ASSUME NEW tx, NEW from \in Nat, NEW n \in Nat, NEW set, Pieces1(tx, from, n, set), NEW q, q = ByPlace(set)
  PROVE  /\ q \in Seq(Record) /\ Len(q) \in Nat /\ ToSet(q) = set
         /\ \A i \in 1..Len(q) : q[i] \in set
         /\ \A i, j \in 1..Len(q) : i < j => q[i].to <= q[j].from
<1>1. PICK R : R = {d \in set \X set : d[1].from < d[2].from}
  OBVIOUS
<1>2. IsFiniteSet(set) /\ set \subseteq Record
  BY PiecesAreFinite
<1>3. \A r, p \in set : /\ r.from \in Nat /\ (<<r, p>> \in R <=> r.from < p.from)
                        /\ r.from = p.from => r = p
                        /\ r.from < p.from => r.to <= p.from
  <2> TAKE r, p \in set
  <2>1. r \in Record /\ p \in Record
    BY <1>2
  <2>2. Piece(tx, from, n, r) /\ Piece(tx, from, n, p)
    BY DEF Pieces1
  <2>3. /\ r.from = p.from => r = p
        /\ r.from < p.from => r.to <= p.from
    BY <2>2, PiecesApart
  <2> QED BY <1>1, <2>1, <2>3 DEF Record
<1>4. LinearOn(set, R)
  <2>1. \A d, e \in set : d # e => <<d, e>> \in R \/ <<e, d>> \in R
    BY <1>3
  <2>2. \A d \in set : <<d, d>> \notin R
    BY <1>3
  <2>3. ASSUME NEW d \in set, NEW e \in set, NEW f \in set, <<d, e>> \in R, <<e, f>> \in R PROVE <<d, f>> \in R
    <3>1. d.from \in Nat /\ e.from \in Nat /\ f.from \in Nat /\ d.from < e.from /\ e.from < f.from
      BY <1>3, <2>3
    <3>2. d.from < f.from
      BY <3>1
    <3> QED BY <1>3, <3>2
  <2> QED BY <2>1, <2>2, <2>3 DEF LinearOn
<1>5. q = SortedBy(set, R)
  BY <1>1 DEF ByPlace
<1>6. /\ q \in Seq(Record) /\ ToSet(q) = set
      /\ \A i \in 1..Len(q) : q[i] \in set
      /\ \A i, j \in 1..Len(q) : i < j => <<q[i], q[j]>> \in R
  BY <1>2, <1>4, <1>5, SortedSeq
<1> QED BY <1>3, <1>6, LenProperties
-----------------------------------------------------------------------------
(* The journal of a stream.                                                *)

\* A stream's events say what was sent, in order.
LoggedOK(tx, log, sent) ==
  /\ \A i \in 1..Len(log) : log[i].from < log[i].to /\ log[i].to <= sent
  /\ \A i, j \in 1..Len(log) : i < j => log[i].to <= log[j].from
  /\ \A i \in 1..sent : tx[i] = "c" => \E k \in 1..Len(log) : log[k].from < i /\ i <= log[k].to

\* The events of what lies between two places.
Continues(tx, q, sent, new) ==
  /\ \A k \in 1..Len(q) : sent <= q[k].from /\ q[k].from < q[k].to /\ q[k].to <= new
  /\ \A i, j \in 1..Len(q) : i < j => q[i].to <= q[j].from
  /\ \A i \in (sent + 1)..new : tx[i] = "c" => \E k \in 1..Len(q) : q[k].from < i /\ i <= q[k].to

LEMMA LoggedMore ==
  ASSUME NEW tx, NEW log \in Seq(Record), NEW sent \in Nat, LoggedOK(tx, log, sent),
         NEW new \in Nat, sent <= new, NEW q \in Seq(Record), Continues(tx, q, sent, new)
  PROVE  log \o q \in Seq(Record) /\ LoggedOK(tx, log \o q, new)
<1>1. PICK m : m = log \o q
  OBVIOUS
<1>2. /\ Len(log) \in Nat /\ Len(q) \in Nat /\ m \in Seq(Record) /\ Len(m) = Len(log) + Len(q)
      /\ \A i \in 1..Len(log) : log[i] \in Record
      /\ \A i \in 1..Len(q) : q[i] \in Record
  BY <1>1, LenProperties, ElementOfSeq, ConcatProperties
<1>3. \A i \in 1..Len(m) : m[i] = IF i <= Len(log) THEN log[i] ELSE q[i - Len(log)]
  BY <1>1, ConcatProperties
<1>4. \A i \in 1..Len(m) : /\ i <= Len(log) => i \in 1..Len(log) /\ m[i] = log[i]
                           /\ i > Len(log) => i - Len(log) \in 1..Len(q) /\ m[i] = q[i - Len(log)]
  BY <1>2, <1>3
<1>5. ASSUME NEW i \in 1..Len(m) PROVE m[i].from < m[i].to /\ m[i].to <= new
  <2>1. CASE i <= Len(log)
    <3>1. log[i] \in Record /\ log[i].from < log[i].to /\ log[i].to <= sent /\ m[i] = log[i]
      BY <1>2, <1>4, <2>1 DEF LoggedOK
    <3> QED BY <3>1 DEF Record
  <2>2. CASE i > Len(log)
    BY <1>2, <1>4, <2>2 DEF Continues
  <2> QED BY <1>2, <2>1, <2>2
<1>6. ASSUME NEW i \in 1..Len(m), NEW j \in 1..Len(m), i < j PROVE m[i].to <= m[j].from
  <2>1. CASE j <= Len(log)
    <3>1. i <= Len(log) /\ i \in 1..Len(log) /\ j \in 1..Len(log)
      BY <1>2, <1>6, <2>1
    <3>2. m[i] = log[i] /\ m[j] = log[j]
      BY <1>4, <2>1, <3>1
    <3>3. log[i].to <= log[j].from
      BY <1>6, <3>1 DEF LoggedOK
    <3> QED BY <3>2, <3>3
  <2>2. CASE i > Len(log)
    <3>1. PICK a, b : a = i - Len(log) /\ b = j - Len(log)
      OBVIOUS
    <3>2. j > Len(log) /\ a < b
      BY <1>2, <1>6, <2>2, <3>1
    <3>3. a \in 1..Len(q) /\ b \in 1..Len(q) /\ m[i] = q[a] /\ m[j] = q[b]
      BY <1>4, <2>2, <3>1, <3>2
    <3> QED BY <3>2, <3>3 DEF Continues
  <2>3. CASE i <= Len(log) /\ j > Len(log)
    <3>0. PICK b : b = j - Len(log)
      OBVIOUS
    <3>1. i \in 1..Len(log) /\ b \in 1..Len(q) /\ m[i] = log[i] /\ m[j] = q[b]
      BY <1>4, <2>3, <3>0
    <3>2. log[i] \in Record /\ q[b] \in Record
      BY <1>2, <3>1
    <3>3. log[i].to <= sent
      BY <3>1 DEF LoggedOK
    <3>4. sent <= q[b].from
      BY <3>1 DEF Continues
    <3>5. log[i].to \in Nat /\ q[b].from \in Nat
      BY <3>2 DEF Record
    <3>6. log[i].to <= q[b].from
      BY <3>3, <3>4, <3>5, SMTT(30)
    <3> QED BY <3>1, <3>6
  <2> QED BY <1>2, <2>1, <2>2, <2>3
<1>7. ASSUME NEW i \in 1..new, tx[i] = "c" PROVE \E k \in 1..Len(m) : m[k].from < i /\ i <= m[k].to
  <2>1. CASE i <= sent
    <3>1. PICK k \in 1..Len(log) : log[k].from < i /\ i <= log[k].to
      BY <1>7, <2>1 DEF LoggedOK
    <3>2. k \in 1..Len(m) /\ m[k] = log[k]
      BY <1>2, <1>3, <3>1
    <3> QED BY <3>1, <3>2
  <2>2. CASE i > sent
    <3>1. PICK k \in 1..Len(q) : q[k].from < i /\ i <= q[k].to
      BY <1>7, <2>2 DEF Continues
    <3>2. PICK l : l = k + Len(log)
      OBVIOUS
    <3>3. l \in 1..Len(m) /\ l > Len(log) /\ l - Len(log) = k
      BY <1>2, <3>1, <3>2
    <3>4. m[l] = q[k]
      BY <1>4, <3>3
    <3> QED BY <3>1, <3>3, <3>4
  <2> QED BY <2>1, <2>2
<1>8. LoggedOK(tx, m, new)
  BY <1>5, <1>6, <1>7 DEF LoggedOK
<1> QED BY <1>1, <1>2, <1>8

\* What is visible is among the records that are stored.
LEMMA StoredIs ==
  ASSUME NEW s, NEW tx, tx = printed[s].text, NEW set
  PROVE  /\ Stored(s, set) \subseteq set
         /\ \A r \in set : \A i \in (r.from + 1)..r.to : tx[i] = "c" => r \in Stored(s, set)
BY DEF Stored, Visible

\* Whole lines up to the end of one of them.
LEMMA LinesContinue ==
  ASSUME NEW s, NEW tx, tx = printed[s].text, NEW sent \in Nat, NEW n \in Nat,
         NEW new \in sent..n, new = sent \/ tx[new] = "n",
         NEW q, q = ByPlace(Stored(s, LineRecords(s, sent, n))),
         \A r \in LineRecords(s, sent, n) : r.to <= new
  PROVE  q \in Seq(Record) /\ Continues(tx, q, sent, new)
<1>1. PICK recs : recs = LineRecords(s, sent, n)
  OBVIOUS
<1>2. PICK stored1 : stored1 = Stored(s, recs)
  OBVIOUS
<1>3. /\ Pieces1(tx, sent, n, recs)
      /\ \A b \in sent..(n - 1) : Begins(tx, sent, n, b) /\ EndOfLine(tx, b, n) # 0 =>
              [from |-> b, to |-> EndOf(tx, b, n)] \in recs
  BY <1>1, LinesArePieces
<1>4. /\ stored1 \subseteq recs
      /\ \A r \in recs : \A i \in (r.from + 1)..r.to : tx[i] = "c" => r \in stored1
  BY <1>2, StoredIs
<1>5. Pieces1(tx, sent, n, stored1)
  BY <1>3, <1>4 DEF Pieces1
<1>6. /\ q \in Seq(Record) /\ Len(q) \in Nat /\ ToSet(q) = stored1
      /\ \A i \in 1..Len(q) : q[i] \in stored1
      /\ \A i, j \in 1..Len(q) : i < j => q[i].to <= q[j].from
  BY <1>1, <1>2, <1>5, ByPlaceIs
<1>7. ASSUME NEW k \in 1..Len(q) PROVE sent <= q[k].from /\ q[k].from < q[k].to /\ q[k].to <= new
  <2>1. q[k] \in recs /\ Piece(tx, sent, n, q[k])
    BY <1>4, <1>5, <1>6 DEF Pieces1
  <2> QED BY <1>1, <2>1, PieceIs
<1>8. ASSUME NEW i \in (sent + 1)..new, tx[i] = "c" PROVE \E k \in 1..Len(q) : q[k].from < i /\ i <= q[k].to
  <2>1. i \in (sent + 1)..n /\ new # sent
    OBVIOUS
  <2>2. PICK b \in sent..(n - 1) :
           /\ Begins(tx, sent, n, b) /\ b < i /\ i <= EndOf(tx, b, n)
           /\ (\E j \in i..n : tx[j] = "n") => EndOfLine(tx, b, n) # 0
    BY <2>1, EveryPlaceIsIn
  <2>3. new \in i..n /\ tx[new] = "n"
    BY <2>1
  <2>4. PICK r : r = [from |-> b, to |-> EndOf(tx, b, n)]
    OBVIOUS
  <2>5. r \in recs /\ r.from = b /\ r.to = EndOf(tx, b, n)
    BY <1>3, <2>2, <2>3, <2>4
  <2>6. i \in (r.from + 1)..r.to
    <3>1. r \in Record
      BY <1>3, <2>5, PieceIs DEF Pieces1
    <3> QED BY <2>2, <2>5, <3>1 DEF Record
  <2>7. r \in stored1
    BY <1>4, <1>8, <2>5, <2>6
  <2>8. PICK k \in 1..Len(q) : q[k] = r
    <3>1. DOMAIN q = 1..Len(q)
      BY <1>6, LenProperties
    <3> QED BY <1>6, <2>7, <3>1 DEF ToSet
  <2> QED BY <2>2, <2>5, <2>8
<1> QED BY <1>6, <1>7, <1>8 DEF Continues

\* The flush at the end: all that is left, up to a record that cannot be stored.
LEMMA RestContinues ==
  ASSUME NEW s, NEW tx, tx = printed[s].text, NEW sent \in Nat, NEW n \in Nat, sent <= n,
         copier[s].sent = sent, copier[s].taken = n,
         NEW new, new \in {n} \cup {r.from : r \in Rest(s)},
         NEW q, q = ByPlace({r \in Rest(s) : r.to <= new})
  PROVE  new \in sent..n /\ q \in Seq(Record) /\ Continues(tx, q, sent, new)
<1>1. PICK last : last = {i \in sent..(n - 1) : (i = sent \/ tx[i] = "n") /\ EndOfLine(tx, i, n) = 0}
  OBVIOUS
<1>2. PICK recs : recs = LineRecords(s, sent, n) \cup {[from |-> i, to |-> n] : i \in last}
  OBVIOUS
<1>3. Rest(s) = Stored(s, recs)
  BY <1>1, <1>2 DEF Rest
<1>4. /\ Pieces1(tx, sent, n, recs)
      /\ \A b \in sent..(n - 1) : Begins(tx, sent, n, b) => [from |-> b, to |-> EndOf(tx, b, n)] \in recs
  <2>1. /\ Pieces1(tx, sent, n, LineRecords(s, sent, n))
        /\ \A b \in sent..(n - 1) : Begins(tx, sent, n, b) /\ EndOfLine(tx, b, n) # 0 =>
              [from |-> b, to |-> EndOf(tx, b, n)] \in LineRecords(s, sent, n)
    BY LinesArePieces
  <2>2. ASSUME NEW i \in last PROVE Piece(tx, sent, n, [from |-> i, to |-> n])
    <3>1. i \in sent..(n - 1) /\ (i = sent \/ tx[i] = "n") /\ EndOfLine(tx, i, n) = 0
      BY <1>1
    <3> QED BY <3>1 DEF Piece, Begins, EndOf
  <2>3. ASSUME NEW b \in sent..(n - 1), Begins(tx, sent, n, b), EndOfLine(tx, b, n) = 0
        PROVE  [from |-> b, to |-> EndOf(tx, b, n)] \in recs
    <3>1. b \in last
      BY <1>1, <2>3 DEF Begins
    <3>2. EndOf(tx, b, n) = n
      BY <2>3 DEF EndOf
    <3> QED BY <1>2, <3>1, <3>2
  <2>4. Pieces1(tx, sent, n, recs)
    BY <1>2, <2>1, <2>2 DEF Pieces1
  <2>5. ASSUME NEW b \in sent..(n - 1), Begins(tx, sent, n, b) PROVE [from |-> b, to |-> EndOf(tx, b, n)] \in recs
    BY <1>2, <2>1, <2>3, <2>5
  <2> QED BY <2>4, <2>5
<1>5. PICK stored1 : stored1 = {r \in Rest(s) : r.to <= new}
  OBVIOUS
<1>6. /\ Rest(s) \subseteq recs
      /\ \A r \in recs : \A i \in (r.from + 1)..r.to : tx[i] = "c" => r \in Rest(s)
  BY <1>3, StoredIs
<1>7. \A r \in recs : Piece(tx, sent, n, r) /\ r \in Record /\ sent <= r.from /\ r.from < r.to /\ r.to <= n
  BY <1>4, PieceIs DEF Pieces1
<1>8. new \in sent..n
  <2>1. ASSUME NEW r \in Rest(s), new = r.from PROVE new \in sent..n
    <3>1. r \in Record /\ sent <= r.from /\ r.from < r.to /\ r.to <= n
      BY <1>6, <1>7
    <3> QED BY <2>1, <3>1 DEF Record
  <2> QED BY <2>1
<1>9. Pieces1(tx, sent, n, stored1)
  BY <1>5, <1>6, <1>7 DEF Pieces1
<1>10. /\ q \in Seq(Record) /\ Len(q) \in Nat /\ ToSet(q) = stored1
       /\ \A i \in 1..Len(q) : q[i] \in stored1
       /\ \A i, j \in 1..Len(q) : i < j => q[i].to <= q[j].from
  BY <1>5, <1>9, ByPlaceIs
<1>11. ASSUME NEW k \in 1..Len(q) PROVE sent <= q[k].from /\ q[k].from < q[k].to /\ q[k].to <= new
  BY <1>5, <1>6, <1>7, <1>10
<1>12. ASSUME NEW i \in (sent + 1)..new, tx[i] = "c" PROVE \E k \in 1..Len(q) : q[k].from < i /\ i <= q[k].to
  <2>1. i \in (sent + 1)..n
    BY <1>8
  <2>2. PICK b \in sent..(n - 1) : Begins(tx, sent, n, b) /\ b < i /\ i <= EndOf(tx, b, n)
    BY <2>1, EveryPlaceIsIn
  <2>3. PICK r : r = [from |-> b, to |-> EndOf(tx, b, n)]
    OBVIOUS
  <2>4. r \in recs /\ r.from = b /\ r.to = EndOf(tx, b, n)
    BY <1>4, <2>2, <2>3
  <2>5. r \in Record /\ r.from < i /\ i <= r.to /\ r.to <= n /\ r.from \in Nat /\ r.to \in Nat
    BY <1>7, <2>2, <2>4 DEF Record
  <2>6. i \in (r.from + 1)..r.to
    BY <2>5
  <2>7. r \in Rest(s)
    BY <1>6, <1>12, <2>4, <2>6
  <2>8. r.to <= new
    <3>1. CASE new = n
      BY <2>5, <3>1
    <3>2. ASSUME NEW p \in Rest(s), new = p.from PROVE r.to <= new
      <4>1. Piece(tx, sent, n, r) /\ Piece(tx, sent, n, p) /\ p.from \in Nat
        BY <1>6, <1>7, <2>4 DEF Record
      <4>2. r.from < p.from
        BY <2>1, <2>5, <3>2, <4>1
      <4> QED BY <3>2, <4>1, <4>2, PiecesApart
    <3> QED BY <3>1, <3>2
  <2>9. r \in stored1
    BY <1>5, <2>7, <2>8
  <2>10. PICK k \in 1..Len(q) : q[k] = r
    <3>1. DOMAIN q = 1..Len(q)
      BY <1>10, LenProperties
    <3> QED BY <1>10, <2>9, <3>1 DEF ToSet
  <2> QED BY <2>5, <2>10
<1> QED BY <1>8, <1>10, <1>11, <1>12 DEF Continues

\* A terminal's chunk.
LEMMA ChunkContinues ==
  ASSUME NEW s, NEW tx, tx = printed[s].text, NEW sent \in Nat, NEW n \in Nat, sent < n,
         NEW q, q = ByPlace(Stored(s, {[from |-> sent, to |-> n]}))
  PROVE  q \in Seq(Record) /\ Continues(tx, q, sent, n)
<1>1. PICK r : r = [from |-> sent, to |-> n]
  OBVIOUS
<1>2. r.from = sent /\ r.to = n /\ r \in Record
  BY <1>1 DEF Record
<1>3. PICK set : set = Stored(s, {r})
  OBVIOUS
<1>4. set \subseteq {r} /\ \A i \in (r.from + 1)..r.to : tx[i] = "c" => r \in set
  BY <1>3, StoredIs
<1>5. PICK R : R = {d \in set \X set : d[1].from < d[2].from}
  OBVIOUS
<1>6. IsFiniteSet(set) /\ set \subseteq Record
  <2>1. IsFiniteSet({r}) /\ set \in SUBSET {r}
    BY <1>4, FS_Singleton
  <2> QED BY <1>2, <1>4, <2>1, FS_Subset
<1>7. LinearOn(set, R)
  <2>1. \A d, e \in set : d = e /\ <<d, e>> \notin R
    BY <1>2, <1>4, <1>5
  <2> QED BY <2>1 DEF LinearOn
<1>8. q = SortedBy(set, R)
  BY <1>1, <1>3, <1>5 DEF ByPlace
<1>9. /\ q \in Seq(Record) /\ ToSet(q) = set
      /\ \A i \in 1..Len(q) : q[i] \in set
      /\ \A i, j \in 1..Len(q) : i < j => <<q[i], q[j]>> \in R
  BY <1>6, <1>7, <1>8, SortedSeq
<1>10. ASSUME NEW i \in 1..Len(q), NEW j \in 1..Len(q), i < j PROVE q[i].to <= q[j].from
  <2>1. <<q[i], q[j]>> \in R /\ q[i] = r /\ q[j] = r
    BY <1>4, <1>9, <1>10
  <2>2. r.from < r.from
    BY <1>5, <2>1
  <2> QED BY <1>2, <2>2
<1>11. ASSUME NEW k \in 1..Len(q) PROVE sent <= q[k].from /\ q[k].from < q[k].to /\ q[k].to <= n
  <2>1. q[k] = r
    BY <1>4, <1>9
  <2> QED BY <1>2, <2>1
<1>12. ASSUME NEW i \in (sent + 1)..n, tx[i] = "c" PROVE \E k \in 1..Len(q) : q[k].from < i /\ i <= q[k].to
  <2>1. r \in set
    BY <1>2, <1>4, <1>12
  <2>2. PICK k \in 1..Len(q) : q[k] = r
    <3>1. DOMAIN q = 1..Len(q)
      BY <1>9, LenProperties
    <3> QED BY <1>9, <2>1, <3>1 DEF ToSet
  <2> QED BY <1>2, <2>2
<1> QED BY <1>9, <1>10, <1>11, <1>12 DEF Continues

-----------------------------------------------------------------------------
(* The invariant of a call.                                                *)

Output == [text : Text, out : Nat]
CopierRow == [state : {"reading", "ended", "failed"}, taken : Nat, sent : Nat]
Streams == DOMAIN printed

CallTyped ==
  /\ command \in [at : {"idle", "start", "run", "closed"}, pty : BOOLEAN, captures : BOOLEAN]
  /\ process \in [state : {"none", "running", "done", "failed", "killed"}, held : BOOLEAN]
  /\ capture \in {"none", "empty", "answer"} /\ commandsRun \in 0..MaxCommands
  /\ Streams \subseteq {"stdout", "stderr", "terminal"} /\ printed \in [Streams -> Output]
  /\ copier \in [Streams -> CopierRow] /\ logged \in [Streams -> Seq(Record)]
  /\ command.at # "idle" => Streams = StreamsOf(command.pty)
  /\ command.at = "closed" => command.pty

\* What a goroutine has read of a stream, and what it has sent.
StreamOK(s) ==
  /\ copier[s].sent <= copier[s].taken /\ copier[s].taken <= printed[s].out /\ printed[s].out <= Len(printed[s].text)
  /\ LoggedOK(printed[s].text, logged[s], copier[s].sent)
  /\ process.state = "done" => printed[s].out = Len(printed[s].text)
  /\ s = "terminal" /\ copier[s].state = "reading" => copier[s].sent = copier[s].taken
  /\ s # "terminal" /\ copier[s].state = "ended" /\ command.at # "idle" =>
       copier[s].taken = printed[s].out /\ process.state \notin {"none", "running"}
StreamsOK == \A s \in Streams : StreamOK(s)

\* What a call that has ended has reported.
KeptOK(s) ==
  s \in Streams /\ (reported.kept[s] = copier[s].taken \/ (reported.cut /\ reported.kept[s] = MaxOutput))
ReportOK ==
  /\ reported.ok => /\ process.state = "done"
                    /\ \A s \in Streams : s # "terminal" => copier[s].sent = Len(printed[s].text)
  /\ \A s \in DOMAIN reported.kept : KeptOK(s)
EndsOK ==
  /\ command.at = "start" => process.state = "none"
  /\ command.at = "closed" => process.state \notin {"none", "running"}
  /\ command.at = "idle" => /\ process.state # "running" /\ ReportOK
                            /\ process.state # "none" => capture = "none"

CallInv == CallTyped /\ StreamsOK /\ EndsOK

LEMMA CallGives ==
  CallInv => CommandsTypeOK /\ LogIsTheOutput /\ SuccessIsComplete /\ ResultIsTheOutput /\ NoCaptureIsLeft
<1> SUFFICES ASSUME CallInv PROVE CommandsTypeOK /\ LogIsTheOutput /\ SuccessIsComplete /\ ResultIsTheOutput /\ NoCaptureIsLeft
  OBVIOUS
<1>1. /\ command.at \in {"idle", "start", "run", "closed"} /\ commandsRun \in 0..MaxCommands
      /\ process.state \in {"none", "running", "done", "failed", "killed"}
      /\ capture \in {"none", "empty", "answer"}
  BY DEF CallInv, CallTyped
<1>2. DOMAIN copier = Streams /\ DOMAIN logged = Streams
  BY DEF CallInv, CallTyped
<1>3. ASSUME NEW s \in Streams
      PROVE  /\ copier[s].state \in {"reading", "ended", "failed"}
             /\ copier[s].sent <= copier[s].taken /\ copier[s].taken <= printed[s].out
             /\ LoggedOK(printed[s].text, logged[s], copier[s].sent)
             /\ DOMAIN logged[s] = 1..Len(logged[s])
  <2>1. copier[s] \in CopierRow /\ logged[s] \in Seq(Record)
    BY DEF CallInv, CallTyped
  <2>2. DOMAIN logged[s] = 1..Len(logged[s])
    BY <2>1, LenProperties
  <2>3. copier[s].state \in {"reading", "ended", "failed"}
    BY <2>1 DEF CopierRow
  <2> QED BY <2>2, <2>3 DEF CallInv, StreamsOK, StreamOK
<1>4. ASSUME NEW s \in Streams, NEW r \in Logged(s) PROVE r.from < r.to /\ r.to <= copier[s].sent
  BY <1>3, <1>4 DEF Logged, LoggedOK
<1>5. CommandsTypeOK
  BY <1>1, <1>2, <1>3, <1>4 DEF CommandsTypeOK
<1>6. ASSUME NEW s \in Streams
      PROVE  /\ \A a, b \in DOMAIN logged[s] : a < b => logged[s][a].to <= logged[s][b].from
             /\ \A i \in 1..copier[s].sent : printed[s].text[i] = "c" => \E e \in Logged(s) : e.from < i /\ i <= e.to
  <2>1. \A i \in 1..copier[s].sent : printed[s].text[i] = "c" => \E k \in 1..Len(logged[s]) : logged[s][k].from < i /\ i <= logged[s][k].to
    BY <1>3 DEF LoggedOK
  <2>2. \A k \in 1..Len(logged[s]) : logged[s][k] \in Logged(s)
    BY <1>3 DEF Logged
  <2>3. \A a, b \in 1..Len(logged[s]) : a < b => logged[s][a].to <= logged[s][b].from
    BY <1>3 DEF LoggedOK
  <2> QED BY <1>3, <2>1, <2>2, <2>3
<1>7. LogIsTheOutput
  BY <1>2, <1>6 DEF LogIsTheOutput
<1>8. SuccessIsComplete
  BY <1>2 DEF SuccessIsComplete, CallInv, EndsOK, ReportOK
<1>9. ResultIsTheOutput
  BY DEF ResultIsTheOutput, CallInv, EndsOK, ReportOK, KeptOK
<1>10. NoCaptureIsLeft
  BY DEF NoCaptureIsLeft, CallInv, EndsOK
<1> QED BY <1>5, <1>7, <1>8, <1>9, <1>10

LEMMA CallStart == CommandsInit => CallInv
<1> SUFFICES ASSUME CommandsInit PROVE CallInv
  OBVIOUS
<1>1. /\ command = NoCommand /\ process = NotStarted /\ printed = [s \in {} |-> 0]
      /\ copier = [s \in {} |-> NoneCopied] /\ logged = [s \in {} |-> <<>>]
      /\ capture = "none" /\ reported = NoReport /\ commandsRun = 0
  BY DEF CommandsInit
<1>2. Streams = {} /\ DOMAIN reported.kept = {} /\ reported.ok = FALSE
  BY <1>1 DEF NoReport, Streams
<1>3. /\ command \in [at : {"idle", "start", "run", "closed"}, pty : BOOLEAN, captures : BOOLEAN]
      /\ command.at = "idle"
      /\ process \in [state : {"none", "running", "done", "failed", "killed"}, held : BOOLEAN]
      /\ process.state = "none"
  BY <1>1 DEF NoCommand, NotStarted
<1>4. /\ printed \in [Streams -> Output] /\ copier \in [Streams -> CopierRow] /\ logged \in [Streams -> Seq(Record)]
  BY <1>1, <1>2
<1>5. 0 \in 0..MaxCommands
  BY CommandsAssumption
<1>6. CallTyped
  BY <1>1, <1>2, <1>3, <1>4, <1>5 DEF CallTyped
<1>7. StreamsOK /\ EndsOK
  BY <1>2, <1>3 DEF StreamsOK, EndsOK, ReportOK
<1> QED BY <1>6, <1>7 DEF CallInv

LEMMA AskKeeps == ASSUME CallInv, Ask PROVE CallInv'
<1>1. PICK r \in Requests :
       /\ command' = r
       /\ capture' = IF r.captures THEN "empty" ELSE "none"
       /\ \E t \in [StreamsOf(r.pty) -> Texts] :
            printed' = [s \in DOMAIN t |-> [text |-> t[s], out |-> 0]]
       /\ copier' = [s \in StreamsOf(r.pty) |-> NoneCopied]
       /\ logged' = [s \in StreamsOf(r.pty) |-> <<>>]
  BY DEF Ask
<1>2. PICK t \in [StreamsOf(r.pty) -> Texts] : printed' = [s \in DOMAIN t |-> [text |-> t[s], out |-> 0]]
  BY <1>1
<1>3. PICK streams : streams = StreamsOf(r.pty)
  OBVIOUS
<1>4. /\ streams \subseteq {"stdout", "stderr", "terminal"} /\ DOMAIN t = streams
      /\ \A s \in streams : t[s] \in Text
  BY <1>3, CommandsAssumption DEF StreamsOf, PipedStreams, Text
<1>5. /\ r \in [at : {"idle", "start", "run", "closed"}, pty : BOOLEAN, captures : BOOLEAN]
      /\ r.at = "start"
  <2>1. PICK pty \in BOOLEAN, captures \in BOOLEAN : r = commandRequest(pty, captures)
    BY DEF Requests, ApplyPatch, ShellExec, RunTests, RunBuild, GitStatus, GitDiff, GitShow, GitLog,
           claudeCode, codex
  <2>2. r = [at |-> "start", pty |-> pty, captures |-> captures]
    BY <2>1 DEF commandRequest
  <2> QED BY <2>2
<1>6. /\ expired' = FALSE /\ reported' = NoReport /\ process' = NotStarted
      /\ commandsRun' = commandsRun + 1 /\ commandsRun < MaxCommands
  BY DEF Ask
<1>7. commandsRun' \in 0..MaxCommands
  BY <1>6, CommandsAssumption DEF CallInv, CallTyped
<1>8. Streams' = streams
  BY <1>2, <1>4 DEF Streams
<1>9. ASSUME NEW s \in streams
      PROVE  /\ printed'[s] = [text |-> t[s], out |-> 0] /\ copier'[s] = NoneCopied /\ logged'[s] = <<>>
  BY <1>1, <1>2, <1>3, <1>4
<1>10. /\ process' \in [state : {"none", "running", "done", "failed", "killed"}, held : BOOLEAN]
       /\ process'.state = "none"
  BY <1>6 DEF NotStarted
<1>11. /\ printed' \in [Streams' -> Output] /\ copier' \in [Streams' -> CopierRow]
       /\ logged' \in [Streams' -> Seq(Record)]
  <2>1. ASSUME NEW s \in streams
        PROVE  [text |-> t[s], out |-> 0] \in Output
    BY <1>4 DEF Output
  <2>2. NoneCopied \in CopierRow
    BY DEF NoneCopied, CopierRow
  <2>3. <<>> \in Seq(Record)
    BY EmptySeq
  <2> QED BY <1>1, <1>2, <1>3, <1>4, <1>8, <2>1, <2>2, <2>3
<1>12. command'.at = "start" /\ command'.pty = r.pty /\ capture' \in {"none", "empty", "answer"}
  BY <1>1, <1>5
<1>13. CallTyped'
  BY <1>1, <1>3, <1>4, <1>5, <1>7, <1>8, <1>10, <1>11, <1>12 DEF CallTyped
<1>14. ASSUME NEW s \in streams PROVE StreamOK(s)'
  <2>1. t[s] \in Seq({"c", "n"}) /\ Len(t[s]) \in Nat
    BY <1>4, LenProperties DEF Text
  <2>2. LoggedOK(t[s], <<>>, 0)
    BY DEF LoggedOK
  <2>3. /\ printed'[s].text = t[s] /\ printed'[s].out = 0 /\ copier'[s].sent = 0 /\ copier'[s].taken = 0
        /\ copier'[s].state = "reading" /\ logged'[s] = <<>>
    <3>1. printed'[s] = [text |-> t[s], out |-> 0] /\ copier'[s] = NoneCopied /\ logged'[s] = <<>>
      BY <1>9
    <3>2. NoneCopied.sent = 0 /\ NoneCopied.taken = 0 /\ NoneCopied.state = "reading"
      BY DEF NoneCopied
    <3> QED BY <3>1, <3>2
  <2>4. (copier[s].sent <= copier[s].taken /\ copier[s].taken <= printed[s].out /\ printed[s].out <= Len(printed[s].text))'
    BY <2>1, <2>3
  <2> QED BY <1>10, <2>2, <2>3, <2>4 DEF StreamOK
<1>15. StreamsOK'
  BY <1>8, <1>14 DEF StreamsOK
<1>16. EndsOK'
  BY <1>10, <1>12 DEF EndsOK
<1> QED BY <1>13, <1>15, <1>16 DEF CallInv

\* Steps of the process, the clock and the caller, beside which the streams stay.
LEMMA StreamsStay ==
  ASSUME CallInv, UNCHANGED <<printed, copier, logged>>,
         process'.state = "done" => \A s \in Streams : printed[s].out = Len(printed[s].text),
         command'.at # "idle" => /\ command.at # "idle"
                                 /\ process.state \notin {"none", "running"} => process'.state \notin {"none", "running"}
  PROVE  StreamsOK'
<1>1. ASSUME NEW s \in Streams PROVE StreamOK(s)'
  <2>1. StreamOK(s)
    BY DEF CallInv, StreamsOK
  <2> QED BY <2>1 DEF StreamOK
<1>2. Streams' = Streams
  BY DEF Streams
<1> QED BY <1>1, <1>2 DEF StreamsOK

LEMMA ProcessKeeps ==
  ASSUME CallInv, StartProcess \/ Exit \/ ChildrenEnd \/ Deadline \/ Kill \/ CloseTerminal
  PROVE  CallInv'
<1>1. /\ command \in [at : {"idle", "start", "run", "closed"}, pty : BOOLEAN, captures : BOOLEAN]
      /\ process \in [state : {"none", "running", "done", "failed", "killed"}, held : BOOLEAN]
      /\ capture \in {"none", "empty", "answer"}
      /\ \A s \in Streams : StreamOK(s)
      /\ command.at = "idle" => process.state # "running"
      /\ command.at = "start" => process.state = "none"
  BY DEF CallInv, CallTyped, StreamsOK, EndsOK
<1>2. CASE StartProcess
  <2>1. /\ command.at = "start" /\ command' = [command EXCEPT !.at = "run"]
        /\ process' = [state |-> "running", held |-> FALSE]
        /\ UNCHANGED <<printed, copier, logged, expired, capture, reported, commandsRun>>
    BY <1>2 DEF StartProcess
  <2>2. /\ command' \in [at : {"idle", "start", "run", "closed"}, pty : BOOLEAN, captures : BOOLEAN]
        /\ command'.at = "run" /\ command'.pty = command.pty
    BY <1>1, <2>1
  <2>3. /\ process' \in [state : {"none", "running", "done", "failed", "killed"}, held : BOOLEAN]
        /\ process'.state = "running"
    BY <2>1
  <2>4. CallTyped'
    BY <2>1, <2>2, <2>3 DEF CallInv, CallTyped, Streams
  <2>5. process.state = "none"
    BY <1>1, <2>1
  <2>6. StreamsOK'
    BY <2>1, <2>2, <2>3, <2>5, StreamsStay
  <2> QED BY <2>2, <2>4, <2>6 DEF CallInv, EndsOK
<1>3. CASE Exit
  <2>1. PICK how \in {"done", "failed"}, held \in BOOLEAN :
          /\ how = "done" => \A s \in DOMAIN printed : printed[s].out = Len(printed[s].text)
          /\ process' = [state |-> how, held |-> held]
          /\ capture' \in IF how = "done" /\ command.captures THEN {"empty", "answer"} ELSE {capture}
    BY <1>3 DEF Exit
  <2>2. process.state = "running" /\ UNCHANGED <<command, printed, copier, logged, expired, reported, commandsRun>>
    BY <1>3 DEF Exit
  <2>3. /\ process' \in [state : {"none", "running", "done", "failed", "killed"}, held : BOOLEAN]
        /\ process'.state = how
    BY <2>1
  <2>4. capture' \in {"none", "empty", "answer"}
    BY <1>1, <2>1
  <2>5. CallTyped'
    BY <2>2, <2>3, <2>4 DEF CallInv, CallTyped, Streams
  <2>6. command.at \notin {"idle", "start"}
    BY <1>1, <2>2
  <2>7. StreamsOK'
    BY <2>1, <2>2, <2>3, <2>6, StreamsStay DEF Streams
  <2> QED BY <2>2, <2>5, <2>6, <2>7 DEF CallInv, EndsOK
<1>4. CASE ChildrenEnd
  <2>1. /\ process.state # "running" /\ process' = [process EXCEPT !.held = FALSE]
        /\ UNCHANGED <<command, printed, copier, logged, expired, capture, reported, commandsRun>>
    BY <1>4 DEF ChildrenEnd
  <2>2. /\ process' \in [state : {"none", "running", "done", "failed", "killed"}, held : BOOLEAN]
        /\ process'.state = process.state
    BY <1>1, <2>1
  <2>3. CallTyped'
    BY <2>1, <2>2 DEF CallInv, CallTyped, Streams
  <2>4. StreamsOK'
    BY <1>1, <2>1, <2>2, StreamsStay DEF StreamOK
  <2>5. ReportOK => ReportOK'
    BY <2>1, <2>2 DEF ReportOK, KeptOK, Streams
  <2>6. EndsOK'
    BY <2>1, <2>2, <2>5 DEF CallInv, EndsOK
  <2> QED BY <2>3, <2>4, <2>6 DEF CallInv
<1>5. CASE Deadline
  <2>1. /\ command.at # "idle"
        /\ UNCHANGED <<command, process, printed, copier, logged, capture, reported, commandsRun>>
    BY <1>5 DEF Deadline
  <2>2. CallTyped' /\ EndsOK'
    BY <2>1 DEF CallInv, CallTyped, Streams, EndsOK
  <2>3. StreamsOK'
    BY <1>1, <2>1, StreamsStay DEF StreamOK
  <2> QED BY <2>2, <2>3 DEF CallInv
<1>6. CASE Kill
  <2>1. PICK held \in BOOLEAN : process' = [state |-> "killed", held |-> held]
    BY <1>6 DEF Kill
  <2>2. /\ process.state = "running"
        /\ UNCHANGED <<command, printed, copier, logged, expired, capture, reported, commandsRun>>
    BY <1>6 DEF Kill
  <2>3. /\ process' \in [state : {"none", "running", "done", "failed", "killed"}, held : BOOLEAN]
        /\ process'.state = "killed"
    BY <2>1
  <2>4. command.at \notin {"idle", "start"}
    BY <1>1, <2>2
  <2>5. CallTyped'
    BY <2>2, <2>3 DEF CallInv, CallTyped, Streams
  <2>6. StreamsOK'
    BY <2>2, <2>3, <2>4, StreamsStay
  <2> QED BY <2>2, <2>4, <2>5, <2>6 DEF CallInv, EndsOK
<1>7. CASE CloseTerminal
  <2>1. /\ command.at = "run" /\ command.pty /\ process.state \notin {"none", "running"}
        /\ command' = [command EXCEPT !.at = "closed"]
        /\ UNCHANGED <<process, printed, copier, logged, expired, capture, reported, commandsRun>>
    BY <1>7 DEF CloseTerminal
  <2>2. /\ command' \in [at : {"idle", "start", "run", "closed"}, pty : BOOLEAN, captures : BOOLEAN]
        /\ command'.at = "closed" /\ command'.pty = command.pty
    BY <1>1, <2>1
  <2>3. CallTyped'
    BY <2>1, <2>2 DEF CallInv, CallTyped, Streams
  <2>4. StreamsOK'
    BY <1>1, <2>1, <2>2, StreamsStay DEF StreamOK
  <2> QED BY <2>1, <2>2, <2>3, <2>4 DEF CallInv, EndsOK
<1> QED BY <1>2, <1>3, <1>4, <1>5, <1>6, <1>7

LEMMA PrintKeeps == ASSUME CallInv, NEW s \in Streams, PrintMore(s) PROVE CallInv'
<1>1. PICK n \in (printed[s].out + 1)..Len(printed[s].text) : printed' = [printed EXCEPT ![s].out = n]
  BY DEF PrintMore
<1>2. process.state = "running" /\ UNCHANGED <<command, process, copier, logged, expired, capture, reported, commandsRun>>
  BY DEF PrintMore
<1>3. PICK p : p = printed[s]
  OBVIOUS
<1>4. printed \in [Streams -> Output] /\ p \in Output /\ p.text \in Text /\ p.out \in Nat
  BY <1>3 DEF CallInv, CallTyped, Output
<1>5. Len(p.text) \in Nat
  BY <1>4, LenProperties DEF Text
<1>6. n \in Nat /\ p.out <= n /\ n <= Len(p.text)
  BY <1>1, <1>3, <1>4, <1>5
<1>7. PICK o : o = [p EXCEPT !.out = n]
  OBVIOUS
<1>8. o \in Output /\ o.text = p.text /\ o.out = n
  BY <1>4, <1>6, <1>7 DEF Output
<1>9. printed' = [printed EXCEPT ![s] = o]
  BY <1>1, <1>3, <1>7
<1>10. printed' \in [Streams -> Output] /\ Streams' = Streams /\ printed'[s] = o /\ \A v \in Streams : v # s => printed'[v] = printed[v]
  BY <1>4, <1>8, <1>9 DEF Streams
<1>11. CallTyped'
  BY <1>2, <1>10 DEF CallInv, CallTyped
<1>12. command.at # "idle" /\ command.at # "start"
  BY <1>2 DEF CallInv, EndsOK
<1>13. ASSUME NEW v \in Streams PROVE StreamOK(v)'
  <2>1. StreamOK(v) /\ copier[v] \in CopierRow /\ copier[v].taken \in Nat
    BY DEF CallInv, StreamsOK, CallTyped, CopierRow
  <2>2. CASE v # s
    <3>1. printed'[v] = printed[v]
      BY <1>10, <2>2
    <3> QED BY <1>2, <2>1, <3>1 DEF StreamOK
  <2>3. CASE v = s
    <3>1. copier[v].taken <= n
      BY <1>3, <1>4, <1>6, <2>1, <2>3 DEF StreamOK
    <3>2. /\ printed[v].text = p.text /\ printed'[v].text = p.text /\ printed'[v].out = n /\ n <= Len(p.text)
      BY <1>3, <1>6, <1>8, <1>10, <2>3
    <3> QED BY <1>2, <1>12, <2>1, <3>1, <3>2 DEF StreamOK
  <2> QED BY <2>2, <2>3
<1>14. StreamsOK'
  BY <1>10, <1>13 DEF StreamsOK
<1> QED BY <1>2, <1>11, <1>12, <1>14 DEF CallInv, EndsOK

LEMMA OutputTyped ==
  ASSUME CallInv, NEW s \in Streams
  PROVE  /\ copier[s] \in CopierRow /\ copier[s].taken \in Nat /\ copier[s].sent \in Nat
         /\ copier[s].state \in {"reading", "ended", "failed"}
         /\ printed[s] \in Output /\ printed[s].out \in Nat /\ printed[s].text \in Text /\ Len(printed[s].text) \in Nat
         /\ logged[s] \in Seq(Record) /\ DOMAIN copier = Streams /\ DOMAIN logged = Streams
         /\ StreamOK(s)
<1>1. copier[s] \in CopierRow /\ printed[s] \in Output /\ logged[s] \in Seq(Record) /\ DOMAIN copier = Streams /\ DOMAIN logged = Streams
  BY DEF CallInv, CallTyped
<1>2. printed[s].text \in Text
  BY <1>1 DEF Output
<1>3. Len(printed[s].text) \in Nat
  BY <1>2, LenProperties DEF Text
<1> QED BY <1>1, <1>2, <1>3 DEF CopierRow, Output, CallInv, StreamsOK

\* A goroutine has read up to n and sent what q has.
LEMMA ReadMore ==
  ASSUME CallInv, NEW s \in Streams, command.at # "idle", command.at # "start",
         NEW n \in (copier[s].taken + 1)..printed[s].out,
         NEW c \in CopierRow, c.taken = n, c.sent \in copier[s].sent..n, c.state \in {"reading", "failed"},
         s = "terminal" /\ c.state = "reading" => c.sent = n,
         copier' = [copier EXCEPT ![s] = c],
         NEW q \in Seq(Record), logged' = [logged EXCEPT ![s] = @ \o q],
         Continues(printed[s].text, q, copier[s].sent, c.sent),
         UNCHANGED <<command, process, printed, expired, capture, reported, commandsRun>>
  PROVE  CallInv'
<1>1. /\ copier[s].taken \in Nat /\ copier[s].sent \in Nat /\ printed[s].out \in Nat /\ Len(printed[s].text) \in Nat
      /\ logged[s] \in Seq(Record) /\ StreamOK(s) /\ DOMAIN copier = Streams /\ DOMAIN logged = Streams
  BY OutputTyped
<1>2. c.sent \in Nat /\ copier[s].sent <= c.sent /\ c.sent <= n /\ n <= printed[s].out
  BY <1>1
<1>3. PICK log : log = logged[s] \o q
  OBVIOUS
<1>4. LoggedOK(printed[s].text, logged[s], copier[s].sent)
  BY <1>1 DEF StreamOK
<1>5. log \in Seq(Record) /\ LoggedOK(printed[s].text, log, c.sent)
  BY <1>1, <1>2, <1>3, <1>4, LoggedMore
<1>6. Streams' = Streams
  BY DEF Streams
<1>7. /\ copier'[s] = c /\ logged'[s] = log
      /\ \A v \in Streams : v # s => copier'[v] = copier[v] /\ logged'[v] = logged[v]
      /\ copier' \in [Streams -> CopierRow] /\ logged' \in [Streams -> Seq(Record)]
  BY <1>1, <1>3, <1>5 DEF CallInv, CallTyped
<1>8. CallTyped'
  BY <1>6, <1>7 DEF CallInv, CallTyped
<1>9. ASSUME NEW v \in Streams PROVE StreamOK(v)'
  <2>1. CASE v # s
    <3>1. StreamOK(v) /\ copier'[v] = copier[v] /\ logged'[v] = logged[v]
      BY <1>7, <2>1 DEF CallInv, StreamsOK
    <3> QED BY <3>1 DEF StreamOK
  <2>2. CASE v = s
    <3>1. copier'[v] = c /\ logged'[v] = log
      BY <1>7, <2>2
    <3> QED BY <1>1, <1>2, <1>5, <2>2, <3>1 DEF StreamOK
  <2> QED BY <2>1, <2>2
<1>10. StreamsOK'
  BY <1>6, <1>9 DEF StreamsOK
<1> QED BY <1>8, <1>10 DEF CallInv, EndsOK

LEMMA LogIs == ASSUME NEW s, NEW set, Log(s, set) PROVE logged' = [logged EXCEPT ![s] = @ \o ByPlace(Stored(s, set))]
BY DEF Log

\* A line ends with a newline.
LEMMA LineEnds ==
  ASSUME NEW s, NEW tx, tx = printed[s].text, NEW from \in Nat, NEW n \in Nat, NEW r \in LineRecords(s, from, n)
  PROVE  tx[r.to] = "n"
<1>1. PICK i \in from..n : r = [from |-> i, to |-> EndOfLine(tx, i, n)] /\ EndOfLine(tx, i, n) > 0
  BY DEF LineRecords
<1>2. PICK e : e = EndOfLine(tx, i, n)
  OBVIOUS
<1>3. e # 0 /\ tx[e] = "n"
  <2>1. e > 0 /\ i \in Nat
    BY <1>1, <1>2
  <2>2. e # 0 => tx[e] = "n"
    BY <1>2, <2>1, EndOfLineIs
  <2>3. e # 0
    BY <2>1
  <2> QED BY <2>2, <2>3
<1>4. r.to = e
  BY <1>1, <1>2
<1> QED BY <1>3, <1>4

\* How far whole lines reach.
Reach(recs, from) ==
  IF recs = {} THEN from ELSE CHOOSE p \in {r.to : r \in recs} : \A r \in recs : r.to <= p

LEMMA SentUpTo ==
  ASSUME NEW s, NEW tx, tx = printed[s].text, NEW sent \in Nat, NEW n \in Nat, sent <= n,
         NEW recs, recs = LineRecords(s, sent, n),
         NEW new, new = Reach(recs, sent)
  PROVE  new \in sent..n /\ (new = sent \/ tx[new] = "n") /\ \A r \in recs : r.to <= new
<1>1. Pieces1(tx, sent, n, recs)
  BY LinesArePieces
<1>2. IsFiniteSet(recs)
  BY <1>1, PiecesAreFinite
<1>3. \A r \in recs : r \in Record /\ sent <= r.from /\ r.from < r.to /\ r.to <= n /\ tx[r.to] = "n"
  BY <1>1, PieceIs, LineEnds DEF Pieces1
<1>4. CASE recs = {}
  BY <1>4 DEF Reach
<1>5. CASE recs # {}
  <2>1. PICK ends : ends = {r.to : r \in recs}
    OBVIOUS
  <2>2. IsFiniteSet(ends)
    <3> DEFINE f == [r \in recs |-> r.to]
    <3>1. f \in Surjection(recs, ends)
      BY <2>1 DEF Surjection
    <3> QED BY <1>2, <3>1, FS_Surjection
  <2>3. ends \subseteq Nat /\ ends # {}
    BY <1>3, <1>5, <2>1 DEF Record
  <2>4. PICK m \in ends : \A e \in ends : e <= m
    BY <2>2, <2>3, GreatestOf
  <2>5. new = CHOOSE p \in ends : \A r \in recs : r.to <= p
    BY <1>5, <2>1 DEF Reach
  <2>6. \E p \in ends : \A r \in recs : r.to <= p
    BY <2>1, <2>4
  <2>7. new \in ends /\ \A r \in recs : r.to <= new
    BY <2>5, <2>6
  <2>8. PICK r \in recs : new = r.to
    BY <2>1, <2>7
  <2>9. r \in Record /\ sent <= r.from /\ r.from < r.to /\ r.to <= n /\ tx[r.to] = "n"
    BY <1>3
  <2>10. new \in sent..n
    <3>1. r.from \in Nat /\ r.to \in Nat
      BY <2>9 DEF Record
    <3> QED BY <2>8, <2>9, <3>1
  <2> QED BY <2>7, <2>8, <2>9, <2>10
<1> QED BY <1>4, <1>5

LEMMA CopyKeeps == ASSUME CallInv, NEW s \in Streams, Copy(s) PROVE CallInv'
<1>1. /\ command.at \in {"run", "closed"} /\ copier[s].state = "reading"
      /\ UNCHANGED <<command, process, printed, expired, capture, reported, commandsRun>>
  BY DEF Copy
<1>2. PICK n \in (copier[s].taken + 1)..printed[s].out :
       \/ command.pty /\ (SendChunk(s, n) \/ ChunkFails(s, n))
       \/ ~command.pty /\ (flushLines(s, n) \/ SinkFails(s, n))
  BY DEF Copy
<1>3. PICK old, tx : old = copier[s] /\ tx = printed[s].text
  OBVIOUS
<1>4. /\ old \in CopierRow /\ old.taken \in Nat /\ old.sent \in Nat /\ old.sent <= old.taken
      /\ old.state = "reading"
      /\ logged[s] \in Seq(Record) /\ DOMAIN copier = Streams /\ DOMAIN logged = Streams
      /\ s = "terminal" => old.sent = old.taken
      /\ printed[s].out \in Nat
  BY <1>1, <1>3, OutputTyped DEF StreamOK
<1>5. n \in Nat /\ old.taken < n /\ old.sent < n /\ old.sent <= n
  BY <1>3, <1>4
<1>6. Streams = StreamsOf(command.pty)
  BY <1>1 DEF CallInv, CallTyped
<1>7. command.pty => s = "terminal"
  BY <1>6 DEF StreamsOf
<1>8. ~command.pty => s # "terminal"
  BY <1>6 DEF StreamsOf, PipedStreams
<1>9. CASE command.pty /\ SendChunk(s, n)
  <2>1. PICK c : c = [old EXCEPT !.taken = n, !.sent = n]
    OBVIOUS
  <2>2. c \in CopierRow /\ c.taken = n /\ c.sent = n /\ c.state = "reading"
    BY <1>4, <1>5, <2>1 DEF CopierRow
  <2>3. PICK q : q = ByPlace(Stored(s, {[from |-> old.sent, to |-> n]}))
    OBVIOUS
  <2>4. q \in Seq(Record) /\ Continues(tx, q, old.sent, n)
    BY <1>3, <1>4, <1>5, <2>3, ChunkContinues
  <2>5. copier' = [copier EXCEPT ![s] = c] /\ logged' = [logged EXCEPT ![s] = @ \o q]
    BY <1>3, <1>4, <1>7, <1>9, <2>1, <2>3 DEF SendChunk, Log
  <2>6. c.sent \in old.sent..n
    BY <1>4, <1>5, <2>2
  <2> QED BY <1>1, <1>3, <2>2, <2>4, <2>5, <2>6, ReadMore
<1>10. CASE command.pty /\ ChunkFails(s, n)
  <2>1. PICK c : c = [old EXCEPT !.taken = n, !.state = "failed"]
    OBVIOUS
  <2>2. c \in CopierRow /\ c.taken = n /\ c.sent = old.sent /\ c.state = "failed"
    BY <1>4, <1>5, <2>1 DEF CopierRow
  <2>3. PICK q : q = <<>>
    OBVIOUS
  <2>4. q \in Seq(Record) /\ Len(q) = 0
    BY <2>3, EmptySeq
  <2>5. Continues(tx, q, old.sent, old.sent)
    BY <1>4, <2>4 DEF Continues
  <2>6. copier' = [copier EXCEPT ![s] = c] /\ logged' = logged
    BY <1>3, <1>10, <2>1 DEF ChunkFails
  <2>7. logged[s] \o q = logged[s]
    BY <1>4, <2>3, ConcatEmptySeq
  <2>8. logged' = [logged EXCEPT ![s] = @ \o q]
    BY <1>4, <2>6, <2>7 DEF CallInv, CallTyped
  <2>9. c.sent \in old.sent..n
    BY <1>4, <1>5, <2>2
  <2> QED BY <1>1, <1>3, <2>2, <2>4, <2>5, <2>6, <2>8, <2>9, ReadMore
<1>11. CASE ~command.pty /\ flushLines(s, n)
  <2>0. PICK m \in Nat : m = old.sent /\ m <= n
    BY <1>4, <1>5
  <2>1. PICK recs : recs = LineRecords(s, m, n)
    OBVIOUS
  <2>2. PICK new : new = Reach(recs, m)
    OBVIOUS
  <2>3. new \in m..n /\ (new = m \/ tx[new] = "n") /\ \A r \in recs : r.to <= new
    BY <1>3, <1>5, <2>0, <2>1, <2>2, SentUpTo
  <2>4. PICK c : c = [old EXCEPT !.taken = n, !.sent = new]
    OBVIOUS
  <2>5. c \in CopierRow /\ c.taken = n /\ c.sent = new /\ c.state = "reading"
    <3>1. new \in Nat
      BY <2>0, <2>3
    <3> QED BY <1>4, <1>5, <2>4, <3>1 DEF CopierRow
  <2>6. PICK q : q = ByPlace(Stored(s, recs))
    OBVIOUS
  <2>7. q \in Seq(Record) /\ Continues(tx, q, m, new)
    BY <1>3, <1>5, <2>0, <2>1, <2>3, <2>6, LinesContinue
  <2>8. copier' = [copier EXCEPT ![s] = c] /\ logged' = [logged EXCEPT ![s] = @ \o q]
    <3>1. /\ Log(s, recs)
          /\ copier' = [copier EXCEPT ![s].taken = n, ![s].sent = Reach(recs, m)]
      BY <1>3, <1>11, <2>0, <2>1 DEF flushLines, Reach
    <3>2. logged' = [logged EXCEPT ![s] = @ \o q]
      BY <2>6, <3>1, LogIs
    <3>3. copier' = [copier EXCEPT ![s] = c]
      BY <1>3, <2>2, <2>4, <3>1
    <3> QED BY <3>2, <3>3
  <2> QED BY <1>1, <1>3, <1>8, <1>11, <2>0, <2>3, <2>5, <2>7, <2>8, ReadMore
<1>12. CASE ~command.pty /\ SinkFails(s, n)
  <2>1. PICK r \in Stored(s, LineRecords(s, old.sent, n)) :
          /\ Log(s, LineRecords(s, old.sent, r.from))
          /\ copier' = [copier EXCEPT ![s].taken = n, ![s].sent = r.from, ![s].state = "failed"]
    BY <1>3, <1>12 DEF SinkFails
  <2>2. Piece(tx, old.sent, n, r)
    <3>1. Pieces1(tx, old.sent, n, LineRecords(s, old.sent, n))
      BY <1>3, <1>4, <1>5, LinesArePieces
    <3>2. r \in LineRecords(s, old.sent, n)
      BY <1>3, <2>1, StoredIs
    <3> QED BY <3>1, <3>2 DEF Pieces1
  <2>3. r \in Record /\ old.sent <= r.from /\ r.from < r.to /\ r.to <= n /\ (r.from = old.sent \/ tx[r.from] = "n")
    BY <1>4, <1>5, <2>2, PieceIs DEF Piece, Begins
  <2>4. PICK new : new = r.from
    OBVIOUS
  <2>5. new \in Nat /\ new \in old.sent..n /\ new \in old.sent..new /\ (new = old.sent \/ tx[new] = "n")
    BY <1>4, <1>5, <2>3, <2>4 DEF Record
  <2>6. PICK recs : recs = LineRecords(s, old.sent, new)
    OBVIOUS
  <2>7. \A p \in recs : p.to <= new
    <3>1. Pieces1(tx, old.sent, new, recs)
      BY <1>3, <1>4, <2>5, <2>6, LinesArePieces
    <3> QED BY <1>4, <2>5, <3>1, PieceIs DEF Pieces1
  <2>8. PICK q : q = ByPlace(Stored(s, recs))
    OBVIOUS
  <2>9. q \in Seq(Record) /\ Continues(tx, q, old.sent, new)
    BY <1>3, <1>4, <2>5, <2>6, <2>7, <2>8, LinesContinue
  <2>10. PICK c : c = [old EXCEPT !.taken = n, !.sent = new, !.state = "failed"]
    OBVIOUS
  <2>11. c \in CopierRow /\ c.taken = n /\ c.sent = new /\ c.state = "failed"
    BY <1>4, <1>5, <2>5, <2>10 DEF CopierRow
  <2>12. copier' = [copier EXCEPT ![s] = c]
    BY <1>3, <2>1, <2>4, <2>10
  <2>13. logged' = [logged EXCEPT ![s] = @ \o q]
    BY <2>1, <2>4, <2>6, <2>8, LogIs
  <2> QED BY <1>1, <1>3, <2>5, <2>9, <2>11, <2>12, <2>13, ReadMore
<1> QED BY <1>2, <1>9, <1>10, <1>11, <1>12

LEMMA EndOfStreamKeeps == ASSUME CallInv, NEW s \in Streams, EndOfStream(s) PROVE CallInv'
<1>1. /\ process.state \notin {"none", "running"} /\ copier[s].state = "reading"
      /\ command.pty \/ copier[s].taken = printed[s].out
      /\ copier' = [copier EXCEPT ![s].state = "ended"]
      /\ UNCHANGED <<command, process, printed, logged, expired, capture, reported, commandsRun>>
  BY DEF EndOfStream
<1>2. PICK old : old = copier[s]
  OBVIOUS
<1>3. old \in CopierRow /\ StreamOK(s) /\ DOMAIN copier = Streams
  BY <1>2, OutputTyped
<1>4. PICK c : c = [old EXCEPT !.state = "ended"]
  OBVIOUS
<1>5. c \in CopierRow /\ c.taken = old.taken /\ c.sent = old.sent /\ c.state = "ended"
  BY <1>3, <1>4 DEF CopierRow
<1>6. copier' = [copier EXCEPT ![s] = c] /\ Streams' = Streams
  BY <1>1, <1>2, <1>4 DEF Streams
<1>7. copier'[s] = c /\ copier' \in [Streams -> CopierRow] /\ \A v \in Streams : v # s => copier'[v] = copier[v]
  BY <1>3, <1>5, <1>6 DEF CallInv, CallTyped
<1>8. CallTyped'
  BY <1>1, <1>6, <1>7 DEF CallInv, CallTyped
<1>9. command.at # "idle" /\ command.pty => s = "terminal"
  BY DEF CallInv, CallTyped, StreamsOf
<1>10. ASSUME NEW v \in Streams PROVE StreamOK(v)'
  <2>1. CASE v # s
    <3>1. StreamOK(v) /\ copier'[v] = copier[v]
      BY <1>7, <2>1 DEF CallInv, StreamsOK
    <3> QED BY <1>1, <3>1 DEF StreamOK
  <2>2. CASE v = s
    <3>1. copier'[v] = c
      BY <1>7, <2>2
    <3> QED BY <1>1, <1>2, <1>3, <1>5, <1>9, <2>2, <3>1 DEF StreamOK
  <2> QED BY <2>1, <2>2
<1>11. StreamsOK'
  BY <1>6, <1>10 DEF StreamsOK
<1>12. \A v \in Streams : copier'[v].taken = copier[v].taken /\ copier'[v].sent = copier[v].sent
  BY <1>2, <1>5, <1>7
<1>13. ReportOK => ReportOK'
  BY <1>1, <1>6, <1>12 DEF ReportOK, KeptOK
<1> QED BY <1>1, <1>8, <1>11, <1>13 DEF CallInv, EndsOK

LEMMA StartFailsKeeps == ASSUME CallInv, StartFails PROVE CallInv'
<1>1. /\ command.at = "start" /\ command' = NoCommand
      /\ reported' = [ok |-> FALSE, late |-> ~command.pty /\ expired, kept |-> [s \in {} |-> 0], cut |-> FALSE]
      /\ capture' \in {capture, "none"}
      /\ UNCHANGED <<process, printed, copier, logged, expired, commandsRun>>
  BY DEF StartFails, RemoveCapture
<1>2. command' \in [at : {"idle", "start", "run", "closed"}, pty : BOOLEAN, captures : BOOLEAN] /\ command'.at = "idle"
  BY <1>1 DEF NoCommand
<1>3. process.state = "none"
  BY <1>1 DEF CallInv, EndsOK
<1>4. CallTyped'
  BY <1>1, <1>2 DEF CallInv, CallTyped, Streams
<1>5. reported'.ok = FALSE /\ DOMAIN reported'.kept = {}
  BY <1>1
<1>6. StreamsOK'
  BY <1>1, <1>2, <1>3, StreamsStay
<1>7. ReportOK'
  BY <1>5 DEF ReportOK
<1> QED BY <1>1, <1>2, <1>3, <1>4, <1>6, <1>7 DEF CallInv, EndsOK

\* What is said of a process that ended: success only where it, its copiers and the last flush did well.
LEMMA ReportIs ==
  ASSUME NEW copied \in BOOLEAN, NEW flushed \in BOOLEAN, NEW how \in Outcomes(copied, flushed), Report(how)
  PROVE  /\ reported'.ok => process.state = "done" /\ copied /\ flushed
         /\ DOMAIN reported'.kept = DOMAIN copier
         /\ \A s \in DOMAIN copier : \/ reported'.kept[s] = copier'[s].taken
                                     \/ reported'.cut /\ reported'.kept[s] = MaxOutput
<1>1. PICK kept : kept = [s \in DOMAIN copier |-> Cut(copier'[s].taken)]
  OBVIOUS
<1>2. PICK cut : cut = (\E s \in DOMAIN copier : copier'[s].taken > MaxOutput)
  OBVIOUS
<1>3. reported' = [ok |-> how = "ok", late |-> how = "other" /\ expired, kept |-> kept, cut |-> cut]
  BY <1>1, <1>2 DEF Report
<1>4. (reported'.ok <=> how = "ok") /\ reported'.kept = kept /\ (reported'.cut <=> cut)
  BY <1>3
<1>5. how = "ok" => process.state = "done" /\ copied /\ flushed
  BY DEF Outcomes
<1>6. ASSUME NEW s \in DOMAIN copier PROVE kept[s] = copier'[s].taken \/ (cut /\ kept[s] = MaxOutput)
  BY <1>1, <1>2 DEF Cut
<1> QED BY <1>1, <1>4, <1>5, <1>6

LEMMA PipedEnds == ASSUME CallInv, runPiped PROVE CallInv'
<1>1. /\ command.at = "run" /\ ~command.pty /\ process.state \notin {"none", "running"}
      /\ \A s \in DOMAIN copier : copier[s].state # "reading"
      /\ command' = NoCommand /\ capture' = "none"
      /\ UNCHANGED <<process, printed, expired, commandsRun>>
  BY DEF runPiped, RemoveCapture
<1>2. PICK upto :
       /\ \A s \in DOMAIN copier : upto[s] \in {copier[s].taken} \cup {r.from : r \in Rest(s)}
       /\ logged' = [s \in DOMAIN copier |-> logged[s] \o ByPlace({r \in Rest(s) : r.to <= upto[s]})]
       /\ copier' = [s \in DOMAIN copier |-> [copier[s] EXCEPT !.sent = upto[s]]]
       /\ \E how \in Outcomes(\A s \in DOMAIN copier : copier[s].state = "ended",
                               \A s \in DOMAIN copier : upto[s] = copier[s].taken) :
            Report(how)
  BY DEF runPiped
<1>3. DOMAIN copier = Streams /\ Streams' = Streams /\ Streams = StreamsOf(FALSE)
  BY <1>1 DEF CallInv, CallTyped, Streams, StreamsOf
<1>4. \A s \in Streams : s # "terminal"
  BY <1>3 DEF StreamsOf, PipedStreams
<1>5. ASSUME NEW s \in Streams
      PROVE  /\ copier'[s] \in CopierRow /\ copier'[s].sent = upto[s] /\ copier'[s].taken = copier[s].taken
             /\ copier'[s].state = copier[s].state
             /\ upto[s] \in Nat /\ upto[s] <= copier[s].taken
             /\ logged'[s] \in Seq(Record) /\ LoggedOK(printed[s].text, logged'[s], upto[s])
  <2>1. PICK old, tx, log, m, n : old = copier[s] /\ tx = printed[s].text /\ log = logged[s] /\ m = old.sent /\ n = old.taken
    OBVIOUS
  <2>2. old \in CopierRow /\ m \in Nat /\ n \in Nat /\ m <= n /\ log \in Seq(Record) /\ LoggedOK(tx, log, m)
    BY <2>1, OutputTyped DEF StreamOK
  <2>3. PICK new : new = upto[s]
    OBVIOUS
  <2>4. new \in {n} \cup {r.from : r \in Rest(s)}
    BY <1>2, <1>3, <2>1, <2>3
  <2>5. PICK q : q = ByPlace({r \in Rest(s) : r.to <= new})
    OBVIOUS
  <2>6. new \in m..n /\ q \in Seq(Record) /\ Continues(tx, q, m, new)
    BY <2>1, <2>2, <2>4, <2>5, RestContinues, SMTT(30)
  <2>7. new \in Nat /\ m <= new /\ new <= n
    BY <2>2, <2>6
  <2>8. log \o q \in Seq(Record) /\ LoggedOK(tx, log \o q, new)
    BY <2>2, <2>6, <2>7, LoggedMore
  <2>9. logged'[s] = log \o q
    BY <1>2, <1>3, <2>1, <2>3, <2>5
  <2>10. PICK c : c = [old EXCEPT !.sent = new]
    OBVIOUS
  <2>11. c \in CopierRow /\ c.sent = new /\ c.taken = n /\ c.state = old.state
    BY <2>1, <2>2, <2>7, <2>10 DEF CopierRow
  <2>12. copier'[s] = c
    BY <1>2, <1>3, <2>1, <2>3, <2>10
  <2> QED BY <2>1, <2>3, <2>7, <2>8, <2>9, <2>11, <2>12
<1>6. command' \in [at : {"idle", "start", "run", "closed"}, pty : BOOLEAN, captures : BOOLEAN] /\ command'.at = "idle"
  BY <1>1 DEF NoCommand
<1>7. copier' \in [Streams -> CopierRow] /\ logged' \in [Streams -> Seq(Record)]
  <2>1. DOMAIN copier' = Streams /\ copier' = [s \in Streams |-> copier'[s]]
    BY <1>2, <1>3
  <2>2. DOMAIN logged' = Streams /\ logged' = [s \in Streams |-> logged'[s]]
    BY <1>2, <1>3
  <2> QED BY <1>5, <2>1, <2>2
<1>8. CallTyped'
  BY <1>1, <1>3, <1>6, <1>7 DEF CallInv, CallTyped
<1>9. ASSUME NEW s \in Streams PROVE StreamOK(s)'
  <2>1. /\ copier[s].taken <= printed[s].out /\ printed[s].out <= Len(printed[s].text)
        /\ process.state = "done" => printed[s].out = Len(printed[s].text)
    BY DEF CallInv, StreamsOK, StreamOK
  <2> QED BY <1>1, <1>4, <1>5, <1>6, <2>1 DEF StreamOK
<1>10. StreamsOK'
  BY <1>3, <1>9 DEF StreamsOK
<1>11. PICK copied \in BOOLEAN, flushed \in BOOLEAN :
         /\ copied <=> \A s \in DOMAIN copier : copier[s].state = "ended"
         /\ flushed <=> \A s \in DOMAIN copier : upto[s] = copier[s].taken
         /\ \E how \in Outcomes(copied, flushed) : Report(how)
  <2>1. PICK copied : copied = \A s \in DOMAIN copier : copier[s].state = "ended"
    OBVIOUS
  <2>2. PICK flushed : flushed = \A s \in DOMAIN copier : upto[s] = copier[s].taken
    OBVIOUS
  <2>3. copied \in BOOLEAN /\ flushed \in BOOLEAN
    BY <2>1, <2>2
  <2>4. \E how \in Outcomes(copied, flushed) : Report(how)
    BY <1>2, <2>1, <2>2
  <2> QED BY <2>1, <2>2, <2>3, <2>4
<1>12. /\ reported'.ok => process.state = "done" /\ copied /\ flushed
       /\ DOMAIN reported'.kept = DOMAIN copier
       /\ \A s \in DOMAIN copier : \/ reported'.kept[s] = copier'[s].taken
                                   \/ reported'.cut /\ reported'.kept[s] = MaxOutput
  BY <1>11, ReportIs
<1>13. ASSUME reported'.ok, NEW s \in Streams PROVE copier'[s].sent = Len(printed'[s].text)
  <2>1. copier[s].state = "ended" /\ upto[s] = copier[s].taken /\ process.state = "done"
    BY <1>3, <1>11, <1>12, <1>13
  <2>2. copier[s].taken = printed[s].out /\ printed[s].out = Len(printed[s].text)
    BY <1>1, <1>4, <2>1 DEF CallInv, StreamsOK, StreamOK
  <2> QED BY <1>1, <1>5, <2>1, <2>2
<1>14. ReportOK'
  BY <1>1, <1>3, <1>12, <1>13 DEF ReportOK, KeptOK
<1> QED BY <1>1, <1>6, <1>8, <1>10, <1>14 DEF CallInv, EndsOK

LEMMA TerminalEnds == ASSUME CallInv, runPTY PROVE CallInv'
<1>1. /\ command.at = "closed" /\ command' = NoCommand /\ capture' = "none"
      /\ copier' = copier /\ UNCHANGED <<process, printed, logged, expired, commandsRun>>
      /\ \E how \in Outcomes(copier["terminal"].state = "ended", TRUE) : Report(how)
  BY DEF runPTY, RemoveCapture
<1>2. command.pty /\ Streams = {"terminal"}
  BY <1>1 DEF CallInv, CallTyped, StreamsOf
<1>3. command' \in [at : {"idle", "start", "run", "closed"}, pty : BOOLEAN, captures : BOOLEAN] /\ command'.at = "idle"
  BY <1>1 DEF NoCommand
<1>4. DOMAIN copier = Streams /\ Streams' = Streams
  BY <1>1 DEF CallInv, CallTyped, Streams
<1>5. CallTyped'
  BY <1>1, <1>3, <1>4 DEF CallInv, CallTyped
<1>6. StreamsOK'
  <2>1. process'.state = "done" => \A s \in Streams : printed[s].out = Len(printed[s].text)
    BY <1>1 DEF CallInv, StreamsOK, StreamOK
  <2> QED BY <1>1, <1>3, <2>1, StreamsStay
<1>7. PICK copied \in BOOLEAN : \E how \in Outcomes(copied, TRUE) : Report(how)
  <2>1. PICK copied : copied = (copier["terminal"].state = "ended")
    OBVIOUS
  <2>2. copied \in BOOLEAN
    BY <2>1
  <2> QED BY <1>1, <2>1, <2>2
<1>8. /\ reported'.ok => process.state = "done"
      /\ DOMAIN reported'.kept = DOMAIN copier
      /\ \A s \in DOMAIN copier : \/ reported'.kept[s] = copier'[s].taken
                                  \/ reported'.cut /\ reported'.kept[s] = MaxOutput
  BY <1>7, ReportIs
<1>9. ReportOK'
  BY <1>1, <1>2, <1>4, <1>8 DEF ReportOK, KeptOK
<1>10. process'.state # "running"
  BY <1>1 DEF CallInv, EndsOK
<1> QED BY <1>1, <1>3, <1>5, <1>6, <1>9, <1>10 DEF CallInv, EndsOK

LEMMA CallStep == ASSUME CallInv, [CommandsNext]_commandsVars PROVE CallInv'
<1>1. CASE Ask
  BY <1>1, AskKeeps
<1>2. CASE StartProcess \/ Exit \/ ChildrenEnd \/ Deadline \/ Kill \/ CloseTerminal
  BY <1>2, ProcessKeeps
<1>3. CASE StartFails
  BY <1>3, StartFailsKeeps
<1>4. CASE \E s \in DOMAIN printed : PrintMore(s) \/ Copy(s) \/ EndOfStream(s)
  <2>1. PICK s \in Streams : PrintMore(s) \/ Copy(s) \/ EndOfStream(s)
    BY <1>4 DEF Streams
  <2> QED BY <2>1, PrintKeeps, CopyKeeps, EndOfStreamKeeps
<1>5. CASE runPiped
  BY <1>5, PipedEnds
<1>6. CASE runPTY
  BY <1>6, TerminalEnds
<1>7. CASE UNCHANGED commandsVars
  <2>1. UNCHANGED <<command, process, printed, copier, logged, expired, capture, reported, commandsRun>>
    BY <1>7 DEF commandsVars
  <2>2. CallTyped' /\ EndsOK'
    BY <2>1 DEF CallInv, CallTyped, EndsOK, ReportOK, KeptOK, Streams
  <2>3. StreamsOK'
    BY <2>1, StreamsStay DEF CallInv, StreamsOK, StreamOK
  <2> QED BY <2>2, <2>3 DEF CallInv
<1> QED BY <1>1, <1>2, <1>3, <1>4, <1>5, <1>6, <1>7 DEF CommandsNext

LEMMA CallsAreRight == CommandsSpec => []CallInv
<1>1. CommandsInit => CallInv
  BY CallStart
<1>2. CallInv /\ [CommandsNext]_commandsVars => CallInv'
  BY CallStep
<1> QED BY <1>1, <1>2, PTL DEF CommandsSpec

-----------------------------------------------------------------------------
(* Paths: one below the other, and a directory that is a tree.             *)

LEMMA BelowIs ==
  ASSUME NEW p \in FilePaths, NEW q \in FilePaths
  PROVE  /\ Below(p, q) <=> Len(p) <= Len(q) /\ \A i \in 1..Len(p) : q[i] = p[i]
         /\ Len(p) \in Nat /\ Len(q) \in Nat
<1>1. Len(p) \in Nat /\ Len(q) \in Nat /\ p \in Seq(Names) /\ q \in Seq(Names)
  BY LenProperties DEF FilePaths
<1>2. ASSUME Len(p) <= Len(q)
      PROVE  /\ Len(SubSeq(q, 1, Len(p))) = Len(p) /\ SubSeq(q, 1, Len(p)) \in Seq(Names)
             /\ \A i \in 1..Len(p) : SubSeq(q, 1, Len(p))[i] = q[i]
  BY <1>1, <1>2
<1>3. ASSUME Len(p) <= Len(q), \A i \in 1..Len(p) : q[i] = p[i]
      PROVE  SubSeq(q, 1, Len(p)) = p
  <2>1. PICK x : x = SubSeq(q, 1, Len(p))
    OBVIOUS
  <2>2. Len(x) = Len(p) /\ x \in Seq(Names) /\ \A i \in 1..Len(p) : x[i] = p[i]
    BY <1>2, <1>3, <2>1
  <2>3. x = p
    BY <1>1, <2>2, SeqEqual
  <2> QED BY <2>1, <2>3
<1> QED BY <1>1, <1>2, <1>3 DEF Below

LEMMA PathsEqual ==
  ASSUME NEW p \in FilePaths, NEW q \in FilePaths, Len(p) = Len(q), \A i \in 1..Len(p) : p[i] = q[i]
  PROVE  p = q
BY SeqEqual DEF FilePaths

LEMMA PathBelowItself == ASSUME NEW p \in FilePaths PROVE Below(p, p)
BY BelowIs

LEMMA BelowFurther ==
  ASSUME NEW p \in FilePaths, NEW q \in FilePaths, NEW x \in FilePaths, Below(p, q), Below(q, x)
  PROVE  Below(p, x)
<1>1. /\ Len(p) \in Nat /\ Len(q) \in Nat /\ Len(x) \in Nat /\ Len(p) <= Len(q) /\ Len(q) <= Len(x)
      /\ \A i \in 1..Len(p) : q[i] = p[i]
      /\ \A i \in 1..Len(q) : x[i] = q[i]
  BY BelowIs
<1>2. \A i \in 1..Len(p) : x[i] = p[i]
  BY <1>1
<1> QED BY <1>1, <1>2, BelowIs

\* What is above the same path is on one way.
LEMMA AboveOneWay ==
  ASSUME NEW p \in FilePaths, NEW q \in FilePaths, NEW x \in FilePaths, Below(p, x), Below(q, x), Len(p) <= Len(q)
  PROVE  Below(p, q)
<1>1. /\ Len(p) \in Nat /\ Len(q) \in Nat /\ Len(x) \in Nat /\ Len(q) <= Len(x)
      /\ \A i \in 1..Len(p) : x[i] = p[i]
      /\ \A i \in 1..Len(q) : x[i] = q[i]
  BY BelowIs
<1>2. \A i \in 1..Len(p) : q[i] = p[i]
  BY <1>1
<1> QED BY <1>2, BelowIs

LEMMA BelowSame ==
  ASSUME NEW p \in FilePaths, NEW q \in FilePaths, Below(p, q), Len(q) <= Len(p)
  PROVE  p = q
<1>1. Len(p) \in Nat /\ Len(q) \in Nat /\ Len(p) <= Len(q) /\ \A i \in 1..Len(p) : q[i] = p[i]
  BY BelowIs
<1>2. Len(p) = Len(q)
  BY <1>1
<1> QED BY <1>1, <1>2, PathsEqual

\* The part of a path down to a level.
LEMMA PartIs ==
  ASSUME NEW p \in FilePaths, NEW n \in Nat, n <= Len(p)
  PROVE  SubSeq(p, 1, n) \in FilePaths /\ Len(SubSeq(p, 1, n)) = n /\ Below(SubSeq(p, 1, n), p)
<1>1. p \in Seq(Names) /\ Len(p) \in Nat
  BY LenProperties DEF FilePaths
<1>2. PICK x : x = SubSeq(p, 1, n)
  OBVIOUS
<1>3. x \in Seq(Names) /\ Len(x) = n /\ \A i \in 1..n : x[i] = p[i]
  BY <1>1, <1>2
<1>4. x \in FilePaths
  BY <1>3 DEF FilePaths
<1>5. Below(x, p)
  BY <1>3, <1>4, BelowIs
<1> QED BY <1>2, <1>3, <1>4, <1>5

LEMMA ParentIs ==
  ASSUME NEW p \in FilePaths, NEW q
  PROVE  q \in Parents(p) <=> q \in FilePaths /\ Below(q, p) /\ Len(q) < Len(p)
<1>1. Len(p) \in Nat
  BY LenProperties DEF FilePaths
<1>2. ASSUME q \in Parents(p) PROVE q \in FilePaths /\ Below(q, p) /\ Len(q) < Len(p)
  <2>1. PICK n \in 0..(Len(p) - 1) : q = SubSeq(p, 1, n)
    BY <1>2 DEF Parents
  <2>2. n \in Nat /\ n <= Len(p) /\ n < Len(p)
    BY <1>1
  <2> QED BY <2>1, <2>2, PartIs
<1>3. ASSUME q \in FilePaths, Below(q, p), Len(q) < Len(p) PROVE q \in Parents(p)
  <2>1. Len(q) \in Nat /\ q = SubSeq(p, 1, Len(q))
    BY <1>3, LenProperties DEF Below, FilePaths
  <2>2. Len(q) \in 0..(Len(p) - 1)
    BY <1>1, <1>3, <2>1
  <2> QED BY <2>1, <2>2 DEF Parents
<1> QED BY <1>2, <1>3

LEMMA PathIs == ASSUME NEW p PROVE p \in Paths <=> p \in FilePaths /\ Len(p) <= 2
<1>1. ASSUME p \in Paths PROVE p \in FilePaths /\ Len(p) <= 2
  <2>1. p \in FilePaths
    BY <1>1, PathsAreSequences
  <2>2. CASE p = Root
    BY <2>1, <2>2 DEF Root
  <2>3. CASE \E n \in Names : p = <<n>>
    BY <2>1, <2>3
  <2>4. CASE \E n, m \in Names : p = <<n, m>>
    BY <2>1, <2>4
  <2> QED BY <1>1, <2>2, <2>3, <2>4 DEF Paths
<1>2. ASSUME p \in FilePaths, Len(p) <= 2 PROVE p \in Paths
  <2>1. p \in Seq(Names) /\ Len(p) \in Nat /\ \A i \in 1..Len(p) : p[i] \in Names
    BY <1>2, LenProperties, ElementOfSeq DEF FilePaths
  <2>2. CASE Len(p) = 0
    <3>1. p = <<>>
      BY <2>1, <2>2, EmptySeq
    <3> QED BY <3>1 DEF Paths, Root
  <2>3. CASE Len(p) = 1
    <3>1. PICK n \in Names : n = p[1]
      BY <2>1, <2>3
    <3>2. p = <<n>>
      BY <2>1, <2>3, <3>1
    <3> QED BY <3>2 DEF Paths
  <2>4. CASE Len(p) = 2
    <3>1. PICK n \in Names : n = p[1]
      BY <2>1, <2>4
    <3>2. PICK m \in Names : m = p[2]
      BY <2>1, <2>4
    <3>3. p = <<n, m>>
      BY <2>1, <2>4, <3>1, <3>2
    <3> QED BY <3>3 DEF Paths
  <2>5. Len(p) = 0 \/ Len(p) = 1 \/ Len(p) = 2
    <3>1. PICK n \in Nat : n = Len(p)
      BY <2>1
    <3>2. n <= 2
      BY <1>2, <3>1
    <3> QED BY <3>1, <3>2
  <2> QED BY <2>2, <2>3, <2>4, <2>5
<1> QED BY <1>1, <1>2

LEMMA PathsAreFinite == IsFiniteSet(Paths)
<1>1. IsFiniteSet(Names) /\ IsFiniteSet(Names \X Names)
  BY RepoFilesAssumption, FS_Product
<1>2. PICK ones : ones = {<<n>> : n \in Names}
  OBVIOUS
<1>3. IsFiniteSet(ones)
  <2> DEFINE f == [n \in Names |-> <<n>>]
  <2>1. f \in Surjection(Names, ones)
    BY <1>2 DEF Surjection
  <2> QED BY <1>1, <2>1, FS_Surjection
<1>4. IsFiniteSet({Root} \cup ones \cup (Names \X Names))
  BY <1>1, <1>3, FS_Singleton, FS_Union
<1>5. {<<n, m>> : n, m \in Names} = Names \X Names
  OBVIOUS
<1>6. Paths = {Root} \cup ones \cup (Names \X Names)
  BY <1>2, <1>5 DEF Paths
<1> QED BY <1>4, <1>6

\* A directory with its directories, and files as leaves.
Shaped(t) ==
  /\ DOMAIN t \subseteq Paths
  /\ \A p \in DOMAIN t : t[p].kind \in {"dir", "file"}
  /\ \A p \in DOMAIN t : \A q \in Parents(p) : q \in DOMAIN t /\ t[q].kind = "dir"

LEMMA WithAt ==
  ASSUME NEW t, NEW new
  PROVE  /\ DOMAIN With(t, new) = DOMAIN t \cup DOMAIN new
         /\ \A p \in DOMAIN t : p \notin DOMAIN new => With(t, new)[p] = t[p]
         /\ \A p \in DOMAIN new : With(t, new)[p] = new[p]
BY DEF With

LEMMA KindIs == ASSUME NEW p PROVE (Kind(p) # "none" => p \in DOMAIN tree /\ Kind(p) = tree[p].kind) /\ (p \in DOMAIN tree => Kind(p) = tree[p].kind)
BY DEF Kind, Exists

LEMMA ParentsOfParents ==
  ASSUME NEW p \in FilePaths, NEW x \in Parents(p), NEW q \in Parents(x) PROVE q \in Parents(p)
<1>1. x \in FilePaths /\ Below(x, p) /\ Len(x) < Len(p)
  BY ParentIs
<1>2. q \in FilePaths /\ Below(q, x) /\ Len(q) < Len(x)
  BY <1>1, ParentIs
<1>3. Len(q) \in Nat /\ Len(x) \in Nat /\ Len(p) \in Nat
  BY <1>1, <1>2, LenProperties DEF FilePaths
<1>4. Below(q, p) /\ Len(q) < Len(p)
  BY <1>1, <1>2, <1>3, BelowFurther
<1> QED BY <1>2, <1>4, ParentIs

LEMMA ParentIsPath == ASSUME NEW p \in Paths, NEW q \in Parents(p) PROVE q \in Paths
<1>1. p \in FilePaths /\ Len(p) <= 2
  BY PathIs
<1>2. q \in FilePaths /\ Len(q) < Len(p)
  BY <1>1, ParentIs
<1>3. Len(q) \in Nat /\ Len(p) \in Nat
  BY <1>1, <1>2, LenProperties DEF FilePaths
<1> QED BY <1>1, <1>2, <1>3, PathIs

LEMMA MadeIsShaped ==
  ASSUME Shaped(tree), NEW p \in Paths, CanMkdirAll(p)
  PROVE  Shaped(MkdirAll(p))
<1>1. PICK new : new = [q \in Parents(p) \ DOMAIN tree |-> Dir]
  OBVIOUS
<1>2. PICK t : t = With(tree, new)
  OBVIOUS
<1>3. MkdirAll(p) = t
  BY <1>1, <1>2 DEF MkdirAll
<1>4. /\ DOMAIN t = DOMAIN tree \cup Parents(p) /\ \A q \in DOMAIN tree : t[q] = tree[q]
      /\ \A q \in Parents(p) \ DOMAIN tree : t[q] = Dir
  <2>1. DOMAIN new = Parents(p) \ DOMAIN tree /\ \A q \in DOMAIN new : new[q] = Dir
    BY <1>1
  <2>2. /\ DOMAIN t = DOMAIN tree \cup DOMAIN new /\ \A q \in DOMAIN tree : q \notin DOMAIN new => t[q] = tree[q]
        /\ \A q \in DOMAIN new : t[q] = new[q]
    <3>1. /\ DOMAIN With(tree, new) = DOMAIN tree \cup DOMAIN new
          /\ \A q \in DOMAIN tree : q \notin DOMAIN new => With(tree, new)[q] = tree[q]
          /\ \A q \in DOMAIN new : With(tree, new)[q] = new[q]
      BY DEF With
    <3> QED BY <1>2, <3>1
  <2> QED BY <2>1, <2>2
<1>5. p \in FilePaths
  BY PathIs
<1>6. \A q \in Parents(p) : t[q].kind = "dir"
  <2> SUFFICES ASSUME NEW q \in Parents(p) PROVE t[q].kind = "dir"
    OBVIOUS
  <2>1. CASE q \in DOMAIN tree
    BY <1>4, <2>1, KindIs DEF CanMkdirAll, Shaped
  <2>2. CASE q \notin DOMAIN tree
    BY <1>4, <2>2 DEF Dir
  <2> QED BY <2>1, <2>2
<1>7. DOMAIN t \subseteq Paths
  BY <1>4, ParentIsPath DEF Shaped
<1>8. ASSUME NEW x \in DOMAIN t PROVE t[x].kind \in {"dir", "file"} /\ \A q \in Parents(x) : q \in DOMAIN t /\ t[q].kind = "dir"
  <2>1. CASE x \in DOMAIN tree
    BY <1>4, <2>1 DEF Shaped
  <2>2. CASE x \in Parents(p)
    BY <1>4, <1>5, <1>6, <2>2, ParentsOfParents
  <2> QED BY <1>4, <2>1, <2>2
<1> QED BY <1>3, <1>7, <1>8 DEF Shaped

LEMMA WrittenIsShaped ==
  ASSUME Shaped(tree), NEW p \in Paths, Kind(p) # "dir", \A q \in Parents(p) : Kind(q) = "dir", NEW n
  PROVE  Shaped(With(tree, [q \in {p} |-> File(n)]))
<1>1. PICK t : t = With(tree, [q \in {p} |-> File(n)])
  OBVIOUS
<1>2. DOMAIN t = DOMAIN tree \cup {p} /\ t[p] = File(n) /\ \A q \in DOMAIN tree : q # p => t[q] = tree[q]
  <2>1. PICK new : new = [q \in {p} |-> File(n)]
    OBVIOUS
  <2>2. DOMAIN new = {p} /\ new[p] = File(n)
    BY <2>1
  <2>3. t = With(tree, new)
    BY <1>1, <2>1
  <2>4. /\ DOMAIN With(tree, new) = DOMAIN tree \cup DOMAIN new
        /\ \A q \in DOMAIN tree : q \notin DOMAIN new => With(tree, new)[q] = tree[q]
        /\ \A q \in DOMAIN new : With(tree, new)[q] = new[q]
    BY DEF With
  <2> QED BY <2>2, <2>3, <2>4
<1>3. t[p].kind = "file"
  BY <1>2 DEF File
<1>4. ASSUME NEW q, q \in DOMAIN tree, tree[q].kind = "dir" PROVE q \in DOMAIN t /\ t[q].kind = "dir"
  BY <1>2, <1>4, KindIs
<1>5. ASSUME NEW x \in DOMAIN t PROVE t[x].kind \in {"dir", "file"} /\ \A q \in Parents(x) : q \in DOMAIN t /\ t[q].kind = "dir"
  <2>1. CASE x = p
    BY <1>3, <1>4, <2>1, KindIs
  <2>2. CASE x # p
    BY <1>2, <1>4, <2>2 DEF Shaped
  <2> QED BY <2>1, <2>2
<1>6. DOMAIN t \subseteq Paths
  BY <1>2 DEF Shaped
<1> QED BY <1>1, <1>5, <1>6 DEF Shaped

LEMMA EntryAbove ==
  ASSUME Shaped(tree), NEW p \in FilePaths, NEW x \in DOMAIN tree, Below(p, x), p # x
  PROVE  /\ p \in DOMAIN tree /\ tree[p].kind = "dir" /\ p \in Parents(x)
         /\ \E q \in Entries(p) : Below(q, x)
<1>1. x \in FilePaths
  BY PathIs DEF Shaped
<1>2. Len(p) \in Nat /\ Len(x) \in Nat /\ Len(p) <= Len(x)
  BY <1>1, BelowIs
<1>3. Len(p) < Len(x)
  BY <1>1, <1>2, BelowSame
<1>4. p \in Parents(x)
  BY <1>1, <1>3, ParentIs
<1>5. PICK q : q = SubSeq(x, 1, Len(p) + 1)
  OBVIOUS
<1>6. q \in FilePaths /\ Len(q) = Len(p) + 1 /\ Below(q, x)
  BY <1>1, <1>2, <1>3, <1>5, PartIs
<1>7. Below(p, q)
  BY <1>1, <1>2, <1>6, AboveOneWay
<1>8. q \in DOMAIN tree
  <2>1. CASE Len(q) = Len(x)
    BY <1>1, <1>6, <2>1, BelowSame, <1>2
  <2>2. CASE Len(q) < Len(x)
    BY <1>1, <1>6, <2>2, ParentIs DEF Shaped
  <2> QED BY <1>2, <1>3, <1>6, <2>1, <2>2
<1>9. q \in Entries(p)
  BY <1>6, <1>7, <1>8 DEF Entries
<1> QED BY <1>4, <1>6, <1>9 DEF Shaped

LEMMA RemovedIsShaped ==
  ASSUME Shaped(tree), NEW p \in DOMAIN tree, Entries(p) = {}
  PROVE  Shaped(Without(tree, {p}))
<1>1. PICK t : t = Without(tree, {p})
  OBVIOUS
<1>2. DOMAIN t = DOMAIN tree \ {p} /\ \A q \in DOMAIN t : t[q] = tree[q]
  BY <1>1 DEF Without
<1>3. ASSUME NEW x \in DOMAIN t, NEW q \in Parents(x) PROVE q \in DOMAIN t
  <2>1. x \in DOMAIN tree /\ q \in DOMAIN tree /\ x \in FilePaths
    BY <1>2, PathIs DEF Shaped
  <2>2. q \in FilePaths /\ Below(q, x) /\ Len(q) < Len(x)
    BY <2>1, ParentIs
  <2>3. q # x
    BY <2>1, <2>2, LenProperties DEF FilePaths
  <2>4. q # p
    BY <2>1, <2>2, <2>3, EntryAbove
  <2> QED BY <1>2, <2>1, <2>4
<1> QED BY <1>1, <1>2, <1>3 DEF Shaped

\* Where a path comes to when one above it is renamed.
After(p, m) == SubSeq(m, Len(p) + 1, Len(m))
Moved(from, to, m) == to \o After(from, m)

LEMMA TailIs ==
  ASSUME NEW p \in FilePaths, NEW m \in FilePaths, Below(p, m)
  PROVE  /\ After(p, m) \in Seq(Names) /\ Len(After(p, m)) \in Nat /\ Len(m) = Len(p) + Len(After(p, m))
         /\ \A i \in 1..Len(After(p, m)) : After(p, m)[i] = m[Len(p) + i]
         /\ \A i \in 1..Len(p) : m[i] = p[i]
<1>0. PICK s : s = After(p, m)
  OBVIOUS
<1>1. PICK a \in Nat, k \in Nat : a = Len(p) /\ Len(m) = a + k
  <2>1. Len(p) \in Nat /\ Len(m) \in Nat /\ Len(p) <= Len(m)
    BY BelowIs
  <2>2. Len(m) - Len(p) \in Nat /\ Len(m) = Len(p) + (Len(m) - Len(p))
    BY <2>1
  <2> QED BY <2>1, <2>2
<1>2. /\ a + 1 \in Int /\ a + k \in Int /\ (IF a + 1 <= a + k THEN a + k - (a + 1) + 1 ELSE 0) = k
      /\ a + k - (a + 1) + 1 = k
  BY <1>1
<1>3. ASSUME NEW i \in (a + 1)..(a + k) PROVE m[i] \in Names
  <2>1. m \in Seq(Names) /\ i \in 1..(a + k)
    BY <1>1 DEF FilePaths
  <2>2. i \in 1..Len(m)
    BY <1>1, <2>1
  <2> QED BY <2>1, <2>2, ElementOfSeq
<1>4. s = SubSeq(m, a + 1, a + k)
  BY <1>0, <1>1 DEF After
<1>5. s \in Seq(Names) /\ Len(s) = k /\ \A i \in 1..k : s[i] = m[a + 1 + i - 1]
  <2>1. PICK d, e : d = a + 1 /\ e = a + k
    OBVIOUS
  <2>2. d \in Int /\ e \in Int /\ \A i \in d..e : m[i] \in Names
    BY <1>2, <1>3, <2>1
  <2>3. /\ SubSeq(m, d, e) \in Seq(Names) /\ Len(SubSeq(m, d, e)) = IF d <= e THEN e - d + 1 ELSE 0
        /\ \A i \in 1..(e - d + 1) : SubSeq(m, d, e)[i] = m[d + i - 1]
    BY <2>2, SubSeqProperties
  <2>4. s = SubSeq(m, d, e) /\ (IF d <= e THEN e - d + 1 ELSE 0) = k /\ e - d + 1 = k
    BY <1>2, <1>4, <2>1
  <2> QED BY <2>1, <2>3, <2>4
<1>6. \A i \in 1..k : a + 1 + i - 1 = a + i
  BY <1>1
<1>7. \A i \in 1..Len(p) : m[i] = p[i]
  BY BelowIs
<1> QED BY <1>0, <1>1, <1>5, <1>6, <1>7

LEMMA JoinIs ==
  ASSUME NEW p \in FilePaths, NEW s \in Seq(Names)
  PROVE  /\ p \o s \in FilePaths /\ Len(p \o s) = Len(p) + Len(s) /\ Len(p) \in Nat /\ Len(s) \in Nat
         /\ \A i \in 1..Len(p) : (p \o s)[i] = p[i]
         /\ \A i \in 1..Len(s) : (p \o s)[Len(p) + i] = s[i]
         /\ Below(p, p \o s)
<1>1. p \in Seq(Names) /\ Len(p) \in Nat /\ Len(s) \in Nat
  BY LenProperties DEF FilePaths
<1>2. PICK x : x = p \o s
  OBVIOUS
<1>3. x \in Seq(Names) /\ Len(x) = Len(p) + Len(s) /\ \A i \in 1..Len(p) : x[i] = p[i]
  BY <1>1, <1>2
<1>4. \A i \in 1..Len(s) : x[Len(p) + i] = s[i]
  BY <1>1, <1>2
<1>5. x \in FilePaths /\ Len(p) <= Len(x)
  BY <1>1, <1>3 DEF FilePaths
<1>6. Below(p, x)
  BY <1>3, <1>5, BelowIs
<1> QED BY <1>1, <1>2, <1>3, <1>4, <1>5, <1>6

\* Two paths of the same length are the same when their two parts are.
LEMMA PartsEqual ==
  ASSUME NEW x \in FilePaths, NEW y \in FilePaths, NEW a \in Nat, NEW k \in Nat,
         Len(x) = a + k, Len(y) = a + k, \A i \in 1..a : x[i] = y[i], \A i \in 1..k : x[a + i] = y[a + i]
  PROVE  x = y
<1>1. ASSUME NEW i \in 1..(a + k) PROVE x[i] = y[i]
  <2>1. CASE i <= a
    BY <2>1
  <2>2. CASE i > a
    <3>1. i - a \in 1..k /\ i = a + (i - a)
      BY <2>2
    <3> QED BY <3>1
  <2> QED BY <2>1, <2>2
<1> QED BY <1>1, PathsEqual

LEMMA MovedTo ==
  ASSUME NEW from \in FilePaths, NEW to \in FilePaths, NEW m \in FilePaths, Below(from, m)
  PROVE  /\ Moved(from, to, m) \in FilePaths /\ Below(to, Moved(from, to, m))
         /\ Len(Moved(from, to, m)) = Len(to) + Len(m) - Len(from)
         /\ Moved(to, from, Moved(from, to, m)) = m
<1>0. PICK x : x = Moved(from, to, m)
  OBVIOUS
<1>1. PICK s : s = After(from, m)
  OBVIOUS
<1>2. /\ s \in Seq(Names) /\ Len(s) \in Nat /\ Len(m) = Len(from) + Len(s)
      /\ \A i \in 1..Len(s) : s[i] = m[Len(from) + i]
      /\ \A i \in 1..Len(from) : m[i] = from[i]
  BY <1>1, TailIs
<1>3. x = to \o s
  BY <1>0, <1>1 DEF Moved
<1>4. /\ x \in FilePaths /\ Len(x) = Len(to) + Len(s) /\ Len(to) \in Nat /\ Below(to, x)
      /\ \A i \in 1..Len(s) : x[Len(to) + i] = s[i]
  BY <1>2, <1>3, JoinIs
<1>5. PICK z : z = After(to, x)
  OBVIOUS
<1>6. z \in Seq(Names) /\ Len(z) \in Nat /\ Len(x) = Len(to) + Len(z) /\ \A i \in 1..Len(z) : z[i] = x[Len(to) + i]
  BY <1>4, <1>5, TailIs
<1>7. Len(z) = Len(s)
  BY <1>2, <1>4, <1>6
<1>8. z = s
  BY <1>2, <1>4, <1>6, <1>7, SeqEqual
<1>9. PICK y : y = from \o s
  OBVIOUS
<1>10. /\ y \in FilePaths /\ Len(y) = Len(from) + Len(s) /\ Len(from) \in Nat
       /\ \A i \in 1..Len(from) : y[i] = from[i]
       /\ \A i \in 1..Len(s) : y[Len(from) + i] = s[i]
  BY <1>2, <1>9, JoinIs
<1>11. y = m
  <2>1. PICK a \in Nat, k \in Nat : a = Len(from) /\ k = Len(s)
    BY <1>2, <1>10
  <2>2. Len(y) = a + k /\ Len(m) = a + k
    BY <1>2, <1>10, <2>1
  <2>3. \A i \in 1..a : y[i] = m[i]
    BY <1>2, <1>10, <2>1
  <2>4. \A i \in 1..k : y[a + i] = m[a + i]
    BY <1>2, <1>10, <2>1
  <2> QED BY <1>10, <2>1, <2>2, <2>3, <2>4, PartsEqual
<1>12. Moved(to, from, x) = m
  BY <1>5, <1>8, <1>9, <1>11 DEF Moved
<1>13. Len(x) = Len(to) + Len(m) - Len(from)
  BY <1>2, <1>4, <1>10
<1> QED BY <1>0, <1>4, <1>12, <1>13

LEMMA MovedBelow ==
  ASSUME NEW from \in FilePaths, NEW to \in FilePaths, NEW m \in FilePaths, Below(from, m),
         NEW y \in FilePaths, Below(to, y), Below(y, Moved(from, to, m)), Len(y) < Len(Moved(from, to, m))
  PROVE  Below(Moved(to, from, y), m) /\ Len(Moved(to, from, y)) < Len(m)
<1>1. PICK x : x = Moved(from, to, m)
  OBVIOUS
<1>2. x \in FilePaths /\ Below(to, x) /\ Len(x) = Len(to) + Len(m) - Len(from) /\ Moved(to, from, x) = m
  BY <1>1, MovedTo
<1>3. Below(y, x) /\ Len(y) < Len(x)
  BY <1>1
<1>4. PICK s, u : s = After(to, x) /\ u = After(to, y)
  OBVIOUS
<1>5. s \in Seq(Names) /\ Len(s) \in Nat /\ Len(x) = Len(to) + Len(s) /\ \A i \in 1..Len(s) : s[i] = x[Len(to) + i]
  BY <1>2, <1>4, TailIs
<1>6. u \in Seq(Names) /\ Len(u) \in Nat /\ Len(y) = Len(to) + Len(u) /\ \A i \in 1..Len(u) : u[i] = y[Len(to) + i]
  BY <1>4, TailIs
<1>7. PICK n : n = from \o u
  OBVIOUS
<1>8. n = Moved(to, from, y) /\ m = from \o s
  BY <1>2, <1>4, <1>7 DEF Moved
<1>9. /\ n \in FilePaths /\ Len(n) = Len(from) + Len(u) /\ Len(from) \in Nat
      /\ \A i \in 1..Len(from) : n[i] = from[i]
      /\ \A i \in 1..Len(u) : n[Len(from) + i] = u[i]
  BY <1>6, <1>7, JoinIs
<1>10. /\ Len(m) = Len(from) + Len(s)
       /\ \A i \in 1..Len(from) : m[i] = from[i]
       /\ \A i \in 1..Len(s) : m[Len(from) + i] = s[i]
  BY <1>5, <1>8, JoinIs
<1>11. PICK a \in Nat, b \in Nat, k \in Nat, l \in Nat : a = Len(from) /\ b = Len(to) /\ k = Len(u) /\ l = Len(s)
  BY <1>5, <1>6, <1>9, LenProperties DEF FilePaths
<1>12. k < l
  BY <1>3, <1>5, <1>6, <1>11
<1>13. \A i \in 1..(b + k) : x[i] = y[i]
  BY <1>2, <1>3, <1>6, <1>11, BelowIs, SMTT(30)
<1>14. ASSUME NEW i \in 1..k PROVE u[i] = s[i]
  <2>1. i \in 1..l /\ b + i \in 1..(b + k)
    BY <1>11, <1>12
  <2>2. u[i] = y[b + i] /\ s[i] = x[b + i] /\ x[b + i] = y[b + i]
    BY <1>5, <1>6, <1>11, <1>13, <2>1
  <2> QED BY <2>2
<1>15. ASSUME NEW i \in 1..(a + k) PROVE m[i] = n[i]
  <2>1. CASE i <= a
    BY <1>9, <1>10, <1>11, <2>1
  <2>2. CASE i > a
    <3>1. PICK j \in 1..k : i = a + j
      <4>1. i - a \in 1..k /\ i = a + (i - a)
        BY <1>11, <2>2
      <4> QED BY <4>1
    <3>2. j \in 1..l
      BY <1>11, <1>12
    <3>3. n[a + j] = u[j] /\ m[a + j] = s[j] /\ u[j] = s[j]
      BY <1>9, <1>10, <1>11, <1>14, <3>2
    <3> QED BY <3>1, <3>3
  <2> QED BY <1>11, <2>1, <2>2
<1>16. Len(n) = a + k /\ Len(m) = a + l /\ a + k < a + l
  BY <1>9, <1>10, <1>11, <1>12
<1>17. Below(n, m)
  <2>1. PICK p \in Nat, q \in Nat : p = a + k /\ q = a + l
    BY <1>11
  <2>2. p <= q /\ Len(n) = p /\ Len(m) = q /\ \A i \in 1..p : m[i] = n[i]
    BY <1>12, <1>11, <1>15, <1>16, <2>1
  <2> QED BY <1>9, <2>2, BelowIs
<1> QED BY <1>8, <1>16, <1>17

LEMMA RenamedIsShaped ==
  ASSUME Shaped(tree), NEW from \in Paths, NEW to \in Paths, FitsBelow(from, to), CanRename(from, to)
  PROVE  Shaped(Renamed(from, to))
<1>1. CASE from = to
  BY <1>1 DEF Renamed
<1>2. CASE from # to
  <2>1. from \in FilePaths /\ to \in FilePaths /\ \A m \in DOMAIN tree : m \in FilePaths
    BY PathIs DEF Shaped
  <2>2. PICK moved : moved = {q \in DOMAIN tree : Below(from, q)}
    OBVIOUS
  <2>3. PICK news : news = {Moved(from, to, m) : m \in moved}
    OBVIOUS
  <2>4. PICK come : come = [q \in news |-> tree[Moved(to, from, q)]]
    OBVIOUS
  <2>5. PICK gone : gone = Without(tree, moved)
    OBVIOUS
  <2>6. PICK t : t = With(gone, come)
    OBVIOUS
  <2>7. Renamed(from, to) = t
    BY <1>2, <2>2, <2>3, <2>4, <2>5, <2>6 DEF Renamed, Moved, After
  <2>8. DOMAIN gone = DOMAIN tree \ moved /\ \A q \in DOMAIN gone : gone[q] = tree[q]
    BY <2>5 DEF Without
  <2>9. DOMAIN come = news /\ \A q \in news : come[q] = tree[Moved(to, from, q)]
    BY <2>4
  <2>10. /\ DOMAIN t = DOMAIN gone \cup DOMAIN come
         /\ \A p \in DOMAIN gone : p \notin DOMAIN come => t[p] = gone[p]
         /\ \A p \in DOMAIN come : t[p] = come[p]
    <3>1. /\ DOMAIN With(gone, come) = DOMAIN gone \cup DOMAIN come
          /\ \A p \in DOMAIN gone : p \notin DOMAIN come => With(gone, come)[p] = gone[p]
          /\ \A p \in DOMAIN come : With(gone, come)[p] = come[p]
      BY DEF With
    <3> QED BY <2>6, <3>1
  <2>11. /\ DOMAIN t = (DOMAIN tree \ moved) \cup news
         /\ \A q \in DOMAIN tree \ moved : q \notin news => t[q] = tree[q]
    BY <2>8, <2>9, <2>10
  <2>12. ASSUME NEW m \in moved, NEW x, x = Moved(from, to, m)
         PROVE  /\ x \in news /\ t[x] = tree[m] /\ x \in FilePaths /\ Below(to, x)
                /\ Len(x) = Len(to) + Len(m) - Len(from)
    <3>1. m \in FilePaths /\ Below(from, m)
      BY <2>1, <2>2
    <3>2. /\ x \in FilePaths /\ Below(to, x) /\ Len(x) = Len(to) + Len(m) - Len(from)
          /\ Moved(to, from, x) = m
      BY <2>1, <2>12, <3>1, MovedTo
    <3>3. x \in news
      BY <2>3, <2>12
    <3> QED BY <2>9, <2>10, <3>2, <3>3
  <2>13. ASSUME NEW x \in news
         PROVE  \E m \in moved : x = Moved(from, to, m)
    BY <2>3
  <2>14. /\ from \in DOMAIN tree /\ \A q \in Parents(to) : q \in DOMAIN tree /\ tree[q].kind = "dir"
         /\ tree[from].kind = "dir" => /\ ~Below(from, to) /\ Entries(to) = {}
         /\ tree[from].kind = "file" => ~(to \in DOMAIN tree /\ tree[to].kind = "dir")
    BY <1>2, KindIs DEF CanRename, Exists
  <2>15. tree[from].kind \in {"dir", "file"}
    BY <2>14 DEF Shaped
  <2>16. ASSUME tree[from].kind = "file", NEW m \in moved PROVE m = from
    <3>1. m \in DOMAIN tree /\ Below(from, m) /\ m \in FilePaths
      BY <2>1, <2>2
    <3> QED BY <2>1, <2>16, <3>1, EntryAbove
  <2>17. ASSUME NEW y \in FilePaths, Below(y, to), y # to
         PROVE  y \in DOMAIN t /\ t[y].kind = "dir"
    <3>1. Len(y) \in Nat /\ Len(to) \in Nat /\ Len(y) < Len(to)
      BY <2>1, <2>17, BelowIs, BelowSame
    <3>2. y \in DOMAIN tree /\ tree[y].kind = "dir"
      BY <2>1, <2>14, <2>17, <3>1, ParentIs
    <3>3. y \notin moved
      <4>1. SUFFICES ASSUME Below(from, y) PROVE FALSE
        BY <2>2
      <4>2. CASE tree[from].kind = "dir"
        BY <2>1, <2>14, <2>17, <4>1, <4>2, BelowFurther
      <4>3. CASE tree[from].kind = "file"
        BY <2>2, <2>16, <3>2, <4>1, <4>3
      <4> QED BY <2>15, <4>2, <4>3
    <3>4. y \notin news
      <4>1. ASSUME NEW m \in moved, y = Moved(from, to, m) PROVE FALSE
        <5>1. Below(to, y)
          BY <2>12, <4>1
        <5> QED BY <2>1, <3>1, <5>1, BelowIs
      <4> QED BY <2>13, <4>1
    <3> QED BY <2>11, <3>2, <3>3, <3>4
  <2>18. ASSUME NEW m \in moved, NEW x, x = Moved(from, to, m),
                NEW y \in FilePaths, Below(y, x), Len(y) < Len(x), Len(to) <= Len(y)
         PROVE  y \in DOMAIN t /\ t[y].kind = "dir"
    <3>1. /\ m \in FilePaths /\ m \in DOMAIN tree /\ Below(from, m) /\ x \in FilePaths /\ Below(to, x)
          /\ Len(x) = Len(to) + Len(m) - Len(from)
      BY <2>1, <2>2, <2>12, <2>18
    <3>2. Below(to, y)
      BY <2>1, <2>18, <3>1, AboveOneWay
    <3>3. PICK n : n = Moved(to, from, y)
      OBVIOUS
    <3>4. n \in FilePaths /\ Below(from, n) /\ Len(n) = Len(from) + Len(y) - Len(to) /\ Moved(from, to, n) = y
      BY <2>1, <2>18, <3>2, <3>3, MovedTo
    <3>5. /\ Len(from) \in Nat /\ Len(to) \in Nat /\ Len(m) \in Nat /\ Len(n) \in Nat /\ Len(x) \in Nat /\ Len(y) \in Nat
          /\ Len(from) <= Len(m) /\ Len(from) <= Len(n)
      BY <2>1, <2>18, <3>1, <3>4, BelowIs
    <3>6. Len(n) < Len(m)
      BY <2>18, <3>1, <3>4, <3>5
    <3>7. Below(n, m)
      BY <2>1, <2>18, <3>1, <3>2, <3>3, MovedBelow
    <3>8. n \in Parents(m)
      BY <3>1, <3>4, <3>6, <3>7, ParentIs
    <3>9. n \in DOMAIN tree /\ tree[n].kind = "dir"
      BY <3>1, <3>8 DEF Shaped
    <3>10. n \in moved
      BY <2>2, <3>4, <3>9
    <3>11. y = Moved(from, to, n)
      BY <3>4
    <3>12. y \in news /\ t[y] = tree[n]
      BY <2>12, <3>10, <3>11
    <3> QED BY <2>11, <3>9, <3>12
  <2>19. ASSUME NEW x \in DOMAIN tree \ moved, x \notin news, NEW q \in Parents(x)
         PROVE  q \in DOMAIN t /\ t[q].kind = "dir"
    <3>1. /\ x \in FilePaths /\ q \in FilePaths /\ Below(q, x) /\ Len(q) < Len(x)
          /\ q \in DOMAIN tree /\ tree[q].kind = "dir"
      BY <2>1, <2>19, ParentIs DEF Shaped
    <3>2. q \notin moved
      <4>1. SUFFICES ASSUME Below(from, q) PROVE FALSE
        BY <2>2
      <4>2. Below(from, x)
        BY <2>1, <3>1, <4>1, BelowFurther
      <4> QED BY <2>2, <2>19, <4>2
    <3>3. q \notin news
      <4>1. SUFFICES ASSUME NEW m \in moved, q = Moved(from, to, m) PROVE FALSE
        BY <2>13
      <4>2. Below(to, q) /\ t[q] = tree[m] /\ Len(q) = Len(to) + Len(m) - Len(from)
        BY <2>12, <4>1
      <4>3. CASE tree[from].kind = "dir"
        <5>1. Below(to, x)
          BY <2>1, <3>1, <4>2, BelowFurther
        <5>2. to # x
          <6>1. Len(to) \in Nat /\ Len(q) \in Nat /\ Len(x) \in Nat /\ Len(to) <= Len(q)
            BY <2>1, <3>1, <4>2, BelowIs
          <6> QED BY <3>1, <6>1
        <5>3. \E e \in Entries(to) : Below(e, x)
          BY <2>1, <2>19, <5>1, <5>2, EntryAbove
        <5> QED BY <2>14, <4>3, <5>3
      <4>4. CASE tree[from].kind = "file"
        <5>1. m = from
          BY <2>16, <4>4
        <5>2. Len(q) = Len(to)
          BY <2>1, <4>2, <5>1, BelowIs
        <5>3. q = to
          BY <2>1, <3>1, <4>2, <5>2, BelowSame, BelowIs
        <5> QED BY <2>14, <3>1, <4>4, <5>3
      <4> QED BY <2>15, <4>3, <4>4
    <3> QED BY <2>11, <3>1, <3>2, <3>3
  <2>20. ASSUME NEW x \in news
         PROVE  /\ x \in Paths /\ t[x].kind \in {"dir", "file"}
                /\ \A q \in Parents(x) : q \in DOMAIN t /\ t[q].kind = "dir"
    <3>1. PICK m \in moved : x = Moved(from, to, m)
      BY <2>13
    <3>2. t[x] = tree[m] /\ x \in FilePaths /\ Below(to, x) /\ Len(x) = Len(to) + Len(m) - Len(from)
      BY <2>12, <3>1
    <3>3. m \in DOMAIN tree /\ Below(from, m)
      BY <2>2
    <3>4. x \in Paths
      BY <3>2, <3>3, PathIs DEF FitsBelow
    <3>5. t[x].kind \in {"dir", "file"}
      BY <3>2, <3>3 DEF Shaped
    <3>6. ASSUME NEW q \in Parents(x) PROVE q \in DOMAIN t /\ t[q].kind = "dir"
      <4>1. q \in FilePaths /\ Below(q, x) /\ Len(q) < Len(x) /\ Len(q) \in Nat /\ Len(to) \in Nat
        BY <2>1, <3>2, ParentIs, BelowIs
      <4>2. CASE Len(to) <= Len(q)
        BY <2>18, <3>1, <4>1, <4>2
      <4>3. CASE Len(q) < Len(to)
        <5>1. Below(q, to)
          BY <2>1, <3>2, <4>1, <4>3, AboveOneWay
        <5>2. q # to
          BY <4>1, <4>3
        <5> QED BY <2>17, <4>1, <5>1, <5>2
      <4> QED BY <4>1, <4>2, <4>3
    <3> QED BY <3>4, <3>5, <3>6
  <2>21. ASSUME NEW x \in DOMAIN t
         PROVE  /\ x \in Paths /\ t[x].kind \in {"dir", "file"}
                /\ \A q \in Parents(x) : q \in DOMAIN t /\ t[q].kind = "dir"
    <3>1. CASE x \in news
      BY <2>20, <3>1
    <3>2. CASE x \in DOMAIN tree \ moved /\ x \notin news
      <4>1. x \in Paths /\ t[x] = tree[x] /\ tree[x].kind \in {"dir", "file"}
        BY <2>11, <3>2 DEF Shaped
      <4> QED BY <2>19, <3>2, <4>1
    <3> QED BY <2>11, <3>1, <3>2
  <2> QED BY <2>7, <2>21 DEF Shaped
<1> QED BY <1>1, <1>2

-----------------------------------------------------------------------------
(* A search: what is found and what is left to look at lie apart.          *)

Items(q) == {q[i] : i \in 1..Len(q)}

LEMMA TailItems ==
  ASSUME NEW S, NEW q \in Seq(S), q # <<>>, Once(q)
  PROVE  /\ Tail(q) \in Seq(S) /\ Once(Tail(q)) /\ Items(Tail(q)) = Items(q) \ {Head(q)}
         /\ Head(q) \in Items(q) /\ Items(q) \subseteq S
<1>1. PICK t, h : t = Tail(q) /\ h = Head(q)
  OBVIOUS
<1>2. PICK n \in Nat : n = Len(q)
  BY LenProperties
<1>3. n > 0 /\ h = q[1]
  <2>1. n # 0
    BY <1>2, EmptySeq
  <2> QED BY <1>1, <1>2, <2>1
<1>4. t \in Seq(S) /\ Len(t) = n - 1 /\ \A i \in 1..(n - 1) : t[i] = q[i + 1]
  BY <1>1, <1>2, HeadTailProperties
<1>5. \A i \in 1..n : q[i] \in S
  BY <1>2, ElementOfSeq
<1>6. \A i, j \in 1..n : i # j => q[i] # q[j]
  BY <1>2 DEF Once
<1>7. Once(t)
  <2>1. ASSUME NEW i \in 1..(n - 1), NEW j \in 1..(n - 1), i # j PROVE t[i] # t[j]
    <3>1. i + 1 \in 1..n /\ j + 1 \in 1..n /\ i + 1 # j + 1
      BY <1>2, <2>1
    <3> QED BY <1>4, <1>6, <3>1
  <2> QED BY <1>4, <2>1 DEF Once
<1>8. \A x : x \in Items(t) <=> \E i \in 1..(n - 1) : x = t[i]
  BY <1>4 DEF Items
<1>9. \A x : x \in Items(q) <=> \E i \in 1..n : x = q[i]
  BY <1>2 DEF Items
<1>10. ASSUME NEW x \in Items(t) PROVE x \in Items(q) /\ x # h
  <2>1. PICK i \in 1..(n - 1) : x = t[i]
    BY <1>8
  <2>2. x = q[i + 1] /\ i + 1 \in 1..n /\ i + 1 # 1 /\ 1 \in 1..n
    BY <1>2, <1>3, <1>4, <2>1
  <2> QED BY <1>3, <1>6, <1>9, <2>2
<1>11. ASSUME NEW x \in Items(q), x # h PROVE x \in Items(t)
  <2>1. PICK i \in 1..n : x = q[i]
    BY <1>9
  <2>2. i # 1
    BY <1>3, <1>11, <2>1
  <2>3. i - 1 \in 1..(n - 1) /\ i = (i - 1) + 1
    BY <1>2, <2>1, <2>2
  <2>4. PICK k \in 1..(n - 1) : i = k + 1
    BY <2>3
  <2>5. x = t[k]
    BY <1>4, <2>1, <2>4
  <2> QED BY <1>8, <2>5
<1>12. h \in Items(q)
  BY <1>2, <1>3, <1>9
<1>13. Items(q) \subseteq S
  BY <1>5, <1>9
<1> QED BY <1>1, <1>4, <1>7, <1>10, <1>11, <1>12, <1>13

LEMMA JoinItems ==
  ASSUME NEW S, NEW q \in Seq(S), NEW s \in Seq(S), Once(q), Once(s), Items(q) \cap Items(s) = {}
  PROVE  q \o s \in Seq(S) /\ Once(q \o s) /\ Items(q \o s) = Items(q) \cup Items(s) /\ Len(q \o s) = Len(q) + Len(s)
<1>1. PICK t : t = q \o s
  OBVIOUS
<1>2. PICK n \in Nat, m \in Nat : n = Len(q) /\ m = Len(s)
  BY LenProperties
<1>3. /\ t \in Seq(S) /\ Len(t) = n + m
      /\ \A i \in 1..(n + m) : t[i] = IF i <= n THEN q[i] ELSE s[i - n]
  BY <1>1, <1>2, ConcatProperties
<1>4. /\ \A x : x \in Items(q) <=> \E i \in 1..n : x = q[i]
      /\ \A x : x \in Items(s) <=> \E i \in 1..m : x = s[i]
      /\ \A x : x \in Items(t) <=> \E i \in 1..(n + m) : x = t[i]
  BY <1>2, <1>3 DEF Items
<1>5. /\ \A i, j \in 1..n : i # j => q[i] # q[j]
      /\ \A i, j \in 1..m : i # j => s[i] # s[j]
  BY <1>2 DEF Once
<1>6. ASSUME NEW i \in 1..(n + m)
      PROVE  \/ i <= n /\ i \in 1..n /\ t[i] = q[i] /\ t[i] \in Items(q)
             \/ i > n /\ i - n \in 1..m /\ t[i] = s[i - n] /\ t[i] \in Items(s)
  <2>1. CASE i <= n
    <3>1. i \in 1..n
      BY <1>2, <2>1
    <3> QED BY <1>3, <1>4, <2>1, <3>1
  <2>2. CASE i > n
    <3>1. i - n \in 1..m /\ ~(i <= n)
      BY <1>2, <2>2
    <3> QED BY <1>3, <1>4, <2>2, <3>1
  <2> QED BY <1>2, <2>1, <2>2
<1>7. ASSUME NEW i \in 1..(n + m), NEW j \in 1..(n + m), i # j PROVE t[i] # t[j]
  <2>1. CASE i <= n /\ j <= n
    BY <1>2, <1>5, <1>6, <1>7, <2>1
  <2>2. CASE i > n /\ j > n
    <3>1. i - n # j - n
      BY <1>2, <1>7
    <3>2. /\ i - n \in 1..m /\ t[i] = s[i - n]
          /\ j - n \in 1..m /\ t[j] = s[j - n]
      BY <1>2, <1>6, <2>2
    <3> QED BY <1>5, <3>1, <3>2
  <2>3. CASE (i <= n /\ j > n) \/ (i > n /\ j <= n)
    <3>1. (t[i] \in Items(q) /\ t[j] \in Items(s)) \/ (t[i] \in Items(s) /\ t[j] \in Items(q))
      BY <1>2, <1>6, <2>3
    <3> QED BY <3>1
  <2> QED BY <1>2, <2>1, <2>2, <2>3
<1>8. Once(t)
  BY <1>3, <1>7 DEF Once
<1>9. \A x \in Items(t) : x \in Items(q) \cup Items(s)
  BY <1>4, <1>6
<1>10. ASSUME NEW x \in Items(q) PROVE x \in Items(t)
  <2>1. PICK i \in 1..n : x = q[i]
    BY <1>4
  <2>2. i \in 1..(n + m) /\ i <= n
    BY <1>2
  <2> QED BY <1>3, <1>4, <2>1, <2>2
<1>11. ASSUME NEW x \in Items(s) PROVE x \in Items(t)
  <2>1. PICK i \in 1..m : x = s[i]
    BY <1>4
  <2>2. i + n \in 1..(n + m) /\ ~(i + n <= n) /\ i + n - n = i
    BY <1>2
  <2>3. t[i + n] = s[i]
    BY <1>3, <2>2
  <2> QED BY <1>4, <2>1, <2>2, <2>3
<1> QED BY <1>1, <1>2, <1>3, <1>8, <1>9, <1>10, <1>11

LEMMA OneItem == ASSUME NEW S, NEW x \in S PROVE <<x>> \in Seq(S) /\ Once(<<x>>) /\ Items(<<x>>) = {x} /\ Len(<<x>>) = 1
BY DEF Once, Items

LEMMA NoItem == ASSUME NEW S PROVE <<>> \in Seq(S) /\ Once(<<>>) /\ Items(<<>>) = {} /\ Len(<<>>) = 0
BY DEF Once, Items

\* As many items as places.
LEMMA ItemsCounted ==
  ASSUME NEW S, NEW q \in Seq(S), Once(q) PROVE IsFiniteSet(Items(q)) /\ Cardinality(Items(q)) = Len(q)
<1>1. PICK n \in Nat : n = Len(q)
  BY LenProperties
<1>2. IsFiniteSet(1..n) /\ Cardinality(1..n) = n
  BY FS_Interval
<1> DEFINE f == [i \in 1..n |-> q[i]]
<1>3. f \in Surjection(1..n, Items(q))
  BY <1>1 DEF Surjection, Items
<1>4. f \in Injection(1..n, Items(q))
  BY <1>1, <1>3 DEF Injection, IsInjective, Surjection, Once
<1>5. IsFiniteSet(Items(q)) /\ Cardinality(Items(q)) = n
  BY <1>2, <1>3, <1>4, FS_Surjection
<1> QED BY <1>1, <1>5

\* The entries of a directory in the order of their names.
LEMMA OrderedIs ==
  ASSUME Shaped(tree), NEW p \in Paths
  PROVE  /\ Ordered(Entries(p)) \in Seq(Paths) /\ Once(Ordered(Entries(p)))
         /\ Items(Ordered(Entries(p))) = Entries(p)
<1>1. PICK set : set = Entries(p)
  OBVIOUS
<1>2. PICK R : R = {d \in set \X set : d[1][Len(d[1])] < d[2][Len(d[2])]}
  OBVIOUS
<1>3. IsFiniteSet(set) /\ set \subseteq Paths
  <2>1. set \in SUBSET Paths
    BY <1>1 DEF Entries, Shaped
  <2> QED BY <2>1, PathsAreFinite, FS_Subset
<1>4. p \in FilePaths /\ Len(p) \in Nat
  BY PathIs, BelowIs
<1>5. PICK n \in Nat : n = Len(p) + 1
  BY <1>4
<1>6. ASSUME NEW q \in set
      PROVE  q \in FilePaths /\ Len(q) = n /\ q[n] \in Nat /\ \A i \in 1..(n - 1) : q[i] = p[i]
  <2>1. q \in FilePaths /\ Len(q) = n /\ Below(p, q)
    BY <1>1, <1>3, <1>5, PathIs DEF Entries
  <2>2. \A i \in 1..(n - 1) : q[i] = p[i]
    BY <1>4, <1>5, <2>1, BelowIs
  <2>3. n \in 1..Len(q) /\ q \in Seq(Names)
    BY <1>4, <1>5, <2>1 DEF FilePaths
  <2>4. q[n] \in Names
    BY <2>3, ElementOfSeq
  <2> QED BY <2>1, <2>2, <2>4, RepoFilesAssumption
<1>7. \A q, e \in set : <<q, e>> \in R <=> q[n] < e[n]
  BY <1>2, <1>6
<1>8. ASSUME NEW q \in set, NEW e \in set, q[n] = e[n] PROVE q = e
  <2>1. \A i \in 1..n : q[i] = e[i]
    <3> TAKE i \in 1..n
    <3>1. CASE i = n
      BY <1>8, <3>1
    <3>2. CASE i # n
      <4>1. i \in 1..(n - 1)
        BY <3>2
      <4> QED BY <1>6, <4>1
    <3> QED BY <3>1, <3>2
  <2> QED BY <1>6, <2>1, PathsEqual
<1>9. LinearOn(set, R)
  <2>1. \A d, e \in set : d # e => <<d, e>> \in R \/ <<e, d>> \in R
    <3> SUFFICES ASSUME NEW d \in set, NEW e \in set, d # e PROVE <<d, e>> \in R \/ <<e, d>> \in R
      OBVIOUS
    <3>1. d[n] \in Nat /\ e[n] \in Nat /\ d[n] # e[n]
      BY <1>6, <1>8
    <3> QED BY <1>7, <3>1
  <2>2. \A d \in set : <<d, d>> \notin R
    BY <1>6, <1>7
  <2>3. ASSUME NEW d \in set, NEW e \in set, NEW f \in set, <<d, e>> \in R, <<e, f>> \in R PROVE <<d, f>> \in R
    <3>1. d[n] \in Nat /\ e[n] \in Nat /\ f[n] \in Nat /\ d[n] < e[n] /\ e[n] < f[n]
      BY <1>6, <1>7, <2>3
    <3>2. d[n] < f[n]
      BY <3>1
    <3> QED BY <1>7, <3>2
  <2> QED BY <2>1, <2>2, <2>3 DEF LinearOn
<1>10. PICK t : t = SortedBy(set, R)
  OBVIOUS
<1>11. /\ t \in Seq(Paths) /\ ToSet(t) = set
       /\ \A i, j \in 1..Len(t) : i < j => <<t[i], t[j]>> \in R
       /\ \A i \in 1..Len(t) : t[i] \in set
  BY <1>3, <1>9, <1>10, SortedSeq
<1>12. Once(t)
  <2>1. \A d \in set : <<d, d>> \notin R
    BY <1>9 DEF LinearOn
  <2>2. ASSUME NEW i \in 1..Len(t), NEW j \in 1..Len(t), i < j PROVE t[i] # t[j]
    BY <1>11, <2>1, <2>2
  <2>3. Len(t) \in Nat
    BY <1>11, LenProperties
  <2> QED BY <2>2, <2>3 DEF Once
<1>13. Items(t) = ToSet(t)
  <2>1. DOMAIN t = 1..Len(t)
    BY <1>11, LenProperties
  <2> QED BY <2>1 DEF Items, ToSet
<1>14. t = Ordered(set)
  BY <1>2, <1>10 DEF Ordered
<1> QED BY <1>1, <1>11, <1>12, <1>13, <1>14

FilesOf(t, p) == {q \in DOMAIN t : Below(p, q) /\ t[q].kind = "file"}
LieApart(p, q) == ~Below(p, q) /\ ~Below(q, p)

\* What a search has found, and where it has still to look, lies apart, and
\* while nothing changes they are all there is.
Exhausts(found, todo, to) ==
  /\ Items(found) \subseteq FilesOf(tree, to)
  /\ \A q \in FilesOf(tree, to) : q \in Items(found) \/ \E p \in Items(todo) : Below(p, q)
SearchOK(found, todo, to) ==
  /\ found \in Seq(Paths) /\ todo \in Seq(Paths) /\ Once(found) /\ Once(todo) /\ Len(found) <= MaxMatches
  /\ \A p \in Items(todo) : Below(to, p) /\ \A q \in Items(found) : LieApart(p, q)
  /\ \A p, q \in Items(todo) : p # q => LieApart(p, q)

LEMMA SearchStarts ==
  ASSUME Shaped(tree), NEW to \in Paths
  PROVE  SearchOK(<<>>, <<to>>, to) /\ Exhausts(<<>>, <<to>>, to)
<1>1. /\ <<to>> \in Seq(Paths) /\ Once(<<to>>) /\ Items(<<to>>) = {to}
      /\ <<>> \in Seq(Paths) /\ Once(<<>>) /\ Items(<<>>) = {} /\ Len(<<>>) = 0
  BY OneItem, NoItem
<1>2. Below(to, to)
  BY PathIs, PathBelowItself
<1>3. 0 <= MaxMatches
  BY RepoFilesAssumption
<1>4. SearchOK(<<>>, <<to>>, to)
  BY <1>1, <1>2, <1>3 DEF SearchOK
<1>5. \A q \in FilesOf(tree, to) : Below(to, q)
  BY DEF FilesOf
<1> QED BY <1>1, <1>4, <1>5 DEF Exhausts

\* A directory's entries take its place,
LEMMA SearchOpens ==
  ASSUME Shaped(tree), NEW found, NEW todo, NEW to \in Paths, SearchOK(found, todo, to), todo # <<>>,
         Head(todo) \in DOMAIN tree, Kind(Head(todo)) = "dir",
         NEW rest, rest = Ordered(Entries(Head(todo))) \o Tail(todo)
  PROVE  SearchOK(found, rest, to) /\ (Exhausts(found, todo, to) => Exhausts(found, rest, to))
<1>1. PICK p, t : p = Head(todo) /\ t = Tail(todo)
  OBVIOUS
<1>2. /\ t \in Seq(Paths) /\ Once(t) /\ Items(t) = Items(todo) \ {p} /\ p \in Items(todo) /\ Items(todo) \subseteq Paths
  BY <1>1, TailItems DEF SearchOK
<1>3. PICK e : e = Ordered(Entries(p))
  OBVIOUS
<1>4. e \in Seq(Paths) /\ Once(e) /\ Items(e) = Entries(p) /\ p \in Paths
  BY <1>2, <1>3, OrderedIs
<1>5. /\ \A q \in Paths : q \in FilePaths
      /\ Items(found) \subseteq Paths
  <2>1. \A i \in 1..Len(found) : found[i] \in Paths
    BY ElementOfSeq DEF SearchOK
  <2> QED BY <2>1, PathIs DEF Items
<1>6. ASSUME NEW q \in Entries(p)
      PROVE  /\ q \in FilePaths /\ q \in Paths /\ q \in DOMAIN tree /\ Below(p, q) /\ Len(q) = Len(p) + 1
             /\ Len(p) \in Nat /\ Below(to, q)
  <2>1. q \in DOMAIN tree /\ Below(p, q) /\ Len(q) = Len(p) + 1
    BY DEF Entries
  <2>2. q \in Paths /\ q \in FilePaths /\ to \in FilePaths
    BY <1>5, <2>1 DEF Shaped
  <2>3. Below(to, p) /\ p \in FilePaths
    BY <1>2, <1>4, <1>5 DEF SearchOK
  <2>4. Below(to, q)
    BY <2>1, <2>2, <2>3, BelowFurther
  <2> QED BY <2>1, <2>2, <2>3, <2>4, BelowIs
<1>7. ASSUME NEW q \in Entries(p), NEW x \in Paths, LieApart(p, x) PROVE LieApart(q, x)
  <2>1. x \in FilePaths /\ p \in FilePaths /\ Len(x) \in Nat
    BY <1>4, <1>5, BelowIs
  <2>2. ~Below(q, x)
    BY <1>6, <1>7, <2>1, BelowFurther DEF LieApart
  <2>3. ~Below(x, q)
    <3>1. SUFFICES ASSUME Below(x, q) PROVE FALSE
      OBVIOUS
    <3>2. CASE Len(x) <= Len(p)
      BY <1>6, <1>7, <2>1, <3>1, <3>2, AboveOneWay DEF LieApart
    <3>3. CASE Len(x) > Len(p)
      <4>1. Len(q) <= Len(x)
        BY <1>6, <2>1, <3>3
      <4>2. x = q
        BY <1>6, <2>1, <3>1, <4>1, BelowSame
      <4> QED BY <1>6, <1>7, <4>2 DEF LieApart
    <3> QED BY <1>6, <2>1, <3>2, <3>3
  <2> QED BY <2>2, <2>3 DEF LieApart
<1>8. ASSUME NEW q \in Entries(p), NEW x \in Entries(p), q # x PROVE LieApart(q, x)
  <2>1. Len(q) = Len(x) /\ q \in FilePaths /\ x \in FilePaths /\ Len(q) \in Nat
    BY <1>6, BelowIs
  <2> QED BY <1>8, <2>1, BelowSame DEF LieApart
<1>9. \A x \in Items(t) : x \in Paths /\ LieApart(p, x)
  BY <1>2 DEF SearchOK
<1>10. Items(e) \cap Items(t) = {}
  <2>1. ASSUME NEW x \in Entries(p), x \in Items(t) PROVE FALSE
    BY <1>6, <1>9, <2>1 DEF LieApart
  <2> QED BY <1>4, <2>1
<1>11. rest \in Seq(Paths) /\ Once(rest) /\ Items(rest) = Entries(p) \cup Items(t)
  <2>1. e \o t \in Seq(Paths) /\ Once(e \o t) /\ Items(e \o t) = Items(e) \cup Items(t)
    BY <1>2, <1>4, <1>10, JoinItems
  <2>2. rest = e \o t
    BY <1>1, <1>3
  <2> QED BY <1>4, <2>1, <2>2
<1>12. ASSUME NEW q \in Items(rest) PROVE Below(to, q) /\ \A x \in Items(found) : LieApart(q, x)
  <2>1. CASE q \in Entries(p)
    BY <1>2, <1>5, <1>6, <1>7, <2>1 DEF SearchOK
  <2>2. CASE q \in Items(t)
    BY <1>2, <2>2 DEF SearchOK
  <2> QED BY <1>11, <2>1, <2>2
<1>13. ASSUME NEW q \in Items(rest), NEW x \in Items(rest), q # x PROVE LieApart(q, x)
  <2>1. CASE q \in Entries(p) /\ x \in Entries(p)
    BY <1>8, <1>13, <2>1
  <2>2. CASE q \in Entries(p) /\ x \in Items(t)
    BY <1>7, <1>9, <2>2
  <2>3. CASE q \in Items(t) /\ x \in Entries(p)
    BY <1>7, <1>9, <2>3 DEF LieApart
  <2>4. CASE q \in Items(t) /\ x \in Items(t)
    BY <1>2, <1>13, <2>4 DEF SearchOK
  <2> QED BY <1>11, <2>1, <2>2, <2>3, <2>4
<1>14. SearchOK(found, rest, to)
  BY <1>11, <1>12, <1>13 DEF SearchOK
<1>15. ASSUME Exhausts(found, todo, to), NEW q \in FilesOf(tree, to), q \notin Items(found)
       PROVE  \E x \in Items(rest) : Below(x, q)
  <2>1. PICK x \in Items(todo) : Below(x, q)
    BY <1>15 DEF Exhausts
  <2>2. CASE x # p
    BY <1>2, <1>11, <2>1, <2>2
  <2>3. CASE x = p
    <3>1. q \in DOMAIN tree /\ tree[q].kind = "file" /\ p \in DOMAIN tree /\ tree[p].kind = "dir" /\ p \in FilePaths
      BY <1>1, <1>4, <1>5, KindIs DEF FilesOf
    <3>2. \E y \in Entries(p) : Below(y, q)
      BY <2>1, <2>3, <3>1, EntryAbove
    <3> QED BY <1>11, <3>2
  <2> QED BY <2>2, <2>3
<1>16. Exhausts(found, todo, to) => Exhausts(found, rest, to)
  BY <1>15 DEF Exhausts
<1> QED BY <1>14, <1>16

\* and a file is found.
LEMMA SearchFinds ==
  ASSUME Shaped(tree), NEW found, NEW todo, NEW to \in Paths, SearchOK(found, todo, to), todo # <<>>,
         Head(todo) \in DOMAIN tree, Kind(Head(todo)) # "dir", Len(found) < MaxMatches,
         NEW more, more = Append(found, Head(todo)), NEW rest, rest = Tail(todo)
  PROVE  SearchOK(more, rest, to) /\ (Exhausts(found, todo, to) => Exhausts(more, rest, to))
<1>1. PICK p : p = Head(todo)
  OBVIOUS
<1>2. /\ rest \in Seq(Paths) /\ Once(rest) /\ Items(rest) = Items(todo) \ {p} /\ p \in Items(todo) /\ Items(todo) \subseteq Paths
  BY <1>1, TailItems DEF SearchOK
<1>3. p \in Paths /\ p \in FilePaths /\ Below(p, p) /\ Below(to, p) /\ p \in DOMAIN tree /\ tree[p].kind = "file"
  <2>1. p \in Paths /\ p \in FilePaths /\ Below(p, p)
    BY <1>2, PathIs, PathBelowItself
  <2>2. p \in DOMAIN tree /\ tree[p].kind # "dir"
    BY <1>1, KindIs
  <2> QED BY <1>2, <2>1, <2>2 DEF Shaped, SearchOK
<1>4. p \notin Items(found)
  BY <1>2, <1>3 DEF SearchOK, LieApart
<1>5. <<p>> \in Seq(Paths) /\ Once(<<p>>) /\ Items(<<p>>) = {p} /\ Len(<<p>>) = 1
  BY <1>3, OneItem
<1>6. found \in Seq(Paths) /\ Once(found)
  BY DEF SearchOK
<1>7. more = found \o <<p>>
  BY <1>1, <1>3, <1>6, AppendIsConcat
<1>8. more \in Seq(Paths) /\ Once(more) /\ Items(more) = Items(found) \cup {p} /\ Len(more) = Len(found) + 1
  <2>1. PICK one : one = <<p>>
    OBVIOUS
  <2>2. Items(found) \cap Items(one) = {}
    BY <1>4, <1>5, <2>1
  <2>3. found \o one \in Seq(Paths) /\ Once(found \o one) /\ Items(found \o one) = Items(found) \cup Items(one)
        /\ Len(found \o one) = Len(found) + Len(one)
    <3>1. one \in Seq(Paths) /\ Once(one)
      BY <1>5, <2>1
    <3> QED BY <1>6, <2>2, <3>1, JoinItems
  <2> QED BY <1>5, <1>7, <2>1, <2>3
<1>9. Len(more) <= MaxMatches
  BY <1>6, <1>8, LenProperties, RepoFilesAssumption
<1>10. \A q \in Items(rest) : Below(to, q) /\ \A x \in Items(more) : LieApart(q, x)
  BY <1>2, <1>8 DEF SearchOK
<1>11. \A q, x \in Items(rest) : q # x => LieApart(q, x)
  BY <1>2 DEF SearchOK
<1>12. SearchOK(more, rest, to)
  BY <1>2, <1>8, <1>9, <1>10, <1>11 DEF SearchOK
<1>13. ASSUME Exhausts(found, todo, to), NEW q \in FilesOf(tree, to), q \notin Items(more)
       PROVE  \E x \in Items(rest) : Below(x, q)
  <2>1. PICK x \in Items(todo) : Below(x, q)
    BY <1>8, <1>13 DEF Exhausts
  <2>2. CASE x # p
    BY <1>2, <2>1, <2>2
  <2>3. CASE x = p
    <3>1. q \in DOMAIN tree /\ p # q
      BY <1>8, <1>13 DEF FilesOf
    <3>2. tree[p].kind = "dir"
      BY <1>3, <2>1, <2>3, <3>1, EntryAbove
    <3> QED BY <1>3, <3>2
  <2> QED BY <2>2, <2>3
<1>14. p \in FilesOf(tree, to)
  BY <1>3 DEF FilesOf
<1>15. Exhausts(found, todo, to) => Exhausts(more, rest, to)
  BY <1>8, <1>13, <1>14 DEF Exhausts
<1> QED BY <1>12, <1>15

\* What a search that is over has found: all there is, or as much as it may.
LEMMA SearchIsOver ==
  ASSUME Shaped(tree), NEW found, NEW todo, NEW to \in Paths, SearchOK(found, todo, to),
         todo = <<>> \/ Len(found) >= MaxMatches, Exhausts(found, todo, to)
  PROVE  /\ Items(found) \subseteq FilesOf(tree, to)
         /\ Len(found) = IF Cardinality(FilesOf(tree, to)) < MaxMatches
                         THEN Cardinality(FilesOf(tree, to)) ELSE MaxMatches
<1>1. PICK files : files = FilesOf(tree, to)
  OBVIOUS
<1>2. IsFiniteSet(files) /\ Cardinality(files) \in Nat
  <2>1. files \in SUBSET Paths
    BY <1>1 DEF FilesOf, Shaped
  <2> QED BY <2>1, PathsAreFinite, FS_Subset, FS_CardinalityType
<1>3. found \in Seq(Paths) /\ Once(found) /\ Len(found) <= MaxMatches /\ Len(found) \in Nat
  BY LenProperties DEF SearchOK
<1>4. Items(found) \in SUBSET files
  BY <1>1 DEF Exhausts
<1>5. Len(found) = Cardinality(Items(found)) /\ Len(found) <= Cardinality(files)
  BY <1>2, <1>3, <1>4, ItemsCounted, FS_Subset
<1>6. MaxMatches \in Nat
  BY RepoFilesAssumption
<1>7. CASE Len(found) >= MaxMatches
  BY <1>1, <1>2, <1>3, <1>4, <1>5, <1>6, <1>7
<1>8. CASE todo = <<>>
  <2>1. Items(todo) = {}
    BY <1>8, NoItem
  <2>2. files \subseteq Items(found)
    BY <1>1, <2>1 DEF Exhausts
  <2>3. files = Items(found)
    BY <1>4, <2>2
  <2> QED BY <1>1, <1>2, <1>3, <1>5, <1>6, <2>3
<1> QED BY <1>7, <1>8

-----------------------------------------------------------------------------
(* The invariant of the calls that read.                                   *)

Reading == {"list", "info", "grep"}

WalkOK(c) ==
  /\ c.at \in Changing => c.from \in Paths /\ c.to \in Paths
  /\ c.at \in Reading =>
       /\ c.to \in Paths /\ c.quiet \in BOOLEAN
       /\ c.at = "info" /\ c.quiet => c.todo = Entries(c.to)
       /\ c.at = "grep" => /\ SearchOK(c.found, c.todo, c.to)
                           /\ c.quiet => Exhausts(c.found, c.todo, c.to)

AnswerOK(a) ==
  /\ a.tool = "list" /\ a.quiet => a.found = {q \in DOMAIN a.at : Len(q) = Len(a.to) + 1 /\ Below(a.to, q)}
  /\ a.tool = "grep" =>
       /\ \A i, j \in DOMAIN a.found : i # j => a.found[i] # a.found[j]
       /\ a.quiet =>
            /\ {a.found[i] : i \in DOMAIN a.found} \subseteq FilesOf(a.at, a.to)
            /\ Len(a.found) = IF Cardinality(FilesOf(a.at, a.to)) < MaxMatches
                              THEN Cardinality(FilesOf(a.at, a.to)) ELSE MaxMatches

ReadsInv ==
  /\ Shaped(tree) /\ callsMade \in 0..MaxCalls /\ panicked \in BOOLEAN
  /\ answers = [r \in Runners |-> answers[r]]
  /\ \A r \in Runners : WalkOK(fsCalls[r])
  /\ \A r \in Runners : AnswerOK(answers[r])

LEMMA ReadsGive == ReadsInv => ReadsAreExact /\ RepoFilesTypeOK
<1>1. ReadsInv => ReadsAreExact
  BY DEF ReadsInv, ReadsAreExact, AnswerOK, FilesOf
<1>2. ASSUME Shaped(tree), NEW p \in DOMAIN tree, NEW q \in Parents(p) PROVE Kind(q) = "dir"
  <2>1. q \in DOMAIN tree /\ tree[q].kind = "dir"
    BY <1>2 DEF Shaped
  <2> QED BY <2>1, KindIs
<1>3. ReadsInv => RepoFilesTypeOK
  BY <1>2 DEF ReadsInv, RepoFilesTypeOK, Shaped
<1> QED BY <1>1, <1>3

LEMMA ReaderIs == ASSUME NEW c, CallOK(c), c.at \in Reading PROVE ReadOK(c)
BY DEF CallOK, NoFsCall, ChangeOK, ChangeCall, Changing, Reading

LEMMA ShakenWalks ==
  ASSUME NEW c, CallOK(c), WalkOK(c), NEW t, tree' = t, NEW d, d = Shaken(t, c)
  PROVE  WalkOK(d)'
<1>1. CASE t = tree
  <2>1. d = c /\ tree' = tree
    BY <1>1 DEF Shaken
  <2> QED BY <2>1 DEF WalkOK, SearchOK, Exhausts, Entries, FilesOf
<1>2. CASE t # tree /\ c = NoFsCall
  <2>1. d = c
    BY <1>2 DEF Shaken, NoFsCall
  <2> QED BY <1>2, <2>1 DEF WalkOK, NoFsCall, Changing, Reading
<1>3. CASE t # tree /\ ReadOK(c)
  <2>1. "kept" \notin DOMAIN c /\ "quiet" \in DOMAIN c
    BY <1>3 DEF ReadOK
  <2>2. d = [c EXCEPT !.quiet = FALSE]
    BY <1>3, <2>1 DEF Shaken
  <2>3. d.at = c.at /\ d.to = c.to /\ d.found = c.found /\ d.todo = c.todo /\ d.quiet = FALSE
    BY <1>3, <2>2 DEF ReadOK
  <2>4. c.at \notin Changing /\ c.at \in Reading
    BY <1>3 DEF ReadOK, Changing, Reading
  <2> QED BY <2>3, <2>4 DEF WalkOK, SearchOK
<1>4. CASE t # tree /\ ChangeOK(c)
  <2>1. c \in ChangeCall
    BY <1>4 DEF ChangeOK
  <2>2. "kept" \in DOMAIN c /\ "quiet" \notin DOMAIN c /\ c.at \in Changing /\ c.at \notin Reading
    BY <2>1 DEF ChangeCall, Changing, Reading
  <2>3. PICK k : k = {p \in c.kept : p \in DOMAIN t /\ t[p] = tree[p]}
    OBVIOUS
  <2>4. d = [c EXCEPT !.kept = k]
    BY <1>4, <2>2, <2>3 DEF Shaken
  <2>5. d.at = c.at /\ d.to = c.to /\ d.from = c.from
    BY <2>1, <2>4 DEF ChangeCall
  <2> QED BY <2>2, <2>5 DEF WalkOK
<1> QED BY <1>1, <1>2, <1>3, <1>4 DEF CallOK

LEMMA WalksStay ==
  ASSUME NEW t, NEW cs, cs = [r \in Runners |-> cs[r]], \A r \in Runners : CallOK(cs[r]) /\ WalkOK(cs[r]),
         ChangeTree(t, cs)
  PROVE  tree' = t /\ \A r \in Runners : WalkOK(fsCalls[r])'
<1>1. tree' = t /\ fsCalls' = [r \in Runners |-> Shaken(t, cs[r])]
  BY DEF ChangeTree
<1>2. ASSUME NEW r \in Runners PROVE WalkOK(fsCalls[r])'
  <2>1. PICK c : c = cs[r]
    OBVIOUS
  <2>2. PICK d : d = Shaken(t, c)
    OBVIOUS
  <2>3. WalkOK(d)'
    BY <1>1, <2>1, <2>2, ShakenWalks
  <2>4. fsCalls'[r] = d
    BY <1>1, <2>1, <2>2
  <2> QED BY <2>3, <2>4
<1> QED BY <1>1, <1>2

LEMMA TreeKeeps ==
  ASSUME ReadsInv, NEW t, Shaped(t), answers' = answers, callsMade' = callsMade, panicked' = panicked,
         NEW cs, cs = [r \in Runners |-> cs[r]], \A r \in Runners : CallOK(cs[r]) /\ WalkOK(cs[r]),
         ChangeTree(t, cs)
  PROVE  ReadsInv'
<1>1. tree' = t /\ \A r \in Runners : WalkOK(fsCalls[r])'
  BY WalksStay
<1>0. \A r \in Runners : AnswerOK(answers'[r])
  BY DEF ReadsInv
<1>2. \A r \in Runners : AnswerOK(answers[r])'
  BY <1>0 DEF AnswerOK, FilesOf
<1>3. Shaped(tree)'
  BY <1>1 DEF Shaped
<1> QED BY <1>1, <1>2, <1>3 DEF ReadsInv

LEMMA AnswerKeeps ==
  ASSUME FilesInv, ReadsInv, NEW r \in Runners, NEW t, Shaped(t), NEW a, AnswerOK(a), Answer(r, t, a),
         callsMade' \in 0..MaxCalls, panicked' = panicked
  PROVE  ReadsInv'
<1>1. PICK cs : cs = [fsCalls EXCEPT ![r] = NoFsCall]
  OBVIOUS
<1>2. WalkOK(NoFsCall) /\ CallOK(NoFsCall)
  BY DEF WalkOK, CallOK, NoFsCall, Changing, Reading
<1>3. cs = [q \in Runners |-> cs[q]] /\ \A q \in Runners : CallOK(cs[q]) /\ WalkOK(cs[q])
  BY <1>1, <1>2 DEF FilesInv, ReadsInv
<1>4. ChangeTree(t, cs) /\ answers' = [answers EXCEPT ![r] = a]
  BY <1>1 DEF Answer
<1>5. tree' = t /\ \A q \in Runners : WalkOK(fsCalls[q])'
  BY <1>3, <1>4, WalksStay
<1>6. answers' = [q \in Runners |-> answers'[q]] /\ \A q \in Runners : answers'[q] = a \/ answers'[q] = answers[q]
  BY <1>4 DEF ReadsInv
<1>7. \A q \in Runners : AnswerOK(answers'[q])
  BY <1>6 DEF ReadsInv
<1>8. \A q \in Runners : AnswerOK(answers[q])'
  BY <1>7 DEF AnswerOK, FilesOf
<1>9. Shaped(tree)'
  BY <1>5 DEF Shaped
<1> QED BY <1>5, <1>6, <1>8, <1>9 DEF ReadsInv

LEMMA PlainAnswers ==
  ASSUME NEW a, a.tool \notin {"list", "grep"} PROVE AnswerOK(a)
BY DEF AnswerOK

LEMMA RefuseKeeps ==
  ASSUME FilesInv, ReadsInv, NEW r \in Runners, Refuse(r), callsMade' \in 0..MaxCalls, panicked' = panicked
  PROVE  ReadsInv'
<1>1. PICK a : a = [tool |-> "error"]
  OBVIOUS
<1>2. AnswerOK(a)
  BY <1>1, PlainAnswers
<1>3. Answer(r, tree, a)
  BY <1>1 DEF Refuse
<1>4. Shaped(tree)
  BY DEF ReadsInv
<1> QED BY <1>2, <1>3, <1>4, AnswerKeeps

LEMMA CallKeeps ==
  ASSUME FilesInv, ReadsInv, NEW r \in Runners, NEW c, WalkOK(c), fsCalls' = [fsCalls EXCEPT ![r] = c],
         tree' = tree, answers' = answers, callsMade' \in 0..MaxCalls, panicked' = panicked
  PROVE  ReadsInv'
<1>1. \A q \in Runners : WalkOK(fsCalls'[q])
  BY DEF FilesInv, ReadsInv
<1>2. \A q \in Runners : WalkOK(fsCalls[q])'
  BY <1>1 DEF WalkOK, SearchOK, Exhausts, Entries, FilesOf
<1>0. \A q \in Runners : AnswerOK(answers'[q])
  BY DEF ReadsInv
<1>3. \A q \in Runners : AnswerOK(answers[q])'
  BY <1>0 DEF AnswerOK, FilesOf
<1>4. Shaped(tree)'
  BY DEF ReadsInv, Shaped
<1> QED BY <1>2, <1>3, <1>4 DEF ReadsInv

LEMMA FirstTreesAreShaped == ASSUME NEW t \in FirstTrees PROVE Shaped(t)
<1>1. /\ DOMAIN t \subseteq Paths
      /\ \A p \in DOMAIN t : t[p] \in [kind : {"dir", "file"}, by : Nat] /\ \A q \in Parents(p) : q \in DOMAIN t /\ t[q] = Dir
  BY RepoFilesAssumption
<1>2. Dir.kind = "dir"
  BY DEF Dir
<1> QED BY <1>1, <1>2 DEF Shaped

LEMMA ReadsStart == RepoFilesInit => ReadsInv
<1> SUFFICES ASSUME RepoFilesInit PROVE ReadsInv
  OBVIOUS
<1>1. Shaped(tree)
  BY FirstTreesAreShaped DEF RepoFilesInit
<1>2. WalkOK(NoFsCall) /\ AnswerOK(NoAnswer)
  BY DEF WalkOK, NoFsCall, Changing, Reading, AnswerOK, NoAnswer
<1>3. 0 \in 0..MaxCalls
  BY RepoFilesAssumption
<1> QED BY <1>1, <1>2, <1>3 DEF RepoFilesInit, ReadsInv

LEMMA ChangersKeep ==
  ASSUME FilesInv, ReadsInv, NEW r \in Runners,
         \/ Ask4Change(r) \/ Decide(r) \/ StatNew(r) \/ MkdirParents(r) \/ WriteNewFile(r) \/ DeletePath(r) \/ MovePath(r)
  PROVE  ReadsInv'
<1> DEFINE c == fsCalls[r]
<1>0. /\ CallOK(c) /\ WalkOK(c) /\ Shaped(tree) /\ callsMade \in 0..MaxCalls
      /\ fsCalls = [q \in Runners |-> fsCalls[q]]
      /\ \A q \in Runners : CallOK(fsCalls[q]) /\ WalkOK(fsCalls[q])
  BY DEF FilesInv, ReadsInv
<1>1. CASE Ask4Change(r)
  <2>1. callsMade' \in 0..MaxCalls /\ panicked' = panicked
    BY <1>0, <1>1, RepoFilesAssumption DEF Ask4Change
  <2>2. CASE Refuse(r)
    BY <2>1, <2>2, RefuseKeeps
  <2>3. CASE ~Refuse(r)
    <3>1. PICK tool \in {"write", "delete", "move"}, from \in AskedPaths, to \in AskedPaths :
            /\ tree' = tree /\ answers' = answers
            /\ fsCalls' = [fsCalls EXCEPT ![r] =
                 [at |-> "asked", tool |-> tool, from |-> from, to |-> to, by |-> callsMade + 1,
                  ticket |-> buildApprovalBinding(tool, from, to), kept |-> {}]]
      BY <1>1, <2>3 DEF Ask4Change
    <3>2. PICK d : d = [at |-> "asked", tool |-> tool, from |-> from, to |-> to, by |-> callsMade + 1,
                        ticket |-> buildApprovalBinding(tool, from, to), kept |-> {}]
      OBVIOUS
    <3>3. d.at = "asked" /\ d.from \in Paths /\ d.to \in Paths
      BY <3>2, RepoFilesAssumption
    <3>4. WalkOK(d)
      BY <3>3 DEF WalkOK, Reading
    <3> QED BY <2>1, <3>1, <3>2, <3>4, CallKeeps
  <2> QED BY <2>2, <2>3
<1>2. CASE ~Ask4Change(r) /\ Refuse(r)
  <2>1. UNCHANGED <<callsMade, panicked>>
    BY <1>2 DEF Decide, StatNew, MkdirParents, WriteNewFile, DeletePath, MovePath
  <2> QED BY <1>0, <1>2, <2>1, RefuseKeeps
<1>3. CASE Decide(r) /\ ~Refuse(r)
  <2>1. ChangeOK(c) /\ UNCHANGED <<tree, answers, callsMade, panicked>> /\ c.at \in Changing
    BY <1>0, <1>3, ChangerOK DEF Decide, FsAt, Changing
  <2>2. PICK at : at = CASE c.tool = "write" -> "stat" [] c.tool = "delete" -> "remove" [] OTHER -> "mkdir"
    OBVIOUS
  <2>3. PICK d : d = [c EXCEPT !.kept = DOMAIN tree, !.at = at]
    OBVIOUS
  <2>4. fsCalls' = [fsCalls EXCEPT ![r] = d]
    BY <1>0, <1>3, <2>2, <2>3 DEF Decide
  <2>5. d.at = at /\ at \in Changing /\ at \notin Reading /\ d.from = c.from /\ d.to = c.to
    BY <2>1, <2>2, <2>3 DEF ChangeOK, ChangeCall, Changing, Reading
  <2>6. WalkOK(d)
    BY <1>0, <2>1, <2>5 DEF WalkOK
  <2> QED BY <1>0, <2>1, <2>4, <2>6, CallKeeps
<1>4. CASE StatNew(r) /\ ~Refuse(r)
  <2>1. ChangeOK(c) /\ UNCHANGED <<tree, answers, callsMade, panicked>> /\ c.at \in Changing
    BY <1>0, <1>4, ChangerOK DEF StatNew, FsAt, Changing
  <2>2. PICK d : d = [c EXCEPT !.at = "mkdir"]
    OBVIOUS
  <2>3. fsCalls' = [fsCalls EXCEPT ![r] = d]
    BY <1>0, <1>4, <2>2 DEF StatNew, Go
  <2>4. d.at = "mkdir" /\ d.from = c.from /\ d.to = c.to
    BY <2>1, <2>2 DEF ChangeOK, ChangeCall
  <2>5. WalkOK(d)
    BY <1>0, <2>1, <2>4 DEF WalkOK, Changing, Reading
  <2> QED BY <1>0, <2>1, <2>3, <2>5, CallKeeps
<1>5. CASE MkdirParents(r) /\ ~Refuse(r)
  <2>1. /\ ChangeOK(c) /\ UNCHANGED <<answers, callsMade, panicked>> /\ c.at = "mkdir" /\ c.at \in Changing
        /\ CanMkdirAll(c.to) /\ ChangeTree(MkdirAll(c.to), [fsCalls EXCEPT ![r].at = c.tool])
    BY <1>0, <1>5, ChangerOK DEF MkdirParents, FsAt, Changing
  <2>2. PICK d : d = [c EXCEPT !.at = c.tool]
    OBVIOUS
  <2>3. PICK cs : cs = [fsCalls EXCEPT ![r] = d]
    OBVIOUS
  <2>4. PICK t : t = MkdirAll(c.to)
    OBVIOUS
  <2>5. ChangeTree(t, cs)
    BY <1>0, <2>1, <2>2, <2>3, <2>4
  <2>6. c.to \in Paths /\ c.from \in Paths
    BY <1>0, <2>1 DEF WalkOK
  <2>7. Shaped(t)
    BY <1>0, <2>1, <2>4, <2>6, MadeIsShaped
  <2>8. c \in ChangeCall /\ c.tool \in {"write", "move"}
    BY <2>1 DEF ChangeOK
  <2>9. /\ d \in ChangeCall /\ d.at = c.tool /\ d.kept = c.kept /\ d.tool = c.tool /\ d.to = c.to
        /\ d.from = c.from /\ d.ticket = c.ticket
    BY <2>2, <2>8 DEF ChangeCall, Changing
  <2>10. CallOK(d)
    BY <2>1, <2>8, <2>9 DEF CallOK, ChangeOK
  <2>11. WalkOK(d)
    BY <2>6, <2>8, <2>9 DEF WalkOK, Changing, Reading
  <2>12. cs = [q \in Runners |-> cs[q]] /\ \A q \in Runners : CallOK(cs[q]) /\ WalkOK(cs[q])
    BY <1>0, <2>3, <2>10, <2>11
  <2> QED BY <2>1, <2>5, <2>7, <2>12, TreeKeeps
<1>6. CASE WriteNewFile(r) /\ ~Refuse(r)
  <2>1. /\ ChangeOK(c) /\ UNCHANGED <<callsMade, panicked>> /\ c.at \in Changing
        /\ Kind(c.to) # "dir" /\ \A q \in Parents(c.to) : Kind(q) = "dir"
        /\ Answer(r, With(tree, [q \in {c.to} |-> File(c.by)]), [tool |-> "write"])
    BY <1>0, <1>6, ChangerOK DEF WriteNewFile, FsAt, Changing
  <2>2. PICK t, a, by : by = c.by /\ t = With(tree, [q \in {c.to} |-> File(by)]) /\ a = [tool |-> "write"]
    OBVIOUS
  <2>3. c.to \in Paths
    BY <1>0, <2>1 DEF WalkOK
  <2>4. Shaped(t)
    BY <1>0, <2>1, <2>2, <2>3, WrittenIsShaped
  <2>5. AnswerOK(a) /\ Answer(r, t, a)
    BY <2>1, <2>2, PlainAnswers
  <2> QED BY <1>0, <2>1, <2>4, <2>5, AnswerKeeps
<1>7. CASE DeletePath(r) /\ ~Refuse(r)
  <2>1. UNCHANGED <<callsMade, panicked>>
    BY <1>7 DEF DeletePath
  <2>2. CASE Answer(r, tree, [tool |-> "delete"])
    <3>1. PICK a : a = [tool |-> "delete"]
      OBVIOUS
    <3>2. AnswerOK(a) /\ Answer(r, tree, a)
      BY <2>2, <3>1, PlainAnswers
    <3> QED BY <1>0, <2>1, <3>2, AnswerKeeps
  <2>3. CASE ~Answer(r, tree, [tool |-> "delete"])
    <3>1. PICK q \in DOMAIN tree : Entries(q) = {} /\ ChangeTree(Without(tree, {q}), fsCalls) /\ answers' = answers
      BY <1>7, <2>3 DEF DeletePath
    <3>2. PICK t : t = Without(tree, {q})
      OBVIOUS
    <3>3. Shaped(t)
      BY <1>0, <3>1, <3>2, RemovedIsShaped
    <3>4. PICK cs : cs = fsCalls
      OBVIOUS
    <3>5. cs = [x \in Runners |-> cs[x]] /\ (\A x \in Runners : CallOK(cs[x]) /\ WalkOK(cs[x])) /\ ChangeTree(t, cs)
      BY <1>0, <3>1, <3>2, <3>4
    <3> QED BY <2>1, <3>1, <3>3, <3>5, TreeKeeps
  <2> QED BY <2>2, <2>3
<1>8. CASE MovePath(r) /\ ~Refuse(r)
  <2>1. /\ ChangeOK(c) /\ UNCHANGED <<callsMade, panicked>> /\ c.at \in Changing
        /\ FitsBelow(c.from, c.to) /\ CanRename(c.from, c.to)
        /\ Answer(r, Renamed(c.from, c.to), [tool |-> "move"])
    BY <1>0, <1>8, ChangerOK DEF MovePath, FsAt, Changing
  <2>2. PICK t, a : t = Renamed(c.from, c.to) /\ a = [tool |-> "move"]
    OBVIOUS
  <2>3. c.to \in Paths /\ c.from \in Paths
    BY <1>0, <2>1 DEF WalkOK
  <2>4. Shaped(t)
    BY <1>0, <2>1, <2>2, <2>3, RenamedIsShaped
  <2>5. AnswerOK(a) /\ Answer(r, t, a)
    BY <2>1, <2>2, PlainAnswers
  <2> QED BY <1>0, <2>1, <2>4, <2>5, AnswerKeeps
<1> QED BY <1>1, <1>2, <1>3, <1>4, <1>5, <1>6, <1>7, <1>8

LEMMA ReadersKeep ==
  ASSUME FilesInv, ReadsInv, NEW r \in Runners,
         AskToRead(r) \/ ListDir(r) \/ ListInfo(r) \/ GrepSearch(r) \/ ReadFile(r)
  PROVE  ReadsInv'
<1> DEFINE c == fsCalls[r]
<1>0. /\ CallOK(c) /\ WalkOK(c) /\ Shaped(tree) /\ callsMade \in 0..MaxCalls
      /\ fsCalls = [q \in Runners |-> fsCalls[q]]
  BY DEF FilesInv, ReadsInv
<1>1. CASE AskToRead(r)
  <2>1. callsMade' \in 0..MaxCalls /\ panicked' = panicked
    BY <1>0, <1>1, RepoFilesAssumption DEF AskToRead
  <2>2. CASE Refuse(r)
    BY <2>1, <2>2, RefuseKeeps
  <2>3. CASE ~Refuse(r)
    <3>1. PICK at \in {"list", "grep"}, p \in AskedPaths :
            /\ tree' = tree /\ answers' = answers
            /\ fsCalls' = [fsCalls EXCEPT ![r] =
                 [at |-> at, to |-> p, todo |-> <<p>>, found |-> <<>>, quiet |-> TRUE]]
      BY <1>1, <2>3 DEF AskToRead
    <3>2. PICK d : d = [at |-> at, to |-> p, todo |-> <<p>>, found |-> <<>>, quiet |-> TRUE]
      OBVIOUS
    <3>3. /\ d.at = at /\ d.to = p /\ d.todo = <<p>> /\ d.found = <<>> /\ d.quiet \in BOOLEAN
          /\ p \in Paths /\ at \notin Changing /\ at # "info"
      BY <3>2, RepoFilesAssumption DEF Changing
    <3>4. SearchOK(<<>>, <<p>>, p) /\ Exhausts(<<>>, <<p>>, p)
      BY <1>0, <3>3, SearchStarts
    <3>5. WalkOK(d)
      BY <3>3, <3>4 DEF WalkOK
    <3> QED BY <2>1, <3>1, <3>2, <3>5, CallKeeps
  <2> QED BY <2>2, <2>3
<1>2. CASE ReadFile(r)
  <2>1. callsMade' \in 0..MaxCalls
    BY <1>0, <1>2, RepoFilesAssumption DEF ReadFile
  <2>2. CASE panicked' = panicked
    <3>1. CASE Refuse(r)
      BY <2>1, <2>2, <3>1, RefuseKeeps
    <3>2. CASE Answer(r, tree, [tool |-> "read"])
      <4>1. PICK a : a = [tool |-> "read"]
        OBVIOUS
      <4>2. AnswerOK(a) /\ Answer(r, tree, a)
        BY <3>2, <4>1, PlainAnswers
      <4> QED BY <1>0, <2>1, <2>2, <4>2, AnswerKeeps
    <3>3. CASE UNCHANGED <<tree, fsCalls, answers>>
      <4>1. PICK d : d = c
        OBVIOUS
      <4>2. WalkOK(d) /\ fsCalls' = [fsCalls EXCEPT ![r] = d]
        BY <1>0, <3>3, <4>1
      <4> QED BY <2>1, <2>2, <3>3, <4>2, CallKeeps
    <3> QED BY <1>2, <3>1, <3>2, <3>3 DEF ReadFile
  <2>3. CASE panicked' # panicked
    <3>1. panicked' = TRUE /\ UNCHANGED <<tree, fsCalls, answers>>
      BY <1>2, <2>3 DEF ReadFile
    <3>2. \A q \in Runners : WalkOK(fsCalls[q])'
      <4>1. \A q \in Runners : WalkOK(fsCalls'[q])
        BY <3>1 DEF ReadsInv
      <4> QED BY <3>1, <4>1 DEF WalkOK, SearchOK, Exhausts, Entries, FilesOf
    <3>3. \A q \in Runners : AnswerOK(answers[q])'
      <4>1. \A q \in Runners : AnswerOK(answers'[q])
        BY <3>1 DEF ReadsInv
      <4> QED BY <4>1 DEF AnswerOK, FilesOf
    <3>4. Shaped(tree)' /\ answers' = [q \in Runners |-> answers'[q]]
      BY <3>1 DEF ReadsInv, Shaped
    <3> QED BY <2>1, <3>1, <3>2, <3>3, <3>4 DEF ReadsInv
  <2> QED BY <2>2, <2>3
<1>3. CASE ~AskToRead(r) /\ ~ReadFile(r) /\ Refuse(r)
  <2>1. UNCHANGED <<callsMade, panicked>>
    BY <1>3 DEF ListDir, ListInfo, GrepSearch
  <2> QED BY <1>0, <1>3, <2>1, RefuseKeeps
<1>4. CASE ListDir(r) /\ ~Refuse(r)
  <2>1. /\ c.at = "list" /\ UNCHANGED <<tree, answers, callsMade, panicked>>
        /\ fsCalls' = [fsCalls EXCEPT ![r].at = "info", ![r].todo = Entries(c.to)]
    BY <1>4 DEF ListDir, FsAt
  <2>2. ReadOK(c)
    BY <1>0, <2>1, ReaderIs DEF Reading
  <2>3. PICK e : e = Entries(c.to)
    OBVIOUS
  <2>4. PICK d : d = [c EXCEPT !.at = "info", !.todo = e]
    OBVIOUS
  <2>5. d.at = "info" /\ d.todo = e /\ d.to = c.to /\ d.quiet = c.quiet
    BY <2>2, <2>4 DEF ReadOK
  <2>6. fsCalls' = [fsCalls EXCEPT ![r] = d]
    BY <1>0, <2>1, <2>3, <2>4
  <2>7. WalkOK(d)
    BY <1>0, <2>1, <2>3, <2>5 DEF WalkOK, Changing, Reading
  <2> QED BY <1>0, <2>1, <2>6, <2>7, CallKeeps
<1>5. CASE ListInfo(r) /\ ~Refuse(r)
  <2>1. PICK a : a = [tool |-> "list", to |-> c.to, quiet |-> c.quiet, found |-> c.todo, at |-> tree]
    OBVIOUS
  <2>2. c.at = "info" /\ Answer(r, tree, a) /\ UNCHANGED <<callsMade, panicked>>
    BY <1>5, <2>1 DEF ListInfo, FsAt
  <2>3. /\ a.tool = "list" /\ a.to = c.to /\ a.found = c.todo /\ a.at = tree
        /\ a.quiet = c.quiet
    BY <2>1
  <2>4. c.quiet => c.todo = Entries(c.to)
    BY <1>0, <2>2 DEF WalkOK, Reading
  <2>5. AnswerOK(a)
    BY <2>3, <2>4 DEF AnswerOK, Entries
  <2> QED BY <1>0, <2>2, <2>5, AnswerKeeps
<1>6. CASE GrepSearch(r) /\ ~Refuse(r)
  <2>1. /\ c.at = "grep" /\ UNCHANGED <<callsMade, panicked>>
        /\ SearchOK(c.found, c.todo, c.to) /\ c.to \in Paths /\ c.quiet \in BOOLEAN
        /\ c.quiet => Exhausts(c.found, c.todo, c.to)
    BY <1>0, <1>6 DEF GrepSearch, FsAt, WalkOK, Reading
  <2>2. PICK found, todo, to : found = c.found /\ todo = c.todo /\ to = c.to
    OBVIOUS
  <2>3. SearchOK(found, todo, to) /\ to \in Paths /\ (c.quiet => Exhausts(found, todo, to))
    BY <2>1, <2>2
  <2>4. CASE todo = <<>> \/ Len(found) >= MaxMatches
    <3>1. PICK a : a = [tool |-> "grep", to |-> c.to, quiet |-> c.quiet, found |-> c.found, at |-> tree]
      OBVIOUS
    <3>2. Answer(r, tree, a)
      BY <1>6, <2>2, <2>4, <3>1 DEF GrepSearch
    <3>3. a.tool = "grep" /\ a.to = to /\ a.found = found /\ a.at = tree /\ (a.quiet <=> c.quiet)
      BY <2>2, <3>1
    <3>4. Exhausts(found, todo, to) =>
            /\ Items(found) \subseteq FilesOf(tree, to)
            /\ Len(found) = IF Cardinality(FilesOf(tree, to)) < MaxMatches
                            THEN Cardinality(FilesOf(tree, to)) ELSE MaxMatches
      BY <1>0, <2>3, <2>4, SearchIsOver
    <3>5. DOMAIN found = 1..Len(found)
      BY <2>3, LenProperties DEF SearchOK
    <3>6. \A i, j \in DOMAIN found : i # j => found[i] # found[j]
      BY <2>3, <3>5 DEF SearchOK, Once
    <3>7. {found[i] : i \in DOMAIN found} = Items(found)
      BY <3>5 DEF Items
    <3>8. AnswerOK(a)
      BY <2>3, <3>3, <3>4, <3>6, <3>7 DEF AnswerOK
    <3> QED BY <1>0, <2>1, <3>2, <3>8, AnswerKeeps
  <2>5. CASE ~(todo = <<>> \/ Len(found) >= MaxMatches)
    <3>1. PICK p : p = Head(todo)
      OBVIOUS
    <3>2. PICK rest, more :
            /\ rest = IF Kind(p) = "dir" THEN Ordered(Entries(p)) \o Tail(todo) ELSE Tail(todo)
            /\ more = IF Kind(p) = "dir" THEN found ELSE Append(found, p)
      OBVIOUS
    <3>3. PICK d : d = [c EXCEPT !.todo = rest, !.found = more]
      OBVIOUS
    <3>4. fsCalls' = [fsCalls EXCEPT ![r].todo = rest, ![r].found = more] /\ p \in DOMAIN tree /\ UNCHANGED <<tree, answers>>
      BY <1>6, <2>2, <2>5, <3>1, <3>2 DEF GrepSearch, Exists
    <3>5. fsCalls' = [fsCalls EXCEPT ![r] = d]
      BY <1>0, <3>3, <3>4
    <3>6. ReadOK(c)
      BY <1>0, <2>1, ReaderIs DEF Reading
    <3>7. d.at = "grep" /\ d.to = to /\ d.todo = rest /\ d.found = more /\ d.quiet = c.quiet
      BY <2>1, <2>2, <3>3, <3>6 DEF ReadOK
    <3>8. Len(found) < MaxMatches
      <4>1. Len(found) \in Nat /\ MaxMatches \in Nat
        BY <2>3, LenProperties, RepoFilesAssumption DEF SearchOK
      <4> QED BY <2>5, <4>1
    <3>9. SearchOK(more, rest, to) /\ (Exhausts(found, todo, to) => Exhausts(more, rest, to))
      <4>1. CASE Kind(p) = "dir"
        <5>1. rest = Ordered(Entries(p)) \o Tail(todo) /\ more = found
          BY <3>2, <4>1
        <5> QED BY <1>0, <2>3, <2>5, <3>1, <3>4, <4>1, <5>1, SearchOpens
      <4>2. CASE Kind(p) # "dir"
        <5>1. rest = Tail(todo) /\ more = Append(found, p)
          BY <3>2, <4>2
        <5> QED BY <1>0, <2>3, <2>5, <3>1, <3>4, <3>8, <4>2, <5>1, SearchFinds
      <4> QED BY <4>1, <4>2
    <3>10. WalkOK(d)
      BY <2>1, <2>3, <3>7, <3>9 DEF WalkOK, Changing, Reading
    <3> QED BY <1>0, <2>1, <3>4, <3>5, <3>10, CallKeeps
  <2> QED BY <2>4, <2>5
<1> QED BY <1>1, <1>2, <1>3, <1>4, <1>5, <1>6

LEMMA ReadsStep == FilesInv /\ ReadsInv /\ [RepoFilesNext]_repoFilesVars => ReadsInv'
<1> SUFFICES ASSUME FilesInv, ReadsInv, [RepoFilesNext]_repoFilesVars PROVE ReadsInv'
  OBVIOUS
<1>1. CASE RepoFilesNext
  <2>1. PICK r \in Runners :
         \/ Ask4Change(r) \/ Decide(r) \/ StatNew(r) \/ MkdirParents(r) \/ WriteNewFile(r) \/ DeletePath(r)
         \/ MovePath(r) \/ AskToRead(r) \/ ListDir(r) \/ ListInfo(r) \/ GrepSearch(r) \/ ReadFile(r)
    BY <1>1 DEF RepoFilesNext
  <2>2. CASE \/ Ask4Change(r) \/ Decide(r) \/ StatNew(r) \/ MkdirParents(r) \/ WriteNewFile(r) \/ DeletePath(r) \/ MovePath(r)
    BY <2>2, ChangersKeep
  <2>3. CASE AskToRead(r) \/ ListDir(r) \/ ListInfo(r) \/ GrepSearch(r) \/ ReadFile(r)
    BY <2>3, ReadersKeep
  <2> QED BY <2>1, <2>2, <2>3
<1>2. CASE UNCHANGED repoFilesVars
  <2>1. UNCHANGED <<tree, fsCalls, answers, callsMade, panicked>>
    BY <1>2 DEF repoFilesVars
  <2>2. \A q \in Runners : WalkOK(fsCalls[q])'
    <3>1. \A q \in Runners : WalkOK(fsCalls'[q])
      BY <2>1 DEF ReadsInv
    <3> QED BY <2>1, <3>1 DEF WalkOK, SearchOK, Exhausts, Entries, FilesOf
  <2>3. \A q \in Runners : AnswerOK(answers[q])'
    <3>1. \A q \in Runners : AnswerOK(answers'[q])
      BY <2>1 DEF ReadsInv
    <3> QED BY <3>1 DEF AnswerOK, FilesOf
  <2> QED BY <2>1, <2>2, <2>3 DEF ReadsInv, Shaped
<1> QED BY <1>1, <1>2

\* A range that begins in the file ends in what its lines fill.
LEMMA RangesAreRead == RangesAreExact
<1> SUFFICES ASSUME NEW all \in 0..LineCapacity, NEW long \in 0..LineCapacity,
                    NEW start \in 0..LineCapacity, NEW end \in 0..LineCapacity,
                    1 <= start, start <= end, start <= all, long <= all, long = 0 \/ end < long
             PROVE  ReadRange(readTextLines(all, long), start, end) =
                      [lines |-> (start..end) \cap (1..all), panics |-> FALSE]
  BY DEF RangesAreExact
<1>1. LineCapacity \in Nat
  BY RepoFilesAssumption
<1>0. PICK total : total = readTextLines(all, long)
  OBVIOUS
<1>8. total \in 0..LineCapacity /\ start <= total /\ (long = 0 => total = all) /\ (long # 0 => end <= total /\ total <= all)
  BY <1>0, <1>1 DEF readTextLines
<1>2. PICK last \in Nat : last = IF end = 0 \/ end > total THEN total ELSE end
  BY <1>1, <1>8
<1>3. start <= last /\ last <= total /\ last <= end /\ start # 0 /\ ~(last < start)
  BY <1>1, <1>2, <1>8
<1>4. PICK portion : portion = {n \in start..last : n <= total}
  OBVIOUS
<1>5. portion = (start..end) \cap (1..all)
  BY <1>1, <1>2, <1>3, <1>4, <1>8
<1>6. ~(total > 0 /\ last > (IF total > LineCapacity THEN 2 * total ELSE LineCapacity))
  BY <1>1, <1>3, <1>8
<1>7. ReadRange(total, start, end) =
        [lines |-> {n \in start..last : n <= total},
         panics |-> total > 0 /\ last > (IF total > LineCapacity THEN 2 * total ELSE LineCapacity)]
  BY <1>2, <1>3 DEF ReadRange
<1> QED BY <1>0, <1>4, <1>5, <1>6, <1>7

LEMMA ReadsAreRight == RepoFilesSpec => [](FilesInv /\ ReadsInv)
<1>1. RepoFilesInit => FilesInv /\ ReadsInv
  BY FilesStart, ReadsStart
<1>2. FilesInv /\ ReadsInv /\ [RepoFilesNext]_repoFilesVars => FilesInv' /\ ReadsInv'
  <2>1. ReadsInv => callsMade \in Nat
    BY DEF ReadsInv
  <2> QED BY <2>1, FilesStep, ReadsStep
<1> QED BY <1>1, <1>2, PTL DEF RepoFilesSpec

-----------------------------------------------------------------------------
(* The calls of a Zalo account.                                            *)

TextRow ==
  [at : {"load", "send", "note", "sent", "failed"}, to : ChatThreads, piece : 1..Pieces,
   of : Accounts \cup {NoAccount}, nr : Nat]
HeardRow == [nr : Nat, piece : 1..Pieces, of : Accounts \cup {NoAccount}]
UploadRow == [at : {"asked", "waiting", "ready"}, kind : {"file", "image", "bare"}, file : Nat, url : Nat]

TimesOK(f) ==
  f \in [DOMAIN f -> Nat] /\ DOMAIN f \subseteq ChatThreads /\ IsFiniteSet(DOMAIN f)
MarksOK(s) == s \subseteq ChatThreads \X Marks /\ IsFiniteSet(s)

AccountTyped ==
  /\ stored \in Accounts \cup {NoAccount} /\ accountCalls \in 0..MaxAccountCalls /\ marksMade \in 0..MaxMarks
  /\ DOMAIN marks = Accounts /\ \A a \in Accounts : MarksOK(marks[a])
  /\ DOMAIN summaries = Accounts /\ \A a \in Accounts : TimesOK(summaries[a])

Address(p) == IF p.kind = "bare" THEN 0 ELSE p.file

\* An upload's address is its file's own, or not yet known, or not asked for.
UploadOK ==
  /\ upload = AtRest \/ (upload \in UploadRow /\ (IF upload.at = "ready" THEN upload.url = Address(upload)
                                                   ELSE upload.kind = "file" /\ upload.url = 0))
  /\ DOMAIN callbacks = IF upload.at = "waiting" THEN {upload.file} ELSE {}
  /\ \A f \in DOMAIN callbacks :
       /\ callbacks[f] \in [state : {"open", "taken"}, url : Nat]
       /\ callbacks[f].state = "taken" => callbacks[f].url = f
  /\ \A f \in fileDone : f \in Nat
  /\ \A p \in posted : p.url = Address(p)

LEMMA RestIs == AtRest.at = "idle"
BY DEF AtRest

LEMMA UploadStarts == ZaloAccountInit => UploadOK
BY RestIs DEF ZaloAccountInit, UploadOK

LEMMA UploadKeeps ==
  ASSUME UploadOK, accountCalls \in Nat,
         \/ UploadImage \/ UploadFile \/ RegisterUploadCallback \/ FileDone \/ UploadEnds \/ UploadUnawaited
         \/ UploadFails \/ SendFile \/ SendImage
  PROVE  UploadOK'
<1>0. AtRest.at = "idle"
  BY RestIs
<1>1. CASE UploadImage
  <2>1. PICK n \in Nat : n = accountCalls + 1
    OBVIOUS
  <2>2. /\ upload = AtRest /\ upload' = [at |-> "ready", kind |-> "image", file |-> n, url |-> n]
        /\ UNCHANGED <<fileDone, callbacks, posted>>
    BY <1>1, <2>1 DEF UploadImage
  <2>3. upload' \in UploadRow /\ upload'.at = "ready" /\ upload'.url = Address(upload')
    BY <2>1, <2>2 DEF UploadRow, Address
  <2> QED BY <1>0, <2>2, <2>3 DEF UploadOK
<1>2. CASE UploadFile
  <2>1. PICK n \in Nat : n = accountCalls + 1
    OBVIOUS
  <2>2. /\ upload = AtRest /\ upload' = [at |-> "asked", kind |-> "file", file |-> n, url |-> 0]
        /\ fileDone' = fileDone \cup {n} /\ UNCHANGED <<callbacks, posted>>
    BY <1>2, <2>1 DEF UploadFile
  <2>3. upload' \in UploadRow /\ upload'.at = "asked" /\ upload'.kind = "file" /\ upload'.url = 0
    BY <2>1, <2>2 DEF UploadRow
  <2> QED BY <1>0, <2>1, <2>2, <2>3 DEF UploadOK
<1>3. CASE RegisterUploadCallback
  <2>1. /\ upload.at = "asked" /\ upload' = [upload EXCEPT !.at = "waiting"] /\ UNCHANGED <<fileDone, posted>>
        /\ callbacks' = [f \in DOMAIN callbacks \cup {upload.file} |->
                           IF f = upload.file THEN [state |-> "open", url |-> 0] ELSE callbacks[f]]
    BY <1>3 DEF RegisterUploadCallback
  <2>2. upload \in UploadRow /\ DOMAIN callbacks = {} /\ upload.kind = "file" /\ upload.url = 0
    BY <1>0, <2>1 DEF UploadOK
  <2>3. /\ upload' \in UploadRow /\ upload'.at = "waiting" /\ upload'.file = upload.file
        /\ upload'.kind = "file" /\ upload'.url = 0
    BY <2>1, <2>2 DEF UploadRow
  <2>4. DOMAIN callbacks' = {upload.file} /\ callbacks'[upload.file] = [state |-> "open", url |-> 0]
    BY <2>1, <2>2
  <2>5. \A f \in DOMAIN callbacks' : callbacks'[f] \in [state : {"open", "taken"}, url : Nat] /\ callbacks'[f].state # "taken"
    BY <2>4
  <2> QED BY <2>1, <2>3, <2>4, <2>5 DEF UploadOK
<1>4. CASE FileDone
  <2>1. PICK f \in fileDone : handleControlEvents(f) /\ fileDone' = fileDone \ {f}
    BY <1>4 DEF FileDone
  <2>2. UNCHANGED <<upload, posted>>
    BY <1>4 DEF FileDone
  <2>3. callbacks' = [g \in DOMAIN callbacks |->
                        IF g = f /\ CallbackOpen(f) THEN [state |-> "taken", url |-> f] ELSE callbacks[g]]
    BY <2>1 DEF handleControlEvents
  <2>4. f \in Nat
    BY DEF UploadOK
  <2>5. ASSUME NEW g \in DOMAIN callbacks
        PROVE  callbacks'[g] \in [state : {"open", "taken"}, url : Nat] /\ (callbacks'[g].state = "taken" => callbacks'[g].url = g)
    <3>1. CASE g = f /\ CallbackOpen(f)
      <4>1. callbacks'[g] = [state |-> "taken", url |-> f]
        BY <2>3, <3>1
      <4> QED BY <2>4, <3>1, <4>1
    <3>2. CASE ~(g = f /\ CallbackOpen(f))
      <4>1. callbacks'[g] = callbacks[g]
        BY <2>3, <3>2
      <4> QED BY <4>1 DEF UploadOK
    <3> QED BY <3>1, <3>2
  <2>6. DOMAIN callbacks' = DOMAIN callbacks
    BY <2>3
  <2> QED BY <2>1, <2>2, <2>5, <2>6 DEF UploadOK
<1>5. CASE UploadEnds
  <2>1. /\ upload.at = "waiting" /\ callbacks' = [g \in DOMAIN callbacks \ {upload.file} |-> callbacks[g]]
        /\ UNCHANGED <<fileDone, posted>>
    BY <1>5 DEF UploadEnds, CancelUploadCallback
  <2>2. /\ upload \in UploadRow /\ DOMAIN callbacks = {upload.file} /\ DOMAIN callbacks' = {} /\ upload.kind = "file"
    BY <1>0, <2>1 DEF UploadOK
  <2>3. CASE upload' = AtRest
    BY <1>0, <2>1, <2>2, <2>3 DEF UploadOK
  <2>4. CASE ~CallbackOpen(upload.file) /\ upload' = [upload EXCEPT !.at = "ready", !.url = callbacks[upload.file].url]
    <3>1. PICK u : u = callbacks[upload.file].url
      OBVIOUS
    <3>2. callbacks[upload.file] \in [state : {"open", "taken"}, url : Nat] /\ callbacks[upload.file].state # "open"
      BY <2>2, <2>4 DEF UploadOK, CallbackOpen
    <3>3. callbacks[upload.file].state = "taken"
      BY <3>2
    <3>4. u = upload.file
      BY <2>2, <3>1, <3>3 DEF UploadOK
    <3>5. upload' = [upload EXCEPT !.at = "ready", !.url = u]
      BY <2>4, <3>1
    <3>6. upload' \in UploadRow /\ upload'.at = "ready" /\ upload'.url = Address(upload')
      BY <2>2, <3>4, <3>5 DEF UploadRow, Address
    <3> QED BY <2>1, <2>2, <3>6 DEF UploadOK
  <2> QED BY <1>5, <2>3, <2>4 DEF UploadEnds
<1>6. CASE UploadFails
  BY <1>0, <1>6 DEF UploadFails, UploadOK
<1>8. CASE UploadUnawaited
  <2>1. /\ upload.at = "asked" /\ upload' = [upload EXCEPT !.at = "ready", !.kind = "bare"]
        /\ UNCHANGED <<fileDone, callbacks, posted>>
    BY <1>8 DEF UploadUnawaited
  <2>2. upload \in UploadRow /\ DOMAIN callbacks = {} /\ upload.url = 0
    BY <1>0, <2>1 DEF UploadOK
  <2>3. upload' \in UploadRow /\ upload'.at = "ready" /\ upload'.url = Address(upload')
    BY <2>1, <2>2 DEF UploadRow, Address
  <2> QED BY <2>1, <2>2, <2>3 DEF UploadOK
<1>7. CASE SendFile \/ SendImage
  <2>1. /\ upload.at = "ready" /\ upload' = AtRest /\ UNCHANGED <<fileDone, callbacks>>
        /\ posted' \in {posted, posted \cup {[kind |-> upload.kind, file |-> upload.file, url |-> upload.url]}}
    BY <1>7 DEF SendFile, SendImage, Post
  <2>2. upload.url = Address(upload)
    BY <1>0, <2>1 DEF UploadOK
  <2>3. \A p \in posted' : p.url = Address(p)
    BY <2>1, <2>2 DEF UploadOK, Address
  <2> QED BY <1>0, <2>1, <2>3 DEF UploadOK
<1> QED BY <1>1, <1>2, <1>3, <1>4, <1>5, <1>6, <1>7, <1>8

LEMMA UploadStays ==
  ASSUME UploadOK, UNCHANGED <<upload, fileDone, callbacks, posted>> PROVE UploadOK'
BY DEF UploadOK

-----------------------------------------------------------------------------
(* A text: what the service has of it are its first pieces.                *)

Mine(h, nr) == {i \in 1..Len(h) : h[i].nr = nr}
PiecesOf(h, nr) == {h[i].piece : i \in Mine(h, nr)}

\* Of the message with this number the first n pieces were heard.
HeardUpTo(h, nr, of, n) ==
  /\ PiecesOf(h, nr) = 1..n
  /\ \A i \in Mine(h, nr) : h[i].of = of
  /\ \A i, j \in Mine(h, nr) : i < j => h[i].piece < h[j].piece

TextOK ==
  /\ heard \in Seq(HeardRow) /\ \A i \in 1..Len(heard) : heard[i].nr < accountCalls
  /\ text # AtRest =>
       /\ text \in TextRow /\ text.nr < accountCalls
       /\ text.at \in {"send", "note", "sent"} => text.of \in Accounts
       /\ \E n \in 0..Pieces :
            /\ HeardUpTo(heard, text.nr, text.of, n)
            /\ text.at = "load" => n = 0 /\ text.piece = 1
            /\ text.at = "send" => n = text.piece - 1
            /\ text.at \in {"note", "sent"} => n = Pieces

LEMMA TextGives == TextOK => TextsGoOutWhole
<1> SUFFICES ASSUME TextOK PROVE TextsGoOutWhole
  OBVIOUS
<1>1. DOMAIN heard = 1..Len(heard) /\ Pieces \in Nat
  BY LenProperties, ZaloAccountAssumption DEF TextOK
<1>2. CASE text = AtRest
  <2>1. {i \in DOMAIN heard : text # AtRest /\ heard[i].nr = text.nr} = {}
    BY <1>2
  <2>2. text.at = "idle" /\ 0 \in 0..Pieces
    BY <1>1, <1>2, RestIs
  <2>3. {heard[i].piece : i \in {}} = 1..0
    OBVIOUS
  <2> QED BY <2>1, <2>2, <2>3 DEF TextsGoOutWhole
<1>3. CASE text # AtRest
  <2>1. PICK mine : mine = Mine(heard, text.nr)
    OBVIOUS
  <2>2. {i \in DOMAIN heard : text # AtRest /\ heard[i].nr = text.nr} = mine
    BY <1>1, <1>3, <2>1 DEF Mine
  <2>3. PICK n \in 0..Pieces : HeardUpTo(heard, text.nr, text.of, n) /\ (text.at \in {"note", "sent"} => n = Pieces)
    BY <1>3 DEF TextOK
  <2>4. /\ {heard[i].piece : i \in mine} = 1..n
        /\ \A i \in mine : heard[i].of = text.of
        /\ \A i, j \in mine : i < j => heard[i].piece < heard[j].piece
    BY <2>1, <2>3 DEF HeardUpTo, PiecesOf
  <2> QED BY <2>2, <2>3, <2>4 DEF TextsGoOutWhole
<1> QED BY <1>2, <1>3

LEMMA NothingHeard ==
  ASSUME NEW h, NEW nr, \A i \in 1..Len(h) : h[i].nr # nr, NEW of PROVE HeardUpTo(h, nr, of, 0)
BY DEF HeardUpTo, PiecesOf, Mine

\* The next piece is heard.
HeardBefore(h, nr, of, p) == HeardUpTo(h, nr, of, p - 1)

LEMMA OneMoreHeard ==
  ASSUME NEW h \in Seq(HeardRow), NEW e \in HeardRow, e.of \in Accounts, HeardBefore(h, e.nr, e.of, e.piece)
  PROVE  /\ Append(h, e) \in Seq(HeardRow) /\ HeardUpTo(Append(h, e), e.nr, e.of, e.piece)
         /\ \A i \in 1..Len(Append(h, e)) : Append(h, e)[i].nr = e.nr \/ \E j \in 1..Len(h) : Append(h, e)[i] = h[j]
<1>0. PICK nr, of, g : nr = e.nr /\ of = e.of /\ g = Append(h, e)
  OBVIOUS
<1>1. Pieces \in Nat /\ e.piece \in 1..Pieces
  BY ZaloAccountAssumption DEF HeardRow
<1>12. PICK n \in Nat : n = e.piece - 1
  BY <1>1
<1>2. /\ e.nr = nr /\ e.piece = n + 1 /\ e.of = of /\ n + 1 \in 1..Pieces /\ HeardUpTo(h, nr, of, n)
      /\ nr \in Nat /\ of \in Accounts
  BY <1>0, <1>1, <1>12 DEF HeardBefore, HeardRow
<1>3. PICK l \in Nat : l = Len(h)
  BY LenProperties
<1>4. g \in Seq(HeardRow) /\ Len(g) = l + 1 /\ (\A i \in 1..l : g[i] = h[i]) /\ g[l + 1] = e
  BY <1>0, <1>2, <1>3, AppendProperties
<1>5. Mine(g, nr) = Mine(h, nr) \cup {l + 1} /\ Mine(h, nr) \subseteq 1..l
  <2>1. \A i : i \in 1..(l + 1) <=> i \in 1..l \/ i = l + 1
    OBVIOUS
  <2>2. \A i \in 1..l : g[i].nr = nr <=> h[i].nr = nr
    BY <1>4
  <2> QED BY <1>2, <1>3, <1>4, <2>1, <2>2 DEF Mine
<1>6. \A i \in Mine(h, nr) : g[i] = h[i] /\ h[i].piece \in 1..n /\ i \in 1..l
  BY <1>2, <1>4, <1>5 DEF HeardUpTo, PiecesOf
<1>7. PiecesOf(g, nr) = PiecesOf(h, nr) \cup {n + 1}
  BY <1>2, <1>4, <1>5, <1>6 DEF PiecesOf
<1>8. PiecesOf(g, nr) = 1..(n + 1)
  <2>1. PiecesOf(h, nr) = 1..n
    BY <1>2 DEF HeardUpTo
  <2>2. \A k : k \in 1..(n + 1) <=> k \in 1..n \/ k = n + 1
    OBVIOUS
  <2>3. \A k : k \in PiecesOf(g, nr) <=> k \in 1..n \/ k = n + 1
    BY <1>7, <2>1
  <2> QED BY <2>2, <2>3
<1>9. \A i \in Mine(g, nr) : g[i].of = of
  BY <1>2, <1>4, <1>5, <1>6 DEF HeardUpTo
<1>10. ASSUME NEW i \in Mine(g, nr), NEW j \in Mine(g, nr), i < j PROVE g[i].piece < g[j].piece
  <2>1. CASE j \in Mine(h, nr)
    <3>1. i \in Mine(h, nr)
      BY <1>3, <1>5, <1>6, <1>10, <2>1
    <3> QED BY <1>2, <1>6, <1>10, <2>1, <3>1 DEF HeardUpTo
  <2>2. CASE j = l + 1
    <3>1. i \in Mine(h, nr)
      BY <1>5, <1>10, <2>2
    <3>2. PICK k : k = g[i].piece
      OBVIOUS
    <3>3. k \in 1..n /\ g[j].piece = n + 1
      BY <1>2, <1>4, <1>6, <2>2, <3>1, <3>2
    <3>4. k < n + 1
      BY <3>3
    <3> QED BY <3>2, <3>3, <3>4
  <2> QED BY <1>5, <2>1, <2>2
<1>11. ASSUME NEW i \in 1..Len(g) PROVE g[i].nr = nr \/ \E j \in 1..Len(h) : g[i] = h[j]
  BY <1>2, <1>3, <1>4
<1>13. HeardUpTo(g, nr, of, n + 1)
  BY <1>8, <1>9, <1>10 DEF HeardUpTo
<1> QED BY <1>0, <1>2, <1>4, <1>11, <1>13

LEMMA TextStarts == ZaloAccountInit => TextOK
<1> SUFFICES ASSUME ZaloAccountInit PROVE TextOK
  OBVIOUS
<1>1. heard = <<>> /\ text = AtRest
  BY DEF ZaloAccountInit
<1>2. heard \in Seq(HeardRow) /\ Len(heard) = 0
  BY <1>1
<1> QED BY <1>1, <1>2 DEF TextOK

LEMMA TextStays ==
  ASSUME TextOK, UNCHANGED <<text, heard>>, accountCalls \in Nat, accountCalls' \in {accountCalls, accountCalls + 1}
  PROVE  TextOK'
<1>1. PICK c \in Nat : c = accountCalls
  OBVIOUS
<1>2. accountCalls' \in {c, c + 1}
  BY <1>1
<1>3. PICK h : h = heard
  OBVIOUS
<1>4. heard' = h /\ h \in Seq(HeardRow)
  BY <1>3 DEF TextOK
<1>5. \A i \in 1..Len(h) : h[i].nr < accountCalls'
  <2> TAKE i \in 1..Len(h)
  <2>1. h[i] \in HeardRow
    BY <1>4, ElementOfSeq
  <2>2. h[i].nr \in Nat /\ h[i].nr < c
    BY <1>1, <1>3, <2>1 DEF TextOK, HeardRow
  <2> QED BY <1>2, <2>2
<1>6. text # AtRest => text.nr < accountCalls'
  <2> SUFFICES ASSUME text # AtRest PROVE text.nr < accountCalls'
    OBVIOUS
  <2>1. text.nr \in Nat /\ text.nr < c
    BY <1>1 DEF TextOK, TextRow
  <2> QED BY <1>2, <2>1
<1> QED BY <1>3, <1>4, <1>5, <1>6 DEF TextOK

\* A new text: nothing of it was heard.
LEMMA SendKeepsText ==
  ASSUME TextOK, accountCalls \in Nat, CapabilitySend PROVE TextOK'
<1>1. PICK t \in ChatThreads :
        text' = [at |-> "load", to |-> t, piece |-> 1, of |-> NoAccount, nr |-> accountCalls]
  BY DEF CapabilitySend
<1>2. PICK c \in Nat : c = accountCalls
  OBVIOUS
<1>3. text' = [at |-> "load", to |-> t, piece |-> 1, of |-> NoAccount, nr |-> c] /\ accountCalls' = c + 1
  BY <1>1, <1>2 DEF CapabilitySend, AccountCall
<1>4. PICK h : h = heard
  OBVIOUS
<1>5. heard' = h /\ h \in Seq(HeardRow)
  BY <1>4 DEF TextOK, CapabilitySend
<1>6. \A i \in 1..Len(h) : h[i].nr \in Nat /\ h[i].nr < c
  <2> TAKE i \in 1..Len(h)
  <2>1. h[i] \in HeardRow
    BY <1>5, ElementOfSeq
  <2> QED BY <1>2, <1>4, <2>1 DEF TextOK, HeardRow
<1>7. HeardUpTo(h, c, NoAccount, 0)
  <2>1. \A i \in 1..Len(h) : h[i].nr # c
    BY <1>6
  <2> QED BY <2>1, NothingHeard
<1>8. \A i \in 1..Len(h) : h[i].nr < c + 1
  BY <1>6
<1>9. PICK x : x = text'
  OBVIOUS
<1>10. Pieces \in Nat \ {0}
  BY ZaloAccountAssumption
<1>11. /\ x \in TextRow /\ x.nr = c /\ x.of = NoAccount /\ x.at = "load" /\ x.piece = 1
  BY <1>3, <1>9, <1>10 DEF TextRow
<1>12. 0 \in 0..Pieces
  BY <1>10
<1> QED BY <1>3, <1>5, <1>7, <1>8, <1>9, <1>11, <1>12 DEF TextOK

LEMMA LoadKeepsText ==
  ASSUME TextOK, accountCalls \in Nat, stored \in Accounts \cup {NoAccount}, SendText PROVE TextOK'
<1>1. text.at = "load" /\ text # AtRest
  BY RestIs DEF SendText
<1>2. PICK x : x = text
  OBVIOUS
<1>3. x \in TextRow /\ x.at = "load" /\ x.nr < accountCalls /\ HeardUpTo(heard, x.nr, x.of, 0)
  BY <1>1, <1>2 DEF TextOK
<1>4. HeardUpTo(heard, x.nr, stored, 0)
  <2>1. PiecesOf(heard, x.nr) = {}
    BY <1>3 DEF HeardUpTo
  <2>2. Mine(heard, x.nr) = {}
    BY <2>1 DEF PiecesOf
  <2> QED BY <1>3, <2>2 DEF HeardUpTo
<1>5. accountCalls' = accountCalls /\ heard' = heard
  BY DEF SendText, NoAccountCall
<1>6. Pieces \in Nat \ {0}
  BY ZaloAccountAssumption
<1>7. PICK y : y = text'
  OBVIOUS
<1>8. 0 \in 0..Pieces
  BY <1>6
<1>9. CASE stored = NoAccount
  <2>1. y = [x EXCEPT !.at = "failed"]
    BY <1>2, <1>7, <1>9 DEF SendText
  <2>2. y \in TextRow /\ y.at = "failed" /\ y.nr = x.nr /\ y.of = x.of
    BY <1>3, <2>1 DEF TextRow
  <2> QED BY <1>3, <1>5, <1>7, <1>8, <2>2 DEF TextOK
<1>10. CASE stored # NoAccount
  <2>1. PICK a \in Accounts : a = stored
    BY <1>10
  <2>2. y = [x EXCEPT !.at = "send", !.of = a]
    BY <1>2, <1>7, <1>10, <2>1 DEF SendText
  <2>3. y \in TextRow /\ y.at = "send" /\ y.nr = x.nr /\ y.of = a /\ y.piece = x.piece
    BY <1>3, <2>1, <2>2 DEF TextRow
  <2>4. x.piece = 1
    BY <1>1, <1>2 DEF TextOK
  <2> QED BY <1>3, <1>4, <1>5, <1>7, <1>8, <2>1, <2>3, <2>4 DEF TextOK
<1> QED BY <1>9, <1>10

\* A piece that is taken is the next, and the service has the first ones of the text.
LEMMA PieceIsHeard ==
  ASSUME TextOK, accountCalls \in Nat, text.at = "send",
         NEW g, g = Append(heard, [nr |-> text.nr, piece |-> text.piece, of |-> text.of])
  PROVE  /\ g \in Seq(HeardRow) /\ \A i \in 1..Len(g) : g[i].nr < accountCalls
         /\ HeardUpTo(g, text.nr, text.of, text.piece)
<1>1. PICK x, h : x = text /\ h = heard
  OBVIOUS
<1>2. /\ x \in TextRow /\ x # AtRest /\ x.nr < accountCalls /\ x.of \in Accounts /\ x.nr \in Nat /\ x.piece \in 1..Pieces
      /\ h \in Seq(HeardRow)
  BY <1>1, RestIs DEF TextOK, TextRow
<1>3. HeardBefore(h, x.nr, x.of, x.piece)
  BY <1>1, <1>2 DEF TextOK, HeardBefore
<1>4. PICK e : e = [nr |-> x.nr, piece |-> x.piece, of |-> x.of]
  OBVIOUS
<1>5. e \in HeardRow /\ e.nr = x.nr /\ e.piece = x.piece /\ e.of = x.of
  BY <1>2, <1>4 DEF HeardRow
<1>6. e.of \in Accounts /\ HeardBefore(h, e.nr, e.of, e.piece)
  BY <1>2, <1>3, <1>5
<1>7. /\ Append(h, e) \in Seq(HeardRow) /\ HeardUpTo(Append(h, e), e.nr, e.of, e.piece)
      /\ \A i \in 1..Len(Append(h, e)) : Append(h, e)[i].nr = e.nr \/ \E j \in 1..Len(h) : Append(h, e)[i] = h[j]
  BY <1>2, <1>5, <1>6, OneMoreHeard
<1>8. g = Append(h, e)
  BY <1>1, <1>4
<1>9. /\ g \in Seq(HeardRow) /\ HeardUpTo(g, x.nr, x.of, x.piece)
      /\ \A i \in 1..Len(g) : g[i].nr = x.nr \/ \E j \in 1..Len(h) : g[i] = h[j]
  BY <1>5, <1>7, <1>8
<1>10. \A j \in 1..Len(h) : h[j].nr < accountCalls
  BY <1>1 DEF TextOK
<1>11. \A i \in 1..Len(g) : g[i].nr < accountCalls
  BY <1>2, <1>9, <1>10
<1> QED BY <1>1, <1>9, <1>11

LEMMA PieceKeepsText ==
  ASSUME TextOK, accountCalls \in Nat, SendMessage PROVE TextOK'
<1>1. PICK x : x = text
  OBVIOUS
<1>2. PICK g : g = Append(heard, [nr |-> text.nr, piece |-> text.piece, of |-> text.of])
  OBVIOUS
<1>3. x.at = "send" /\ x # AtRest
  BY <1>1, RestIs DEF SendMessage
<1>4. /\ g \in Seq(HeardRow) /\ \A i \in 1..Len(g) : g[i].nr < accountCalls
      /\ HeardUpTo(g, x.nr, x.of, x.piece)
  BY <1>1, <1>2, <1>3, PieceIsHeard
<1>5. /\ x \in TextRow /\ x.nr < accountCalls /\ x.of \in Accounts /\ x.piece \in 1..Pieces
  BY <1>1, <1>3 DEF TextOK, TextRow
<1>6. PICK n \in 0..Pieces : HeardUpTo(heard, x.nr, x.of, n) /\ n = x.piece - 1
  BY <1>1, <1>3 DEF TextOK
<1>7. accountCalls' = accountCalls
  BY DEF SendMessage, NoAccountCall
<1>8. Pieces \in Nat \ {0}
  BY ZaloAccountAssumption
<1>9. PICK p \in 1..Pieces : p = x.piece
  BY <1>5
<1>10. p \in 0..Pieces
  BY <1>8, <1>9
<1>11. PICK y : y = text'
  OBVIOUS
<1>12. \/ heard' = g /\ y = IF x.piece = Pieces THEN [x EXCEPT !.at = "note"] ELSE [x EXCEPT !.piece = @ + 1]
       \/ heard' \in {heard, g} /\ y = [x EXCEPT !.at = "failed"]
  BY <1>1, <1>2, <1>11 DEF SendMessage
<1>13. CASE heard' = g /\ y = IF x.piece = Pieces THEN [x EXCEPT !.at = "note"] ELSE [x EXCEPT !.piece = @ + 1]
  <2>1. CASE p = Pieces
    <3>1. y = [x EXCEPT !.at = "note"]
      BY <1>9, <1>13, <2>1
    <3>2. y \in TextRow /\ y.at = "note" /\ y.nr = x.nr /\ y.of = x.of
      BY <1>5, <3>1 DEF TextRow
    <3> QED BY <1>4, <1>5, <1>7, <1>9, <1>10, <1>11, <1>13, <2>1, <3>2 DEF TextOK
  <2>2. CASE p # Pieces
    <3>1. PICK q : q = p + 1
      OBVIOUS
    <3>2. q \in 1..Pieces /\ p = q - 1
      BY <1>8, <1>9, <2>2, <3>1
    <3>3. y = [x EXCEPT !.piece = q]
      BY <1>9, <1>13, <2>2, <3>1
    <3>4. y \in TextRow /\ y.at = "send" /\ y.nr = x.nr /\ y.of = x.of /\ y.piece = q
      BY <1>3, <1>5, <3>2, <3>3 DEF TextRow
    <3>5. HeardUpTo(g, y.nr, y.of, p) /\ p = y.piece - 1
      BY <1>4, <1>9, <3>2, <3>4
    <3> QED BY <1>4, <1>5, <1>7, <1>10, <1>11, <1>13, <3>4, <3>5 DEF TextOK
  <2> QED BY <2>1, <2>2
<1>14. CASE heard' \in {heard, g} /\ y = [x EXCEPT !.at = "failed"]
  <2>1. y \in TextRow /\ y.at = "failed" /\ y.nr = x.nr /\ y.of = x.of
    BY <1>5, <1>14 DEF TextRow
  <2>2. CASE heard' = g
    BY <1>4, <1>5, <1>7, <1>9, <1>10, <1>11, <2>1, <2>2 DEF TextOK
  <2>3. CASE heard' = heard
    <3>1. heard \in Seq(HeardRow) /\ \A i \in 1..Len(heard) : heard[i].nr < accountCalls
      BY DEF TextOK
    <3> QED BY <1>5, <1>6, <1>7, <1>11, <2>1, <2>3, <3>1 DEF TextOK
  <2> QED BY <1>14, <2>2, <2>3
<1> QED BY <1>12, <1>13, <1>14

LEMMA NoteKeepsText ==
  ASSUME TextOK, accountCalls \in Nat, NoteSent PROVE TextOK'
<1>1. PICK x : x = text
  OBVIOUS
<1>2. x.at = "note" /\ x # AtRest
  BY <1>1, RestIs DEF NoteSent
<1>3. x \in TextRow /\ x.nr < accountCalls /\ x.of \in Accounts
  BY <1>1, <1>2 DEF TextOK
<1>4. PICK n \in 0..Pieces : HeardUpTo(heard, x.nr, x.of, n) /\ n = Pieces
  BY <1>1, <1>2 DEF TextOK
<1>5. PICK y : y = text'
  OBVIOUS
<1>6. y = [x EXCEPT !.at = "sent"] /\ heard' = heard /\ accountCalls' = accountCalls
  BY <1>1, <1>5 DEF NoteSent, NoAccountCall
<1>7. y \in TextRow /\ y.at = "sent" /\ y.nr = x.nr /\ y.of = x.of
  BY <1>3, <1>6 DEF TextRow
<1>8. heard \in Seq(HeardRow) /\ \A i \in 1..Len(heard) : heard[i].nr < accountCalls
  BY DEF TextOK
<1> QED BY <1>3, <1>4, <1>5, <1>6, <1>7, <1>8 DEF TextOK

-----------------------------------------------------------------------------
(* What the service and the database have of an account.                   *)

LEMMA ImageIsFinite ==
  ASSUME NEW f, IsFiniteSet(DOMAIN f), NEW T, f \in [DOMAIN f -> T], \A y \in T : \E x \in DOMAIN f : f[x] = y
  PROVE  IsFiniteSet(T)
<1>1. PICK S : S = DOMAIN f
  OBVIOUS
<1>2. f \in Surjection(S, T)
  BY <1>1 DEF Surjection
<1> QED BY <1>1, <1>2, FS_Surjection

LEMMA AccountStarts == ZaloAccountInit => AccountTyped
<1> SUFFICES ASSUME ZaloAccountInit PROVE AccountTyped
  OBVIOUS
<1>1. /\ stored \in Accounts \cup {NoAccount} /\ accountCalls = 0 /\ marksMade = 0
      /\ marks = [a \in Accounts |-> {}] /\ summaries = [a \in Accounts |-> FirstThreads]
  BY DEF ZaloAccountInit
<1>2. MaxAccountCalls \in Nat /\ MaxMarks \in Nat
  BY ZaloAccountAssumption
<1>3. TimesOK(FirstThreads)
  BY ZaloAccountAssumption DEF TimesOK
<1>4. MarksOK({})
  BY FS_EmptySet DEF MarksOK
<1>5. \A a \in Accounts : marks[a] = {} /\ summaries[a] = FirstThreads
  BY <1>1
<1> QED BY <1>1, <1>2, <1>3, <1>4, <1>5 DEF AccountTyped

LEMMA MarkIs ==
  ASSUME AccountTyped, NEW a \in Accounts, NEW t \in ChatThreads, NEW m \in Marks, NEW on \in BOOLEAN,
         Mark(a, t, m, on)
  PROVE  DOMAIN marks' = Accounts /\ \A b \in Accounts : MarksOK(marks'[b])
<1>1. PICK d : d = <<t, m>>
  OBVIOUS
<1>2. d \in ChatThreads \X Marks
  BY <1>1
<1>3. PICK old : old = marks[a]
  OBVIOUS
<1>4. MarksOK(old)
  BY <1>3 DEF AccountTyped
<1>5. PICK new : new = IF on THEN old \cup {d} ELSE old \ {d}
  OBVIOUS
<1>6. marks' = [marks EXCEPT ![a] = new]
  BY <1>1, <1>3, <1>5 DEF Mark
<1>7. MarksOK(old \cup {d})
  BY <1>2, <1>4, FS_AddElement DEF MarksOK
<1>8. MarksOK(old \ {d})
  BY <1>4, FS_RemoveElement DEF MarksOK
<1>9. MarksOK(new)
  BY <1>5, <1>7, <1>8
<1>10. DOMAIN marks = Accounts /\ \A b \in Accounts : MarksOK(marks[b])
  BY DEF AccountTyped
<1>11. DOMAIN marks' = Accounts /\ \A b \in Accounts : marks'[b] = IF b = a THEN new ELSE marks[b]
  BY <1>6, <1>10
<1> QED BY <1>9, <1>10, <1>11

LEMMA LastTimeIs ==
  ASSUME AccountTyped, NEW a \in Accounts
  PROVE  LastTime(a) \in Nat /\ \A t \in DOMAIN summaries[a] : summaries[a][t] <= LastTime(a)
<1>1. PICK s : s = summaries[a]
  OBVIOUS
<1>2. TimesOK(s)
  BY <1>1 DEF AccountTyped
<1>3. PICK V : V = {s[t] : t \in DOMAIN s}
  OBVIOUS
<1>4. PICK S : S = {0} \cup V
  OBVIOUS
<1>5. V \subseteq Nat /\ S \subseteq Nat /\ 0 \in S
  BY <1>2, <1>3, <1>4 DEF TimesOK
<1>6. IsFiniteSet(V)
  <2>1. s \in [DOMAIN s -> V] /\ \A y \in V : \E x \in DOMAIN s : s[x] = y
    BY <1>2, <1>3 DEF TimesOK
  <2> QED BY <1>2, <2>1, ImageIsFinite DEF TimesOK
<1>7. IsFiniteSet(V \cup {0})
  BY <1>6, FS_AddElement
<1>8. S = V \cup {0}
  BY <1>4
<1>9. PICK n \in S : \A m \in S : m <= n
  BY <1>5, <1>7, <1>8, GreatestOf
<1>10. \A t \in DOMAIN s : s[t] <= n
  BY <1>3, <1>4, <1>9
<1>11. LastTime(a) = CHOOSE k \in S : \A t \in DOMAIN s : s[t] <= k
  BY <1>1, <1>3, <1>4 DEF LastTime
<1>12. LastTime(a) \in S /\ \A t \in DOMAIN s : s[t] <= LastTime(a)
  BY <1>9, <1>10, <1>11
<1> QED BY <1>1, <1>5, <1>12

LEMMA UpsertIs ==
  ASSUME AccountTyped, NEW a \in Accounts, NEW t \in ChatThreads, Upsert(a, t)
  PROVE  DOMAIN summaries' = Accounts /\ \A b \in Accounts : TimesOK(summaries'[b])
<1>1. PICK n : n = LastTime(a) + 1
  OBVIOUS
<1>2. n \in Nat
  BY <1>1, LastTimeIs
<1>3. PICK s : s = summaries[a]
  OBVIOUS
<1>4. TimesOK(s)
  BY <1>3 DEF AccountTyped
<1>5. PICK D : D = DOMAIN s \cup {t}
  OBVIOUS
<1>6. PICK new : new = [u \in D |-> IF u = t THEN n ELSE s[u]]
  OBVIOUS
<1>7. summaries' = [summaries EXCEPT ![a] = new]
  BY <1>1, <1>3, <1>5, <1>6 DEF Upsert
<1>8. D \subseteq ChatThreads /\ IsFiniteSet(D)
  BY <1>4, <1>5, FS_AddElement DEF TimesOK
<1>9. \A u \in D : new[u] \in Nat
  BY <1>2, <1>4, <1>5, <1>6 DEF TimesOK
<1>10. TimesOK(new)
  BY <1>6, <1>8, <1>9 DEF TimesOK
<1>11. DOMAIN summaries = Accounts /\ \A b \in Accounts : TimesOK(summaries[b])
  BY DEF AccountTyped
<1>12. DOMAIN summaries' = Accounts /\ \A b \in Accounts : summaries'[b] = IF b = a THEN new ELSE summaries[b]
  BY <1>7, <1>11
<1> QED BY <1>10, <1>11, <1>12

LEMMA AccountStays ==
  ASSUME AccountTyped, UNCHANGED <<stored, marks, summaries, marksMade>>, accountCalls' \in {accountCalls} \cup 0..MaxAccountCalls
  PROVE  AccountTyped'
BY DEF AccountTyped

LEMMA CallIsCounted ==
  ASSUME AccountTyped, AccountCall PROVE accountCalls' \in 0..MaxAccountCalls /\ accountCalls \in Nat /\ accountCalls' = accountCalls + 1
<1>1. MaxAccountCalls \in Nat
  BY ZaloAccountAssumption
<1>2. accountCalls \in 0..MaxAccountCalls /\ accountCalls < MaxAccountCalls /\ accountCalls' = accountCalls + 1
  BY DEF AccountTyped, AccountCall
<1> QED BY <1>1, <1>2

\* The actions that neither log in or out nor mark a thread nor have a message.
Elsewhere1 ==
  \/ LoginQR \/ Phone \/ qrWaitingScan \/ qrWaitingConfirm \/ LoginFails \/ ListInbox \/ CapabilityListInbox
  \/ FetchFriends \/ FetchGroups \/ FetchUnreadMarks \/ FetchPinnedConversations \/ FetchHiddenConversations
  \/ FetchArchivedConversations \/ CapabilitySend \/ SendText \/ SendMessage
  \/ UploadImage \/ UploadFile \/ RegisterUploadCallback \/ FileDone \/ UploadEnds \/ UploadUnawaited \/ UploadFails
  \/ SendFile \/ SendImage

LEMMA ElsewhereIs ==
  Elsewhere1 => UNCHANGED <<stored, marks, summaries, marksMade>> /\ (AccountCall \/ NoAccountCall)
BY DEF Elsewhere1, LoginQR, Phone, qrWaitingScan, qrWaitingConfirm, LoginFails, ListInbox, CapabilityListInbox,
  FetchFriends, FetchGroups, FetchUnreadMarks, FetchPinnedConversations, FetchHiddenConversations,
  FetchArchivedConversations, FetchMarks, Fetched, CapabilitySend, SendText, SendMessage, UploadImage, UploadFile,
  RegisterUploadCallback, FileDone, UploadEnds, UploadUnawaited, UploadFails, SendFile, SendImage, Post,
  qrParts, listParts, textParts, uploadParts

LEMMA AccountKeeps ==
  ASSUME AccountTyped, QrInv, TextOK, ZaloAccountNext PROVE AccountTyped'
<1>0. MaxMarks \in Nat /\ marksMade \in 0..MaxMarks
  BY ZaloAccountAssumption DEF AccountTyped
<1>1. CASE Elsewhere1
  BY <1>1, ElsewhereIs, CallIsCounted, AccountStays DEF NoAccountCall
<1>2. CASE SaveStoredCredentials
  <2>1. qr \in QrStep
    BY <1>2, RestIs DEF SaveStoredCredentials, QrInv
  <2>2. qr.by \in Accounts \cup {NoAccount}
    BY <2>1 DEF QrStep
  <2>3. UNCHANGED <<marks, summaries, marksMade, accountCalls>> /\ stored' = qr.by
    BY <1>2 DEF SaveStoredCredentials, NoAccountCall, qrParts
  <2> QED BY <2>2, <2>3 DEF AccountTyped
<1>3. CASE ClearStoredCredentials
  <2>1. UNCHANGED <<marks, summaries, marksMade>> /\ stored' = NoAccount /\ AccountCall
    BY <1>3 DEF ClearStoredCredentials, qrParts
  <2>2. accountCalls' \in 0..MaxAccountCalls
    BY <2>1, CallIsCounted
  <2> QED BY <2>1, <2>2 DEF AccountTyped
<1>4. CASE MarkElsewhere
  <2>1. PICK a \in Accounts, t \in ChatThreads, m \in {"unread", "pinned"}, on \in BOOLEAN : Mark(a, t, m, on)
    BY <1>4 DEF MarkElsewhere
  <2>2. m \in Marks
    BY DEF Marks
  <2>3. DOMAIN marks' = Accounts /\ \A b \in Accounts : MarksOK(marks'[b])
    BY <2>1, <2>2, MarkIs
  <2>4. UNCHANGED <<stored, summaries, accountCalls>> /\ marksMade < MaxMarks /\ marksMade' = marksMade + 1
    BY <1>4 DEF MarkElsewhere, NoAccountCall
  <2>5. marksMade' \in 0..MaxMarks
    BY <1>0, <2>4
  <2> QED BY <2>3, <2>4, <2>5 DEF AccountTyped
<1>5. CASE CapabilityUpdateInbox
  <2>1. stored \in Accounts /\ AccountCall /\ UNCHANGED <<stored, summaries, marksMade>>
    BY <1>5 DEF CapabilityUpdateInbox, AccountTyped
  <2>2. PICK t \in ChatThreads, m \in {"unread", "archived"}, on \in BOOLEAN : Mark(stored, t, m, on)
    BY <1>5 DEF CapabilityUpdateInbox
  <2>3. m \in Marks
    BY DEF Marks
  <2>4. PICK a \in Accounts : a = stored
    BY <2>1
  <2>5. Mark(a, t, m, on)
    BY <2>2, <2>4
  <2>6. DOMAIN marks' = Accounts /\ \A b \in Accounts : MarksOK(marks'[b])
    BY <2>3, <2>5, MarkIs
  <2>7. accountCalls' \in 0..MaxAccountCalls
    BY <2>1, CallIsCounted
  <2> QED BY <2>1, <2>6, <2>7 DEF AccountTyped
<1>6. CASE recordThreadActivity
  <2>1. stored \in Accounts /\ AccountCall /\ UNCHANGED <<stored, marks, marksMade>>
    BY <1>6 DEF recordThreadActivity, AccountTyped
  <2>2. PICK t \in ChatThreads : Upsert(stored, t)
    BY <1>6 DEF recordThreadActivity
  <2>3. PICK a \in Accounts : a = stored
    BY <2>1
  <2>4. Upsert(a, t)
    BY <2>2, <2>3
  <2>5. DOMAIN summaries' = Accounts /\ \A b \in Accounts : TimesOK(summaries'[b])
    BY <2>4, UpsertIs
  <2>6. accountCalls' \in 0..MaxAccountCalls
    BY <2>1, CallIsCounted
  <2> QED BY <2>1, <2>5, <2>6 DEF AccountTyped
<1>7. CASE NoteSent
  <2>1. text.at = "note" /\ Upsert(text.of, text.to) /\ UNCHANGED <<stored, marks, marksMade, accountCalls>>
    BY <1>7 DEF NoteSent, NoAccountCall
  <2>2. text # AtRest
    BY <2>1, RestIs
  <2>3. text \in TextRow /\ text.of \in Accounts
    BY <2>1, <2>2 DEF TextOK
  <2>4. PICK a \in Accounts, t \in ChatThreads : a = text.of /\ t = text.to
    BY <2>3 DEF TextRow
  <2>5. Upsert(a, t)
    BY <2>1, <2>4
  <2>6. DOMAIN summaries' = Accounts /\ \A b \in Accounts : TimesOK(summaries'[b])
    BY <2>5, UpsertIs
  <2> QED BY <2>1, <2>6 DEF AccountTyped
<1> QED BY <1>1, <1>2, <1>3, <1>4, <1>5, <1>6, <1>7 DEF ZaloAccountNext, Elsewhere1

-----------------------------------------------------------------------------
(* A listing of the inbox.                                                 *)

Early == {"friends", "groups", "unread"}
Late == {"pinned", "hidden", "archived", "list"}

\* The marks that a call has asked for before a step of its.
Done(at) ==
  CASE at = "pinned" -> {"unread"}
    [] at = "hidden" -> {"unread", "pinned"}
    [] at = "archived" -> {"unread", "pinned", "hidden"}
    [] at = "list" -> Marks
    [] OTHER -> {}

Listing1 == {"at", "of", "limit", "scope", "times", "got", "from", "quiet"}
AskOK(c) ==
  /\ DOMAIN c = Listing1 /\ c = [k \in Listing1 |-> c[k]]
  /\ c.at \in Early \cup Late /\ c.of \in Accounts /\ c.limit \in Nat /\ c.scope \in {"all", "groups"}
  /\ TimesOK(c.times) /\ MarksOK(c.got) /\ c.quiet \in BOOLEAN
  /\ c.from = IF c.at \in Late THEN {c.of} ELSE {}

Recents(s, limit) ==
  {t \in DOMAIN s : limit = 0 \/ Cardinality({u \in DOMAIN s : Newer(s, u, t)}) < limit}

\* What the call has is what it would be told now.
IsNow(c, s, m) ==
  /\ c.times = [t \in Recents(s, c.limit) |-> s[t]]
  /\ c.got = {p \in m : p[2] \in Done(c.at)}

InboxOK ==
  inbox # AtRest =>
    AskOK(inbox) /\ (inbox.quiet => IsNow(inbox, summaries[inbox.of], marks[inbox.of]))

LEMMA InboxStarts == ZaloAccountInit => InboxOK
BY DEF ZaloAccountInit, InboxOK

LEMMA InboxStays ==
  ASSUME InboxOK, UNCHANGED <<inbox, summaries, marks>> PROVE InboxOK'
BY DEF InboxOK

LEMMA InboxDisturbed ==
  ASSUME InboxOK, inbox' = Disturbed(inbox) PROVE InboxOK'
<1>1. PICK c : c = inbox
  OBVIOUS
<1>2. CASE inbox = AtRest
  <2>1. "quiet" \notin DOMAIN c
    BY <1>1, <1>2 DEF AtRest
  <2>2. inbox' = AtRest
    BY <1>1, <1>2, <2>1 DEF Disturbed
  <2> QED BY <2>2 DEF InboxOK
<1>3. CASE inbox # AtRest
  <2>1. AskOK(c)
    BY <1>1, <1>3 DEF InboxOK
  <2>2. PICK d : d = [c EXCEPT !.quiet = FALSE]
    OBVIOUS
  <2>3. inbox' = d
    BY <1>1, <2>1, <2>2 DEF Disturbed, AskOK, Listing1
  <2>4. DOMAIN d = Listing1 /\ d = [k \in Listing1 |-> d[k]]
    BY <2>1, <2>2 DEF AskOK, Listing1
  <2>5. /\ d.at = c.at /\ d.of = c.of /\ d.limit = c.limit /\ d.scope = c.scope /\ d.times = c.times
        /\ d.got = c.got /\ d.from = c.from /\ d.quiet = FALSE
    BY <2>1, <2>2 DEF AskOK, Listing1
  <2>6. AskOK(d)
    BY <2>1, <2>4, <2>5 DEF AskOK
  <2> QED BY <2>3, <2>5, <2>6 DEF InboxOK
<1> QED BY <1>2, <1>3

LEMMA InboxListed ==
  ASSUME InboxOK, AccountTyped, ListInbox PROVE InboxOK'
<1>1. PICK limit \in InboxLimits, scope \in {"all", "groups"} :
        inbox' = [at |-> "friends", of |-> stored, limit |-> limit, scope |-> scope,
                  times |-> [t \in Recent(stored, limit) |-> summaries[stored][t]],
                  got |-> {}, from |-> {}, quiet |-> TRUE]
  BY DEF ListInbox
<1>2. PICK a \in Accounts : a = stored
  BY DEF ListInbox, AccountTyped
<1>3. PICK s, m : s = summaries[a] /\ m = marks[a]
  OBVIOUS
<1>4. TimesOK(s) /\ summaries'[a] = s /\ marks'[a] = m
  BY <1>3 DEF AccountTyped, ListInbox, listParts
<1>5. Recent(stored, limit) = Recents(s, limit)
  BY <1>2, <1>3 DEF Recent, Recents
<1>6. PICK f : f = [t \in Recents(s, limit) |-> s[t]]
  OBVIOUS
<1>7. f = [t \in Recent(stored, limit) |-> summaries[stored][t]]
  BY <1>2, <1>3, <1>5, <1>6
<1>8. TimesOK(f)
  <2>1. Recents(s, limit) \in SUBSET (DOMAIN s)
    BY DEF Recents
  <2>2. IsFiniteSet(Recents(s, limit))
    BY <1>4, <2>1, FS_Subset DEF TimesOK
  <2>3. \A t \in Recents(s, limit) : f[t] \in Nat
    BY <1>4, <1>6, <2>1 DEF TimesOK
  <2> QED BY <1>4, <1>6, <2>1, <2>2, <2>3 DEF TimesOK
<1>9. PICK c : c = [at |-> "friends", of |-> a, limit |-> limit, scope |-> scope, times |-> f, got |-> {}, from |-> {}, quiet |-> TRUE]
  OBVIOUS
<1>10. inbox' = c
  BY <1>1, <1>2, <1>7, <1>9
<1>11. /\ DOMAIN c = Listing1 /\ c.at = "friends" /\ c.of = a /\ c.limit = limit /\ c.scope = scope
       /\ c.times = f /\ c.got = {} /\ c.from = {} /\ c.quiet = TRUE
  BY <1>9 DEF Listing1
<1>12. c = [k \in Listing1 |-> c[k]]
  BY <1>9, <1>11 DEF Listing1
<1>13. limit \in Nat /\ MarksOK({}) /\ c.at \in Early /\ c.at \notin Late /\ Done(c.at) = {}
  BY <1>11, ZaloAccountAssumption, FS_EmptySet DEF MarksOK, Early, Late, Done
<1>14. AskOK(c)
  BY <1>8, <1>11, <1>12, <1>13 DEF AskOK
<1>15. IsNow(c, s, m)
  BY <1>6, <1>11, <1>13 DEF IsNow
<1> QED BY <1>4, <1>10, <1>11, <1>14, <1>15 DEF InboxOK

\* A request that is answered leads to the next.
LEMMA FetchedIs ==
  ASSUME InboxOK, NEW at \in Early \cup Late, NEW next, NEW got, NEW from, Fetched(at, next, got, from),
         inbox' # AtRest
  PROVE  /\ AskOK(inbox) /\ inbox.at = at /\ (inbox.quiet => IsNow(inbox, summaries[inbox.of], marks[inbox.of]))
         /\ UNCHANGED <<summaries, marks>>
         /\ DOMAIN inbox' = Listing1 /\ inbox' = [k \in Listing1 |-> inbox'[k]]
         /\ inbox'.at = next /\ inbox'.of = inbox.of /\ inbox'.limit = inbox.limit /\ inbox'.scope = inbox.scope
         /\ inbox'.times = inbox.times /\ inbox'.quiet = inbox.quiet
         /\ inbox'.got = inbox.got \cup got /\ inbox'.from = inbox.from \cup from
<1>1. inbox.at = at /\ inbox' = [inbox EXCEPT !.at = next, !.got = @ \cup got, !.from = @ \cup from]
      /\ UNCHANGED <<summaries, marks>>
  BY DEF Fetched, listParts
<1>2. inbox # AtRest
  BY <1>1, RestIs DEF Early, Late
<1>3. PICK c : c = inbox
  OBVIOUS
<1>4. AskOK(c) /\ (c.quiet => IsNow(c, summaries[c.of], marks[c.of]))
  BY <1>2, <1>3 DEF InboxOK
<1>5. PICK g, f : g = c.got \cup got /\ f = c.from \cup from
  OBVIOUS
<1>6. PICK d : d = [c EXCEPT !.at = next, !.got = g, !.from = f]
  OBVIOUS
<1>7. inbox' = d
  BY <1>1, <1>3, <1>5, <1>6
<1>8. DOMAIN d = Listing1 /\ d = [k \in Listing1 |-> d[k]]
  BY <1>4, <1>6 DEF AskOK, Listing1
<1>9. /\ d.at = next /\ d.of = c.of /\ d.limit = c.limit /\ d.scope = c.scope /\ d.times = c.times
      /\ d.got = g /\ d.from = f /\ d.quiet = c.quiet
  BY <1>4, <1>6 DEF AskOK, Listing1
<1> QED BY <1>1, <1>3, <1>4, <1>5, <1>7, <1>8, <1>9

LEMMA FetchKeepsEarly ==
  ASSUME InboxOK, NEW at \in Early, NEW next \in Early, Fetched(at, next, {}, {}) PROVE InboxOK'
<1>1. CASE inbox' = AtRest
  BY <1>1 DEF InboxOK
<1>2. CASE inbox' # AtRest
  <2>1. PICK c, d : c = inbox /\ d = inbox'
    OBVIOUS
  <2>2. at \in Early \cup Late
    OBVIOUS
  <2>3. /\ AskOK(c) /\ c.at = at /\ (c.quiet => IsNow(c, summaries[c.of], marks[c.of]))
        /\ UNCHANGED <<summaries, marks>>
        /\ DOMAIN d = Listing1 /\ d = [k \in Listing1 |-> d[k]]
        /\ d.at = next /\ d.of = c.of /\ d.limit = c.limit /\ d.scope = c.scope
        /\ d.times = c.times /\ d.quiet = c.quiet /\ d.got = c.got \cup {} /\ d.from = c.from \cup {}
    BY <1>2, <2>1, <2>2, FetchedIs
  <2>7. d.got = c.got /\ d.from = c.from
    BY <2>3
  <2>4. next \notin Late /\ at \notin Late /\ Done(at) = {} /\ Done(next) = {}
    BY DEF Early, Late, Done
  <2>5. AskOK(d)
    BY <2>3, <2>4, <2>7 DEF AskOK
  <2>6. c.quiet => IsNow(d, summaries[c.of], marks[c.of])
    BY <2>3, <2>4, <2>7 DEF IsNow
  <2> QED BY <2>1, <2>3, <2>5, <2>6 DEF InboxOK
<1> QED BY <1>1, <1>2

LEMMA FetchKeepsMarks ==
  ASSUME InboxOK, AccountTyped, NEW at \in {"unread"} \cup Late, NEW next \in Late, NEW m \in Marks,
         Done(next) = Done(at) \cup {m}, FetchMarks(at, next, m)
  PROVE  InboxOK'
<1>1. CASE inbox' = AtRest
  BY <1>1 DEF InboxOK
<1>2. CASE inbox' # AtRest
  <2>1. PICK c, d : c = inbox /\ d = inbox'
    OBVIOUS
  <2>2. at \in Early \cup Late
    BY DEF Early, Late
  <2>0. Fetched(at, next, MarkedOf(c.of, m), {c.of})
    BY <2>1 DEF FetchMarks
  <2>3. /\ AskOK(c) /\ c.at = at /\ (c.quiet => IsNow(c, summaries[c.of], marks[c.of]))
        /\ UNCHANGED <<summaries, marks>>
        /\ DOMAIN d = Listing1 /\ d = [k \in Listing1 |-> d[k]]
        /\ d.at = next /\ d.of = c.of /\ d.limit = c.limit /\ d.scope = c.scope
        /\ d.times = c.times /\ d.quiet = c.quiet /\ d.got = c.got \cup MarkedOf(c.of, m)
        /\ d.from = c.from \cup {c.of}
    BY <1>2, <2>0, <2>1, <2>2, FetchedIs
  <2>4. PICK a \in Accounts : a = c.of
    BY <2>3 DEF AskOK
  <2>5. PICK all : all = marks[a]
    OBVIOUS
  <2>6. MarksOK(all)
    BY <2>4, <2>5 DEF AccountTyped
  <2>7. PICK new : new = {p \in all : p[2] = m}
    OBVIOUS
  <2>8. MarkedOf(c.of, m) = new
    BY <2>4, <2>5, <2>7 DEF MarkedOf
  <2>9. IsFiniteSet(new)
    <3>1. new \in SUBSET all
      BY <2>7
    <3> QED BY <2>6, <3>1, FS_Subset DEF MarksOK
  <2>10. MarksOK(c.got \cup new)
    <3>1. IsFiniteSet(c.got \cup new)
      BY <2>3, <2>9, FS_Union DEF AskOK, MarksOK
    <3> QED BY <2>3, <2>6, <2>7, <3>1 DEF AskOK, MarksOK
  <2>11. d.from = {d.of}
    BY <2>3 DEF AskOK
  <2>12. AskOK(d)
    BY <2>3, <2>8, <2>10, <2>11 DEF AskOK
  <2>13. ASSUME c.quiet PROVE IsNow(d, summaries[c.of], all)
    <3>1. /\ c.times = [t \in Recents(summaries[c.of], c.limit) |-> summaries[c.of][t]]
          /\ c.got = {p \in all : p[2] \in Done(at)}
      BY <2>3, <2>4, <2>5, <2>13 DEF IsNow
    <3>2. d.got = {p \in all : p[2] \in Done(next)}
      BY <2>3, <2>7, <2>8, <3>1
    <3> QED BY <2>3, <3>1, <3>2 DEF IsNow
  <2> QED BY <2>1, <2>3, <2>4, <2>5, <2>12, <2>13 DEF InboxOK
<1> QED BY <1>1, <1>2

-----------------------------------------------------------------------------
(* What a listing shows.                                                   *)

TimeIn(times, t) == IF t \in DOMAIN times THEN times[t] ELSE 0

LEMMA PrecedesIs ==
  ASSUME NEW times, TimesOK(times), NEW got, NEW t \in Nat, NEW u \in Nat
  PROVE  /\ TimeIn(times, t) \in Nat /\ TimeIn(times, u) \in Nat
         /\ Precedes(times, got, t, u) <=>
              \/ <<t, "unread">> \in got /\ <<u, "unread">> \notin got
              \/ /\ <<t, "unread">> \in got <=> <<u, "unread">> \in got
                 /\ TimeIn(times, t) > TimeIn(times, u) \/ (TimeIn(times, t) = TimeIn(times, u) /\ t < u)
<1>1. TimeIn(times, t) \in Nat /\ TimeIn(times, u) \in Nat
  BY DEF TimeIn, TimesOK
<1>2. PICK x, y \in BOOLEAN : (x <=> <<t, "unread">> \in got) /\ (y <=> <<u, "unread">> \in got)
  OBVIOUS
<1>3. Precedes(times, got, t, u) <=>
        \/ UnreadIn(got, t) /\ ~UnreadIn(got, u)
        \/ /\ UnreadIn(got, t) = UnreadIn(got, u)
           /\ TimeIn(times, t) > TimeIn(times, u) \/ (TimeIn(times, t) = TimeIn(times, u) /\ t < u)
  BY DEF Precedes, TimeIn
<1>4. (UnreadIn(got, t) = UnreadIn(got, u)) <=> (<<t, "unread">> \in got <=> <<u, "unread">> \in got)
  BY DEF UnreadIn
<1>5. UnreadIn(got, t) /\ ~UnreadIn(got, u) <=> <<t, "unread">> \in got /\ <<u, "unread">> \notin got
  BY DEF UnreadIn
<1> QED BY <1>1, <1>3, <1>4, <1>5

LEMMA InboxOrderIs ==
  ASSUME NEW set, set \subseteq ChatThreads, IsFiniteSet(set), NEW times, TimesOK(times), NEW got
  PROVE  /\ InboxOrder(set, times, got) \in Seq(ChatThreads) /\ ToSet(InboxOrder(set, times, got)) = set
         /\ \A i \in 1..Len(InboxOrder(set, times, got)) : InboxOrder(set, times, got)[i] \in set
         /\ \A i, j \in 1..Len(InboxOrder(set, times, got)) :
              i < j => Precedes(times, got, InboxOrder(set, times, got)[i], InboxOrder(set, times, got)[j])
<1>1. PICK R : R = {d \in set \X set : Precedes(times, got, d[1], d[2])}
  OBVIOUS
<1>2. PICK q : q = SortedBy(set, R)
  OBVIOUS
<1>3. q = InboxOrder(set, times, got)
  BY <1>1, <1>2 DEF InboxOrder
<1>4. \A t, u \in set : <<t, u>> \in R <=> Precedes(times, got, t, u)
  BY <1>1
<1>5. \A t \in set : t \in Nat
  BY ZaloAccountAssumption
<1>6. PICK unread : unread = {t \in set : <<t, "unread">> \in got}
  OBVIOUS
<1>7. PICK time : time = [t \in set |-> TimeIn(times, t)]
  OBVIOUS
<1>8. \A t, u \in set : /\ time[t] \in Nat /\ time[u] \in Nat /\ t \in Nat /\ u \in Nat
                        /\ <<t, u>> \in R <=>
                             \/ t \in unread /\ u \notin unread
                             \/ (t \in unread <=> u \in unread) /\ (time[t] > time[u] \/ (time[t] = time[u] /\ t < u))
  <2> SUFFICES ASSUME NEW t \in set, NEW u \in set
               PROVE  /\ time[t] \in Nat /\ time[u] \in Nat /\ t \in Nat /\ u \in Nat
                      /\ <<t, u>> \in R <=>
                           \/ t \in unread /\ u \notin unread
                           \/ (t \in unread <=> u \in unread) /\ (time[t] > time[u] \/ (time[t] = time[u] /\ t < u))
    OBVIOUS
  <2>1. t \in Nat /\ u \in Nat /\ time[t] = TimeIn(times, t) /\ time[u] = TimeIn(times, u)
    BY <1>5, <1>7
  <2>2. (t \in unread <=> <<t, "unread">> \in got) /\ (u \in unread <=> <<u, "unread">> \in got)
    BY <1>6
  <2>3. <<t, u>> \in R <=> Precedes(times, got, t, u)
    BY <1>4
  <2>4. /\ TimeIn(times, t) \in Nat /\ TimeIn(times, u) \in Nat
        /\ Precedes(times, got, t, u) <=>
             \/ <<t, "unread">> \in got /\ <<u, "unread">> \notin got
             \/ /\ <<t, "unread">> \in got <=> <<u, "unread">> \in got
                /\ TimeIn(times, t) > TimeIn(times, u) \/ (TimeIn(times, t) = TimeIn(times, u) /\ t < u)
    BY <2>1, PrecedesIs
  <2> QED BY <2>1, <2>2, <2>3, <2>4
<1>9. LinearOn(set, R)
  <2>1. ASSUME NEW d \in set, NEW e \in set, d # e PROVE <<d, e>> \in R \/ <<e, d>> \in R
    BY <1>8, <2>1
  <2>2. \A d \in set : <<d, d>> \notin R
    BY <1>8
  <2>3. ASSUME NEW d \in set, NEW e \in set, NEW f \in set, <<d, e>> \in R, <<e, f>> \in R PROVE <<d, f>> \in R
    <3>1. /\ time[d] \in Nat /\ time[e] \in Nat /\ time[f] \in Nat /\ d \in Nat /\ e \in Nat /\ f \in Nat
          /\ \/ d \in unread /\ e \notin unread
             \/ (d \in unread <=> e \in unread) /\ (time[d] > time[e] \/ (time[d] = time[e] /\ d < e))
          /\ \/ e \in unread /\ f \notin unread
             \/ (e \in unread <=> f \in unread) /\ (time[e] > time[f] \/ (time[e] = time[f] /\ e < f))
      BY <1>8, <2>3
    <3>2. \/ d \in unread /\ f \notin unread
          \/ (d \in unread <=> f \in unread) /\ (time[d] > time[f] \/ (time[d] = time[f] /\ d < f))
      BY <3>1
    <3> QED BY <1>8, <3>2
  <2> QED BY <2>1, <2>2, <2>3 DEF LinearOn
<1>10. /\ q \in Seq(ChatThreads) /\ ToSet(q) = set /\ \A i \in 1..Len(q) : q[i] \in set
       /\ \A i, j \in 1..Len(q) : i < j => <<q[i], q[j]>> \in R
  BY <1>2, <1>9, SortedSeq
<1>11. \A i, j \in 1..Len(q) : i < j => Precedes(times, got, q[i], q[j])
  BY <1>4, <1>10
<1> QED BY <1>3, <1>10, <1>11

\* The threads that a call's answer is about.
About(c) == {t \in DOMAIN c.times \cup {p[1] : p \in c.got} : InScope(c.scope, t)}
CutTo(q, limit) == IF limit = 0 \/ Len(q) <= limit THEN q ELSE SubSeq(q, 1, limit)

LEMMA AboutIs ==
  ASSUME NEW c, AskOK(c) PROVE About(c) \subseteq ChatThreads /\ IsFiniteSet(About(c))
<1>1. PICK D, G, T : D = DOMAIN c.times /\ G = c.got /\ T = {p[1] : p \in c.got}
  OBVIOUS
<1>2. D \subseteq ChatThreads /\ IsFiniteSet(D) /\ G \subseteq ChatThreads \X Marks /\ IsFiniteSet(G)
  BY <1>1 DEF AskOK, TimesOK, MarksOK
<1>3. T \subseteq ChatThreads
  BY <1>1, <1>2
<1>4. IsFiniteSet(T)
  <2>1. PICK f : f = [p \in G |-> p[1]]
    OBVIOUS
  <2>2. DOMAIN f = G /\ f \in [DOMAIN f -> T] /\ \A y \in T : \E x \in DOMAIN f : f[x] = y
    BY <1>1, <2>1
  <2> QED BY <1>2, <2>2, ImageIsFinite
<1>5. IsFiniteSet(D \cup T)
  BY <1>2, <1>4, FS_Union
<1>6. About(c) \in SUBSET (D \cup T)
  BY <1>1 DEF About
<1> QED BY <1>2, <1>3, <1>5, <1>6, FS_Subset

LEMMA CutIs ==
  ASSUME NEW S, NEW q \in Seq(S), NEW limit \in Nat
  PROVE  /\ Len(CutTo(q, limit)) \in Nat /\ Len(CutTo(q, limit)) <= Len(q) /\ Len(q) \in Nat
         /\ DOMAIN CutTo(q, limit) = 1..Len(CutTo(q, limit))
         /\ \A i \in 1..Len(CutTo(q, limit)) : CutTo(q, limit)[i] = q[i]
         /\ Len(CutTo(q, limit)) = Len(q) \/ (Len(CutTo(q, limit)) = limit /\ limit <= Len(q))
         /\ limit = 0 => CutTo(q, limit) = q
<1>1. PICK n \in Nat : n = Len(q)
  BY LenProperties
<1>2. CASE limit = 0 \/ n <= limit
  <2>1. CutTo(q, limit) = q
    BY <1>1, <1>2 DEF CutTo
  <2>2. DOMAIN q = 1..n
    BY <1>1, LenProperties
  <2> QED BY <1>1, <2>1, <2>2
<1>3. CASE ~(limit = 0 \/ n <= limit)
  <2>1. PICK r : r = SubSeq(q, 1, limit)
    OBVIOUS
  <2>2. CutTo(q, limit) = r
    BY <1>1, <1>3, <2>1 DEF CutTo
  <2>3. limit < n /\ limit >= 1 /\ 1 \in 1..(Len(q) + 1) /\ limit \in 0..Len(q)
    BY <1>1, <1>3
  <2>4. \A i \in 1..limit : q[i] \in S
    <3>1. \A i \in 1..limit : i \in 1..Len(q)
      BY <1>1, <2>3
    <3> QED BY <3>1, ElementOfSeq
  <2>5. PICK a \in Nat : a = 1
    OBVIOUS
  <2>6. r = SubSeq(q, a, limit) /\ \A i \in a..limit : q[i] \in S
    BY <2>1, <2>4, <2>5
  <2>7. /\ r \in Seq(S) /\ Len(r) = IF a <= limit THEN limit - a + 1 ELSE 0
        /\ \A i \in 1..(limit - a + 1) : r[i] = q[a + i - 1]
    BY <2>6, SubSeqProperties
  <2>8. Len(r) = limit /\ \A i \in 1..limit : r[i] = q[i]
    BY <2>3, <2>5, <2>7
  <2>9. DOMAIN r = 1..Len(r)
    BY <2>7, LenProperties
  <2> QED BY <1>1, <2>2, <2>3, <2>8, <2>9
<1> QED BY <1>1, <1>2, <1>3

\* A listing's answer, as InboxIsExact and UnreadComesFirst ask of it.
ListExact(l) ==
  l.of # NoAccount =>
    /\ l.from = {l.of}
    /\ l.exact /\ l.limit = 0 =>
         LET all == DOMAIN l.times \cup {p[1] : p \in l.got}
         IN  l.list = InboxOrder({t \in all : InScope(l.scope, t)}, l.times, l.got)
ListUnread(l) ==
  l.of # NoAccount /\ l.exact =>
    LET there == {l.list[i] : i \in DOMAIN l.list}
        unseen == {p[1] : p \in {q \in l.got : q[2] = "unread"}} \ there
    IN  (\E t \in unseen : InScope(l.scope, t)) =>
          Len(l.list) = l.limit /\ \A t \in there : UnreadIn(l.got, t)

AnswerFrom(l, c, s, m) ==
  /\ l.list = CutTo(InboxOrder(About(c), c.times, c.got), c.limit)
  /\ l.of = c.of /\ l.from = c.from /\ l.limit = c.limit /\ l.scope = c.scope /\ l.exact = c.quiet
  /\ l.times = s /\ l.got = m

\* Nothing has changed under the call: it has all that is marked.
LEMMA HasTheMarks ==
  ASSUME NEW c, NEW s, NEW m, MarksOK(m), IsNow(c, s, m), c.at = "list" PROVE c.got = m
<1>1. Done(c.at) = Marks
  BY DEF Done
<1>2. \A p \in m : p[2] \in Marks
  BY DEF MarksOK
<1> QED BY <1>1, <1>2 DEF IsNow

LEMMA HasTheTimes ==
  ASSUME NEW c, NEW s, TimesOK(s), NEW m, IsNow(c, s, m), c.limit = 0 PROVE c.times = s
<1>1. Recents(s, c.limit) = DOMAIN s
  BY DEF Recents
<1>2. c.times = [t \in DOMAIN s |-> s[t]]
  BY <1>1 DEF IsNow
<1> QED BY <1>2 DEF TimesOK

LEMMA AnswerIsExact ==
  ASSUME NEW c, AskOK(c), c.at = "list", NEW s, TimesOK(s), NEW m, MarksOK(m), c.quiet => IsNow(c, s, m),
         NEW l, AnswerFrom(l, c, s, m)
  PROVE  ListExact(l)
<1>1. l.from = {l.of}
  BY DEF AnswerFrom, AskOK, Late
<1>2. ASSUME l.exact, l.limit = 0
      PROVE  l.list = InboxOrder({t \in DOMAIN l.times \cup {p[1] : p \in l.got} : InScope(l.scope, t)}, l.times, l.got)
  <2>1. c.times = s /\ c.got = m
    BY <1>2, HasTheMarks, HasTheTimes DEF AnswerFrom
  <2>2. PICK q : q = InboxOrder(About(c), c.times, c.got)
    OBVIOUS
  <2>3. l.list = q
    BY <1>2, <2>2 DEF AnswerFrom, CutTo
  <2>4. {t \in DOMAIN l.times \cup {p[1] : p \in l.got} : InScope(l.scope, t)} = About(c)
    BY <2>1 DEF AnswerFrom, About
  <2>5. l.times = c.times /\ l.got = c.got
    BY <2>1 DEF AnswerFrom
  <2> QED BY <2>2, <2>3, <2>4, <2>5
<1> QED BY <1>1, <1>2 DEF ListExact

LEMMA AnswerShowsUnread ==
  ASSUME NEW c, AskOK(c), c.at = "list", NEW s, TimesOK(s), NEW m, MarksOK(m), c.quiet => IsNow(c, s, m),
         NEW l, AnswerFrom(l, c, s, m)
  PROVE  ListUnread(l)
<1> SUFFICES ASSUME l.exact PROVE ListUnread(l)
  BY DEF ListUnread
<1>1. c.got = m /\ l.got = m /\ l.scope = c.scope
  BY HasTheMarks DEF AnswerFrom
<1>2. PICK q, all : q = InboxOrder(About(c), c.times, c.got) /\ all = About(c)
  OBVIOUS
<1>3. TimesOK(c.times) /\ all \subseteq ChatThreads /\ IsFiniteSet(all)
  BY <1>2, AboutIs DEF AskOK
<1>4. /\ q \in Seq(ChatThreads) /\ ToSet(q) = all /\ \A i \in 1..Len(q) : q[i] \in all
      /\ \A i, j \in 1..Len(q) : i < j => Precedes(c.times, c.got, q[i], q[j])
  BY <1>2, <1>3, InboxOrderIs
<1>5. PICK r, limit : r = l.list /\ limit = c.limit
  OBVIOUS
<1>6. r = CutTo(q, limit) /\ limit \in Nat /\ l.limit = limit
  BY <1>2, <1>5 DEF AnswerFrom, AskOK
<1>7. PICK n, k \in Nat : n = Len(q) /\ k = Len(r)
  <2>1. Len(q) \in Nat
    BY <1>4, LenProperties
  <2>2. Len(r) \in Nat
    BY <1>4, <1>6, CutIs
  <2> QED BY <2>1, <2>2
<1>8. /\ k <= n /\ DOMAIN r = 1..k /\ (\A i \in 1..k : r[i] = q[i])
      /\ k = n \/ k = limit
  BY <1>4, <1>6, <1>7, CutIs
<1>9. PICK there : there = {r[i] : i \in DOMAIN r}
  OBVIOUS
<1>10. ASSUME NEW t, t \in {p[1] : p \in {e \in m : e[2] = "unread"}} \ there, InScope(c.scope, t)
       PROVE  k = limit /\ \A x \in there : UnreadIn(m, x)
  <2>1. <<t, "unread">> \in m
    BY <1>10 DEF MarksOK
  <2>2. t \in all
    BY <1>1, <1>2, <1>10, <2>1 DEF About
  <2>3. DOMAIN q = 1..n
    BY <1>4, <1>7, LenProperties
  <2>4. PICK j \in 1..n : q[j] = t
    BY <1>4, <2>2, <2>3 DEF ToSet
  <2>5. j \notin 1..k
    BY <1>8, <1>9, <1>10, <2>4
  <2>6. k < j /\ k # n
    BY <1>8, <2>4, <2>5
  <2>7. ASSUME NEW x \in there PROVE UnreadIn(m, x)
    <3>1. PICK i \in 1..k : x = q[i]
      BY <1>8, <1>9
    <3>2. i \in 1..n /\ i < j
      BY <1>8, <2>6
    <3>3. Precedes(c.times, m, x, t)
      BY <1>1, <1>4, <1>7, <2>4, <3>1, <3>2
    <3>4. x \in Nat /\ t \in Nat
      BY <1>3, <1>4, <1>7, <2>2, <3>1, <3>2, ZaloAccountAssumption
    <3>5. <<x, "unread">> \in m
      BY <1>3, <2>1, <3>3, <3>4, PrecedesIs
    <3> QED BY <3>5 DEF UnreadIn
  <2> QED BY <1>8, <2>6, <2>7
<1>11. ASSUME \E t \in {p[1] : p \in {e \in l.got : e[2] = "unread"}} \ there : InScope(l.scope, t)
       PROVE  Len(l.list) = l.limit /\ \A t \in there : UnreadIn(l.got, t)
  BY <1>1, <1>5, <1>6, <1>7, <1>10, <1>11
<1>12. there = {l.list[i] : i \in DOMAIN l.list}
  BY <1>5, <1>9
<1> QED BY <1>11, <1>12 DEF ListUnread

LEMMA ListingIsRight ==
  ASSUME InboxOK, AccountTyped, CapabilityListInbox PROVE InboxOK' /\ ListExact(listed)' /\ ListUnread(listed)'
<1>1. inbox.at = "list" /\ inbox' = AtRest
  BY DEF CapabilityListInbox
<1>2. inbox # AtRest
  BY <1>1, RestIs
<1>3. PICK c : c = inbox
  OBVIOUS
<1>4. AskOK(c) /\ (c.quiet => IsNow(c, summaries[c.of], marks[c.of])) /\ c.of \in Accounts
  BY <1>2, <1>3 DEF InboxOK, AskOK
<1>5. PICK s, m : s = summaries[c.of] /\ m = marks[c.of]
  OBVIOUS
<1>6. TimesOK(s) /\ MarksOK(m) /\ (c.quiet => IsNow(c, s, m)) /\ c.at = "list"
  BY <1>1, <1>3, <1>4, <1>5 DEF AccountTyped
<1>7. PICK l : l = listed'
  OBVIOUS
<1>8. PICK q : q = InboxOrder(About(c), c.times, c.got)
  OBVIOUS
<1>9. l = [list |-> CutTo(q, c.limit), of |-> c.of, from |-> c.from, limit |-> c.limit, scope |-> c.scope,
           exact |-> c.quiet, times |-> s, got |-> m]
  BY <1>3, <1>5, <1>7, <1>8 DEF CapabilityListInbox, About, CutTo
<1>10. AnswerFrom(l, c, s, m)
  BY <1>8, <1>9 DEF AnswerFrom
<1>11. ListExact(l) /\ ListUnread(l)
  BY <1>4, <1>6, <1>10, AnswerIsExact, AnswerShowsUnread
<1>12. ListExact(listed)' /\ ListUnread(listed)'
  BY <1>7, <1>11 DEF ListExact, ListUnread
<1> QED BY <1>1, <1>12 DEF InboxOK

AccountInv == AccountTyped /\ TextOK /\ UploadOK /\ InboxOK /\ ListExact(listed) /\ ListUnread(listed)

LEMMA AccountBegins == ZaloAccountInit => AccountInv
<1> SUFFICES ASSUME ZaloAccountInit PROVE AccountInv
  OBVIOUS
<1>1. listed.of = NoAccount
  BY DEF ZaloAccountInit, NoList
<1>2. ListExact(listed) /\ ListUnread(listed)
  BY <1>1 DEF ListExact, ListUnread
<1> QED BY <1>2, AccountStarts, TextStarts, UploadStarts, InboxStarts DEF AccountInv

LEMMA UploadsKeep ==
  ASSUME AccountTyped, UploadOK, ZaloAccountNext PROVE UploadOK'
<1>1. accountCalls \in Nat
  BY ZaloAccountAssumption DEF AccountTyped
<1>2. CASE \/ UploadImage \/ UploadFile \/ RegisterUploadCallback \/ FileDone \/ UploadEnds \/ UploadUnawaited \/ UploadFails
           \/ SendFile \/ SendImage
  BY <1>1, <1>2, UploadKeeps
<1>3. CASE UNCHANGED <<upload, fileDone, callbacks, posted>>
  BY <1>3, UploadStays
<1> QED BY <1>2, <1>3 DEF ZaloAccountNext, LoginQR, Phone, qrWaitingScan, qrWaitingConfirm, LoginFails,
  SaveStoredCredentials, ClearStoredCredentials, MarkElsewhere, CapabilityUpdateInbox, ListInbox, CapabilityListInbox,
  FetchFriends, FetchGroups, FetchUnreadMarks, FetchPinnedConversations, FetchHiddenConversations,
  FetchArchivedConversations, FetchMarks, Fetched, CapabilitySend, SendText, SendMessage, recordThreadActivity, NoteSent,
  qrParts, listParts, textParts

LEMMA TextsKeep ==
  ASSUME AccountTyped, TextOK, ZaloAccountNext PROVE TextOK'
<1>1. accountCalls \in Nat /\ stored \in Accounts \cup {NoAccount}
  BY ZaloAccountAssumption DEF AccountTyped
<1>2. CASE CapabilitySend \/ SendText \/ SendMessage \/ NoteSent
  BY <1>1, <1>2, SendKeepsText, LoadKeepsText, PieceKeepsText, NoteKeepsText
<1>3. CASE UNCHANGED <<text, heard>> /\ accountCalls' \in {accountCalls, accountCalls + 1}
  BY <1>1, <1>3, TextStays
<1>4. CASE ~(CapabilitySend \/ SendText \/ SendMessage \/ NoteSent)
  <2>1. UNCHANGED <<text, heard>>
    BY <1>4 DEF ZaloAccountNext, LoginQR, Phone, qrWaitingScan, qrWaitingConfirm, LoginFails,
      SaveStoredCredentials, ClearStoredCredentials, MarkElsewhere, CapabilityUpdateInbox, ListInbox, CapabilityListInbox,
      FetchFriends, FetchGroups, FetchUnreadMarks, FetchPinnedConversations, FetchHiddenConversations,
      FetchArchivedConversations, FetchMarks, Fetched, recordThreadActivity, UploadImage, UploadFile,
      RegisterUploadCallback, FileDone, UploadEnds, UploadUnawaited, UploadFails, SendFile, SendImage, Post, qrParts, listParts, uploadParts
  <2>2. AccountCall \/ NoAccountCall
    BY <1>4, ElsewhereIs DEF ZaloAccountNext, Elsewhere1, SaveStoredCredentials, ClearStoredCredentials, MarkElsewhere,
      CapabilityUpdateInbox, recordThreadActivity
  <2>3. accountCalls' \in {accountCalls, accountCalls + 1}
    BY <2>2 DEF AccountCall, NoAccountCall
  <2> QED BY <1>3, <2>1, <2>3
<1> QED BY <1>2, <1>4

LEMMA InboxKeeps ==
  ASSUME AccountTyped, InboxOK, ListExact(listed), ListUnread(listed), ZaloAccountNext
  PROVE  InboxOK' /\ ListExact(listed)' /\ ListUnread(listed)'
<1>1. CASE CapabilityListInbox
  BY <1>1, ListingIsRight
<1>2. CASE ~CapabilityListInbox
  <2>1. listed' = listed
    BY <1>2 DEF ZaloAccountNext, LoginQR, Phone, qrWaitingScan, qrWaitingConfirm, LoginFails,
      SaveStoredCredentials, ClearStoredCredentials, MarkElsewhere, CapabilityUpdateInbox, ListInbox,
      FetchFriends, FetchGroups, FetchUnreadMarks, FetchPinnedConversations, FetchHiddenConversations,
      FetchArchivedConversations, FetchMarks, Fetched, CapabilitySend, SendText, SendMessage, recordThreadActivity, NoteSent,
      UploadImage, UploadFile, RegisterUploadCallback, FileDone, UploadEnds, UploadUnawaited, UploadFails, SendFile, SendImage, Post,
      qrParts, textParts, uploadParts
  <2>2. ListExact(listed)' /\ ListUnread(listed)'
    BY <2>1 DEF ListExact, ListUnread
  <2>3. InboxOK'
    <3>1. CASE ListInbox
      BY <3>1, InboxListed
    <3>2. CASE MarkElsewhere \/ CapabilityUpdateInbox \/ recordThreadActivity \/ NoteSent
      <4>1. inbox' = Disturbed(inbox)
        BY <3>2 DEF MarkElsewhere, CapabilityUpdateInbox, recordThreadActivity, NoteSent, Upsert
      <4> QED BY <4>1, InboxDisturbed
    <3>3. CASE FetchFriends \/ FetchGroups
      <4>1. {"friends", "groups", "unread"} = Early
        BY DEF Early
      <4> QED BY <3>3, <4>1, FetchKeepsEarly DEF FetchFriends, FetchGroups
    <3>4. CASE FetchUnreadMarks \/ FetchPinnedConversations \/ FetchHiddenConversations \/ FetchArchivedConversations
      <4>1. /\ Late = {"pinned", "hidden", "archived", "list"} /\ Marks = {"unread", "pinned", "hidden", "archived"}
            /\ Done("pinned") = Done("unread") \cup {"unread"} /\ Done("hidden") = Done("pinned") \cup {"pinned"}
            /\ Done("archived") = Done("hidden") \cup {"hidden"} /\ Done("list") = Done("archived") \cup {"archived"}
        BY DEF Late, Marks, Done
      <4>2. CASE FetchUnreadMarks
        BY <4>1, <4>2, FetchKeepsMarks DEF FetchUnreadMarks
      <4>3. CASE FetchPinnedConversations
        BY <4>1, <4>3, FetchKeepsMarks DEF FetchPinnedConversations
      <4>4. CASE FetchHiddenConversations
        BY <4>1, <4>4, FetchKeepsMarks DEF FetchHiddenConversations
      <4>5. CASE FetchArchivedConversations
        BY <4>1, <4>5, FetchKeepsMarks DEF FetchArchivedConversations
      <4> QED BY <3>4, <4>2, <4>3, <4>4, <4>5
    <3>5. CASE UNCHANGED <<inbox, summaries, marks>>
      BY <3>5, InboxStays
    <3> QED BY <1>2, <3>1, <3>2, <3>3, <3>4, <3>5 DEF ZaloAccountNext, LoginQR, Phone, qrWaitingScan,
      qrWaitingConfirm, LoginFails, SaveStoredCredentials, ClearStoredCredentials, CapabilitySend, SendText, SendMessage,
      UploadImage, UploadFile, RegisterUploadCallback, FileDone, UploadEnds, UploadUnawaited, UploadFails, SendFile, SendImage, Post,
      qrParts, textParts, uploadParts
  <2> QED BY <2>2, <2>3
<1> QED BY <1>1, <1>2

LEMMA AccountIdles ==
  ASSUME AccountInv, UNCHANGED zaloAccountVars PROVE AccountInv'
<1>1. /\ UNCHANGED <<stored, marks, summaries, marksMade, accountCalls, text, heard, upload, fileDone, callbacks>>
      /\ UNCHANGED <<posted, inbox, listed>>
  BY DEF zaloAccountVars
<1>2. AccountTyped'
  BY <1>1 DEF AccountInv, AccountTyped
<1>3. TextOK'
  BY <1>1 DEF AccountInv, TextOK
<1>4. UploadOK'
  BY <1>1, UploadStays DEF AccountInv
<1>5. InboxOK'
  BY <1>1, InboxStays DEF AccountInv
<1>6. ListExact(listed)' /\ ListUnread(listed)'
  BY <1>1 DEF AccountInv, ListExact, ListUnread
<1> QED BY <1>2, <1>3, <1>4, <1>5, <1>6 DEF AccountInv

LEMMA AccountIsRight == ZaloAccountSpec => [](AccountInv /\ QrInv)
<1>1. ASSUME AccountInv, QrInv, [ZaloAccountNext]_zaloAccountVars PROVE AccountInv'
  <2>1. CASE ZaloAccountNext
    BY <1>1, <2>1, AccountKeeps, TextsKeep, UploadsKeep, InboxKeeps DEF AccountInv
  <2>2. CASE UNCHANGED zaloAccountVars
    BY <1>1, <2>2, AccountIdles
  <2> QED BY <1>1, <2>1, <2>2
<1>2. ZaloAccountInit => AccountInv
  BY AccountBegins
<1> QED BY <1>1, <1>2, QrHolds, PTL DEF ZaloAccountSpec

LEMMA AccountGives ==
  AccountInv /\ QrInv => /\ InboxIsExact /\ UnreadComesFirst /\ TextsGoOutWhole /\ FilesHaveTheirAddress
                         /\ ZaloAccountTypeOK
<1> SUFFICES ASSUME AccountInv, QrInv
             PROVE  /\ InboxIsExact /\ UnreadComesFirst /\ TextsGoOutWhole /\ FilesHaveTheirAddress
                    /\ ZaloAccountTypeOK
  OBVIOUS
<1>1. InboxIsExact
  BY DEF AccountInv, ListExact, InboxIsExact
<1>2. UnreadComesFirst
  BY DEF AccountInv, ListUnread, UnreadComesFirst
<1>3. TextsGoOutWhole
  BY TextGives DEF AccountInv
<1>4. FilesHaveTheirAddress
  BY DEF AccountInv, UploadOK, FilesHaveTheirAddress, Address
<1>5. ZaloAccountTypeOK
  <2>1. qr.at \in {"idle", "scan", "confirm", "session"}
    BY RestIs DEF QrInv, QrStep
  <2>2. text.at \in {"idle", "load", "send", "note", "sent", "failed"}
    BY RestIs DEF AccountInv, TextOK, TextRow
  <2> QED BY <2>1, <2>2 DEF AccountInv, AccountTyped, UploadOK, ZaloAccountTypeOK
<1> QED BY <1>1, <1>2, <1>3, <1>4, <1>5

-----------------------------------------------------------------------------

\* What a program printed is what the log and the result say of it, what was
\* read of a directory is what it held, and what was found in a Zalo account
\* and sent from it is of one account, in order, each piece and file whole.
THEOREM ToolsAreTrue == CommandsSpec /\ RepoFilesSpec /\ ZaloAccountSpec => []ToolsKeepTheirWord
<1>1. CallInv => LogIsTheOutput /\ SuccessIsComplete /\ ResultIsTheOutput /\ NoCaptureIsLeft
  BY CallGives
<1>2. ReadsInv => ReadsAreExact
  BY ReadsGive
<1>3. AccountInv /\ QrInv => InboxIsExact /\ UnreadComesFirst /\ TextsGoOutWhole /\ FilesHaveTheirAddress
  BY AccountGives
<1>4. CallInv /\ ReadsInv /\ AccountInv /\ QrInv => ToolsKeepTheirWord
  BY <1>1, <1>2, <1>3, RangesAreRead DEF ToolsKeepTheirWord
<1> QED BY <1>4, CallsAreRight, ReadsAreRight, AccountIsRight, PTL
=============================================================================
