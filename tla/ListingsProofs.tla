---------------------------- MODULE ListingsProofs ----------------------------
(***************************************************************************)
(* What a reader who turns the pages of a list is shown, for every table,   *)
(* page size, filter and roles, and every interleaving of the queries with  *)
(* the changes of the table.                                                *)
(***************************************************************************)
EXTENDS Listings, TLAPS, FiniteSetTheorems, SequenceTheorems, WellFoundedInduction

\* A set of naturals that is not empty has a least element.
LEMMA LeastElement ==
  ASSUME NEW S \in SUBSET Nat, S # {}
  PROVE  \E m \in S : \A k \in S : m <= k
<1> DEFINE R == {ss \in Nat \X Nat : ss[1] < ss[2]}
<1>1. IsWellFoundedOn(R, Nat)
  BY NatLessThanWellFounded, Zenon DEF OpToRel
<1>2. PICK m \in S : \A k \in S : ~(<<k, m>> \in R)
  <2> HIDE DEF R
  <2> QED BY <1>1, WFMin
<1>3. \A k \in S : ~(k < m)
  BY <1>2
<1> QED BY <1>3

-----------------------------------------------------------------------------
(* The shape of the table and of the page. *)

AllPlaces == {{}} \cup Spans \cup {{h} : h \in Halls}
AllMarks  == {"DRAFT", "SUBMITTED", "TRANSFER", "ADJUSTMENT", "ACTIVE", "INACTIVE", "ROW"}
ListRow   == [id : Nat, places : AllPlaces, mark : AllMarks, mine : BOOLEAN]
Total     == Nat \cup {-1}
PageQuery == [pc : {"asked", "reading"}, page : Nat, scope : SUBSET (Halls \cup Nat),
              got : SUBSET {"rows", "total"}, rows : SUBSET Nat, total : Total]

\* Rows have ids of their own, given in the order in which they came.
ListTable ==
  /\ book \in Books
  /\ born \in Nat /\ born <= MaxListed /\ changes \in Nat /\ changes <= MaxChanges
  /\ listing \in Seq(ListRow)
  /\ \A k \in 1..Len(listing) : listing[k].id >= 1 /\ listing[k].id <= born
  /\ \A j, k \in 1..Len(listing) : listing[j].id = listing[k].id => j = k
  /\ reader \in [admin : BOOLEAN, at : SUBSET Halls]

ListPage ==
  /\ applied \in Filters /\ limit \in Limits
  /\ leaf \in [rows : SUBSET Nat, total : Total, page : Nat]
  /\ request \in PageQuery \cup {NoRequest}
  /\ reading \in [base : SUBSET (1..MaxListed), seen : SUBSET Nat, moved : Nat, steady : BOOLEAN]

-----------------------------------------------------------------------------
(* Rows that come, go and move. *)

\* "t" is "s" with "e" put in at "i".
Inserts(s, i, e, t) ==
  /\ Len(t) = Len(s) + 1 /\ t[i] = e
  /\ \A k \in 1..Len(t) : (k < i => t[k] = s[k]) /\ (k > i => t[k] = s[k - 1])

\* Lemma: a row inserted into a list moves those after it up by one.
LEMMA Inserted ==
  ASSUME NEW S, NEW s \in Seq(S), NEW i \in 1..Len(s) + 1, NEW e \in S,
         NEW t, t = InsertAt(s, i, e)
  PROVE  t \in Seq(S) /\ Inserts(s, i, e, t)
<1> DEFINE n == Len(s)
           a == SubSeq(s, 1, i - 1)
           b == SubSeq(s, i, n)
<1>1. n \in Nat /\ i \in Nat /\ 1 <= i /\ i <= n + 1
  BY LenProperties
<1>2. \A k \in 1..n : s[k] \in S
  BY ElementOfSeq
<1>3. /\ a \in Seq(S) /\ Len(a) = i - 1
      /\ \A k \in 1..i - 1 : a[k] = s[k]
  <2>1. \A k \in 1..i - 1 : s[k] \in S
    BY <1>1, <1>2
  <2>2. 1 \in Int /\ i - 1 \in Int
    BY <1>1
  <2>3. /\ SubSeq(s, 1, i - 1) \in Seq(S)
        /\ Len(SubSeq(s, 1, i - 1)) = IF 1 <= i - 1 THEN i - 1 - 1 + 1 ELSE 0
        /\ \A k \in 1 .. i - 1 - 1 + 1 : SubSeq(s, 1, i - 1)[k] = s[1 + k - 1]
    BY <2>1, <2>2, SubSeqProperties
  <2>4. \A k \in 1..i - 1 : 1 + k - 1 = k /\ k \in 1 .. i - 1 - 1 + 1
    BY <1>1
  <2>5. Len(a) = i - 1
    BY <1>1, <2>3
  <2> QED BY <2>3, <2>4, <2>5
<1>4. /\ b \in Seq(S) /\ Len(b) = n - i + 1
      /\ \A k \in 1..n - i + 1 : b[k] = s[i + k - 1]
  <2>1. \A k \in i..n : s[k] \in S
    BY <1>1, <1>2
  <2>2. /\ SubSeq(s, i, n) \in Seq(S)
        /\ Len(SubSeq(s, i, n)) = IF i <= n THEN n - i + 1 ELSE 0
        /\ \A k \in 1 .. n - i + 1 : SubSeq(s, i, n)[k] = s[i + k - 1]
    BY <1>1, <2>1, SubSeqProperties
  <2> QED BY <1>1, <2>2
<1> HIDE DEF a, b, n
<1>5. <<e>> \in Seq(S) /\ Len(<<e>>) = 1 /\ <<e>>[1] = e
  OBVIOUS
<1>6. PICK c : c = a \o <<e>>
  OBVIOUS
<1>7. /\ c \in Seq(S) /\ Len(c) = i
      /\ \A k \in 1..i : c[k] = IF k <= i - 1 THEN a[k] ELSE e
  <2>1. /\ c \in Seq(S) /\ Len(c) = Len(a) + Len(<<e>>)
        /\ \A k \in 1 .. Len(a) + Len(<<e>>) : c[k] = IF k <= Len(a) THEN a[k] ELSE <<e>>[k - Len(a)]
    BY <1>3, <1>5, <1>6, ConcatProperties
  <2> QED BY <1>1, <1>3, <1>5, <2>1
<1>8. t = c \o b
  BY <1>6 DEF InsertAt, a, b, n
<1>9. /\ t \in Seq(S) /\ Len(t) = Len(c) + Len(b)
      /\ \A k \in 1 .. Len(c) + Len(b) : t[k] = IF k <= Len(c) THEN c[k] ELSE b[k - Len(c)]
  <2>1. c \in Seq(S) /\ b \in Seq(S)
    BY <1>4, <1>7
  <2>2. /\ c \o b \in Seq(S) /\ Len(c \o b) = Len(c) + Len(b)
        /\ \A k \in 1 .. Len(c) + Len(b) : (c \o b)[k] = IF k <= Len(c) THEN c[k] ELSE b[k - Len(c)]
    BY <2>1, ConcatProperties
  <2> QED BY <2>2, <1>8
<1>10. Len(t) = n + 1
  BY <1>1, <1>4, <1>7, <1>9
<1>11. ASSUME NEW k \in 1..Len(t)
       PROVE  (k < i => t[k] = s[k]) /\ (k > i => t[k] = s[k - 1])
  <2>1. CASE k < i
    BY <1>1, <1>3, <1>7, <1>9, <1>10, <2>1
  <2>2. CASE k = i
    BY <2>2, <1>1
  <2>3. CASE k > i
    <3>1. k - i \in 1..n - i + 1 /\ i + (k - i) - 1 = k - 1
      BY <1>1, <1>10, <2>3
    <3>2. t[k] = b[k - i]
      BY <1>1, <1>4, <1>7, <1>9, <1>10, <2>3
    <3> QED BY <1>1, <1>4, <2>3, <3>1, <3>2
  <2> QED BY <1>1, <2>1, <2>2, <2>3
<1>12. t[i] = e
  <2>1. i \in 1..Len(t) /\ i \in 1..i /\ ~(i <= i - 1) /\ i <= i
    BY <1>1, <1>10
  <2> QED BY <1>1, <1>4, <1>7, <1>9, <1>10, <2>1
<1> QED BY <1>9, <1>10, <1>11, <1>12 DEF n, Inserts

\* Lemma: a row removed from a list moves those after it down by one.
LEMMA Removed ==
  ASSUME NEW S, NEW s \in Seq(S), NEW i \in 1..Len(s), NEW t, t = RemoveAt(s, i)
  PROVE  /\ t \in Seq(S) /\ Len(t) = Len(s) - 1
         /\ \A k \in 1..Len(t) : t[k] = IF k < i THEN s[k] ELSE s[k + 1]
<1> DEFINE n == Len(s)
           a == SubSeq(s, 1, i - 1)
           b == SubSeq(s, i + 1, n)
<1>1. n \in Nat /\ i \in Nat /\ 1 <= i /\ i <= n
  BY LenProperties
<1>2. \A k \in 1..n : s[k] \in S
  BY ElementOfSeq
<1>3. /\ a \in Seq(S) /\ Len(a) = i - 1
      /\ \A k \in 1..i - 1 : a[k] = s[k]
  <2>1. \A k \in 1..i - 1 : s[k] \in S
    BY <1>1, <1>2
  <2>2. 1 \in Int /\ i - 1 \in Int
    BY <1>1
  <2>3. /\ SubSeq(s, 1, i - 1) \in Seq(S)
        /\ Len(SubSeq(s, 1, i - 1)) = IF 1 <= i - 1 THEN i - 1 - 1 + 1 ELSE 0
        /\ \A k \in 1 .. i - 1 - 1 + 1 : SubSeq(s, 1, i - 1)[k] = s[1 + k - 1]
    BY <2>1, <2>2, SubSeqProperties
  <2>4. \A k \in 1..i - 1 : 1 + k - 1 = k /\ k \in 1 .. i - 1 - 1 + 1
    BY <1>1
  <2>5. Len(a) = i - 1
    BY <1>1, <2>3
  <2> QED BY <2>3, <2>4, <2>5
<1>4. /\ b \in Seq(S) /\ Len(b) = n - i
      /\ \A k \in 1..n - i : b[k] = s[i + k]
  <2>1. \A k \in i + 1..n : s[k] \in S
    BY <1>1, <1>2
  <2>2. i + 1 \in Int
    BY <1>1
  <2>3. /\ SubSeq(s, i + 1, n) \in Seq(S)
        /\ Len(SubSeq(s, i + 1, n)) = IF i + 1 <= n THEN n - (i + 1) + 1 ELSE 0
        /\ \A k \in 1 .. n - (i + 1) + 1 : SubSeq(s, i + 1, n)[k] = s[i + 1 + k - 1]
    BY <1>1, <2>1, <2>2, SubSeqProperties
  <2>4. \A k \in 1..n - i : i + 1 + k - 1 = i + k /\ k \in 1 .. n - (i + 1) + 1
    BY <1>1
  <2>5. Len(b) = n - i
    BY <1>1, <2>3
  <2> QED BY <2>3, <2>4, <2>5
<1>5. t = a \o b
  BY DEF RemoveAt
<1> HIDE DEF a, b
<1>6. /\ t \in Seq(S) /\ Len(t) = Len(a) + Len(b)
      /\ \A k \in 1 .. Len(a) + Len(b) : t[k] = IF k <= Len(a) THEN a[k] ELSE b[k - Len(a)]
  <2>1. a \in Seq(S) /\ b \in Seq(S)
    BY <1>3, <1>4
  <2>2. /\ a \o b \in Seq(S) /\ Len(a \o b) = Len(a) + Len(b)
        /\ \A k \in 1 .. Len(a) + Len(b) : (a \o b)[k] = IF k <= Len(a) THEN a[k] ELSE b[k - Len(a)]
    BY <2>1, ConcatProperties
  <2> QED BY <2>2, <1>5
<1> HIDE DEF n
<1>7. Len(t) = n - 1
  BY <1>1, <1>3, <1>4, <1>6
<1>8. ASSUME NEW k \in 1..Len(t)
      PROVE  t[k] = IF k < i THEN s[k] ELSE s[k + 1]
  <2>1. CASE k < i
    BY <1>1, <1>3, <1>4, <1>6, <1>7, <2>1
  <2>2. CASE ~(k < i)
    <3>1. k - (i - 1) \in 1..n - i /\ i + (k - (i - 1)) = k + 1
      BY <1>1, <1>7, <2>2
    <3>2. t[k] = b[k - (i - 1)]
      BY <1>1, <1>3, <1>4, <1>6, <1>7, <2>2
    <3> QED BY <1>4, <2>2, <3>1, <3>2
  <2> QED BY <2>1, <2>2
<1> QED BY <1>6, <1>7, <1>8 DEF n

\* "t" is "s" with what stands at "gone" taken out and what stands at "come" put in; the
\* other rows keep their order, "to" being where they go.
Shifts(s, t, gone, come, to) ==
  /\ gone \subseteq 1..Len(s) /\ come \subseteq 1..Len(t)
  /\ to \in [(1..Len(s)) \ gone -> (1..Len(t)) \ come]
  /\ \A j, k \in (1..Len(s)) \ gone : j < k => to[j] < to[k]
  /\ \A m \in (1..Len(t)) \ come : \E k \in (1..Len(s)) \ gone : to[k] = m
  /\ \A k \in (1..Len(s)) \ gone : t[to[k]] = s[k]

Holds(t, i, e) == i \in 1..Len(t) /\ t[i] = e

\* Lemma: how an insertion shifts the rows.
LEMMA InsertionShifts ==
  ASSUME NEW S, NEW s \in Seq(S), NEW i \in 1..Len(s) + 1, NEW e \in S,
         NEW t, t = InsertAt(s, i, e)
  PROVE  t \in Seq(S) /\ Inserts(s, i, e, t) /\ \E to : Shifts(s, t, {}, {i}, to)
<1>1. /\ t \in Seq(S) /\ Len(t) = Len(s) + 1
      /\ t[i] = e
      /\ \A k \in 1..Len(t) : (k < i => t[k] = s[k]) /\ (k > i => t[k] = s[k - 1])
  <2>1. t \in Seq(S) /\ Inserts(s, i, e, t)
    BY Inserted
  <2> QED BY <2>1 DEF Inserts
<1>2. Len(s) \in Nat /\ i \in Nat /\ i <= Len(s) + 1 /\ 1 <= i
  BY LenProperties
<1> DEFINE n == Len(s)
           to == [k \in 1..n |-> IF k < i THEN k ELSE k + 1]
<1>3. \A k \in 1..n : to[k] = IF k < i THEN k ELSE k + 1
  OBVIOUS
<1>4. to \in [1..n -> (1..n + 1) \ {i}]
  BY <1>2
<1> HIDE DEF to
<1>5. \A j, k \in 1..n : j < k => to[j] < to[k]
  BY <1>2, <1>3
<1>6. ASSUME NEW m \in (1..n + 1) \ {i}
      PROVE  \E k \in 1..n : to[k] = m
  <2>1. CASE m < i
    BY <1>2, <1>3, <2>1
  <2>2. CASE m > i
    <3>1. m - 1 \in 1..n /\ ~(m - 1 < i) /\ m - 1 + 1 = m
      BY <1>2, <2>2
    <3> QED BY <1>3, <3>1
  <2> QED BY <1>2, <2>1, <2>2
<1>7. ASSUME NEW k \in 1..n
      PROVE  t[to[k]] = s[k]
  <2>1. to[k] \in 1..n + 1 /\ k \in Nat
    BY <1>4
  <2>2. CASE k < i
    BY <1>1, <1>2, <1>3, <2>1, <2>2
  <2>3. CASE ~(k < i)
    <3>1. to[k] = k + 1 /\ ~(k + 1 < i) /\ k + 1 # i /\ k + 1 - 1 = k
      BY <1>2, <1>3, <2>1, <2>3
    <3> QED BY <1>1, <2>1, <3>1
  <2> QED BY <2>2, <2>3
<1>8. Shifts(s, t, {}, {i}, to)
  <2>1. (1..Len(s)) \ {} = 1..n /\ (1..Len(t)) \ {i} = (1..n + 1) \ {i}
    BY <1>1
  <2>2. {i} \subseteq 1..Len(t)
    BY <1>1, <1>2
  <2> HIDE DEF n
  <2> QED BY <1>4, <1>5, <1>6, <1>7, <2>1, <2>2 DEF Shifts
<1> QED BY <1>1, <1>8, Inserted

\* Lemma: how a removal shifts the rows.
LEMMA RemovalShifts ==
  ASSUME NEW S, NEW s \in Seq(S), NEW i \in 1..Len(s), NEW t, t = RemoveAt(s, i)
  PROVE  t \in Seq(S) /\ Len(t) = Len(s) - 1 /\ \E to : Shifts(s, t, {i}, {}, to)
<1>1. /\ t \in Seq(S) /\ Len(t) = Len(s) - 1
      /\ \A k \in 1..Len(t) : t[k] = IF k < i THEN s[k] ELSE s[k + 1]
  BY Removed
<1>2. Len(s) \in Nat /\ i \in Nat /\ i <= Len(s) /\ 1 <= i
  BY LenProperties
<1> DEFINE n == Len(s)
           to == [k \in (1..n) \ {i} |-> IF k < i THEN k ELSE k - 1]
<1>3. \A k \in (1..n) \ {i} : to[k] = IF k < i THEN k ELSE k - 1
  OBVIOUS
<1>4. to \in [(1..n) \ {i} -> 1..n - 1]
  BY <1>2
<1> HIDE DEF to
<1>5. \A j, k \in (1..n) \ {i} : j < k => to[j] < to[k]
  BY <1>2, <1>3
<1>6. ASSUME NEW m \in 1..n - 1
      PROVE  \E k \in (1..n) \ {i} : to[k] = m
  <2>1. CASE m < i
    BY <1>2, <1>3, <2>1
  <2>2. CASE ~(m < i)
    <3>1. m + 1 \in (1..n) \ {i} /\ ~(m + 1 < i) /\ m + 1 - 1 = m
      BY <1>2, <2>2
    <3> QED BY <1>3, <3>1
  <2> QED BY <2>1, <2>2
<1>7. ASSUME NEW k \in (1..n) \ {i}
      PROVE  t[to[k]] = s[k]
  <2>1. to[k] \in 1..n - 1 /\ k \in Nat
    BY <1>4
  <2>2. CASE k < i
    BY <1>1, <1>2, <1>3, <2>1, <2>2
  <2>3. CASE ~(k < i)
    <3>1. to[k] = k - 1 /\ ~(k - 1 < i) /\ k - 1 + 1 = k
      BY <1>2, <1>3, <2>1, <2>3
    <3> QED BY <1>1, <2>1, <3>1
  <2> QED BY <2>2, <2>3
<1>8. Shifts(s, t, {i}, {}, to)
  <2>1. (1..Len(t)) \ {} = 1..n - 1
    BY <1>1
  <2>2. {i} \subseteq 1..n
    OBVIOUS
  <2> HIDE DEF n
  <2>3. n = Len(s)
    BY DEF n
  <2> QED BY <1>4, <1>5, <1>6, <1>7, <2>1, <2>2, <2>3 DEF Shifts
<1> QED BY <1>1, <1>8

Stays(s, t, i) ==
  \E to : Shifts(s, t, {i}, {i}, to) /\ \A k \in (1..Len(s)) \ {i} : to[k] = k

\* Lemma: a row edited stays where it is.
LEMMA EditShifts ==
  ASSUME NEW S, NEW s \in Seq(S), NEW t \in Seq(S), NEW i \in 1..Len(s),
         Len(t) = Len(s), \A k \in (1..Len(s)) \ {i} : t[k] = s[k]
  PROVE  Stays(s, t, i)
<1>1. Len(s) \in Nat
  BY LenProperties
<1> DEFINE to == [k \in (1..Len(s)) \ {i} |-> k]
<1>2. Shifts(s, t, {i}, {i}, to)
  BY <1>1 DEF Shifts
<1> QED BY <1>2 DEF Stays

\* Lemma: a row that takes another place is taken out and put in there.
LEMMA MoveShifts ==
  ASSUME NEW S, NEW s \in Seq(S), NEW i \in 1..Len(s), NEW j \in 1..Len(s),
         NEW t, t = InsertAt(RemoveAt(s, i), j, s[i])
  PROVE  t \in Seq(S) /\ Holds(t, j, s[i]) /\ \E to : Shifts(s, t, {i}, {j}, to)
<1>1. PICK u : u = RemoveAt(s, i)
  OBVIOUS
<1>2. u \in Seq(S) /\ Len(u) = Len(s) - 1 /\ \E to : Shifts(s, u, {i}, {}, to)
  BY <1>1, RemovalShifts
<1>3. s[i] \in S /\ Len(s) \in Nat
  BY ElementOfSeq, LenProperties
<1>4. j \in 1..Len(u) + 1
  BY <1>2, <1>3
<1>5. t \in Seq(S) /\ j \in 1..Len(t) /\ t[j] = s[i] /\ \E to : Shifts(u, t, {}, {j}, to)
  <2>1. t = InsertAt(u, j, s[i])
    BY <1>1
  <2>2. t \in Seq(S) /\ Inserts(u, j, s[i], t) /\ \E to : Shifts(u, t, {}, {j}, to)
    BY <1>2, <1>3, <1>4, <2>1, InsertionShifts
  <2> QED BY <1>2, <1>3, <1>4, <2>2 DEF Inserts
<1>6. PICK f : Shifts(s, u, {i}, {}, f)
  BY <1>2
<1>7. PICK g : Shifts(u, t, {}, {j}, g)
  BY <1>5
<1> DEFINE D == (1..Len(s)) \ {i}
           to == [k \in D |-> g[f[k]]]
<1>8. /\ f \in [D -> 1..Len(u)] /\ \A k \in D : u[f[k]] = s[k]
      /\ \A a, b \in D : a < b => f[a] < f[b]
      /\ \A m \in 1..Len(u) : \E k \in D : f[k] = m
  <2>1. (1..Len(u)) \ {} = 1..Len(u)
    OBVIOUS
  <2> QED BY <1>6, <2>1 DEF Shifts
<1>9. /\ g \in [1..Len(u) -> (1..Len(t)) \ {j}] /\ \A k \in 1..Len(u) : t[g[k]] = u[k]
      /\ \A a, b \in 1..Len(u) : a < b => g[a] < g[b]
      /\ \A m \in (1..Len(t)) \ {j} : \E k \in 1..Len(u) : g[k] = m
  <2>1. (1..Len(u)) \ {} = 1..Len(u)
    OBVIOUS
  <2> QED BY <1>7, <2>1 DEF Shifts
<1>10. \A k \in D : to[k] = g[f[k]] /\ f[k] \in 1..Len(u)
  BY <1>8
<1>11. to \in [D -> (1..Len(t)) \ {j}]
  BY <1>8, <1>9
<1> HIDE DEF to
<1>12. \A k \in D : t[to[k]] = s[k]
  BY <1>8, <1>9, <1>10
<1>13. \A a, b \in D : a < b => to[a] < to[b]
  BY <1>8, <1>9, <1>10
<1>14. \A m \in (1..Len(t)) \ {j} : \E k \in D : to[k] = m
  <2> TAKE m \in (1..Len(t)) \ {j}
  <2>1. PICK l \in 1..Len(u) : g[l] = m
    BY <1>9
  <2>2. PICK k \in D : f[k] = l
    BY <1>8
  <2> QED BY <1>10, <2>1, <2>2
<1>15. Shifts(s, t, {i}, {j}, to)
  BY <1>5, <1>11, <1>12, <1>13, <1>14 DEF Shifts
<1> QED BY <1>5, <1>15 DEF Holds

\* Lemma: shifted rows keep their ids; what comes in has an id of its own.
LEMMA TableKept ==
  ASSUME ListTable, listing' \in Seq(ListRow), UNCHANGED <<book, reader>>,
         NEW gone, NEW come, NEW to, Shifts(listing, listing', gone, come, to),
         born' \in Nat, born <= born', born' <= MaxListed, changes' \in Nat, changes' <= MaxChanges,
         \A l, m \in come : l = m,
         \A m \in come : /\ listing'[m].id >= 1 /\ listing'[m].id <= born'
                         /\ \A k \in (1..Len(listing)) \ gone : listing[k].id # listing'[m].id
  PROVE  ListTable'
<1> DEFINE D == (1..Len(listing)) \ gone
           E == (1..Len(listing')) \ come
<1>1. /\ to \in [D -> E] /\ \A k \in D : listing'[to[k]] = listing[k]
      /\ \A m \in E : \E k \in D : to[k] = m
  BY DEF Shifts
<1>2. ASSUME NEW m \in E
      PROVE  \E k \in D : to[k] = m /\ listing'[m] = listing[k]
  BY <1>1
<1>3. ASSUME NEW k \in D
      PROVE  listing[k] \in ListRow /\ listing[k].id >= 1 /\ listing[k].id <= born
  BY ElementOfSeq DEF ListTable
<1>4. \A k \in 1..Len(listing') : listing'[k].id >= 1 /\ listing'[k].id <= born'
  <2> TAKE k \in 1..Len(listing')
  <2>1. CASE k \in come
    BY <2>1
  <2>2. CASE k \in E
    <3>1. PICK l \in D : listing'[k] = listing[l]
      BY <1>2, <2>2
    <3>2. listing[l].id \in Nat /\ listing[l].id >= 1 /\ listing[l].id <= born
      BY <1>3 DEF ListRow
    <3> QED BY <3>1, <3>2 DEF ListTable
  <2> QED BY <2>1, <2>2
<1>5. \A j, k \in 1..Len(listing') : listing'[j].id = listing'[k].id => j = k
  <2> SUFFICES ASSUME NEW j \in 1..Len(listing'), NEW k \in 1..Len(listing'),
                      listing'[j].id = listing'[k].id
               PROVE  j = k
    OBVIOUS
  <2>1. CASE j \in come /\ k \in come
    BY <2>1
  <2>2. CASE j \in E /\ k \in E
    <3>1. PICK l \in D : to[l] = j /\ listing'[j] = listing[l]
      BY <1>2, <2>2
    <3>2. PICK m \in D : to[m] = k /\ listing'[k] = listing[m]
      BY <1>2, <2>2
    <3>3. l = m
      BY <3>1, <3>2 DEF ListTable
    <3> QED BY <3>1, <3>2, <3>3
  <2>3. CASE j \in come /\ k \in E
    BY <1>2, <2>3
  <2>4. CASE j \in E /\ k \in come
    BY <1>2, <2>4
  <2> QED BY <2>1, <2>2, <2>3, <2>4
<1> QED BY <1>4, <1>5 DEF ListTable

\* One row comes, goes, or is put in where one was taken out.  A request whose log is edited
\* stays where it is.
Swaps(gone, come, to) ==
  /\ Shifts(listing, listing', gone, come, to)
  /\ \/ \E m : gone = {} /\ come = {m} /\ listing'[m].id = born + 1 /\ born' = born + 1
     \/ \E x : gone = {x} /\ come = {} /\ born' = born /\ book # "audit"
     \/ \E x, m : /\ gone = {x} /\ come = {m} /\ listing'[m].id = listing[x].id /\ born' = born
                  /\ book = "audit" => /\ m = x /\ listing'[m].mark = listing[x].mark
                                       /\ \A k \in (1..Len(listing)) \ {x} : to[k] = k

\* Lemma: a change of the tables replaces the reader's roles or swaps one row.
LEMMA ChangeSwaps ==
  ASSUME ListTable, Change
  PROVE  /\ changes' \in Nat /\ changes' <= MaxChanges
         /\ \/ /\ reader' # reader /\ reader' \in [admin : BOOLEAN, at : SUBSET Halls]
               /\ UNCHANGED <<listing, born>>
            \/ /\ UNCHANGED reader /\ listing' \in Seq(ListRow) /\ born' <= MaxListed
               /\ \E gone, come, to : Swaps(gone, come, to)
<1> DEFINE Swapped == /\ UNCHANGED reader /\ listing' \in Seq(ListRow) /\ born' <= MaxListed
                      /\ \E gone, come, to : Swaps(gone, come, to)
<1>0. /\ listing \in Seq(ListRow) /\ Len(listing) \in Nat /\ DOMAIN listing = 1..Len(listing)
      /\ born \in Nat /\ born <= MaxListed
  BY LenProperties DEF ListTable
<1>1. changes' \in Nat /\ changes' <= MaxChanges
  BY ListingsAssumption DEF Change, ListTable
<1>2. {} \in AllPlaces /\ PlacesOf \subseteq AllPlaces /\ Marks \subseteq AllMarks
  BY DEF PlacesOf, AllPlaces, Marks, AllMarks
<1>3. ASSUME NEW places \in PlacesOf, NEW mark \in Marks, NEW mine \in BOOLEAN,
             Insertion(places, mark, mine)
      PROVE  Swapped
  <2>1. PICK e : e = Newborn(places, mark, mine)
    OBVIOUS
  <2>2. e \in ListRow /\ e.id = born + 1
    BY <1>0, <1>2, <2>1 DEF Newborn, ListRow
  <2>3. PICK k \in Slots : listing' = InsertAt(listing, k, e)
    BY <1>3, <2>1 DEF Insertion
  <2>4. k \in 1..Len(listing) + 1
    BY <1>0 DEF Slots
  <2>5. /\ listing' \in Seq(ListRow) /\ Inserts(listing, k, e, listing')
        /\ \E to : Shifts(listing, listing', {}, {k}, to)
    BY <1>0, <2>2, <2>3, <2>4, InsertionShifts
  <2>6. PICK to : Shifts(listing, listing', {}, {k}, to)
    BY <2>5
  <2>7. listing'[k].id = born + 1 /\ born' = born + 1 /\ UNCHANGED reader
    BY <1>3, <2>2, <2>5 DEF Inserts, Insertion
  <2>8. Swaps({}, {k}, to)
    BY <2>6, <2>7 DEF Swaps
  <2>9. born' <= MaxListed
    BY <1>0, <1>3, ListingsAssumption DEF Insertion
  <2> QED BY <2>5, <2>7, <2>8, <2>9
<1>4. ASSUME NEW x \in 1..Len(listing), NEW e \in ListRow, e.id = listing[x].id,
             listing' = [listing EXCEPT ![x] = e], UNCHANGED <<born, reader>>,
             book = "audit" => e.mark = listing[x].mark
      PROVE  Swapped
  <2>1. /\ listing' \in Seq(ListRow) /\ Holds(listing', x, e)
        /\ \E to : Shifts(listing, listing', {x}, {x}, to) /\ \A k \in (1..Len(listing)) \ {x} : to[k] = k
    <3>1. /\ listing' \in Seq(ListRow) /\ Len(listing') = Len(listing)
          /\ \A k \in 1..Len(listing) : listing'[k] = IF k = x THEN e ELSE listing[k]
      BY <1>0, <1>4, ExceptSeq
    <3>2. Holds(listing', x, e)
      BY <3>1 DEF Holds
    <3>3. \A k \in (1..Len(listing)) \ {x} : listing'[k] = listing[k]
      BY <3>1
    <3>4. Stays(listing, listing', x)
      BY <1>0, <3>1, <3>3, EditShifts
    <3> QED BY <3>1, <3>2, <3>4 DEF Stays
  <2>2. PICK to : Shifts(listing, listing', {x}, {x}, to) /\ \A k \in (1..Len(listing)) \ {x} : to[k] = k
    BY <2>1
  <2>3. Swaps({x}, {x}, to)
    BY <1>4, <2>1, <2>2 DEF Swaps, Holds
  <2> QED BY <1>0, <1>4, <2>1, <2>3
<1>5. ASSUME NEW x \in 1..Len(listing), NEW mark \in Marks, Remark(x, mark)
      PROVE  Swapped
  <2>1. PICK e : e = [listing[x] EXCEPT !.mark = mark]
    OBVIOUS
  <2>2. listing[x] \in ListRow
    BY <1>0, ElementOfSeq
  <2>3. e \in ListRow /\ e.id = listing[x].id
    BY <1>2, <2>1, <2>2 DEF ListRow
  <2>4. listing' = [listing EXCEPT ![x] = e] /\ UNCHANGED <<born, reader>> /\ book # "audit"
    BY <1>5, <2>1 DEF Remark
  <2> QED BY <1>4, <2>3, <2>4
<1>6. ASSUME NEW x \in 1..Len(listing), NEW places \in {{}} \cup PlacesOf, Replace(x, places)
      PROVE  Swapped
  <2>1. PICK e : e = [listing[x] EXCEPT !.places = places]
    OBVIOUS
  <2>2. listing[x] \in ListRow
    BY <1>0, ElementOfSeq
  <2>3. e \in ListRow /\ e.id = listing[x].id /\ e.mark = listing[x].mark
    BY <1>2, <2>1, <2>2 DEF ListRow
  <2>4. listing' = [listing EXCEPT ![x] = e] /\ UNCHANGED <<born, reader>>
    BY <1>6, <2>1 DEF Replace
  <2> QED BY <1>4, <2>3, <2>4
<1>7. ASSUME NEW x \in 1..Len(listing), Removal(x)
      PROVE  Swapped
  <2>1. listing' = RemoveAt(listing, x) /\ UNCHANGED <<born, reader>> /\ book # "audit"
    BY <1>7 DEF Removal
  <2>2. /\ listing' \in Seq(ListRow) /\ Len(listing') = Len(listing) - 1
        /\ \E to : Shifts(listing, listing', {x}, {}, to)
    BY <1>0, <2>1, RemovalShifts
  <2>3. PICK to : Shifts(listing, listing', {x}, {}, to)
    BY <2>2
  <2>4. Swaps({x}, {}, to)
    BY <2>1, <2>3 DEF Swaps
  <2> QED BY <1>0, <2>1, <2>2, <2>4
<1>8. ASSUME NEW x \in 1..Len(listing), NEW j \in 1..Len(listing), Reorder(x, j)
      PROVE  Swapped
  <2>1. /\ listing' = InsertAt(RemoveAt(listing, x), j, listing[x])
        /\ UNCHANGED <<born, reader>> /\ book # "audit"
    BY <1>8 DEF Reorder
  <2>2. /\ listing' \in Seq(ListRow) /\ Holds(listing', j, listing[x])
        /\ \E to : Shifts(listing, listing', {x}, {j}, to)
    BY <1>0, <2>1, MoveShifts
  <2>3. PICK to : Shifts(listing, listing', {x}, {j}, to)
    BY <2>2
  <2>4. Swaps({x}, {j}, to)
    BY <2>1, <2>2, <2>3 DEF Swaps, Holds
  <2> QED BY <1>0, <2>1, <2>2, <2>4
<1>9. ASSUME NEW halls \in RolesGiven, Reassign(halls)
      PROVE  /\ reader' # reader /\ reader' \in [admin : BOOLEAN, at : SUBSET Halls]
             /\ UNCHANGED <<listing, born>>
  <2>1. reader \in [admin : BOOLEAN, at : SUBSET Halls] /\ halls \subseteq Halls
    BY ListingsAssumption DEF ListTable
  <2>2. reader' = [reader EXCEPT !.at = halls] /\ halls # reader.at /\ UNCHANGED <<listing, born>>
    BY <1>9 DEF Reassign
  <2>3. reader'.at = halls /\ reader' \in [admin : BOOLEAN, at : SUBSET Halls]
    BY <2>1, <2>2
  <2> QED BY <2>2, <2>3
<1> HIDE DEF Swapped
<1>10. Swapped \/ \E halls \in RolesGiven : Reassign(halls)
  BY <1>0, <1>3, <1>5, <1>6, <1>7, <1>8 DEF Change
<1> QED BY <1>1, <1>9, <1>10 DEF Swapped

\* Lemma: a change of the tables keeps the ids of the rows apart.
LEMMA ChangeKeepsTable ==
  ASSUME ListTable, Change
  PROVE  ListTable'
<1>1. /\ changes' \in Nat /\ changes' <= MaxChanges /\ book' = book
      /\ \/ /\ reader' # reader /\ reader' \in [admin : BOOLEAN, at : SUBSET Halls]
            /\ UNCHANGED <<listing, born>>
         \/ /\ UNCHANGED reader /\ listing' \in Seq(ListRow) /\ born' <= MaxListed
            /\ \E gone, come, to : Swaps(gone, come, to)
  BY ChangeSwaps DEF Change
<1>2. CASE UNCHANGED <<listing, born>> /\ reader' \in [admin : BOOLEAN, at : SUBSET Halls]
  BY <1>1, <1>2 DEF ListTable
<1>3. ASSUME UNCHANGED reader, listing' \in Seq(ListRow), born' <= MaxListed,
             NEW gone, NEW come, NEW to, Swaps(gone, come, to)
      PROVE  ListTable'
  <2>1. Shifts(listing, listing', gone, come, to)
    BY <1>3 DEF Swaps
  <2>2. \A l, m \in come : l = m
    BY <1>3 DEF Swaps
  <2>3. born \in Nat /\ born' \in Nat /\ born <= born'
    BY <1>3 DEF Swaps, ListTable
  <2>4. \A k \in 1..Len(listing) : listing[k].id >= 1 /\ listing[k].id <= born
    BY DEF ListTable
  <2>5. \A k \in 1..Len(listing) : listing[k].id \in Nat
    <3> TAKE k \in 1..Len(listing)
    <3>1. listing[k] \in ListRow
      BY ElementOfSeq DEF ListTable
    <3> QED BY <3>1 DEF ListRow
  <2>6. ASSUME NEW m \in come
        PROVE  /\ listing'[m].id >= 1 /\ listing'[m].id <= born'
               /\ \A k \in (1..Len(listing)) \ gone : listing[k].id # listing'[m].id
    <3>1. CASE listing'[m].id = born + 1 /\ born' = born + 1
      BY <2>3, <2>4, <2>5, <3>1
    <3>2. ASSUME NEW x, gone = {x}, listing'[m].id = listing[x].id
          PROVE  /\ listing'[m].id >= 1 /\ listing'[m].id <= born'
                 /\ \A k \in (1..Len(listing)) \ gone : listing[k].id # listing'[m].id
      <4>1. x \in 1..Len(listing)
        BY <2>1, <3>2 DEF Shifts
      <4>2. \A k \in (1..Len(listing)) \ gone : listing[k].id # listing[x].id
        BY <3>2, <4>1 DEF ListTable
      <4> QED BY <2>3, <2>4, <2>5, <3>2, <4>1, <4>2
    <3> QED BY <1>3, <3>1, <3>2 DEF Swaps
  <2> QED BY <1>1, <1>3, <2>1, <2>2, <2>3, <2>6, TableKept
<1> QED BY <1>1, <1>2, <1>3

-----------------------------------------------------------------------------
(* The shape is kept. *)

ListInv == ListTable /\ ListPage

\* Lemma: the rows a query finds are finitely many rows of the table.
LEMMA RowsFound ==
  ASSUME ListTable, NEW R \in SUBSET (1..Len(listing))
  PROVE  /\ IsFiniteSet(R) /\ Cardinality(R) \in Nat /\ R \subseteq Nat \ {0}
         /\ IsFiniteSet(IdsOf(R)) /\ IdsOf(R) \subseteq 1..born /\ IdsOf(R) \subseteq 1..MaxListed
<1>1. Len(listing) \in Nat
  BY LenProperties DEF ListTable
<1>2. IsFiniteSet(R) /\ Cardinality(R) \in Nat
  <2>1. IsFiniteSet(1..Len(listing))
    BY <1>1, FS_Interval
  <2>2. IsFiniteSet(R)
    BY <2>1, FS_Subset
  <2> QED BY <2>2, FS_CardinalityType
<1>3. IdsOf(R) \subseteq 1..born
  <2>1. ASSUME NEW k \in 1..Len(listing)
        PROVE  listing[k].id \in 1..born
    <3>1. listing[k] \in ListRow
      BY ElementOfSeq DEF ListTable
    <3> QED BY <3>1 DEF ListRow, ListTable
  <2> QED BY <2>1 DEF IdsOf
<1>4. 1..born \subseteq 1..MaxListed
  BY ListingsAssumption DEF ListTable
<1>5. IsFiniteSet(IdsOf(R))
  <2>1. IsFiniteSet(1..born)
    BY FS_Interval DEF ListTable
  <2> QED BY <1>3, <2>1, FS_Subset
<1> QED BY <1>1, <1>2, <1>3, <1>4, <1>5

\* Lemma: a query finds rows of the table.
LEMMA QueryFinds ==
  ASSUME ListTable, NEW f, NEW scope
  PROVE  RowsFor(f, scope) \subseteq 1..Len(listing)
  BY LenProperties DEF ListTable, RowsFor

\* Lemma: what is listed are ids of rows there are.
LEMMA ListedKnown ==
  ASSUME ListTable, NEW f
  PROVE  IsFiniteSet(ListedNow(f)) /\ ListedNow(f) \subseteq 1..born /\ ListedNow(f) \subseteq 1..MaxListed
<1>1. RowsNow(f) \subseteq 1..Len(listing)
  BY QueryFinds DEF RowsNow
<1> QED BY <1>1, RowsFound DEF ListedNow

\* Lemma: a scope is a set of locations or of ids.
LEMMA ScopeTyped ==
  ASSUME ListTable, NEW f \in Filters
  PROVE  ScopeOf(f) \subseteq Halls \cup Nat
<1>1. f.hall \in {Everything} \cup Halls
  BY ListingsAssumption DEF Filters
<1>2. reader.at \subseteq Halls
  BY DEF ListTable
<1>3. AuditScope(f) \subseteq Nat
  <2> SUFFICES ASSUME NEW k \in DOMAIN listing PROVE listing[k].id \in Nat
    BY DEF AuditScope
  <2>1. k \in 1..Len(listing)
    BY LenProperties DEF ListTable
  <2>2. listing[k] \in ListRow
    BY <2>1, ElementOfSeq DEF ListTable
  <2> QED BY <2>2 DEF ListRow
<1>4. LedgerScope(f) \subseteq Halls
  BY <1>1, <1>2 DEF LedgerScope, Visible
<1> QED BY <1>2, <1>3, <1>4 DEF ScopeOf, RequestScope

\* Lemma: the disturbance is a number.
LEMMA DisturbanceTyped ==
  ListTable /\ ListTable' => \A f : /\ Disturbance(f) \in Nat
                                   /\ IsFiniteSet(ListedNow(f)) /\ IsFiniteSet(ListedNow(f)')
<1>1. ListTable => \A f : IsFiniteSet(ListedNow(f))
  BY ListedKnown
<1>2. ListTable' => \A f : IsFiniteSet(ListedNow(f)')
  <2>1. (ListTable => \A f : IsFiniteSet(ListedNow(f)))'
    BY <1>1, PTL
  <2> QED BY <2>1
<1> SUFFICES ASSUME ListTable, ListTable', NEW f
             PROVE  /\ Disturbance(f) \in Nat
                    /\ IsFiniteSet(ListedNow(f)) /\ IsFiniteSet(ListedNow(f)')
  OBVIOUS
<1>3. IsFiniteSet((ListedNow(f) \cup ListedNow(f)') \ (ListedNow(f) \cap ListedNow(f)'))
  BY <1>1, <1>2, FS_Union, FS_Difference
<1> QED BY <1>1, <1>2, <1>3, FS_CardinalityType DEF Disturbance

\* Lemma: the least of the page sizes offered is one of them.
LEMMA LimitOffered == Min(Limits) \in Limits
<1>1. \E m \in Limits : \A k \in Limits : m <= k
  BY LeastElement, ListingsAssumption
<1> QED BY <1>1 DEF Min

\* Lemma: a list starts with two rows and the request for its first page.
LEMMA ListInvInit == ListInit => ListInv
<1> SUFFICES ASSUME ListInit PROVE ListInv
  OBVIOUS
<1>1. PICK places \in PlacesOf :
        listing = [k \in 1..2 |-> [id |-> 3 - k, places |-> places, mark |-> FirstMark, mine |-> FALSE]]
  BY DEF ListInit
<1>2. places \in AllPlaces /\ FirstMark \in AllMarks
  BY DEF PlacesOf, AllPlaces, FirstMark, AllMarks
<1>3. \A k \in 1..2 : listing[k] \in ListRow /\ listing[k].id = 3 - k
  <2> TAKE k \in 1..2
  <2>1. listing[k] = [id |-> 3 - k, places |-> places, mark |-> FirstMark, mine |-> FALSE]
    BY <1>1
  <2>2. 3 - k \in Nat
    OBVIOUS
  <2> QED BY <1>2, <2>1, <2>2 DEF ListRow
<1>4. listing \in Seq(ListRow) /\ Len(listing) = 2
  <2>1. listing \in [1..2 -> ListRow]
    BY <1>1, <1>3
  <2>2. listing \in Seq(ListRow)
    BY <2>1, SeqDef
  <2> QED BY <2>1, <2>2, LenProperties
<1>5. ListTable
  <2>1. reader \in [admin : BOOLEAN, at : SUBSET Halls]
    BY ListingsAssumption DEF ListInit
  <2>2. born = 2 /\ changes = 0 /\ born <= MaxListed /\ changes <= MaxChanges
    BY ListingsAssumption DEF ListInit
  <2>3. \A k \in 1..Len(listing) : listing[k].id >= 1 /\ listing[k].id <= born
    BY <1>3, <1>4, <2>2
  <2>4. \A j, k \in 1..Len(listing) : listing[j].id = listing[k].id => j = k
    BY <1>3, <1>4
  <2> QED BY <1>4, <2>1, <2>2, <2>3, <2>4 DEF ListTable, ListInit
<1>6. ListPage
  <2>1. NoFilter \in Filters /\ \A h \in Wanted : [NoFilter EXCEPT !.hall = h] \in Filters
    BY DEF NoFilter, Filters
  <2>2. applied \in Filters
    BY <2>1 DEF ListInit
  <2>3. NotShown \in [rows : SUBSET Nat, total : Total, page : Nat]
    BY DEF NotShown, Total
  <2>4. ToFetch(0) \in PageQuery
    BY DEF ToFetch, PageQuery, Total
  <2>5. Anew(applied) \in [base : SUBSET (1..MaxListed), seen : SUBSET Nat, moved : Nat, steady : BOOLEAN]
    BY <1>5, ListedKnown DEF Anew
  <2> QED BY <2>2, <2>3, <2>4, <2>5, LimitOffered DEF ListPage, ListInit
<1> QED BY <1>5, <1>6 DEF ListInv

\* Lemma: every step keeps the shape of the table and of the page.
LEMMA ListInvNext == ListInv /\ [ListNext]_listVars => ListInv'
<1> SUFFICES ASSUME ListInv, [ListNext]_listVars PROVE ListInv'
  OBVIOUS
<1> USE DEF ListInv
<1> DEFINE Reads == [base : SUBSET (1..MaxListed), seen : SUBSET Nat, moved : Nat, steady : BOOLEAN]
           Leaves == [rows : SUBSET Nat, total : Total, page : Nat]
<1>0. /\ limit \in Nat /\ leaf \in Leaves /\ reading \in Reads /\ applied \in Filters
      /\ request \in PageQuery \cup {NoRequest}
  BY ListingsAssumption DEF ListPage
<1>1. ASSUME UNCHANGED <<book, tableVars, reader>>
      PROVE  ListTable' /\ Filters' = Filters
  BY <1>1 DEF ListTable, tableVars, Filters, FirstMark
<1>2. NotShown \in Leaves /\ \A p \in Nat : ToFetch(p) \in PageQuery /\ [NotShown EXCEPT !.page = p] \in Leaves
  BY DEF ToFetch, PageQuery, Total, NotShown
<1>3. ASSUME NEW f
      PROVE  Anew(f) \in Reads
  BY ListedKnown DEF Anew
<1>4. CASE UNCHANGED listVars
  <2>1. ListTable'
    BY <1>1, <1>4 DEF listVars
  <2>2. UNCHANGED <<applied, limit, leaf, request, reading, book>>
    BY <1>4 DEF listVars, leafVars
  <2> QED BY <2>1, <2>2 DEF ListPage, Filters, FirstMark
<1>5. CASE Change
  <2>1. ListTable'
    BY <1>5, ChangeKeepsTable
  <2>2. Disturbance(applied) \in Nat
    BY <2>1, DisturbanceTyped
  <2>3. UNCHANGED <<book, applied, limit, leaf, request>>
    BY <1>5 DEF Change, leafVars
  <2>4. PICK n : n = Disturbance(applied)
    OBVIOUS
  <2>5. reading' = [reading EXCEPT !.moved = reading.moved + n, !.steady = reading.steady /\ reader' = reader]
    BY <1>5, <2>4 DEF Change
  <2>6. reading' \in Reads
    <3>1. n \in Nat /\ reading.moved + n \in Nat
      BY <1>0, <2>2, <2>4
    <3>2. (reading.steady /\ reader' = reader) \in BOOLEAN
      OBVIOUS
    <3> QED BY <1>0, <2>5, <3>1, <3>2
  <2> QED BY <2>1, <2>3, <2>6 DEF ListPage, Filters, FirstMark
<1>6. ASSUME NEW f \in Filters, Apply(f)
      PROVE  ListInv'
  BY <1>0, <1>1, <1>2, <1>3, <1>6 DEF Apply, ListPage
<1>7. CASE Turn
  <2>1. leaf.page + 1 \in Nat
    BY <1>0
  <2>2. /\ UNCHANGED <<book, tableVars, reader, applied, limit, reading>>
        /\ request' = ToFetch(leaf.page + 1) /\ leaf' = [NotShown EXCEPT !.page = leaf.page + 1]
    BY <1>7 DEF Turn
  <2> QED BY <1>0, <1>1, <1>2, <2>1, <2>2 DEF ListPage
<1>8. ASSUME NEW n \in Limits, Resize(n)
      PROVE  ListInv'
  BY <1>0, <1>1, <1>2, <1>3, <1>8 DEF Resize, ListPage
<1>9. CASE Refuse
  BY <1>0, <1>1, <1>9 DEF Refuse, ListPage
<1>10. ASSUME request # NoRequest PROVE request \in PageQuery
  BY <1>0, <1>10
<1>11. ASSUME UNCHANGED <<book, tableVars, reader, applied, limit, leaf, reading>>, request' \in PageQuery
       PROVE  ListInv'
  BY <1>0, <1>1, <1>11 DEF ListPage
<1>12. CASE FindScope
  <2>1. request \in PageQuery
    BY <1>10, <1>12 DEF FindScope, NoRequest
  <2>2. PICK s : s = ScopeOf(applied)
    OBVIOUS
  <2>3. s \subseteq Halls \cup Nat
    BY <1>0, <2>2, ScopeTyped
  <2>4. request' = [request EXCEPT !.pc = "reading", !.scope = s]
    BY <1>12, <2>2 DEF FindScope
  <2>5. request' \in PageQuery
    BY <2>1, <2>3, <2>4 DEF PageQuery
  <2> QED BY <1>11, <1>12, <2>5 DEF FindScope
<1>13. CASE FindMany
  <2>1. request \in PageQuery
    BY <1>10, <1>13 DEF FindMany, NoRequest
  <2>2. PICK R : R = RowsFor(applied, request.scope)
    OBVIOUS
  <2>3. PICK P : P = {k \in R : Skip < Rank(R, k) /\ Rank(R, k) <= Skip + limit}
    OBVIOUS
  <2>4. request' = [request EXCEPT !.got = request.got \cup {"rows"}, !.rows = IdsOf(P)]
    BY <1>13, <2>2, <2>3 DEF FindMany
  <2>5. IdsOf(P) \subseteq Nat
    <3>1. P \subseteq 1..Len(listing)
      BY <2>2, <2>3, QueryFinds
    <3>2. IdsOf(P) \subseteq 1..born
      BY <3>1, RowsFound
    <3> QED BY <3>2
  <2>6. request' \in PageQuery
    BY <2>1, <2>4, <2>5 DEF PageQuery
  <2> QED BY <1>11, <1>13, <2>6 DEF FindMany
<1>14. CASE CountRows
  <2>1. request \in PageQuery
    BY <1>10, <1>14 DEF CountRows, NoRequest
  <2>2. PICK n : n = Cardinality(RowsFor(applied, request.scope))
    OBVIOUS
  <2>3. n \in Nat
    BY <2>2, QueryFinds, RowsFound
  <2>4. request' = [request EXCEPT !.got = request.got \cup {"total"}, !.total = n]
    BY <1>14, <2>2 DEF CountRows
  <2>5. request' \in PageQuery
    BY <2>1, <2>3, <2>4 DEF PageQuery, Total
  <2> QED BY <1>11, <1>14, <2>5 DEF CountRows
<1>15. CASE Display
  <2>1. request \in PageQuery
    BY <1>10, <1>15 DEF Display, NoRequest
  <2>2. request.rows \subseteq Nat /\ request.total \in Total /\ request.page \in Nat
    BY <2>1 DEF PageQuery
  <2>3. leaf' \in Leaves /\ reading' \in Reads /\ request' = NoRequest
    BY <1>0, <1>15, <2>2 DEF Display
  <2> QED BY <1>0, <1>1, <1>15, <2>3 DEF Display, ListPage
<1> QED BY <1>4, <1>5, <1>6, <1>7, <1>8, <1>9, <1>12, <1>13, <1>14, <1>15 DEF ListNext

\* Lemma: the paged lists keep their shape; in particular no two of their rows have one id.
LEMMA ListTyped == ListInv => ListTypeOK
<1> SUFFICES ASSUME ListInv PROVE ListTypeOK
  OBVIOUS
<1>1. Len(listing) \in Nat /\ DOMAIN listing = 1..Len(listing)
  BY LenProperties DEF ListInv, ListTable
<1>2. Cardinality({listing[k].id : k \in DOMAIN listing}) = Len(listing)
  <2> DEFINE D == 1..Len(listing)
             T == {listing[k].id : k \in D}
             name == [k \in D |-> listing[k].id]
  <2>1. name \in Bijection(D, T)
    <3>1. \A j, k \in D : name[j] = name[k] => j = k
      BY DEF ListInv, ListTable
    <3>2. name \in [D -> T] /\ \A i \in T : \E k \in D : name[k] = i
      OBVIOUS
    <3> QED BY <3>1, <3>2 DEF Bijection, Injection, Surjection, IsInjective
  <2>2. ExistsBijection(D, T)
    BY <2>1 DEF ExistsBijection
  <2>3. Cardinality(T) = Len(listing)
    BY <1>1, <2>2, FS_CountingElements
  <2> QED BY <1>1, <2>3
<1>3. leaf.total >= -1 /\ leaf.page >= 0
  BY DEF ListInv, ListPage, Total
<1> QED BY <1>2, <1>3 DEF ListInv, ListTable, ListPage, ListTypeOK

-----------------------------------------------------------------------------
(* Ranks. *)

\* Lemma: of a finite set of positions, a later one has a higher rank.
LEMMA RankRises ==
  ASSUME NEW R \in SUBSET Nat, IsFiniteSet(R), NEW j \in Nat, NEW k \in Nat
  PROVE  /\ Rank(R, k) \in Nat
         /\ j <= k => Rank(R, j) <= Rank(R, k)
         /\ k \in R => 1 <= Rank(R, k)
         /\ j < k /\ k \in R => Rank(R, j) < Rank(R, k)
         /\ Rank(R, k) <= Cardinality(R)
<1> DEFINE J == {m \in R : m <= j}
           K == {m \in R : m <= k}
<1>1. IsFiniteSet(J) /\ IsFiniteSet(K) /\ Cardinality(J) \in Nat /\ Cardinality(K) \in Nat
      /\ Cardinality(K) <= Cardinality(R)
  <2>1. J \in SUBSET R /\ K \in SUBSET R
    OBVIOUS
  <2> QED BY <2>1, FS_Subset, FS_CardinalityType
<1>2. j <= k => Cardinality(J) <= Cardinality(K)
  <2>1. ASSUME j <= k, NEW m \in J PROVE m \in K
    BY <2>1
  <2>2. j <= k => J \in SUBSET K
    BY <2>1
  <2> QED BY <1>1, <2>2, FS_Subset
<1>3. k \in R => Cardinality(K) >= 1
  <2>1. k \in R => {k} \in SUBSET K
    OBVIOUS
  <2>2. Cardinality({k}) = 1
    BY FS_Singleton
  <2> QED BY <1>1, <2>1, <2>2, FS_Subset
<1>4. j < k /\ k \in R => Cardinality(J) < Cardinality(K)
  <2> SUFFICES ASSUME j < k, k \in R PROVE Cardinality(J) < Cardinality(K)
    OBVIOUS
  <2>1. k \notin J /\ J \cup {k} \in SUBSET K
    <3>1. k \notin J /\ k \in K
      OBVIOUS
    <3>2. ASSUME NEW m \in J PROVE m \in K
      OBVIOUS
    <3> HIDE DEF J, K
    <3> QED BY <3>1, <3>2
  <2>2. Cardinality(J \cup {k}) = Cardinality(J) + 1
    BY <1>1, <2>1, FS_AddElement
  <2>3. Cardinality(J \cup {k}) <= Cardinality(K)
    BY <1>1, <2>1, FS_Subset
  <2> HIDE DEF J, K
  <2> QED BY <1>1, <2>2, <2>3
<1> QED BY <1>1, <1>2, <1>3, <1>4 DEF Rank

\* Lemma: one position more moves those after it up by one.
LEMMA RankAdds ==
  ASSUME NEW R \in SUBSET Nat, IsFiniteSet(R), NEW p \in Nat, p \notin R, NEW k \in Nat
  PROVE  /\ p <= k => Rank(R \cup {p}, k) = Rank(R, k) + 1
         /\ ~(p <= k) => Rank(R \cup {p}, k) = Rank(R, k)
<1> DEFINE K == {m \in R : m <= k}
           L == {m \in R \cup {p} : m <= k}
<1>1. IsFiniteSet(K)
  <2>1. K \in SUBSET R
    OBVIOUS
  <2> QED BY <2>1, FS_Subset
<1>2. p <= k => L = K \cup {p} /\ p \notin K
  OBVIOUS
<1>3. ~(p <= k) => L = K
  OBVIOUS
<1>4. p <= k => Cardinality(L) = Cardinality(K) + 1
  BY <1>1, <1>2, FS_AddElement
<1>5. ~(p <= k) => Cardinality(L) = Cardinality(K)
  BY <1>3
<1> QED BY <1>4, <1>5 DEF Rank

\* Positions that keep their order when they are renumbered by "to".
Slides(A, B, to) ==
  /\ to \in [A -> B]
  /\ \A j, k \in A : j < k => to[j] < to[k]
  /\ \A m \in B : \E k \in A : to[k] = m

SameRanks(A, B, to) == \A k \in A : Rank(B, to[k]) = Rank(A, k)

\* Lemma: rows that keep their order keep their ranks.
LEMMA RankCarried ==
  ASSUME NEW A \in SUBSET Nat, NEW B \in SUBSET Nat, IsFiniteSet(A), NEW to, Slides(A, B, to)
  PROVE  SameRanks(A, B, to)
<1> SUFFICES ASSUME NEW k \in A PROVE Rank(B, to[k]) = Rank(A, k)
  BY DEF SameRanks
<1> USE DEF Slides
<1> DEFINE K == {m \in A : m <= k}
           L == {m \in B : m <= to[k]}
           f == [m \in K |-> to[m]]
<1>1. IsFiniteSet(K)
  <2>1. K \in SUBSET A
    OBVIOUS
  <2> QED BY <2>1, FS_Subset
<1>2. \A j, m \in A : to[j] \in Nat /\ to[m] \in Nat /\ j \in Nat /\ m \in Nat
  OBVIOUS
<1>3. \A j, m \in A : (j <= m <=> to[j] <= to[m]) /\ (to[j] = to[m] => j = m)
  <2> SUFFICES ASSUME NEW j \in A, NEW m \in A
               PROVE  (j <= m <=> to[j] <= to[m]) /\ (to[j] = to[m] => j = m)
    OBVIOUS
  <2>1. j < m \/ j = m \/ m < j
    BY <1>2
  <2> QED BY <1>2, <2>1
<1>4. f \in Bijection(K, L)
  <2>1. f \in [K -> L]
    BY <1>3
  <2>2. \A j, m \in K : f[j] = f[m] => j = m
    BY <1>3
  <2>3. ASSUME NEW l \in L
        PROVE  \E m \in K : f[m] = l
    <3>1. PICK m \in A : to[m] = l
      OBVIOUS
    <3>2. m \in K
      BY <1>3, <3>1
    <3> QED BY <3>1, <3>2
  <2> HIDE DEF f
  <2> QED BY <2>1, <2>2, <2>3 DEF Bijection, Injection, Surjection, IsInjective
<1>5. ExistsBijection(K, L)
  BY <1>4 DEF ExistsBijection
<1>6. Cardinality(L) = Cardinality(K)
  BY <1>1, <1>5, FS_Bijection
<1> QED BY <1>6 DEF Rank

-----------------------------------------------------------------------------
(* What a reader misses. *)

\* What a reader of the first "c" rows, by "rank", and of the number "t" has missed of "U": those
\* among the first, those not listed, and as many as the rows exceed the number.
Passed(U, rank, c) == {i \in U \cap DOMAIN rank : rank[i] <= c}
Over(n, t)         == IF t # -1 /\ t < n THEN n - t ELSE 0
Missed(U, rank, c, t) ==
  Cardinality(Passed(U, rank, c)) + Cardinality(U \ DOMAIN rank) + Over(Cardinality(DOMAIN rank), t)

\* Lemma: that is a number.
LEMMA MissedTyped ==
  ASSUME NEW U, IsFiniteSet(U), NEW rank, IsFiniteSet(DOMAIN rank), NEW c, NEW t \in Total
  PROVE  /\ IsFiniteSet(Passed(U, rank, c)) /\ Cardinality(Passed(U, rank, c)) \in Nat
         /\ IsFiniteSet(U \ DOMAIN rank) /\ Cardinality(U \ DOMAIN rank) \in Nat
         /\ Cardinality(DOMAIN rank) \in Nat /\ Over(Cardinality(DOMAIN rank), t) \in Nat
         /\ Missed(U, rank, c, t) \in Nat
<1>1. Passed(U, rank, c) \in SUBSET U
  BY DEF Passed
<1>2. IsFiniteSet(Passed(U, rank, c)) /\ IsFiniteSet(U \ DOMAIN rank)
  BY <1>1, FS_Subset, FS_Difference
<1>3. /\ Cardinality(Passed(U, rank, c)) \in Nat /\ Cardinality(U \ DOMAIN rank) \in Nat
      /\ Cardinality(DOMAIN rank) \in Nat
  BY <1>2, FS_CardinalityType
<1>4. Over(Cardinality(DOMAIN rank), t) \in Nat
  BY <1>3 DEF Over, Total
<1>5. Missed(U, rank, c, t) \in Nat
  BY <1>3, <1>4 DEF Missed
<1> QED BY <1>2, <1>3, <1>4, <1>5

\* Lemma: a set with one member more, or within a set with one member less, and so on.
LEMMA AtMostOneMore ==
  ASSUME NEW A, NEW B, IsFiniteSet(A), NEW x, B \subseteq A \cup {x}
  PROVE  IsFiniteSet(B) /\ Cardinality(B) \in Nat /\ Cardinality(A) \in Nat
         /\ Cardinality(B) <= Cardinality(A) + 1
<1>1. IsFiniteSet(A \cup {x}) /\ Cardinality(A \cup {x}) <= Cardinality(A) + 1
  <2>1. CASE x \in A
    <3>1. A \cup {x} = A
      BY <2>1
    <3>2. Cardinality(A) \in Nat
      BY FS_CardinalityType
    <3>3. Cardinality(A) <= Cardinality(A) + 1
      BY <3>2
    <3> QED BY <3>1, <3>3
  <2>2. CASE x \notin A
    <3>1. IsFiniteSet(A \cup {x}) /\ Cardinality(A \cup {x}) = Cardinality(A) + 1
      BY <2>2, FS_AddElement
    <3>2. Cardinality(A) \in Nat
      BY FS_CardinalityType
    <3> QED BY <3>1, <3>2
  <2> QED BY <2>1, <2>2
<1>2. B \in SUBSET (A \cup {x})
  OBVIOUS
<1>3. IsFiniteSet(B) /\ Cardinality(B) <= Cardinality(A \cup {x})
  BY <1>1, <1>2, FS_Subset
<1>4. Cardinality(A) \in Nat /\ Cardinality(B) \in Nat /\ Cardinality(A \cup {x}) \in Nat
  BY <1>1, <1>3, FS_CardinalityType
<1> QED BY <1>1, <1>3, <1>4

\* Lemma: a subset is no larger.
LEMMA NoMore ==
  ASSUME NEW A, NEW B, IsFiniteSet(A), B \subseteq A
  PROVE  IsFiniteSet(B) /\ Cardinality(B) \in Nat /\ Cardinality(A) \in Nat
         /\ Cardinality(B) <= Cardinality(A)
<1>1. IsFiniteSet(B) /\ Cardinality(B) <= Cardinality(A)
  BY FS_Subset
<1> QED BY <1>1, FS_CardinalityType

\* Lemma: a row that comes makes a reader miss at most one more.
LEMMA MissedAdds ==
  ASSUME NEW U, IsFiniteSet(U), NEW I, IsFiniteSet(I), NEW x, x \notin I,
         NEW rank \in [I -> Nat], NEW new \in [I \cup {x} -> Nat],
         \A i \in I : rank[i] <= new[i],
         NEW c \in Nat, NEW t \in Total
  PROVE  Missed(U, new, c, t) <= Missed(U, rank, c, t) + 1
<1> DEFINE n == Cardinality(I)
           P == Passed(U, rank, c)
           Q == Passed(U, new, c)
<1>1. DOMAIN rank = I /\ DOMAIN new = I \cup {x}
  OBVIOUS
<1>2. IsFiniteSet(I \cup {x}) /\ n \in Nat /\ Cardinality(I \cup {x}) = n + 1
  BY FS_AddElement, FS_CardinalityType
<1>3. /\ IsFiniteSet(P) /\ Cardinality(P) \in Nat
      /\ IsFiniteSet(U \ I) /\ Cardinality(U \ I) \in Nat /\ Over(n, t) \in Nat
  BY <1>1, MissedTyped
<1>4. /\ IsFiniteSet(Q) /\ Cardinality(Q) \in Nat
      /\ IsFiniteSet(U \ (I \cup {x})) /\ Cardinality(U \ (I \cup {x})) \in Nat
      /\ Over(n + 1, t) \in Nat
  <2>1. IsFiniteSet(DOMAIN new)
    BY <1>1, <1>2
  <2> QED BY <1>1, <1>2, <2>1, MissedTyped
<1>5. Over(n + 1, t) <= Over(n, t) + 1
  BY <1>2 DEF Over, Total
<1>6. \A i \in Q : i = x \/ i \in P
  BY DEF Passed
<1>7. Cardinality(Q) + Cardinality(U \ (I \cup {x})) <= Cardinality(P) + Cardinality(U \ I)
  <2>1. CASE x \in U
    <3>1. Q \subseteq P \cup {x}
      BY <1>6
    <3>2. Cardinality(Q) <= Cardinality(P) + 1
      BY <1>3, <3>1, AtMostOneMore
    <3>3. U \ (I \cup {x}) = (U \ I) \ {x} /\ x \in U \ I
      BY <2>1
    <3>4. Cardinality((U \ I) \ {x}) = Cardinality(U \ I) - 1
      BY <1>3, <3>3, FS_RemoveElement
    <3> HIDE DEF P, Q
    <3>5. Cardinality(U \ (I \cup {x})) = Cardinality(U \ I) - 1
      BY <3>3, <3>4
    <3> QED BY <1>3, <1>4, <3>2, <3>5
  <2>2. CASE x \notin U
    <3>1. Q \subseteq P
      BY <1>6, <2>2 DEF Passed
    <3>2. Cardinality(Q) <= Cardinality(P)
      BY <1>3, <3>1, NoMore
    <3>3. U \ (I \cup {x}) = U \ I
      BY <2>2
    <3> QED BY <1>3, <1>4, <3>2, <3>3
  <2> QED BY <2>1, <2>2
<1>8. Missed(U, new, c, t) = Cardinality(Q) + Cardinality(U \ (I \cup {x})) + Over(n + 1, t)
  BY <1>1, <1>2 DEF Missed
<1>9. Missed(U, rank, c, t) = Cardinality(P) + Cardinality(U \ I) + Over(n, t)
  BY <1>1 DEF Missed
<1> HIDE DEF n, P, Q
<1> QED BY <1>3, <1>4, <1>5, <1>7, <1>8, <1>9

\* Lemma: a row that goes makes a reader miss at most one more: itself, or the one that its
\* going moves onto a page already turned.
LEMMA MissedRemoves ==
  ASSUME NEW U, IsFiniteSet(U), NEW I, IsFiniteSet(I), NEW x \in I,
         NEW rank \in [I -> Nat], NEW new \in [I \ {x} -> Nat],
         \A i, j \in I : rank[i] = rank[j] => i = j,
         \A i \in I \ {x} : rank[i] <= new[i] + 1 /\ (rank[i] < rank[x] => rank[i] <= new[i]),
         NEW c \in Nat, NEW t \in Total
  PROVE  Missed(U, new, c, t) <= Missed(U, rank, c, t) + 1
<1> DEFINE n == Cardinality(I)
           P == Passed(U, rank, c)
           Q == Passed(U, new, c)
<1>1. DOMAIN rank = I /\ DOMAIN new = I \ {x}
  OBVIOUS
<1>2. IsFiniteSet(I \ {x}) /\ n \in Nat /\ Cardinality(I \ {x}) = n - 1 /\ n - 1 \in Nat
  <2>1. IsFiniteSet(I \ {x}) /\ n \in Nat /\ Cardinality(I \ {x}) = n - 1
    BY FS_RemoveElement, FS_CardinalityType
  <2>2. Cardinality(I \ {x}) \in Nat
    BY <2>1, FS_CardinalityType
  <2> QED BY <2>1, <2>2
<1>3. /\ IsFiniteSet(P) /\ Cardinality(P) \in Nat
      /\ IsFiniteSet(U \ I) /\ Cardinality(U \ I) \in Nat /\ Over(n, t) \in Nat
  BY <1>1, MissedTyped
<1>4. /\ IsFiniteSet(Q) /\ Cardinality(Q) \in Nat
      /\ IsFiniteSet(U \ (I \ {x})) /\ Cardinality(U \ (I \ {x})) \in Nat
      /\ Over(n - 1, t) \in Nat
  <2>1. IsFiniteSet(DOMAIN new)
    BY <1>1, <1>2
  <2> QED BY <1>1, <1>2, <2>1, MissedTyped
<1>5. Over(n - 1, t) <= Over(n, t)
  BY <1>2 DEF Over, Total
<1>6. \A i \in Q : i # x /\ i \in U /\ i \in I /\ new[i] <= c /\ new[i] \in Nat /\ rank[i] \in Nat
  BY DEF Passed
<1>7. \A i \in Q : i \in P \/ (rank[i] = c + 1 /\ rank[x] <= c)
  <2> SUFFICES ASSUME NEW i \in Q, i \notin P
               PROVE  rank[i] = c + 1 /\ rank[x] <= c
    OBVIOUS
  <2>1. ~(rank[i] <= c)
    BY <1>6 DEF Passed
  <2>2. rank[i] # rank[x] /\ rank[x] \in Nat
    BY <1>6
  <2>3. rank[i] <= new[i] + 1 /\ (rank[i] < rank[x] => rank[i] <= new[i])
    BY <1>6
  <2> QED BY <1>6, <2>1, <2>2, <2>3
<1>8. Cardinality(Q) + Cardinality(U \ (I \ {x})) <= Cardinality(P) + Cardinality(U \ I) + 1
  <2>1. CASE rank[x] <= c /\ x \in U
    <3>1. x \in P /\ x \notin Q
      BY <1>6, <2>1 DEF Passed
    <3>2. IsFiniteSet(P \ {x}) /\ Cardinality(P \ {x}) = Cardinality(P) - 1
      BY <1>3, <3>1, FS_RemoveElement
    <3>3. \E y : Q \subseteq (P \ {x}) \cup {y}
      <4>1. CASE \E y \in Q : y \notin P
        <5>1. PICK y \in Q : y \notin P
          BY <4>1
        <5>2. \A i \in Q : i \in P \/ i = y
          BY <1>6, <1>7, <5>1
        <5> QED BY <3>1, <5>2
      <4>2. CASE ~\E y \in Q : y \notin P
        BY <3>1, <4>2
      <4> QED BY <4>1, <4>2
    <3>4. Cardinality(Q) <= Cardinality(P \ {x}) + 1
      BY <3>2, <3>3, AtMostOneMore
    <3>5. Cardinality(U \ (I \ {x})) <= Cardinality(U \ I) + 1
      <4>1. U \ (I \ {x}) \subseteq (U \ I) \cup {x}
        OBVIOUS
      <4> QED BY <1>3, <4>1, AtMostOneMore
    <3> HIDE DEF P, Q
    <3> QED BY <1>3, <1>4, <3>2, <3>4, <3>5
  <2>2. CASE ~(rank[x] <= c)
    <3>1. Q \subseteq P
      BY <1>7, <2>2
    <3>2. Cardinality(Q) <= Cardinality(P)
      BY <1>3, <3>1, NoMore
    <3>3. Cardinality(U \ (I \ {x})) <= Cardinality(U \ I) + 1
      <4>1. U \ (I \ {x}) \subseteq (U \ I) \cup {x}
        OBVIOUS
      <4> QED BY <1>3, <4>1, AtMostOneMore
    <3> HIDE DEF P, Q
    <3> QED BY <1>3, <1>4, <3>2, <3>3
  <2>3. CASE x \notin U
    <3>1. \E y : Q \subseteq P \cup {y}
      <4>1. CASE \E y \in Q : y \notin P
        <5>1. PICK y \in Q : y \notin P
          BY <4>1
        <5>2. \A i \in Q : i \in P \/ i = y
          BY <1>6, <1>7, <5>1
        <5> QED BY <5>2
      <4>2. CASE ~\E y \in Q : y \notin P
        BY <4>2
      <4> QED BY <4>1, <4>2
    <3>2. Cardinality(Q) <= Cardinality(P) + 1
      BY <1>3, <3>1, AtMostOneMore
    <3>3. Cardinality(U \ (I \ {x})) = Cardinality(U \ I)
      <4>1. U \ (I \ {x}) = U \ I
        BY <2>3
      <4> QED BY <4>1
    <3> HIDE DEF P, Q
    <3> QED BY <1>3, <1>4, <3>2, <3>3
  <2> QED BY <2>1, <2>2, <2>3
<1>9. Missed(U, new, c, t) = Cardinality(Q) + Cardinality(U \ (I \ {x})) + Over(n - 1, t)
  BY <1>1, <1>2 DEF Missed
<1>10. Missed(U, rank, c, t) = Cardinality(P) + Cardinality(U \ I) + Over(n, t)
  BY <1>1 DEF Missed
<1> HIDE DEF n, P, Q
<1> QED BY <1>3, <1>4, <1>5, <1>8, <1>9, <1>10

\* Lemma: a row that takes another place makes a reader miss at most one more: itself when it
\* moves to the front, or the one that its moving back brings onto a page already turned.
LEMMA MissedMoves ==
  ASSUME NEW U, IsFiniteSet(U), NEW I, IsFiniteSet(I), NEW x \in I,
         NEW rank \in [I -> Nat], NEW new \in [I -> Nat],
         \A i, j \in I : rank[i] = rank[j] => i = j,
         \/ \A i \in I : i # x => rank[i] <= new[i]
         \/ rank[x] <= new[x] /\ \A i \in I : rank[i] <= new[i] + 1,
         NEW c \in Nat, NEW t \in Total
  PROVE  Missed(U, new, c, t) <= Missed(U, rank, c, t) + 1
<1> DEFINE n == Cardinality(I)
           P == Passed(U, rank, c)
           Q == Passed(U, new, c)
<1>1. DOMAIN rank = I /\ DOMAIN new = I
  OBVIOUS
<1>2. /\ IsFiniteSet(P) /\ Cardinality(P) \in Nat
      /\ Cardinality(U \ I) \in Nat /\ Over(n, t) \in Nat
  BY <1>1, MissedTyped
<1>3. \A i \in Q : i \in U /\ i \in I /\ new[i] <= c /\ new[i] \in Nat /\ rank[i] \in Nat
  BY DEF Passed
<1>4. \E y : Q \subseteq P \cup {y}
  <2>1. CASE \A i \in I : i # x => rank[i] <= new[i]
    <3>1. \A i \in Q : i \in P \/ i = x
      BY <1>3, <2>1 DEF Passed
    <3> QED BY <3>1
  <2>2. CASE rank[x] <= new[x] /\ \A i \in I : rank[i] <= new[i] + 1
    <3>1. \A i \in Q : i \in P \/ rank[i] = c + 1
      <4> SUFFICES ASSUME NEW i \in Q, i \notin P PROVE rank[i] = c + 1
        OBVIOUS
      <4>1. ~(rank[i] <= c)
        BY <1>3 DEF Passed
      <4>2. rank[i] <= new[i] + 1
        BY <1>3, <2>2
      <4> QED BY <1>3, <4>1, <4>2
    <3>2. CASE \E y \in Q : y \notin P
      <4>1. PICK y \in Q : y \notin P
        BY <3>2
      <4>2. \A i \in Q : i \in P \/ i = y
        BY <1>3, <3>1, <4>1
      <4> QED BY <4>2
    <3>3. CASE ~\E y \in Q : y \notin P
      BY <3>3
    <3> QED BY <3>2, <3>3
  <2> QED BY <2>1, <2>2
<1>5. Cardinality(Q) <= Cardinality(P) + 1 /\ Cardinality(Q) \in Nat
  BY <1>2, <1>4, AtMostOneMore
<1>6. /\ Missed(U, new, c, t) = Cardinality(Q) + Cardinality(U \ I) + Over(n, t)
      /\ Missed(U, rank, c, t) = Cardinality(P) + Cardinality(U \ I) + Over(n, t)
  BY <1>1 DEF Missed
<1> HIDE DEF n, P, Q
<1> QED BY <1>2, <1>5, <1>6

-----------------------------------------------------------------------------
(* Views of the table. *)

\* The rank of each row of a view, by the row's id.
RankOf(s, V) == [i \in {s[k].id : k \in V} |-> Rank(V, CHOOSE k \in V : s[k].id = i)]

\* What such a function of ranks is, where ids are distinct.
Ranks(s, V, rank) ==
  /\ IsFiniteSet(V) /\ IsFiniteSet({s[k].id : k \in V})
  /\ rank \in [{s[k].id : k \in V} -> Nat]
  /\ \A k \in V : rank[s[k].id] = Rank(V, k)
  /\ \A i, j \in {s[k].id : k \in V} : rank[i] = rank[j] => i = j

\* No two of the first "n" rows have one id.
Named(s, n) == \A j, k \in 1..n : s[j].id = s[k].id => j = k

\* Lemma: where ids are distinct, the rank of an id is that of its row.
LEMMA RankOfTyped ==
  ASSUME NEW s, NEW n \in Nat, NEW V \in SUBSET (1..n), Named(s, n)
  PROVE  Ranks(s, V, RankOf(s, V))
<1> DEFINE I == {s[k].id : k \in V}
<1>1. IsFiniteSet(V) /\ V \in SUBSET Nat
  <2>1. IsFiniteSet(1..n)
    BY FS_Interval
  <2>2. IsFiniteSet(V)
    BY <2>1, FS_Subset
  <2> QED BY <2>2
<1>2. \A k \in V : (CHOOSE l \in V : s[l].id = s[k].id) = k
  BY DEF Named
<1>3. \A k \in V : Rank(V, k) \in Nat
  BY <1>1, RankRises
<1>4. RankOf(s, V) \in [I -> Nat]
  <2> SUFFICES ASSUME NEW i \in I PROVE Rank(V, CHOOSE k \in V : s[k].id = i) \in Nat
    BY DEF RankOf
  <2>1. PICK k \in V : s[k].id = i
    OBVIOUS
  <2> QED BY <1>2, <1>3, <2>1
<1>5. \A k \in V : RankOf(s, V)[s[k].id] = Rank(V, k)
  <2> TAKE k \in V
  <2>1. RankOf(s, V)[s[k].id] = Rank(V, CHOOSE l \in V : s[l].id = s[k].id)
    BY DEF RankOf
  <2> QED BY <1>2, <2>1
<1>6. \A i, j \in I : RankOf(s, V)[i] = RankOf(s, V)[j] => i = j
  <2> SUFFICES ASSUME NEW k \in V, NEW l \in V, Rank(V, k) = Rank(V, l)
               PROVE  k = l
    BY <1>5
  <2>1. k \in Nat /\ l \in Nat
    BY <1>1
  <2>2. k < l => Rank(V, k) < Rank(V, l)
    BY <1>1, <2>1, RankRises
  <2>3. l < k => Rank(V, l) < Rank(V, k)
    BY <1>1, <2>1, RankRises
  <2> QED BY <1>3, <2>1, <2>2, <2>3
<1>7. IsFiniteSet(I)
  <2>1. RankOf(s, V) \in [I -> Nat]
    BY <1>4
  <2> DEFINE f == [k \in V |-> s[k].id]
  <2>2. f \in Surjection(V, I)
    BY DEF Surjection
  <2> QED BY <1>1, <2>2, FS_Surjection
<1> QED BY <1>1, <1>4, <1>5, <1>6, <1>7 DEF Ranks

\* Lemma: a view of the rows before and one of those after one of them was swapped: a reader
\* misses at most one more of the second than of the first.
LEMMA ViewSwapped ==
  ASSUME NEW s, NEW t, NEW n \in Nat, NEW m \in Nat, n = Len(s), m = Len(t),
         Named(s, n), Named(t, m),
         NEW gone, NEW come, NEW to, Shifts(s, t, gone, come, to),
         \/ \E y : gone = {} /\ come = {y}
         \/ \E x : gone = {x} /\ come = {}
         \/ \E x, y : gone = {x} /\ come = {y} /\ t[y].id = s[x].id,
         NEW V \in SUBSET (1..n), NEW W \in SUBSET (1..m),
         \A k \in (1..n) \ gone : k \in V <=> to[k] \in W,
         NEW U, IsFiniteSet(U), NEW c \in Nat, NEW q \in Total
  PROVE  Missed(U, RankOf(t, W), c, q) <= Missed(U, RankOf(s, V), c, q) + 1
<1> DEFINE A == V \ gone
           B == W \ come
           I == {s[k].id : k \in A}
<1>0. PICK rank, new : rank = RankOf(s, V) /\ new = RankOf(t, W)
  OBVIOUS
<1>1. /\ IsFiniteSet(V) /\ IsFiniteSet({s[k].id : k \in V})
      /\ rank \in [{s[k].id : k \in V} -> Nat]
      /\ \A k \in V : rank[s[k].id] = Rank(V, k)
      /\ \A i, j \in {s[k].id : k \in V} : rank[i] = rank[j] => i = j
  <2>1. Ranks(s, V, RankOf(s, V))
    BY RankOfTyped
  <2> QED BY <1>0, <2>1 DEF Ranks
<1>2. /\ IsFiniteSet(W) /\ IsFiniteSet({t[k].id : k \in W})
      /\ new \in [{t[k].id : k \in W} -> Nat]
      /\ \A k \in W : new[t[k].id] = Rank(W, k)
  <2>1. Ranks(t, W, RankOf(t, W))
    BY RankOfTyped
  <2> QED BY <1>0, <2>1 DEF Ranks
<1>3. /\ to \in [(1..n) \ gone -> (1..m) \ come]
      /\ \A j, k \in (1..n) \ gone : j < k => to[j] < to[k]
      /\ \A l \in (1..m) \ come : \E k \in (1..n) \ gone : to[k] = l
      /\ \A k \in (1..n) \ gone : t[to[k]] = s[k]
      /\ gone \subseteq 1..n /\ come \subseteq 1..m
  BY DEF Shifts
<1>4. /\ A \subseteq (1..n) \ gone /\ B \subseteq (1..m) \ come
      /\ \A k \in A : to[k] \in B /\ t[to[k]] = s[k]
      /\ \A l \in B : \E k \in A : to[k] = l
  BY <1>3
<1>5. IsFiniteSet(A) /\ IsFiniteSet(B) /\ A \in SUBSET Nat /\ B \in SUBSET Nat
      /\ V \in SUBSET Nat /\ W \in SUBSET Nat
  <2>1. A \in SUBSET V /\ B \in SUBSET W
    OBVIOUS
  <2>2. IsFiniteSet(A) /\ IsFiniteSet(B)
    BY <1>1, <1>2, <2>1, FS_Subset
  <2> HIDE DEF A, B
  <2> QED BY <2>1, <2>2
<1>6. ASSUME NEW k \in A
      PROVE  Rank(B, to[k]) = Rank(A, k) /\ k \in Nat /\ to[k] \in Nat /\ Rank(A, k) \in Nat
  <2> DEFINE f == [l \in A |-> to[l]]
  <2>1. f \in [A -> B] /\ \A l \in A : f[l] = to[l]
    BY <1>4
  <2> HIDE DEF f, A, B
  <2>2. \A j, l \in A : j < l => f[j] < f[l]
    BY <1>3, <1>4, <2>1
  <2>3. \A l \in B : \E j \in A : f[j] = l
    BY <1>4, <2>1
  <2>4. Rank(B, f[k]) = Rank(A, k)
    <3>1. Slides(A, B, f)
      BY <2>1, <2>2, <2>3 DEF Slides
    <3>2. SameRanks(A, B, f)
      BY <1>5, <3>1, RankCarried
    <3> QED BY <3>2 DEF SameRanks
  <2>5. k \in Nat /\ to[k] \in Nat
    BY <1>4, <1>5
  <2>6. Rank(A, k) \in Nat
    BY <1>5, <2>5, RankRises
  <2> QED BY <2>1, <2>4, <2>5, <2>6
<1>7. {t[k].id : k \in B} = I
  BY <1>4
<1>8. \A k \in A : s[k].id \in I
  OBVIOUS
<1>9. \A i \in I : \E k \in A : i = s[k].id
  OBVIOUS
<1> HIDE DEF A, B, I
<1>10. CASE V = A /\ W = B
  <2>1. rank \in [I -> Nat] /\ new \in [I -> Nat]
    BY <1>1, <1>2, <1>7, <1>10 DEF I
  <2>2. \A i \in I : rank[i] = new[i]
    <3> TAKE i \in I
    <3>1. PICK k \in A : i = s[k].id
      BY <1>9
    <3>2. new[t[to[k]].id] = Rank(W, to[k])
      BY <1>2, <1>4, <1>10
    <3> QED BY <1>1, <1>4, <1>6, <1>10, <3>1, <3>2
  <2>3. rank = new
    BY <2>1, <2>2
  <2>4. Missed(U, rank, c, q) \in Nat
    <3>1. IsFiniteSet(DOMAIN rank)
      BY <1>1
    <3> QED BY <3>1, MissedTyped
  <2>5. Missed(U, new, c, q) = Missed(U, rank, c, q)
    BY <2>3
  <2> QED BY <1>0, <2>4, <2>5
<1>11. ASSUME NEW y \in come, V = A, W = B \cup {y}, y \notin B
       PROVE  Missed(U, new, c, q) <= Missed(U, rank, c, q) + 1
  <2>1. PICK e : e = t[y].id
    OBVIOUS
  <2>2. rank \in [I -> Nat] /\ IsFiniteSet(I)
    BY <1>1, <1>11 DEF I
  <2>3. {t[k].id : k \in W} = I \cup {e}
    BY <1>7, <1>11, <2>1
  <2>4. new \in [I \cup {e} -> Nat]
    BY <1>2, <2>3
  <2>5. e \notin I
    <3> SUFFICES ASSUME NEW k \in B, t[k].id = e PROVE FALSE
      BY <1>7
    <3>1. k \in 1..m /\ y \in 1..m
      BY <1>3, <1>4
    <3>2. k = y
      BY <2>1, <3>1 DEF Named
    <3> QED BY <1>11, <3>2
  <2>6. y \in Nat
    BY <1>3
  <2>7. ASSUME NEW i \in I
        PROVE  rank[i] <= new[i]
    <3>1. PICK k \in A : i = s[k].id
      BY <1>9
    <3>2. rank[i] = Rank(A, k)
      BY <1>1, <1>11, <3>1
    <3>3. new[i] = Rank(W, to[k])
      <4>1. to[k] \in W /\ t[to[k]].id = i
        BY <1>4, <1>11, <3>1
      <4> QED BY <1>2, <4>1
    <3>4. Rank(B, to[k]) = Rank(A, k) /\ to[k] \in Nat /\ Rank(A, k) \in Nat
      BY <1>6
    <3>5. /\ y <= to[k] => Rank(B \cup {y}, to[k]) = Rank(B, to[k]) + 1
          /\ ~(y <= to[k]) => Rank(B \cup {y}, to[k]) = Rank(B, to[k])
      BY <1>5, <1>11, <2>6, <3>4, RankAdds
    <3> QED BY <1>11, <3>2, <3>3, <3>4, <3>5
  <2> QED BY <2>2, <2>4, <2>5, <2>7, MissedAdds
<1>12. ASSUME NEW x \in gone, V = A \cup {x}, x \notin A, NEW k \in A
       PROVE  /\ rank[s[k].id] = Rank(V, k)
              /\ x <= k => Rank(V, k) = Rank(A, k) + 1
              /\ ~(x <= k) => Rank(V, k) = Rank(A, k)
  <2>1. x \in Nat /\ k \in Nat /\ k \in V
    BY <1>3, <1>6, <1>12
  <2>2. /\ x <= k => Rank(A \cup {x}, k) = Rank(A, k) + 1
        /\ ~(x <= k) => Rank(A \cup {x}, k) = Rank(A, k)
    BY <1>5, <1>12, <2>1, RankAdds
  <2> QED BY <1>1, <1>12, <2>1, <2>2
<1>13. ASSUME NEW x \in gone, V = A \cup {x}, x \notin A, W = B
       PROVE  Missed(U, new, c, q) <= Missed(U, rank, c, q) + 1
  <2>1. PICK e : e = s[x].id
    OBVIOUS
  <2>2. PICK J : J = {s[k].id : k \in V}
    OBVIOUS
  <2>3. e \in J /\ J = I \cup {e}
    BY <1>13, <2>1, <2>2 DEF I
  <2>4. e \notin I
    <3> SUFFICES ASSUME NEW k \in A, s[k].id = e PROVE FALSE
      BY <1>9
    <3>1. k \in 1..n /\ x \in 1..n
      BY <1>3, <1>4
    <3>2. k = x
      BY <2>1, <3>1 DEF Named
    <3> QED BY <1>13, <3>2
  <2>5. J \ {e} = I
    BY <2>3, <2>4
  <2>6. rank \in [J -> Nat] /\ IsFiniteSet(J) /\ \A i, j \in J : rank[i] = rank[j] => i = j
    BY <1>1, <2>2
  <2>7. new \in [J \ {e} -> Nat]
    BY <1>2, <1>7, <1>13, <2>5
  <2>8. x \in Nat /\ x \in V
    BY <1>3, <1>13
  <2>9. ASSUME NEW i \in J \ {e}
        PROVE  rank[i] <= new[i] + 1 /\ (rank[i] < rank[e] => rank[i] <= new[i])
    <3>1. PICK k \in A : i = s[k].id
      BY <1>9, <2>5
    <3>2. new[i] = Rank(A, k)
      <4>1. to[k] \in W /\ t[to[k]].id = i
        BY <1>4, <1>13, <3>1
      <4>2. new[i] = Rank(W, to[k])
        BY <1>2, <4>1
      <4> QED BY <1>6, <1>13, <4>2
    <3>3. /\ rank[i] = Rank(V, k)
          /\ x <= k => Rank(V, k) = Rank(A, k) + 1
          /\ ~(x <= k) => Rank(V, k) = Rank(A, k)
      BY <1>12, <1>13, <3>1
    <3>4. rank[e] = Rank(V, x)
      BY <1>1, <2>1, <2>8
    <3>5. x <= k => Rank(V, x) <= Rank(V, k)
      BY <1>1, <1>5, <1>6, <2>8, RankRises
    <3>6. Rank(A, k) \in Nat /\ Rank(V, x) \in Nat
      BY <1>1, <1>5, <1>6, <2>8, RankRises
    <3> QED BY <3>2, <3>3, <3>4, <3>5, <3>6
  <2> QED BY <2>3, <2>6, <2>7, <2>9, MissedRemoves
<1>14. ASSUME NEW x \in gone, V = A \cup {x}, x \notin A,
              NEW y \in come, W = B \cup {y}, y \notin B, t[y].id = s[x].id
       PROVE  Missed(U, new, c, q) <= Missed(U, rank, c, q) + 1
  <2>1. PICK e : e = s[x].id
    OBVIOUS
  <2>2. PICK J : J = {s[k].id : k \in V}
    OBVIOUS
  <2>3. e \in J /\ J = I \cup {e}
    BY <1>14, <2>1, <2>2 DEF I
  <2>4. {t[k].id : k \in W} = J
    BY <1>7, <1>14, <2>1, <2>3
  <2>5. rank \in [J -> Nat] /\ IsFiniteSet(J) /\ \A i, j \in J : rank[i] = rank[j] => i = j
    BY <1>1, <2>2
  <2>6. new \in [J -> Nat]
    BY <1>2, <2>4
  <2>7. x \in Nat /\ y \in Nat /\ x \in V /\ y \in W
    BY <1>3, <1>14
  <2>8. rank[e] = Rank(A, x) + 1 /\ new[e] = Rank(B, y) + 1 /\ Rank(A, x) \in Nat /\ Rank(B, y) \in Nat
    <3>1. rank[e] = Rank(V, x) /\ new[e] = Rank(W, y)
      BY <1>1, <1>2, <1>14, <2>1, <2>7
    <3>2. Rank(A \cup {x}, x) = Rank(A, x) + 1 /\ Rank(A, x) \in Nat
      <4>1. x <= x
        BY <2>7
      <4>2. Rank(A, x) \in Nat
        BY <1>5, <2>7, RankRises
      <4>3. x <= x => Rank(A \cup {x}, x) = Rank(A, x) + 1
        BY <1>5, <1>14, <2>7, RankAdds
      <4> QED BY <4>1, <4>2, <4>3
    <3>3. Rank(B \cup {y}, y) = Rank(B, y) + 1 /\ Rank(B, y) \in Nat
      <4>1. y <= y
        BY <2>7
      <4>2. Rank(B, y) \in Nat
        BY <1>5, <2>7, RankRises
      <4>3. y <= y => Rank(B \cup {y}, y) = Rank(B, y) + 1
        BY <1>5, <1>14, <2>7, RankAdds
      <4> QED BY <4>1, <4>2, <4>3
    <3> QED BY <1>14, <3>1, <3>2, <3>3
  <2>9. ASSUME NEW k \in A
        PROVE  /\ rank[s[k].id] <= new[s[k].id] + 1
               /\ new[e] < rank[e] => rank[s[k].id] <= new[s[k].id]
    <3>1. /\ rank[s[k].id] = Rank(V, k)
          /\ x <= k => Rank(V, k) = Rank(A, k) + 1
          /\ ~(x <= k) => Rank(V, k) = Rank(A, k)
      BY <1>12, <1>14
    <3>2. new[s[k].id] = Rank(W, to[k])
      <4>1. to[k] \in W /\ t[to[k]].id = s[k].id
        BY <1>4, <1>14
      <4> QED BY <1>2, <4>1
    <3>3. Rank(B, to[k]) = Rank(A, k) /\ to[k] \in Nat /\ k \in Nat /\ Rank(A, k) \in Nat
      BY <1>6
    <3>4. /\ y <= to[k] => Rank(B \cup {y}, to[k]) = Rank(B, to[k]) + 1
          /\ ~(y <= to[k]) => Rank(B \cup {y}, to[k]) = Rank(B, to[k])
      BY <1>5, <1>14, <2>7, <3>3, RankAdds
    <3>5. to[k] <= y => Rank(B, to[k]) <= Rank(B, y)
      BY <1>5, <2>7, <3>3, RankRises
    <3>6. x <= k => Rank(A, x) <= Rank(A, k)
      BY <1>5, <2>7, <3>3, RankRises
    <3> QED BY <1>14, <2>7, <2>8, <3>1, <3>2, <3>3, <3>4, <3>5, <3>6
  <2>10. \A i \in J : i = e \/ \E k \in A : i = s[k].id
    BY <1>9, <2>3
  <2>11. CASE new[e] < rank[e]
    <3>1. \A i \in J : i # e => rank[i] <= new[i]
      BY <2>9, <2>10, <2>11
    <3> QED BY <2>3, <2>5, <2>6, <3>1, MissedMoves
  <2>12. CASE ~(new[e] < rank[e])
    <3>1. rank[e] <= new[e] /\ rank[e] <= new[e] + 1
      BY <2>8, <2>12
    <3>2. \A i \in J : rank[i] <= new[i] + 1
      BY <2>9, <2>10, <3>1
    <3> QED BY <2>3, <2>5, <2>6, <3>1, <3>2, MissedMoves
  <2> QED BY <2>11, <2>12
<1>15. CASE \E y : gone = {} /\ come = {y}
  <2>1. PICK y : gone = {} /\ come = {y}
    BY <1>15
  <2>2. V = A /\ (W = B \/ (W = B \cup {y} /\ y \notin B))
    BY <2>1 DEF A, B
  <2> QED BY <1>0, <1>10, <1>11, <2>1, <2>2
<1>16. CASE \E x : gone = {x} /\ come = {}
  <2>1. PICK x : gone = {x} /\ come = {}
    BY <1>16
  <2>2. W = B /\ (V = A \/ (V = A \cup {x} /\ x \notin A))
    BY <2>1 DEF A, B
  <2> QED BY <1>0, <1>10, <1>13, <2>1, <2>2
<1>17. CASE \E x, y : gone = {x} /\ come = {y} /\ t[y].id = s[x].id
  <2>1. PICK x, y : gone = {x} /\ come = {y} /\ t[y].id = s[x].id
    BY <1>17
  <2>2. V = A \/ (V = A \cup {x} /\ x \notin A)
    BY <2>1 DEF A
  <2>3. W = B \/ (W = B \cup {y} /\ y \notin B)
    BY <2>1 DEF B
  <2> QED BY <1>0, <1>10, <1>11, <1>13, <1>14, <2>1, <2>2, <2>3
<1> QED BY <1>15, <1>16, <1>17

\* Lemma: a view that a swap of rows does not touch keeps its ids and its ranks.
LEMMA RanksKept ==
  ASSUME NEW s, NEW t, NEW n \in Nat, NEW m \in Nat, n = Len(s), m = Len(t),
         Named(s, n), Named(t, m),
         NEW gone, NEW come, NEW to, Shifts(s, t, gone, come, to),
         NEW V \in SUBSET ((1..n) \ gone), NEW W \in SUBSET ((1..m) \ come),
         \A k \in (1..n) \ gone : k \in V <=> to[k] \in W
  PROVE  RankOf(t, W) = RankOf(s, V)
<1>0. PICK rank, new : rank = RankOf(s, V) /\ new = RankOf(t, W)
  OBVIOUS
<1>1. /\ IsFiniteSet(V) /\ rank \in [{s[k].id : k \in V} -> Nat]
      /\ \A k \in V : rank[s[k].id] = Rank(V, k)
  <2>1. Ranks(s, V, RankOf(s, V))
    BY RankOfTyped
  <2> QED BY <1>0, <2>1 DEF Ranks
<1>2. /\ IsFiniteSet(W) /\ new \in [{t[k].id : k \in W} -> Nat]
      /\ \A k \in W : new[t[k].id] = Rank(W, k)
  <2>1. Ranks(t, W, RankOf(t, W))
    BY RankOfTyped
  <2> QED BY <1>0, <2>1 DEF Ranks
<1>3. /\ to \in [(1..n) \ gone -> (1..m) \ come]
      /\ \A j, k \in (1..n) \ gone : j < k => to[j] < to[k]
      /\ \A l \in (1..m) \ come : \E k \in (1..n) \ gone : to[k] = l
      /\ \A k \in (1..n) \ gone : t[to[k]] = s[k]
  BY DEF Shifts
<1> DEFINE f == [l \in V |-> to[l]]
<1>4. f \in [V -> W] /\ \A l \in V : f[l] = to[l] /\ t[f[l]] = s[l]
  BY <1>3
<1>5. \A l \in W : \E j \in V : f[j] = l
  BY <1>3, <1>4
<1>6. V \in SUBSET Nat /\ W \in SUBSET Nat
  OBVIOUS
<1>7. ASSUME NEW k \in V
      PROVE  new[s[k].id] = rank[s[k].id]
  <2>1. \A j, l \in V : j < l => f[j] < f[l]
    BY <1>3, <1>4
  <2> HIDE DEF f
  <2>2. Rank(W, f[k]) = Rank(V, k)
    <3>1. Slides(V, W, f)
      BY <1>4, <1>5, <2>1 DEF Slides
    <3>2. IsFiniteSet(V)
      BY <1>1
    <3>3. SameRanks(V, W, f)
      BY <1>6, <3>1, <3>2, RankCarried
    <3> QED BY <3>3 DEF SameRanks
  <2>3. new[t[f[k]].id] = Rank(W, f[k])
    BY <1>2, <1>4
  <2> QED BY <1>1, <1>4, <2>2, <2>3
<1> HIDE DEF f
<1>8. {t[k].id : k \in W} = {s[k].id : k \in V}
  <2>1. \A l \in W : \E k \in V : s[k] = t[l]
    BY <1>4, <1>5
  <2>2. \A k \in V : \E l \in W : t[l] = s[k]
    BY <1>4
  <2>3. {t[k].id : k \in W} \subseteq {s[k].id : k \in V}
    <3> SUFFICES ASSUME NEW l \in W PROVE t[l].id \in {s[k].id : k \in V}
      OBVIOUS
    <3>1. PICK k \in V : s[k] = t[l]
      BY <2>1
    <3> QED BY <3>1
  <2>4. {s[k].id : k \in V} \subseteq {t[k].id : k \in W}
    <3> SUFFICES ASSUME NEW k \in V PROVE s[k].id \in {t[l].id : l \in W}
      OBVIOUS
    <3>1. PICK l \in W : t[l] = s[k]
      BY <2>2
    <3> QED BY <3>1
  <2> QED BY <2>3, <2>4
<1>9. PICK I : I = {s[k].id : k \in V}
  OBVIOUS
<1>10. \A i \in I : new[i] = rank[i]
  BY <1>7, <1>9
<1>11. rank \in [I -> Nat] /\ new \in [I -> Nat]
  BY <1>1, <1>2, <1>8, <1>9
<1>12. rank = new
  BY <1>10, <1>11
<1> QED BY <1>0, <1>12

\* Lemma: a view has as many ids as rows.
LEMMA IdsCounted ==
  ASSUME NEW s, NEW n \in Nat, NEW V \in SUBSET (1..n), Named(s, n)
  PROVE  Cardinality({s[k].id : k \in V}) = Cardinality(V)
<1> DEFINE I == {s[k].id : k \in V}
           f == [k \in V |-> s[k].id]
<1>1. IsFiniteSet(V)
  <2>1. IsFiniteSet(1..n)
    BY FS_Interval
  <2> QED BY <2>1, FS_Subset
<1>2. f \in Bijection(V, I)
  <2>1. \A j, k \in V : f[j] = f[k] => j = k
    BY DEF Named
  <2>2. f \in [V -> I] /\ \A i \in I : \E k \in V : f[k] = i
    OBVIOUS
  <2> QED BY <2>1, <2>2 DEF Bijection, Injection, Surjection, IsInjective
<1>3. ExistsBijection(V, I)
  BY <1>2 DEF ExistsBijection
<1> QED BY <1>1, <1>3, FS_Bijection

\* Lemma: of two views of the same rows, a reader misses at most as many more of the second
\* as the two differ by.
LEMMA ViewsDiffer ==
  ASSUME NEW S, NEW s \in Seq(S), NEW n \in Nat, n = Len(s), Named(s, n),
         NEW U, IsFiniteSet(U), NEW c \in Nat, NEW q \in Total,
         NEW A \in SUBSET (1..n), NEW B \in SUBSET (1..n)
  PROVE  Missed(U, RankOf(s, B), c, q)
           <= Missed(U, RankOf(s, A), c, q) + Cardinality((A \ B) \cup (B \ A))
<1> DEFINE VV == SUBSET (1..n)
           mis == [V \in VV |-> Missed(U, RankOf(s, V), c, q)]
           D(V, W) == (V \ W) \cup (W \ V)
           Bad == {m \in Nat : \E V, W \in VV : Cardinality(D(V, W)) = m /\ ~(mis[W] <= mis[V] + m)}
<1>1. \A V \in VV : mis[V] = Missed(U, RankOf(s, V), c, q)
  OBVIOUS
<1>2. ASSUME NEW V \in VV
      PROVE  mis[V] \in Nat
  <2>1. Ranks(s, V, RankOf(s, V))
    BY RankOfTyped
  <2>2. DOMAIN RankOf(s, V) = {s[k].id : k \in V}
    BY DEF RankOf
  <2>3. IsFiniteSet(DOMAIN RankOf(s, V))
    BY <2>1, <2>2 DEF Ranks
  <2> QED BY <2>3, MissedTyped
<1>3. ASSUME NEW V \in VV, NEW W \in VV, NEW x \in 1..n, \A k \in (1..n) \ {x} : k \in V <=> k \in W
      PROVE  mis[W] <= mis[V] + 1
  <2>1. Stays(s, s, x)
    BY EditShifts
  <2>2. PICK to : Shifts(s, s, {x}, {x}, to) /\ \A k \in (1..n) \ {x} : to[k] = k
    BY <2>1 DEF Stays
  <2>3. \A k \in (1..n) \ {x} : k \in V <=> to[k] \in W
    BY <1>3, <2>2
  <2>4. \E y, z : {x} = {y} /\ {x} = {z} /\ s[z].id = s[y].id
    OBVIOUS
  <2>5. Missed(U, RankOf(s, W), c, q) <= Missed(U, RankOf(s, V), c, q) + 1
    BY <2>2, <2>3, <2>4, ViewSwapped
  <2> QED BY <1>1, <2>5
<1>4. ASSUME NEW V \in VV, NEW W \in VV
      PROVE  IsFiniteSet(D(V, W)) /\ Cardinality(D(V, W)) \in Nat
  <2>1. IsFiniteSet(1..n)
    BY FS_Interval
  <2>2. IsFiniteSet(D(V, W))
    <3>1. D(V, W) \in SUBSET (1..n)
      OBVIOUS
    <3> QED BY <2>1, <3>1, FS_Subset
  <2> QED BY <2>2, FS_CardinalityType
<1> HIDE DEF mis
<1>5. ASSUME Bad # {} PROVE FALSE
  <2>1. Bad \in SUBSET Nat
    OBVIOUS
  <2>2. PICK m \in Bad : \A k \in Bad : m <= k
    BY <1>5, <2>1, LeastElement
  <2>3. PICK V \in VV, W \in VV : Cardinality(D(V, W)) = m /\ ~(mis[W] <= mis[V] + m)
    BY <2>2
  <2>4. m \in Nat
    BY <2>1
  <2>5. CASE D(V, W) = {}
    <3>1. V = W /\ m = 0
      BY <2>3, <2>5, FS_EmptySet
    <3> QED BY <1>2, <2>3, <3>1
  <2>6. ASSUME NEW x \in D(V, W) PROVE FALSE
    <3>1. PICK X : X = IF x \in V THEN V \ {x} ELSE V \cup {x}
      OBVIOUS
    <3>2. X \in VV /\ x \in 1..n /\ \A k \in (1..n) \ {x} : k \in V <=> k \in X
      BY <2>6, <3>1
    <3>3. D(X, W) = D(V, W) \ {x}
      BY <2>6, <3>1
    <3>4. Cardinality(D(X, W)) = m - 1 /\ m - 1 \in Nat
      <4>1. IsFiniteSet(D(V, W))
        BY <1>4
      <4>2. Cardinality(D(V, W) \ {x}) = m - 1
        <5>1. PICK d : d = D(V, W)
          OBVIOUS
        <5>2. IsFiniteSet(d) /\ x \in d /\ Cardinality(d) = m
          BY <2>3, <2>6, <4>1, <5>1
        <5>3. Cardinality(d \ {x}) = m - 1
          BY <5>2, FS_RemoveElement
        <5> QED BY <5>1, <5>3
      <4>3. Cardinality(D(X, W)) \in Nat
        BY <1>4, <3>2
      <4> QED BY <3>3, <4>2, <4>3
    <3>5. m - 1 \notin Bad
      <4> HIDE DEF Bad
      <4>1. ~(m <= m - 1)
        BY <2>4
      <4> QED BY <2>2, <4>1
    <3>6. mis[W] <= mis[X] + (m - 1)
      BY <3>2, <3>4, <3>5
    <3>7. mis[X] <= mis[V] + 1
      BY <1>3, <3>2
    <3>8. mis[W] \in Nat /\ mis[X] \in Nat /\ mis[V] \in Nat
      BY <1>2, <3>2
    <3> HIDE DEF D, Bad
    <3> QED BY <2>3, <2>4, <3>6, <3>7, <3>8
  <2> QED BY <2>5, <2>6
<1>6. mis[B] <= mis[A] + Cardinality(D(A, B))
  <2>1. Cardinality(D(A, B)) \notin Bad
    BY <1>5
  <2>2. Cardinality(D(A, B)) \in Nat
    BY <1>4
  <2> QED BY <2>1, <2>2
<1> QED BY <1>1, <1>6

-----------------------------------------------------------------------------
(* What is owed during a read-through. *)

\* The rows a query of the page under way finds, or would find.
View ==
  IF request.pc = "reading" THEN RowsFor(applied, request.scope) ELSE RowsNow(applied)

\* The rows of the read-through that are still to be read.
Unread ==
  reading.base \ (reading.seen \cup IF request = NoRequest THEN {} ELSE request.rows)

\* How many rows the pages read so far should have, and the number of rows last counted.
Span ==
  IF request = NoRequest THEN leaf.page * limit + limit
  ELSE IF "rows" \in request.got THEN request.page * limit + limit
  ELSE request.page * limit
Counted == IF request = NoRequest THEN leaf.total ELSE request.total

\* What is in one of two sets and not in the other.
Apart(A, B) == (A \ B) \cup (B \ A)

\* What the reader has missed, and may yet miss as the list differs from what was queried for.
Owed ==
  Missed(Unread, RankOf(listing, View), Span, Counted)
    + Cardinality(Apart(IdsOf(View), ListedNow(applied)))

PageAsked ==
  request # NoRequest =>
    /\ leaf.total = -1
    /\ "rows" \notin request.got => request.rows = {}
    /\ "total" \notin request.got => request.total = -1
    /\ request.pc = "asked" => request.got = {}

\* A scope is what it would be now; that of a log is of requests there are.
Scoped ==
  request.pc = "reading" /\ reading.steady =>
    IF book = "audit" THEN request.scope \subseteq 1..born
    ELSE book \in {"registrations", "products"} \/ request.scope = ScopeOf(applied)

OwedInv ==
  reading.steady /\ (request = NoRequest => leaf.total # -1) => Owed <= reading.moved

ReadInv == ListInv /\ PageAsked /\ Scoped /\ OwedInv

\* The log of the requests at one location, being read: the one view that can be stale.
Stale == request.pc = "reading" /\ book = "audit" /\ applied.hall # Everything

\* Lemma: with less to read, fewer passed over and no lower number, no more is missed.
LEMMA MissedLess ==
  ASSUME NEW U, IsFiniteSet(U), NEW rank, IsFiniteSet(DOMAIN rank), NEW c, NEW q \in Total,
         NEW X, X \subseteq U, NEW d, Passed(X, rank, d) \subseteq Passed(U, rank, c),
         NEW t \in Total, Over(Cardinality(DOMAIN rank), t) <= Over(Cardinality(DOMAIN rank), q)
  PROVE  Missed(X, rank, d, t) <= Missed(U, rank, c, q)
<1>1. /\ IsFiniteSet(Passed(U, rank, c)) /\ Cardinality(Passed(U, rank, c)) \in Nat
      /\ IsFiniteSet(U \ DOMAIN rank) /\ Cardinality(U \ DOMAIN rank) \in Nat
      /\ Over(Cardinality(DOMAIN rank), q) \in Nat
  BY MissedTyped
<1>2. IsFiniteSet(X)
  BY NoMore
<1>3. Over(Cardinality(DOMAIN rank), t) \in Nat
  BY <1>2, MissedTyped
<1>4. Cardinality(Passed(X, rank, d)) <= Cardinality(Passed(U, rank, c)) /\ Cardinality(Passed(X, rank, d)) \in Nat
  BY <1>1, NoMore
<1>5. Cardinality(X \ DOMAIN rank) <= Cardinality(U \ DOMAIN rank) /\ Cardinality(X \ DOMAIN rank) \in Nat
  <2>1. X \ DOMAIN rank \subseteq U \ DOMAIN rank
    OBVIOUS
  <2> QED BY <1>1, <2>1, NoMore
<1> QED BY <1>1, <1>3, <1>4, <1>5 DEF Missed

\* Lemma: the rows of a table have names of their own.
LEMMA TableNamed ==
  ListTable => /\ Len(listing) \in Nat /\ DOMAIN listing = 1..Len(listing)
               /\ Named(listing, Len(listing))
  BY LenProperties DEF ListTable, Named

\* Lemma: what the view of a page under way is.
LEMMA ViewTyped ==
  ASSUME ListInv
  PROVE  /\ View \subseteq 1..Len(listing) /\ IsFiniteSet(View) /\ Cardinality(View) \in Nat
         /\ DOMAIN RankOf(listing, View) = IdsOf(View) /\ IsFiniteSet(IdsOf(View))
         /\ Cardinality(IdsOf(View)) = Cardinality(View)
         /\ Ranks(listing, View, RankOf(listing, View))
<1>1. ListTable
  BY DEF ListInv
<1>2. View \subseteq 1..Len(listing)
  BY <1>1, QueryFinds DEF View, RowsNow
<1>3. IsFiniteSet(View) /\ Cardinality(View) \in Nat /\ IsFiniteSet(IdsOf(View))
  BY <1>1, <1>2, RowsFound
<1>4. DOMAIN RankOf(listing, View) = IdsOf(View)
  BY DEF RankOf, IdsOf
<1>5. Ranks(listing, View, RankOf(listing, View))
  BY <1>1, <1>2, TableNamed, RankOfTyped
<1>6. Cardinality(IdsOf(View)) = Cardinality(View)
  <2>1. Cardinality({listing[k].id : k \in View}) = Cardinality(View)
    BY <1>1, <1>2, TableNamed, IdsCounted
  <2> QED BY <2>1 DEF IdsOf
<1> QED BY <1>2, <1>3, <1>4, <1>5, <1>6

\* Lemma: what a reader has left to read, has passed and has been told are numbers.
LEMMA OwedTyped ==
  ASSUME ListInv
  PROVE  /\ IsFiniteSet(Unread) /\ Span \in Nat /\ Counted \in Total /\ limit \in Nat /\ limit > 0
         /\ Missed(Unread, RankOf(listing, View), Span, Counted) \in Nat
         /\ IsFiniteSet(Apart(IdsOf(View), ListedNow(applied)))
         /\ Cardinality(Apart(IdsOf(View), ListedNow(applied))) \in Nat
         /\ reading.moved \in Nat
<1>1. /\ limit \in Nat /\ limit > 0 /\ leaf \in [rows : SUBSET Nat, total : Total, page : Nat]
      /\ request \in PageQuery \cup {NoRequest}
      /\ reading \in [base : SUBSET (1..MaxListed), seen : SUBSET Nat, moved : Nat, steady : BOOLEAN]
  BY ListingsAssumption DEF ListInv, ListPage
<1>2. request # NoRequest => request.page \in Nat /\ request.total \in Total
  BY <1>1 DEF PageQuery
<1>3. IsFiniteSet(Unread)
  <2>1. IsFiniteSet(1..MaxListed)
    BY ListingsAssumption, FS_Interval
  <2>2. Unread \in SUBSET (1..MaxListed)
    BY <1>1 DEF Unread
  <2> QED BY <2>1, <2>2, FS_Subset
<1>4. \A p \in Nat : p * limit \in Nat /\ p * limit + limit \in Nat
  BY <1>1
<1>5. Span \in Nat /\ Counted \in Total
  BY <1>1, <1>2, <1>4 DEF Span, Counted
<1>6. Missed(Unread, RankOf(listing, View), Span, Counted) \in Nat
  <2>1. IsFiniteSet(DOMAIN RankOf(listing, View))
    BY ViewTyped
  <2> QED BY <1>3, <1>5, <2>1, MissedTyped
<1>7. IsFiniteSet(Apart(IdsOf(View), ListedNow(applied)))
  <2>1. IsFiniteSet(ListedNow(applied))
    BY ListedKnown DEF ListInv
  <2> QED BY <2>1, ViewTyped, FS_Union, FS_Difference DEF Apart
<1>8. Cardinality(Apart(IdsOf(View), ListedNow(applied))) \in Nat
  BY <1>7, FS_CardinalityType
<1> QED BY <1>1, <1>3, <1>5, <1>6, <1>7, <1>8

\* Lemma: all views but the stale one are the list itself.
LEMMA ViewIsNow ==
  ASSUME ListInv, Scoped, reading.steady, ~Stale
  PROVE  View = RowsNow(applied)
<1>1. CASE request.pc # "reading"
  BY <1>1 DEF View
<1>2. CASE request.pc = "reading" /\ book = "audit"
  <2>1. \A k \in DOMAIN listing : \A A, B : IsListed(listing[k], applied, A) <=> IsListed(listing[k], applied, B)
    BY <1>2 DEF Stale, IsListed, AuditListed
  <2> QED BY <1>2, <2>1 DEF View, RowsNow, RowsFor
<1>3. CASE request.pc = "reading" /\ book \in {"registrations", "products"}
  <2>1. \A k \in DOMAIN listing : \A A, B : IsListed(listing[k], applied, A) <=> IsListed(listing[k], applied, B)
    BY <1>3 DEF IsListed, RegistrationListed, ProductListed
  <2> QED BY <1>3, <2>1 DEF View, RowsNow, RowsFor
<1>4. CASE request.pc = "reading" /\ book # "audit" /\ request.scope = ScopeOf(applied)
  BY <1>4 DEF View, RowsNow
<1> QED BY <1>1, <1>2, <1>3, <1>4 DEF Scoped

\* Lemma: where the view is the list itself, only what has been passed is owed.
LEMMA NothingApart ==
  ASSUME View = RowsNow(applied)
  PROVE  Cardinality(Apart(IdsOf(View), ListedNow(applied))) = 0
<1>1. Apart(IdsOf(View), ListedNow(applied)) = {}
  BY DEF Apart, ListedNow
<1> QED BY <1>1, FS_EmptySet

\* Lemma: a list asked for anew owes nothing.
LEMMA OwedAnew ==
  ListInv /\ request = ToFetch(0) /\ leaf = NotShown /\ reading = Anew(applied)
    => PageAsked /\ Scoped /\ OwedInv
<1> SUFFICES ASSUME ListInv, request = ToFetch(0), leaf = NotShown, reading = Anew(applied)
             PROVE  PageAsked /\ Scoped /\ OwedInv
  OBVIOUS
<1>1. /\ request.page = 0 /\ request.got = {} /\ request.rows = {} /\ request.total = -1
      /\ request.pc \in {"asked", "reading"} /\ request # NoRequest
      /\ request.pc = "reading" => book \in {"registrations", "products"}
  BY DEF ToFetch, NoRequest
<1>2. leaf.total = -1
  BY DEF NotShown
<1>3. /\ reading.base = ListedNow(applied) /\ reading.seen = {} /\ reading.moved = 0
      /\ reading.steady
  BY DEF Anew
<1>4. PageAsked /\ Scoped
  BY <1>1, <1>2 DEF PageAsked, Scoped
<1>5. View = RowsNow(applied)
  BY <1>1, <1>3, <1>4, ViewIsNow DEF Stale
<1>6. Unread = IdsOf(View) /\ Counted = -1
  BY <1>1, <1>3, <1>5 DEF Unread, Counted, ListedNow
<1>7. Span = 0
  BY <1>1, OwedTyped DEF Span
<1>8. PICK rank : rank = RankOf(listing, View)
  OBVIOUS
<1>9. DOMAIN rank = IdsOf(View) /\ \A i \in DOMAIN rank : ~(rank[i] <= 0)
  <2>1. DOMAIN rank = IdsOf(View) /\ \A k \in View : rank[listing[k].id] = Rank(View, k)
    BY <1>8, ViewTyped DEF Ranks
  <2>2. \A k \in View : 1 <= Rank(View, k) /\ Rank(View, k) \in Nat
    <3> TAKE k \in View
    <3>1. View \in SUBSET Nat /\ IsFiniteSet(View) /\ k \in Nat
      BY ViewTyped
    <3> QED BY <3>1, RankRises
  <2>3. \A k \in View : ~(rank[listing[k].id] <= 0)
    BY <2>1, <2>2
  <2> QED BY <2>1, <2>3 DEF IdsOf
<1>10. Passed(Unread, rank, 0) = {} /\ Unread \ DOMAIN rank = {}
  BY <1>6, <1>9 DEF Passed
<1>11. Missed(Unread, rank, 0, -1) = 0
  BY <1>10, FS_EmptySet DEF Missed, Over
<1>12. Owed = 0
  BY <1>5, <1>6, <1>7, <1>8, <1>11, NothingApart DEF Owed
<1> QED BY <1>3, <1>4, <1>12 DEF OwedInv

\* Lemma: at the last page, what is owed bounds the rows that were not shown.
LEMMA OwedCounts == ReadInv => ReadThroughMissesFew
<1> SUFFICES ASSUME ReadInv, leaf.total # -1, LastPage, reading.steady
             PROVE  Cardinality((reading.base \cap ListedNow(applied)) \ reading.seen) <= reading.moved
  BY DEF ReadThroughMissesFew
<1>1. ListInv /\ Scoped /\ request = NoRequest
  BY DEF ReadInv, PageAsked
<1>2. request.pc # "reading"
  BY <1>1 DEF NoRequest
<1>3. View = RowsNow(applied)
  BY <1>2 DEF View
<1>4. PICK rank : rank = RankOf(listing, View)
  OBVIOUS
<1>5. PICK n : n = Cardinality(View)
  OBVIOUS
<1>6. /\ DOMAIN rank = ListedNow(applied) /\ IsFiniteSet(DOMAIN rank) /\ n \in Nat
      /\ Cardinality(DOMAIN rank) = n
  BY <1>1, <1>3, <1>4, <1>5, ViewTyped DEF ListedNow
<1>7. \A i \in DOMAIN rank : rank[i] \in Nat /\ rank[i] <= n
  <2>1. /\ \A k \in View : rank[listing[k].id] = Rank(View, k)
        /\ DOMAIN rank = IdsOf(View)
    BY <1>1, <1>4, ViewTyped DEF Ranks
  <2>2. \A k \in View : Rank(View, k) \in Nat /\ Rank(View, k) <= n
    <3> TAKE k \in View
    <3>1. View \in SUBSET Nat /\ IsFiniteSet(View) /\ k \in Nat
      BY <1>1, ViewTyped
    <3> QED BY <1>5, <3>1, RankRises
  <2> QED BY <2>1, <2>2 DEF IdsOf
<1>8. \A i, j \in DOMAIN rank : rank[i] = rank[j] => i = j
  <2>1. DOMAIN rank = IdsOf(View) /\ \A i, j \in IdsOf(View) : rank[i] = rank[j] => i = j
    BY <1>1, <1>4, ViewTyped DEF Ranks, IdsOf
  <2> QED BY <2>1
<1>9. PICK c, t : c = Span /\ t = Counted
  OBVIOUS
<1>10. c \in Nat /\ t \in Nat /\ c >= t /\ IsFiniteSet(Unread)
  <2>1. c = leaf.page * limit + limit /\ t = leaf.total
    BY <1>1, <1>9 DEF Span, Counted
  <2>2. leaf.page \in Nat /\ limit \in Nat /\ leaf.total \in Nat
    BY <1>1, OwedTyped DEF ListInv, ListPage, Total
  <2>3. (leaf.page + 1) * limit = leaf.page * limit + limit
    BY <2>2
  <2>4. c >= t
    BY <2>1, <2>3 DEF LastPage
  <2>5. c \in Nat /\ IsFiniteSet(Unread)
    BY <1>1, <1>9, OwedTyped
  <2> QED BY <2>1, <2>2, <2>4, <2>5
<1>11. Unread = reading.base \ reading.seen
  BY <1>1 DEF Unread
<1> DEFINE P == Passed(Unread, rank, c)
           H == {i \in DOMAIN rank : ~(rank[i] <= c)}
           Lost == (reading.base \cap ListedNow(applied)) \ reading.seen
<1>12. Lost \subseteq P \cup H
  BY <1>6, <1>11 DEF Passed
<1>13. IsFiniteSet(H) /\ Cardinality(H) \in Nat /\ Cardinality(H) <= Over(n, t)
  <2>1. IsFiniteSet(H) /\ Cardinality(H) \in Nat
    <3>1. H \subseteq DOMAIN rank
      OBVIOUS
    <3> QED BY <1>6, <3>1, NoMore
  <2>2. CASE n <= c
    <3>1. H = {}
      BY <1>6, <1>7, <1>10, <2>2
    <3>2. Cardinality(H) = 0 /\ Over(n, t) \in Nat
      BY <1>6, <1>10, <3>1, FS_EmptySet DEF Over
    <3> QED BY <2>1, <3>2
  <2>3. CASE ~(n <= c)
    <3> DEFINE f == [i \in H |-> rank[i]]
    <3>1. \A i \in H : rank[i] \in c + 1 .. n
      BY <1>6, <1>7, <1>10
    <3>2. f \in Injection(H, c + 1 .. n)
      BY <1>8, <3>1 DEF Injection, IsInjective
    <3>3. c + 1 \in Int /\ n \in Int /\ c + 1 <= n
      BY <1>6, <1>10, <2>3
    <3>4. IsFiniteSet(c + 1 .. n) /\ Cardinality(c + 1 .. n) = n - (c + 1) + 1
      BY <3>3, FS_Interval
    <3> HIDE DEF f, H
    <3>5. Cardinality(H) <= Cardinality(c + 1 .. n)
      BY <3>2, <3>4, FS_Injection
    <3>6. Over(n, t) = n - t
      BY <1>6, <1>10, <2>3 DEF Over
    <3> QED BY <1>6, <1>10, <2>1, <3>4, <3>5, <3>6
  <2> QED BY <2>2, <2>1, <2>3
<1>14. /\ IsFiniteSet(P) /\ Cardinality(P) \in Nat /\ Cardinality(Unread \ DOMAIN rank) \in Nat
       /\ Over(n, t) \in Nat
  <2>1. t \in Total
    BY <1>10 DEF Total
  <2> QED BY <1>6, <1>10, <2>1, MissedTyped
<1>15. Cardinality(Lost) <= Cardinality(P) + Cardinality(H) /\ Cardinality(Lost) \in Nat
  <2> HIDE DEF P, H, Lost
  <2>1. /\ IsFiniteSet(P \cup H)
        /\ Cardinality(P \cup H) = Cardinality(P) + Cardinality(H) - Cardinality(P \cap H)
    BY <1>13, <1>14, FS_Union
  <2>2. Cardinality(P \cap H) \in Nat
    <3>1. IsFiniteSet(P \cap H)
      BY <1>13, FS_Intersection
    <3> QED BY <3>1, FS_CardinalityType
  <2>3. Cardinality(Lost) <= Cardinality(P \cup H) /\ Cardinality(Lost) \in Nat
    BY <1>12, <2>1, NoMore
  <2> QED BY <1>13, <1>14, <2>1, <2>2, <2>3
<1>16. Owed = Missed(Unread, rank, c, t)
  <2>1. Missed(Unread, rank, c, t) \in Nat
    BY <1>1, <1>4, <1>9, OwedTyped
  <2>2. Cardinality(Apart(IdsOf(View), ListedNow(applied))) = 0
    BY <1>3, NothingApart
  <2> QED BY <1>4, <1>9, <2>1, <2>2 DEF Owed
<1>17. Owed <= reading.moved /\ reading.moved \in Nat
  BY <1>1, OwedTyped DEF ReadInv, OwedInv
<1>18. Missed(Unread, rank, c, t) = Cardinality(P) + Cardinality(Unread \ DOMAIN rank) + Over(n, t)
  BY <1>6 DEF Missed
<1> HIDE DEF P, H, Lost
<1>19. Cardinality(Lost) <= reading.moved
  BY <1>13, <1>14, <1>15, <1>16, <1>17, <1>18
<1> QED BY <1>19 DEF Lost

-----------------------------------------------------------------------------
(* Steps of the page. *)

\* Lemma: while the table, the roles and the filter stay, a query finds the same rows.
LEMMA SameList ==
  UNCHANGED <<book, listing, reader, applied>> =>
    /\ UNCHANGED <<RowsNow(applied), ListedNow(applied), ScopeOf(applied)>>
    /\ request'.pc = "reading" => View' = RowsFor(applied, request'.scope)
    /\ request'.pc # "reading" => View' = RowsNow(applied)
<1> SUFFICES ASSUME UNCHANGED <<book, listing, reader, applied>>
             PROVE  /\ UNCHANGED <<RowsNow(applied), ListedNow(applied), ScopeOf(applied)>>
                    /\ request'.pc = "reading" => View' = RowsFor(applied, request'.scope)
                    /\ request'.pc # "reading" => View' = RowsNow(applied)
  OBVIOUS
<1> USE DEF IsListed, TransferListed, AdjustmentListed, LedgerListed, AuditListed,
            RegistrationListed, ProductListed, Marked, Within
<1>1. UNCHANGED ScopeOf(applied)
  BY DEF ScopeOf, RequestScope, LedgerScope, Visible, AuditScope
<1>2. UNCHANGED RowsNow(applied)
  BY <1>1 DEF RowsNow, RowsFor
<1>3. UNCHANGED ListedNow(applied)
  BY <1>2 DEF ListedNow, IdsOf
<1>4. request'.pc = "reading" => View' = RowsFor(applied, request'.scope)
  BY DEF View, RowsFor
<1>5. request'.pc # "reading" => View' = RowsNow(applied)
  BY <1>2 DEF View
<1> QED BY <1>1, <1>2, <1>3, <1>4, <1>5

\* Lemma: a step of the page that leaves the table and the view as they are, reads no more,
\* passes over no more and forgets no number owes no more than before.
LEMMA QuietOwes ==
  ASSUME ListInv, UNCHANGED <<book, listing, reader, applied>>, View' = View,
         Unread' \subseteq Unread,
         Passed(Unread', RankOf(listing, View), Span') \subseteq Passed(Unread, RankOf(listing, View), Span),
         Counted' \in Total, Over(Cardinality(View), Counted') <= Over(Cardinality(View), Counted)
  PROVE  Owed' <= Owed /\ Owed \in Nat /\ Owed' \in Nat
<1>1. PICK rank, R : rank = RankOf(listing, View) /\ R = View
  OBVIOUS
<1>2. RankOf(listing, View)' = rank
  BY <1>1 DEF RankOf, Rank
<1>3. IdsOf(View)' = IdsOf(View) /\ ListedNow(applied)' = ListedNow(applied)
  BY SameList DEF IdsOf
<1>4. IsFiniteSet(DOMAIN rank) /\ Cardinality(DOMAIN rank) = Cardinality(View)
  BY <1>1, ViewTyped
<1>5. IsFiniteSet(Unread) /\ Counted \in Total
  BY OwedTyped
<1>6. Missed(Unread', rank, Span', Counted') <= Missed(Unread, rank, Span, Counted)
  <2>1. PICK U, X, c, d, q, t : /\ U = Unread /\ X = Unread' /\ c = Span /\ d = Span'
                                /\ q = Counted /\ t = Counted'
    OBVIOUS
  <2>2. /\ IsFiniteSet(U) /\ X \subseteq U /\ q \in Total /\ t \in Total
        /\ Passed(X, rank, d) \subseteq Passed(U, rank, c)
        /\ Over(Cardinality(DOMAIN rank), t) <= Over(Cardinality(DOMAIN rank), q)
    BY <1>1, <1>4, <1>5, <2>1
  <2>3. Missed(X, rank, d, t) <= Missed(U, rank, c, q)
    BY <1>4, <2>2, MissedLess
  <2> QED BY <2>1, <2>3
<1>7. PICK g : g = Cardinality(Apart(IdsOf(View), ListedNow(applied)))
  OBVIOUS
<1>8. g \in Nat /\ Missed(Unread, rank, Span, Counted) \in Nat
  BY <1>1, <1>7, OwedTyped
<1>9. Cardinality(Apart(IdsOf(View), ListedNow(applied)))' = g
  BY <1>3, <1>7 DEF Apart
<1>10. Missed(Unread, RankOf(listing, View), Span, Counted)' = Missed(Unread', rank, Span', Counted')
  BY <1>2 DEF Missed, Passed
<1>11. Missed(Unread', rank, Span', Counted') \in Nat
  <2>1. IsFiniteSet(Unread')
    BY <1>5, NoMore
  <2> QED BY <1>4, <2>1, MissedTyped
<1>12. Owed = Missed(Unread, rank, Span, Counted) + g
  BY <1>1, <1>7 DEF Owed
<1>13. Owed' = Missed(Unread', rank, Span', Counted') + g
  BY <1>9, <1>10 DEF Owed
<1> QED BY <1>6, <1>8, <1>11, <1>12, <1>13

\* Lemma: turning to the next page owes no more.
LEMMA TurnOwes == ReadInv /\ Turn => PageAsked' /\ Scoped' /\ OwedInv'
<1> SUFFICES ASSUME ReadInv, Turn PROVE PageAsked' /\ Scoped' /\ OwedInv'
  OBVIOUS
<1>1. /\ ListInv /\ leaf.total # -1 /\ request = NoRequest
      /\ UNCHANGED <<book, tableVars, reader, applied, limit, reading>>
      /\ request' = ToFetch(leaf.page + 1) /\ leaf' = [NotShown EXCEPT !.page = leaf.page + 1]
  BY DEF ReadInv, Turn, PageAsked
<1>2. /\ request'.page = leaf.page + 1 /\ request'.got = {} /\ request'.rows = {}
      /\ request'.total = -1 /\ request'.scope = {} /\ request' # NoRequest /\ leaf'.total = -1
      /\ request'.pc = IF book \in {"registrations", "products"} THEN "reading" ELSE "asked"
  BY <1>1 DEF ToFetch, NoRequest, NotShown
<1>3. PageAsked'
  BY <1>2 DEF PageAsked
<1>4. Scoped'
  BY <1>1, <1>2 DEF Scoped
<1>5. View = RowsNow(applied)
  BY <1>1 DEF View, NoRequest
<1>6. View' = View
  <2>1. CASE book \in {"registrations", "products"}
    <3>1. View' = RowsFor(applied, {})
      BY <1>1, <1>2, <2>1, SameList DEF tableVars
    <3>2. \A k \in DOMAIN listing : \A A, B : IsListed(listing[k], applied, A) <=> IsListed(listing[k], applied, B)
      BY <2>1 DEF IsListed, RegistrationListed, ProductListed
    <3> QED BY <1>5, <3>1, <3>2 DEF RowsNow, RowsFor
  <2>2. CASE book \notin {"registrations", "products"}
    BY <1>1, <1>2, <1>5, <2>2, SameList DEF tableVars
  <2> QED BY <2>1, <2>2
<1>7. Unread' = Unread
  BY <1>1, <1>2 DEF Unread
<1>8. Span' = Span
  <2>1. leaf.page \in Nat /\ limit \in Nat
    BY <1>1, OwedTyped DEF ListInv, ListPage
  <2>2. (leaf.page + 1) * limit = leaf.page * limit + limit
    BY <2>1
  <2>3. Span = leaf.page * limit + limit
    BY <1>1 DEF Span
  <2>4. Span' = (leaf.page + 1) * limit
    BY <1>1, <1>2 DEF Span
  <2> QED BY <2>2, <2>3, <2>4
<1>9. /\ Counted' = -1 /\ Counted' \in Total
      /\ Over(Cardinality(View), Counted') <= Over(Cardinality(View), Counted)
  <2>1. Counted' = -1
    BY <1>2 DEF Counted
  <2>2. Cardinality(View) \in Nat /\ Counted \in Total
    BY <1>1, ViewTyped, OwedTyped
  <2> QED BY <2>1, <2>2 DEF Over, Total
<1>10. Owed' <= Owed /\ Owed \in Nat /\ Owed' \in Nat
  BY <1>1, <1>6, <1>7, <1>8, <1>9, QuietOwes DEF tableVars
<1>11. OwedInv'
  <2>1. reading.steady => Owed <= reading.moved /\ reading.moved \in Nat
    BY <1>1, OwedTyped DEF ReadInv, OwedInv
  <2> QED BY <1>1, <1>10, <2>1 DEF OwedInv
<1> QED BY <1>3, <1>4, <1>11

\* Lemma: a refusal, and the scope found, owe no more.
LEMMA ScopeOwes == ReadInv /\ (Refuse \/ FindScope) => PageAsked' /\ Scoped' /\ OwedInv'
<1> SUFFICES ASSUME ReadInv, Refuse \/ FindScope PROVE PageAsked' /\ Scoped' /\ OwedInv'
  OBVIOUS
<1>1. /\ ListInv /\ request.pc = "asked" /\ request # NoRequest
      /\ UNCHANGED <<book, tableVars, reader, applied, limit, leaf, reading>>
      /\ leaf.total = -1 /\ request.got = {} /\ request.rows = {} /\ request.total = -1
  BY DEF ReadInv, Refuse, FindScope, PageAsked, NoRequest
<1>2. CASE Refuse
  <2>1. request' = NoRequest
    BY <1>2 DEF Refuse
  <2> QED BY <1>1, <2>1 DEF PageAsked, Scoped, OwedInv, NoRequest
<1>3. CASE FindScope
  <2>1. request \in PageQuery
    BY <1>1 DEF ListInv, ListPage
  <2>2. PICK s : s = ScopeOf(applied)
    OBVIOUS
  <2>3. request' = [request EXCEPT !.pc = "reading", !.scope = s]
    BY <1>3, <2>2 DEF FindScope
  <2>4. /\ request'.pc = "reading" /\ request'.scope = s /\ request' # NoRequest
        /\ request'.got = {} /\ request'.rows = {} /\ request'.total = -1
        /\ request'.page = request.page
    BY <1>1, <2>1, <2>3 DEF PageQuery, NoRequest
  <2>5. PageAsked'
    BY <1>1, <2>4 DEF PageAsked
  <2>6. Scoped'
    <3>1. ScopeOf(applied)' = s
      BY <1>1, <2>2, SameList DEF tableVars
    <3>2. book = "audit" => s \subseteq 1..born
      <4>1. \A k \in DOMAIN listing : listing[k].id \in 1..born
        <5> TAKE k \in DOMAIN listing
        <5>1. listing[k] \in ListRow /\ k \in 1..Len(listing)
          BY <1>1, TableNamed, ElementOfSeq DEF ListInv, ListTable
        <5> QED BY <1>1, <5>1 DEF ListRow, ListInv, ListTable
      <4> QED BY <2>2, <4>1 DEF ScopeOf, AuditScope
    <3> QED BY <1>1, <2>4, <3>1, <3>2 DEF Scoped, tableVars
  <2>7. View' = View
    <3>1. View' = RowsFor(applied, s)
      BY <1>1, <2>4, SameList DEF tableVars
    <3> QED BY <1>1, <2>2, <3>1 DEF View, RowsNow
  <2>8. Unread' = Unread /\ Span' = Span /\ Counted' = -1 /\ Counted = -1
    BY <1>1, <2>4 DEF Unread, Span, Counted
  <2>9. Counted' \in Total /\ Over(Cardinality(View), Counted') <= Over(Cardinality(View), Counted)
    BY <2>8 DEF Total, Over
  <2>10. Owed' <= Owed /\ Owed \in Nat /\ Owed' \in Nat
    BY <1>1, <2>7, <2>8, <2>9, QuietOwes DEF tableVars
  <2>11. OwedInv'
    <3>1. reading.steady => Owed <= reading.moved /\ reading.moved \in Nat
      BY <1>1, OwedTyped DEF ReadInv, OwedInv
    <3> QED BY <1>1, <2>10, <3>1 DEF OwedInv
  <2> QED BY <2>5, <2>6, <2>11
<1> QED BY <1>2, <1>3

\* Lemma: the rows read, and the rows counted, owe no more.
LEMMA QueryOwes == ReadInv /\ (FindMany \/ CountRows) => PageAsked' /\ Scoped' /\ OwedInv'
<1> SUFFICES ASSUME ReadInv, FindMany \/ CountRows PROVE PageAsked' /\ Scoped' /\ OwedInv'
  OBVIOUS
<1>1. /\ ListInv /\ request.pc = "reading" /\ request # NoRequest /\ leaf.total = -1
      /\ UNCHANGED <<book, tableVars, reader, applied, limit, leaf, reading>>
      /\ "rows" \notin request.got => request.rows = {}
      /\ "total" \notin request.got => request.total = -1
      /\ request \in PageQuery
  BY DEF ReadInv, FindMany, CountRows, PageAsked, NoRequest, ListInv, ListPage
<1>2. limit \in Nat /\ request.page \in Nat /\ Skip \in Nat
  BY <1>1, OwedTyped DEF PageQuery, Skip
<1>3. View = RowsFor(applied, request.scope) /\ View \subseteq 1..Len(listing)
  BY <1>1, ViewTyped DEF View
<1>4. ASSUME /\ request'.pc = "reading" /\ request'.scope = request.scope /\ request' # NoRequest
             /\ "rows" \notin request'.got => request'.rows = {}
             /\ "total" \notin request'.got => request'.total = -1,
             Unread' \subseteq Unread,
             Passed(Unread', RankOf(listing, View), Span') \subseteq Passed(Unread, RankOf(listing, View), Span),
             Counted' \in Total,
             Over(Cardinality(View), Counted') <= Over(Cardinality(View), Counted)
      PROVE  PageAsked' /\ Scoped' /\ OwedInv'
  <2>1. PageAsked'
    BY <1>1, <1>4 DEF PageAsked
  <2>2. Scoped'
    <3>1. ScopeOf(applied)' = ScopeOf(applied)
      BY <1>1, SameList DEF tableVars
    <3> QED BY <1>1, <1>4, <3>1 DEF ReadInv, Scoped, tableVars
  <2>3. View' = View
    BY <1>1, <1>3, <1>4, SameList DEF tableVars
  <2>4. Owed' <= Owed /\ Owed \in Nat /\ Owed' \in Nat
    BY <1>1, <1>4, <2>3, QuietOwes DEF tableVars
  <2>5. OwedInv'
    <3>1. reading.steady => Owed <= reading.moved /\ reading.moved \in Nat
      BY <1>1, OwedTyped DEF ReadInv, OwedInv
    <3> QED BY <1>1, <2>4, <3>1 DEF OwedInv
  <2> QED BY <2>1, <2>2, <2>5
<1>5. CASE FindMany
  <2>1. PICK P : P = {k \in View : Skip < Rank(View, k) /\ Rank(View, k) <= Skip + limit}
    OBVIOUS
  <2>2. PICK ids : ids = IdsOf(P)
    OBVIOUS
  <2>3. request' = [request EXCEPT !.got = request.got \cup {"rows"}, !.rows = ids] /\ "rows" \notin request.got
    BY <1>3, <1>5, <2>1, <2>2 DEF FindMany
  <2>4. /\ request'.pc = "reading" /\ request'.scope = request.scope /\ request' # NoRequest
        /\ request'.got = request.got \cup {"rows"} /\ request'.rows = ids
        /\ request'.total = request.total /\ request'.page = request.page
    BY <1>1, <2>3 DEF PageQuery, NoRequest
  <2>5. "total" \notin request'.got => request'.total = -1
    BY <1>1, <2>4
  <2>6. Unread' = Unread \ ids
    BY <1>1, <2>3, <2>4 DEF Unread
  <2>7. Span = Skip /\ Span' = Skip + limit
    BY <1>1, <2>3, <2>4 DEF Span, Skip
  <2>8. Counted' = Counted /\ Counted' \in Total
    BY <1>1, <2>4, OwedTyped DEF Counted
  <2>9. PICK rank : rank = RankOf(listing, View)
    OBVIOUS
  <2>10. Passed(Unread', rank, Span') \subseteq Passed(Unread, rank, Span)
    <3> SUFFICES ASSUME NEW i \in Unread \ ids, i \in DOMAIN rank, rank[i] <= Skip + limit
                 PROVE  rank[i] <= Skip
      BY <2>6, <2>7 DEF Passed
    <3>1. PICK k \in View : i = listing[k].id
      BY <1>1, <2>9, ViewTyped DEF IdsOf
    <3>2. rank[i] = Rank(View, k)
      <4>1. \A l \in View : rank[listing[l].id] = Rank(View, l)
        BY <1>1, <2>9, ViewTyped DEF Ranks
      <4> QED BY <3>1, <4>1
    <3>3. k \notin P
      BY <2>2, <3>1 DEF IdsOf
    <3>4. Rank(View, k) \in Nat
      <4>1. View \in SUBSET Nat /\ IsFiniteSet(View) /\ k \in Nat
        BY <1>1, <1>3, ViewTyped
      <4> QED BY <4>1, RankRises
    <3> QED BY <1>2, <2>1, <3>2, <3>3, <3>4
  <2>11. Over(Cardinality(View), Counted') <= Over(Cardinality(View), Counted)
    <3>1. Over(Cardinality(View), Counted) \in Nat
      BY <1>1, OwedTyped, ViewTyped DEF Over, Total
    <3> QED BY <2>8, <3>1
  <2>12. Unread' \subseteq Unread
    BY <2>6
  <2> QED BY <1>4, <2>4, <2>5, <2>8, <2>9, <2>10, <2>11, <2>12
<1>6. CASE CountRows
  <2>1. PICK n : n = Cardinality(View)
    OBVIOUS
  <2>2. n \in Nat
    BY <1>1, <2>1, ViewTyped
  <2>3. request' = [request EXCEPT !.got = request.got \cup {"total"}, !.total = n] /\ "total" \notin request.got
    BY <1>3, <1>6, <2>1 DEF CountRows
  <2>4. /\ request'.pc = "reading" /\ request'.scope = request.scope /\ request' # NoRequest
        /\ request'.got = request.got \cup {"total"} /\ request'.rows = request.rows
        /\ request'.total = n /\ request'.page = request.page
    BY <1>1, <2>3 DEF PageQuery, NoRequest
  <2>5. /\ "rows" \notin request'.got => request'.rows = {}
        /\ "total" \notin request'.got => request'.total = -1
    BY <1>1, <2>4
  <2>6. Unread' = Unread /\ Span' = Span
    BY <1>1, <2>4 DEF Unread, Span
  <2>7. Counted' = n /\ Counted = -1
    BY <1>1, <2>3, <2>4 DEF Counted
  <2>8. Counted' \in Total /\ Over(Cardinality(View), Counted') <= Over(Cardinality(View), Counted)
    BY <2>1, <2>2, <2>7 DEF Total, Over
  <2> QED BY <1>4, <2>4, <2>5, <2>6, <2>8
<1> QED BY <1>5, <1>6

\* Lemma: a list applied or sized anew owes nothing.
LEMMA AnewOwes ==
  ReadInv /\ ListInv' /\ ((\E f \in Filters : Apply(f)) \/ (\E n \in Limits : Resize(n)))
    => PageAsked' /\ Scoped' /\ OwedInv'
<1>1. (ListInv /\ request = ToFetch(0) /\ leaf = NotShown /\ reading = Anew(applied)
         => PageAsked /\ Scoped /\ OwedInv)'
  BY OwedAnew, PTL
<1> SUFFICES ASSUME ReadInv, ListInv', (\E f \in Filters : Apply(f)) \/ (\E n \in Limits : Resize(n))
             PROVE  PageAsked' /\ Scoped' /\ OwedInv'
  OBVIOUS
<1>2. PICK f : /\ applied' = f /\ reading' = Anew(f) /\ request' = ToFetch(0) /\ leaf' = NotShown
               /\ UNCHANGED <<book, tableVars, reader>>
  BY DEF Apply, Resize
<1>3. ListedNow(applied)' = ListedNow(f)
  BY <1>2 DEF tableVars, ListedNow, IdsOf, RowsNow, RowsFor, ScopeOf, RequestScope, LedgerScope, Visible,
              AuditScope, IsListed, TransferListed, AdjustmentListed, LedgerListed, AuditListed,
              RegistrationListed, ProductListed, Marked, Within
<1>4. reading' = Anew(applied)'
  BY <1>2, <1>3 DEF Anew
<1>5. request' = ToFetch(0)' /\ leaf' = NotShown'
  BY <1>2 DEF ToFetch, NotShown
<1> QED BY <1>1, <1>4, <1>5

\* Lemma: a page displayed owes no more: what it was queried for and is no more listed, or is
\* listed since, was owed before.
LEMMA DisplayOwes == ReadInv /\ Display => PageAsked' /\ Scoped' /\ OwedInv'
<1> SUFFICES ASSUME ReadInv, Display PROVE PageAsked' /\ Scoped' /\ OwedInv'
  OBVIOUS
<1>1. /\ ListInv /\ ListTable /\ request.pc = "reading" /\ request # NoRequest
      /\ request.got = {"rows", "total"}
      /\ UNCHANGED <<book, tableVars, reader, applied, limit>>
      /\ leaf' = [rows |-> request.rows, total |-> request.total, page |-> request.page]
      /\ request' = NoRequest /\ request'.pc = "none"
      /\ reading' = [reading EXCEPT !.seen = reading.seen \cup request.rows]
  BY DEF ReadInv, ListInv, Display, NoRequest
<1>2. PageAsked' /\ Scoped'
  BY <1>1 DEF PageAsked, Scoped
<1>3. /\ reading'.base = reading.base /\ reading'.seen = reading.seen \cup request.rows
      /\ reading'.moved = reading.moved /\ reading'.steady = reading.steady
  BY <1>1 DEF ListInv, ListPage
<1>4. PICK U, c, q : U = Unread /\ c = Span /\ q = Counted
  OBVIOUS
<1>5. Unread' = U
  BY <1>1, <1>3, <1>4 DEF Unread
<1>6. Span' = c
  BY <1>1, <1>4 DEF Span
<1>7. Counted' = q
  BY <1>1, <1>4 DEF Counted
<1>8. IsFiniteSet(U) /\ c \in Nat /\ q \in Total
  BY <1>1, <1>4, OwedTyped
<1>9. PICK V, W, n : V = View /\ W = RowsNow(applied) /\ n = Len(listing)
  OBVIOUS
<1>10. V \in SUBSET (1..n) /\ W \in SUBSET (1..n) /\ n \in Nat /\ Named(listing, n)
       /\ listing \in Seq(ListRow)
  BY <1>1, <1>9, ViewTyped, QueryFinds, TableNamed DEF RowsNow, ListTable
<1>11. View' = W
  BY <1>1, <1>9, SameList DEF tableVars
<1>12. Missed(U, RankOf(listing, W), c, q)
         <= Missed(U, RankOf(listing, V), c, q) + Cardinality((V \ W) \cup (W \ V))
  BY <1>8, <1>9, <1>10, ViewsDiffer
<1>13. Cardinality((V \ W) \cup (W \ V)) = Cardinality(Apart(IdsOf(V), IdsOf(W)))
  <2>1. PICK D : D = (V \ W) \cup (W \ V)
    OBVIOUS
  <2>2. D \in SUBSET (1..n)
    BY <1>10, <2>1
  <2>3. Cardinality({listing[k].id : k \in D}) = Cardinality(D)
    BY <1>10, <2>2, IdsCounted
  <2>4. \A j, k \in 1..n : listing[j].id = listing[k].id => j = k
    BY <1>10 DEF Named
  <2>5. \A k \in 1..n : listing[k].id \in IdsOf(V) <=> k \in V
    BY <1>10, <2>4 DEF IdsOf
  <2>6. \A k \in 1..n : listing[k].id \in IdsOf(W) <=> k \in W
    BY <1>10, <2>4 DEF IdsOf
  <2>7. ASSUME NEW i \in Apart(IdsOf(V), IdsOf(W)) PROVE \E k \in D : i = listing[k].id
    <3>1. PICK k \in 1..n : i = listing[k].id
      BY <1>10 DEF Apart, IdsOf
    <3>2. k \in D
      BY <2>1, <2>5, <2>6, <3>1 DEF Apart
    <3> QED BY <3>1, <3>2
  <2>8. ASSUME NEW k \in D PROVE listing[k].id \in Apart(IdsOf(V), IdsOf(W))
    BY <2>1, <2>2, <2>5, <2>6 DEF Apart
  <2>9. {listing[k].id : k \in D} = Apart(IdsOf(V), IdsOf(W))
    BY <2>7, <2>8
  <2> QED BY <2>1, <2>3, <2>9
<1>14. Owed = Missed(U, RankOf(listing, V), c, q) + Cardinality((V \ W) \cup (W \ V))
  BY <1>4, <1>9, <1>13 DEF Owed, ListedNow
<1>15. Owed' = Missed(U, RankOf(listing, W), c, q) + 0
  <2>1. RankOf(listing, View)' = RankOf(listing, W)
    BY <1>1, <1>11 DEF RankOf, Rank, tableVars
  <2>2. Missed(Unread, RankOf(listing, View), Span, Counted)' = Missed(U, RankOf(listing, W), c, q)
    BY <1>5, <1>6, <1>7, <2>1 DEF Missed, Passed
  <2>3. IdsOf(View)' = IdsOf(W) /\ ListedNow(applied)' = IdsOf(W)
    <3>1. ListedNow(applied)' = ListedNow(applied)
      BY <1>1, SameList DEF tableVars
    <3>2. IdsOf(View)' = IdsOf(W)
      BY <1>1, <1>11 DEF IdsOf, tableVars
    <3> QED BY <1>9, <3>1, <3>2 DEF ListedNow
  <2>4. Apart(IdsOf(View), ListedNow(applied))' = {}
    BY <2>3 DEF Apart
  <2>5. Cardinality(Apart(IdsOf(View), ListedNow(applied)))' = 0
    BY <2>4, FS_EmptySet
  <2> QED BY <2>2, <2>5 DEF Owed
<1>16. reading.steady => Owed <= reading.moved /\ reading.moved \in Nat
  BY <1>1, OwedTyped DEF ReadInv, OwedInv
<1>17. Missed(U, RankOf(listing, V), c, q) \in Nat /\ Missed(U, RankOf(listing, W), c, q) \in Nat
       /\ Cardinality((V \ W) \cup (W \ V)) \in Nat
  <2>1. Missed(U, RankOf(listing, V), c, q) \in Nat /\ Cardinality(Apart(IdsOf(V), IdsOf(W))) \in Nat
    BY <1>1, <1>4, <1>9, OwedTyped DEF ListedNow
  <2>2. Ranks(listing, W, RankOf(listing, W))
    BY <1>10, RankOfTyped
  <2>3. DOMAIN RankOf(listing, W) = {listing[k].id : k \in W}
    BY DEF RankOf
  <2>4. IsFiniteSet(DOMAIN RankOf(listing, W))
    BY <2>2, <2>3 DEF Ranks
  <2>5. Missed(U, RankOf(listing, W), c, q) \in Nat
    BY <1>8, <2>4, MissedTyped
  <2> QED BY <1>13, <2>1, <2>5
<1>18. OwedInv'
  BY <1>3, <1>12, <1>14, <1>15, <1>16, <1>17, <1>1 DEF OwedInv
<1> QED BY <1>2, <1>18

-----------------------------------------------------------------------------
(* Changes of the table. *)

\* What a row in a list is, said of the row alone.
Belongs(r, f) ==
  IF book = "audit" THEN Marked(r, f) /\ Within(r, f) ELSE IsListed(r, f, ScopeOf(f))

\* Lemma: the rows listed are those that belong.
LEMMA ListedBelong ==
  ListTable => \A f : \A k \in 1..Len(listing) : k \in RowsNow(f) <=> Belongs(listing[k], f)
<1> SUFFICES ASSUME ListTable, NEW f, NEW k \in 1..Len(listing)
             PROVE  k \in RowsNow(f) <=> Belongs(listing[k], f)
  OBVIOUS
<1>1. DOMAIN listing = 1..Len(listing)
  BY TableNamed
<1>2. CASE book = "audit"
  <2>1. listing[k].id \in AuditScope(f) <=> f.hall \in listing[k].places
    <3>1. \A j \in 1..Len(listing) : listing[j].id = listing[k].id => j = k
      BY DEF ListTable
    <3> QED BY <1>1, <3>1 DEF AuditScope
  <2>2. ScopeOf(f) = AuditScope(f)
    BY <1>2 DEF ScopeOf
  <2>3. IsListed(listing[k], f, ScopeOf(f)) <=> Belongs(listing[k], f)
    BY <1>2, <2>1, <2>2 DEF IsListed, AuditListed, Belongs, Within
  <2> QED BY <1>1, <2>3 DEF RowsNow, RowsFor
<1>3. CASE book # "audit"
  BY <1>1, <1>3 DEF RowsNow, RowsFor, Belongs
<1> QED BY <1>2, <1>3

\* Lemma: the order of a list says the ranks of its rows.
LEMMA OrderTells ==
  ListTable => \A f : /\ RankOf(listing, RowsNow(f)) \in [ListedNow(f) -> Nat]
                      /\ OrderNow(f) = {<<i, RankOf(listing, RowsNow(f))[i]>> : i \in ListedNow(f)}
<1> SUFFICES ASSUME ListTable, NEW f
             PROVE  /\ RankOf(listing, RowsNow(f)) \in [ListedNow(f) -> Nat]
                    /\ OrderNow(f) = {<<i, RankOf(listing, RowsNow(f))[i]>> : i \in ListedNow(f)}
  OBVIOUS
<1>1. PICK R, rank : R = RowsNow(f) /\ rank = RankOf(listing, R)
  OBVIOUS
<1>2. Ranks(listing, R, rank)
  BY <1>1, QueryFinds, TableNamed, RankOfTyped DEF RowsNow
<1>3. rank \in [IdsOf(R) -> Nat] /\ \A k \in R : rank[listing[k].id] = Rank(R, k)
  BY <1>2 DEF Ranks, IdsOf
<1>4. {<<listing[k].id, Rank(R, k)>> : k \in R} = {<<i, rank[i]>> : i \in IdsOf(R)}
  <2>1. {<<listing[k].id, Rank(R, k)>> : k \in R} = {<<listing[k].id, rank[listing[k].id]>> : k \in R}
    BY <1>3
  <2>2. {<<listing[k].id, rank[listing[k].id]>> : k \in R} = {<<i, rank[i]>> : i \in IdsOf(R)}
    BY DEF IdsOf
  <2> QED BY <2>1, <2>2
<1> QED BY <1>1, <1>3, <1>4 DEF OrderNow, ListedNow

\* Lemma: a change that does not disturb a list leaves the ranks of its rows.
LEMMA Undisturbed ==
  ListTable /\ ListTable' =>
    \A f : /\ Disturbance(f) \in Nat
           /\ Cardinality(Apart(ListedNow(f), ListedNow(f)')) \in Nat
           /\ IsFiniteSet(Apart(ListedNow(f), ListedNow(f)'))
           /\ Cardinality(Apart(ListedNow(f), ListedNow(f)')) <= Disturbance(f)
           /\ \/ Disturbance(f) >= 1
              \/ RankOf(listing, RowsNow(f))' = RankOf(listing, RowsNow(f))
<1>1. (ListTable => \A f : /\ RankOf(listing, RowsNow(f)) \in [ListedNow(f) -> Nat]
                           /\ OrderNow(f) = {<<i, RankOf(listing, RowsNow(f))[i]>> : i \in ListedNow(f)})'
  BY OrderTells, PTL
<1> SUFFICES ASSUME ListTable, ListTable', NEW f
             PROVE  /\ Disturbance(f) \in Nat
                    /\ Cardinality(Apart(ListedNow(f), ListedNow(f)')) \in Nat
                    /\ IsFiniteSet(Apart(ListedNow(f), ListedNow(f)'))
                    /\ Cardinality(Apart(ListedNow(f), ListedNow(f)')) <= Disturbance(f)
                    /\ \/ Disturbance(f) >= 1
                       \/ RankOf(listing, RowsNow(f))' = RankOf(listing, RowsNow(f))
  OBVIOUS
<1>2. PICK A, B, rank, new : /\ A = ListedNow(f) /\ B = ListedNow(f)'
                             /\ rank = RankOf(listing, RowsNow(f)) /\ new = RankOf(listing, RowsNow(f))'
  OBVIOUS
<1>3. rank \in [A -> Nat] /\ OrderNow(f) = {<<i, rank[i]>> : i \in A}
  BY <1>2, OrderTells
<1>4. new \in [B -> Nat] /\ OrderNow(f)' = {<<i, new[i]>> : i \in B}
  BY <1>1, <1>2
<1>5. IsFiniteSet(A) /\ IsFiniteSet(B) /\ Disturbance(f) \in Nat
  BY <1>2, DisturbanceTyped
<1>6. PICK D : D = Apart(A, B)
  OBVIOUS
<1>7. D = (A \cup B) \ (A \cap B)
  BY <1>6 DEF Apart
<1>8. IsFiniteSet(D) /\ Cardinality(D) \in Nat
  BY <1>5, <1>7, FS_Union, FS_Difference, FS_CardinalityType
<1>9. Disturbance(f) = Cardinality(D) + IF A = B /\ OrderNow(f) # OrderNow(f)' THEN 1 ELSE 0
  BY <1>2, <1>7 DEF Disturbance
<1>10. Cardinality(D) <= Disturbance(f)
  BY <1>8, <1>9
<1>11. CASE A # B
  <2>1. D # {}
    BY <1>7, <1>11
  <2>2. Cardinality(D) # 0
    BY <1>8, <2>1, FS_EmptySet
  <2>3. Disturbance(f) >= 1
    BY <1>5, <1>8, <1>10, <2>2
  <2> QED BY <1>2, <1>5, <1>6, <1>8, <1>10, <2>3
<1>12. CASE A = B /\ OrderNow(f) # OrderNow(f)'
  <2>1. Disturbance(f) >= 1
    BY <1>8, <1>9, <1>12
  <2> QED BY <1>2, <1>5, <1>6, <1>8, <1>10, <2>1
<1>13. CASE A = B /\ OrderNow(f) = OrderNow(f)'
  <2>1. ASSUME NEW i \in A PROVE rank[i] = new[i]
    <3>1. <<i, rank[i]>> \in {<<j, new[j]>> : j \in A}
      BY <1>3, <1>4, <1>13
    <3> QED BY <3>1
  <2>2. rank = new
    BY <1>3, <1>4, <1>13, <2>1
  <2> QED BY <1>2, <1>5, <1>6, <1>8, <1>10, <2>2
<1> QED BY <1>11, <1>12, <1>13

\* Lemma: a change leaves the rows that belong to a list, but for the one it swaps.
LEMMA BelongNext ==
  ListTable' /\ UNCHANGED <<book, reader>> =>
    \A f : \A k \in 1..Len(listing') : k \in RowsNow(f)' <=> Belongs(listing'[k], f)
<1>1. (ListTable => \A f : \A k \in 1..Len(listing) : k \in RowsNow(f) <=> Belongs(listing[k], f))'
  BY ListedBelong, PTL
<1> SUFFICES ASSUME ListTable', UNCHANGED <<book, reader>>, NEW f, NEW k \in 1..Len(listing')
             PROVE  k \in RowsNow(f)' <=> Belongs(listing'[k], f)
  OBVIOUS
<1>2. k \in RowsNow(f)' <=> Belongs(listing[k], f)'
  BY <1>1
<1>3. Belongs(listing[k], f)' <=> Belongs(listing'[k], f)
  <2>1. CASE book = "audit"
    BY <2>1 DEF Belongs, Marked, Within
  <2>2. CASE book # "audit"
    <3>1. ScopeOf(f)' = ScopeOf(f)
      BY <2>2 DEF ScopeOf, RequestScope, LedgerScope, Visible
    <3> QED BY <2>2, <3>1 DEF Belongs, IsListed, TransferListed, AdjustmentListed, LedgerListed,
                              RegistrationListed, ProductListed, Marked, Within
  <2> QED BY <2>1, <2>2
<1> QED BY <1>2, <1>3

\* Lemma: and so the rows that stay are listed where they go.
LEMMA ListedMove ==
  ASSUME ListTable, ListTable', UNCHANGED <<book, reader>>, NEW f,
         NEW gone, NEW come, NEW to, Shifts(listing, listing', gone, come, to)
  PROVE  \A k \in (1..Len(listing)) \ gone : k \in RowsNow(f) <=> to[k] \in RowsNow(f)'
<1>1. \A k \in 1..Len(listing) : k \in RowsNow(f) <=> Belongs(listing[k], f)
  BY ListedBelong
<1>2. \A k \in 1..Len(listing') : k \in RowsNow(f)' <=> Belongs(listing'[k], f)
  BY BelongNext
<1>3. \A k \in (1..Len(listing)) \ gone : to[k] \in 1..Len(listing') /\ listing'[to[k]] = listing[k]
  BY DEF Shifts
<1> QED BY <1>1, <1>2, <1>3

\* Lemma: what a change of the table makes a reader of the list itself miss, it disturbs.
LEMMA FreshOwes ==
  ASSUME ListTable, ListTable', UNCHANGED <<book, reader>>, NEW f,
         NEW gone, NEW come, NEW to, Swaps(gone, come, to),
         NEW U, IsFiniteSet(U), NEW c \in Nat, NEW q \in Total,
         Len(listing') \in Nat, Named(listing', Len(listing')), RowsNow(f)' \subseteq 1..Len(listing')
  PROVE  Missed(U, RankOf(listing, RowsNow(f))', c, q)
           <= Missed(U, RankOf(listing, RowsNow(f)), c, q) + Disturbance(f)
<1>1. PICK n, m, V, W : n = Len(listing) /\ m = Len(listing') /\ V = RowsNow(f) /\ W = RowsNow(f)'
  OBVIOUS
<1>2. /\ n \in Nat /\ Named(listing, n) /\ V \in SUBSET (1..n)
      /\ m \in Nat /\ Named(listing', m) /\ W \in SUBSET (1..m)
  BY <1>1, TableNamed, QueryFinds DEF RowsNow
<1>3. Shifts(listing, listing', gone, come, to)
  BY DEF Swaps
<1>4. \A k \in (1..n) \ gone : k \in V <=> to[k] \in W
  BY <1>1, <1>3, ListedMove
<1>5. \/ \E y : gone = {} /\ come = {y}
      \/ \E x : gone = {x} /\ come = {}
      \/ \E x, y : gone = {x} /\ come = {y} /\ listing'[y].id = listing[x].id
  BY DEF Swaps
<1>6. Missed(U, RankOf(listing', W), c, q) <= Missed(U, RankOf(listing, V), c, q) + 1
  BY <1>1, <1>2, <1>3, <1>4, <1>5, ViewSwapped
<1>7. RankOf(listing, RowsNow(f))' = RankOf(listing', W)
  BY <1>1 DEF RankOf, Rank
<1>8. /\ Disturbance(f) \in Nat
      /\ Disturbance(f) >= 1 \/ RankOf(listing, RowsNow(f))' = RankOf(listing, RowsNow(f))
  BY Undisturbed
<1>9. Missed(U, RankOf(listing, V), c, q) \in Nat /\ Missed(U, RankOf(listing', W), c, q) \in Nat
  <2>1. Ranks(listing, V, RankOf(listing, V)) /\ Ranks(listing', W, RankOf(listing', W))
    BY <1>2, RankOfTyped
  <2>2. DOMAIN RankOf(listing, V) = {listing[k].id : k \in V} /\ DOMAIN RankOf(listing', W) = {listing'[k].id : k \in W}
    BY DEF RankOf
  <2>3. IsFiniteSet(DOMAIN RankOf(listing, V)) /\ IsFiniteSet(DOMAIN RankOf(listing', W))
    BY <2>1, <2>2 DEF Ranks
  <2>4. Missed(U, RankOf(listing, V), c, q) \in Nat
    BY <2>3, MissedTyped
  <2>5. Missed(U, RankOf(listing', W), c, q) \in Nat
    BY <2>3, MissedTyped
  <2> QED BY <2>4, <2>5
<1>10. CASE Disturbance(f) >= 1
  BY <1>1, <1>6, <1>7, <1>8, <1>9, <1>10
<1>11. CASE RankOf(listing, RowsNow(f))' = RankOf(listing, RowsNow(f))
  <2>1. Missed(U, RankOf(listing', W), c, q) = Missed(U, RankOf(listing, V), c, q)
    BY <1>1, <1>7, <1>11
  <2> QED BY <1>1, <1>7, <1>8, <1>9, <2>1
<1> QED BY <1>8, <1>10, <1>11

\* Lemma: a change of the table leaves the ranks in a log whose requests were found before.
LEMMA StaleStays ==
  ASSUME ListInv, Stale, request.scope \subseteq 1..born, UNCHANGED <<book, applied, request>>,
         NEW gone, NEW come, NEW to, Swaps(gone, come, to),
         Len(listing') \in Nat, DOMAIN listing' = 1..Len(listing'), Named(listing', Len(listing')),
         View' \subseteq 1..Len(listing')
  PROVE  RankOf(listing, View)' = RankOf(listing, View)
<1>1. PICK n, m, V, W : n = Len(listing) /\ m = Len(listing') /\ V = View /\ W = View'
  OBVIOUS
<1>2. /\ n \in Nat /\ Named(listing, n) /\ V \in SUBSET (1..n) /\ DOMAIN listing = 1..n
      /\ m \in Nat /\ Named(listing', m) /\ W \in SUBSET (1..m) /\ DOMAIN listing' = 1..m
  BY <1>1, TableNamed, ViewTyped DEF ListInv
<1> DEFINE Logged(r) == Marked(r, applied) /\ r.id \in request.scope
<1>3. \A k \in 1..n : k \in V <=> Logged(listing[k])
  BY <1>1, <1>2 DEF View, RowsFor, Stale, IsListed, AuditListed
<1>4. \A k \in 1..m : k \in W <=> Logged(listing'[k])
  BY <1>1, <1>2 DEF View, RowsFor, Stale, IsListed, AuditListed, Marked
<1>5. /\ gone \subseteq 1..n /\ come \subseteq 1..m
      /\ to \in [(1..n) \ gone -> (1..m) \ come]
      /\ \A l \in (1..m) \ come : \E k \in (1..n) \ gone : to[k] = l
      /\ \A k \in (1..n) \ gone : listing'[to[k]] = listing[k]
      /\ Shifts(listing, listing', gone, come, to)
  BY <1>1 DEF Swaps, Shifts
<1>6. RankOf(listing, View)' = RankOf(listing', W)
  BY <1>1 DEF RankOf, Rank
<1>7. ASSUME NEW l, gone = {}, come = {l}, listing'[l].id = born + 1
      PROVE  RankOf(listing', W) = RankOf(listing, V)
  <2>1. born + 1 \notin request.scope
    BY DEF ListInv, ListTable
  <2>2. l \notin W /\ l \in 1..m
    BY <1>4, <1>5, <1>7, <2>1
  <2>3. \A k \in (1..n) \ gone : k \in V <=> to[k] \in W
    <3> TAKE k \in (1..n) \ gone
    <3>1. to[k] \in 1..m /\ listing'[to[k]] = listing[k] /\ k \in 1..n
      BY <1>5
    <3> HIDE DEF Logged
    <3> QED BY <1>3, <1>4, <3>1
  <2>4. V \in SUBSET ((1..n) \ gone) /\ W \in SUBSET ((1..m) \ come)
    BY <1>2, <1>7, <2>2
  <2> QED BY <1>1, <1>2, <1>5, <2>3, <2>4, RanksKept
<1>8. ASSUME NEW x, gone = {x}, come = {x}, listing'[x].id = listing[x].id,
             listing'[x].mark = listing[x].mark, \A k \in (1..n) \ {x} : to[k] = k
      PROVE  RankOf(listing', W) = RankOf(listing, V)
  <2>1. x \in 1..n /\ x \in 1..m
    BY <1>5, <1>8
  <2>2. 1..n = 1..m
    <3>1. \A k \in (1..n) \ {x} : k \in 1..m
      BY <1>5, <1>8
    <3>2. \A l \in (1..m) \ {x} : l \in 1..n
      BY <1>5, <1>8
    <3> QED BY <2>1, <3>1, <3>2
  <2>3. \A k \in 1..n : listing'[k].id = listing[k].id /\ listing'[k].mark = listing[k].mark
    BY <1>5, <1>8, <2>1
  <2>4. \A k \in 1..n : Logged(listing'[k]) <=> Logged(listing[k])
    BY <2>3 DEF Marked
  <2>5. V = W
    <3> HIDE DEF Logged
    <3> QED BY <1>2, <1>3, <1>4, <2>2, <2>4
  <2>6. {listing'[k].id : k \in W} = {listing[k].id : k \in V}
    BY <1>2, <2>3, <2>5
  <2>7. PICK I, rank, new : I = {listing[k].id : k \in V} /\ rank = RankOf(listing, V) /\ new = RankOf(listing', W)
    OBVIOUS
  <2>8. rank \in [I -> Nat] /\ \A k \in V : rank[listing[k].id] = Rank(V, k)
    <3>1. Ranks(listing, V, RankOf(listing, V))
      BY <1>2, RankOfTyped
    <3> QED BY <2>7, <3>1 DEF Ranks
  <2>9. new \in [I -> Nat] /\ \A k \in W : new[listing'[k].id] = Rank(W, k)
    <3>1. Ranks(listing', W, RankOf(listing', W))
      BY <1>2, RankOfTyped
    <3> QED BY <2>6, <2>7, <3>1 DEF Ranks
  <2>10. \A k \in V : rank[listing[k].id] = new[listing[k].id]
    BY <1>2, <2>3, <2>5, <2>8, <2>9
  <2>11. \A i \in I : rank[i] = new[i]
    BY <2>7, <2>10
  <2>12. rank = new
    BY <2>8, <2>9, <2>11
  <2> QED BY <2>7, <2>12
<1>9. book = "audit"
  BY DEF Stale
<1>10. RankOf(listing', W) = RankOf(listing, V)
  <2> HIDE DEF Logged
  <2>1. \/ \E l : gone = {} /\ come = {l} /\ listing'[l].id = born + 1
        \/ \E x : /\ gone = {x} /\ come = {x} /\ listing'[x].id = listing[x].id
                  /\ listing'[x].mark = listing[x].mark /\ \A k \in (1..n) \ {x} : to[k] = k
    BY <1>1, <1>9 DEF Swaps
  <2> QED BY <1>7, <1>8, <2>1
<1> QED BY <1>1, <1>6, <1>10

\* Lemma: a change of the tables makes the reader owe at most what it disturbs.
LEMMA ChangeOwes == ReadInv /\ ListInv' /\ Change => PageAsked' /\ Scoped' /\ OwedInv'
<1>1. (ListTable => /\ Len(listing) \in Nat /\ DOMAIN listing = 1..Len(listing)
                    /\ Named(listing, Len(listing)))'
  BY TableNamed, PTL
<1>2. (ListInv => View \subseteq 1..Len(listing) /\ DOMAIN RankOf(listing, View) = IdsOf(View))'
  <2>1. ListInv => View \subseteq 1..Len(listing) /\ DOMAIN RankOf(listing, View) = IdsOf(View)
    BY ViewTyped
  <2> QED BY <2>1, PTL
<1>3. (ListInv /\ Scoped /\ reading.steady /\ ~Stale => View = RowsNow(applied))'
  <2>1. ListInv /\ Scoped /\ reading.steady /\ ~Stale => View = RowsNow(applied)
    BY ViewIsNow
  <2> QED BY <2>1, PTL
<1>4. (View = RowsNow(applied) => Cardinality(Apart(IdsOf(View), ListedNow(applied))) = 0)'
  <2>1. View = RowsNow(applied) => Cardinality(Apart(IdsOf(View), ListedNow(applied))) = 0
    BY NothingApart
  <2> QED BY <2>1, PTL
<1>5. (ListInv => /\ Missed(Unread, RankOf(listing, View), Span, Counted) \in Nat
                  /\ Cardinality(Apart(IdsOf(View), ListedNow(applied))) \in Nat)'
  <2>1. ListInv => /\ Missed(Unread, RankOf(listing, View), Span, Counted) \in Nat
                   /\ Cardinality(Apart(IdsOf(View), ListedNow(applied))) \in Nat
    BY OwedTyped
  <2> QED BY <2>1, PTL
<1> SUFFICES ASSUME ReadInv, ListInv', Change PROVE PageAsked' /\ Scoped' /\ OwedInv'
  OBVIOUS
<1>6. PICK f, dist : f = applied /\ dist = Disturbance(applied)
  OBVIOUS
<1>7. /\ ListInv /\ ListTable /\ ListTable'
      /\ UNCHANGED <<book, applied, limit, request, leaf>>
      /\ reading' = [reading EXCEPT !.moved = reading.moved + dist,
                                    !.steady = reading.steady /\ reader' = reader]
  BY <1>6 DEF ReadInv, ListInv, Change, leafVars
<1>8. /\ reading'.base = reading.base /\ reading'.seen = reading.seen
      /\ reading'.moved = reading.moved + dist
      /\ reading'.steady = (reading.steady /\ reader' = reader)
  BY <1>7 DEF ListInv, ListPage
<1>9. PageAsked'
  BY <1>7 DEF ReadInv, PageAsked
<1>10. CASE reader' # reader
  BY <1>8, <1>9, <1>10 DEF Scoped, OwedInv
<1>11. CASE reader' = reader
  <2>1. PICK gone, come, to : Swaps(gone, come, to)
    BY <1>7, <1>11, ChangeSwaps
  <2>2. born \in Nat /\ (born' = born \/ born' = born + 1)
    BY <1>7, <2>1 DEF Swaps, ListTable
  <2>3. Scoped'
    <3> SUFFICES ASSUME request.pc = "reading", reading.steady
                 PROVE  IF book = "audit" THEN request.scope \subseteq 1..born'
                        ELSE book \in {"registrations", "products"} \/ request.scope = ScopeOf(applied)'
      BY <1>7, <1>8 DEF Scoped
    <3>1. CASE book = "audit"
      <4>1. request.scope \subseteq 1..born
        BY <3>1 DEF ReadInv, Scoped
      <4>2. 1..born \subseteq 1..born'
        BY <2>2
      <4> QED BY <3>1, <4>1, <4>2
    <3>2. CASE book # "audit"
      <4>1. book \in {"registrations", "products"} \/ request.scope = ScopeOf(applied)
        BY <3>2 DEF ReadInv, Scoped
      <4>2. ScopeOf(applied)' = ScopeOf(applied)
        BY <1>7, <1>11, <3>2 DEF ScopeOf, RequestScope, LedgerScope, Visible
      <4> QED BY <3>2, <4>1, <4>2
    <3> QED BY <3>1, <3>2
  <2>4. ASSUME reading.steady, request = NoRequest => leaf.total # -1
        PROVE  Owed' <= reading.moved + dist
    <3>1. PICK U, c, q : U = Unread /\ c = Span /\ q = Counted
      OBVIOUS
    <3>2. IsFiniteSet(U) /\ c \in Nat /\ q \in Total /\ reading.moved \in Nat
      BY <1>7, <3>1, OwedTyped
    <3>3. Unread' = U /\ Span' = c /\ Counted' = q
      BY <1>7, <1>8, <3>1 DEF Unread, Span, Counted
    <3>4. PICK g, h, mis, new : /\ g = Cardinality(Apart(IdsOf(View), ListedNow(applied)))
                                /\ h = Cardinality(Apart(IdsOf(View), ListedNow(applied)))'
                                /\ mis = Missed(U, RankOf(listing, View), c, q)
                                /\ new = Missed(U, RankOf(listing, View)', c, q)
      OBVIOUS
    <3>5. new = Missed(Unread, RankOf(listing, View), Span, Counted)'
      BY <3>3, <3>4 DEF Missed, Passed
    <3>6. /\ mis \in Nat /\ g \in Nat /\ new \in Nat /\ h \in Nat
          /\ Owed = mis + g /\ Owed' = new + h
      BY <1>5, <1>7, <3>1, <3>4, <3>5, OwedTyped DEF Owed
    <3>7. mis + g <= reading.moved
      BY <2>4, <3>6 DEF ReadInv, OwedInv
    <3>8. /\ dist \in Nat
          /\ Cardinality(Apart(ListedNow(f), ListedNow(f)')) \in Nat
          /\ IsFiniteSet(Apart(ListedNow(f), ListedNow(f)'))
          /\ Cardinality(Apart(ListedNow(f), ListedNow(f)')) <= dist
      <4>1. Disturbance(f) = dist
        BY <1>6
      <4> QED BY <1>7, <4>1, Undisturbed
    <3>9. /\ RowsNow(applied) = RowsNow(f) /\ RowsNow(applied)' = RowsNow(f)'
          /\ ListedNow(applied) = ListedNow(f) /\ ListedNow(applied)' = ListedNow(f)'
      BY <1>6, <1>7 DEF ListedNow, IdsOf, RowsNow, RowsFor, ScopeOf, RequestScope, LedgerScope, Visible,
              AuditScope, IsListed, TransferListed, AdjustmentListed, LedgerListed, AuditListed,
              RegistrationListed, ProductListed, Marked, Within
    <3>10. Stale' = Stale
      BY <1>7 DEF Stale
    <3>11. CASE ~Stale
      <4>1. View = RowsNow(f)
        BY <1>7, <2>4, <3>9, <3>11, ViewIsNow DEF ReadInv
      <4>2. View' = RowsNow(applied)'
        BY <1>3, <1>7, <1>8, <1>11, <2>3, <2>4, <3>10, <3>11
      <4>3. h = 0
        BY <1>4, <3>4, <4>2
      <4>4. RankOf(listing, View)' = RankOf(listing, RowsNow(f))'
        BY <3>9, <4>2 DEF RankOf, Rank
      <4>5. RowsNow(f)' \subseteq 1..Len(listing')
        BY <1>2, <1>7, <3>9, <4>2
      <4>6. new <= mis + dist
        <5>1. Len(listing') \in Nat /\ Named(listing', Len(listing'))
          BY <1>1, <1>7
        <5>2. Missed(U, RankOf(listing, RowsNow(f))', c, q)
                <= Missed(U, RankOf(listing, RowsNow(f)), c, q) + Disturbance(f)
          BY <1>7, <1>11, <2>1, <3>2, <4>5, <5>1, FreshOwes
        <5> QED BY <1>6, <3>4, <4>1, <4>4, <5>2
      <4> QED BY <3>2, <3>6, <3>7, <3>8, <4>3, <4>6
    <3>12. CASE Stale
      <4>1. request.scope \subseteq 1..born
        BY <2>4, <3>12 DEF ReadInv, Scoped, Stale
      <4>2. RankOf(listing, View)' = RankOf(listing, View)
        BY <1>1, <1>2, <1>7, <2>1, <3>12, <4>1, StaleStays
      <4>3. new = mis
        BY <3>4, <4>2
      <4>4. PICK I, A, B : I = IdsOf(View) /\ A = ListedNow(f) /\ B = ListedNow(f)'
        OBVIOUS
      <4>5. IdsOf(View)' = I
        BY <1>2, <1>7, <4>2, <4>4, ViewTyped
      <4>6. h = Cardinality(Apart(I, B)) /\ g = Cardinality(Apart(I, A))
        BY <3>4, <3>9, <4>4, <4>5 DEF Apart
      <4>7. Cardinality(Apart(I, B)) <= Cardinality(Apart(I, A)) + Cardinality(Apart(A, B))
        <5>1. IsFiniteSet(Apart(I, A)) /\ IsFiniteSet(Apart(A, B))
          BY <1>7, <3>8, <3>9, <4>4, OwedTyped
        <5>2. /\ IsFiniteSet(Apart(I, A) \cup Apart(A, B))
              /\ Cardinality(Apart(I, A) \cup Apart(A, B))
                   = Cardinality(Apart(I, A)) + Cardinality(Apart(A, B)) - Cardinality(Apart(I, A) \cap Apart(A, B))
          BY <5>1, FS_Union
        <5>3. Apart(I, B) \subseteq Apart(I, A) \cup Apart(A, B)
          BY DEF Apart
        <5>4. Cardinality(Apart(I, B)) <= Cardinality(Apart(I, A) \cup Apart(A, B)) /\ Cardinality(Apart(I, B)) \in Nat
          BY <5>2, <5>3, NoMore
        <5>5. IsFiniteSet(Apart(I, A) \cap Apart(A, B))
          BY <5>1, FS_Intersection
        <5>6. /\ Cardinality(Apart(I, A) \cap Apart(A, B)) \in Nat
              /\ Cardinality(Apart(I, A)) \in Nat /\ Cardinality(Apart(A, B)) \in Nat
          BY <5>1, <5>5, FS_CardinalityType
        <5> QED BY <5>2, <5>4, <5>6
      <4>8. h <= g + dist
        BY <3>6, <3>8, <4>4, <4>6, <4>7
      <4> QED BY <3>2, <3>6, <3>7, <3>8, <4>3, <4>8
    <3> QED BY <3>11, <3>12
  <2>5. OwedInv'
    BY <1>7, <1>8, <2>4 DEF OwedInv
  <2> QED BY <1>9, <2>3, <2>5
<1> QED BY <1>10, <1>11

\* Lemma: a list starts owing nothing.
LEMMA ReadInvInit == ListInit => ReadInv
  BY ListInvInit, OwedAnew DEF ListInit, ReadInv

\* Lemma: and no step makes the reader owe more than was disturbed.
LEMMA ReadInvNext == ReadInv /\ [ListNext]_listVars => ReadInv'
<1> SUFFICES ASSUME ReadInv, [ListNext]_listVars PROVE ReadInv'
  OBVIOUS
<1>1. ListInv'
  BY ListInvNext DEF ReadInv
<1>2. CASE UNCHANGED listVars
  <2>1. UNCHANGED <<book, listing, born, changes, reader, applied, limit, request, leaf, reading>>
    BY <1>2 DEF listVars, tableVars, leafVars
  <2>2. UNCHANGED <<RowsNow(applied), ListedNow(applied), ScopeOf(applied), View>>
    BY <2>1, SameList DEF View
  <2>3. PageAsked' /\ Scoped'
    BY <2>1, <2>2 DEF ReadInv, PageAsked, Scoped
  <2>4. Owed' = Owed
    BY <2>1, <2>2 DEF Owed, Missed, Passed, RankOf, Rank, Unread, Span, Counted, IdsOf, Apart
  <2>5. OwedInv'
    BY <2>1, <2>4 DEF ReadInv, OwedInv
  <2> QED BY <1>1, <2>3, <2>5 DEF ReadInv
<1>3. CASE Change
  BY <1>1, <1>3, ChangeOwes DEF ReadInv
<1>4. CASE (\E f \in Filters : Apply(f)) \/ (\E n \in Limits : Resize(n))
  BY <1>1, <1>4, AnewOwes DEF ReadInv
<1>5. CASE Turn
  BY <1>1, <1>5, TurnOwes DEF ReadInv
<1>6. CASE Refuse \/ FindScope
  BY <1>1, <1>6, ScopeOwes DEF ReadInv
<1>7. CASE FindMany \/ CountRows
  BY <1>1, <1>7, QueryOwes DEF ReadInv
<1>8. CASE Display
  BY <1>1, <1>8, DisplayOwes DEF ReadInv
<1> QED BY <1>2, <1>3, <1>4, <1>5, <1>6, <1>7, <1>8 DEF ListNext

\* Theorem: whatever comes, goes or moves while a reader turns the pages of a list (rows by
\* rows, or while one page is being queried for), at the last page they have been shown all
\* that was listed throughout, but for at most as many rows as came, went or moved.
THEOREM ReadThroughCorrect == ListSpec => [](ListTypeOK /\ ReadThroughMissesFew)
<1>1. ListInit => ReadInv
  BY ReadInvInit
<1>2. ReadInv /\ [ListNext]_listVars => ReadInv'
  BY ReadInvNext
<1>3. ReadInv => ListTypeOK /\ ReadThroughMissesFew
  BY ListTyped, OwedCounts DEF ReadInv
<1> QED BY <1>1, <1>2, <1>3, PTL DEF ListSpec
=============================================================================
