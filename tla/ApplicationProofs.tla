--------------------------- MODULE ApplicationProofs ---------------------------
(***************************************************************************)
(* Proofs about what is shown of the database: the reports over the ledger,   *)
(* the session of a browser, the comment and the attachments of a request, its *)
(* timeline, its page and counters, a tab's query cache, and all of them beside *)
(* each other.                                                                *)
(***************************************************************************)
EXTENDS Application, SumProofs, SequenceTheorems

-----------------------------------------------------------------------------
(* Reports: the ledger, and the sums that are read from it. *)

LedgerRow == [loc : Stores, at : Nat, qty : Int \ {0}, after : Int, source : Sources]

\* At, Total, Before, InPeriod and Ordered, of any ledger e.
Of(e, l)           == {i \in DOMAIN e : e[i].loc = l}
SumOf(e, S)        == SumFunctionOnSet([i \in DOMAIN e |-> e[i].qty], S)
Earlier(e, l, n)   == {i \in Of(e, l) : e[i].at < n}
During(e, l, span) == {i \in Of(e, l) : span.gte <= e[i].at /\ e[i].at <= span.lte}
Distinct(e, l, n)  == \A i, j \in Earlier(e, l, n) : e[i].at = e[j].at => i = j
UpToEntry(e, l, k) == {i \in Of(e, l) : i <= k}

\* The ledger of committed entries: each location's in the order of time, each entry with
\* the balance it left.
BookInv(e, h, c) ==
  /\ e \in Seq(LedgerRow) /\ h \in [Stores -> Int] /\ c \in Nat
  /\ \A i \in DOMAIN e : e[i].at <= c
  /\ \A i, j \in DOMAIN e : i <= j /\ e[i].loc = e[j].loc => e[i].at <= e[j].at
  /\ \A i \in DOMAIN e : e[i].after = SumOf(e, UpToEntry(e, e[i].loc, i))
  /\ \A l \in Stores : h[l] = SumOf(e, Of(e, l))

\* A row written and not committed: after every committed row of its location, whose
\* balance it continues, as the lock on the balance row keeps it.
Continues(e, h, c, x) ==
  /\ x \in LedgerRow /\ x.at <= c /\ x.after = h[x.loc] + x.qty
  /\ \A i \in Of(e, x.loc) : e[i].at <= x.at

DraftInv(e, h, c, d) ==
  /\ d \in [Stores -> {NoDraft} \cup [by : Stores, row : LedgerRow]]
  /\ \A l \in Stores : d[l] # NoDraft => Continues(e, h, c, d[l].row) /\ d[l].row.loc = l

\* A set of entries is finite and has a sum.
LEMMA EntrySums ==
  ASSUME NEW e \in Seq(LedgerRow), NEW P \in SUBSET DOMAIN e
  PROVE  /\ DOMAIN e = 1..Len(e) /\ Len(e) \in Nat
         /\ IsFiniteSet(P) /\ SumOf(e, P) \in Int
         /\ \A Q \in SUBSET DOMAIN e : P \cap Q = {} => SumOf(e, P \cup Q) = SumOf(e, P) + SumOf(e, Q)
<1>1. DOMAIN e = 1..Len(e) /\ Len(e) \in Nat /\ \A i \in DOMAIN e : e[i] \in LedgerRow
  BY ElementOfSeq, LenProperties
<1>2. \A Q \in SUBSET DOMAIN e : IsFiniteSet(Q)
  <2>1. IsFiniteSet(1..Len(e))
    BY <1>1, FS_Interval
  <2> QED BY <1>1, <2>1, FS_Subset
<1>3. PICK f : f = [i \in DOMAIN e |-> e[i].qty]
  OBVIOUS
<1>4. \A i \in DOMAIN e : f[i] \in Int
  BY <1>1, <1>3 DEF LedgerRow
<1>5. SumFunctionOnSet(f, P) \in Int
  BY <1>2, <1>4, SumSame
<1>6. ASSUME NEW Q \in SUBSET DOMAIN e, P \cap Q = {}
      PROVE  SumFunctionOnSet(f, P \cup Q) = SumFunctionOnSet(f, P) + SumFunctionOnSet(f, Q)
  BY <1>2, <1>4, <1>6, SumUnion
<1> QED BY <1>1, <1>2, <1>3, <1>5, <1>6 DEF SumOf

\* An entry more: the sums over the others stay, and its own counts.
LEMMA EntryMore ==
  ASSUME NEW e \in Seq(LedgerRow), NEW x \in LedgerRow, NEW n, n = Len(e) + 1,
         NEW P \in SUBSET DOMAIN e
  PROVE  /\ Append(e, x) \in Seq(LedgerRow) /\ n \notin DOMAIN e
         /\ DOMAIN Append(e, x) = DOMAIN e \cup {n} /\ Append(e, x)[n] = x
         /\ \A i \in DOMAIN e : Append(e, x)[i] = e[i]
         /\ SumOf(Append(e, x), P) = SumOf(e, P)
         /\ SumOf(Append(e, x), P \cup {n}) = SumOf(e, P) + x.qty
<1>1. PICK d : d = Append(e, x)
  OBVIOUS
<1>2. /\ DOMAIN e = 1..Len(e) /\ Len(e) \in Nat /\ IsFiniteSet(P)
      /\ \A i \in DOMAIN e : e[i] \in LedgerRow
  BY EntrySums, ElementOfSeq
<1>3. d \in Seq(LedgerRow) /\ Len(d) = n /\ d[n] = x /\ \A i \in 1..Len(e) : d[i] = e[i]
  BY <1>1, <1>2, AppendProperties
<1>4. DOMAIN d = DOMAIN e \cup {n} /\ n \notin DOMAIN e
  BY <1>2, <1>3, LenProperties
<1>5. PICK f : f = [i \in DOMAIN e |-> e[i].qty]
  OBVIOUS
<1>6. PICK g : g = [i \in DOMAIN d |-> d[i].qty]
  OBVIOUS
<1>7. \A i \in P : f[i] \in Int /\ g[i] = f[i]
  BY <1>2, <1>3, <1>4, <1>5, <1>6 DEF LedgerRow
<1>8. SumFunctionOnSet(g, P) = SumFunctionOnSet(f, P)
  BY <1>2, <1>7, SumSame
<1>9. g[n] = x.qty /\ x.qty \in Int
  BY <1>3, <1>4, <1>6 DEF LedgerRow
<1>10. SumFunctionOnSet(g, P \cup {n}) = SumFunctionOnSet(g, P) + g[n]
  <2>1. n \notin P /\ \A t \in P \cup {n} : g[t] \in Int
    BY <1>4, <1>7, <1>9
  <2> QED BY <1>2, <2>1, SumInsert
<1> QED BY <1>1, <1>2, <1>3, <1>4, <1>5, <1>6, <1>8, <1>9, <1>10 DEF SumOf

\* Ledgers d and e have the same entries of location m.
Alike(d, e, m) == Of(d, m) = Of(e, m) /\ \A i \in Of(e, m) : d[i] = e[i]

\* A commit continues the ledger.
LEMMA BookGrows ==
  ASSUME NEW e, NEW h, NEW c, BookInv(e, h, c), NEW x, Continues(e, h, c, x),
         NEW d, d = Append(e, x), NEW g, g = [h EXCEPT ![x.loc] = x.after]
  PROVE  /\ BookInv(d, g, c)
         /\ \A m \in Stores : m # x.loc => Alike(d, e, m)
<1>1. d = Append(e, x)
  OBVIOUS
<1>2. PICK n : n = Len(e) + 1
  OBVIOUS
<1>3. PICK l, q : l = x.loc /\ q = x.qty
  OBVIOUS
<1>16. g = [h EXCEPT ![l] = x.after]
  BY <1>3
<1>4. /\ e \in Seq(LedgerRow) /\ h \in [Stores -> Int] /\ c \in Nat
      /\ \A i \in DOMAIN e : e[i].at <= c
      /\ \A i, j \in DOMAIN e : i <= j /\ e[i].loc = e[j].loc => e[i].at <= e[j].at
      /\ \A i \in DOMAIN e : e[i].after = SumOf(e, UpToEntry(e, e[i].loc, i))
      /\ \A m \in Stores : h[m] = SumOf(e, Of(e, m))
  BY DEF BookInv
<1>5. /\ x \in LedgerRow /\ l \in Stores /\ q \in Int /\ x.at <= c /\ x.after = h[l] + q
      /\ \A i \in Of(e, l) : e[i].at <= x.at
  BY <1>3 DEF Continues, LedgerRow
<1>6. /\ DOMAIN e = 1..Len(e) /\ Len(e) \in Nat /\ \A i \in DOMAIN e : e[i] \in LedgerRow
  BY <1>4, EntrySums, ElementOfSeq
<1>7. /\ d \in Seq(LedgerRow) /\ n \notin DOMAIN e
      /\ DOMAIN d = DOMAIN e \cup {n} /\ d[n] = x /\ \A i \in DOMAIN e : d[i] = e[i]
      /\ \A P \in SUBSET DOMAIN e : /\ SumOf(d, P) = SumOf(e, P)
                                    /\ SumOf(d, P \cup {n}) = SumOf(e, P) + q
  <2>1. ASSUME NEW P \in SUBSET DOMAIN e
        PROVE  /\ d \in Seq(LedgerRow) /\ n \notin DOMAIN e
               /\ DOMAIN d = DOMAIN e \cup {n} /\ d[n] = x /\ \A i \in DOMAIN e : d[i] = e[i]
               /\ SumOf(d, P) = SumOf(e, P) /\ SumOf(d, P \cup {n}) = SumOf(e, P) + q
    <3>1. e \in Seq(LedgerRow) /\ x \in LedgerRow /\ n = Len(e) + 1
      BY <1>2, <1>4, <1>5
    <3>2. /\ Append(e, x) \in Seq(LedgerRow) /\ n \notin DOMAIN e
          /\ DOMAIN Append(e, x) = DOMAIN e \cup {n} /\ Append(e, x)[n] = x
          /\ \A i \in DOMAIN e : Append(e, x)[i] = e[i]
          /\ SumOf(Append(e, x), P) = SumOf(e, P)
          /\ SumOf(Append(e, x), P \cup {n}) = SumOf(e, P) + x.qty
      BY <3>1, EntryMore
    <3> QED BY <1>1, <1>3, <3>2
  <2>2. {} \in SUBSET DOMAIN e
    OBVIOUS
  <2> QED BY <2>1, <2>2
<1>8. g \in [Stores -> Int] /\ \A m \in Stores : g[m] = IF m = l THEN h[l] + q ELSE h[m]
  <2>1. x.after \in Int
    BY <1>5 DEF LedgerRow
  <2>2. g = [h EXCEPT ![l] = x.after] /\ h \in [Stores -> Int]
    BY <1>4, <1>16
  <2>3. g \in [Stores -> Int] /\ \A m \in Stores : g[m] = IF m = l THEN x.after ELSE h[m]
    BY <1>5, <2>1, <2>2
  <2> QED BY <1>5, <2>3
<1>9. \A m \in Stores : Of(e, m) \in SUBSET DOMAIN e /\ Of(d, m) = IF m = l THEN Of(e, l) \cup {n} ELSE Of(e, m)
  BY <1>3, <1>7 DEF Of
<1>10. \A m \in Stores : g[m] = SumOf(d, Of(d, m))
  BY <1>4, <1>7, <1>8, <1>9
<1>11. \A i \in DOMAIN d : d[i].at <= c
  BY <1>4, <1>5, <1>7
<1>12. \A i, j \in DOMAIN d : i <= j /\ d[i].loc = d[j].loc => d[i].at <= d[j].at
  <2> SUFFICES ASSUME NEW i \in DOMAIN d, NEW j \in DOMAIN d, i <= j, d[i].loc = d[j].loc
               PROVE  d[i].at <= d[j].at
    OBVIOUS
  <2>1. CASE j = n
    <3>1. CASE i = n
      BY <1>5, <1>7, <2>1, <3>1 DEF LedgerRow
    <3>2. CASE i # n
      <4>1. i \in Of(e, l) /\ d[i] = e[i] /\ d[j] = x
        BY <1>3, <1>7, <2>1, <3>2 DEF Of
      <4> QED BY <1>5, <4>1
    <3> QED BY <3>1, <3>2
  <2>2. CASE j # n
    <3>1. i \in DOMAIN e /\ j \in DOMAIN e
      BY <1>2, <1>6, <1>7, <2>2
    <3> QED BY <1>4, <1>7, <3>1
  <2> QED BY <2>1, <2>2
<1>13. ASSUME NEW i \in DOMAIN d
       PROVE  d[i].after = SumOf(d, UpToEntry(d, d[i].loc, i))
  <2>1. CASE i = n
    <3>1. UpToEntry(d, l, n) = Of(e, l) \cup {n} /\ Of(e, l) \in SUBSET DOMAIN e
      BY <1>2, <1>3, <1>6, <1>7 DEF UpToEntry, Of
    <3>2. SumOf(d, UpToEntry(d, l, n)) = SumOf(e, Of(e, l)) + q
      BY <1>7, <3>1
    <3>3. h[l] = SumOf(e, Of(e, l)) /\ d[i] = x
      BY <1>4, <1>5, <1>7, <2>1
    <3> QED BY <1>3, <1>5, <2>1, <3>2, <3>3
  <2>2. CASE i # n
    <3>1. i \in DOMAIN e /\ d[i] = e[i]
      BY <1>7, <2>2
    <3>2. UpToEntry(d, e[i].loc, i) = UpToEntry(e, e[i].loc, i)
      BY <1>2, <1>6, <1>7, <3>1 DEF UpToEntry, Of
    <3>3. UpToEntry(e, e[i].loc, i) \in SUBSET DOMAIN e
      BY DEF UpToEntry, Of
    <3> QED BY <1>4, <1>7, <3>1, <3>2, <3>3
  <2> QED BY <2>1, <2>2
<1>14. BookInv(d, g, c)
  BY <1>4, <1>7, <1>8, <1>10, <1>11, <1>12, <1>13 DEF BookInv
<1>15. \A m \in Stores : m # l => Alike(d, e, m)
  BY <1>7, <1>9 DEF Alike
<1> QED BY <1>3, <1>14, <1>15
-----------------------------------------------------------------------------
(* Reports: what is read in several queries fits one moment of the ledger. *)

ReportRow == [opening : Int, inbound : Int, outbound : Int]

Report ==
  [pc : {"balances", "rows", "done"}, kind : {"overview", "opname"}, first : Int, last : Int,
   range : [gte : Int, lte : Int], seen : Nat, shown : SUBSET Stores,
   rows : UNION {[D -> ReportRow] : D \in SUBSET Stores}]

\* The entries of the period, and those until its end, that are written by entry k.
Moved(e, l, span, k) == {i \in During(e, l, span) : i <= k}
Until(e, l, span, k) == {i \in Of(e, l) : i <= k /\ e[i].at <= span.lte}

\* What a row of location l says of ledger e: its opening, and what some entry k ends.
OpenedTruly(e, r, l, row) ==
  row.opening # Unread => row.opening = SumOf(e, Earlier(e, l, r.range.gte))

MovedTruly(e, r, l, row) ==
  row.inbound # Unread =>
    \E k \in r.seen..Len(e) : row.inbound - row.outbound = SumOf(e, Moved(e, l, r.range, k))

ClosedTruly(e, r, l, row) ==
  \E k \in r.seen..Len(e) : Closing(row) = SumOf(e, Until(e, l, r.range, k))

\* Nothing of before the period was committed since the report was asked for.
SettledIn(e, r, l) == \A i \in Of(e, l) : i > r.seen => r.range.gte <= e[i].at

\* An overview's row has its opening last, and then closes; an opname's has its parts
\* in either order.
OverviewRow(e, r, l, row) ==
  /\ row.inbound = Unread => row.opening = Unread
  /\ row.inbound # Unread /\ row.opening # Unread /\ r.range.gte <= r.range.lte
       => ClosedTruly(e, r, l, row)

OpnameRow(e, r, l, row) == SettledIn(e, r, l) => OpenedTruly(e, r, l, row)

RowRead(e, r, l, row) ==
  /\ MovedTruly(e, r, l, row)
  /\ r.kind = "overview" => OverviewRow(e, r, l, row)
  /\ r.kind = "opname" => OpnameRow(e, r, l, row)

RowDone(e, r, l, row) ==
  r.range.gte <= r.range.lte /\ (r.kind = "opname" => SettledIn(e, r, l))
    => ClosedTruly(e, r, l, row)

RowTrue(e, r, l) ==
  Distinct(e, l, r.range.gte) =>
    /\ r.pc = "rows" => RowRead(e, r, l, r.rows[l])
    /\ r.pc = "done" => RowDone(e, r, l, r.rows[l])

ReportTrue(e, r) ==
  /\ r \in Report /\ r.seen <= Len(e)
  /\ r.first = NoDay => r.range.gte = 0
  /\ r.pc = "balances" =>
       /\ DOMAIN r.rows = {} /\ r.kind = "overview"
       /\ r.first = NoDay /\ r.last = NoDay => r.range.lte = LastHalfDay
  /\ r.kind = "opname" => DOMAIN r.rows = r.shown
  /\ \A l \in DOMAIN r.rows : RowTrue(e, r, l)

BooksInv ==
  /\ BookInv(entries, onHand, clock)
  /\ clock <= LastHalfDay /\ zone \in -1..1
  /\ DraftInv(entries, onHand, clock, draft)
  /\ report = NoReport \/ ReportTrue(entries, report)

\* A commit after a report was asked for takes nothing from what the report shows.
LEMMA ReportKept ==
  ASSUME NEW e \in Seq(LedgerRow), NEW x \in LedgerRow, NEW r, ReportTrue(e, r)
  PROVE  ReportTrue(Append(e, x), r)
<1>1. PICK d : d = Append(e, x)
  OBVIOUS
<1>2. PICK n : n = Len(e) + 1
  OBVIOUS
<1>3. /\ DOMAIN e = 1..Len(e) /\ Len(e) \in Nat /\ \A i \in DOMAIN e : e[i] \in LedgerRow
  BY EntrySums, ElementOfSeq
<1>4. ASSUME NEW P \in SUBSET DOMAIN e
      PROVE  /\ d \in Seq(LedgerRow) /\ n \notin DOMAIN e
             /\ DOMAIN d = DOMAIN e \cup {n} /\ d[n] = x /\ \A i \in DOMAIN e : d[i] = e[i]
             /\ SumOf(d, P) = SumOf(e, P)
  <2>0. e \in Seq(LedgerRow) /\ x \in LedgerRow /\ n = Len(e) + 1
    BY <1>2
  <2>1. /\ Append(e, x) \in Seq(LedgerRow) /\ n \notin DOMAIN e
        /\ DOMAIN Append(e, x) = DOMAIN e \cup {n} /\ Append(e, x)[n] = x
        /\ \A i \in DOMAIN e : Append(e, x)[i] = e[i]
        /\ SumOf(Append(e, x), P) = SumOf(e, P)
        /\ SumOf(Append(e, x), P \cup {n}) = SumOf(e, P) + x.qty
    BY <2>0, EntryMore
  <2> QED BY <1>1, <2>1
<1>5. /\ d \in Seq(LedgerRow) /\ n \notin DOMAIN e /\ DOMAIN d = DOMAIN e \cup {n} /\ d[n] = x
      /\ \A i \in DOMAIN e : d[i] = e[i]
      /\ \A P \in SUBSET DOMAIN e : SumOf(d, P) = SumOf(e, P)
  <2>1. {} \in SUBSET DOMAIN e
    OBVIOUS
  <2> QED BY <1>4, <2>1
<1>6. Len(d) = n
  BY <1>1, <1>2, AppendProperties
<1>7. r \in Report /\ r.seen \in Nat /\ r.range.gte \in Int /\ r.seen <= Len(e)
  BY DEF ReportTrue, Report
<1>8. ASSUME NEW l \in DOMAIN r.rows
      PROVE  RowTrue(d, r, l)
  <2>1. RowTrue(e, r, l)
    BY DEF ReportTrue
  <2>2. Of(e, l) \in SUBSET Of(d, l) /\ \A i \in Of(e, l) : d[i] = e[i]
    BY <1>5 DEF Of
  <2>3. /\ Earlier(e, l, r.range.gte) \in SUBSET Earlier(d, l, r.range.gte)
        /\ Earlier(e, l, r.range.gte) \in SUBSET DOMAIN e
    BY <2>2 DEF Earlier, Of
  <2>4. Distinct(d, l, r.range.gte) => Distinct(e, l, r.range.gte)
    BY <1>5, <2>3 DEF Distinct
  <2>5. SettledIn(d, r, l) => SettledIn(e, r, l)
    BY <2>2 DEF SettledIn
  <2>6. ASSUME SettledIn(d, r, l)
        PROVE  SumOf(d, Earlier(d, l, r.range.gte)) = SumOf(e, Earlier(e, l, r.range.gte))
    <3>1. n \in Of(d, l) => ~(d[n].at < r.range.gte)
      <4>1. d[n].at \in Nat /\ n > r.seen
        BY <1>2, <1>3, <1>5, <1>7 DEF LedgerRow
      <4> QED BY <1>7, <2>6, <4>1 DEF SettledIn
    <3>2. Earlier(d, l, r.range.gte) = Earlier(e, l, r.range.gte)
      BY <1>5, <3>1 DEF Earlier, Of
    <3> QED BY <1>5, <2>3, <3>2
  <2>7. ASSUME NEW k \in r.seen..Len(e)
        PROVE  /\ k \in r.seen..Len(d)
               /\ SumOf(d, Moved(d, l, r.range, k)) = SumOf(e, Moved(e, l, r.range, k))
               /\ SumOf(d, Until(d, l, r.range, k)) = SumOf(e, Until(e, l, r.range, k))
    <3>1. ~(n <= k) /\ k \in r.seen..Len(d)
      BY <1>2, <1>3, <1>6, <1>7
    <3>2. Moved(d, l, r.range, k) = Moved(e, l, r.range, k)
      BY <1>5, <3>1 DEF Moved, During, Of
    <3>3. Until(d, l, r.range, k) = Until(e, l, r.range, k)
      BY <1>5, <3>1 DEF Until, Of
    <3>4. /\ Moved(e, l, r.range, k) \in SUBSET DOMAIN e
          /\ Until(e, l, r.range, k) \in SUBSET DOMAIN e
      BY DEF Moved, Until, During, Of
    <3> QED BY <1>5, <3>1, <3>2, <3>3, <3>4
  <2>8. PICK row : row = r.rows[l]
    OBVIOUS
  <2>9. MovedTruly(e, r, l, row) => MovedTruly(d, r, l, row)
    BY <2>7 DEF MovedTruly
  <2>10. ClosedTruly(e, r, l, row) => ClosedTruly(d, r, l, row)
    BY <2>7 DEF ClosedTruly
  <2>11. OverviewRow(e, r, l, row) => OverviewRow(d, r, l, row)
    BY <2>10 DEF OverviewRow
  <2>12. OpnameRow(e, r, l, row) => OpnameRow(d, r, l, row)
    BY <2>5, <2>6 DEF OpnameRow, OpenedTruly
  <2>13. RowRead(e, r, l, row) => RowRead(d, r, l, row)
    BY <2>9, <2>11, <2>12 DEF RowRead
  <2>14. RowDone(e, r, l, row) => RowDone(d, r, l, row)
    BY <2>5, <2>10 DEF RowDone
  <2> QED BY <2>1, <2>4, <2>8, <2>13, <2>14 DEF RowTrue
<1>9. r.seen <= Len(d)
  BY <1>2, <1>3, <1>6, <1>7
<1>10. ReportTrue(d, r)
  BY <1>7, <1>8, <1>9 DEF ReportTrue
<1> QED BY <1>1, <1>10

\* The clock goes on.
LEMMA BookLater ==
  ASSUME NEW e, NEW h, NEW c, NEW d, BookInv(e, h, c), DraftInv(e, h, c, d)
  PROVE  BookInv(e, h, c + 1) /\ DraftInv(e, h, c + 1, d)
<1>1. e \in Seq(LedgerRow) /\ c \in Nat /\ \A i \in DOMAIN e : e[i].at <= c
  BY DEF BookInv
<1>2. DOMAIN e = 1..Len(e) /\ \A i \in DOMAIN e : e[i] \in LedgerRow
  BY <1>1, EntrySums, ElementOfSeq
<1>3. \A i \in DOMAIN e : e[i].at \in Nat
  BY <1>2 DEF LedgerRow
<1>4. c + 1 \in Nat /\ \A i \in DOMAIN e : e[i].at <= c + 1
  BY <1>1, <1>3
<1>5. DraftInv(e, h, c + 1, d)
  BY <1>1 DEF DraftInv, Continues, LedgerRow
<1> QED BY <1>4, <1>5 DEF BookInv

\* The last entry before a day, if there is one, is the last of its location then: those
\* up to it are the entries before the day.
LEMMA LastBefore ==
  ASSUME BookInv(entries, onHand, clock), NEW l \in Stores, NEW n \in Int,
         Distinct(entries, l, n), NEW b \in LastBalances(Earlier(entries, l, n)),
         Earlier(entries, l, n) # {}
  PROVE  \E i \in Earlier(entries, l, n) :
           b = entries[i].after /\ Earlier(entries, l, n) = UpToEntry(entries, l, i)
<1>1. PICK S : S = Earlier(entries, l, n)
  OBVIOUS
<1>2. /\ entries \in Seq(LedgerRow) /\ \A i \in DOMAIN entries : entries[i] \in LedgerRow
      /\ DOMAIN entries = 1..Len(entries) /\ Len(entries) \in Nat
      /\ \A i, j \in DOMAIN entries :
           i <= j /\ entries[i].loc = entries[j].loc => entries[i].at <= entries[j].at
  BY EntrySums, ElementOfSeq DEF BookInv
<1>3. \A i \in DOMAIN entries : entries[i].at \in Nat
  BY <1>2 DEF LedgerRow
<1>4. PICK i \in S : b = entries[i].after /\ \A k \in S : entries[k].at <= entries[i].at
  BY <1>1 DEF LastBalances
<1>5. i \in DOMAIN entries /\ entries[i].loc = l /\ entries[i].at < n
  BY <1>1, <1>4 DEF Earlier, Of
<1>6. ASSUME NEW j \in S PROVE j <= i
  <2>1. j \in DOMAIN entries /\ entries[j].loc = l
    BY <1>1 DEF Earlier, Of
  <2>2. CASE ~(j <= i)
    <3>1. entries[i].at <= entries[j].at /\ entries[j].at <= entries[i].at
      BY <1>2, <1>4, <1>5, <2>1, <2>2
    <3>2. entries[i].at = entries[j].at
      BY <1>3, <1>5, <2>1, <3>1
    <3> QED BY <1>1, <1>2, <1>4, <1>5, <2>2, <3>2 DEF Distinct
  <2> QED BY <2>2
<1>7. S = UpToEntry(entries, l, i)
  <2>1. ASSUME NEW j \in UpToEntry(entries, l, i) PROVE j \in S
    <3>1. j \in DOMAIN entries /\ entries[j].loc = l /\ j <= i
      BY DEF UpToEntry, Of
    <3>2. entries[j].at < n
      BY <1>2, <1>3, <1>5, <3>1
    <3> QED BY <1>1, <3>1, <3>2 DEF Earlier, Of
  <2>2. \A j \in S : j \in UpToEntry(entries, l, i)
    BY <1>1, <1>6 DEF UpToEntry, Earlier, Of
  <2> QED BY <2>1, <2>2
<1> QED BY <1>1, <1>4, <1>7

\* The balance after the last entry before a day is the sum of the entries before it.
LEMMA OpeningRead ==
  ASSUME BookInv(entries, onHand, clock), NEW l \in Stores, NEW n \in Int,
         Distinct(entries, l, n), NEW b \in LastBalances(Earlier(entries, l, n))
  PROVE  b = SumOf(entries, Earlier(entries, l, n))
<1>1. CASE Earlier(entries, l, n) = {}
  <2>1. b = 0
    BY <1>1 DEF LastBalances
  <2> QED BY <1>1, <2>1, SumEmpty DEF SumOf
<1>2. CASE Earlier(entries, l, n) # {}
  <2>1. PICK i \in Earlier(entries, l, n) :
          b = entries[i].after /\ Earlier(entries, l, n) = UpToEntry(entries, l, i)
    BY <1>2, LastBefore
  <2>2. i \in DOMAIN entries /\ entries[i].loc = l
    BY DEF Earlier, Of
  <2> QED BY <2>1, <2>2 DEF BookInv
<1> QED BY <1>1, <1>2

\* An opening that is read after the movements closes with the stock of one moment: when
\* an entry of before the period was committed in between, nothing of the period was
\* there before, and the moment is that entry's.
LEMMA OpeningCloses ==
  ASSUME BookInv(entries, onHand, clock), NEW l \in Stores, NEW range \in [gte : Int, lte : Int],
         range.gte <= range.lte, Distinct(entries, l, range.gte),
         NEW b \in LastBalances(Earlier(entries, l, range.gte)),
         NEW seen \in Nat, NEW k \in seen..Len(entries)
  PROVE  \E m \in seen..Len(entries) :
           b + SumOf(entries, Moved(entries, l, range, k)) = SumOf(entries, Until(entries, l, range, m))
<1>1. PICK S : S = Earlier(entries, l, range.gte)
  OBVIOUS
<1>2. PICK M : M = Moved(entries, l, range, k)
  OBVIOUS
<1>3. /\ entries \in Seq(LedgerRow) /\ DOMAIN entries = 1..Len(entries) /\ Len(entries) \in Nat
      /\ \A i \in DOMAIN entries : entries[i] \in LedgerRow
      /\ \A i, j \in DOMAIN entries :
           i <= j /\ entries[i].loc = entries[j].loc => entries[i].at <= entries[j].at
  BY EntrySums, ElementOfSeq DEF BookInv
<1>4. \A i \in DOMAIN entries : entries[i].at \in Nat
  BY <1>3 DEF LedgerRow
<1>5. b = SumOf(entries, S) /\ range.gte \in Int /\ range.lte \in Int /\ k \in Nat
  BY <1>1, <1>3, OpeningRead
<1>6. S \in SUBSET DOMAIN entries /\ M \in SUBSET DOMAIN entries
  BY <1>1, <1>2 DEF Earlier, Moved, During, Of
<1>7. S \cap M = {}
  BY <1>1, <1>2, <1>4, <1>5, <1>6 DEF Earlier, Moved, During
<1>8. /\ SumOf(entries, S \cup M) = SumOf(entries, S) + SumOf(entries, M)
      /\ SumOf(entries, S) \in Int /\ SumOf(entries, M) \in Int
  BY <1>3, <1>6, <1>7, EntrySums
<1>9. CASE \A i \in S : i <= k
  <2>1. S \cup M = Until(entries, l, range, k)
    <3>1. ASSUME NEW i \in S PROVE i \in Until(entries, l, range, k)
      <4>1. i \in Of(entries, l) /\ i \in DOMAIN entries /\ entries[i].at < range.gte
        BY <1>1 DEF Earlier, Of
      <4>2. entries[i].at <= range.lte
        BY <1>4, <1>5, <4>1
      <4> QED BY <1>9, <4>1, <4>2 DEF Until
    <3>2. \A i \in M : i \in Until(entries, l, range, k)
      BY <1>2 DEF Moved, During, Until
    <3>3. ASSUME NEW i \in Until(entries, l, range, k) PROVE i \in S \cup M
      <4>1. i \in Of(entries, l) /\ i \in DOMAIN entries /\ i <= k /\ entries[i].at <= range.lte
        BY DEF Until, Of
      <4>2. CASE entries[i].at < range.gte
        BY <1>1, <4>1, <4>2 DEF Earlier
      <4>3. CASE ~(entries[i].at < range.gte)
        <5>1. range.gte <= entries[i].at
          BY <1>4, <1>5, <4>1, <4>3
        <5> QED BY <1>2, <4>1, <5>1 DEF Moved, During
      <4> QED BY <4>2, <4>3
    <3> QED BY <3>1, <3>2, <3>3
  <2> QED BY <1>2, <1>5, <1>8, <2>1
<1>10. CASE ~ \A i \in S : i <= k
  <2>1. S # {}
    BY <1>10
  <2>2. PICK i \in S : S = UpToEntry(entries, l, i)
    BY <1>1, <2>1, LastBefore
  <2>3. i \in DOMAIN entries /\ entries[i].loc = l /\ entries[i].at < range.gte
    BY <1>1 DEF Earlier, Of
  <2>4. i > k
    <3>1. PICK j \in S : ~(j <= k)
      BY <1>10
    <3>2. j <= i /\ j \in DOMAIN entries
      BY <1>6, <2>2 DEF UpToEntry
    <3> QED BY <1>3, <1>5, <2>3, <3>1, <3>2
  <2>5. M = {}
    <3> SUFFICES ASSUME NEW j \in M PROVE FALSE
      OBVIOUS
    <3>1. j \in DOMAIN entries /\ entries[j].loc = l /\ j <= k /\ range.gte <= entries[j].at
      BY <1>2 DEF Moved, During, Of
    <3>2. j <= i
      BY <1>3, <1>5, <2>3, <2>4, <3>1
    <3>3. entries[j].at <= entries[i].at
      BY <1>3, <2>3, <3>1, <3>2
    <3> QED BY <1>4, <1>5, <2>3, <3>1, <3>3
  <2>6. S = Until(entries, l, range, i)
    <3>1. \A j \in S : entries[j].at <= range.lte
      <4> TAKE j \in S
      <4>1. j \in DOMAIN entries /\ entries[j].at < range.gte
        BY <1>1 DEF Earlier, Of
      <4> QED BY <1>4, <1>5, <4>1
    <3> QED BY <2>2, <3>1 DEF Until, UpToEntry
  <2>7. S \cup M = Until(entries, l, range, i) /\ i \in seen..Len(entries)
    BY <1>3, <1>5, <2>3, <2>4, <2>5, <2>6
  <2> QED BY <1>2, <1>5, <1>8, <2>7
<1> QED BY <1>9, <1>10

\* The sources are three.
LEMMA SourcesFinite == IsFiniteSet(Sources)
<1>1. PICK a, b, c : a = "ADJUSTMENT" /\ b = "TRANSFER_IN" /\ c = "TRANSFER_OUT"
  OBVIOUS
<1>2. Sources = ({} \cup {a}) \cup {b} \cup {c}
  BY <1>1 DEF Sources, Signed
<1>3. IsFiniteSet({} \cup {a})
  BY FS_EmptySet, FS_AddElement
<1>4. IsFiniteSet(({} \cup {a}) \cup {b})
  BY <1>3, FS_AddElement
<1> QED BY <1>2, <1>4, FS_AddElement

\* The sums of the sources, each on one side or the other, are what was moved.
LEMMA SourcesAddUp ==
  ASSUME NEW e \in Seq(LedgerRow), NEW M \in SUBSET DOMAIN e,
         NEW f, f = [s \in Sources |-> SumOf(e, {i \in M : e[i].source = s})],
         NEW G \in SUBSET Sources
  PROVE  /\ SumFunctionOnSet(f, G) \in Int /\ SumFunctionOnSet(f, Sources \ G) \in Int
         /\ SumFunctionOnSet(f, G) + SumFunctionOnSet(f, Sources \ G) = SumOf(e, M)
<1>1. \A i \in DOMAIN e : e[i] \in LedgerRow
  BY EntrySums, ElementOfSeq
<1>2. PICK a : a = "ADJUSTMENT"
  OBVIOUS
<1>3. PICK b : b = "TRANSFER_IN"
  OBVIOUS
<1>4. PICK c : c = "TRANSFER_OUT"
  OBVIOUS
<1>5. a # b /\ a # c /\ b # c /\ Sources = {a, b, c}
  BY <1>2, <1>3, <1>4 DEF Sources, Signed
<1>6. PICK A : A = {i \in M : e[i].source = a}
  OBVIOUS
<1>7. PICK B : B = {i \in M : e[i].source = b}
  OBVIOUS
<1>8. PICK C : C = {i \in M : e[i].source = c}
  OBVIOUS
<1>9. A \in SUBSET DOMAIN e /\ B \in SUBSET DOMAIN e /\ C \in SUBSET DOMAIN e /\ A \cup B \in SUBSET DOMAIN e
  BY <1>6, <1>7, <1>8
<1>10. A \cap B = {} /\ (A \cup B) \cap C = {}
  BY <1>5, <1>6, <1>7, <1>8
<1>11. (A \cup B) \cup C = M
  <2>1. \A i \in M : e[i].source \in {a, b, c}
    BY <1>1, <1>5 DEF LedgerRow
  <2> QED BY <1>6, <1>7, <1>8, <2>1
<1>12. SumOf(e, A \cup B) = SumOf(e, A) + SumOf(e, B)
  BY <1>9, <1>10, EntrySums
<1>13. SumOf(e, (A \cup B) \cup C) = SumOf(e, A \cup B) + SumOf(e, C)
  BY <1>9, <1>10, EntrySums
<1>14. SumOf(e, A) \in Int /\ SumOf(e, B) \in Int /\ SumOf(e, C) \in Int
  BY <1>9, EntrySums
<1>15. f[a] = SumOf(e, A) /\ f[b] = SumOf(e, B) /\ f[c] = SumOf(e, C)
  BY <1>5, <1>6, <1>7, <1>8
<1>16. IsFiniteSet({}) /\ IsFiniteSet({a}) /\ IsFiniteSet({a, b}) /\ IsFiniteSet(Sources)
  <2>1. IsFiniteSet({}) /\ IsFiniteSet({a}) /\ IsFiniteSet({a, b})
    <3>1. {a} = {} \cup {a} /\ {a, b} = {a} \cup {b}
      OBVIOUS
    <3>2. IsFiniteSet({})
      BY FS_EmptySet
    <3>3. IsFiniteSet({} \cup {a})
      BY <3>2, FS_AddElement
    <3>4. IsFiniteSet({a} \cup {b})
      BY <3>1, <3>3, FS_AddElement
    <3> QED BY <3>1, <3>2, <3>3, <3>4
  <2>2. Sources = {a, b} \cup {c}
    BY <1>5
  <2> QED BY <2>1, <2>2, FS_AddElement
<1>17. \A s \in Sources : f[s] \in Int
  BY <1>5, <1>14, <1>15
<1>18. SumFunctionOnSet(f, {a}) = f[a]
  <2>1. a \notin {} /\ \A t \in {} \cup {a} : f[t] \in Int
    BY <1>5, <1>17
  <2>2. SumFunctionOnSet(f, {} \cup {a}) = SumFunctionOnSet(f, {}) + f[a]
    BY <1>16, <2>1, SumInsert
  <2>3. SumFunctionOnSet(f, {}) = 0 /\ {} \cup {a} = {a}
    BY SumEmpty
  <2> QED BY <1>14, <1>15, <2>2, <2>3
<1>19. SumFunctionOnSet(f, {a, b}) = f[a] + f[b]
  <2>1. b \notin {a} /\ \A t \in {a} \cup {b} : f[t] \in Int
    BY <1>5, <1>17
  <2>2. SumFunctionOnSet(f, {a} \cup {b}) = SumFunctionOnSet(f, {a}) + f[b]
    BY <1>16, <2>1, SumInsert
  <2>3. {a} \cup {b} = {a, b}
    OBVIOUS
  <2> QED BY <1>18, <2>2, <2>3
<1>20. SumFunctionOnSet(f, Sources) = (f[a] + f[b]) + f[c]
  <2>1. c \notin {a, b} /\ \A t \in {a, b} \cup {c} : f[t] \in Int
    BY <1>5, <1>17
  <2>2. SumFunctionOnSet(f, {a, b} \cup {c}) = SumFunctionOnSet(f, {a, b}) + f[c]
    BY <1>16, <2>1, SumInsert
  <2>3. {a, b} \cup {c} = Sources
    BY <1>5
  <2> QED BY <1>19, <2>2, <2>3
<1>21. PICK D : D = Sources \ G
  OBVIOUS
<1>22. IsFiniteSet(G) /\ IsFiniteSet(D) /\ G \cap D = {} /\ G \cup D = Sources
  BY <1>16, <1>21, FS_Subset
<1>23. /\ SumFunctionOnSet(f, G \cup D) = SumFunctionOnSet(f, G) + SumFunctionOnSet(f, D)
       /\ SumFunctionOnSet(f, G) \in Int /\ SumFunctionOnSet(f, D) \in Int
  <2>1. \A t \in G \cup D : f[t] \in Int
    BY <1>17, <1>22
  <2> QED BY <1>22, <2>1, SumUnion
<1>24. SumFunctionOnSet(f, Sources) = SumOf(e, M)
  BY <1>11, <1>12, <1>13, <1>14, <1>15, <1>20
<1> QED BY <1>21, <1>22, <1>23, <1>24

\* What came and what went are what was moved.
LEMMA SignsAddUp ==
  ASSUME NEW e \in Seq(LedgerRow), NEW M \in SUBSET DOMAIN e
  PROVE  /\ SumOf(e, {i \in M : e[i].qty > 0}) \in Int /\ SumOf(e, {i \in M : e[i].qty < 0}) \in Int
         /\ SumOf(e, {i \in M : e[i].qty > 0}) + SumOf(e, {i \in M : e[i].qty < 0}) = SumOf(e, M)
<1>1. \A i \in DOMAIN e : e[i] \in LedgerRow
  BY EntrySums, ElementOfSeq
<1>2. \A i \in DOMAIN e : e[i].qty \in Int /\ e[i].qty # 0
  BY <1>1 DEF LedgerRow
<1>3. PICK A : A = {i \in M : e[i].qty > 0}
  OBVIOUS
<1>4. PICK B : B = {i \in M : e[i].qty < 0}
  OBVIOUS
<1>5. A \in SUBSET DOMAIN e /\ B \in SUBSET DOMAIN e /\ A \cap B = {} /\ A \cup B = M
  BY <1>2, <1>3, <1>4
<1>6. SumOf(e, A \cup B) = SumOf(e, A) + SumOf(e, B)
  BY <1>5, EntrySums
<1>7. SumOf(e, A) \in Int /\ SumOf(e, B) \in Int
  BY <1>5, EntrySums
<1> QED BY <1>3, <1>4, <1>5, <1>6, <1>7

\* A row of the opname report whose parts are both read closes with the stock of one moment,
\* if nothing of before the period was committed in between.
LEMMA RowCloses ==
  ASSUME NEW e \in Seq(LedgerRow), NEW r \in Report, NEW l \in DOMAIN r.rows,
         r.seen <= Len(e), r.range.gte <= r.range.lte, SettledIn(e, r, l),
         r.rows[l].opening # Unread, r.rows[l].inbound # Unread,
         OpenedTruly(e, r, l, r.rows[l]), MovedTruly(e, r, l, r.rows[l])
  PROVE  ClosedTruly(e, r, l, r.rows[l])
<1>1. /\ DOMAIN e = 1..Len(e) /\ Len(e) \in Nat /\ \A i \in DOMAIN e : e[i] \in LedgerRow
  BY EntrySums, ElementOfSeq
<1>2. \A i \in DOMAIN e : e[i].at \in Nat
  BY <1>1 DEF LedgerRow
<1>3. /\ r.range.gte \in Int /\ r.range.lte \in Int /\ r.seen \in Nat
  BY DEF Report
<1>4. PICK row : row = r.rows[l]
  OBVIOUS
<1>5. row.opening \in Int /\ row.inbound \in Int /\ row.outbound \in Int
  BY <1>4 DEF Report, ReportRow
<1>6. PICK k \in r.seen..Len(e) :
        row.inbound - row.outbound = SumOf(e, Moved(e, l, r.range, k))
  BY <1>4 DEF MovedTruly
<1>7. row.opening = SumOf(e, Earlier(e, l, r.range.gte))
  BY <1>4 DEF OpenedTruly
<1>8. PICK P : P = Earlier(e, l, r.range.gte)
  OBVIOUS
<1>9. PICK Q : Q = Moved(e, l, r.range, k)
  OBVIOUS
<1>10. P \in SUBSET DOMAIN e /\ Q \in SUBSET DOMAIN e
  BY <1>8, <1>9 DEF Earlier, Moved, During, Of
<1>11. P \cap Q = {}
  BY <1>2, <1>3, <1>10, <1>8, <1>9 DEF Earlier, Moved, During
<1>12. P \cup Q = Until(e, l, r.range, k)
  <2>1. ASSUME NEW i \in P PROVE i \in Until(e, l, r.range, k)
    <3>1. i \in Of(e, l) /\ i \in DOMAIN e /\ e[i].at < r.range.gte
      BY <1>8 DEF Earlier, Of
    <3>2. ~(i > r.seen)
      BY <1>2, <1>3, <3>1 DEF SettledIn
    <3>3. i <= k /\ e[i].at <= r.range.lte
      BY <1>1, <1>2, <1>3, <3>1, <3>2
    <3> QED BY <3>1, <3>3 DEF Until
  <2>2. ASSUME NEW i \in Q PROVE i \in Until(e, l, r.range, k)
    BY <1>9, <2>2 DEF Moved, During, Until
  <2>3. ASSUME NEW i \in Until(e, l, r.range, k) PROVE i \in P \cup Q
    <3>1. i \in Of(e, l) /\ i \in DOMAIN e /\ i <= k /\ e[i].at <= r.range.lte
      BY DEF Until, Of
    <3>2. CASE e[i].at < r.range.gte
      BY <1>8, <3>1, <3>2 DEF Earlier
    <3>3. CASE ~(e[i].at < r.range.gte)
      <4>1. r.range.gte <= e[i].at
        BY <1>2, <1>3, <3>1, <3>3
      <4> QED BY <1>9, <3>1, <4>1 DEF Moved, During
    <3> QED BY <3>2, <3>3
  <2> QED BY <2>1, <2>2, <2>3
<1>13. SumOf(e, P \cup Q) = SumOf(e, P) + SumOf(e, Q)
  BY <1>10, <1>11, EntrySums
<1>14. SumOf(e, P) \in Int /\ SumOf(e, Q) \in Int
  BY <1>10, EntrySums
<1>15. Closing(row) = SumOf(e, Until(e, l, r.range, k))
  BY <1>5, <1>6, <1>7, <1>8, <1>9, <1>12, <1>13, <1>14 DEF Closing
<1> QED BY <1>4, <1>15 DEF ClosedTruly

\* What is known of a report whose rows are being read.
LEMMA RowsKnown ==
  ASSUME BooksInv, report # NoReport
  PROVE  /\ report \in Report /\ report.rows \in [DOMAIN report.rows -> ReportRow]
         /\ DOMAIN report.rows \in SUBSET Stores
         /\ report.range.gte \in Int /\ report.range.lte \in Int
         /\ report.seen \in Nat /\ report.seen <= Len(entries)
         /\ entries \in Seq(LedgerRow) /\ BookInv(entries, onHand, clock)
         /\ report.range \in [gte : Int, lte : Int]
         /\ report.pc = "rows" =>
              \A l \in DOMAIN report.rows :
                Distinct(entries, l, report.range.gte) => RowRead(entries, report, l, report.rows[l])
<1>1. ReportTrue(entries, report) /\ BookInv(entries, onHand, clock)
  BY DEF BooksInv
<1>2. report \in Report /\ report.seen <= Len(entries) /\ entries \in Seq(LedgerRow)
  BY <1>1 DEF ReportTrue, BookInv
<1>3. report.rows \in UNION {[D -> ReportRow] : D \in SUBSET Stores}
  BY <1>2 DEF Report
<1>4. PICK D \in SUBSET Stores : report.rows \in [D -> ReportRow]
  BY <1>3
<1>5. DOMAIN report.rows \in SUBSET Stores /\ report.rows \in [DOMAIN report.rows -> ReportRow]
  BY <1>4
<1>6. report.range.gte \in Int /\ report.range.lte \in Int /\ report.seen \in Nat
  BY <1>2 DEF Report
<1>7. report.pc = "rows" =>
        \A l \in DOMAIN report.rows :
          Distinct(entries, l, report.range.gte) => RowRead(entries, report, l, report.rows[l])
  BY <1>1 DEF ReportTrue, RowTrue
<1>8. report.range \in [gte : Int, lte : Int]
  BY <1>2 DEF Report
<1> QED BY <1>1, <1>2, <1>5, <1>6, <1>7, <1>8

\* Rows that are filled truly leave the report true.
LEMMA RowsFilled ==
  ASSUME BooksInv, report # NoReport, report.pc = "rows",
         NEW filled \in [DOMAIN report.rows -> ReportRow],
         report' = [report EXCEPT !.rows = filled], UNCHANGED <<clock, zone, bookVars>>,
         \A l \in DOMAIN report.rows :
           Distinct(entries, l, report.range.gte) => RowRead(entries, report, l, filled[l])
  PROVE  BooksInv'
<1>1. PICK r : r = [report EXCEPT !.rows = filled]
  OBVIOUS
<1>2. report \in Report /\ DOMAIN report.rows \in SUBSET Stores
  BY RowsKnown
<1>3. filled \in UNION {[D -> ReportRow] : D \in SUBSET Stores}
  BY <1>2
<1>4. /\ r \in Report /\ r.rows = filled /\ r.pc = "rows" /\ r.kind = report.kind
      /\ r.first = report.first /\ r.last = report.last /\ r.range = report.range
      /\ r.seen = report.seen /\ r.shown = report.shown
  BY <1>1, <1>2, <1>3 DEF Report
<1>5. ReportTrue(entries, report)
  BY DEF BooksInv
<1>6. DOMAIN r.rows = DOMAIN report.rows
  BY <1>4
<1>7. ASSUME NEW l \in DOMAIN r.rows, Distinct(entries, l, r.range.gte)
      PROVE  RowRead(entries, r, l, r.rows[l])
  BY <1>4, <1>6, <1>7
     DEF RowRead, OverviewRow, OpnameRow, OpenedTruly, MovedTruly, ClosedTruly, SettledIn
<1>8. ReportTrue(entries, r)
  BY <1>4, <1>5, <1>6, <1>7 DEF ReportTrue, RowTrue
<1> QED BY <1>1, <1>8 DEF BooksInv, bookVars

\* The sums of an overview's row are those of the period, as it is written now.
LEMMA SumsKept ==
  ASSUME BooksInv, report # NoReport, NEW l \in Stores, ReadSums(l)
  PROVE  BooksInv'
<1>1. PICK M : M = During(entries, l, report.range)
  OBVIOUS
<1>2. PICK f : f = [s \in Sources |-> SumOf(entries, {i \in M : entries[i].source = s})]
  OBVIOUS
<1>3. PICK G : G = {s \in Signed : f[s] > 0}
  OBVIOUS
<1>4. InPeriod(l) = M /\ M \in SUBSET DOMAIN entries
  BY <1>1 DEF InPeriod, InRange, At, During, Of
<1>5. \A s \in Sources : BySource(l, s) = f[s]
  BY <1>2, <1>4 DEF BySource, Total, SumOf
<1>6. [s \in Sources |-> BySource(l, s)] = f
  BY <1>2, <1>5
<1>7. G \in SUBSET Sources /\ G = {s \in Signed : BySource(l, s) > 0}
  BY <1>3, <1>5 DEF Sources
<1>8. PICK row : row = [inbound  |-> SumFunctionOnSet(f, G),
                        outbound |-> -SumFunctionOnSet(f, Sources \ G),
                        opening  |-> IF report.first = NoDay THEN 0 ELSE report.rows[l].opening]
  OBVIOUS
<1>9. /\ report.pc = "rows" /\ l \in DOMAIN report.rows
      /\ report' = [report EXCEPT !.rows[l] = row]
      /\ UNCHANGED <<clock, zone, bookVars>>
  BY <1>6, <1>7, <1>8 DEF ReadSums
<1>10. /\ report \in Report /\ report.rows \in [DOMAIN report.rows -> ReportRow]
       /\ report.range.gte \in Int /\ report.seen \in Nat /\ report.seen <= Len(entries)
       /\ entries \in Seq(LedgerRow) /\ report.range.lte \in Int
       /\ \A m \in DOMAIN report.rows :
            Distinct(entries, m, report.range.gte) => RowRead(entries, report, m, report.rows[m])
  BY <1>9, RowsKnown
<1>11. /\ SumFunctionOnSet(f, G) \in Int /\ SumFunctionOnSet(f, Sources \ G) \in Int
       /\ SumFunctionOnSet(f, G) + SumFunctionOnSet(f, Sources \ G) = SumOf(entries, M)
  BY <1>2, <1>4, <1>7, <1>10, SourcesAddUp
<1>12. report.rows[l] \in ReportRow /\ report.rows[l].opening \in Int
  BY <1>9, <1>10 DEF ReportRow
<1>13. row \in ReportRow /\ row.inbound - row.outbound = SumOf(entries, M)
  BY <1>8, <1>11, <1>12 DEF ReportRow
<1>14. MovedTruly(entries, report, l, row)
  <2>1. Len(entries) \in Nat /\ DOMAIN entries = 1..Len(entries)
    BY <1>10, EntrySums
  <2>2. Moved(entries, l, report.range, Len(entries)) = M
    BY <1>1, <1>4, <2>1 DEF Moved
  <2>3. Len(entries) \in report.seen..Len(entries)
    BY <1>10, <2>1
  <2> QED BY <1>13, <2>2, <2>3 DEF MovedTruly
<1>15. row.inbound # Unread /\ report.rows[l].inbound = Unread /\ report.kind = "overview"
  <2>1. SumFunctionOnSet(f, G) \in Nat
    <3>1. IsFiniteSet(G)
      BY <1>7, SourcesFinite, FS_Subset
    <3>2. PICK g : g = [s \in G |-> f[s]]
      OBVIOUS
    <3>3. \A s \in G : f[s] \in Nat
      <4> TAKE s \in G
      <4>1. s \in Sources /\ f[s] > 0
        BY <1>3, <1>7
      <4>2. {i \in M : entries[i].source = s} \in SUBSET DOMAIN entries
        BY <1>4
      <4>3. f[s] \in Int
        BY <1>2, <1>10, <4>1, <4>2, EntrySums
      <4> QED BY <4>1, <4>3
    <3>4. g \in [G -> Nat]
      BY <3>2, <3>3
    <3>5. SumFunctionOnSet(g, G) \in Nat
      BY <3>1, <3>4, SumOfNaturals
    <3>6. SumFunctionOnSet(g, G) = SumFunctionOnSet(f, G)
      BY <3>1, <3>2, <3>3, SumSame
    <3> QED BY <3>5, <3>6
  <2>2. row.inbound \in Nat
    BY <1>8, <2>1
  <2> QED BY <2>2 DEF ReadSums, Unread
<1>16. ASSUME Distinct(entries, l, report.range.gte)
       PROVE  RowRead(entries, report, l, row)
  <2>1. report.rows[l].opening = Unread
    BY <1>9, <1>10, <1>15, <1>16 DEF RowRead, OverviewRow
  <2>2. CASE report.first = NoDay
    <3>1. report.range.gte = 0 /\ row.opening = 0
      BY <1>8, <2>2 DEF BooksInv, ReportTrue
    <3>2. \A i \in DOMAIN entries : entries[i].at \in Nat
      <4>1. \A i \in DOMAIN entries : entries[i] \in LedgerRow
        BY <1>10, EntrySums, ElementOfSeq
      <4> QED BY <4>1 DEF LedgerRow
    <3>3. Closing(row) = SumOf(entries, M)
      BY <1>8, <1>11, <1>13, <3>1 DEF Closing
    <3>4. Len(entries) \in Nat /\ DOMAIN entries = 1..Len(entries)
      BY <1>10, EntrySums
    <3>5. Until(entries, l, report.range, Len(entries)) = M
      BY <1>1, <3>1, <3>2, <3>4 DEF Until, During, Of
    <3>6. Len(entries) \in report.seen..Len(entries)
      BY <1>10, <3>4
    <3>7. ClosedTruly(entries, report, l, row)
      BY <3>3, <3>5, <3>6 DEF ClosedTruly
    <3> QED BY <1>14, <1>15, <3>7 DEF RowRead, OverviewRow
  <2>3. CASE report.first # NoDay
    <3>1. row.opening = Unread
      BY <1>8, <2>1, <2>3
    <3> QED BY <1>14, <1>15, <3>1 DEF RowRead, OverviewRow
  <2> QED BY <2>2, <2>3
<1>17. PICK filled : filled = [report.rows EXCEPT ![l] = row]
  OBVIOUS
<1>18. /\ filled \in [DOMAIN report.rows -> ReportRow] /\ report' = [report EXCEPT !.rows = filled]
       /\ filled[l] = row /\ \A m \in DOMAIN report.rows : m # l => filled[m] = report.rows[m]
  BY <1>9, <1>10, <1>13, <1>17
<1>19. \A m \in DOMAIN report.rows :
         Distinct(entries, m, report.range.gte) => RowRead(entries, report, m, filled[m])
  BY <1>10, <1>16, <1>18
<1> QED BY <1>9, <1>18, <1>19, RowsFilled

\* The last balance is a number.
LEMMA LastTyped ==
  ASSUME entries \in Seq(LedgerRow), NEW S \in SUBSET DOMAIN entries, NEW b \in LastBalances(S)
  PROVE  b \in Int
<1>1. \A i \in DOMAIN entries : entries[i] \in LedgerRow
  BY EntrySums, ElementOfSeq
<1>2. \A i \in DOMAIN entries : entries[i].after \in Int
  BY <1>1 DEF LedgerRow
<1> QED BY <1>2 DEF LastBalances

\* The opening that is read after the sums is the stock before the period.
LEMMA OpeningKept ==
  ASSUME BooksInv, report # NoReport, NEW l \in Stores, ReadOpening(l)
  PROVE  BooksInv'
<1>1. PICK n : n = report.range.gte
  OBVIOUS
<1>2. Before(l, n) = Earlier(entries, l, n)
  BY DEF Before, Earlier, At, Of
<1>3. PICK b \in LastBalances(Earlier(entries, l, n)) :
        report' = [report EXCEPT !.rows[l] = [@ EXCEPT !.opening = b]]
  BY <1>1, <1>2 DEF ReadOpening
<1>4. report.pc = "rows" /\ l \in DOMAIN report.rows /\ UNCHANGED <<clock, zone, bookVars>>
  BY DEF ReadOpening
<1>5. /\ report \in Report /\ report.rows \in [DOMAIN report.rows -> ReportRow] /\ n \in Int
      /\ entries \in Seq(LedgerRow) /\ BookInv(entries, onHand, clock)
      /\ report.range \in [gte : Int, lte : Int] /\ report.seen \in Nat
      /\ \A m \in DOMAIN report.rows :
           Distinct(entries, m, n) => RowRead(entries, report, m, report.rows[m])
  BY <1>1, <1>4, RowsKnown
<1>6. PICK row : row = [report.rows[l] EXCEPT !.opening = b]
  OBVIOUS
<1>7. report.rows[l] \in ReportRow
  BY <1>4, <1>5
<1>8. b \in Int
  BY <1>5, LastTyped DEF Earlier, Of
<1>9. /\ row \in ReportRow /\ row.opening = b
      /\ row.inbound = report.rows[l].inbound /\ row.outbound = report.rows[l].outbound
  BY <1>6, <1>7, <1>8 DEF ReportRow
<1>10. ASSUME Distinct(entries, l, n)
       PROVE  RowRead(entries, report, l, row)
  <2>1. report.kind = "overview" /\ report.rows[l].inbound # Unread
    BY DEF ReadOpening
  <2>2. MovedTruly(entries, report, l, report.rows[l])
    BY <1>4, <1>5, <1>10 DEF RowRead
  <2>3. PICK k \in report.seen..Len(entries) :
          row.inbound - row.outbound = SumOf(entries, Moved(entries, l, report.range, k))
    BY <1>9, <2>1, <2>2 DEF MovedTruly
  <2>4. ASSUME report.range.gte <= report.range.lte
        PROVE  ClosedTruly(entries, report, l, row)
    <3>1. PICK m \in report.seen..Len(entries) :
            b + SumOf(entries, Moved(entries, l, report.range, k))
              = SumOf(entries, Until(entries, l, report.range, m))
      BY <1>1, <1>3, <1>5, <1>10, <2>4, OpeningCloses
    <3>2. row.inbound \in Int /\ row.outbound \in Int
      BY <1>9 DEF ReportRow
    <3>3. Closing(row) = b + SumOf(entries, Moved(entries, l, report.range, k))
      BY <1>8, <1>9, <2>3, <3>2 DEF Closing
    <3> QED BY <3>1, <3>3 DEF ClosedTruly
  <2>5. MovedTruly(entries, report, l, row)
    BY <2>3 DEF MovedTruly
  <2> QED BY <1>9, <2>1, <2>4, <2>5 DEF RowRead, OverviewRow
<1>11. PICK filled : filled = [report.rows EXCEPT ![l] = row]
  OBVIOUS
<1>12. /\ filled \in [DOMAIN report.rows -> ReportRow] /\ report' = [report EXCEPT !.rows = filled]
       /\ filled[l] = row /\ \A m \in DOMAIN report.rows : m # l => filled[m] = report.rows[m]
  BY <1>3, <1>4, <1>5, <1>6, <1>9, <1>11
<1>13. \A m \in DOMAIN report.rows :
         Distinct(entries, m, report.range.gte) => RowRead(entries, report, m, filled[m])
  BY <1>1, <1>5, <1>10, <1>12
<1> QED BY <1>4, <1>12, <1>13, RowsFilled

\* The openings of an opname report, all at once.
LEMMA BeforeKept ==
  ASSUME BooksInv, report # NoReport, ReadBefore
  PROVE  BooksInv'
<1>1. PICK n : n = report.range.gte
  OBVIOUS
<1>2. \A l : Before(l, n) = Earlier(entries, l, n)
  BY DEF Before, Earlier, At, Of
<1>3. PICK b :
        /\ \A l \in report.shown : b[l] \in LastBalances(Before(l, n))
        /\ report' = [report EXCEPT !.rows = [l \in report.shown |->
                                                [report.rows[l] EXCEPT !.opening = b[l]]]]
  BY <1>1 DEF ReadBefore
<1>4. report.pc = "rows" /\ report.kind = "opname" /\ UNCHANGED <<clock, zone, bookVars>>
  BY DEF ReadBefore
<1>5. /\ report \in Report /\ report.rows \in [DOMAIN report.rows -> ReportRow] /\ n \in Int
      /\ DOMAIN report.rows \in SUBSET Stores
      /\ entries \in Seq(LedgerRow) /\ BookInv(entries, onHand, clock)
      /\ \A m \in DOMAIN report.rows :
           Distinct(entries, m, n) => RowRead(entries, report, m, report.rows[m])
  BY <1>1, <1>4, RowsKnown
<1>6. DOMAIN report.rows = report.shown
  BY <1>4 DEF BooksInv, ReportTrue
<1>7. PICK filled : filled = [l \in report.shown |-> [report.rows[l] EXCEPT !.opening = b[l]]]
  OBVIOUS
<1>8. ASSUME NEW l \in DOMAIN report.rows
      PROVE  /\ b[l] \in LastBalances(Earlier(entries, l, n)) /\ l \in Stores
             /\ filled[l] \in ReportRow /\ filled[l].opening = b[l]
             /\ filled[l].inbound = report.rows[l].inbound /\ filled[l].outbound = report.rows[l].outbound
  <2>1. b[l] \in LastBalances(Earlier(entries, l, n)) /\ l \in Stores
    BY <1>2, <1>3, <1>5, <1>6
  <2>2. b[l] \in Int
    BY <1>5, <2>1, LastTyped DEF Earlier, Of
  <2>3. report.rows[l] \in ReportRow /\ filled[l] = [report.rows[l] EXCEPT !.opening = b[l]]
    BY <1>5, <1>6, <1>7
  <2> QED BY <2>1, <2>2, <2>3 DEF ReportRow
<1>9. ASSUME NEW l \in DOMAIN report.rows, Distinct(entries, l, n)
      PROVE  RowRead(entries, report, l, filled[l])
  <2>1. b[l] = SumOf(entries, Earlier(entries, l, n))
    BY <1>5, <1>8, <1>9, OpeningRead
  <2>2. MovedTruly(entries, report, l, report.rows[l])
    BY <1>5, <1>9 DEF RowRead
  <2>3. MovedTruly(entries, report, l, filled[l]) /\ OpenedTruly(entries, report, l, filled[l])
    BY <1>1, <1>8, <2>1, <2>2 DEF OpenedTruly, MovedTruly
  <2> QED BY <1>4, <2>3 DEF RowRead, OpnameRow
<1>10. filled \in [DOMAIN report.rows -> ReportRow]
  BY <1>6, <1>7, <1>8
<1>11. \A l \in DOMAIN report.rows :
         Distinct(entries, l, report.range.gte) => RowRead(entries, report, l, filled[l])
  BY <1>1, <1>9
<1>12. report' = [report EXCEPT !.rows = filled]
  BY <1>3, <1>7
<1> QED BY <1>4, <1>10, <1>11, <1>12, RowsFilled

\* The entries of the period of an opname report, all at once.
LEMMA PeriodKept ==
  ASSUME BooksInv, report # NoReport, ReadPeriod
  PROVE  BooksInv'
<1>1. PICK filled : filled = [l \in report.shown |->
        [opening  |-> report.rows[l].opening,
         inbound  |-> Total({i \in InPeriod(l) : entries[i].qty > 0}),
         outbound |-> -Total({i \in InPeriod(l) : entries[i].qty < 0})]]
  OBVIOUS
<1>2. /\ report.pc = "rows" /\ report.kind = "opname" /\ UNCHANGED <<clock, zone, bookVars>>
      /\ report' = [report EXCEPT !.rows = filled]
  BY <1>1 DEF ReadPeriod
<1>3. /\ report \in Report /\ report.rows \in [DOMAIN report.rows -> ReportRow]
      /\ report.seen \in Nat /\ report.seen <= Len(entries)
      /\ DOMAIN report.rows \in SUBSET Stores /\ entries \in Seq(LedgerRow)
      /\ \A m \in DOMAIN report.rows :
           Distinct(entries, m, report.range.gte) => RowRead(entries, report, m, report.rows[m])
  BY <1>2, RowsKnown
<1>4. DOMAIN report.rows = report.shown
  BY <1>2 DEF BooksInv, ReportTrue
<1>5. Len(entries) \in Nat /\ DOMAIN entries = 1..Len(entries)
  BY <1>3, EntrySums
<1>6. ASSUME NEW l \in DOMAIN report.rows
      PROVE  /\ filled[l] \in ReportRow /\ filled[l].opening = report.rows[l].opening
             /\ MovedTruly(entries, report, l, filled[l])
  <2>1. PICK M : M = During(entries, l, report.range)
    OBVIOUS
  <2>2. InPeriod(l) = M /\ M \in SUBSET DOMAIN entries
    BY <2>1 DEF InPeriod, InRange, At, During, Of
  <2>3. PICK gain : gain = SumOf(entries, {i \in M : entries[i].qty > 0})
    OBVIOUS
  <2>4. PICK drop : drop = SumOf(entries, {i \in M : entries[i].qty < 0})
    OBVIOUS
  <2>5. gain \in Int /\ drop \in Int /\ gain + drop = SumOf(entries, M)
    BY <1>3, <2>2, <2>3, <2>4, SignsAddUp
  <2>6. filled[l] = [opening |-> report.rows[l].opening, inbound |-> gain, outbound |-> -drop]
    BY <1>1, <1>4, <2>2, <2>3, <2>4 DEF Total, SumOf
  <2>7. report.rows[l] \in ReportRow /\ report.rows[l].opening \in Int
    BY <1>3 DEF ReportRow
  <2>8. /\ filled[l] \in ReportRow /\ filled[l].opening = report.rows[l].opening
        /\ filled[l].inbound - filled[l].outbound = SumOf(entries, M)
    BY <2>5, <2>6, <2>7 DEF ReportRow
  <2>9. Moved(entries, l, report.range, Len(entries)) = M
    BY <1>5, <2>1, <2>2 DEF Moved
  <2>10. Len(entries) \in report.seen..Len(entries)
    BY <1>3, <1>5
  <2> QED BY <2>8, <2>9, <2>10 DEF MovedTruly
<1>7. filled \in [DOMAIN report.rows -> ReportRow]
  BY <1>1, <1>4, <1>6
<1>8. \A l \in DOMAIN report.rows :
        Distinct(entries, l, report.range.gte) => RowRead(entries, report, l, filled[l])
  BY <1>2, <1>3, <1>6 DEF RowRead, OpnameRow, OpenedTruly
<1> QED BY <1>2, <1>7, <1>8, RowsFilled

\* A report that is complete is answered: each of its rows closes truly.
LEMMA AnswerKept ==
  ASSUME BooksInv, report # NoReport, Answer
  PROVE  BooksInv'
<1>1. /\ report.pc = "rows" /\ UNCHANGED <<clock, zone, bookVars>>
      /\ \A l \in DOMAIN report.rows :
           report.rows[l].opening # Unread /\ report.rows[l].inbound # Unread
  BY DEF Answer
<1>2. PICK r : r = [report EXCEPT !.pc = "done"]
  OBVIOUS
<1>3. report \in Report /\ ReportTrue(entries, report) /\ entries \in Seq(LedgerRow)
  BY RowsKnown DEF BooksInv
<1>4. /\ r \in Report /\ r.rows = report.rows /\ r.pc = "done" /\ r.kind = report.kind
      /\ r.first = report.first /\ r.last = report.last /\ r.range = report.range
      /\ r.seen = report.seen /\ r.shown = report.shown
  BY <1>2, <1>3 DEF Report
<1>5. report.seen <= Len(entries)
  BY <1>3 DEF ReportTrue
<1>6. ASSUME NEW l \in DOMAIN r.rows, Distinct(entries, l, r.range.gte)
      PROVE  RowDone(entries, r, l, r.rows[l])
  <2>1. l \in DOMAIN report.rows
    BY <1>4
  <2>2. RowRead(entries, report, l, report.rows[l])
    BY <1>1, <1>3, <1>4, <1>6, <2>1 DEF ReportTrue, RowTrue
  <2>3. report.rows[l].opening # Unread /\ report.rows[l].inbound # Unread
    BY <1>1, <2>1
  <2>4. ASSUME report.range.gte <= report.range.lte, report.kind = "overview"
        PROVE  ClosedTruly(entries, report, l, report.rows[l])
    BY <2>2, <2>3, <2>4 DEF RowRead, OverviewRow
  <2>5. ASSUME report.range.gte <= report.range.lte, report.kind = "opname", SettledIn(entries, report, l)
        PROVE  ClosedTruly(entries, report, l, report.rows[l])
    <3>1. /\ OpenedTruly(entries, report, l, report.rows[l])
          /\ MovedTruly(entries, report, l, report.rows[l])
      BY <2>2, <2>5 DEF RowRead, OpnameRow
    <3> QED BY <1>3, <1>5, <2>1, <2>3, <2>5, <3>1, RowCloses
  <2>6. report.kind \in {"overview", "opname"}
    BY <1>3 DEF Report
  <2> QED BY <1>4, <2>4, <2>5, <2>6 DEF RowDone, ClosedTruly, SettledIn
<1>7. ReportTrue(entries, r)
  BY <1>3, <1>4, <1>6 DEF ReportTrue, RowTrue
<1>8. report' = r
  BY <1>2 DEF Answer
<1> QED BY <1>1, <1>7, <1>8 DEF BooksInv, bookVars

\* The balances: without a period they are the answer, the stock of this moment.
LEMMA BalancesKept ==
  ASSUME BooksInv, report # NoReport, ReadBalances
  PROVE  BooksInv'
<1>1. PICK found : found = {l \in report.shown : At(l) # {}}
  OBVIOUS
<1>2. PICK filled : filled = [l \in found |-> IF HasPeriod THEN UnreadRow
                                     ELSE [opening |-> onHand[l], inbound |-> 0, outbound |-> 0]]
  OBVIOUS
<1>3. PICK r : r = [report EXCEPT !.pc = IF HasPeriod THEN "rows" ELSE "done", !.rows = filled]
  OBVIOUS
<1>4. report.pc = "balances" /\ report' = r /\ UNCHANGED <<clock, zone, bookVars>>
  BY <1>1, <1>2, <1>3 DEF ReadBalances
<1>5. /\ report \in Report /\ ReportTrue(entries, report) /\ entries \in Seq(LedgerRow)
      /\ BookInv(entries, onHand, clock) /\ clock <= LastHalfDay
      /\ report.seen \in Nat /\ report.seen <= Len(entries)
  BY RowsKnown DEF BooksInv
<1>6. found \in SUBSET Stores
  BY <1>1, <1>5 DEF Report
<1>7. onHand \in [Stores -> Int] /\ \A l \in Stores : onHand[l] = SumOf(entries, Of(entries, l))
  BY <1>5 DEF BookInv
<1>8. filled \in [found -> ReportRow]
  <2>1. UnreadRow \in ReportRow
    BY DEF UnreadRow, ReportRow, Unread
  <2>2. \A l \in found : [opening |-> onHand[l], inbound |-> 0, outbound |-> 0] \in ReportRow
    BY <1>6, <1>7 DEF ReportRow
  <2> QED BY <1>2, <2>1, <2>2
<1>9. filled \in UNION {[D -> ReportRow] : D \in SUBSET Stores}
  BY <1>6, <1>8
<1>10. PICK pc : pc = IF HasPeriod THEN "rows" ELSE "done"
  OBVIOUS
<1>11. pc \in {"balances", "rows", "done"} /\ pc # "balances" /\ r = [report EXCEPT !.pc = pc, !.rows = filled]
  BY <1>3, <1>10
<1>12. /\ r \in Report /\ r.rows = filled /\ r.pc = pc /\ r.kind = report.kind
       /\ r.first = report.first /\ r.last = report.last /\ r.range = report.range
       /\ r.seen = report.seen /\ r.shown = report.shown
  BY <1>5, <1>9, <1>11 DEF Report
<1>13. r.kind = "overview"
  BY <1>4, <1>5, <1>12 DEF ReportTrue
<1>14. ASSUME NEW l \in DOMAIN r.rows PROVE RowTrue(entries, r, l)
  <2>1. l \in found /\ l \in Stores
    BY <1>6, <1>8, <1>12
  <2>2. CASE HasPeriod
    <3>1. r.rows[l].opening = Unread /\ r.rows[l].inbound = Unread /\ r.pc = "rows"
      BY <1>2, <1>10, <1>12, <2>1, <2>2 DEF UnreadRow
    <3> QED BY <1>13, <3>1 DEF RowTrue, RowRead, OverviewRow, MovedTruly
  <2>3. CASE ~HasPeriod
    <3>1. r.rows[l] = [opening |-> onHand[l], inbound |-> 0, outbound |-> 0] /\ r.pc = "done"
      BY <1>2, <1>10, <1>12, <2>1, <2>3
    <3>2. Closing(r.rows[l]) = onHand[l]
      BY <1>7, <2>1, <3>1 DEF Closing
    <3>3. r.range.lte = LastHalfDay
      BY <1>4, <1>5, <1>12, <2>3 DEF ReportTrue, HasPeriod
    <3>4. Len(entries) \in Nat /\ DOMAIN entries = 1..Len(entries)
      BY <1>5, EntrySums
    <3>5. \A i \in DOMAIN entries : entries[i].at <= r.range.lte
      <4>1. \A i \in DOMAIN entries : entries[i] \in LedgerRow
        BY <1>5, EntrySums, ElementOfSeq
      <4>2. \A i \in DOMAIN entries : entries[i].at \in Nat /\ entries[i].at <= clock
        BY <1>5, <4>1 DEF BookInv, LedgerRow
      <4>3. clock \in Nat /\ LastHalfDay \in Nat
        BY <1>5, ReportsAssumption DEF BookInv
      <4> QED BY <1>5, <3>3, <4>2, <4>3
    <3>6. Until(entries, l, r.range, Len(entries)) = Of(entries, l)
      BY <3>4, <3>5 DEF Until, Of
    <3>7. Len(entries) \in r.seen..Len(entries)
      BY <1>5, <1>12, <3>4
    <3>8. ClosedTruly(entries, r, l, r.rows[l])
      BY <1>7, <2>1, <3>2, <3>6, <3>7 DEF ClosedTruly
    <3> QED BY <3>1, <3>8 DEF RowTrue, RowDone
  <2> QED BY <2>2, <2>3
<1>15. ReportTrue(entries, r)
  BY <1>5, <1>11, <1>12, <1>13, <1>14 DEF ReportTrue
<1> QED BY <1>4, <1>15 DEF BooksInv, bookVars

\* A range is two half days; from the beginning, and until the last one.
LEMMA RangeTyped ==
  ASSUME zone \in -1..1, NEW first \in Days \cup {NoDay}, NEW last \in Days \cup {NoDay}
  PROVE  /\ first \in Int /\ last \in Int
         /\ DateRange(first, last) \in [gte : Int, lte : Int]
         /\ first = NoDay => DateRange(first, last).gte = 0
         /\ last = NoDay => DateRange(first, last).lte = LastHalfDay
<1>1. first \in Int /\ last \in Int /\ LastHalfDay \in Int /\ zone \in Int
  BY ReportsAssumption DEF Days, NoDay
<1>2. PICK g : g = IF first = NoDay THEN 0 ELSE 2 * first
  OBVIOUS
<1>3. PICK t : t = IF last = NoDay THEN LastHalfDay ELSE 2 * ((2 * last + zone) \div 2) + 1 - zone
  OBVIOUS
<1>4. g \in Int /\ t \in Int
  <2>1. 2 * last + zone \in Int
    BY <1>1
  <2>2. (2 * last + zone) \div 2 \in Int
    BY <2>1
  <2> QED BY <1>1, <1>2, <1>3, <2>2
<1>5. DateRange(first, last) = [gte |-> g, lte |-> t]
  BY <1>2, <1>3 DEF DateRange
<1> QED BY <1>1, <1>2, <1>3, <1>4, <1>5

\* A report that begins shows nothing.
LEMMA ReportBegins ==
  ASSUME BooksInv, UNCHANGED <<clock, zone, bookVars>>,
         NEW first \in Days \cup {NoDay}, NEW last \in Days \cup {NoDay},
         NEW D \in SUBSET Stores, NEW places \in SUBSET Stores, NEW pc, NEW form,
         \/ pc = "balances" /\ form = "overview" /\ D = {}
         \/ pc = "rows" /\ form = "opname" /\ D = places,
         report' = [pc |-> pc, kind |-> form, first |-> first, last |-> last,
                    range |-> DateRange(first, last), seen |-> Len(entries),
                    shown |-> places, rows |-> [l \in D |-> UnreadRow]]
  PROVE  BooksInv'
<1>1. BookInv(entries, onHand, clock) /\ clock <= LastHalfDay /\ zone \in -1..1
  BY DEF BooksInv
<1>2. /\ first \in Int /\ last \in Int /\ DateRange(first, last) \in [gte : Int, lte : Int]
      /\ first = NoDay => DateRange(first, last).gte = 0
      /\ last = NoDay => DateRange(first, last).lte = LastHalfDay
  BY <1>1, RangeTyped
<1>3. PICK range : range = DateRange(first, last)
  OBVIOUS
<1>4. PICK filled : filled = [l \in D |-> UnreadRow]
  OBVIOUS
<1>5. UnreadRow \in ReportRow
  BY DEF UnreadRow, ReportRow, Unread
<1>6. filled \in [D -> ReportRow] /\ filled \in UNION {[E -> ReportRow] : E \in SUBSET Stores}
  BY <1>4, <1>5
<1>7. PICK n : n = Len(entries)
  OBVIOUS
<1>8. n \in Nat /\ clock \in Nat /\ DOMAIN entries = 1..n
  BY <1>1, <1>7, EntrySums DEF BookInv
<1>9. PICK r : r = [pc |-> pc, kind |-> form, first |-> first, last |-> last, range |-> range,
                    seen |-> n, shown |-> places, rows |-> filled]
  OBVIOUS
<1>10. r \in Report
  BY <1>2, <1>3, <1>6, <1>8, <1>9 DEF Report
<1>11. /\ r.pc = pc /\ r.kind = form /\ r.first = first /\ r.last = last /\ r.range = range
       /\ r.seen = n /\ r.shown = places /\ r.rows = filled
  BY <1>9
<1>12. ASSUME NEW l \in DOMAIN r.rows PROVE RowTrue(entries, r, l)
  <2>1. r.rows[l].opening = Unread /\ r.rows[l].inbound = Unread /\ r.pc # "done"
    BY <1>4, <1>11 DEF UnreadRow
  <2> QED BY <2>1 DEF RowTrue, RowRead, OverviewRow, OpnameRow, OpenedTruly, MovedTruly
<1>13. ReportTrue(entries, r)
  <2>1. DOMAIN r.rows = D
    BY <1>6, <1>11
  <2> QED BY <1>2, <1>3, <1>7, <1>8, <1>10, <1>11, <1>12, <2>1 DEF ReportTrue
<1>14. report' = r
  BY <1>3, <1>4, <1>7, <1>9
<1> QED BY <1>13, <1>14 DEF BooksInv, bookVars

\* A row written under the lock continues the balance it was computed from.
LEMMA WriteKept ==
  ASSUME BooksInv, NEW l \in Stores, NEW by \in Stores, NEW q \in Int \ {0}, NEW s \in Sources,
         WriteRow(l, by, Entry(l, q, s))
  PROVE  BooksInv'
<1>1. /\ BookInv(entries, onHand, clock) /\ DraftInv(entries, onHand, clock, draft)
      /\ clock \in Nat /\ onHand \in [Stores -> Int] /\ entries \in Seq(LedgerRow)
  BY DEF BooksInv, BookInv
<1>2. PICK x : x = Entry(l, q, s)
  OBVIOUS
<1>3. /\ draft' = [draft EXCEPT ![l] = [by |-> by, row |-> x]]
      /\ UNCHANGED <<clock, zone, entries, onHand, report>>
  BY <1>2 DEF WriteRow
<1>4. /\ x \in LedgerRow /\ x.loc = l /\ x.at = clock /\ x.after = onHand[x.loc] + x.qty
  BY <1>1, <1>2 DEF Entry, LedgerRow
<1>5. Continues(entries, onHand, clock, x)
  <2>1. \A i \in Of(entries, l) : entries[i].at <= clock
    BY <1>1 DEF BookInv, Of
  <2> QED BY <1>1, <1>4, <2>1 DEF Continues
<1>6. DraftInv(entries, onHand, clock, draft')
  <2>1. draft \in [Stores -> {NoDraft} \cup [by : Stores, row : LedgerRow]]
    BY <1>1 DEF DraftInv
  <2>2. /\ draft' \in [Stores -> {NoDraft} \cup [by : Stores, row : LedgerRow]]
        /\ draft'[l].row = x /\ \A m \in Stores : m # l => draft'[m] = draft[m]
    BY <1>3, <1>4, <2>1
  <2> QED BY <1>1, <1>4, <1>5, <2>2 DEF DraftInv
<1> QED BY <1>3, <1>6 DEF BooksInv

\* A commit of one row keeps the other rows that are written and what a report shows.
LEMMA CommitKept ==
  ASSUME NEW e, NEW h, NEW c, NEW d, BookInv(e, h, c), DraftInv(e, h, c, d),
         report = NoReport \/ ReportTrue(e, report), NEW l \in Stores, d[l] # NoDraft
  PROVE  /\ BookInv(Append(e, d[l].row), [h EXCEPT ![l] = d[l].row.after], c)
         /\ DraftInv(Append(e, d[l].row), [h EXCEPT ![l] = d[l].row.after], c, [d EXCEPT ![l] = NoDraft])
         /\ report = NoReport \/ ReportTrue(Append(e, d[l].row), report)
         /\ e \in Seq(LedgerRow) /\ d[l].row \in LedgerRow
<1>1. PICK x : x = d[l].row
  OBVIOUS
<1>2. /\ Continues(e, h, c, x) /\ x.loc = l /\ x \in LedgerRow /\ e \in Seq(LedgerRow)
      /\ d \in [Stores -> {NoDraft} \cup [by : Stores, row : LedgerRow]] /\ h \in [Stores -> Int]
  BY <1>1 DEF DraftInv, Continues, BookInv
<1>3. PICK k : k = Append(e, x)
  OBVIOUS
<1>4. PICK g : g = [h EXCEPT ![l] = x.after]
  OBVIOUS
<1>5. PICK f : f = [d EXCEPT ![l] = NoDraft]
  OBVIOUS
<1>6. /\ BookInv(k, g, c)
      /\ \A m \in Stores : m # l => Alike(k, e, m)
  <2>1. g = [h EXCEPT ![x.loc] = x.after] /\ BookInv(e, h, c) /\ Continues(e, h, c, x)
    BY <1>2, <1>4
  <2> QED BY <1>2, <1>3, <2>1, BookGrows
<1>7. /\ f \in [Stores -> {NoDraft} \cup [by : Stores, row : LedgerRow]]
      /\ f[l] = NoDraft /\ \A m \in Stores : m # l => f[m] = d[m] /\ g[m] = h[m]
  BY <1>2, <1>4, <1>5
<1>8. ASSUME NEW m \in Stores, f[m] # NoDraft
      PROVE  Continues(k, g, c, f[m].row) /\ f[m].row.loc = m
  <2>1. m # l /\ f[m] = d[m] /\ g[m] = h[m]
    BY <1>7, <1>8
  <2>2. Continues(e, h, c, d[m].row) /\ d[m].row.loc = m
    BY <1>8, <2>1 DEF DraftInv
  <2>3. PICK y : y = d[m].row
    OBVIOUS
  <2>4. /\ y \in LedgerRow /\ y.at <= c /\ y.after = h[m] + y.qty /\ y.loc = m
        /\ \A i \in Of(e, m) : e[i].at <= y.at
    BY <2>2, <2>3 DEF Continues
  <2>5. \A i \in Of(k, m) : k[i].at <= y.at
    BY <1>6, <2>1, <2>4 DEF Alike
  <2> QED BY <2>1, <2>3, <2>4, <2>5 DEF Continues
<1>9. DraftInv(k, g, c, f)
  BY <1>7, <1>8 DEF DraftInv
<1>10. ReportTrue(e, report) => ReportTrue(k, report)
  BY <1>2, <1>3, ReportKept
<1> QED BY <1>1, <1>2, <1>3, <1>4, <1>5, <1>6, <1>9, <1>10

\* An adjustment commits one row.
LEMMA AdjustmentKept ==
  ASSUME BooksInv, NEW l \in Stores, CommitAdjustment(l)
  PROVE  BooksInv'
<1>1. /\ BookInv(entries, onHand, clock) /\ DraftInv(entries, onHand, clock, draft)
      /\ report = NoReport \/ ReportTrue(entries, report)
      /\ onHand \in [Stores -> Int]
      /\ draft \in [Stores -> {NoDraft} \cup [by : Stores, row : LedgerRow]]
  BY DEF BooksInv, BookInv, DraftInv
<1>2. PICK x : x = draft[l].row
  OBVIOUS
<1>3. /\ draft[l] # NoDraft /\ entries' = entries \o <<x>>
      /\ onHand' = [m \in Stores |-> IF m \in {l} THEN draft[m].row.after ELSE onHand[m]]
      /\ draft' = [m \in Stores |-> IF m \in {l} THEN NoDraft ELSE draft[m]]
      /\ UNCHANGED <<clock, zone, report>>
  BY <1>2 DEF CommitAdjustment, Writing, Commits
<1>4. onHand' = [onHand EXCEPT ![l] = x.after] /\ draft' = [draft EXCEPT ![l] = NoDraft]
  BY <1>1, <1>2, <1>3
<1>5. /\ BookInv(Append(entries, x), [onHand EXCEPT ![l] = x.after], clock)
      /\ DraftInv(Append(entries, x), [onHand EXCEPT ![l] = x.after], clock, [draft EXCEPT ![l] = NoDraft])
      /\ report = NoReport \/ ReportTrue(Append(entries, x), report)
      /\ entries \in Seq(LedgerRow) /\ x \in LedgerRow
  BY <1>1, <1>2, <1>3, CommitKept
<1>6. entries' = Append(entries, x)
  BY <1>3, <1>5, AppendIsConcat
<1> QED BY <1>3, <1>4, <1>5, <1>6 DEF BooksInv

\* A transfer commits the row of its source and then the row of its destination.
LEMMA TransferKept ==
  ASSUME BooksInv, NEW src \in Stores, NEW dst \in Stores, CommitTransfer(src, dst)
  PROVE  BooksInv'
<1>1. /\ BookInv(entries, onHand, clock) /\ DraftInv(entries, onHand, clock, draft)
      /\ report = NoReport \/ ReportTrue(entries, report)
      /\ onHand \in [Stores -> Int]
      /\ draft \in [Stores -> {NoDraft} \cup [by : Stores, row : LedgerRow]]
  BY DEF BooksInv, BookInv, DraftInv
<1>2. PICK x, y : x = draft[src].row /\ y = draft[dst].row
  OBVIOUS
<1>3. /\ draft[src] # NoDraft /\ draft[dst] # NoDraft /\ entries' = entries \o <<x, y>>
      /\ onHand' = [m \in Stores |-> IF m \in {src, dst} THEN draft[m].row.after ELSE onHand[m]]
      /\ draft' = [m \in Stores |-> IF m \in {src, dst} THEN NoDraft ELSE draft[m]]
      /\ UNCHANGED <<clock, zone, report>>
  BY <1>2 DEF CommitTransfer, Writing, Commits
<1>4. src # dst
  BY DEF CommitTransfer, Writing
<1>5. PICK h, d : h = [onHand EXCEPT ![src] = x.after] /\ d = [draft EXCEPT ![src] = NoDraft]
  OBVIOUS
<1>6. d[dst] = draft[dst] /\ d \in [Stores -> {NoDraft} \cup [by : Stores, row : LedgerRow]]
  BY <1>1, <1>4, <1>5
<1>7. /\ BookInv(Append(entries, x), h, clock) /\ DraftInv(Append(entries, x), h, clock, d)
      /\ report = NoReport \/ ReportTrue(Append(entries, x), report)
      /\ entries \in Seq(LedgerRow) /\ x \in LedgerRow
  BY <1>1, <1>2, <1>3, <1>5, CommitKept
<1>8. PICK e : e = Append(entries, x)
  OBVIOUS
<1>9. BookInv(e, h, clock) /\ DraftInv(e, h, clock, d) /\ (report = NoReport \/ ReportTrue(e, report))
  BY <1>7, <1>8
<1>10. d[dst] # NoDraft /\ d[dst].row = y
  BY <1>2, <1>3, <1>6
<1>11. /\ BookInv(Append(e, y), [h EXCEPT ![dst] = y.after], clock)
       /\ DraftInv(Append(e, y), [h EXCEPT ![dst] = y.after], clock, [d EXCEPT ![dst] = NoDraft])
       /\ report = NoReport \/ ReportTrue(Append(e, y), report)
       /\ y \in LedgerRow
  BY <1>9, <1>10, CommitKept
<1>12. onHand' = [h EXCEPT ![dst] = y.after] /\ draft' = [d EXCEPT ![dst] = NoDraft]
  BY <1>1, <1>2, <1>3, <1>4, <1>5
<1>13. entries' = Append(e, y)
  BY <1>3, <1>7, <1>8, <1>11
<1> QED BY <1>3, <1>11, <1>12, <1>13 DEF BooksInv

\* A transaction rolled back takes its rows away.
LEMMA RollbackKept ==
  ASSUME BooksInv, NEW m \in Stores, Rollback(m)
  PROVE  BooksInv'
<1>1. DraftInv(entries, onHand, clock, draft)
  BY DEF BooksInv
<1>2. /\ draft' = [l \in Stores |-> IF draft[l] # NoDraft /\ draft[l].by = m THEN NoDraft ELSE draft[l]]
      /\ UNCHANGED <<clock, zone, entries, onHand, report>>
  BY DEF Rollback
<1>3. DraftInv(entries, onHand, clock, draft')
  BY <1>1, <1>2 DEF DraftInv
<1> QED BY <1>2, <1>3 DEF BooksInv

\* What the writers do: rows are written under their locks, committed or rolled back.
LEMMA WritersKeep ==
  ASSUME BooksInv,
         \/ \E l \in Stores, q \in {-1, 2} : WriteAdjustment(l, q)
         \/ \E l \in Stores : WriteOut(l, 1) \/ CommitAdjustment(l) \/ Rollback(l)
         \/ \E src, dst \in Stores : WriteIn(src, dst) \/ CommitTransfer(src, dst)
  PROVE  BooksInv'
<1>1. "ADJUSTMENT" \in Sources /\ "TRANSFER_OUT" \in Sources /\ "TRANSFER_IN" \in Sources
  BY DEF Sources, Signed
<1>2. ASSUME NEW l \in Stores, NEW q \in {-1, 2}, WriteAdjustment(l, q) PROVE BooksInv'
  <2>1. WriteRow(l, l, Entry(l, q, "ADJUSTMENT")) /\ q \in Int \ {0}
    BY <1>2 DEF WriteAdjustment
  <2> QED BY <1>1, <2>1, WriteKept
<1>3. ASSUME NEW l \in Stores, WriteOut(l, 1) PROVE BooksInv'
  <2>1. PICK q : q = -1
    OBVIOUS
  <2>2. WriteRow(l, l, Entry(l, q, "TRANSFER_OUT")) /\ q \in Int \ {0}
    BY <1>3, <2>1 DEF WriteOut
  <2> QED BY <1>1, <2>2, WriteKept
<1>4. ASSUME NEW src \in Stores, NEW dst \in Stores, WriteIn(src, dst) PROVE BooksInv'
  <2>1. PICK q : q = -draft[src].row.qty
    OBVIOUS
  <2>2. WriteRow(dst, src, Entry(dst, q, "TRANSFER_IN")) /\ draft[src] # NoDraft
    BY <1>4, <2>1 DEF WriteIn, Writing
  <2>3. draft[src].row \in LedgerRow
    BY <2>2 DEF BooksInv, DraftInv, Continues
  <2>4. draft[src].row.qty \in Int \ {0}
    BY <2>3 DEF LedgerRow
  <2>5. q \in Int \ {0}
    BY <2>1, <2>4
  <2> QED BY <1>1, <2>2, <2>5, WriteKept
<1> QED BY <1>2, <1>3, <1>4, AdjustmentKept, TransferKept, RollbackKept

\* The ledger begins empty.
LEMMA BooksBegin == ReportsInit => BooksInv
<1> SUFFICES ASSUME ReportsInit PROVE BooksInv
  OBVIOUS
<1>1. entries = <<>> /\ onHand = [l \in Stores |-> 0] /\ clock = 0 /\ zone \in Zones /\ report = NoReport
  BY DEF ReportsInit
<1>2. entries \in Seq(LedgerRow) /\ DOMAIN entries = {} /\ onHand \in [Stores -> Int]
  BY <1>1
<1>3. \A l \in Stores : onHand[l] = SumOf(entries, Of(entries, l))
  <2>1. \A l : Of(entries, l) = {}
    BY <1>2 DEF Of
  <2>2. SumOf(entries, {}) = 0
    BY SumEmpty DEF SumOf
  <2> QED BY <1>1, <2>1, <2>2
<1>4. BookInv(entries, onHand, clock)
  BY <1>1, <1>2, <1>3 DEF BookInv
<1>5. DraftInv(entries, onHand, clock, draft)
  <2>1. draft = [l \in Stores |-> NoDraft]
    BY DEF ReportsInit
  <2> QED BY <2>1 DEF DraftInv
<1> QED BY <1>1, <1>4, <1>5, ReportsAssumption DEF BooksInv

\* The clock goes on under a report.
LEMMA TickKept ==
  ASSUME BooksInv, Tick
  PROVE  BooksInv'
<1>1. /\ BookInv(entries, onHand, clock) /\ zone \in -1..1 /\ clock < LastHalfDay
      /\ report = NoReport \/ ReportTrue(entries, report)
      /\ DraftInv(entries, onHand, clock, draft)
      /\ clock' = clock + 1 /\ UNCHANGED <<zone, entries, onHand, draft, report>>
  BY DEF BooksInv, Tick, bookVars
<1>2. clock \in Nat /\ LastHalfDay \in Nat
  BY <1>1, ReportsAssumption DEF BookInv
<1>3. BookInv(entries, onHand, clock + 1) /\ DraftInv(entries, onHand, clock + 1, draft)
  BY <1>1, BookLater
<1>4. clock + 1 <= LastHalfDay
  BY <1>1, <1>2
<1> QED BY <1>1, <1>3, <1>4 DEF BooksInv

\* Every step keeps the books and what a report shows of them.
LEMMA BooksStep == BooksInv /\ [ReportsNext]_reportVars => BooksInv'
<1> SUFFICES ASSUME BooksInv, [ReportsNext]_reportVars PROVE BooksInv'
  OBVIOUS
<1>1. CASE Tick
  BY <1>1, TickKept
<1>2. CASE \/ \E l \in Stores, q \in {-1, 2} : WriteAdjustment(l, q)
           \/ \E l \in Stores : WriteOut(l, 1) \/ CommitAdjustment(l) \/ Rollback(l)
           \/ \E src, dst \in Stores : WriteIn(src, dst) \/ CommitTransfer(src, dst)
  BY <1>2, WritersKeep
<1>3. ASSUME NEW period \in Periods
      PROVE  period[1] \in Days \cup {NoDay} /\ period[2] \in Days \cup {NoDay}
  BY ReportsAssumption
<1>4. ASSUME NEW reader \in Readers, NEW asked \in Asks,
             NEW first \in Days \cup {NoDay}, NEW last \in Days \cup {NoDay},
             BeginOverview(reader, asked, first, last)
      PROVE  BooksInv'
  <2>1. PICK places : places = Visible(reader.assigned, reader.admin, asked)
    OBVIOUS
  <2>2. places \in SUBSET Stores
    BY <2>1, ReportsAssumption DEF Visible
  <2>3. PICK D : D = {}
    OBVIOUS
  <2>4. UNCHANGED <<clock, zone, bookVars>>
    BY <1>4 DEF BeginOverview
  <2>5. report' = [pc |-> "balances", kind |-> "overview", first |-> first, last |-> last,
                   range |-> DateRange(first, last), seen |-> Len(entries),
                   shown |-> places, rows |-> [l \in D |-> UnreadRow]]
    BY <1>4, <2>1, <2>3 DEF BeginOverview
  <2>6. D \in SUBSET Stores
    BY <2>3
  <2> QED BY <2>2, <2>3, <2>4, <2>5, <2>6, ReportBegins
<1>5. ASSUME NEW asked \in Asks, NEW first \in Days \cup {NoDay}, NEW last \in Days \cup {NoDay},
             BeginOpname(asked, first, last)
      PROVE  BooksInv'
  <2>1. UNCHANGED <<clock, zone, bookVars>>
    BY <1>5 DEF BeginOpname
  <2>2. PICK places : places = Chosen(asked)
    OBVIOUS
  <2>3. report' = [pc |-> "rows", kind |-> "opname", first |-> first, last |-> last,
                   range |-> DateRange(first, last), seen |-> Len(entries),
                   shown |-> places, rows |-> [l \in places |-> UnreadRow]]
    BY <1>5, <2>2 DEF BeginOpname
  <2>4. places \in SUBSET Stores
    BY <2>2, ReportsAssumption DEF Chosen
  <2> QED BY <2>1, <2>3, <2>4, ReportBegins
<1>6. CASE report # NoReport /\ (ReadBalances \/ ReadBefore \/ ReadPeriod \/ Answer)
  BY <1>6, BalancesKept, BeforeKept, PeriodKept, AnswerKept
<1>7. CASE report # NoReport /\ \E l \in Stores : ReadSums(l) \/ ReadOpening(l)
  BY <1>7, SumsKept, OpeningKept
<1>8. CASE UNCHANGED reportVars
  BY <1>8 DEF reportVars, bookVars, BooksInv
<1>9. CASE \E asked \in Asks, period \in Periods :
             \/ \E reader \in Readers : BeginOverview(reader, asked, period[1], period[2])
             \/ BeginOpname(asked, period[1], period[2])
  BY <1>3, <1>4, <1>5, <1>9
<1> QED BY <1>1, <1>2, <1>6, <1>7, <1>8, <1>9 DEF ReportsNext

\* What a true report says when it is answered.
LEMMA ClosingFollows == BooksInv => ClosingIsReal
<1> SUFFICES ASSUME BooksInv, report # NoReport, report.pc = "done",
                    report.range.gte <= report.range.lte,
                    NEW l \in DOMAIN report.rows, Ordered(l), report.kind = "opname" => Settled(l)
             PROVE  \E k \in report.seen..Len(entries) : Closing(report.rows[l]) = StockAt(l, k)
  BY DEF ClosingIsReal
<1>1. Distinct(entries, l, report.range.gte)
  <2>1. Before(l, report.range.gte) = Earlier(entries, l, report.range.gte)
    BY DEF Before, Earlier, At, Of
  <2> QED BY <2>1 DEF Ordered, Distinct
<1>2. ClosedTruly(entries, report, l, report.rows[l])
  <2>1. Settled(l) <=> SettledIn(entries, report, l)
    BY DEF Settled, SettledIn, At, Of
  <2> QED BY <1>1, <2>1 DEF BooksInv, ReportTrue, RowTrue, RowDone
<1>3. \A k : StockAt(l, k) = SumOf(entries, Until(entries, l, report.range, k))
  <2>1. \A k : {i \in At(l) : i <= k /\ entries[i].at <= report.range.lte}
                 = Until(entries, l, report.range, k)
    BY DEF Until, Of, At
  <2> QED BY <2>1 DEF StockAt, Total, SumOf
<1> QED BY <1>2, <1>3 DEF ClosedTruly

\* Theorem: a row of a report closes with the stock there was at the end of the period at
\* some moment of its computation (stock.service.ts, report.service.ts), whatever is
\* written and committed between its queries: always in the overview, whose opening is
\* read last, and in the opname report when no entry of before the period was still to be
\* committed; unless two entries before the period share an instant.
THEOREM ClosingCorrect == ReportsSpec => []ClosingIsReal
<1>1. ReportsInit => BooksInv
  BY BooksBegin
<1>2. BooksInv /\ [ReportsNext]_reportVars => BooksInv'
  BY BooksStep
<1>3. BooksInv => ClosingIsReal
  BY ClosingFollows
<1> QED BY <1>1, <1>2, <1>3, PTL DEF ReportsSpec

\* Neither an adjustment nor a transfer takes more than there is.
StockThere ==
  /\ \A l \in Stores : onHand[l] >= 0
  /\ \A l \in Stores : draft[l] # NoDraft =>
       /\ draft[l].row.after >= 0
       /\ draft[l].row.source = "TRANSFER_OUT" => draft[l].row.qty <= 0

\* The tests of both are on the balance they change, and a commit is of what was tested.
LEMMA StockStays == BooksInv /\ StockThere /\ [ReportsNext]_reportVars => StockThere'
<1> SUFFICES ASSUME BooksInv, StockThere, [ReportsNext]_reportVars PROVE StockThere'
  OBVIOUS
<1>1. /\ onHand \in [Stores -> Int]
      /\ draft \in [Stores -> {NoDraft} \cup [by : Stores, row : LedgerRow]]
      /\ \A l \in Stores : draft[l] # NoDraft => draft[l].row.qty \in Int /\ draft[l].row.after \in Int
  BY DEF BooksInv, BookInv, DraftInv, Continues, LedgerRow
<1>2. ASSUME NEW l \in Stores, NEW by \in Stores, NEW q \in Int, NEW s, onHand[l] + q >= 0,
             s = "TRANSFER_OUT" => q <= 0, WriteRow(l, by, Entry(l, q, s))
      PROVE  StockThere'
  <2>1. PICK x : x = Entry(l, q, s)
    OBVIOUS
  <2>2. x.after >= 0 /\ (x.source = "TRANSFER_OUT" => x.qty <= 0)
    BY <1>2, <2>1 DEF Entry
  <2>3. /\ draft' = [draft EXCEPT ![l] = [by |-> by, row |-> x]] /\ onHand' = onHand
    BY <1>2, <2>1 DEF WriteRow
  <2>4. \A m \in Stores : m # l => draft'[m] = draft[m]
    BY <1>1, <2>3
  <2>5. draft'[l].row = x
    BY <1>1, <2>3
  <2> QED BY <2>2, <2>3, <2>4, <2>5 DEF StockThere
<1>3. ASSUME NEW l \in Stores, NEW q \in {-1, 2}, WriteAdjustment(l, q)
      PROVE  StockThere'
  <2>1. PICK s : s = "ADJUSTMENT"
    OBVIOUS
  <2>2. onHand[l] + q >= 0 /\ WriteRow(l, l, Entry(l, q, s)) /\ q \in Int /\ s # "TRANSFER_OUT"
    BY <1>3, <2>1 DEF WriteAdjustment
  <2> QED BY <1>2, <2>2
<1>4. ASSUME NEW l \in Stores, WriteOut(l, 1)
      PROVE  StockThere'
  <2>1. PICK q : q = -1
    OBVIOUS
  <2>2. onHand[l] >= 1 /\ WriteRow(l, l, Entry(l, q, "TRANSFER_OUT"))
    BY <1>4, <2>1 DEF WriteOut
  <2>3. onHand[l] + q >= 0 /\ q \in Int /\ q <= 0
    BY <1>1, <2>1, <2>2
  <2> QED BY <1>2, <2>2, <2>3
<1>5. ASSUME NEW src \in Stores, NEW dst \in Stores, WriteIn(src, dst)
      PROVE  StockThere'
  <2>1. PICK q, s : q = -draft[src].row.qty /\ s = "TRANSFER_IN"
    OBVIOUS
  <2>2. /\ WriteRow(dst, src, Entry(dst, q, s)) /\ draft[src] # NoDraft
        /\ draft[src].row.source = "TRANSFER_OUT"
    BY <1>5, <2>1 DEF WriteIn, Writing
  <2>3. q \in Int /\ q >= 0 /\ onHand[dst] \in Int /\ onHand[dst] >= 0
    BY <1>1, <2>1, <2>2 DEF StockThere
  <2>4. onHand[dst] + q >= 0 /\ s # "TRANSFER_OUT"
    BY <2>1, <2>3
  <2> QED BY <1>2, <2>2, <2>3, <2>4
<1>6. ASSUME NEW added, NEW places, Commits(added, places), \A l \in places : draft[l] # NoDraft
      PROVE  StockThere'
  BY <1>1, <1>6 DEF Commits, StockThere
<1>7. ASSUME NEW l \in Stores, CommitAdjustment(l) PROVE StockThere'
  BY <1>6, <1>7 DEF CommitAdjustment, Writing
<1>8. ASSUME NEW src \in Stores, NEW dst \in Stores, CommitTransfer(src, dst) PROVE StockThere'
  <2>1. \A l \in {src, dst} : draft[l] # NoDraft
    BY <1>8 DEF CommitTransfer, Writing
  <2> QED BY <1>6, <1>8, <2>1 DEF CommitTransfer
<1>9. ASSUME NEW m \in Stores, Rollback(m) PROVE StockThere'
  BY <1>9 DEF Rollback, StockThere
<1>10. UNCHANGED <<onHand, draft>> => StockThere'
  BY DEF StockThere
<1>11. CASE \/ Tick
            \/ report # NoReport /\ (ReadBalances \/ ReadBefore \/ ReadPeriod \/ Answer)
  BY <1>10, <1>11 DEF Tick, ReadBalances, ReadBefore, ReadPeriod, Answer, bookVars
<1>12. CASE report # NoReport /\ \E l \in Stores : ReadSums(l) \/ ReadOpening(l)
  BY <1>10, <1>12 DEF ReadSums, ReadOpening, bookVars
<1>13. CASE \E asked \in Asks, period \in Periods :
              \/ \E reader \in Readers : BeginOverview(reader, asked, period[1], period[2])
              \/ BeginOpname(asked, period[1], period[2])
  BY <1>10, <1>13 DEF BeginOverview, BeginOpname, bookVars
<1>14. CASE UNCHANGED reportVars
  BY <1>10, <1>14 DEF reportVars, bookVars
<1>15. CASE \/ \E l \in Stores, q \in {-1, 2} : WriteAdjustment(l, q)
            \/ \E l \in Stores : WriteOut(l, 1) \/ CommitAdjustment(l) \/ Rollback(l)
            \/ \E src, dst \in Stores : WriteIn(src, dst) \/ CommitTransfer(src, dst)
  BY <1>3, <1>4, <1>5, <1>7, <1>8, <1>9, <1>15
<1>16. \/ Tick
       \/ report # NoReport /\ (ReadBalances \/ ReadBefore \/ ReadPeriod \/ Answer)
       \/ report # NoReport /\ \E l \in Stores : ReadSums(l) \/ ReadOpening(l)
       \/ \E asked \in Asks, period \in Periods :
            \/ \E reader \in Readers : BeginOverview(reader, asked, period[1], period[2])
            \/ BeginOpname(asked, period[1], period[2])
       \/ UNCHANGED reportVars
       \/ \E l \in Stores, q \in {-1, 2} : WriteAdjustment(l, q)
       \/ \E l \in Stores : WriteOut(l, 1) \/ CommitAdjustment(l) \/ Rollback(l)
       \/ \E src, dst \in Stores : WriteIn(src, dst) \/ CommitTransfer(src, dst)
  BY Zenon DEF ReportsNext
<1> QED BY <1>11, <1>12, <1>13, <1>14, <1>15, <1>16

\* Theorem: the balance of a location is the sum of its entries and not negative, its
\* entries are committed in the order they were written in, and a report is in one of its
\* stages; for ledgers of any length.
THEOREM ReportsTyped == ReportsSpec => []ReportsTypeOK
<1>1. ReportsInit => BooksInv /\ StockThere
  BY BooksBegin DEF ReportsInit, StockThere
<1>2. BooksInv /\ StockThere /\ [ReportsNext]_reportVars => BooksInv' /\ StockThere'
  BY BooksStep, StockStays
<1>3. BooksInv /\ StockThere => ReportsTypeOK
  <2> SUFFICES ASSUME BooksInv, StockThere PROVE ReportsTypeOK
    OBVIOUS
  <2>1. BookInv(entries, onHand, clock) /\ clock <= LastHalfDay /\ zone \in -1..1
    BY DEF BooksInv
  <2>2. /\ entries \in Seq(LedgerRow) /\ clock \in Nat /\ LastHalfDay \in Nat
        /\ \A i \in DOMAIN entries : entries[i].at <= clock
        /\ \A i, j \in DOMAIN entries :
             i <= j /\ entries[i].loc = entries[j].loc => entries[i].at <= entries[j].at
        /\ \A l \in Stores : onHand[l] = SumOf(entries, Of(entries, l))
    BY <2>1, ReportsAssumption DEF BookInv
  <2>3. \A i \in DOMAIN entries : entries[i] \in LedgerRow
    BY <2>2, EntrySums, ElementOfSeq
  <2>4. \A i \in DOMAIN entries : entries[i].source \in Sources
    BY <2>3 DEF LedgerRow
  <2>5. \A l \in Stores : onHand[l] = Total(At(l))
    BY <2>2 DEF Total, SumOf, At, Of
  <2>6. report # NoReport => report.pc \in {"balances", "rows", "done"}
    BY DEF BooksInv, ReportTrue, Report
  <2>7. clock \in 0..LastHalfDay
    BY <2>1, <2>2
  <2> QED BY <2>1, <2>2, <2>4, <2>5, <2>6, <2>7 DEF ReportsTypeOK, StockThere
<1> QED BY <1>1, <1>2, <1>3, PTL DEF ReportsSpec

-----------------------------------------------------------------------------
(* Session. *)

\* The storage events on their way are tokens or their removal.
SessionInv ==
  /\ logins \in Nat
  /\ signed \in [Views -> Nat] /\ screen \in [Views -> {"login", "app", "leaving"}]
  /\ news \in [Views -> Seq(Nat)]
  /\ SessionTypeOK
  /\ LogoutReachesEveryTab

\* Nobody is signed in at first.
LEMMA SessionInvInit == SessionInit => SessionInv
  BY DEF SessionInit, SessionInv, SessionTypeOK, LogoutReachesEveryTab

\* Writing a value tells every other tab, unless it is already stored.
LEMMA StoreTells ==
  ASSUME SessionInv, NEW t \in Views, NEW value \in Nat, Store(t, value)
  PROVE  /\ storage' = value
         /\ news' \in [Views -> Seq(Nat)]
         /\ news'[t] = news[t]
         /\ \A v \in Views : \A i \in DOMAIN news[v] :
              i \in DOMAIN news'[v] /\ news'[v][i] = news[v][i]
         /\ storage # value => \A v \in Views \ {t} :
              \E i \in DOMAIN news'[v] : news'[v][i] = value
<1>1. /\ storage' = value
      /\ news' = [v \in Views |-> IF v = t \/ storage = value THEN news[v]
                                  ELSE Append(news[v], value)]
  BY DEF Store
<1>2. \A s \in Seq(Nat) : /\ Append(s, value) \in Seq(Nat)
                          /\ \A i \in DOMAIN s : i \in DOMAIN Append(s, value)
                                                 /\ Append(s, value)[i] = s[i]
                          /\ \E i \in DOMAIN Append(s, value) : Append(s, value)[i] = value
  <2> SUFFICES ASSUME NEW s \in Seq(Nat)
               PROVE  /\ Append(s, value) \in Seq(Nat)
                      /\ \A i \in DOMAIN s : i \in DOMAIN Append(s, value)
                                             /\ Append(s, value)[i] = s[i]
                      /\ \E i \in DOMAIN Append(s, value) : Append(s, value)[i] = value
    OBVIOUS
  <2>1. /\ Append(s, value) \in Seq(Nat) /\ Len(s) \in Nat /\ DOMAIN s = 1 .. Len(s)
        /\ DOMAIN Append(s, value) = 1 .. Len(s) + 1
        /\ Append(s, value)[Len(s) + 1] = value
        /\ \A i \in 1 .. Len(s) : Append(s, value)[i] = s[i]
    OBVIOUS
  <2>2. Len(s) + 1 \in DOMAIN Append(s, value)
    BY <2>1
  <2> QED BY <2>1, <2>2
<1> QED BY <1>1, <1>2 DEF SessionInv

\* A step of the session tells the tabs what it removes.
LEMMA SessionInvNext == SessionInv /\ [SessionNext]_sessionVars => SessionInv'
<1> SUFFICES ASSUME SessionInv, [SessionNext]_sessionVars
             PROVE  SessionInv'
  OBVIOUS
<1>1. ASSUME NEW t \in Views, Login(t)
      PROVE  SessionInv'
  <2>1. logins + 1 \in Nat /\ logins + 1 # 0 /\ logins' = logins + 1
    BY <1>1 DEF Login, SessionInv
  <2>2. storage' = logins + 1 /\ news' \in [Views -> Seq(Nat)]
    BY <1>1, <2>1, StoreTells DEF Login
  <2>3. /\ signed' = [signed EXCEPT ![t] = logins + 1] /\ screen' = [screen EXCEPT ![t] = "app"]
        /\ UNCHANGED expired
    BY <1>1 DEF Login
  <2>8. deaf' = deaf /\ missed' = missed \ {t}
    BY <1>1 DEF Login
  <2>4. 0 .. logins \subseteq 0 .. logins + 1 /\ 1 .. logins \subseteq 1 .. logins + 1
        /\ logins + 1 \in 0 .. logins + 1
    BY <2>1 DEF SessionInv
  <2>5. SessionTypeOK'
    BY <2>1, <2>2, <2>3, <2>4, <2>8 DEF SessionInv, SessionTypeOK
  <2>6. signed' \in [Views -> Nat] /\ screen' \in [Views -> {"login", "app", "leaving"}]
    BY <2>1, <2>3 DEF SessionInv
  <2>7. LogoutReachesEveryTab'
    BY <2>1, <2>2 DEF LogoutReachesEveryTab
  <2> QED BY <2>1, <2>2, <2>5, <2>6, <2>7 DEF SessionInv
<1>2. ASSUME NEW t \in Views, Store(t, 0), UNCHANGED <<expired, logins, deaf, missed>>,
             \/ /\ signed' = [signed EXCEPT ![t] = 0]
                /\ screen' = [screen EXCEPT ![t] = "login"]
                /\ screen[t] = "app"
             \/ screen' = [screen EXCEPT ![t] = "leaving"] /\ UNCHANGED signed
      PROVE  SessionInv'
  <2>1. /\ storage' = 0 /\ news' \in [Views -> Seq(Nat)]
        /\ \A v \in Views : \A i \in DOMAIN news[v] :
             i \in DOMAIN news'[v] /\ news'[v][i] = news[v][i]
        /\ storage # 0 => \A v \in Views \ {t} : \E i \in DOMAIN news'[v] : news'[v][i] = 0
    BY <1>2, StoreTells
  <2>2. signed' \in [Views -> Nat] /\ screen' \in [Views -> {"login", "app", "leaving"}]
    <3>1. CASE signed' = [signed EXCEPT ![t] = 0] /\ screen' = [screen EXCEPT ![t] = "login"]
      BY <3>1 DEF SessionInv
    <3>2. CASE UNCHANGED signed /\ screen' = [screen EXCEPT ![t] = "leaving"]
      BY <3>2 DEF SessionInv
    <3> QED BY <1>2, <3>1, <3>2
  <2>3. 0 \in 0 .. logins
    BY DEF SessionInv
  <2>4. SessionTypeOK'
    BY <1>2, <2>1, <2>3 DEF SessionInv, SessionTypeOK
  <2>5. LogoutReachesEveryTab'
    <3> SUFFICES ASSUME NEW v \in Views, signed'[v] # 0, screen'[v] # "leaving",
                        v \notin missed'
                 PROVE  \E i \in DOMAIN news'[v] : news'[v][i] = 0
      BY DEF LogoutReachesEveryTab
    <3>1. v # t /\ signed[v] # 0 /\ screen[v] # "leaving" /\ v \notin missed
      BY <1>2 DEF SessionInv
    <3>2. CASE storage # 0
      BY <2>1, <3>1, <3>2
    <3>3. CASE storage = 0
      <4>1. PICK i \in DOMAIN news[v] : news[v][i] = 0
        BY <3>1, <3>3 DEF SessionInv, LogoutReachesEveryTab
      <4> QED BY <2>1, <4>1
    <3> QED BY <3>2, <3>3
  <2> QED BY <1>2, <2>1, <2>2, <2>4, <2>5 DEF SessionInv
<1>3. ASSUME NEW t \in Views, Logout(t)
      PROVE  SessionInv'
  BY <1>2, <1>3 DEF Logout, hearingVars
<1>4. ASSUME NEW t \in Views, Answered(t)
      PROVE  SessionInv'
  <2>1. CASE Store(t, 0) /\ screen' = [screen EXCEPT ![t] = "leaving"]
    BY <1>2, <1>4, <2>1 DEF Answered, hearingVars
  <2>2. CASE UNCHANGED <<storage, screen, news>>
    BY <1>4, <2>2 DEF Answered, hearingVars, SessionInv, SessionTypeOK, LogoutReachesEveryTab
  <2> QED BY <1>4, <2>1, <2>2 DEF Answered
<1>5. ASSUME NEW t \in Views, Hear(t)
      PROVE  SessionInv'
  <2>1. news[t] \in Seq(Nat) /\ news[t] # <<>>
    BY <1>5 DEF Hear, SessionInv
  <2>2. /\ Tail(news[t]) \in Seq(Nat) /\ Len(news[t]) \in Nat \ {0} /\ Head(news[t]) = news[t][1]
        /\ DOMAIN news[t] = 1 .. Len(news[t]) /\ DOMAIN Tail(news[t]) = 1 .. Len(news[t]) - 1
        /\ \A i \in 1 .. Len(news[t]) - 1 : Tail(news[t])[i] = news[t][i + 1]
    BY <2>1
  <2>3. /\ news' = [news EXCEPT ![t] = Tail(news[t])]
        /\ UNCHANGED <<storage, expired, logins, deaf, missed>>
        /\ \/ /\ Head(news[t]) = 0
              /\ signed' = [signed EXCEPT ![t] = 0]
              /\ screen' = [screen EXCEPT ![t] = IF @ = "app" THEN "login" ELSE @]
           \/ Head(news[t]) # 0 /\ UNCHANGED <<signed, screen>>
    BY <1>5 DEF Hear, Removed, hearingVars
  <2>4. /\ news' \in [Views -> Seq(Nat)] /\ signed' \in [Views -> Nat]
        /\ screen' \in [Views -> {"login", "app", "leaving"}]
    <3>1. news' \in [Views -> Seq(Nat)]
      BY <2>2, <2>3 DEF SessionInv
    <3>2. signed' \in [Views -> Nat]
      <4>1. signed' = signed \/ signed' = [signed EXCEPT ![t] = 0]
        BY <2>3
      <4>2. signed \in [Views -> Nat]
        BY DEF SessionInv
      <4>3. [signed EXCEPT ![t] = 0] \in [Views -> Nat]
        BY <4>2
      <4> QED BY <4>1, <4>2, <4>3
    <3>3. \/ UNCHANGED screen
          \/ screen' = [screen EXCEPT ![t] = "login"]
          \/ screen' = [screen EXCEPT ![t] = screen[t]]
      BY <2>3
    <3>4. screen' \in [Views -> {"login", "app", "leaving"}]
      BY <3>3 DEF SessionInv
    <3> QED BY <3>1, <3>2, <3>4
  <2>5. SessionTypeOK'
    <3>1. 0 \in 0 .. logins
      BY DEF SessionInv
    <3> QED BY <2>3, <3>1 DEF SessionInv, SessionTypeOK
  <2>6. LogoutReachesEveryTab'
    <3> SUFFICES ASSUME storage = 0, NEW v \in Views, signed'[v] # 0, screen'[v] # "leaving",
                        v \notin missed'
                 PROVE  \E i \in DOMAIN news'[v] : news'[v][i] = 0
      BY <2>3 DEF LogoutReachesEveryTab
    <3>1. signed[v] # 0 /\ screen[v] # "leaving" /\ v \notin missed
      BY <2>3 DEF SessionInv
    <3>2. PICK i \in DOMAIN news[v] : news[v][i] = 0
      BY <3>1 DEF SessionInv, LogoutReachesEveryTab
    <3>3. CASE v # t
      BY <2>3, <3>2, <3>3 DEF SessionInv
    <3>4. CASE v = t
      <4>1. Head(news[t]) # 0 /\ i # 1
        BY <2>2, <2>3, <3>2, <3>4 DEF SessionInv
      <4>2. i - 1 \in 1 .. Len(news[t]) - 1 /\ (i - 1) + 1 = i
        BY <2>2, <3>2, <3>4, <4>1
      <4>3. news'[t] = Tail(news[t])
        BY <2>3 DEF SessionInv
      <4> QED BY <2>2, <3>2, <3>4, <4>2, <4>3
    <3> QED BY <3>3, <3>4
  <2> QED BY <2>3, <2>4, <2>5, <2>6 DEF SessionInv
<1>6. ASSUME NEW t \in Views, Load(t)
      PROVE  SessionInv'
  <2>1. /\ signed' = [signed EXCEPT ![t] = storage] /\ news' = [news EXCEPT ![t] = <<>>]
        /\ \E s \in {"login", "app"} : screen' = [screen EXCEPT ![t] = s]
        /\ deaf' = deaf \cup {t} /\ missed' = missed \ {t}
        /\ UNCHANGED <<storage, expired, logins>>
    BY <1>6 DEF Load
  <2>2. storage \in 0 .. logins /\ storage \in Nat
    BY DEF SessionInv, SessionTypeOK
  <2>3. /\ news' \in [Views -> Seq(Nat)] /\ signed' \in [Views -> Nat]
        /\ screen' \in [Views -> {"login", "app", "leaving"}]
    BY <2>1, <2>2 DEF SessionInv
  <2>4. SessionTypeOK'
    BY <2>1, <2>2 DEF SessionInv, SessionTypeOK
  <2>5. LogoutReachesEveryTab'
    BY <2>1 DEF SessionInv, LogoutReachesEveryTab
  <2> QED BY <2>1, <2>3, <2>4, <2>5 DEF SessionInv
<1>7. ASSUME NEW t \in Views, Ask(t)
      PROVE  SessionInv'
  BY <1>7 DEF Ask, hearingVars, SessionInv, SessionTypeOK, LogoutReachesEveryTab
<1>8. ASSUME NEW n \in 1 .. MaxLogins, TimeOut(n)
      PROVE  SessionInv'
  BY <1>8 DEF TimeOut, hearingVars, SessionInv, SessionTypeOK, LogoutReachesEveryTab
<1>9. CASE UNCHANGED sessionVars
  BY <1>9 DEF sessionVars, SessionInv, SessionTypeOK, LogoutReachesEveryTab
<1>10. ASSUME NEW t \in Views, Overhear(t)
       PROVE  SessionInv'
  <2>1. news[t] \in Seq(Nat) /\ news[t] # <<>>
    BY <1>10 DEF Overhear, SessionInv
  <2>2. /\ Tail(news[t]) \in Seq(Nat) /\ Len(news[t]) \in Nat \ {0} /\ Head(news[t]) = news[t][1]
        /\ DOMAIN news[t] = 1 .. Len(news[t]) /\ DOMAIN Tail(news[t]) = 1 .. Len(news[t]) - 1
        /\ \A i \in 1 .. Len(news[t]) - 1 : Tail(news[t])[i] = news[t][i + 1]
    BY <2>1
  <2>3. /\ news' = [news EXCEPT ![t] = Tail(news[t])]
        /\ missed' = IF Head(news[t]) = 0 THEN missed \cup {t} ELSE missed
        /\ UNCHANGED <<storage, signed, screen, sent, expired, logins, deaf>>
    BY <1>10 DEF Overhear, Removed
  <2>4. news' \in [Views -> Seq(Nat)]
    BY <2>2, <2>3 DEF SessionInv
  <2>5. SessionTypeOK'
    BY <2>3 DEF SessionInv, SessionTypeOK
  <2>6. LogoutReachesEveryTab'
    <3> SUFFICES ASSUME storage = 0, NEW v \in Views, signed[v] # 0, screen[v] # "leaving",
                        v \notin missed'
                 PROVE  \E i \in DOMAIN news'[v] : news'[v][i] = 0
      BY <2>3 DEF LogoutReachesEveryTab
    <3>1. v \notin missed
      BY <2>3
    <3>2. PICK i \in DOMAIN news[v] : news[v][i] = 0
      BY <3>1 DEF SessionInv, LogoutReachesEveryTab
    <3>3. CASE v # t
      BY <2>3, <3>2, <3>3 DEF SessionInv
    <3>4. CASE v = t
      <4>1. Head(news[t]) # 0 /\ i # 1
        BY <2>2, <2>3, <3>2, <3>4 DEF SessionInv
      <4>2. i - 1 \in 1 .. Len(news[t]) - 1 /\ (i - 1) + 1 = i
        BY <2>2, <3>2, <3>4, <4>1
      <4>3. news'[t] = Tail(news[t])
        BY <2>3 DEF SessionInv
      <4> QED BY <2>2, <3>2, <3>4, <4>2, <4>3
    <3> QED BY <3>3, <3>4
  <2> QED BY <2>3, <2>4, <2>5, <2>6 DEF SessionInv
<1>11. ASSUME NEW t \in Views, Listen(t)
       PROVE  SessionInv'
  BY <1>11 DEF Listen, SessionInv, SessionTypeOK, LogoutReachesEveryTab
<1> QED BY <1>1, <1>3, <1>4, <1>5, <1>6, <1>7, <1>8, <1>9, <1>10, <1>11 DEF SessionNext

\* Theorem: with nothing in the storage, every tab that is still signed in is leaving, has the
\* event on its way, or was loading when the removal came and did not listen yet; for any
\* number of tabs, logins and events under way.
THEOREM LogoutHeard == SessionSpec => []LogoutReachesEveryTab
<1>1. SessionInv => LogoutReachesEveryTab
  BY DEF SessionInv
<1> QED BY <1>1, SessionInvInit, SessionInvNext, PTL DEF SessionSpec

-----------------------------------------------------------------------------
(* Records: the comment. *)

\* The row of the comment and the calls on it.
CommentInv ==
  /\ comment \in [message : {"text", "notice"}, deleted : BOOLEAN, edited : BOOLEAN, edits : Nat]
  /\ speech \in [Tabs -> [pc : {"none", "edit", "delete"}]]

\* The comment is written, not deleted and not edited, and no call is in flight.
LEMMA CommentInvInit == RecordsInit => CommentInv
  BY DEF RecordsInit, CommentInv, Quiet

\* A step of a tab writes a comment and a call.
LEMMA CommentInvNext == CommentInv /\ [RecordsNext]_recordVars => CommentInv'
<1> SUFFICES ASSUME CommentInv, [RecordsNext]_recordVars
             PROVE  CommentInv'
  OBVIOUS
<1>1. ASSUME NEW t \in Tabs, NEW p \in {"none", "edit", "delete"},
             speech' = [speech EXCEPT ![t] = [pc |-> p]]
      PROVE  speech' \in [Tabs -> [pc : {"none", "edit", "delete"}]]
  BY <1>1 DEF CommentInv
<1>2. CASE UNCHANGED commentVars
  BY <1>2 DEF commentVars, CommentInv
<1>3. ASSUME NEW t \in Tabs, NEW op \in {"edit", "delete"}, ReadComment(t, op)
      PROVE  CommentInv'
  BY <1>1, <1>3 DEF ReadComment, CommentInv
<1>4. ASSUME NEW t \in Tabs, WriteEdit(t)
      PROVE  CommentInv'
  <2>1. comment.edits + 1 \in Nat
    BY DEF CommentInv
  <2>2. /\ comment' = [comment EXCEPT !.message = "text", !.edited = TRUE,
                                      !.edits = comment.edits + 1]
        /\ speech' = [speech EXCEPT ![t] = [pc |-> "none"]]
    BY <1>4 DEF WriteEdit, Quiet
  <2> QED BY <1>1, <2>1, <2>2 DEF CommentInv
<1>5. ASSUME NEW t \in Tabs, WriteDeletion(t)
      PROVE  CommentInv'
  BY <1>1, <1>5 DEF WriteDeletion, CommentInv, Quiet
<1>6. CASE \/ \E f \in Uploads : WriteFile(f) \/ InsertRow(f)
           \/ \E c \in Removers : (\E f \in Uploads : FindRow(c, f)) \/ Unlink(c) \/ DeleteRow(c)
           \/ Die
           \/ UNCHANGED recordVars
  BY <1>2, <1>6 DEF WriteFile, InsertRow, FindRow, Unlink, DeleteRow, Die, recordVars
<1> QED BY <1>3, <1>4, <1>5, <1>6 DEF RecordsNext

-----------------------------------------------------------------------------
(* Records: the attachments. *)

Removal == [pc : {"unlink", "delete"}, of : Uploads]

\* A file comes with its upload alone, so that a file that was removed stays away.
AttachmentInv ==
  /\ files \subseteq Uploads /\ rows \subseteq Uploads /\ broken \subseteq Uploads
  /\ upload \in [Uploads -> {"asked", "written", "stored", "failed"}]
  /\ removal \in [Removers -> Removal \cup {Quiet}]
  /\ \A f \in Uploads : /\ upload[f] = "asked" => f \notin files
                        /\ upload[f] = "written" => f \in files
                        /\ f \in rows => upload[f] = "stored"
  /\ \A c \in Removers : removal[c] # Quiet =>
       /\ upload[removal[c].of] = "stored"
       /\ removal[c].pc = "delete" => removal[c].of \notin files
  /\ FilesBehindRows

\* Nothing is uploaded at first.
LEMMA AttachmentInvInit == RecordsInit => AttachmentInv
<1> SUFFICES ASSUME RecordsInit PROVE AttachmentInv
  OBVIOUS
<1>1. /\ rows = {} /\ files = {} /\ broken = {} /\ upload = [f \in Uploads |-> "asked"]
      /\ removal = [c \in Removers |-> Quiet]
  BY DEF RecordsInit
<1> QED BY <1>1 DEF AttachmentInv, FilesBehindRows, Removing

\* A removal that reaches its deletion keeps its file away.
LEMMA AttachmentInvNext == AttachmentInv /\ [RecordsNext]_recordVars => AttachmentInv'
<1> SUFFICES ASSUME AttachmentInv, [RecordsNext]_recordVars
             PROVE  AttachmentInv'
  OBVIOUS
<1>q. Quiet \notin Removal /\ \A k \in Removal : k.of \in Uploads
  BY DEF Quiet, Removal
<1>1. CASE UNCHANGED <<rows, files, upload, removal, broken>>
  BY <1>1 DEF AttachmentInv, FilesBehindRows, Removing
<1>2. ASSUME NEW f \in Uploads, WriteFile(f)
      PROVE  AttachmentInv'
  <2>1. /\ upload[f] = "asked" /\ files' = files \cup {f}
        /\ upload' = [upload EXCEPT ![f] = "written"] /\ UNCHANGED <<rows, removal, broken>>
    BY <1>2 DEF WriteFile
  <2>2. \A c \in Removers : removal[c] # Quiet => removal[c].of # f
    BY <2>1 DEF AttachmentInv
  <2> QED BY <2>1, <2>2, <1>q DEF AttachmentInv, FilesBehindRows, Removing
<1>3. ASSUME NEW f \in Uploads, InsertRow(f)
      PROVE  AttachmentInv'
  <2>1. /\ upload[f] = "written" /\ rows' = rows \cup {f}
        /\ upload' = [upload EXCEPT ![f] = "stored"] /\ UNCHANGED <<files, removal, broken>>
    BY <1>3 DEF InsertRow
  <2>2. f \in files
    BY <2>1 DEF AttachmentInv
  <2> QED BY <2>1, <2>2, <1>q DEF AttachmentInv, FilesBehindRows, Removing
<1>4. ASSUME NEW c \in Removers, NEW f \in Uploads, FindRow(c, f)
      PROVE  AttachmentInv'
  <2>1. /\ removal[c] = Quiet /\ f \in rows /\ UNCHANGED <<rows, files, upload, broken>>
        /\ removal' = [removal EXCEPT ![c] = [pc |-> "unlink", of |-> f]]
    BY <1>4 DEF FindRow
  <2>2. [pc |-> "unlink", of |-> f] \in Removal
    BY DEF Removal
  <2>3. \A d \in Removers : removal'[d] = IF d = c THEN [pc |-> "unlink", of |-> f] ELSE removal[d]
    BY <2>1 DEF AttachmentInv
  <2>4. removal[c].pc # "delete"
    BY <2>1 DEF Quiet
  <2>5. \A g \in Uploads : Removing(g) => Removing(g)'
    BY <2>3, <2>4 DEF Removing
  <2>6. FilesBehindRows'
    BY <2>1, <2>5 DEF AttachmentInv, FilesBehindRows
  <2> QED BY <2>1, <2>2, <2>3, <2>6 DEF AttachmentInv
<1>5. ASSUME NEW c \in Removers, Unlink(c)
      PROVE  AttachmentInv'
  <2>0. PICK f : f = removal[c].of
    OBVIOUS
  <2>1. /\ removal[c].pc = "unlink" /\ files' = files \ {f} /\ UNCHANGED <<rows, upload, broken>>
        /\ removal' = [removal EXCEPT ![c].pc = "delete"]
    BY <1>5, <2>0 DEF Unlink
  <2>2. removal[c] \in Removal /\ removal[c] # Quiet /\ f \in Uploads
    BY <2>0, <2>1, <1>q DEF AttachmentInv, Quiet
  <2> DEFINE k == [removal[c] EXCEPT !.pc = "delete"]
  <2>3. k \in Removal /\ k.pc = "delete" /\ k.of = f
    BY <2>0, <2>2 DEF Removal
  <2>4. removal' = [removal EXCEPT ![c] = k]
    BY <2>1 DEF AttachmentInv
  <2> HIDE DEF k
  <2>5. \A d \in Removers : removal'[d] = IF d = c THEN k ELSE removal[d]
    BY <2>4 DEF AttachmentInv
  <2>6. Removing(f)' /\ \A g \in Uploads : Removing(g) => Removing(g)'
    BY <2>1, <2>3, <2>5 DEF Removing
  <2>7. upload[f] = "stored"
    BY <2>0, <2>2 DEF AttachmentInv
  <2>8. FilesBehindRows'
    <3>1. ASSUME NEW g \in rows \ files'
          PROVE  Removing(g)' \/ g \in broken
      <4>1. g = f \/ (g \in rows \ files /\ g \in Uploads)
        BY <2>1 DEF AttachmentInv
      <4>2. g = f \/ Removing(g) \/ g \in broken
        BY <4>1 DEF AttachmentInv, FilesBehindRows
      <4> QED BY <4>1, <4>2, <2>6
    <3>2. ASSUME NEW g \in files' \ rows
          PROVE  upload[g] = "written" \/ g \in broken
      <4>1. g \in files \ rows
        BY <2>1
      <4> QED BY <4>1 DEF AttachmentInv, FilesBehindRows
    <3> QED BY <2>1, <3>1, <3>2 DEF FilesBehindRows
  <2>9. removal' \in [Removers -> Removal \cup {Quiet}]
    BY <2>3, <2>4 DEF AttachmentInv
  <2>10. \A g \in Uploads : /\ upload[g] = "asked" => g \notin files'
                            /\ upload[g] = "written" => g \in files'
    BY <2>1, <2>7 DEF AttachmentInv
  <2>11. \A d \in Removers : removal'[d] # Quiet =>
           upload[removal'[d].of] = "stored"
           /\ (removal'[d].pc = "delete" => removal'[d].of \notin files')
    <3> SUFFICES ASSUME NEW d \in Removers, removal'[d] # Quiet
                 PROVE  /\ upload[removal'[d].of] = "stored"
                        /\ removal'[d].pc = "delete" => removal'[d].of \notin files'
      OBVIOUS
    <3>1. CASE d = c
      <4>1. removal'[d].of = f
        BY <2>3, <2>5, <3>1
      <4> QED BY <2>1, <2>7, <4>1
    <3>2. CASE d # c
      <4>1. removal'[d] = removal[d]
        BY <2>5, <3>2
      <4>2. /\ upload[removal[d].of] = "stored"
            /\ removal[d].pc = "delete" => removal[d].of \notin files
        BY <4>1 DEF AttachmentInv
      <4>3. files' \subseteq files
        BY <2>1
      <4> QED BY <4>1, <4>2, <4>3
    <3> QED BY <3>1, <3>2
  <2> QED BY <2>1, <2>8, <2>9, <2>10, <2>11 DEF AttachmentInv
<1>6. ASSUME NEW c \in Removers, removal[c].pc = "delete",
             removal' = [removal EXCEPT ![c] = Quiet], UNCHANGED <<files, upload>>,
             \/ rows' = rows \ {removal[c].of} /\ UNCHANGED broken
             \/ broken' = broken \cup {removal[c].of} /\ UNCHANGED rows
      PROVE  AttachmentInv'
  <2> DEFINE f == removal[c].of
  <2>1. removal[c] \in Removal /\ removal[c] # Quiet /\ f \in Uploads
    BY <1>6, <1>q DEF AttachmentInv, Quiet
  <2>2. \A d \in Removers : removal'[d] = IF d = c THEN Quiet ELSE removal[d]
    BY <1>6 DEF AttachmentInv
  <2>3. \A g \in Uploads : g # f /\ Removing(g) => Removing(g)'
    BY <2>2 DEF Removing
  <2>4. f \notin files
    BY <1>6, <2>1 DEF AttachmentInv
  <2>5. FilesBehindRows'
    BY <1>6, <2>3, <2>4 DEF AttachmentInv, FilesBehindRows
  <2>6. removal' \in [Removers -> Removal \cup {Quiet}]
    BY <1>6 DEF AttachmentInv
  <2> QED BY <1>6, <2>1, <2>2, <2>5, <2>6 DEF AttachmentInv
<1>7. ASSUME NEW f \in Uploads, upload[f] = "written", upload' = [upload EXCEPT ![f] = "failed"],
             broken' = broken \cup {f}, UNCHANGED <<rows, files, removal>>
      PROVE  AttachmentInv'
  <2>1. \A c \in Removers : removal[c] # Quiet => removal[c].of # f
    BY <1>7 DEF AttachmentInv
  <2> QED BY <1>7, <2>1, <1>q DEF AttachmentInv, FilesBehindRows, Removing
<1>8. CASE Die
  BY <1>6, <1>7, <1>8 DEF Die
<1>9. ASSUME NEW c \in Removers, DeleteRow(c)
      PROVE  AttachmentInv'
  BY <1>6, <1>9 DEF DeleteRow
<1>10. CASE \/ \E t \in Tabs : ReadComment(t, "edit") \/ ReadComment(t, "delete")
                              \/ WriteEdit(t) \/ WriteDeletion(t)
            \/ UNCHANGED recordVars
  BY <1>1, <1>10 DEF ReadComment, WriteEdit, WriteDeletion, recordVars, attachmentVars
<1> QED BY <1>2, <1>3, <1>4, <1>5, <1>8, <1>9, <1>10 DEF RecordsNext

\* Theorem: an attachment without its file is being deleted, and a file without its row being
\* uploaded, except where a call died; for any number of uploads and removals.
THEOREM AttachmentsWhole == RecordsSpec => []FilesBehindRows
<1>1. AttachmentInv => FilesBehindRows
  BY DEF AttachmentInv
<1> QED BY <1>1, AttachmentInvInit, AttachmentInvNext, PTL DEF RecordsSpec

\* Theorem: the rows, the files and the comment keep their shape.
THEOREM RecordsTyped == RecordsSpec => []RecordsTypeOK
<1>1. AttachmentInv /\ CommentInv => RecordsTypeOK
  BY DEF AttachmentInv, CommentInv, RecordsTypeOK
<1> QED BY <1>1, AttachmentInvInit, AttachmentInvNext, CommentInvInit, CommentInvNext, PTL
        DEF RecordsSpec

-----------------------------------------------------------------------------
(* Desk. *)

Cards == AdjustmentCards \cup TransferCards

\* The creator of a transfer has a role at its source.  A counter that was read and found
\* the request would find it still, if the request has not moved.
DeskInv ==
  /\ DeskTypeOK
  /\ kind \in {"transfer", "adjustment"}
  /\ me \in [admin : BOOLEAN, creator : BOOLEAN, role : [Rooms -> Roles]]
  /\ me.creator /\ kind = "transfer" => Access({Origin})
  /\ moved \in BOOLEAN
  /\ ~moved => \A card \in Cards : counts[card] = "one" => Counts(card)

\* The dashboard has not been read and the page not been opened.
LEMMA DeskInvInit == DeskInit => DeskInv
<1> SUFFICES ASSUME DeskInit PROVE DeskInv
  OBVIOUS
<1>1. /\ counts = [c \in Cards |-> "unread"] /\ page = "closed" /\ status = "DRAFT" /\ moved = FALSE
      /\ newer \in 0..Limit
  BY DeskAssumption DEF DeskInit, NotRead, Cards
<1>2. DeskTypeOK
  BY <1>1 DEF DeskTypeOK, Cards
<1> QED BY <1>1, <1>2 DEF DeskInit, DeskInv

\* A status the operations of others, or of the user, lead to is one there is.
LEMMA StatusesLead ==
  /\ \A op \in Ops : Outcome(op) \in Pending \cup Over
  /\ status \in DOMAIN NextStatus => NextStatus[status] \subseteq Pending \cup Over
<1>1. \A op \in Ops : Outcome(op) \in Pending \cup Over
  BY DEF Ops, Outcome, Pending, Over
<1>2. ASSUME status \in DOMAIN NextStatus
      PROVE  NextStatus[status] \subseteq Pending \cup Over
  <2>1. CASE kind = "transfer"
    BY <1>2, <2>1 DEF NextStatus, Pending, Over
  <2>2. CASE kind # "transfer"
    BY <1>2, <2>2 DEF NextStatus, Pending, Over
  <2> QED BY <2>1, <2>2
<1> QED BY <1>1, <1>2

\* What a counter finds depends on the request and the user alone.
LEMMA CountsSame ==
  ASSUME UNCHANGED <<kind, status, lines, me>>
  PROVE  \A card : Counts(card)' = Counts(card)
  BY DEF Counts, Managed, Operated, Mine

\* Every step of the user and of others keeps the invariant.
LEMMA DeskInvNext == DeskInv /\ [DeskNext]_deskVars => DeskInv'
<1> SUFFICES ASSUME DeskInv, [DeskNext]_deskVars
             PROVE  DeskInv'
  OBVIOUS
<1>1. UNCHANGED <<kind, lines, me>>
  BY DEF DeskNext, OthersMove, OthersCome, BeginDashboard, ReadCount, Fetch, Click, deskVars
<1>2. /\ kind' \in {"transfer", "adjustment"}
      /\ me' \in [admin : BOOLEAN, creator : BOOLEAN, role : [Rooms -> Roles]]
      /\ me'.creator /\ kind' = "transfer" => Access({Origin})'
  BY <1>1 DEF DeskInv, Access, Mine
<1>3. CASE OthersMove
  <2>1. status' \in Pending \cup Over /\ moved' = TRUE /\ UNCHANGED <<counts, newer, page>>
    BY <1>3, StatusesLead DEF OthersMove
  <2> QED BY <1>2, <2>1 DEF DeskInv, DeskTypeOK
<1>4. CASE BeginDashboard
  <2>1. /\ counts' = [c \in Cards |-> "unread"] /\ moved' = FALSE /\ UNCHANGED <<status, newer, page>>
    BY <1>4 DEF BeginDashboard, NotRead, Cards
  <2>2. DeskTypeOK'
    BY <2>1 DEF DeskInv, DeskTypeOK, Cards
  <2> QED BY <1>2, <2>1, <2>2 DEF DeskInv
<1>5. CASE Fetch
  <2>1. page' = status /\ UNCHANGED <<status, counts, moved, newer>>
    BY <1>5 DEF Fetch
  <2>2. DeskTypeOK'
    BY <2>1 DEF DeskInv, DeskTypeOK
  <2> QED BY <1>1, <1>2, <2>1, <2>2, CountsSame DEF DeskInv
<1>6. ASSUME NEW card \in Cards, ReadCount(card)
      PROVE  DeskInv'
  <2>1. /\ counts' = [counts EXCEPT ![card] = IF Counts(card) THEN "one" ELSE "zero"]
        /\ UNCHANGED <<status, moved, newer, page>>
    BY <1>6 DEF ReadCount
  <2>2. counts \in [Cards -> {"unread", "zero", "one"}]
    BY DEF DeskInv, DeskTypeOK, Cards
  <2>3. counts' \in [Cards -> {"unread", "zero", "one"}]
    <3>1. (IF Counts(card) THEN "one" ELSE "zero") \in {"unread", "zero", "one"}
      OBVIOUS
    <3> QED BY <2>1, <2>2, <3>1
  <2>4. \A c \in Cards : counts'[c] = "one" => counts[c] = "one" \/ (c = card /\ Counts(card))
    BY <2>1, <2>2
  <2>5. DeskTypeOK'
    BY <2>1, <2>3 DEF DeskInv, DeskTypeOK, Cards
  <2> QED BY <1>1, <1>2, <2>1, <2>4, <2>5, CountsSame DEF DeskInv
<1>7. ASSUME NEW op \in Ops, Click(op)
      PROVE  DeskInv'
  <2>1. CASE UNCHANGED <<status, moved, page>>
    <3>1. UNCHANGED <<counts, newer>>
      BY <1>7 DEF Click
    <3>2. DeskTypeOK'
      BY <2>1, <3>1 DEF DeskInv, DeskTypeOK
    <3> QED BY <1>1, <1>2, <2>1, <3>1, <3>2, CountsSame DEF DeskInv
  <2>2. CASE /\ status' = Outcome(op) /\ moved' = TRUE
             /\ page' = IF op = "delete" THEN "closed" ELSE Outcome(op)
    <3>1. UNCHANGED <<counts, newer>> /\ Outcome(op) \in Pending \cup Over
      BY <1>7, StatusesLead DEF Click
    <3> QED BY <1>2, <2>2, <3>1 DEF DeskInv, DeskTypeOK
  <2> QED BY <1>7, <2>1, <2>2 DEF Click
<1>8. CASE UNCHANGED deskVars
  <2>1. UNCHANGED <<status, counts, moved, newer, page>>
    BY <1>8 DEF deskVars
  <2>2. DeskTypeOK'
    BY <2>1 DEF DeskInv, DeskTypeOK
  <2> QED BY <1>1, <1>2, <2>1, <2>2, CountsSame DEF DeskInv
<1>9. CASE OthersCome
  <2>1. newer' \in 0..Limit /\ UNCHANGED <<status, counts, moved, page>>
    BY <1>9 DEF OthersCome
  <2>2. DeskTypeOK'
    BY <2>1 DEF DeskInv, DeskTypeOK
  <2> QED BY <1>1, <1>2, <2>1, <2>2, CountsSame DEF DeskInv
<1> QED BY <1>3, <1>4, <1>5, <1>6, <1>7, <1>8, <1>9 DEF DeskNext, Cards

\* Theorem: a button shown for the present status works for a user with a role at the
\* request's locations; for any locations, roles and lines.
THEOREM OfferedAccepted == DeskSpec => []OfferedIsAccepted
<1>1. DeskInv => OfferedIsAccepted
  <2> SUFFICES ASSUME DeskInv, page = status, kind = "transfer" \/ me.creator \/ ManagerOf(lines),
                      NEW op \in Ops, Offers(op, page),
                      kind = "adjustment" => me.admin \/ Mine \cap lines # {}
               PROVE  Accepts(op)
    BY DEF OfferedIsAccepted
  <2>1. CASE kind = "transfer"
    <3>1. OffersTransfer(op, status)
      BY <2>1 DEF Offers
    <3>2. op = "submit" => me.creator /\ Access({Origin})
      BY <2>1, <3>1 DEF OffersTransfer, DeskInv
    <3>3. op = "cancel" => status \in Pending /\ (me.creator \/ Access({Origin, Target}))
      BY <3>1 DEF OffersTransfer, DeskInv, DeskTypeOK
    <3>4. AcceptsTransfer(op)
      BY <3>1, <3>2, <3>3 DEF OffersTransfer, AcceptsTransfer
    <3> QED BY <2>1, <3>4 DEF Accepts
  <2>2. CASE kind = "adjustment"
    <3>1. OffersAdjustment(op, status) /\ Access(lines)
      BY <2>2 DEF Offers, Access
    <3>2. op = "cancel" => status \notin Over /\ (me.creator \/ ManagerOf(lines))
      BY <2>2, <3>1 DEF OffersAdjustment
    <3>3. AcceptsAdjustment(op)
      BY <3>1, <3>2 DEF OffersAdjustment, AcceptsAdjustment
    <3> QED BY <2>2, <3>3 DEF Accepts
  <2> QED BY <2>1, <2>2 DEF DeskInv
<1> QED BY <1>1, DeskInvInit, DeskInvNext, PTL DEF DeskSpec

\* Of the action cards, at most one finds a request, and the user it finds it for can move it;
\* from its page too, but for an adjustment that is ready and a user who manages nothing.
LEMMA CountedIsActionable ==
  ASSUME NEW card \in ActionCards, Counts(card), kind \in {"transfer", "adjustment"}
  PROVE  /\ \A other \in ActionCards : Counts(other) => other = card
         /\ Matches(FilterOf(card))
         /\ \E op \in Onward : Accepts(op)
         /\ (\E op \in Onward : Accepts(op) /\ Offers(op, status))
              <=> ~(card = "adjustmentReady" /\ Managed = {})
<1>0. ~me.admin
  BY DEF Counts
<1>1. \A S : S \cap Managed # {} => ManagerOf(S) /\ Access(S) /\ ManagerOf(Rooms)
  BY DEF ManagerOf, Access, Managed, Mine
<1>2. \A S : S \cap Operated # {} => Access(S)
  BY DEF Access, Operated, Mine
<1>3. \A l : /\ l \in Managed => ManagerOf({l}) /\ Access({l})
             /\ l \in Operated => Access({l})
  BY DEF ManagerOf, Access, Managed, Operated, Mine
<1>4. CASE kind = "adjustment"
  <2>1. \/ card = "needsApproval" /\ status = "SUBMITTED" /\ lines \cap Managed # {}
        \/ card = "adjustmentReady" /\ status = "APPROVED" /\ lines \cap Operated # {}
    BY <1>4 DEF Counts, ActionCards
  <2>2. ASSUME NEW other \in ActionCards, Counts(other)
        PROVE  other = card
    BY <1>4, <2>1, <2>2 DEF Counts, ActionCards
  <2>3. CASE card = "needsApproval"
    <3>1. FilterOf(card) = "REQUIRING_ACTION"
      BY <2>3 DEF FilterOf
    <3>2. Matches(FilterOf(card))
      BY <1>1, <1>4, <2>1, <2>3, <3>1 DEF Matches
    <3>3. Accepts("approve") /\ Offers("approve", status)
      BY <1>1, <1>4, <2>1, <2>3 DEF Accepts, AcceptsAdjustment, Offers, OffersAdjustment
    <3>4. "approve" \in Onward
      BY DEF Ops, Onward
    <3> QED BY <2>2, <2>3, <3>2, <3>3, <3>4
  <2>4. CASE card = "adjustmentReady"
    <3>1. FilterOf(card) = "READY_TO_FINALIZE"
      BY <2>4 DEF FilterOf
    <3>2. Matches(FilterOf(card))
      BY <1>4, <2>1, <2>4, <3>1 DEF Matches
    <3>3. Accepts("finalize")
      BY <1>2, <1>4, <2>1, <2>4 DEF Accepts, AcceptsAdjustment
    <3>4. "finalize" \in Onward
      BY DEF Ops, Onward
    <3>5. ManagerOf(Rooms) <=> Managed # {}
      BY <1>0 DEF ManagerOf, Managed
    <3>6. Offers("finalize", status) <=> Managed # {}
      BY <1>4, <2>1, <2>4, <3>5 DEF Offers, OffersAdjustment
    <3>7. \A op \in Onward : Accepts(op) => op = "finalize"
      BY <1>4, <2>1, <2>4 DEF Onward, Ops, Accepts, AcceptsAdjustment
    <3> QED BY <2>2, <2>4, <3>2, <3>3, <3>4, <3>6, <3>7
  <2> QED BY <2>1, <2>3, <2>4
<1>5. CASE kind = "transfer"
  <2>1. \/ card = "needsOrigin" /\ status = "SUBMITTED" /\ Origin \in Managed
        \/ card = "needsDestination" /\ status = "ORIGIN_MANAGER_APPROVED" /\ Target \in Operated
        \/ card = "transferReady" /\ status = "READY_TO_FINALIZE" /\ Target \in Operated
    BY <1>5 DEF Counts, ActionCards
  <2>2. ASSUME NEW other \in ActionCards, Counts(other)
        PROVE  other = card
    BY <1>5, <2>1, <2>2 DEF Counts, ActionCards
  <2>3. CASE card = "needsOrigin"
    <3>1. FilterOf(card) = "REQUIRING_ACTION"
      BY <2>3 DEF FilterOf
    <3>2. Matches(FilterOf(card))
      BY <1>3, <1>5, <2>1, <2>3, <3>1 DEF Matches
    <3>3. Accepts("approveOrigin") /\ Offers("approveOrigin", status)
      BY <1>3, <1>5, <2>1, <2>3 DEF Accepts, AcceptsTransfer, Offers, OffersTransfer
    <3>4. "approveOrigin" \in Onward
      BY DEF Ops, Onward
    <3> QED BY <2>2, <2>3, <3>2, <3>3, <3>4
  <2>4. CASE card = "needsDestination"
    <3>1. FilterOf(card) = "REQUIRING_ACTION"
      BY <2>4 DEF FilterOf
    <3>2. Matches(FilterOf(card))
      BY <1>5, <2>1, <2>4, <3>1 DEF Matches
    <3>3. Accepts("approveDestination") /\ Offers("approveDestination", status)
      BY <1>3, <1>5, <2>1, <2>4 DEF Accepts, AcceptsTransfer, Offers, OffersTransfer
    <3>4. "approveDestination" \in Onward
      BY DEF Ops, Onward
    <3> QED BY <2>2, <2>4, <3>2, <3>3, <3>4
  <2>5. CASE card = "transferReady"
    <3>1. FilterOf(card) = "READY_TO_FINALIZE"
      BY <2>5 DEF FilterOf
    <3>2. Matches(FilterOf(card))
      BY <1>5, <2>1, <2>5, <3>1 DEF Matches
    <3>3. Accepts("finalize") /\ Offers("finalize", status)
      BY <1>3, <1>5, <2>1, <2>5 DEF Accepts, AcceptsTransfer, Offers, OffersTransfer
    <3>4. "finalize" \in Onward
      BY DEF Ops, Onward
    <3> QED BY <2>2, <2>5, <3>2, <3>3, <3>4
  <2> QED BY <2>1, <2>3, <2>4, <2>5
<1> QED BY <1>4, <1>5

\* Theorem: at most one action card counts a request that did not move while the dashboard
\* was read; the server takes the step the card asks for, the preview lists the request
\* unless it is full of newer ones, and the page has the button unless an adjustment is to
\* be finalized by a user who manages nothing.
THEOREM PendingActionable == DeskSpec => []PendingIsActionable
<1>1. DeskInv => PendingIsActionable
  <2> SUFFICES ASSUME DeskInv, ~moved
               PROVE  /\ Cardinality(Waiting) <= 1
                      /\ \A card \in Waiting :
                           /\ Previews(FilterOf(card)) <=> newer < Limit
                           /\ \E op \in Onward : Accepts(op)
                           /\ (\E op \in Onward : Accepts(op) /\ Offers(op, status))
                                <=> ~(card = "adjustmentReady" /\ Managed = {})
    BY DEF PendingIsActionable
  <2>1. \A card \in Waiting : card \in ActionCards /\ Counts(card)
    BY DEF DeskInv, Waiting, ActionCards, Cards, AdjustmentCards, TransferCards
  <2>2. kind \in {"transfer", "adjustment"}
    BY DEF DeskInv
  <2>3. Cardinality(Waiting) <= 1
    <3>1. CASE Waiting = {}
      BY <3>1, FS_EmptySet
    <3>2. CASE Waiting # {}
      <4>1. PICK card \in Waiting : TRUE
        BY <3>2
      <4>2. Waiting = {card}
        BY <2>1, <2>2, <4>1, CountedIsActionable
      <4> QED BY <4>2, FS_Singleton
    <3> QED BY <3>1, <3>2
  <2>4. ASSUME NEW card \in Waiting
        PROVE  /\ Previews(FilterOf(card)) <=> newer < Limit
               /\ \E op \in Onward : Accepts(op)
               /\ (\E op \in Onward : Accepts(op) /\ Offers(op, status))
                    <=> ~(card = "adjustmentReady" /\ Managed = {})
    <3>1. card \in ActionCards /\ Counts(card)
      BY <2>1
    <3>2. /\ Matches(FilterOf(card)) /\ \E op \in Onward : Accepts(op)
          /\ (\E op \in Onward : Accepts(op) /\ Offers(op, status))
               <=> ~(card = "adjustmentReady" /\ Managed = {})
      BY <2>2, <3>1, CountedIsActionable
    <3> QED BY <3>2 DEF Previews
  <2> QED BY <2>3, <2>4
<1> QED BY <1>1, DeskInvInit, DeskInvNext, PTL DEF DeskSpec

-----------------------------------------------------------------------------
(* Timeline. *)

\* What the handlers push, and what a fetch makes of the audit rows.
Pushed  == {Event(p, ActionOf(p)) : p \in Posts} \cup {Event(p, "DELETE") : p \in Papers}
           \cup {PushedStep(n) : n \in 1..Steps}
Fetched == {FetchedStep(n) : n \in 1..Steps}

Answers == {NoFetch, [pc |-> "failed"]}
  \cup [pc : {"asked"}, before : SUBSET Posts]
  \cup [pc : {"audited"}, before : SUBSET Posts, audit : SUBSET (1..Steps)]
  \cup [pc : {"read"}, before : SUBSET Posts, audit : SUBSET (1..Steps), rows : SUBSET Posts]

\* The tables, the events the handlers have to push and those on the stream.
TimelineServer ==
  /\ TimelineTypeOK
  /\ IsFiniteSet(stored)
  /\ unsent \subseteq Pushed /\ wire \in Seq(Pushed)

\* A comment that was there when a fetch began is still to be read, or is among the rows.
TimelineFetches ==
  /\ fetch \in [Fetches -> Answers]
  /\ \A f \in Fetches :
       /\ fetch[f].pc \in {"asked", "audited"} => fetch[f].before \cap Remarks \subseteq stored
       /\ fetch[f].pc = "read" => /\ fetch[f].before \cap Remarks \subseteq fetch[f].rows
                                  /\ IsFiniteSet(fetch[f].rows)

\* The page's list holds no post twice, and what it owes.
TimelineList ==
  /\ shown \in Seq(Pushed \cup Fetched)
  /\ \A p \in Posts : \A i, j \in Copies(p) : i = j
  /\ owed \subseteq Remarks
  /\ \A p \in owed : Copies(p) # {}

TimelineInv == TimelineServer /\ TimelineFetches /\ TimelineList

\* A finite set is listed without repetition, and no element is missed.
LEMMA ListOfSet ==
  ASSUME NEW S, IsFiniteSet(S)
  PROVE  /\ SetToSeq(S) \in Seq(S)
         /\ \A i, j \in DOMAIN SetToSeq(S) : SetToSeq(S)[i] = SetToSeq(S)[j] => i = j
         /\ \A x \in S : \E i \in DOMAIN SetToSeq(S) : SetToSeq(S)[i] = x
<1> DEFINE n == Cardinality(S)
<1> DEFINE s == SetToSeq(S)
<1>1. n \in Nat /\ ExistsBijection(1..n, S)
  BY FS_CardinalityType
<1>2. \E f \in [1..n -> S] : IsInjective(f)
  BY <1>1 DEF ExistsBijection, Bijection, Injection
<1>3. s \in [1..n -> S] /\ IsInjective(s)
  BY <1>2 DEF SetToSeq
<1> HIDE DEF s
<1>4. s \in Injection(1..n, S)
  BY <1>3 DEF Injection
<1>5. IsFiniteSet(1..n) /\ Cardinality(1..n) = n
  BY <1>1, FS_Interval
<1>6. s \in Surjection(1..n, S)
  BY <1>4, <1>5, FS_Injection
<1>7. \A x \in S : \E i \in 1..n : s[i] = x
  BY <1>6 DEF Surjection
<1>8. s \in Seq(S) /\ DOMAIN s = 1..n
  BY <1>1, <1>3
<1>9. \A i, j \in DOMAIN s : s[i] = s[j] => i = j
  BY <1>3 DEF IsInjective
<1> QED BY <1>7, <1>8, <1>9 DEF s

\* No event of a status change, and none of another post, is a post's.
LEMMA EventsApart ==
  ASSUME NEW p \in Posts
  PROVE  /\ \A q \in Posts : Event(q, ActionOf(q)).id = p => q = p
         /\ ActionOf(p) \in {"COMMENT", "UPLOAD"}
         /\ \A n : /\ PushedStep(n).action \in {"SUBMIT", "APPROVE", "FINALIZE"}
                   /\ FetchedStep(n).action \in {"SUBMIT", "STATUS_CHANGE", "FINALIZE"}
<1>1. \A n : StepAction(n) \in {"SUBMIT", "APPROVE", "FINALIZE"}
  BY DEF StepAction
<1>2. \A n : n \notin {2, 3} => StepAction(n) \in {"SUBMIT", "FINALIZE"}
  BY DEF StepAction
<1> QED BY <1>1, <1>2 DEF Event, ActionOf, PushedStep, FetchedStep

\* A pushed event with the id of a comment is that comment's.
LEMMA RemarkPushed ==
  ASSUME NEW e \in Pushed, e.id \in Remarks
  PROVE  e.action = ActionOf(e.id)
<1>1. CASE e \in {Event(p, ActionOf(p)) : p \in Posts}
  BY <1>1 DEF Event
<1>2. CASE e \in {Event(p, "DELETE") : p \in Papers}
  BY <1>2, TimelineAssumption DEF Event
<1>3. CASE e \in {PushedStep(n) : n \in 1..Steps}
  BY <1>3, TimelineAssumption DEF PushedStep
<1> QED BY <1>1, <1>2, <1>3 DEF Pushed

\* Nothing has happened and nothing is shown.
LEMMA TimelineInvInit == TimelineInit => TimelineInv
<1> SUFFICES ASSUME TimelineInit PROVE TimelineInv
  OBVIOUS
<1>1. TimelineTypeOK
  BY TimelineAssumption DEF TimelineInit, TimelineTypeOK
<1>2. IsFiniteSet(stored)
  BY FS_EmptySet DEF TimelineInit
<1>3. \A p : Copies(p) = {}
  BY DEF TimelineInit, Copies
<1>4. fetch \in [Fetches -> Answers] /\ \A f \in Fetches : fetch[f].pc = "none"
  BY DEF TimelineInit, Answers, NoFetch
<1>5. wire \in Seq(Pushed) /\ shown \in Seq(Pushed \cup Fetched) /\ unsent = {} /\ owed = {}
  BY DEF TimelineInit
<1> QED BY <1>1, <1>2, <1>3, <1>4, <1>5 DEF TimelineInv, TimelineServer, TimelineFetches, TimelineList

\* The answer of a fetch shows every post of its rows once, and no other post.
LEMMA AnswerShown ==
  ASSUME TimelineInv, NEW f \in Fetches, ApplyFetch(f)
  PROVE  /\ shown' \in Seq(Pushed \cup Fetched)
         /\ \A p \in Posts : \A i, j \in Copies(p)' : i = j
         /\ \A p \in fetch[f].rows : Copies(p)' # {}
<1> DEFINE P == {Event(p, ActionOf(p)) : p \in fetch[f].rows}
<1> DEFINE F == {FetchedStep(n) : n \in fetch[f].audit}
<1> DEFINE A == SetToSeq(P)
<1> DEFINE B == SetToSeq(F)
<1>1. fetch[f] \in [pc : {"read"}, before : SUBSET Posts, audit : SUBSET (1..Steps), rows : SUBSET Posts]
  BY DEF ApplyFetch, TimelineInv, Answers, NoFetch, TimelineFetches
<1>2. /\ fetch[f].rows \subseteq Posts /\ IsFiniteSet(fetch[f].rows)
      /\ fetch[f].audit \subseteq 1..Steps
  BY <1>1 DEF TimelineInv, TimelineFetches
<1>3. IsFiniteSet(P)
  <2> DEFINE g == [p \in fetch[f].rows |-> Event(p, ActionOf(p))]
  <2>1. g \in Surjection(fetch[f].rows, P)
    BY DEF Surjection
  <2> HIDE DEF g, P
  <2> QED BY <1>2, <2>1, FS_Surjection
<1>4. IsFiniteSet(F)
  <2> DEFINE g == [n \in fetch[f].audit |-> FetchedStep(n)]
  <2>1. g \in Surjection(fetch[f].audit, F)
    BY DEF Surjection
  <2>2. IsFiniteSet(1..Steps)
    BY FS_Interval, TimelineAssumption
  <2>3. IsFiniteSet(fetch[f].audit)
    BY <1>2, <2>2, FS_Subset
  <2> HIDE DEF g, F
  <2> QED BY <2>1, <2>3, FS_Surjection
<1>5. P \subseteq Pushed \cup Fetched /\ F \subseteq Pushed \cup Fetched
  BY <1>2 DEF Pushed, Fetched
<1>6. shown' = A \o B
  BY DEF ApplyFetch
<1>7. \A e \in P : e.id \in fetch[f].rows /\ e = Event(e.id, ActionOf(e.id))
  BY DEF Event
<1>8. \A e \in F : e.action \in {"SUBMIT", "STATUS_CHANGE", "FINALIZE"}
  <2>1. \A n : FetchedStep(n).action \in {"SUBMIT", "STATUS_CHANGE", "FINALIZE"}
    BY DEF FetchedStep, StepAction
  <2> QED BY <2>1
<1>9. \A p \in fetch[f].rows : Event(p, ActionOf(p)) \in P
  OBVIOUS
<1> HIDE DEF P, F
<1>10. /\ A \in Seq(P)
       /\ \A i, j \in DOMAIN A : A[i] = A[j] => i = j
       /\ \A x \in P : \E i \in DOMAIN A : A[i] = x
  BY <1>3, ListOfSet
<1>11. B \in Seq(F)
  BY <1>4, ListOfSet
<1> HIDE DEF A, B
<1>12. /\ Len(A) \in Nat /\ DOMAIN A = 1 .. Len(A) /\ Len(B) \in Nat /\ DOMAIN B = 1 .. Len(B)
       /\ \A i \in DOMAIN A : A[i] \in P
       /\ \A i \in DOMAIN B : B[i] \in F
  BY <1>10, <1>11
<1>13. A \in Seq(Pushed \cup Fetched) /\ B \in Seq(Pushed \cup Fetched)
  BY <1>5, <1>10, <1>11, SeqMonotonic
<1>14. /\ shown' \in Seq(Pushed \cup Fetched)
       /\ DOMAIN shown' = 1 .. Len(A) + Len(B)
       /\ \A i \in 1 .. Len(A) + Len(B) :
            shown'[i] = IF i <= Len(A) THEN A[i] ELSE B[i - Len(A)]
  BY <1>6, <1>12, <1>13, ConcatProperties
<1>15. ASSUME NEW p \in Posts, NEW i \in Copies(p)'
       PROVE  i \in DOMAIN A /\ A[i] = Event(p, ActionOf(p)) /\ p \in fetch[f].rows
  <2>1. i \in 1 .. Len(A) + Len(B) /\ shown'[i].id = p /\ shown'[i].action = ActionOf(p)
    BY <1>14, <1>15 DEF Copies, ActionOf
  <2>2. shown'[i].action \in {"COMMENT", "UPLOAD"}
    BY <2>1, EventsApart
  <2>3. i <= Len(A)
    <3>1. SUFFICES ASSUME ~(i <= Len(A)) PROVE FALSE
      OBVIOUS
    <3>2. shown'[i] = B[i - Len(A)] /\ i - Len(A) \in DOMAIN B
      BY <1>12, <1>14, <2>1, <3>1
    <3>3. shown'[i] \in F
      BY <1>12, <3>2
    <3> QED BY <1>8, <2>2, <3>3
  <2>4. i \in DOMAIN A /\ shown'[i] = A[i]
    BY <1>12, <1>14, <2>1, <2>3
  <2>5. A[i] \in P
    BY <1>12, <2>4
  <2> QED BY <1>7, <2>1, <2>4, <2>5
<1>16. \A p \in Posts : \A i, j \in Copies(p)' : i = j
  BY <1>10, <1>15
<1>17. ASSUME NEW p \in fetch[f].rows
       PROVE  Copies(p)' # {}
  <2>1. PICK i \in DOMAIN A : A[i] = Event(p, ActionOf(p))
    BY <1>9, <1>10
  <2>2. i \in DOMAIN shown' /\ shown'[i] = Event(p, ActionOf(p))
    BY <1>12, <1>14, <2>1
  <2>3. i \in Copies(p)'
    BY <2>2 DEF Copies, Event, ActionOf
  <2> QED BY <2>3
<1> QED BY <1>14, <1>16, <1>17

\* A pushed event is put in front, unless the list holds it.
LEMMA ReceivedShown ==
  ASSUME TimelineInv, Receive
  PROVE  /\ shown' \in Seq(Pushed \cup Fetched)
         /\ \A p \in Posts : \A i, j \in Copies(p)' : i = j
         /\ \A p \in Posts : Copies(p) # {} => Copies(p)' # {}
         /\ \A p \in Remarks : Head(wire).id = p => Copies(p)' # {}
<1>0. PICK e : e = Head(wire)
  OBVIOUS
<1>1. e \in Pushed
  BY <1>0 DEF TimelineInv, Receive, TimelineServer
<1>2. e.id \in Remarks => e.action = ActionOf(e.id)
  BY <1>1, RemarkPushed
<1>3. shown' = IF Known(e) THEN shown ELSE <<e>> \o shown
  BY <1>0 DEF Receive
<1>4. shown \in Seq(Pushed \cup Fetched) /\ Len(shown) \in Nat /\ DOMAIN shown = 1 .. Len(shown)
  BY DEF TimelineInv, TimelineList
<1>q. \A p \in Posts : \A i, j \in Copies(p) : i = j
  BY DEF TimelineInv, TimelineList
<1>5. CASE Known(e)
  <2>1. shown' = shown
    BY <1>3, <1>5
  <2>2. \A p : Copies(p)' = Copies(p)
    BY <2>1 DEF Copies, ActionOf
  <2>3. \A p \in Remarks : e.id = p => Copies(p) # {}
    BY <1>2, <1>5 DEF Known, Copies
  <2> QED BY <1>0, <1>4, <1>q, <2>1, <2>2, <2>3
<1>6. CASE ~Known(e)
  <2>1. shown' = <<e>> \o shown
    BY <1>3, <1>6
  <2>2. <<e>> \in Seq(Pushed \cup Fetched) /\ Len(<<e>>) = 1 /\ <<e>>[1] = e
    BY <1>1
  <2>3. /\ shown' \in Seq(Pushed \cup Fetched)
        /\ DOMAIN shown' = 1 .. 1 + Len(shown)
        /\ \A i \in 1 .. 1 + Len(shown) : shown'[i] = IF i <= 1 THEN <<e>>[i] ELSE shown[i - 1]
    BY <1>4, <2>1, <2>2, ConcatProperties
  <2>4. shown'[1] = e /\ \A i \in 1 .. Len(shown) : shown'[i + 1] = shown[i]
    BY <1>4, <2>2, <2>3
  <2>5. ASSUME NEW p \in Posts, NEW i \in Copies(p)'
        PROVE  \/ i = 1 /\ e.id = p /\ e.action = ActionOf(p)
               \/ i - 1 \in Copies(p) /\ i \in Nat
    <3>1. i \in 1 .. 1 + Len(shown) /\ shown'[i].id = p /\ shown'[i].action = ActionOf(p)
      BY <2>3, <2>5 DEF Copies, ActionOf
    <3>2. i = 1 \/ (i - 1 \in DOMAIN shown /\ shown'[i] = shown[i - 1] /\ i \in Nat)
      BY <1>4, <2>3, <3>1
    <3> QED BY <2>4, <3>1, <3>2 DEF Copies
  <2>6. \A p \in Posts : e.id = p /\ e.action = ActionOf(p) => Copies(p) = {}
    BY <1>6 DEF Known, Copies
  <2>7. ASSUME NEW p \in Posts, NEW i \in Copies(p)', NEW j \in Copies(p)'
        PROVE  i = j
    <3>1. CASE e.id = p /\ e.action = ActionOf(p)
      BY <2>5, <2>6, <3>1
    <3>2. CASE ~(e.id = p /\ e.action = ActionOf(p))
      <4>1. i - 1 \in Copies(p) /\ j - 1 \in Copies(p) /\ i \in Nat /\ j \in Nat
        BY <2>5, <3>2
      <4>2. i - 1 = j - 1
        BY <1>q, <4>1
      <4> QED BY <4>1, <4>2
    <3> QED BY <3>1, <3>2
  <2>8. ASSUME NEW p \in Posts, Copies(p) # {}
        PROVE  Copies(p)' # {}
    <3>1. PICK i \in DOMAIN shown : shown[i].id = p /\ shown[i].action = ActionOf(p)
      BY <2>8 DEF Copies
    <3>2. i + 1 \in DOMAIN shown' /\ shown'[i + 1] = shown[i]
      BY <1>4, <2>3, <2>4, <3>1
    <3>3. i + 1 \in Copies(p)'
      BY <3>1, <3>2 DEF Copies, ActionOf
    <3> QED BY <3>3
  <2>9. ASSUME NEW p \in Remarks, e.id = p
        PROVE  Copies(p)' # {}
    <3>1. 1 \in DOMAIN shown' /\ shown'[1].id = p /\ shown'[1].action = ActionOf(p)
      BY <1>2, <1>4, <2>3, <2>4, <2>9
    <3>2. 1 \in Copies(p)'
      BY <3>1 DEF Copies, ActionOf
    <3> QED BY <3>2
  <2> QED BY <1>0, <2>3, <2>7, <2>8, <2>9
<1> QED BY <1>5, <1>6

\* The rows, the events under way and the stream keep their shape.
LEMMA ServerKept == TimelineInv /\ [TimelineNext]_timelineVars => TimelineServer'
<1> SUFFICES ASSUME TimelineInv, [TimelineNext]_timelineVars
             PROVE  TimelineServer'
  OBVIOUS
<1>1. TimelineTypeOK /\ IsFiniteSet(stored) /\ unsent \subseteq Pushed /\ wire \in Seq(Pushed)
  BY DEF TimelineInv, TimelineServer
<1>2. CASE UNCHANGED <<stored, removed, step, logged, unsent, wire, stream>>
  BY <1>1, <1>2 DEF TimelineServer, TimelineTypeOK
<1>3. ASSUME NEW p \in Posts, Post(p)
      PROVE  TimelineServer'
  <2>1. /\ stored' = stored \cup {p} /\ unsent' = unsent \cup {Event(p, ActionOf(p))}
        /\ UNCHANGED <<removed, step, logged, wire, stream>>
    BY <1>3 DEF Post
  <2>2. IsFiniteSet(stored')
    BY <1>1, <2>1, FS_AddElement
  <2>3. Event(p, ActionOf(p)) \in Pushed
    BY DEF Pushed
  <2>4. TimelineTypeOK'
    BY <1>1, <2>1 DEF TimelineTypeOK
  <2> QED BY <1>1, <2>1, <2>2, <2>3, <2>4 DEF TimelineServer
<1>4. ASSUME NEW p \in Posts, DeletePaper(p)
      PROVE  TimelineServer'
  <2>1. /\ stored' = stored \ {p} /\ removed' = removed \cup {p} /\ p \in Papers
        /\ unsent' = unsent \cup {Event(p, "DELETE")}
        /\ UNCHANGED <<step, logged, wire, stream>>
    BY <1>4 DEF DeletePaper
  <2>2. IsFiniteSet(stored')
    BY <1>1, <2>1, FS_RemoveElement
  <2>3. Event(p, "DELETE") \in Pushed
    BY <2>1 DEF Pushed
  <2>4. TimelineTypeOK'
    BY <1>1, <2>1 DEF TimelineTypeOK
  <2> QED BY <1>1, <2>1, <2>2, <2>3, <2>4 DEF TimelineServer
<1>5. CASE Move
  <2>1. /\ step < Steps /\ step' = step + 1 /\ unsent' = unsent \cup {PushedStep(step + 1)}
        /\ UNCHANGED <<stored, removed, logged, wire, stream>>
    BY <1>5 DEF Move
  <2>2. step \in 0..Steps /\ logged \subseteq 1..step /\ Steps \in Nat
    BY <1>1, TimelineAssumption DEF TimelineTypeOK
  <2>3. step + 1 \in 1..Steps /\ step + 1 \in 0..Steps /\ 1..step \subseteq 1..(step + 1)
    BY <2>1, <2>2
  <2>4. PushedStep(step + 1) \in Pushed
    BY <2>3 DEF Pushed
  <2>5. TimelineTypeOK'
    BY <1>1, <2>1, <2>2, <2>3 DEF TimelineTypeOK
  <2> QED BY <1>1, <2>1, <2>4, <2>5 DEF TimelineServer
<1>6. ASSUME NEW n \in 1..Steps, WriteAudit(n)
      PROVE  TimelineServer'
  <2>1. /\ n <= step /\ logged' = logged \cup {n}
        /\ UNCHANGED <<stored, removed, step, unsent, wire, stream>>
    BY <1>6 DEF WriteAudit
  <2>2. n \in 1..step
    BY <1>1, <2>1, TimelineAssumption DEF TimelineTypeOK
  <2> QED BY <1>1, <2>1, <2>2 DEF TimelineServer, TimelineTypeOK
<1>7. ASSUME NEW e \in unsent, Emit(e)
      PROVE  TimelineServer'
  <2>1. /\ unsent' = unsent \ {e} /\ wire' = IF stream = "open" THEN Append(wire, e) ELSE wire
        /\ UNCHANGED <<stored, removed, step, logged, stream>>
    BY <1>7 DEF Emit
  <2>2. wire' \in Seq(Pushed)
    BY <1>1, <2>1
  <2>3. TimelineTypeOK'
    BY <1>1, <2>1 DEF TimelineTypeOK
  <2> QED BY <1>1, <2>1, <2>2, <2>3 DEF TimelineServer
<1>8. CASE Break
  <2>1. stream' = "closed" /\ wire' = <<>> /\ UNCHANGED <<stored, removed, step, logged, unsent>>
    BY <1>8 DEF Break, serverVars
  <2> QED BY <1>1, <2>1 DEF TimelineServer, TimelineTypeOK
<1>9. CASE Receive
  <2>1. /\ wire # <<>> /\ wire' = Tail(wire)
        /\ UNCHANGED <<stored, removed, step, logged, unsent, stream>>
    BY <1>9 DEF Receive, serverVars
  <2>2. wire' \in Seq(Pushed)
    BY <1>1, <2>1
  <2>3. TimelineTypeOK'
    BY <1>1, <2>1 DEF TimelineTypeOK
  <2> QED BY <1>1, <2>1, <2>2, <2>3 DEF TimelineServer
<1>10. CASE \/ \E f \in Fetches : \/ BeginFetch(f) \/ ReadAudit(f) \/ ReadRows(f) \/ FailRead(f)
                                   \/ LoseFetch(f) \/ ApplyFetch(f) \/ ApplyFailed(f)
            \/ UNCHANGED timelineVars
  <2>1. UNCHANGED <<stored, removed, step, logged, unsent, wire, stream>>
    BY <1>10 DEF BeginFetch, ReadAudit, ReadRows, FailRead, LoseFetch, ApplyFetch, ApplyFailed,
                 serverVars, timelineVars
  <2> QED BY <1>2, <2>1
<1> QED BY <1>3, <1>4, <1>5, <1>6, <1>7, <1>8, <1>9, <1>10 DEF TimelineNext

\* The page's list keeps showing what it owes, and shows it once.
LEMMA ListKept == TimelineInv /\ [TimelineNext]_timelineVars => TimelineList'
<1> SUFFICES ASSUME TimelineInv, [TimelineNext]_timelineVars
             PROVE  TimelineList'
  OBVIOUS
<1>1. CASE UNCHANGED <<shown, owed>>
  <2>1. \A p : Copies(p)' = Copies(p)
    BY <1>1 DEF Copies, ActionOf
  <2> QED BY <1>1, <2>1 DEF TimelineList, TimelineInv
<1>2. ASSUME NEW f \in Fetches, ApplyFetch(f)
      PROVE  TimelineList'
  <2>1. owed' = fetch[f].before \cap Remarks /\ owed' \subseteq fetch[f].rows
    BY <1>2 DEF ApplyFetch, TimelineInv, TimelineFetches
  <2> QED BY <1>2, <2>1, AnswerShown DEF TimelineList
<1>3. CASE Receive
  <2>1. owed' = owed \cup ({Head(wire).id} \cap Remarks) /\ owed \subseteq Remarks
    BY <1>3 DEF Receive, TimelineInv, TimelineList
  <2>2. ASSUME NEW p \in owed'
        PROVE  Copies(p)' # {}
    <3>1. p \in owed \/ (p \in Remarks /\ Head(wire).id = p)
      BY <2>1
    <3>2. p \in owed => p \in Posts /\ Copies(p) # {}
      BY DEF TimelineInv, Posts, TimelineList
    <3> QED BY <1>3, <3>1, <3>2, ReceivedShown
  <2> QED BY <1>3, <2>1, <2>2, ReceivedShown DEF TimelineList
<1>4. CASE \/ \E p \in Posts : Post(p) \/ DeletePaper(p)
           \/ Move \/ Break
           \/ \E n \in 1..Steps : WriteAudit(n)
           \/ \E e \in unsent : Emit(e)
           \/ \E f \in Fetches : \/ BeginFetch(f) \/ ReadAudit(f) \/ ReadRows(f) \/ FailRead(f)
                                  \/ LoseFetch(f)
           \/ UNCHANGED timelineVars
  <2>1. UNCHANGED <<shown, owed>>
    BY <1>4 DEF Post, DeletePaper, Move, Break, WriteAudit, Emit, BeginFetch, ReadAudit, ReadRows,
                FailRead, LoseFetch, pageVars, timelineVars
  <2> QED BY <1>1, <2>1
<1>5. ASSUME NEW f \in Fetches, ApplyFailed(f)
      PROVE  TimelineList'
  <2>1. shown' = <<>> /\ owed' = {}
    BY <1>5 DEF ApplyFailed
  <2>2. \A p : Copies(p)' = {}
    BY <2>1 DEF Copies
  <2> QED BY <2>1, <2>2 DEF TimelineList
<1> QED BY <1>2, <1>3, <1>4, <1>5 DEF TimelineNext

\* A comment a fetch began with is never lost to it: no comment's row is ever deleted.
LEMMA FetchesKept == TimelineInv /\ [TimelineNext]_timelineVars => TimelineFetches'
<1> SUFFICES ASSUME TimelineInv, [TimelineNext]_timelineVars
             PROVE  TimelineFetches'
  OBVIOUS
<1>1. stored \cap Remarks \subseteq stored'
  BY TimelineAssumption
     DEF TimelineNext, Post, DeletePaper, Move, Break, WriteAudit, Emit, BeginFetch, ReadAudit,
         ReadRows, FailRead, LoseFetch, ApplyFetch, ApplyFailed, Receive, serverVars, timelineVars
<1>2. stored \subseteq Posts /\ logged \subseteq 1..Steps
  BY TimelineAssumption DEF TimelineInv, TimelineTypeOK, TimelineServer
<1>3. fetch \in [Fetches -> Answers]
  BY DEF TimelineInv, TimelineFetches
<1>4. CASE UNCHANGED fetch
  BY <1>1, <1>4 DEF TimelineFetches, TimelineInv
<1>5. ASSUME NEW f \in Fetches, NEW r \in Answers, fetch' = [fetch EXCEPT ![f] = r],
             r.pc \in {"asked", "audited"} => r.before \cap Remarks \subseteq stored,
             r.pc = "read" => r.before \cap Remarks \subseteq r.rows /\ IsFiniteSet(r.rows)
      PROVE  TimelineFetches'
  <2>1. fetch' \in [Fetches -> Answers]
    BY <1>3, <1>5
  <2>2. \A g \in Fetches : fetch'[g] = IF g = f THEN r ELSE fetch[g]
    BY <1>3, <1>5
  <2>3. ASSUME NEW g \in Fetches
        PROVE  /\ fetch'[g].pc \in {"asked", "audited"} =>
                    fetch'[g].before \cap Remarks \subseteq stored'
               /\ fetch'[g].pc = "read" => /\ fetch'[g].before \cap Remarks \subseteq fetch'[g].rows
                                           /\ IsFiniteSet(fetch'[g].rows)
    <3>1. CASE g = f
      BY <1>1, <1>5, <2>2, <3>1
    <3>2. CASE g # f
      <4>1. fetch'[g] = fetch[g]
        BY <2>2, <3>2
      <4> QED BY <1>1, <4>1 DEF TimelineInv, TimelineFetches
    <3> QED BY <3>1, <3>2
  <2> QED BY <2>1, <2>3 DEF TimelineFetches
<1>6. ASSUME NEW f \in Fetches, BeginFetch(f)
      PROVE  TimelineFetches'
  <2> DEFINE r == [pc |-> "asked", before |-> stored]
  <2>1. r \in Answers /\ fetch' = [fetch EXCEPT ![f] = r]
    BY <1>2, <1>6 DEF BeginFetch, Answers
  <2> QED BY <1>5, <2>1
<1>7. ASSUME NEW f \in Fetches, ReadAudit(f)
      PROVE  TimelineFetches'
  <2> DEFINE r == [pc |-> "audited", before |-> fetch[f].before, audit |-> logged]
  <2>1. fetch[f] \in [pc : {"asked"}, before : SUBSET Posts]
    BY <1>3, <1>7 DEF ReadAudit, Answers, NoFetch
  <2>2. r \in Answers /\ fetch' = [fetch EXCEPT ![f] = r]
    BY <1>2, <1>7, <2>1 DEF ReadAudit, Answers
  <2>3. fetch[f].before \cap Remarks \subseteq stored
    BY <2>1 DEF TimelineInv, TimelineFetches
  <2> QED BY <1>5, <2>2, <2>3
<1>8. ASSUME NEW f \in Fetches, ReadRows(f)
      PROVE  TimelineFetches'
  <2> DEFINE r == [pc |-> "read", before |-> fetch[f].before, audit |-> fetch[f].audit,
                   rows |-> stored]
  <2>1. fetch[f] \in [pc : {"audited"}, before : SUBSET Posts, audit : SUBSET (1..Steps)]
    BY <1>3, <1>8 DEF ReadRows, Answers, NoFetch
  <2>2. r \in Answers /\ fetch' = [fetch EXCEPT ![f] = r]
    BY <1>2, <1>8, <2>1 DEF ReadRows, Answers
  <2>3. fetch[f].before \cap Remarks \subseteq stored /\ IsFiniteSet(stored)
    BY <2>1 DEF TimelineInv, TimelineServer, TimelineFetches
  <2> QED BY <1>5, <2>2, <2>3
<1>9. ASSUME NEW f \in Fetches, ApplyFetch(f) \/ ApplyFailed(f) \/ LoseFetch(f)
      PROVE  TimelineFetches'
  <2>1. NoFetch \in Answers /\ NoFetch.pc = "none" /\ fetch' = [fetch EXCEPT ![f] = NoFetch]
    BY <1>9 DEF ApplyFetch, ApplyFailed, LoseFetch, Answers, NoFetch
  <2> QED BY <1>5, <2>1
<1>11. ASSUME NEW f \in Fetches, FailRead(f)
       PROVE  TimelineFetches'
  <2> DEFINE r == [pc |-> "failed"]
  <2>1. r \in Answers /\ r.pc = "failed" /\ fetch' = [fetch EXCEPT ![f] = r]
    BY <1>11 DEF FailRead, Answers
  <2> QED BY <1>5, <2>1
<1>10. CASE \/ \E p \in Posts : Post(p) \/ DeletePaper(p)
            \/ Move \/ Break \/ Receive
            \/ \E n \in 1..Steps : WriteAudit(n)
            \/ \E e \in unsent : Emit(e)
            \/ UNCHANGED timelineVars
  <2>1. UNCHANGED fetch
    BY <1>10 DEF Post, DeletePaper, Move, Break, Receive, WriteAudit, Emit, pageVars, timelineVars
  <2> QED BY <1>4, <2>1
<1> QED BY <1>6, <1>7, <1>8, <1>9, <1>10, <1>11 DEF TimelineNext

\* Every step of the server, the stream and the page keeps the invariant.
LEMMA TimelineInvNext == TimelineInv /\ [TimelineNext]_timelineVars => TimelineInv'
  BY ServerKept, ListKept, FetchesKept DEF TimelineInv

\* Theorem: the page shows every comment and attachment at most once, and every comment that
\* the last answer owed it or that was pushed since; for any number of comments, attachments,
\* status changes and fetches, of which any may fail.
THEOREM TimelineShowsOnce == TimelineSpec => []ShownOnce
<1>1. TimelineInv => ShownOnce
  <2> SUFFICES ASSUME TimelineInv, NEW p \in Posts
               PROVE  Cardinality(Copies(p)) <= 1
    BY DEF TimelineInv, ShownOnce, TimelineList
  <2>1. \A i, j \in Copies(p) : i = j
    BY DEF TimelineInv, TimelineList
  <2>2. CASE Copies(p) = {}
    BY <2>2, FS_EmptySet
  <2>3. CASE Copies(p) # {}
    <3>1. PICK i \in Copies(p) : TRUE
      BY <2>3
    <3>2. Copies(p) = {i}
      BY <2>1, <3>1
    <3>3. Cardinality({i}) = 1
      BY FS_Singleton
    <3> QED BY <3>2, <3>3
  <2> QED BY <2>2, <2>3
<1> QED BY <1>1, TimelineInvInit, TimelineInvNext, PTL DEF TimelineSpec

-----------------------------------------------------------------------------
(* Client: what the calls of each page refresh. *)

\* The queries of one request, whose cache is left behind when another page is opened.
Details == {"stock-transfer", "stock-adjustment"}

\* A call refreshes every query of the screen that shows what it writes, or leaves it behind.
Refreshes(c, s) ==
  \A q \in s.queries :
    Writes(c) \cap q.of # {} => q.key \in c.refresh \/ (c.opens # "" /\ q.key \in Details)

\* What a call writes, refreshes and opens.
Does(c, w, k, p) == Writes(c) = w /\ c.refresh = k /\ c.opens = p

\* A call that posts one thing.
LEMMA OneCall == \A a, k : Does(Call(<<a>>, k), a, k, "")
  BY DEF Does, Writes, Call

\* A call that posts two things.
LEMMA TwoCalls == \A a, b, k : Does(Call(<<a, b>>, k), a \cup b, k, "")
  BY DEF Does, Writes, Call

\* A loop over two calls that goes on after an error.
LEMMA LoopOfCalls == \A a, b, k : Does(GoingOn(Call(<<a, b>>, k)), a \cup b, k, "")
  BY DEF Does, Writes, Call, GoingOn

\* A call that opens another page.
LEMMA CallThenOpen == \A a, k, p : Does(Then(Call(<<a>>, k), p), a, k, p)
  BY DEF Does, Writes, Call, Then

\* The fields of a query.
LEMMA QueryFields ==
  \A k, tables : /\ List(k, tables).key = k /\ List(k, tables).of = tables
                 /\ Lookup(k, tables).key = k /\ Lookup(k, tables).of = tables
  BY DEF List, Lookup

\* AdminLocationsPage.
LEMMA LocationsRefresh ==
  \A c \in AdminLocationsPage.calls : c.opens = "" /\ Refreshes(c, AdminLocationsPage)
<1>1. ASSUME NEW c \in AdminLocationsPage.calls
      PROVE  c.opens = "" /\ c.refresh = {"admin-locations"}
  <2>1. PICK posts : c = Call(<<posts>>, {"admin-locations"})
    BY <1>1 DEF AdminLocationsPage, Screen
  <2>2. Does(c, posts, {"admin-locations"}, "")
    BY <2>1, OneCall
  <2> QED BY <2>2 DEF Does
<1>2. \A q \in AdminLocationsPage.queries : q.key = "admin-locations"
  BY QueryFields DEF AdminLocationsPage, Screen
<1> QED BY <1>1, <1>2 DEF Refreshes

\* AdminUsersPage: a password is shown nowhere, and nothing is refreshed after it is reset.
LEMMA UsersRefresh ==
  \A c \in AdminUsersPage.calls : c.opens = "" /\ Refreshes(c, AdminUsersPage)
<1>1. ASSUME NEW c \in AdminUsersPage.calls
      PROVE  /\ c.opens = "" /\ Writes(c) \subseteq {"users"}
             /\ c.refresh = {"admin-users"} \/ Writes(c) = {}
  <2> DEFINE s == adminUsersService
  <2>1. ASSUME NEW posts \in {s.create, s.update, s.toggleActive}
        PROVE  posts = {"users"}
    BY <2>1 DEF adminUsersService
  <2>2. s.resetPassword = {}
    BY DEF adminUsersService
  <2>3. \/ \E posts \in {s.create, s.update, s.toggleActive} : c = Call(<<posts>>, {"admin-users"})
        \/ c = Call(<<s.resetPassword>>, {})
    BY <1>1 DEF AdminUsersPage, Screen
  <2>4. CASE \E posts \in {s.create, s.update, s.toggleActive} : c = Call(<<posts>>, {"admin-users"})
    <3>1. PICK posts \in {s.create, s.update, s.toggleActive} : c = Call(<<posts>>, {"admin-users"})
      BY <2>4
    <3>2. Does(c, posts, {"admin-users"}, "")
      BY <3>1, OneCall
    <3> QED BY <2>1, <3>1, <3>2 DEF Does
  <2>5. CASE c = Call(<<s.resetPassword>>, {})
    <3>1. Does(c, s.resetPassword, {}, "")
      BY <2>5, OneCall
    <3> QED BY <2>2, <3>1 DEF Does
  <2> QED BY <2>3, <2>4, <2>5
<1>2. \A q \in AdminUsersPage.queries : q.key = "admin-users" \/ q.of = {"locations"}
  BY QueryFields DEF AdminUsersPage, Screen, adminLocationsService
<1> QED BY <1>1, <1>2 DEF Refreshes

\* VendorsPage, UomsPage, CategoriesPage: one query, refreshed by every call.
LEMMA MasterRefresh ==
  /\ \A c \in VendorsPage.calls : c.opens = "" /\ Refreshes(c, VendorsPage)
  /\ \A c \in UomsPage.calls : c.opens = "" /\ Refreshes(c, UomsPage)
  /\ \A c \in CategoriesPage.calls : c.opens = "" /\ Refreshes(c, CategoriesPage)
<1>1. \A c \in VendorsPage.calls : c.opens = "" /\ Refreshes(c, VendorsPage)
  <2>1. ASSUME NEW c \in VendorsPage.calls
        PROVE  c.opens = "" /\ c.refresh = {"vendors"}
    <3>1. PICK posts : c = Call(<<posts>>, {"vendors"})
      BY <2>1 DEF VendorsPage, Screen
    <3>2. Does(c, posts, {"vendors"}, "")
      BY <3>1, OneCall
    <3> QED BY <3>2 DEF Does
  <2>2. \A q \in VendorsPage.queries : q.key = "vendors"
    BY QueryFields DEF VendorsPage, Screen
  <2> QED BY <2>1, <2>2 DEF Refreshes
<1>2. \A c \in UomsPage.calls : c.opens = "" /\ Refreshes(c, UomsPage)
  <2>1. ASSUME NEW c \in UomsPage.calls
        PROVE  c.opens = "" /\ c.refresh = {"uoms"}
    <3>1. PICK posts : c = Call(<<posts>>, {"uoms"})
      BY <2>1 DEF UomsPage, Screen
    <3>2. Does(c, posts, {"uoms"}, "")
      BY <3>1, OneCall
    <3> QED BY <3>2 DEF Does
  <2>2. \A q \in UomsPage.queries : q.key = "uoms"
    BY QueryFields DEF UomsPage, Screen
  <2> QED BY <2>1, <2>2 DEF Refreshes
<1>3. \A c \in CategoriesPage.calls : c.opens = "" /\ Refreshes(c, CategoriesPage)
  <2>1. ASSUME NEW c \in CategoriesPage.calls
        PROVE  c.opens = "" /\ c.refresh = {"categories"}
    <3>1. PICK posts : c = Call(<<posts>>, {"categories"})
      BY <2>1 DEF CategoriesPage, Screen
    <3>2. Does(c, posts, {"categories"}, "")
      BY <3>1, OneCall
    <3> QED BY <3>2 DEF Does
  <2>2. \A q \in CategoriesPage.queries : q.key = "categories"
    BY QueryFields DEF CategoriesPage, Screen
  <2> QED BY <2>1, <2>2 DEF Refreshes
<1> QED BY <1>1, <1>2, <1>3

\* A list's presets are a table of their own, shown under a key of their own.
LEMMA PresetFields ==
  ASSUME NEW m \in {"PRODUCTS", "STOCK", "PRODUCT_REGISTRATION"}
  PROVE  /\ \A c \in Presets(m) : c.opens = "" /\ Writes(c) = {PresetsOf[m]} /\ c.refresh = {PresetKeys[m]}
         /\ PresetQuery(m).key = PresetKeys[m] /\ PresetQuery(m).of = {PresetsOf[m]}
         /\ PresetsOf[m] \in {"product presets", "stock presets", "registration presets"}
<1>1. \A c \in Presets(m) : c.opens = "" /\ Writes(c) = {PresetsOf[m]} /\ c.refresh = {PresetKeys[m]}
  <2> DEFINE s == savedFiltersService(m)
  <2>1. s.create = {PresetsOf[m]} /\ s.delete = {PresetsOf[m]}
    BY DEF savedFiltersService
  <2>2. ASSUME NEW c \in Presets(m)
        PROVE  c = Call(<<s.create>>, {PresetKeys[m]}) \/ c = Call(<<s.delete>>, {PresetKeys[m]})
    BY <2>2 DEF Presets
  <2>3. ASSUME NEW c \in Presets(m)
        PROVE  c.opens = "" /\ Writes(c) = {PresetsOf[m]} /\ c.refresh = {PresetKeys[m]}
    <3>1. PICK posts : c = Call(<<posts>>, {PresetKeys[m]}) /\ posts = {PresetsOf[m]}
      BY <2>1, <2>2, <2>3
    <3>2. Does(c, posts, {PresetKeys[m]}, "")
      BY <3>1, OneCall
    <3> QED BY <3>1, <3>2 DEF Does
  <2> QED BY <2>3
<1>2. PresetQuery(m).key = PresetKeys[m] /\ PresetQuery(m).of = {PresetsOf[m]}
  BY QueryFields DEF PresetQuery, savedFiltersService
<1>3. PresetsOf[m] \in {"product presets", "stock presets", "registration presets"}
  <2>1. CASE m = "PRODUCTS"
    BY <2>1 DEF PresetsOf
  <2>2. CASE m = "STOCK"
    BY <2>2 DEF PresetsOf
  <2>3. CASE m = "PRODUCT_REGISTRATION"
    BY <2>3 DEF PresetsOf
  <2> QED BY <2>1, <2>2, <2>3
<1> QED BY <1>1, <1>2, <1>3

\* ProductsPage: the presets, and the calls on products.
LEMMA ProductsRefresh ==
  \A c \in ProductsPage.calls : c.opens = "" /\ Refreshes(c, ProductsPage)
<1>1. ASSUME NEW c \in ProductsPage.calls
      PROVE  /\ c.opens = ""
             /\ \/ Writes(c) = {PresetsOf["PRODUCTS"]} /\ c.refresh = {PresetKeys["PRODUCTS"]}
                \/ Writes(c) \subseteq {"products", "registrations"} /\ c.refresh = {"products"}
  <2>1. CASE c \in Presets("PRODUCTS")
    BY <2>1, PresetFields
  <2>2. CASE c \in {EditProduct, CreateMany, Upload}
    <3> DEFINE s == productsService
    <3>1. /\ s.renameSku = {"products"} /\ s.update = {"products"}
          /\ s.create = {"products", "registrations"} /\ s.uploadBulkProducts = {"products", "registrations"}
      BY DEF productsService
    <3>2. \/ c = Call(<<s.renameSku, s.update>>, {"products"})
          \/ c = GoingOn(Call(<<s.create, s.create>>, {"products"}))
          \/ c = Call(<<s.uploadBulkProducts>>, {"products"})
      BY <2>2 DEF EditProduct, CreateMany, Upload
    <3>3. CASE c = Call(<<s.renameSku, s.update>>, {"products"})
      <4>1. Does(c, s.renameSku \cup s.update, {"products"}, "")
        BY <3>3, TwoCalls
      <4> QED BY <3>1, <4>1 DEF Does
    <3>4. CASE c = GoingOn(Call(<<s.create, s.create>>, {"products"}))
      <4>1. Does(c, s.create \cup s.create, {"products"}, "")
        BY <3>4, LoopOfCalls
      <4> QED BY <3>1, <4>1 DEF Does
    <3>5. CASE c = Call(<<s.uploadBulkProducts>>, {"products"})
      <4>1. Does(c, s.uploadBulkProducts, {"products"}, "")
        BY <3>5, OneCall
      <4> QED BY <3>1, <4>1 DEF Does
    <3> QED BY <3>2, <3>3, <3>4, <3>5
  <2>3. CASE c \in {Call(<<posts>>, {"products"}) : posts \in {productsService.create, productsService.retire}}
    <3>1. PICK posts \in {productsService.create, productsService.retire} : c = Call(<<posts>>, {"products"})
      BY <2>3
    <3>2. posts \subseteq {"products", "registrations"}
      BY <3>1 DEF productsService
    <3>3. Does(c, posts, {"products"}, "")
      BY <3>1, OneCall
    <3> QED BY <3>2, <3>3 DEF Does
  <2> QED BY <1>1, <2>1, <2>2, <2>3 DEF ProductsPage, Screen
<1>2. ASSUME NEW q \in ProductsPage.queries
      PROVE  \/ q.key = "products" /\ q.of = {"products"}
             \/ q.key = PresetKeys["PRODUCTS"] /\ q.of = {PresetsOf["PRODUCTS"]}
             \/ q.of \in {{"categories"}, {"vendors"}, {"uoms"}}
  <2>1. \/ q \in {Lookup("categories", {"categories"}), Lookup("vendors", {"vendors"}), Lookup("uoms", {"uoms"})}
        \/ q = List("products", {"products"})
        \/ q = PresetQuery("PRODUCTS")
    BY <1>2 DEF ProductsPage, Screen, categoriesService, vendorsService, uomsService, productsService
  <2>2. CASE q \in {Lookup("categories", {"categories"}), Lookup("vendors", {"vendors"}), Lookup("uoms", {"uoms"})}
    BY <2>2, QueryFields
  <2>3. CASE q = List("products", {"products"})
    BY <2>3, QueryFields
  <2>4. CASE q = PresetQuery("PRODUCTS")
    BY <2>4, PresetFields
  <2> QED BY <2>1, <2>2, <2>3, <2>4
<1>3. PresetsOf["PRODUCTS"] = "product presets"
  BY DEF PresetsOf
<1>4. ASSUME NEW c \in ProductsPage.calls, NEW q \in ProductsPage.queries, Writes(c) \cap q.of # {}
      PROVE  q.key \in c.refresh
  <2>1. CASE Writes(c) = {PresetsOf["PRODUCTS"]} /\ c.refresh = {PresetKeys["PRODUCTS"]}
    BY <1>2, <1>3, <1>4, <2>1
  <2>2. CASE Writes(c) \subseteq {"products", "registrations"} /\ c.refresh = {"products"}
    BY <1>2, <1>3, <1>4, <2>2
  <2> QED BY <1>1, <2>1, <2>2
<1> QED BY <1>1, <1>4 DEF Refreshes

\* ProductRegistrationsPage: the presets, and the calls on registrations.
LEMMA RegistrationsRefresh ==
  \A c \in ProductRegistrationsPage.calls : c.opens = "" /\ Refreshes(c, ProductRegistrationsPage)
<1> DEFINE m == "PRODUCT_REGISTRATION"
<1>1. ASSUME NEW c \in ProductRegistrationsPage.calls
      PROVE  /\ c.opens = ""
             /\ \/ Writes(c) = {PresetsOf[m]} /\ c.refresh = {PresetKeys[m]}
                \/ Writes(c) = {"registrations"} /\ c.refresh = {"product-registrations"}
  <2> DEFINE s == productRegistrationsService
  <2>1. CASE c \in Presets(m)
    BY <2>1, PresetFields
  <2>2. CASE c \in {Call(<<posts>>, {"product-registrations"}) : posts \in {s.create, s.update, s.bulkToggle}}
    <3>1. PICK posts \in {s.create, s.update, s.bulkToggle} :
             c = Call(<<posts>>, {"product-registrations"})
      BY <2>2
    <3>2. posts = {"registrations"}
      BY <3>1 DEF productRegistrationsService
    <3>3. Does(c, posts, {"product-registrations"}, "")
      BY <3>1, OneCall
    <3> QED BY <3>2, <3>3 DEF Does
  <2> QED BY <1>1, <2>1, <2>2 DEF ProductRegistrationsPage, Screen
<1>2. ASSUME NEW q \in ProductRegistrationsPage.queries
      PROVE  \/ q.key = "product-registrations" /\ q.of = {"registrations", "products"}
             \/ q.key = PresetKeys[m] /\ q.of = {PresetsOf[m]}
             \/ q.of \in {{"categories"}, {"products"}, {"locations"}, {"transfers", "adjustments"}}
  <2> DEFINE L == {Lookup("categories", {"categories"}), Lookup("products", {"products"}),
                   Lookup("all-locations", {"locations"}),
                   Lookup("check-deactivate", {"transfers", "adjustments"})}
  <2>1. \/ q \in L
        \/ q = List("product-registrations", {"registrations", "products"})
        \/ q = PresetQuery(m)
    BY <1>2 DEF ProductRegistrationsPage, Screen, categoriesService, productsService, stockService,
                productRegistrationsService
  <2>2. CASE q \in L
    BY <2>2, QueryFields
  <2>3. CASE q = List("product-registrations", {"registrations", "products"})
    BY <2>3, QueryFields
  <2>4. CASE q = PresetQuery(m)
    BY <2>4, PresetFields
  <2> QED BY <2>1, <2>2, <2>3, <2>4
<1>3. PresetsOf[m] = "registration presets"
  BY DEF PresetsOf
<1>4. ASSUME NEW c \in ProductRegistrationsPage.calls, NEW q \in ProductRegistrationsPage.queries,
             Writes(c) \cap q.of # {}
      PROVE  q.key \in c.refresh
  <2>1. CASE Writes(c) = {PresetsOf[m]} /\ c.refresh = {PresetKeys[m]}
    BY <1>2, <1>3, <1>4, <2>1
  <2>2. CASE Writes(c) = {"registrations"} /\ c.refresh = {"product-registrations"}
    BY <1>2, <1>3, <1>4, <2>2
  <2> QED BY <1>1, <2>1, <2>2
<1> QED BY <1>1, <1>4 DEF Refreshes

\* StockDashboardPage, where presets are all that is written.
LEMMA StockRefresh ==
  \A c \in StockDashboardPage.calls : c.opens = "" /\ Refreshes(c, StockDashboardPage)
<1>1. \A c \in StockDashboardPage.calls :
        c.opens = "" /\ Writes(c) = {PresetsOf["STOCK"]} /\ c.refresh = {PresetKeys["STOCK"]}
  BY PresetFields DEF StockDashboardPage, Screen
<1>2. ASSUME NEW q \in StockDashboardPage.queries
      PROVE  \/ q.key = PresetKeys["STOCK"]
             \/ q.of \in {{"categories"}, {"products"}, {"locations"}, {"stock"}}
  <2> DEFINE L == {Lookup("categories", {"categories"}), Lookup("stock-filter-products", {"products"}),
                   Lookup("stock-visible-locations", {"locations"}), Lookup("stock-ledger", {"stock"}),
                   List("stock-overview", {"stock"})}
  <2>1. q \in L \/ q = PresetQuery("STOCK")
    BY <1>2 DEF StockDashboardPage, Screen, categoriesService, stockService
  <2>2. CASE q \in L
    BY <2>2, QueryFields
  <2>3. CASE q = PresetQuery("STOCK")
    BY <2>3, PresetFields
  <2> QED BY <2>1, <2>2, <2>3
<1>3. PresetsOf["STOCK"] = "stock presets"
  BY DEF PresetsOf
<1> QED BY <1>1, <1>2, <1>3 DEF Refreshes

\* The attachments of a request are on its page.
LEMMA AttachmentFields ==
  /\ \A c \in AttachmentCalls : Does(c, {"attachments"}, {"attachments"}, "")
  /\ \A q \in AttachmentQueries : q.key = "attachments" /\ q.of = {"attachments"}
<1> DEFINE s == attachmentsService
<1>1. s.list = {"attachments"} /\ s.upload = {"attachments"} /\ s.delete = {"attachments"}
  BY DEF attachmentsService
<1>2. ASSUME NEW c \in AttachmentCalls
      PROVE  Does(c, {"attachments"}, {"attachments"}, "")
  <2>1. \/ c = Call(<<s.upload, s.upload>>, {"attachments"})
        \/ c = Call(<<s.delete>>, {"attachments"})
    BY <1>2 DEF AttachmentCalls
  <2>2. CASE c = Call(<<s.upload, s.upload>>, {"attachments"})
    <3>1. Does(c, s.upload \cup s.upload, {"attachments"}, "")
      BY <2>2, TwoCalls
    <3>2. s.upload \cup s.upload = {"attachments"}
      BY <1>1
    <3> QED BY <3>1, <3>2
  <2>3. CASE c = Call(<<s.delete>>, {"attachments"})
    <3>1. Does(c, s.delete, {"attachments"}, "")
      BY <2>3, OneCall
    <3> QED BY <1>1, <3>1
  <2> QED BY <2>1, <2>2, <2>3
<1>3. \A q \in AttachmentQueries : q = Lookup("attachments", {"attachments"})
  BY <1>1 DEF AttachmentQueries
<1> QED BY <1>2, <1>3, QueryFields

\* The list of transfers and the page of one, which a creation and a deletion open.
LEMMA TransferQueries ==
  /\ \A q \in StockTransfersPage.queries :
       q.key = "stock-transfers" \/ q.of \in {{"locations"}, {"users"}}
  /\ \A q \in StockTransferDetailPage.queries :
       \/ q.key = "stock-transfer" /\ q.of = {"transfers"}
       \/ q.key = "attachments" /\ q.of = {"attachments"}
       \/ q.of \in {{"locations"}, {"users"}, {"registrations"}}
<1> DEFINE s == stockService
<1>1. /\ s.getVisibleLocations = {"locations"} /\ s.getAllLocations = {"locations"}
      /\ s.getLocationReadiness = {"users"} /\ s.getRegisteredProducts = {"registrations"}
      /\ stockTransfersService.getById = {"transfers"}
  BY DEF stockService, stockTransfersService
<1> HIDE DEF s
<1>2. ASSUME NEW q \in StockTransfersPage.queries
      PROVE  q.key = "stock-transfers" \/ q.of \in {{"locations"}, {"users"}}
  <2>1. q \in {Lookup("locations-mine", s.getVisibleLocations), Lookup("locations-all", s.getAllLocations),
               Lookup("location-readiness", s.getLocationReadiness),
               Lookup("location-readiness-trf-list", s.getLocationReadiness),
               List("stock-transfers", stockTransfersService.getAll)}
    BY <1>2 DEF StockTransfersPage, Screen, s
  <2> QED BY <1>1, <2>1, QueryFields
<1>3. ASSUME NEW q \in StockTransferDetailPage.queries
      PROVE  \/ q.key = "stock-transfer" /\ q.of = {"transfers"}
             \/ q.key = "attachments" /\ q.of = {"attachments"}
             \/ q.of \in {{"locations"}, {"users"}, {"registrations"}}
  <2>1. \/ q \in AttachmentQueries
        \/ q \in {Lookup("stock-transfer", stockTransfersService.getById),
                  Lookup("locations-mine", s.getVisibleLocations),
                  Lookup("registered-products-dest", s.getRegisteredProducts),
                  Lookup("location-readiness", s.getLocationReadiness)}
    BY <1>3 DEF StockTransferDetailPage, Screen, s
  <2>2. CASE q \in AttachmentQueries
    BY <2>2, AttachmentFields
  <2> QED BY <1>1, <2>1, <2>2, QueryFields
<1> QED BY <1>2, <1>3

\* StockTransfersPage: a creation opens the new transfer.
LEMMA TransfersRefresh ==
  \A c \in StockTransfersPage.calls :
    /\ c.opens = "transfer"
    /\ Refreshes(c, StockTransfersPage) /\ Refreshes(c, StockTransferDetailPage)
<1> SUFFICES ASSUME NEW c \in StockTransfersPage.calls
             PROVE  /\ c.opens = "transfer"
                    /\ Refreshes(c, StockTransfersPage) /\ Refreshes(c, StockTransferDetailPage)
  OBVIOUS
<1>1. stockTransfersService.create = {"transfers"}
  BY DEF stockTransfersService
<1>2. c = Then(Call(<<stockTransfersService.create>>, {"stock-transfers"}), "transfer")
  BY DEF StockTransfersPage, Screen
<1>3. Does(c, {"transfers"}, {"stock-transfers"}, "transfer")
  BY <1>1, <1>2, CallThenOpen
<1>4. Refreshes(c, StockTransfersPage)
  BY <1>3, TransferQueries DEF Refreshes, Does
<1>5. Refreshes(c, StockTransferDetailPage)
  BY <1>3, TransferQueries DEF Refreshes, Does, Details
<1> QED BY <1>3, <1>4, <1>5 DEF Does

\* StockTransferDetailPage: a deletion opens the list.
LEMMA TransferRefresh ==
  \A c \in StockTransferDetailPage.calls :
    /\ Refreshes(c, StockTransferDetailPage)
    /\ c.opens = "" \/ (c.opens = "transfers" /\ Refreshes(c, StockTransfersPage))
<1> SUFFICES ASSUME NEW c \in StockTransferDetailPage.calls
             PROVE  /\ Refreshes(c, StockTransferDetailPage)
                    /\ c.opens = "" \/ (c.opens = "transfers" /\ Refreshes(c, StockTransfersPage))
  OBVIOUS
<1> DEFINE s == stockTransfersService
<1> DEFINE P == {s.addItem, s.updateItem, s.deleteItem, s.submit, s.approveOrigin,
                 s.approveDestination, s.finalize, s.reject, s.cancel}
<1> DEFINE keys == {"stock-transfer", "stock-transfers"}
<1>1. s.deleteRequest = {"transfers"} /\ \A posts \in P : posts \subseteq {"transfers", "stock"}
  BY DEF stockTransfersService
<1>2. \/ \E posts \in P : c = Call(<<posts>>, keys)
      \/ c = Then(Call(<<s.deleteRequest>>, {"stock-transfers"}), "transfers")
      \/ c \in AttachmentCalls
  BY DEF StockTransferDetailPage, Screen
<1> HIDE DEF P
<1>3. CASE \E posts \in P : c = Call(<<posts>>, keys)
  <2>1. PICK posts \in P : c = Call(<<posts>>, keys)
    BY <1>3
  <2>2. Does(c, posts, keys, "")
    BY <2>1, OneCall
  <2>3. Writes(c) \subseteq {"transfers", "stock"} /\ c.refresh = keys /\ c.opens = ""
    BY <1>1, <2>1, <2>2 DEF Does
  <2>4. ASSUME NEW q \in StockTransferDetailPage.queries, Writes(c) \cap q.of # {}
        PROVE  q.key \in c.refresh
    <3>1. q.of \notin {{"locations"}, {"users"}, {"registrations"}, {"attachments"}}
      BY <2>3, <2>4
    <3> QED BY <2>3, <3>1, TransferQueries
  <2> QED BY <2>3, <2>4 DEF Refreshes
<1>4. CASE c = Then(Call(<<s.deleteRequest>>, {"stock-transfers"}), "transfers")
  <2>1. Does(c, {"transfers"}, {"stock-transfers"}, "transfers")
    BY <1>1, <1>4, CallThenOpen
  <2> QED BY <2>1, TransferQueries DEF Refreshes, Does, Details
<1>5. CASE c \in AttachmentCalls
  <2>1. Does(c, {"attachments"}, {"attachments"}, "")
    BY <1>5, AttachmentFields
  <2> QED BY <2>1, TransferQueries DEF Refreshes, Does
<1> QED BY <1>2, <1>3, <1>4, <1>5

\* The list of adjustments and the page of one, which a creation and a deletion open.
LEMMA AdjustmentQueries ==
  /\ \A q \in StockAdjustmentsPage.queries :
       q.key = "stock-adjustments" \/ q.of \in {{"locations"}, {"users"}}
  /\ \A q \in StockAdjustmentDetailPage.queries :
       \/ q.key = "stock-adjustment" /\ q.of = {"adjustments"}
       \/ q.key = "attachments" /\ q.of = {"attachments"}
       \/ q.of \in {{"locations"}, {"users"}, {"registrations"}}
<1> DEFINE s == stockService
<1>1. /\ s.getVisibleLocations = {"locations"} /\ s.getAllLocations = {"locations"}
      /\ s.getLocationReadiness = {"users"} /\ s.getRegisteredProducts = {"registrations"}
      /\ stockAdjustmentsService.getById = {"adjustments"}
  BY DEF stockService, stockAdjustmentsService
<1> HIDE DEF s
<1>2. ASSUME NEW q \in StockAdjustmentsPage.queries
      PROVE  q.key = "stock-adjustments" \/ q.of \in {{"locations"}, {"users"}}
  <2>1. q \in {Lookup("locations-mine", s.getVisibleLocations), Lookup("locations-all", s.getAllLocations),
               Lookup("location-readiness-adj-list", s.getLocationReadiness),
               List("stock-adjustments", stockAdjustmentsService.getAll)}
    BY <1>2 DEF StockAdjustmentsPage, Screen, s
  <2> QED BY <1>1, <2>1, QueryFields
<1>3. ASSUME NEW q \in StockAdjustmentDetailPage.queries
      PROVE  \/ q.key = "stock-adjustment" /\ q.of = {"adjustments"}
             \/ q.key = "attachments" /\ q.of = {"attachments"}
             \/ q.of \in {{"locations"}, {"users"}, {"registrations"}}
  <2>1. \/ q \in AttachmentQueries
        \/ q \in {Lookup("stock-adjustment", stockAdjustmentsService.getById),
                  Lookup("locations-mine", s.getVisibleLocations),
                  Lookup("location-readiness-adj", s.getLocationReadiness),
                  Lookup("locations-simple", s.getVisibleLocations),
                  Lookup("registered-products", s.getRegisteredProducts)}
    BY <1>3 DEF StockAdjustmentDetailPage, Screen, s
  <2>2. CASE q \in AttachmentQueries
    BY <2>2, AttachmentFields
  <2> QED BY <1>1, <2>1, <2>2, QueryFields
<1> QED BY <1>2, <1>3

\* StockAdjustmentsPage: a creation opens the new adjustment.
LEMMA AdjustmentsRefresh ==
  \A c \in StockAdjustmentsPage.calls :
    /\ c.opens = "adjustment"
    /\ Refreshes(c, StockAdjustmentsPage) /\ Refreshes(c, StockAdjustmentDetailPage)
<1> SUFFICES ASSUME NEW c \in StockAdjustmentsPage.calls
             PROVE  /\ c.opens = "adjustment"
                    /\ Refreshes(c, StockAdjustmentsPage) /\ Refreshes(c, StockAdjustmentDetailPage)
  OBVIOUS
<1>1. stockAdjustmentsService.create = {"adjustments"}
  BY DEF stockAdjustmentsService
<1>2. c = Then(Call(<<stockAdjustmentsService.create>>, {"stock-adjustments"}), "adjustment")
  BY DEF StockAdjustmentsPage, Screen
<1>3. Does(c, {"adjustments"}, {"stock-adjustments"}, "adjustment")
  BY <1>1, <1>2, CallThenOpen
<1>4. Refreshes(c, StockAdjustmentsPage)
  BY <1>3, AdjustmentQueries DEF Refreshes, Does
<1>5. Refreshes(c, StockAdjustmentDetailPage)
  BY <1>3, AdjustmentQueries DEF Refreshes, Does, Details
<1> QED BY <1>3, <1>4, <1>5 DEF Does

\* StockAdjustmentDetailPage: a deletion opens the list.
LEMMA AdjustmentRefresh ==
  \A c \in StockAdjustmentDetailPage.calls :
    /\ Refreshes(c, StockAdjustmentDetailPage)
    /\ c.opens = "" \/ (c.opens = "adjustments" /\ Refreshes(c, StockAdjustmentsPage))
<1> SUFFICES ASSUME NEW c \in StockAdjustmentDetailPage.calls
             PROVE  /\ Refreshes(c, StockAdjustmentDetailPage)
                    /\ c.opens = "" \/ (c.opens = "adjustments" /\ Refreshes(c, StockAdjustmentsPage))
  OBVIOUS
<1> DEFINE s == stockAdjustmentsService
<1> DEFINE P == {s.addItem, s.updateItem, s.deleteItem, s.submit, s.approve,
                 s.finalize, s.reject, s.cancel}
<1> DEFINE keys == {"stock-adjustment", "stock-adjustments"}
<1>1. s.deleteRequest = {"adjustments"} /\ \A posts \in P : posts \subseteq {"adjustments", "stock"}
  BY DEF stockAdjustmentsService
<1>2. \/ \E posts \in P : c = Call(<<posts>>, keys)
      \/ c = Then(Call(<<s.deleteRequest>>, {"stock-adjustments"}), "adjustments")
      \/ c \in AttachmentCalls
  BY DEF StockAdjustmentDetailPage, Screen
<1> HIDE DEF P
<1>3. CASE \E posts \in P : c = Call(<<posts>>, keys)
  <2>1. PICK posts \in P : c = Call(<<posts>>, keys)
    BY <1>3
  <2>2. Does(c, posts, keys, "")
    BY <2>1, OneCall
  <2>3. Writes(c) \subseteq {"adjustments", "stock"} /\ c.refresh = keys /\ c.opens = ""
    BY <1>1, <2>1, <2>2 DEF Does
  <2>4. ASSUME NEW q \in StockAdjustmentDetailPage.queries, Writes(c) \cap q.of # {}
        PROVE  q.key \in c.refresh
    <3>1. q.of \notin {{"locations"}, {"users"}, {"registrations"}, {"attachments"}}
      BY <2>3, <2>4
    <3> QED BY <2>3, <3>1, AdjustmentQueries
  <2> QED BY <2>3, <2>4 DEF Refreshes
<1>4. CASE c = Then(Call(<<s.deleteRequest>>, {"stock-adjustments"}), "adjustments")
  <2>1. Does(c, {"adjustments"}, {"stock-adjustments"}, "adjustments")
    BY <1>1, <1>4, CallThenOpen
  <2> QED BY <2>1, AdjustmentQueries DEF Refreshes, Does, Details
<1>5. CASE c \in AttachmentCalls
  <2>1. Does(c, {"attachments"}, {"attachments"}, "")
    BY <1>5, AttachmentFields
  <2> QED BY <2>1, AdjustmentQueries DEF Refreshes, Does
<1> QED BY <1>2, <1>3, <1>4, <1>5

\* A page of the router.
LEMMA ScreensAre ==
  /\ Screens["locations"] = AdminLocationsPage /\ Screens["users"] = AdminUsersPage
  /\ Screens["vendors"] = VendorsPage /\ Screens["uoms"] = UomsPage
  /\ Screens["categories"] = CategoriesPage /\ Screens["products"] = ProductsPage
  /\ Screens["registrations"] = ProductRegistrationsPage
  /\ Screens["transfers"] = StockTransfersPage /\ Screens["transfer"] = StockTransferDetailPage
  /\ Screens["adjustments"] = StockAdjustmentsPage
  /\ Screens["adjustment"] = StockAdjustmentDetailPage
  /\ Screens["stock"] = StockDashboardPage /\ Screens["audit"] = AuditLogsPage
  /\ Screens["dashboard"] = DashboardPage
  BY DEF Screens, Places

\* A call that succeeds refreshes what shows its writes on its page, and on the page it opens.
LEMMA CallsRefresh ==
  ASSUME NEW p \in Places, NEW c \in Screens[p].calls
  PROVE  /\ Refreshes(c, Screens[p])
         /\ c.opens = "" \/ (c.opens \in Places /\ Refreshes(c, Screens[c.opens]))
<1>1. CASE p \in {"locations", "users", "vendors", "uoms", "categories"}
  BY <1>1, ScreensAre, LocationsRefresh, UsersRefresh, MasterRefresh
<1>2. CASE p \in {"products", "registrations", "stock"}
  BY <1>2, ScreensAre, ProductsRefresh, RegistrationsRefresh, StockRefresh
<1>3. CASE p \in {"audit", "dashboard"}
  <2>1. Screens[p].calls = {}
    BY <1>3, ScreensAre DEF AuditLogsPage, DashboardPage, Screen
  <2> QED BY <2>1
<1>4. CASE p \in {"transfers", "transfer"}
  BY <1>4, ScreensAre, TransfersRefresh, TransferRefresh DEF Places
<1>5. CASE p \in {"adjustments", "adjustment"}
  BY <1>5, ScreensAre, AdjustmentsRefresh, AdjustmentRefresh DEF Places
<1> QED BY <1>1, <1>2, <1>3, <1>4, <1>5 DEF Places

-----------------------------------------------------------------------------
(* Client: the tab's cache. *)

Cached == [seen : Nat \cup {-1}, fresh : BOOLEAN, error : BOOLEAN,
             fetch : {"idle", "asked", "read"}, got : Nat]
AllCalls == UNION {Screens[p].calls : p \in Places}
Calling  == [pc : {"sent", "refused", "accepted"}, of : AllCalls, post : Nat, wrote : Nat]

\* An entry that must not fall behind version n, at version v of the table: what is in
\* flight was read late enough, and an answer that is behind is stale.
Sound(k, n, v) ==
  /\ k \in Cached /\ k.seen <= v /\ k.got <= v
  /\ k.fetch = "read" => k.got >= n
  /\ k.seen >= 0 /\ k.seen < n => ~k.fresh

\* What is on the screen is not behind, unless it is being asked for or said to have failed.
Current(k, n) == k.seen >= 0 /\ k.fetch = "idle" /\ ~k.error => k.seen >= n

ClientTyped ==
  /\ table \in Tracked /\ version \in 0..MaxWrites /\ turns \in 0..MaxTurns[table]
  /\ place \in Places /\ setting \in {1, 2}

\* The call under way writes the table that is followed.
ClientCall ==
  \/ call = NoCall
  \/ call \in Calling /\ call.wrote <= version /\ table \in Writes(call.of)

ClientCache ==
  /\ DOMAIN cache = Entries[table] /\ floor \in [Entries[table] -> Nat]
  /\ \A e \in Entries[table] :
       /\ floor[e] <= version /\ Sound(cache[e], floor[e], version)
       /\ e \in Shown(place, setting) => Current(cache[e], floor[e])

ClientInv == ClientTyped /\ ClientCall /\ ClientCache

\* What a page shows is an entry of the cache, under the key of one of its queries.
LEMMA ShownEntries ==
  ASSUME table \in Tables, NEW p \in Places, NEW f \in {1, 2}
  PROVE  /\ Shown(p, f) \subseteq Entries[table]
         /\ \A e \in Shown(p, f) : \E q \in Screens[p].queries : table \in q.of /\ e[1] = q.key
<1>1. Shown(p, f) = {<<q.key, IF q.filtered THEN f ELSE 0>> :
                       q \in {r \in Screens[p].queries : table \in r.of /\ r.key \in Keys[table]}}
  BY DEF Shown, ShownOf
<1>2. ShownOf[table][p][f] \subseteq Entries[table]
  BY DEF Entries
<1>3. \A e \in Shown(p, f) : \E q \in Screens[p].queries : table \in q.of /\ e[1] = q.key
  BY <1>1
<1> QED BY <1>2, <1>3 DEF Shown

\* What a call's writes concern is refreshed after it, or left behind.
LEMMA ConcernedRefreshed ==
  ASSUME table \in Tables, NEW c \in AllCalls, table \in Writes(c)
  PROVE  \A e \in Concerned(c) :
           /\ e \in Entries[table]
           /\ e[1] \in c.refresh \/ (c.opens # "" /\ e[1] \in Details)
<1> SUFFICES ASSUME NEW e \in Concerned(c)
             PROVE  /\ e \in Entries[table]
                    /\ e[1] \in c.refresh \/ (c.opens # "" /\ e[1] \in Details)
  OBVIOUS
<1>1. PICK s \in Places, f \in {1, 2} : (c \in Screens[s].calls \/ c.opens = s) /\ e \in Shown(s, f)
  BY DEF Concerned
<1>2. PICK p \in Places : c \in Screens[p].calls
  BY DEF AllCalls
<1>3. Refreshes(c, Screens[s])
  <2>1. CASE c \in Screens[s].calls
    BY <2>1, CallsRefresh
  <2>2. CASE c.opens = s
    <3>1. c.opens # ""
      BY <1>1, <2>2 DEF Places
    <3> QED BY <1>2, <2>2, <3>1, CallsRefresh
  <2> QED BY <1>1, <2>1, <2>2
<1>4. e \in Entries[table] /\ \E q \in Screens[s].queries : table \in q.of /\ e[1] = q.key
  BY <1>1, ShownEntries
<1> QED BY <1>3, <1>4 DEF Refreshes

\* An entry that is asked for is as good as before, and waits for its answer.
LEMMA AskedSound ==
  ASSUME NEW k, NEW n \in Nat, NEW v \in Nat, Sound(k, n, v)
  PROVE  Sound(Asked(k), n, v) /\ Current(Asked(k), n) /\ Asked(k).fetch = "asked"
         /\ Asked(k).seen = k.seen /\ Asked(k).fresh = k.fresh /\ Asked(k).error = k.error
<1>1. k \in Cached
  BY DEF Sound
<1>2. /\ Asked(k) \in Cached /\ Asked(k).fetch = "asked" /\ Asked(k).got = 0
      /\ Asked(k).seen = k.seen /\ Asked(k).fresh = k.fresh /\ Asked(k).error = k.error
  BY <1>1 DEF Asked, Cached
<1> QED BY <1>2 DEF Sound, Current

\* What a page does with the entries it begins to show.
LEMMA ObserveSound ==
  ASSUME NEW c, NEW es, NEW e \in DOMAIN c, NEW n \in Nat, NEW v \in Nat, Sound(c[e], n, v)
  PROVE  Sound(Observe(c, es)[e], n, v) /\ (e \in es => Current(Observe(c, es)[e], n))
<1>1. Observe(c, es)[e] = IF e \in es /\ ~c[e].fresh /\ c[e].fetch = "idle" THEN Asked(c[e]) ELSE c[e]
  BY DEF Observe
<1>2. CASE e \in es /\ ~c[e].fresh /\ c[e].fetch = "idle"
  BY <1>1, <1>2, AskedSound
<1>3. CASE ~(e \in es /\ ~c[e].fresh /\ c[e].fetch = "idle")
  <2>1. Observe(c, es)[e] = c[e]
    BY <1>1, <1>3
  <2>2. e \in es => Current(c[e], n)
    BY <1>3 DEF Sound, Current, Cached
  <2> QED BY <2>1, <2>2
<1> QED BY <1>2, <1>3

\* A refresh makes no entry worse, and an entry under one of its keys, that had an answer and
\* is on the screen or not being asked for, good for any version there is.
LEMMA InvalidateSound ==
  ASSUME NEW c, NEW keys, NEW es, NEW e \in DOMAIN c, NEW n \in Nat, NEW v \in Nat,
         Sound(c[e], n, v)
  PROVE  LET k == Invalidate(c, keys, es)[e] IN
         /\ Sound(k, n, v)
         /\ Current(c[e], n) => Current(k, n)
         /\ e[1] \in keys /\ c[e].seen >= 0 /\ (e \in es \/ c[e].fetch = "idle") =>
              \A m \in Nat : m <= v => Sound(k, m, v) /\ (e \in es => Current(k, m))
<1>1. PICK k : k = Invalidate(c, keys, es)[e]
  OBVIOUS
<1>2. PICK d : d = [c[e] EXCEPT !.fresh = FALSE]
  OBVIOUS
<1>3. k = IF e[1] \notin keys THEN c[e]
          ELSE IF e \in es /\ (c[e].seen >= 0 \/ c[e].fetch = "idle") THEN Asked(d) ELSE d
  BY <1>1, <1>2 DEF Invalidate
<1>4. c[e] \in Cached
  BY DEF Sound
<1>5. /\ d \in Cached /\ ~d.fresh /\ d.seen = c[e].seen /\ d.error = c[e].error
      /\ d.fetch = c[e].fetch /\ d.got = c[e].got
  BY <1>2, <1>4 DEF Cached
<1>6. Sound(d, n, v) /\ (Current(c[e], n) => Current(d, n))
  BY <1>5 DEF Sound, Current
<1>7. /\ Sound(Asked(d), n, v) /\ Current(Asked(d), n)
      /\ Asked(d).seen = d.seen /\ ~Asked(d).fresh /\ Asked(d).fetch = "asked"
  BY <1>5, <1>6, AskedSound
<1>8. Sound(k, n, v) /\ (Current(c[e], n) => Current(k, n))
  BY <1>3, <1>6, <1>7
<1>9. ASSUME e[1] \in keys, c[e].seen >= 0, e \in es \/ c[e].fetch = "idle",
             NEW m \in Nat, m <= v
      PROVE  Sound(k, m, v) /\ (e \in es => Current(k, m))
  <2>1. CASE e \in es
    <3>1. k = Asked(d)
      BY <1>3, <1>9, <2>1
    <3> QED BY <1>7, <3>1 DEF Sound, Current
  <2>2. CASE e \notin es
    <3>1. k = d /\ d.fetch = "idle"
      BY <1>3, <1>5, <1>9, <2>2
    <3> QED BY <1>5, <1>6, <2>2, <3>1 DEF Sound
  <2> QED BY <2>1, <2>2
<1> QED BY <1>1, <1>8, <1>9

\* The cache is empty.
LEMMA ClientInvInit == ClientInit => ClientInv
<1> SUFFICES ASSUME ClientInit PROVE ClientInv
  OBVIOUS
<1>1. ClientTyped
  BY ClientAssumption DEF ClientInit, ClientTyped, Places
<1>2. ClientCall
  BY DEF ClientInit, ClientCall
<1>3. Empty \in Cached /\ Empty.seen = -1 /\ Empty.got = 0 /\ Empty.fetch = "idle"
  BY DEF Empty, Cached
<1>4. Sound(Empty, 0, 0) /\ Current(Empty, 0)
  BY <1>3 DEF Sound, Current
<1>5. ClientCache
  BY <1>4 DEF ClientInit, ClientCache
<1> QED BY <1>1, <1>2, <1>5 DEF ClientInv

\* The user turns to something: the entries shown are observed.
LEMMA TurnKept ==
  ASSUME ClientInv, NEW p \in Places, NEW f \in {1, 2},
         place' = p, setting' = f, cache' = Observe(cache, Shown(p, f)),
         UNCHANGED <<table, version, floor>>
  PROVE  ClientCache'
<1>1. DOMAIN cache' = DOMAIN cache
  BY DEF Observe
<1>2. version \in Nat /\ DOMAIN cache = Entries[table] /\ floor \in [Entries[table] -> Nat]
  BY ClientAssumption DEF ClientInv, ClientCache, ClientTyped
<1>3. Shown(place, setting)' = Shown(p, f)
  BY DEF Shown
<1>4. ASSUME NEW e \in Entries[table]
      PROVE  /\ Sound(cache'[e], floor[e], version)
             /\ e \in Shown(p, f) => Current(cache'[e], floor[e])
  <2>1. Sound(cache[e], floor[e], version) /\ floor[e] \in Nat /\ e \in DOMAIN cache
    BY <1>2 DEF ClientInv, ClientCache
  <2>2. PICK es : es = Shown(p, f)
    OBVIOUS
  <2>3. cache' = Observe(cache, es)
    BY <2>2
  <2> QED BY <1>2, <2>1, <2>2, <2>3, ObserveSound
<1> QED BY <1>1, <1>2, <1>3, <1>4 DEF ClientInv, ClientCache

\* One entry changes, and the version does not fall.
LEMMA EntryKept ==
  ASSUME ClientInv, NEW e \in DOMAIN cache, NEW k, cache' = [cache EXCEPT ![e] = k],
         Sound(k, floor[e], version), Current(k, floor[e]),
         UNCHANGED <<table, version, place, setting, floor>>
  PROVE  ClientCache'
<1>1. Shown(place, setting)' = Shown(place, setting)
  BY DEF Shown
<1>2. DOMAIN cache' = DOMAIN cache /\ \A d \in DOMAIN cache : cache'[d] = IF d = e THEN k ELSE cache[d]
  OBVIOUS
<1> QED BY <1>1, <1>2 DEF ClientInv, ClientCache

\* Nothing of the tab changes, and the version may rise.
LEMMA VersionKept ==
  ASSUME ClientInv, version' \in Nat, version <= version',
         UNCHANGED <<table, place, setting, cache, floor>>
  PROVE  ClientCache'
<1>1. Shown(place, setting)' = Shown(place, setting)
  BY DEF Shown
<1>2. version \in Nat
  BY ClientAssumption DEF ClientInv, ClientTyped
<1>3. ASSUME NEW e \in Entries[table]
      PROVE  floor[e] <= version' /\ Sound(cache[e], floor[e], version')
  <2>1. /\ floor[e] \in Nat /\ floor[e] <= version /\ Sound(cache[e], floor[e], version)
    BY DEF ClientInv, ClientCache
  <2> QED BY <1>2, <2>1 DEF Sound, Cached
<1> QED BY <1>1, <1>3 DEF ClientInv, ClientCache

\* A call that succeeded refreshes what it concerns, before anything of it is owed.
LEMMA SettleKept ==
  ASSUME ClientInv, Settle
  PROVE  ClientInv'
<1>1. PICK c : c = call.of
  OBVIOUS
<1>2. PICK onScreen : onScreen = Shown(place, setting)
  OBVIOUS
<1>3. PICK gone : gone = IF c.opens # "" THEN {e \in DOMAIN cache : e[1] \in {"stock-transfer", "stock-adjustment"}}
                         ELSE {}
  OBVIOUS
<1>4. PICK due : due = {e \in Concerned(c) : cache[e].seen >= 0 /\ (e \in onScreen \/ cache[e].fetch = "idle")}
  OBVIOUS
<1>5. PICK kept : kept = Invalidate(cache, c.refresh, onScreen)
  OBVIOUS
<1>6. PICK inv : inv = [e \in DOMAIN cache |-> IF e \in gone THEN Empty ELSE kept[e]]
  OBVIOUS
<1>7. /\ place' = IF c.opens # "" THEN c.opens ELSE place
      /\ setting' = IF c.opens # "" THEN 1 ELSE setting
      /\ cache' = IF c.opens # "" THEN Observe(inv, Shown(c.opens, 1)) ELSE inv
      /\ floor' = [e \in DOMAIN floor |->
                     IF e \in gone THEN 0
                     ELSE IF e \in due /\ call.wrote > floor[e] THEN call.wrote ELSE floor[e]]
      /\ call' = NoCall
      /\ UNCHANGED <<table, version, turns>>
  BY <1>1, <1>2, <1>3, <1>4, <1>5, <1>6 DEF Settle
<1>8. /\ table \in Tables /\ version \in Nat /\ place \in Places /\ setting \in {1, 2}
      /\ DOMAIN cache = Entries[table] /\ floor \in [Entries[table] -> Nat]
  BY ClientAssumption DEF ClientInv, ClientTyped, ClientCache
<1>9. c \in AllCalls /\ table \in Writes(c) /\ call.wrote \in Nat /\ call.wrote <= version
  <2>0. GoesOn
    BY DEF Settle
  <2>1. call # NoCall
    BY <2>0 DEF GoesOn, NoCall
  <2> QED BY <1>1, <2>1 DEF ClientInv, ClientCall, Calling
<1>10. c.opens = "" \/ c.opens \in Places
  <2>1. PICK p \in Places : c \in Screens[p].calls
    BY <1>9 DEF AllCalls
  <2> QED BY <2>1, CallsRefresh
<1>11. \A e \in due : e \notin gone => e[1] \in c.refresh
  <2> SUFFICES ASSUME NEW e \in due, e \notin gone
               PROVE  e[1] \in c.refresh
    OBVIOUS
  <2>1. e \in Concerned(c)
    BY <1>4
  <2>2. e \in Entries[table] /\ (e[1] \in c.refresh \/ (c.opens # "" /\ e[1] \in Details))
    BY <1>8, <1>9, <2>1, ConcernedRefreshed
  <2> QED BY <1>3, <1>8, <2>2 DEF Details
<1>12. \A e \in Entries[table] : floor'[e] \in Nat /\ floor'[e] <= version
  <2>1. \A e \in Entries[table] : floor[e] \in Nat /\ floor[e] <= version
    BY DEF ClientInv, ClientCache
  <2>2. ASSUME NEW e \in Entries[table]
        PROVE  floor'[e] \in {0, call.wrote, floor[e]}
    BY <1>7, <1>8, <2>2
  <2>3. ASSUME NEW e \in Entries[table]
        PROVE  floor'[e] \in Nat /\ floor'[e] <= version
    BY <1>8, <1>9, <2>1, <2>2
  <2> QED BY <2>3
\* What the refresh leaves of an entry.
<1>13. ASSUME NEW e \in Entries[table]
       PROVE  /\ Sound(inv[e], floor'[e], version)
              /\ c.opens = "" /\ e \in onScreen => Current(inv[e], floor'[e])
  <2>1. Sound(cache[e], floor[e], version) /\ (e \in onScreen => Current(cache[e], floor[e]))
    BY <1>2 DEF ClientInv, ClientCache
  <2>2. floor[e] \in Nat /\ e \in DOMAIN cache
    BY <1>8
  <2>3. CASE e \in gone
    <3>1. inv[e] = Empty /\ floor'[e] = 0
      BY <1>6, <1>7, <1>8, <2>3
    <3>2. c.opens # ""
      BY <1>3, <2>3
    <3>3. Empty \in Cached /\ Empty.seen = -1 /\ Empty.got = 0 /\ Empty.fetch = "idle"
      BY DEF Empty, Cached
    <3>4. Sound(Empty, 0, version)
      BY <1>8, <3>3 DEF Sound
    <3> QED BY <3>1, <3>2, <3>4
  <2>4. CASE e \notin gone
    <3>1. inv[e] = kept[e]
      BY <1>6, <2>2, <2>4
    <3>2. PICK keys : keys = c.refresh
      OBVIOUS
    <3>3. kept = Invalidate(cache, keys, onScreen)
      BY <1>5, <3>2
    <3>4. /\ Sound(kept[e], floor[e], version)
          /\ Current(cache[e], floor[e]) => Current(kept[e], floor[e])
          /\ e[1] \in keys /\ cache[e].seen >= 0 /\ (e \in onScreen \/ cache[e].fetch = "idle") =>
               \A m \in Nat : m <= version =>
                 Sound(kept[e], m, version) /\ (e \in onScreen => Current(kept[e], m))
      BY <1>8, <2>1, <2>2, <3>3, InvalidateSound
    <3>5. CASE e \in due
      <4>1. e[1] \in keys /\ cache[e].seen >= 0 /\ (e \in onScreen \/ cache[e].fetch = "idle")
        BY <1>4, <1>11, <2>4, <3>2, <3>5
      <4> QED BY <1>12, <3>1, <3>4, <4>1
    <3>6. CASE e \notin due
      <4>1. floor'[e] = floor[e]
        BY <1>7, <1>8, <2>4, <3>6
      <4> QED BY <2>1, <3>1, <3>4, <4>1
    <3> QED BY <3>5, <3>6
  <2> QED BY <2>3, <2>4
<1>14. DOMAIN inv = Entries[table]
  BY <1>6, <1>8
<1>15. ClientCache'
  <2>1. CASE c.opens = ""
    <3>1. UNCHANGED <<place, setting>> /\ cache' = inv
      BY <1>7, <2>1
    <3>2. Shown(place, setting)' = onScreen
      BY <1>2, <1>7, <3>1 DEF Shown
    <3> QED BY <1>7, <1>8, <1>12, <1>13, <1>14, <2>1, <3>1, <3>2 DEF ClientCache
  <2>2. CASE c.opens # ""
    <3>1. PICK es : es = Shown(c.opens, 1)
      OBVIOUS
    <3>2. place' = c.opens /\ setting' = 1 /\ cache' = Observe(inv, es)
      BY <1>7, <2>2, <3>1
    <3>3. Shown(place, setting)' = es
      BY <1>7, <3>1, <3>2 DEF Shown
    <3>4. DOMAIN cache' = Entries[table]
      BY <1>14, <3>2 DEF Observe
    <3>5. ASSUME NEW e \in Entries[table]
          PROVE  /\ Sound(cache'[e], floor'[e], version)
                 /\ e \in es => Current(cache'[e], floor'[e])
      BY <1>8, <1>12, <1>13, <1>14, <3>2, ObserveSound
    <3> QED BY <1>7, <1>8, <1>12, <3>3, <3>4, <3>5 DEF ClientCache
  <2> QED BY <2>1, <2>2
<1>16. ClientTyped'
  BY <1>7, <1>8, <1>10 DEF ClientInv, ClientTyped
<1> QED BY <1>7, <1>15, <1>16 DEF ClientInv, ClientCall

\* The call under way, at each of its steps.
LEMMA CallKept ==
  ASSUME ClientInv, Serve \/ LoseAnswer \/ NextPost \/ GiveUp
  PROVE  /\ ClientCall' /\ version' \in 0..MaxWrites /\ version <= version'
         /\ UNCHANGED <<table, turns, place, setting, cache, floor>>
<1>1. version \in 0..MaxWrites /\ MaxWrites \in Nat
  BY ClientAssumption DEF ClientInv, ClientTyped
<1>2. call.pc \in {"sent", "refused", "accepted"} =>
        call \in Calling /\ call.wrote <= version /\ table \in Writes(call.of)
  BY DEF ClientInv, ClientCall, NoCall
<1>3. CASE Serve
  <2>1. call \in Calling /\ call.wrote <= version /\ table \in Writes(call.of)
    BY <1>2, <1>3 DEF Serve
  <2>2. UNCHANGED <<table, turns, place, setting, cache, floor>>
    BY <1>3 DEF Serve
  <2>3. \/ call' = [call EXCEPT !.pc = "refused"] /\ UNCHANGED version
        \/ /\ version < MaxWrites /\ version' = version + 1
           /\ call' = [call EXCEPT !.pc = "accepted", !.wrote = version + 1]
        \/ call' = [call EXCEPT !.pc = "accepted"] /\ UNCHANGED version
    BY <1>3 DEF Serve
  <2>4. CASE call' = [call EXCEPT !.pc = "refused"] /\ UNCHANGED version
    BY <1>1, <2>1, <2>2, <2>4 DEF ClientCall, Calling
  <2>5. CASE /\ version < MaxWrites /\ version' = version + 1
             /\ call' = [call EXCEPT !.pc = "accepted", !.wrote = version + 1]
    <3>1. PICK w \in Nat : w = version + 1
      BY <1>1
    <3>2. call' = [pc |-> "accepted", of |-> call.of, post |-> call.post, wrote |-> w]
      BY <2>1, <2>5, <3>1 DEF Calling
    <3>3. call' \in Calling /\ call'.wrote = w /\ call'.of = call.of
      BY <2>1, <3>1, <3>2 DEF Calling
    <3> QED BY <1>1, <2>1, <2>2, <2>5, <3>1, <3>3 DEF ClientCall, Writes
  <2>6. CASE call' = [call EXCEPT !.pc = "accepted"] /\ UNCHANGED version
    BY <1>1, <2>1, <2>2, <2>6 DEF ClientCall, Calling
  <2> QED BY <2>3, <2>4, <2>5, <2>6
<1>4. CASE LoseAnswer
  <2>1. /\ call \in Calling /\ call.wrote <= version /\ table \in Writes(call.of)
        /\ UNCHANGED <<table, version, turns, place, setting, cache, floor>>
    BY <1>2, <1>4 DEF LoseAnswer
  <2>2. call.of \in AllCalls /\ call.post \in Nat
    BY <2>1 DEF Calling
  <2>3. call' = [pc |-> "refused", of |-> call.of, post |-> call.post, wrote |-> 0]
    BY <1>4, <2>1 DEF LoseAnswer, Calling
  <2>4. call' \in Calling /\ call'.wrote = 0 /\ call'.of = call.of
    BY <2>2, <2>3 DEF Calling
  <2> QED BY <1>1, <2>1, <2>4 DEF ClientCall, Writes
<1>5. CASE NextPost
  <2>1. /\ call \in Calling /\ call.wrote <= version /\ table \in Writes(call.of)
        /\ UNCHANGED <<table, version, turns, place, setting, cache, floor>>
    BY <1>2, <1>5 DEF NextPost, GoesOn
  <2>2. call.of \in AllCalls /\ call.post + 1 \in Nat /\ call.wrote \in Nat
    BY <2>1 DEF Calling
  <2>3. call' = [pc |-> "sent", of |-> call.of, post |-> call.post + 1, wrote |-> call.wrote]
    BY <1>5, <2>1 DEF NextPost, Calling
  <2>4. call' \in Calling /\ call'.wrote = call.wrote /\ call'.of = call.of
    BY <2>2, <2>3 DEF Calling
  <2> QED BY <1>1, <2>1, <2>4 DEF ClientCall, Writes
<1>6. CASE GiveUp
  BY <1>1, <1>6 DEF GiveUp, ClientCall
<1> QED BY <1>3, <1>4, <1>5, <1>6

\* Every step of the user, the cache, the call and others keeps the invariant.
LEMMA ClientInvNext == ClientInv /\ [ClientNext]_clientVars => ClientInv'
<1> SUFFICES ASSUME ClientInv, [ClientNext]_clientVars
             PROVE  ClientInv'
  OBVIOUS
<1>1. /\ version \in 0..MaxWrites /\ turns \in 0..MaxTurns[table] /\ place \in Places /\ setting \in {1, 2}
      /\ MaxWrites \in Nat /\ MaxTurns[table] \in Nat /\ table \in Tracked /\ table \in Tables
  BY ClientAssumption DEF ClientInv, ClientTyped
<1>2. UNCHANGED <<table, call>> /\ version' = version => ClientCall'
  BY DEF ClientInv, ClientCall
<1>3. ASSUME NEW p \in Pages[table], Open(p)
      PROVE  ClientInv'
  <2>1. p \in Places
    BY <1>1 DEF Pages, Writers, Places
  <2>2. ClientCache'
    BY <1>3, <2>1, TurnKept DEF Open
  <2>3. ClientTyped'
    BY <1>1, <1>3, <2>1 DEF Open, ClientTyped
  <2> QED BY <1>2, <1>3, <2>2, <2>3 DEF Open, ClientInv
<1>4. CASE ApplyFilter
  <2>1. 3 - setting \in {1, 2}
    BY <1>1
  <2>2. ClientCache'
    BY <1>1, <1>4, <2>1, TurnKept DEF ApplyFilter
  <2>3. ClientTyped'
    BY <1>1, <1>4, <2>1 DEF ApplyFilter, ClientTyped
  <2> QED BY <1>2, <1>4, <2>2, <2>3 DEF ApplyFilter, ClientInv
<1>5. CASE Focus
  <2>1. ClientCache'
    BY <1>1, <1>5, TurnKept DEF Focus
  <2>2. ClientTyped'
    BY <1>1, <1>5 DEF Focus, ClientTyped
  <2> QED BY <1>2, <1>5, <2>1, <2>2 DEF Focus, ClientInv
<1>6. ASSUME NEW e \in DOMAIN cache, Expire(e) \/ Read(e) \/ Land(e) \/ Fail(e)
      PROVE  ClientInv'
  <2>1. UNCHANGED <<table, version, turns, place, setting, call, floor>>
    BY <1>6 DEF Expire, Read, Land, Fail
  <2>2. /\ Sound(cache[e], floor[e], version) /\ floor[e] \in Nat /\ floor[e] <= version
        /\ e \in Shown(place, setting) => Current(cache[e], floor[e])
    BY DEF ClientInv, ClientCache
  <2>3. cache[e] \in Cached
    BY <2>2 DEF Sound
  <2>4. CASE Expire(e)
    <3>1. PICK k : k = [cache[e] EXCEPT !.fresh = FALSE]
      OBVIOUS
    <3>2. cache' = [cache EXCEPT ![e] = k] /\ cache[e].fresh
      BY <2>4, <3>1 DEF Expire
    <3>3. /\ k \in Cached /\ k.seen = cache[e].seen /\ k.got = cache[e].got
          /\ k.fetch = cache[e].fetch /\ k.error = cache[e].error /\ ~k.fresh
      BY <2>3, <3>1 DEF Cached
    <3>4. cache[e].seen >= 0 => cache[e].seen >= floor[e]
      BY <2>2, <2>3, <3>2 DEF Sound, Cached
    <3>5. Sound(k, floor[e], version) /\ Current(k, floor[e])
      BY <2>2, <3>3, <3>4 DEF Sound, Current
    <3>6. ClientCache'
      BY <2>1, <3>2, <3>5, EntryKept
    <3> QED BY <1>2, <2>1, <3>6 DEF ClientInv, ClientTyped
  <2>5. CASE Read(e)
    <3>1. PICK k : k = [cache[e] EXCEPT !.fetch = "read", !.got = version]
      OBVIOUS
    <3>2. cache' = [cache EXCEPT ![e] = k]
      BY <2>5, <3>1 DEF Read
    <3>3. k = [seen |-> cache[e].seen, fresh |-> cache[e].fresh, error |-> cache[e].error,
               fetch |-> "read", got |-> version]
      BY <2>3, <3>1 DEF Cached
    <3>4. /\ k \in Cached /\ k.seen = cache[e].seen /\ k.got = version
          /\ k.fetch = "read" /\ k.fresh = cache[e].fresh
      BY <1>1, <2>3, <3>3 DEF Cached
    <3>5. Sound(k, floor[e], version) /\ Current(k, floor[e])
      BY <1>1, <2>2, <3>4 DEF Sound, Current
    <3>6. ClientCache'
      BY <2>1, <3>2, <3>5, EntryKept
    <3> QED BY <1>2, <2>1, <3>6 DEF ClientInv, ClientTyped
  <2>6. CASE Land(e)
    <3>1. PICK k : k = [Empty EXCEPT !.seen = cache[e].got, !.fresh = (e[1] # "stock-overview")]
      OBVIOUS
    <3>2. cache' = [cache EXCEPT ![e] = k] /\ cache[e].fetch = "read"
      BY <2>6, <3>1 DEF Land
    <3>3. k = [seen |-> cache[e].got, fresh |-> (e[1] # "stock-overview"), error |-> FALSE,
               fetch |-> "idle", got |-> 0]
      BY <3>1 DEF Empty
    <3>4. k \in Cached /\ k.seen = cache[e].got /\ k.got = 0 /\ k.fetch = "idle"
      BY <2>3, <3>3 DEF Cached
    <3>5. cache[e].got >= floor[e] /\ cache[e].got <= version /\ cache[e].got \in Nat
      BY <2>2, <2>3, <3>2 DEF Sound, Cached
    <3>6. Sound(k, floor[e], version) /\ Current(k, floor[e])
      BY <1>1, <2>2, <3>4, <3>5 DEF Sound, Current
    <3>7. ClientCache'
      BY <2>1, <3>2, <3>6, EntryKept
    <3> QED BY <1>2, <2>1, <3>7 DEF ClientInv, ClientTyped
  <2>7. CASE Fail(e)
    <3>1. PICK k : k = [cache[e] EXCEPT !.fetch = "idle", !.got = 0, !.error = TRUE]
      OBVIOUS
    <3>2. cache' = [cache EXCEPT ![e] = k]
      BY <2>7, <3>1 DEF Fail
    <3>3. k = [seen |-> cache[e].seen, fresh |-> cache[e].fresh, error |-> TRUE,
               fetch |-> "idle", got |-> 0]
      BY <2>3, <3>1 DEF Cached
    <3>4. /\ k \in Cached /\ k.seen = cache[e].seen /\ k.got = 0
          /\ k.fetch = "idle" /\ k.error /\ k.fresh = cache[e].fresh
      BY <2>3, <3>3 DEF Cached
    <3>5. Sound(k, floor[e], version) /\ Current(k, floor[e])
      BY <1>1, <2>2, <3>4 DEF Sound, Current
    <3>6. ClientCache'
      BY <2>1, <3>2, <3>5, EntryKept
    <3> QED BY <1>2, <2>1, <3>6 DEF ClientInv, ClientTyped
  <2> QED BY <1>6, <2>4, <2>5, <2>6, <2>7
<1>7. ASSUME NEW c \in Screens[place].calls, Submit(c)
      PROVE  ClientInv'
  <2>1. /\ call' = [pc |-> "sent", of |-> c, post |-> 1, wrote |-> 0] /\ table \in Writes(c)
        /\ UNCHANGED <<table, version, turns, place, setting, cache, floor>>
    BY <1>7 DEF Submit
  <2>2. call' \in Calling /\ call'.wrote = 0 /\ call'.of = c
    BY <1>1, <2>1 DEF Calling, AllCalls
  <2>3. ClientCall'
    BY <1>1, <2>1, <2>2 DEF ClientCall, Writes
  <2>4. ClientCache'
    BY <1>1, <2>1, VersionKept
  <2> QED BY <2>1, <2>3, <2>4 DEF ClientInv, ClientTyped
<1>8. CASE Serve \/ LoseAnswer \/ NextPost \/ GiveUp
  <2>1. /\ ClientCall' /\ version' \in 0..MaxWrites /\ version <= version'
        /\ UNCHANGED <<table, turns, place, setting, cache, floor>>
    BY <1>8, CallKept
  <2>2. ClientCache'
    BY <1>1, <2>1, VersionKept
  <2> QED BY <1>1, <2>1, <2>2 DEF ClientInv, ClientTyped
<1>9. CASE Settle
  BY <1>9, SettleKept
<1>10. CASE WriteElsewhere
  <2>1. /\ version < MaxWrites /\ version' = version + 1
        /\ UNCHANGED <<table, turns, place, setting, cache, call, floor>>
    BY <1>10 DEF WriteElsewhere
  <2>2. ClientCache'
    BY <1>1, <2>1, VersionKept
  <2>3. ClientCall'
    BY <1>1, <2>1 DEF ClientInv, ClientCall, Calling
  <2> QED BY <1>1, <2>1, <2>2, <2>3 DEF ClientInv, ClientTyped
<1>11. CASE UNCHANGED clientVars
  <2>1. UNCHANGED <<table, version, turns, place, setting, cache, call, floor>>
    BY <1>11 DEF clientVars
  <2>2. ClientCache'
    BY <1>1, <2>1, VersionKept
  <2> QED BY <1>2, <2>1, <2>2 DEF ClientInv, ClientTyped
<1> QED BY <1>3, <1>4, <1>5, <1>6, <1>7, <1>8, <1>9, <1>10, <1>11 DEF ClientNext

\* Theorem: after a call succeeded, no page shows a list it showed before without what the
\* call wrote, whatever was cached or in flight; for every page, call and table there is.
THEOREM OwnWrites == ClientSpec => []OwnWritesShown
<1>1. ClientInv => OwnWritesShown
  <2> SUFFICES ASSUME ClientInv, NEW e \in Shown(place, setting)
               PROVE  Current(cache[e], floor[e])
    BY DEF OwnWritesShown, Current
  <2>1. e \in Entries[table]
    BY ClientAssumption, ShownEntries DEF ClientInv, ClientTyped
  <2> QED BY <2>1 DEF ClientInv, ClientCache
<1> QED BY <1>1, ClientInvInit, ClientInvNext, PTL DEF ClientSpec

-----------------------------------------------------------------------------
(* All parts beside each other. *)

\* A behaviour of the application is a behaviour of each of its parts.
LEMMA PartsBeside ==
  ApplicationSpec => /\ ReportsSpec /\ DeskSpec /\ RecordsSpec
                     /\ TimelineSpec /\ SessionSpec /\ ClientSpec
<1>1. ApplicationInit => /\ ReportsInit /\ DeskInit /\ RecordsInit
                         /\ TimelineInit /\ SessionInit /\ ClientInit
  BY DEF ApplicationInit
<1>2. [ApplicationNext]_applicationVars =>
        /\ [ReportsNext]_reportVars /\ [DeskNext]_deskVars /\ [RecordsNext]_recordVars
        /\ [TimelineNext]_timelineVars /\ [SessionNext]_sessionVars /\ [ClientNext]_clientVars
  BY DEF ApplicationNext, applicationVars
<1> QED BY <1>1, <1>2, PTL DEF ApplicationSpec, ReportsSpec, DeskSpec, RecordsSpec, TimelineSpec,
                               SessionSpec, ClientSpec

\* Theorem: in the application as a whole, what is shown of the database is what it holds:
\* the closing stock of a report, a request's counters and buttons, its comments, files and
\* timeline, and what a page of a tab shows after the tab wrote; and a logout is heard in
\* every tab.
THEOREM ShownTruly ==
  ApplicationSpec => [](/\ ClosingIsReal /\ OfferedIsAccepted /\ PendingIsActionable
                        /\ FilesBehindRows /\ ShownOnce /\ LogoutReachesEveryTab /\ OwnWritesShown)
  BY PartsBeside, ClosingCorrect, OfferedAccepted, PendingActionable, AttachmentsWhole,
     TimelineShowsOnce, LogoutHeard, OwnWrites, PTL

\* Theorem: every table, page and cache keeps its shape, in the application as a whole.
THEOREM ApplicationTyped == ApplicationSpec => []ApplicationTypeOK
<1>1. DeskSpec => []DeskTypeOK
  <2>1. DeskInv => DeskTypeOK
    BY DEF DeskInv
  <2> QED BY <2>1, DeskInvInit, DeskInvNext, PTL DEF DeskSpec
<1>2. TimelineSpec => []TimelineTypeOK
  <2>1. TimelineInv => TimelineTypeOK
    BY DEF TimelineInv, TimelineServer
  <2> QED BY <2>1, TimelineInvInit, TimelineInvNext, PTL DEF TimelineSpec
<1>3. SessionSpec => []SessionTypeOK
  <2>1. SessionInv => SessionTypeOK
    BY DEF SessionInv
  <2> QED BY <2>1, SessionInvInit, SessionInvNext, PTL DEF SessionSpec
<1>4. ClientSpec => []ClientTypeOK
  <2>1. ClientInv => ClientTypeOK
    <3> SUFFICES ASSUME ClientInv PROVE ClientTypeOK
      OBVIOUS
    <3>1. ClientTyped /\ DOMAIN cache = Entries[table] /\ version \in Nat
      BY ClientAssumption DEF ClientInv, ClientTyped, ClientCache
    <3>2. ASSUME NEW e \in DOMAIN cache
          PROVE  /\ cache[e].seen \in -1..version /\ cache[e].fetch \in {"idle", "asked", "read"}
                 /\ floor[e] \in 0..version
      <4>1. /\ floor[e] \in Nat /\ floor[e] <= version
            /\ cache[e] \in Cached /\ cache[e].seen <= version
        BY <3>1 DEF ClientInv, ClientCache, Sound
      <4> QED BY <3>1, <4>1 DEF Cached
    <3> QED BY <3>1, <3>2 DEF ClientTypeOK, ClientTyped
  <2> QED BY <2>1, ClientInvInit, ClientInvNext, PTL DEF ClientSpec
<1>5. ReportsTypeOK /\ DeskTypeOK /\ RecordsTypeOK /\ TimelineTypeOK /\ SessionTypeOK /\ ClientTypeOK
        => ApplicationTypeOK
  BY DEF ApplicationTypeOK
<1> QED BY <1>1, <1>2, <1>3, <1>4, <1>5, PartsBeside, ReportsTyped, RecordsTyped, PTL
=============================================================================
