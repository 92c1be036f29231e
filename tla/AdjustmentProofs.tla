--------------------------- MODULE AdjustmentProofs ---------------------------
(***************************************************************************)
(* Proofs about the adjustment workflow: the shape of its tables, the       *)
(* balances and ledgers a finalization leaves, and what the claims on the    *)
(* status keep.                                                             *)
(***************************************************************************)
EXTENDS AdjustmentWorkflow, StockProofs

Balances   == [Rows -> Int]
Ledgers(S) == [Rows -> Seq(Entry(S))]

-----------------------------------------------------------------------------
(* The lines of a request, applied in order. *)

\* The values of f are the start and what the first n of m steps make of it.
Repeats(f, m, start, step) == f[0] = start /\ \A n \in 1..m : f[n] = step[<<n, f[n-1]>>]

\* One step after another from a start: the values after each step exist.
LEMMA StepsExist ==
  ASSUME NEW m \in Nat, NEW S, NEW start \in S, NEW step \in [(1..m) \X S -> S]
  PROVE  \E f \in [0..m -> S] : Repeats(f, m, start, step)
<1> DEFINE Follows(f, n) == \A k \in 0..n : f[k] \in S /\ f[k] = IF k = 0 THEN start ELSE step[<<k, f[k-1]>>]
           N == {n \in Nat : n <= m => \E f \in [0..m -> S] : Follows(f, n)}
<1>1. 0 \in N
  <2>1. Follows([k \in 0..m |-> start], 0)
    OBVIOUS
  <2> QED BY <2>1
<1>2. ASSUME NEW n \in N PROVE n + 1 \in N
  <2> SUFFICES ASSUME n + 1 <= m PROVE \E f \in [0..m -> S] : Follows(f, n + 1)
    OBVIOUS
  <2>1. PICK f \in [0..m -> S] : Follows(f, n)
    OBVIOUS
  <2> DEFINE g == [f EXCEPT ![n+1] = step[<<n + 1, f[n]>>]]
  <2>2. f[n] \in S /\ <<n + 1, f[n]>> \in (1..m) \X S
    OBVIOUS
  <2>3. g \in [0..m -> S]
    BY <2>2
  <2>4. \A k \in 0..n : g[k] = f[k] /\ k - 1 # n + 1
    OBVIOUS
  <2>5. g[n+1] = step[<<n + 1, f[n]>>] /\ step[<<n + 1, f[n]>>] \in S /\ g[n] = f[n]
    BY <2>2
  <2>6. ASSUME NEW k \in 0..(n + 1)
        PROVE  g[k] \in S /\ g[k] = IF k = 0 THEN start ELSE step[<<k, g[k-1]>>]
    <3>1. CASE k = n + 1
      <4>1. k # 0 /\ k - 1 = n
        BY <3>1
      <4> HIDE DEF g
      <4> QED BY <2>5, <3>1, <4>1
    <3>2. CASE k # n + 1
      <4>1. k \in 0..n /\ (k # 0 => k - 1 \in 0..n)
        BY <3>2
      <4>2. g[k] = f[k] /\ (k # 0 => g[k-1] = f[k-1])
        BY <2>4, <4>1
      <4> HIDE DEF g
      <4> QED BY <2>1, <4>1, <4>2
    <3> QED BY <3>1, <3>2
  <2>7. Follows(g, n + 1)
    BY <2>6
  <2> QED BY <2>3, <2>7
<1>3. N = Nat
  <2>1. N \in SUBSET Nat
    OBVIOUS
  <2> HIDE DEF N
  <2> QED BY <1>1, <1>2, <2>1, NatSetInduction
<1>4. PICK f \in [0..m -> S] : Follows(f, m)
  <2>1. m \in N
    BY <1>3
  <2> QED BY <2>1
<1>5. f[0] = start /\ \A n \in 1..m : f[n] = step[<<n, f[n-1]>>]
  <2>1. 0 \in 0..m /\ \A n \in 1..m : n \in 0..m /\ n # 0
    OBVIOUS
  <2> QED BY <1>4, <2>1
<1> QED BY <1>5 DEF Repeats

\* The balances after each line: those of the rows, changed by one line at a time.
LEMMA OnHandSteps ==
  ASSUME onHand \in Balances, NEW ls \in Seq(Line)
  PROVE  /\ OnHandAfter(ls)[0] = onHand
         /\ \A n \in 1..Len(ls) :
              /\ OnHandAfter(ls)[n-1] \in Balances
              /\ OnHandAfter(ls)[n] =
                   [OnHandAfter(ls)[n-1] EXCEPT ![ls[n].row] = @ + ls[n].change]
         /\ \A n \in 0..Len(ls) : OnHandAfter(ls)[n] \in Balances
<1> DEFINE m == Len(ls)
           step == [x \in (1..m) \X Balances |-> [x[2] EXCEPT ![ls[x[1]].row] = @ + ls[x[1]].change]]
           Is(f) == f = [n \in 0..m |-> IF n = 0 THEN onHand
                                        ELSE [f[n-1] EXCEPT ![ls[n].row] = @ + ls[n].change]]
<1>1. m \in Nat /\ \A n \in 1..m : ls[n] \in Line /\ ls[n].row \in Rows /\ ls[n].change \in Int
  <2>1. m \in Nat /\ \A n \in 1..m : ls[n] \in Line
    OBVIOUS
  <2>2. Changes \subseteq Int
    BY StockAssumption DEF Changes
  <2> HIDE DEF m
  <2> QED BY <2>1, <2>2 DEF Line
<1>2. step \in [(1..m) \X Balances -> Balances]
  BY <1>1 DEF Balances
<1>3. PICK f \in [0..m -> Balances] :
        f[0] = onHand /\ \A n \in 1..m : f[n] = step[<<n, f[n-1]>>]
  <2>1. m \in Nat /\ onHand \in Balances
    BY <1>1
  <2> HIDE DEF m, step
  <2>2. \E f \in [0..m -> Balances] : Repeats(f, m, onHand, step)
    BY <1>2, <2>1, StepsExist
  <2> QED BY <2>2 DEF Repeats
<1>5. \A n \in 0..m : f[n] \in Balances
  BY <1>1, <1>3
<1>6. Is(f)
  <2>1. \A n \in 1..m : step[<<n, f[n-1]>>] = [f[n-1] EXCEPT ![ls[n].row] = @ + ls[n].change]
    <3> TAKE n \in 1..m
    <3>1. f[n-1] \in Balances
      BY <1>1, <1>5
    <3>2. <<n, f[n-1]>> \in (1..m) \X Balances
      BY <3>1
    <3> QED BY <3>2
  <2>2. \A n \in 0..m : n # 0 => n \in 1..m
    BY <1>1
  <2> HIDE DEF step, m
  <2>3. f = [n \in 0..m |-> f[n]]
    BY <1>3
  <2>4. \A n \in 0..m : f[n] = IF n = 0 THEN onHand ELSE [f[n-1] EXCEPT ![ls[n].row] = @ + ls[n].change]
    BY <1>3, <2>1, <2>2
  <2> QED BY <2>3, <2>4
<1>7. OnHandAfter(ls) = CHOOSE g : Is(g)
  BY DEF OnHandAfter
<1>8. Is(OnHandAfter(ls))
  <2> HIDE DEF Is
  <2> QED BY <1>6, <1>7
<1> DEFINE g == OnHandAfter(ls)
<1>9. g[0] = onHand /\ \A n \in 1..m : g[n] = [g[n-1] EXCEPT ![ls[n].row] = @ + ls[n].change]
  <2> HIDE DEF g, m
  <2>1. Is(g)
    BY <1>8 DEF g
  <2>2. 0 \in 0..m /\ \A n \in 1..m : n \in 0..m /\ n # 0
    BY <1>1
  <2> QED BY <2>1, <2>2
<1> DEFINE M == {n \in Nat : n <= m => g[n] \in Balances}
<1>10. M = Nat
  <2> HIDE DEF g, m
  <2>1. 0 \in M
    BY <1>9
  <2>2. ASSUME NEW n \in M PROVE n + 1 \in M
    <3> SUFFICES ASSUME n + 1 <= m PROVE g[n + 1] \in Balances
      OBVIOUS
    <3>1. n + 1 \in 1..m /\ (n + 1) - 1 = n /\ g[n] \in Balances
      BY <1>1
    <3>2. g[n + 1] = [g[n] EXCEPT ![ls[n+1].row] = @ + ls[n+1].change]
      BY <1>9, <3>1
    <3>3. ls[n+1].row \in Rows /\ ls[n+1].change \in Int
      BY <1>1, <3>1
    <3>4. g[n][ls[n+1].row] + ls[n+1].change \in Int
      BY <3>1, <3>3 DEF Balances
    <3> QED BY <3>1, <3>2, <3>4 DEF Balances
  <2>3. M \in SUBSET Nat
    OBVIOUS
  <2> HIDE DEF M
  <2> QED BY <2>1, <2>2, <2>3, NatSetInduction
<1>11. \A n \in 0..m : g[n] \in Balances
  BY <1>1, <1>10
<1>12. \A n \in 1..m : g[n-1] \in Balances
  BY <1>1, <1>11
<1> HIDE DEF g
<1> QED BY <1>9, <1>11, <1>12 DEF g

\* The entry of a line is one of the ledger's.
LEMMA EntryOfLine ==
  ASSUME NEW S, Adjustments \subseteq S,
         onHand \in Balances, NEW ls \in Seq(Line), NEW k \in 1..Len(ls), NEW a \in Adjustments
  PROVE  /\ ls[k] \in Line /\ ls[k].row \in Rows /\ ls[k].change \in Int
         /\ EntryOf(ls, k, a) \in Entry(S)
         /\ EntryOf(ls, k, a).source = a
<1>1. Len(ls) \in Nat /\ ls[k] \in Line
  OBVIOUS
<1>2. Changes \subseteq Int
  BY StockAssumption DEF Changes
<1>3. ls[k].row \in Rows /\ ls[k].change \in Int
  BY <1>1, <1>2 DEF Line
<1>4. OnHandAfter(ls)[k] \in Balances
  BY <1>1, OnHandSteps
<1>5. OnHandAfter(ls)[k][ls[k].row] \in Int
  BY <1>3, <1>4 DEF Balances
<1> QED BY <1>1, <1>3, <1>5 DEF EntryOf, Entry, EntryKinds

\* The ledgers after each line: those of the rows, longer by one entry at a time.
LEMMA LedgerSteps ==
  ASSUME NEW S, Adjustments \subseteq S,
         onHand \in Balances, ledger \in Ledgers(S), NEW ls \in Seq(Line), NEW a \in Adjustments
  PROVE  /\ LedgerAfter(ls, a)[0] = ledger
         /\ \A n \in 1..Len(ls) :
              /\ LedgerAfter(ls, a)[n-1] \in Ledgers(S)
              /\ LedgerAfter(ls, a)[n] =
                   [LedgerAfter(ls, a)[n-1] EXCEPT ![ls[n].row] = Append(@, EntryOf(ls, n, a))]
         /\ \A n \in 0..Len(ls) : LedgerAfter(ls, a)[n] \in Ledgers(S)
<1> DEFINE m == Len(ls)
           step == [x \in (1..m) \X Ledgers(S) |->
                      [x[2] EXCEPT ![ls[x[1]].row] = Append(@, EntryOf(ls, x[1], a))]]
           Is(f) == f = [n \in 0..m |-> IF n = 0 THEN ledger
                                        ELSE [f[n-1] EXCEPT ![ls[n].row] = Append(@, EntryOf(ls, n, a))]]
<1>1. m \in Nat /\ \A n \in 1..m : ls[n].row \in Rows /\ EntryOf(ls, n, a) \in Entry(S)
  <2>1. m \in Nat
    OBVIOUS
  <2>2. ASSUME NEW n \in 1..Len(ls) PROVE ls[n].row \in Rows /\ EntryOf(ls, n, a) \in Entry(S)
    BY EntryOfLine
  <2> QED BY <2>1, <2>2
<1>2. step \in [(1..m) \X Ledgers(S) -> Ledgers(S)]
  <2>1. \A n \in 1..m, g \in Ledgers(S) :
          [g EXCEPT ![ls[n].row] = Append(@, EntryOf(ls, n, a))] \in Ledgers(S)
    <3> TAKE n \in 1..m, g \in Ledgers(S)
    <3>1. g[ls[n].row] \in Seq(Entry(S))
      BY <1>1 DEF Ledgers
    <3>2. Append(g[ls[n].row], EntryOf(ls, n, a)) \in Seq(Entry(S))
      BY <1>1, <3>1, AppendEntry
    <3> QED BY <3>2 DEF Ledgers
  <2> HIDE DEF m
  <2> QED BY <2>1
<1>3. PICK f \in [0..m -> Ledgers(S)] :
        f[0] = ledger /\ \A n \in 1..m : f[n] = step[<<n, f[n-1]>>]
  <2>1. m \in Nat /\ ledger \in Ledgers(S)
    BY <1>1
  <2> HIDE DEF m, step
  <2>2. \E f \in [0..m -> Ledgers(S)] : Repeats(f, m, ledger, step)
    BY <1>2, <2>1, StepsExist
  <2> QED BY <2>2 DEF Repeats
<1>5. \A n \in 0..m : f[n] \in Ledgers(S)
  BY <1>1, <1>3
<1>6. Is(f)
  <2>1. \A n \in 1..m :
          step[<<n, f[n-1]>>] = [f[n-1] EXCEPT ![ls[n].row] = Append(@, EntryOf(ls, n, a))]
    <3> TAKE n \in 1..m
    <3>1. f[n-1] \in Ledgers(S)
      BY <1>1, <1>5
    <3>2. <<n, f[n-1]>> \in (1..m) \X Ledgers(S)
      BY <3>1
    <3> QED BY <3>2
  <2>2. \A n \in 0..m : n # 0 => n \in 1..m
    BY <1>1
  <2> HIDE DEF step, m
  <2>3. f = [n \in 0..m |-> f[n]]
    BY <1>3
  <2>4. \A n \in 0..m : f[n] = IF n = 0 THEN ledger
                              ELSE [f[n-1] EXCEPT ![ls[n].row] = Append(@, EntryOf(ls, n, a))]
    BY <1>3, <2>1, <2>2
  <2> QED BY <2>3, <2>4
<1>7. LedgerAfter(ls, a) = CHOOSE g : Is(g)
  BY DEF LedgerAfter
<1>8. Is(LedgerAfter(ls, a))
  <2> HIDE DEF Is
  <2> QED BY <1>6, <1>7
<1> DEFINE g == LedgerAfter(ls, a)
<1>9. /\ g[0] = ledger
      /\ \A n \in 1..m : g[n] = [g[n-1] EXCEPT ![ls[n].row] = Append(@, EntryOf(ls, n, a))]
  <2> HIDE DEF g, m
  <2>1. Is(g)
    BY <1>8 DEF g
  <2>2. 0 \in 0..m /\ \A n \in 1..m : n \in 0..m /\ n # 0
    BY <1>1
  <2> QED BY <2>1, <2>2
<1> DEFINE M == {n \in Nat : n <= m => g[n] \in Ledgers(S)}
<1>10. M = Nat
  <2> HIDE DEF g, m
  <2>1. 0 \in M
    BY <1>9
  <2>2. ASSUME NEW n \in M PROVE n + 1 \in M
    <3> SUFFICES ASSUME n + 1 <= m PROVE g[n + 1] \in Ledgers(S)
      OBVIOUS
    <3>1. n + 1 \in 1..m /\ (n + 1) - 1 = n /\ g[n] \in Ledgers(S)
      BY <1>1
    <3>2. g[n + 1] = [g[n] EXCEPT ![ls[n+1].row] = Append(@, EntryOf(ls, n + 1, a))]
      BY <1>9, <3>1
    <3>3. Append(g[n][ls[n+1].row], EntryOf(ls, n + 1, a)) \in Seq(Entry(S))
      BY <1>1, <3>1, AppendEntry DEF Ledgers
    <3> QED BY <3>1, <3>2, <3>3 DEF Ledgers
  <2>3. M \in SUBSET Nat
    OBVIOUS
  <2> HIDE DEF M
  <2> QED BY <2>1, <2>2, <2>3, NatSetInduction
<1>11. \A n \in 0..m : g[n] \in Ledgers(S)
  BY <1>1, <1>10
<1>12. \A n \in 1..m : g[n-1] \in Ledgers(S)
  BY <1>1, <1>11
<1> HIDE DEF g
<1> QED BY <1>9, <1>11, <1>12 DEF g

\* Every line is tested against what is reserved, so that a row stays above any
\* floor that is no higher: what is reserved itself, or zero.
LEMMA LinesKeepFloor ==
  ASSUME onHand \in Balances, reservedQty \in Balances, NEW floor \in Balances,
         \A r \in Rows : floor[r] <= reservedQty[r] /\ floor[r] <= onHand[r],
         NEW ls \in Seq(Line), CanApply(ls)
  PROVE  \A r \in Rows : floor[r] <= OnHandAfter(ls)[Len(ls)][r]
<1> DEFINE m == Len(ls)
           g == OnHandAfter(ls)
           Kept(n) == \A r \in Rows : floor[r] <= g[n][r]
           N == {n \in Nat : n <= m => Kept(n)}
<1>1. m \in Nat /\ \A n \in 1..m : n \in DOMAIN ls /\ ls[n].row \in Rows /\ ls[n].change \in Int
  <2>1. m \in Nat /\ \A n \in 1..m : n \in DOMAIN ls /\ ls[n] \in Line
    OBVIOUS
  <2>2. Changes \subseteq Int
    BY StockAssumption DEF Changes
  <2> HIDE DEF m
  <2> QED BY <2>1, <2>2 DEF Line
<1>2. /\ g[0] = onHand
      /\ \A n \in 1..m : /\ g[n-1] \in Balances
                         /\ g[n] = [g[n-1] EXCEPT ![ls[n].row] = @ + ls[n].change]
      /\ \A n \in 0..m : g[n] \in Balances
  BY OnHandSteps
<1>3. \A n \in 1..m : ls[n].change < 0 => g[n-1][ls[n].row] - reservedQty[ls[n].row] + ls[n].change >= 0
  BY <1>1 DEF CanApply
<1> HIDE DEF g, m
<1>4. 0 \in N
  BY <1>2
<1>5. ASSUME NEW n \in N PROVE n + 1 \in N
  <2> SUFFICES ASSUME n + 1 <= m PROVE Kept(n + 1)
    OBVIOUS
  <2>1. n + 1 \in 1..m /\ (n + 1) - 1 = n /\ Kept(n)
    BY <1>1
  <2> DEFINE q == ls[n+1].row
             x == ls[n+1].change
  <2>2. q \in Rows /\ x \in Int /\ g[n] \in Balances /\ g[n+1] = [g[n] EXCEPT ![q] = @ + x]
    BY <1>1, <1>2, <2>1
  <2>3. x < 0 => g[n][q] - reservedQty[q] + x >= 0
    BY <1>3, <2>1
  <2> HIDE DEF q, x
  <2>4. ASSUME NEW r \in Rows PROVE floor[r] <= g[n+1][r]
    <3>1. /\ floor[r] \in Int /\ reservedQty[r] \in Int /\ g[n][r] \in Int
          /\ floor[r] <= g[n][r] /\ floor[r] <= reservedQty[r]
      BY <2>1, <2>2 DEF Balances
    <3>2. CASE r = q
      BY <2>2, <2>3, <3>1, <3>2 DEF Balances
    <3>3. CASE r # q
      BY <2>2, <3>1, <3>3 DEF Balances
    <3> QED BY <3>2, <3>3
  <2> QED BY <2>4
<1>6. N = Nat
  <2>1. N \in SUBSET Nat
    OBVIOUS
  <2> HIDE DEF N
  <2> QED BY <1>4, <1>5, <2>1, NatSetInduction
<1>7. Kept(m)
  BY <1>1, <1>6
<1> QED BY <1>7 DEF g, m

\* The ledgers after each line explain the balances after it.
LEMMA LinesKeepChains ==
  ASSUME NEW S, Adjustments \subseteq S,
         onHand \in Balances, ledger \in Ledgers(S), LedgerExplainsBalance,
         NEW ls \in Seq(Line), NEW a \in Adjustments
  PROVE  \A r \in Rows : Chained(r, LedgerAfter(ls, a)[Len(ls)][r], OnHandAfter(ls)[Len(ls)][r])
<1> DEFINE m == Len(ls)
           g == OnHandAfter(ls)
           h == LedgerAfter(ls, a)
           Explained(n) == \A r \in Rows : Chained(r, h[n][r], g[n][r])
           N == {n \in Nat : n <= m => Explained(n)}
<1>1. /\ m \in Nat
      /\ \A n \in 1..m : /\ ls[n].row \in Rows /\ ls[n].change \in Int
                         /\ EntryOf(ls, n, a) \in Entry(S)
  BY EntryOfLine
<1>2. /\ g[0] = onHand /\ h[0] = ledger
      /\ \A n \in 1..m : /\ g[n] = [g[n-1] EXCEPT ![ls[n].row] = @ + ls[n].change]
                         /\ h[n] = [h[n-1] EXCEPT ![ls[n].row] = Append(@, EntryOf(ls, n, a))]
      /\ \A n \in 0..m : g[n] \in Balances /\ h[n] \in Ledgers(S)
  BY OnHandSteps, LedgerSteps
<1>3. \A n \in 1..m : EntryOf(ls, n, a).change = ls[n].change /\ EntryOf(ls, n, a).after = g[n][ls[n].row]
  BY DEF EntryOf
<1> HIDE DEF g, h, m
<1>4. 0 \in N
  BY <1>2 DEF LedgerExplainsBalance
<1>5. ASSUME NEW n \in N PROVE n + 1 \in N
  <2> SUFFICES ASSUME n + 1 <= m PROVE Explained(n + 1)
    OBVIOUS
  <2>1. n + 1 \in 1..m /\ (n + 1) - 1 = n /\ n \in 0..m /\ Explained(n)
    BY <1>1
  <2> DEFINE q == ls[n+1].row
             x == ls[n+1].change
             e == EntryOf(ls, n + 1, a)
  <2>2. /\ q \in Rows /\ x \in Int /\ e \in Entry(S)
        /\ g[n] \in Balances /\ g[n+1] = [g[n] EXCEPT ![q] = @ + x]
        /\ h[n] \in Ledgers(S) /\ h[n+1] = [h[n] EXCEPT ![q] = Append(@, e)]
        /\ e.change = x /\ e.after = g[n+1][q]
    BY <1>1, <1>2, <1>3, <2>1
  <2> HIDE DEF q, x, e
  <2>3. ASSUME NEW r \in Rows PROVE Chained(r, h[n+1][r], g[n+1][r])
    <3>1. g[n][r] \in Int /\ h[n][r] \in Seq(Entry(S)) /\ Chained(r, h[n][r], g[n][r])
      BY <2>1, <2>2 DEF Balances, Ledgers
    <3>2. CASE r = q
      <4>1. h[n+1][r] = Append(h[n][r], e) /\ g[n+1][r] = g[n][r] + x
        BY <2>2, <3>2 DEF Balances, Ledgers
      <4>2. e.after = g[n][r] + e.change
        BY <2>2, <3>2, <4>1
      <4>3. Chained(r, Append(h[n][r], e), e.after)
        BY <2>2, <3>1, <4>2, AppendKeepsChain
      <4> QED BY <2>2, <3>2, <4>1, <4>3
    <3>3. CASE r # q
      <4>1. h[n+1][r] = h[n][r] /\ g[n+1][r] = g[n][r]
        BY <2>2, <3>3 DEF Balances, Ledgers
      <4> QED BY <3>1, <4>1
    <3> QED BY <3>2, <3>3
  <2> QED BY <2>3
<1>6. N = Nat
  <2>1. N \in SUBSET Nat
    OBVIOUS
  <2> HIDE DEF N
  <2> QED BY <1>4, <1>5, <2>1, NatSetInduction
<1>7. Explained(m)
  BY <1>1, <1>6
<1> QED BY <1>7 DEF g, h, m

\* The first n lines of ls on row r, by their numbers.
LinesOn(ls, n, r) == {k \in 1..n : ls[k].row = r}

\* s is the ledger old with entries of request a after it.
Extends(s, old, a) ==
  /\ Len(old) \in Nat /\ Len(s) \in Nat /\ Len(old) <= Len(s)
  /\ DOMAIN old = 1..Len(old) /\ DOMAIN s = 1..Len(s)
  /\ \A k \in 1..Len(old) : s[k] = old[k]
  /\ \A k \in (Len(old) + 1)..Len(s) : s[k].source = a

\* Each line adds one entry of the request to its row, and nothing else.
LEMMA LinesAddEntries ==
  ASSUME NEW S, Adjustments \subseteq S,
         onHand \in Balances, ledger \in Ledgers(S), NEW ls \in Seq(Line), NEW a \in Adjustments
  PROVE  \A r \in Rows :
           /\ Extends(LedgerAfter(ls, a)[Len(ls)][r], ledger[r], a)
           /\ Cardinality(LinesOn(ls, Len(ls), r)) = Len(LedgerAfter(ls, a)[Len(ls)][r]) - Len(ledger[r])
<1> DEFINE m == Len(ls)
           h == LedgerAfter(ls, a)
           Added(n) == \A r \in Rows :
             Extends(h[n][r], ledger[r], a) /\ Cardinality(LinesOn(ls, n, r)) = Len(h[n][r]) - Len(ledger[r])
           N == {n \in Nat : n <= m => Added(n)}
<1>1. /\ m \in Nat
      /\ \A n \in 1..m : /\ ls[n].row \in Rows
                         /\ EntryOf(ls, n, a) \in Entry(S) /\ EntryOf(ls, n, a).source = a
  <2>1. m \in Nat
    OBVIOUS
  <2>2. \A n \in 1..m : /\ ls[n].row \in Rows
                        /\ EntryOf(ls, n, a) \in Entry(S) /\ EntryOf(ls, n, a).source = a
    BY EntryOfLine, Zenon
  <2> QED BY <2>1, <2>2
<1>2. /\ h[0] = ledger
      /\ \A n \in 1..m : h[n] = [h[n-1] EXCEPT ![ls[n].row] = Append(@, EntryOf(ls, n, a))]
      /\ \A n \in 0..m : h[n] \in Ledgers(S)
  BY LedgerSteps
<1> HIDE DEF h, m
<1>3. Added(0)
  <2> SUFFICES ASSUME NEW r \in Rows
               PROVE  /\ Extends(h[0][r], ledger[r], a)
                      /\ Cardinality(LinesOn(ls, 0, r)) = Len(h[0][r]) - Len(ledger[r])
    OBVIOUS
  <2>1. ledger[r] \in Seq(Entry(S)) /\ h[0][r] = ledger[r]
    BY <1>2 DEF Ledgers
  <2>2. Len(ledger[r]) \in Nat /\ DOMAIN ledger[r] = 1..Len(ledger[r])
    BY <2>1
  <2>3. LinesOn(ls, 0, r) = {}
    BY DEF LinesOn
  <2>4. Cardinality(LinesOn(ls, 0, r)) = 0
    BY <2>3, FS_EmptySet
  <2> QED BY <2>1, <2>2, <2>4 DEF Extends
<1> HIDE DEF Added
<1>4. ASSUME NEW n \in N PROVE n + 1 \in N
  <2> SUFFICES ASSUME n + 1 <= m PROVE Added(n + 1)
    OBVIOUS
  <2>1. n \in Nat /\ n + 1 \in 1..m /\ (n + 1) - 1 = n /\ n \in 0..m /\ Added(n)
    BY <1>1
  <2> DEFINE q == ls[n+1].row
             e == EntryOf(ls, n + 1, a)
  <2>2. /\ q \in Rows /\ e \in Entry(S) /\ e.source = a
        /\ h[n] \in Ledgers(S) /\ h[n+1] = [h[n] EXCEPT ![q] = Append(@, e)]
    BY <1>1, <1>2, <2>1
  <2> HIDE DEF e
  <2> SUFFICES ASSUME NEW r \in Rows
               PROVE  /\ Extends(h[n+1][r], ledger[r], a)
                      /\ Cardinality(LinesOn(ls, n + 1, r)) = Len(h[n+1][r]) - Len(ledger[r])
    BY DEF Added
  <2>3. /\ h[n][r] \in Seq(Entry(S))
        /\ Extends(h[n][r], ledger[r], a)
        /\ Cardinality(LinesOn(ls, n, r)) = Len(h[n][r]) - Len(ledger[r])
    BY <2>1, <2>2 DEF Ledgers, Added
  <2>4. CASE r = q
    <3>1. h[n+1][r] = Append(h[n][r], e)
      BY <2>2, <2>4 DEF Ledgers
    <3>2. /\ Len(Append(h[n][r], e)) = Len(h[n][r]) + 1
          /\ DOMAIN Append(h[n][r], e) = 1..(Len(h[n][r]) + 1)
          /\ \A k \in 1..Len(h[n][r]) : Append(h[n][r], e)[k] = h[n][r][k]
          /\ Append(h[n][r], e)[Len(h[n][r]) + 1] = e
      BY <2>2, <2>3, AppendEntry
    <3>3. Extends(Append(h[n][r], e), ledger[r], a)
      BY <2>2, <2>3, <3>2 DEF Extends
    <3>4. LinesOn(ls, n + 1, r) = LinesOn(ls, n, r) \cup {n + 1} /\ n + 1 \notin LinesOn(ls, n, r)
      BY <2>1, <2>4 DEF LinesOn
    <3>5. IsFiniteSet(LinesOn(ls, n, r))
      <4>1. IsFiniteSet(1..n)
        BY <2>1, FS_Interval
      <4>2. LinesOn(ls, n, r) \in SUBSET (1..n)
        BY DEF LinesOn
      <4> QED BY <4>1, <4>2, FS_Subset
    <3>6. Cardinality(LinesOn(ls, n + 1, r)) = Cardinality(LinesOn(ls, n, r)) + 1
      BY <3>4, <3>5, FS_AddElement
    <3>7. Len(h[n][r]) \in Nat /\ Len(ledger[r]) \in Nat
      BY <2>3 DEF Extends
    <3> HIDE DEF q
    <3>8. Len(h[n+1][r]) = Len(h[n][r]) + 1
      BY <3>1, <3>2
    <3> DEFINE C == Cardinality(LinesOn(ls, n, r))
               D == Cardinality(LinesOn(ls, n + 1, r))
    <3>9. D = C + 1 /\ C = Len(h[n][r]) - Len(ledger[r])
      BY <2>3, <3>6
    <3> HIDE DEF C, D
    <3>10. D = Len(h[n+1][r]) - Len(ledger[r])
      BY <3>7, <3>8, <3>9
    <3> QED BY <3>1, <3>3, <3>10 DEF D
  <2>5. CASE r # q
    <3>1. h[n+1][r] = h[n][r]
      BY <2>2, <2>5 DEF Ledgers
    <3>2. LinesOn(ls, n + 1, r) = LinesOn(ls, n, r)
      BY <2>1, <2>5 DEF LinesOn
    <3> QED BY <2>3, <3>1, <3>2
  <2> QED BY <2>4, <2>5
<1>5. N = Nat
  <2>1. N \in SUBSET Nat /\ 0 \in N
    BY <1>3
  <2> HIDE DEF N
  <2> QED BY <1>4, <2>1, NatSetInduction
<1>6. m \in N
  BY <1>1, <1>5
<1>7. Added(m)
  BY <1>1, <1>6
<1> QED BY <1>7 DEF Added, h, m

-----------------------------------------------------------------------------
(* The requests and the calls in flight. *)

\* The part of ATypeOK that is about stock, for a ledger with entries of S, and
\* the part that is about requests and calls.
StockShape(S) == onHand \in Balances /\ reservedQty \in Balances /\ ledger \in Ledgers(S)

CallsShape ==
  /\ aStatus \in [Adjustments -> AStatuses]
  /\ aLines \in [Adjustments -> Seq(Line)]
  /\ caller \in [Callers -> {AIdle} \cup ACall]

\* The sources of the entries when the transfers are what the reservation service
\* does meanwhile.
ASources == Adjustments \cup OtherRequests

\* The two parts are the whole.
LEMMA ATypeIs == ATypeOK <=> StockShape(ASources) /\ CallsShape
BY DEF ATypeOK, StockShape, CallsShape, Balances, Ledgers, ASources

\* A call in flight is one of the calls.
LEMMA CallTyped ==
  ASSUME CallsShape, NEW c \in Callers, caller[c] # AIdle
  PROVE  /\ caller[c] \in ACall
         /\ caller[c].id \in Adjustments /\ caller[c].op \in AdjustOperations
         /\ caller[c].seen \in AOpen /\ caller[c].lines \in Seq(Line)
BY DEF CallsShape, ACall

\* A call that returns, whatever it did to the requests.
LEMMA Returned ==
  ASSUME CallsShape, NEW c \in Callers, AReturn(c),
         aStatus' \in [Adjustments -> AStatuses], aLines' \in [Adjustments -> Seq(Line)]
  PROVE  CallsShape'
BY DEF CallsShape, AReturn

\* A step of a call that writes a status and returns.
LEMMA StatusSet ==
  ASSUME CallsShape, NEW c \in Callers, caller[c] # AIdle, NEW to \in ALive, SetStatus(c, to)
  PROVE  CallsShape'
<1>1. to \in AStatuses
  BY DEF AStatuses
<1>2. aStatus' \in [Adjustments -> AStatuses] /\ aLines' = aLines /\ AReturn(c)
  BY <1>1 DEF SetStatus, CallsShape
<1> QED BY <1>2, Returned DEF CallsShape

\* The line that is not there any more leaves a sequence of lines.
LEMMA LineRemoved ==
  ASSUME NEW s \in Seq(Line), NEW k \in DOMAIN s
  PROVE  RemoveAt(s, k) \in Seq(Line)
<1>1. SubSeq(s, 1, k-1) \in Seq(Line) /\ SubSeq(s, k+1, Len(s)) \in Seq(Line)
  OBVIOUS
<1> QED BY <1>1 DEF RemoveAt

\* The line that is written over another leaves a sequence of lines.
LEMMA LineReplaced ==
  ASSUME NEW s \in Seq(Line), NEW k \in DOMAIN s, NEW line \in Line
  PROVE  [s EXCEPT ![k] = line] \in Seq(Line)
OBVIOUS

\* A request with other lines is a request.
LEMMA LinesSet ==
  ASSUME CallsShape, NEW a \in Adjustments, NEW s \in Seq(Line),
         aLines' = [aLines EXCEPT ![a] = s]
  PROVE  aLines' \in [Adjustments -> Seq(Line)]
BY DEF CallsShape

\* The operations on the lines keep the shape of the requests and the calls.
LEMMA EditShape ==
  ASSUME CallsShape, NEW c \in Callers, NEW k, NEW line \in Line,
         AddLine(c, line) \/ UpdateLine(c, k, line) \/ DeleteLine(c, k)
  PROVE  CallsShape'
<1> DEFINE a == caller[c].id
<1>1. caller[c] # AIdle /\ AReturn(c) /\ aStatus' = aStatus
  BY DEF AddLine, UpdateLine, DeleteLine, AAt, stockVars
<1>2. a \in Adjustments /\ aLines[a] \in Seq(Line)
  BY <1>1, CallTyped DEF CallsShape
<1> HIDE DEF a
<1>3. \E s \in Seq(Line) : aLines' = [aLines EXCEPT ![a] = s]
  <2>1. CASE AddLine(c, line)
    <3>1. Append(aLines[a], line) \in Seq(Line)
      BY <1>2
    <3>2. aLines' = [aLines EXCEPT ![a] = Append(aLines[a], line)]
      BY <2>1 DEF AddLine, a
    <3> QED BY <3>1, <3>2
  <2>2. CASE UpdateLine(c, k, line)
    <3>1. k \in DOMAIN aLines[a] /\ aLines' = [aLines EXCEPT ![a] = [aLines[a] EXCEPT ![k] = line]]
      BY <2>2 DEF UpdateLine, a
    <3> QED BY <1>2, <3>1, LineReplaced
  <2>3. CASE DeleteLine(c, k)
    <3>1. k \in DOMAIN aLines[a] /\ aLines' = [aLines EXCEPT ![a] = RemoveAt(aLines[a], k)]
      BY <2>3 DEF DeleteLine, a
    <3> QED BY <1>2, <3>1, LineRemoved
  <2> QED BY <2>1, <2>2, <2>3
<1>4. aLines' \in [Adjustments -> Seq(Line)]
  BY <1>2, <1>3, LinesSet
<1> QED BY <1>1, <1>4, Returned DEF CallsShape

\* So do the two steps of the deletion of a request.
LEMMA DeleteShape ==
  ASSUME CallsShape, NEW c \in Callers, DeleteAllLines(c) \/ DeleteAdjustment(c)
  PROVE  CallsShape'
<1>1. caller[c] # AIdle
  BY DEF DeleteAllLines, DeleteAdjustment, AAt
<1>2. caller[c] \in ACall /\ caller[c].id \in Adjustments
  BY <1>1, CallTyped
<1>3. CASE DeleteAllLines(c)
  <2>1. <<>> \in Seq(Line)
    OBVIOUS
  <2>2. aLines' \in [Adjustments -> Seq(Line)] /\ aStatus' = aStatus
    BY <1>2, <1>3, <2>1, LinesSet DEF DeleteAllLines
  <2>3. [caller[c] EXCEPT !.pc = "emptied"] \in ACall
    BY <1>2 DEF ACall
  <2>4. caller' = [caller EXCEPT ![c] = [caller[c] EXCEPT !.pc = "emptied"]]
    BY <1>3 DEF DeleteAllLines
  <2> QED BY <2>2, <2>3, <2>4 DEF CallsShape
<1>4. CASE DeleteAdjustment(c)
  <2>1. AReturn(c) /\ aLines' = aLines /\ aStatus' \in [Adjustments -> AStatuses]
    BY <1>4 DEF DeleteAdjustment, CallsShape, AStatuses
  <2> QED BY <2>1, Returned DEF CallsShape
<1> QED BY <1>3, <1>4

\* An operation reads a request in a status that is still open.
LEMMA RequiredIsOpen == \A op \in AdjustOperations : ARequires(op) \subseteq AOpen
BY DEF AdjustOperations, ARequires, AOpen

\* A call begins as one of the calls.
LEMMA BeginShape ==
  ASSUME CallsShape, NEW c \in Callers, NEW op \in AdjustCalls, NEW a \in Adjustments,
         BeginAdjustment(c, op, a)
  PROVE  CallsShape'
<1> DEFINE seenLines == IF op \in {"approve", "finalize"} THEN aLines[a] ELSE <<>>
           call == [op |-> op, pc |-> "read", id |-> a, seen |-> aStatus[a], lines |-> seenLines]
<1>1. op \in AdjustOperations /\ aStatus[a] \in AOpen
  BY AdjustmentAssumption, RequiredIsOpen DEF BeginAdjustment
<1>2. seenLines \in Seq(Line)
  <2>1. <<>> \in Seq(Line) /\ aLines[a] \in Seq(Line)
    BY DEF CallsShape
  <2> QED BY <2>1
<1>3. call \in ACall
  BY <1>1, <1>2 DEF ACall
<1>4. caller' = [caller EXCEPT ![c] = call] /\ aStatus' = aStatus /\ aLines' = aLines
  BY DEF BeginAdjustment
<1> HIDE DEF call
<1> QED BY <1>3, <1>4 DEF CallsShape

\* Every other step of a call.
LEMMA ProgressShape ==
  ASSUME CallsShape, NEW c \in Callers, AProgress(c) \/ AbortAdjustment(c)
  PROVE  CallsShape'
<1>1. ASSUME NEW line \in Line, AddLine(c, line) PROVE CallsShape'
  BY <1>1, EditShape
<1>2. ASSUME NEW k \in 1..MaxLines, NEW line \in Line, UpdateLine(c, k, line) PROVE CallsShape'
  BY <1>2, EditShape
<1>3. ASSUME NEW k \in 1..MaxLines, DeleteLine(c, k) PROVE CallsShape'
  <2>1. CASE Line = {}
    <3>1. caller[c] # AIdle /\ caller[c].id \in Adjustments
      BY <1>3, CallTyped DEF DeleteLine, AAt
    <3>2. aLines[caller[c].id] \in Seq(Line) /\ k \in DOMAIN aLines[caller[c].id]
      BY <1>3, <3>1 DEF DeleteLine, CallsShape
    <3>3. aLines[caller[c].id][k] \in Line
      BY <3>2
    <3> QED BY <2>1, <3>3
  <2>2. CASE \E line : line \in Line
    BY <1>3, <2>2, EditShape
  <2> QED BY <2>1, <2>2
<1>4. CASE DeleteAllLines(c) \/ DeleteAdjustment(c)
  BY <1>4, DeleteShape
<1>5. ASSUME NEW to \in ALive, caller[c] # AIdle, SetStatus(c, to) PROVE CallsShape'
  BY <1>5, StatusSet
<1>6. "SUBMITTED" \in ALive /\ "APPROVED" \in ALive /\ "REJECTED" \in ALive /\ "CANCELLED" \in ALive
  BY DEF ALive, AOpen, ATerminal
<1>7. CASE SubmitAdjustment(c) \/ ApproveAdjustment(c) \/ RejectAdjustment(c) \/ CancelAdjustment(c)
  BY <1>5, <1>6, <1>7
     DEF SubmitAdjustment, ApproveAdjustment, RejectAdjustment, CancelAdjustment, ClaimStatus, AAt
<1>8. CASE Preflight(c)
  <2>1. caller[c] \in ACall
    BY <1>8, CallTyped DEF Preflight, AAt
  <2>2. [caller[c] EXCEPT !.pc = "checked"] \in ACall
    BY <2>1 DEF ACall
  <2>3. /\ caller' = [caller EXCEPT ![c] = [caller[c] EXCEPT !.pc = "checked"]]
        /\ aStatus' = aStatus /\ aLines' = aLines
    BY <1>8 DEF Preflight
  <2> QED BY <2>2, <2>3 DEF CallsShape
<1>9. CASE FinalizeAdjustment(c)
  <2>1. AReturn(c) /\ aLines' = aLines /\ aStatus' \in [Adjustments -> AStatuses]
    BY <1>9 DEF FinalizeAdjustment, CallsShape, AStatuses, ALive, ATerminal
  <2> QED BY <2>1, Returned DEF CallsShape
<1>10. CASE RefuseAdjustment(c) \/ AbortAdjustment(c)
  <2>1. AReturn(c) /\ aLines' = aLines /\ aStatus' = aStatus
    BY <1>10 DEF RefuseAdjustment, AbortAdjustment
  <2> QED BY <2>1, Returned DEF CallsShape
<1> QED BY <1>1, <1>2, <1>3, <1>4, <1>7, <1>8, <1>9, <1>10 DEF AProgress

\* The shape of the requests and the calls is kept.
LEMMA CallsShapeStep == CallsShape /\ [ANext]_avars => CallsShape'
<1> SUFFICES ASSUME CallsShape, [ANext]_avars PROVE CallsShape'
  OBVIOUS
<1>1. ASSUME NEW a \in Adjustments, CreateAdjustment(a) PROVE CallsShape'
  BY <1>1 DEF CreateAdjustment, CallsShape, AStatuses, ALive, AOpen
<1>2. ASSUME NEW c \in Callers, NEW op \in AdjustCalls, NEW a \in Adjustments,
             BeginAdjustment(c, op, a)
      PROVE  CallsShape'
  BY <1>2, BeginShape
<1>3. ASSUME NEW c \in Callers, AProgress(c) \/ AbortAdjustment(c) PROVE CallsShape'
  BY <1>3, ProgressShape
<1>4. CASE UNCHANGED avars
  BY <1>4 DEF avars, CallsShape
<1> QED BY <1>1, <1>2, <1>3, <1>4 DEF ANext

-----------------------------------------------------------------------------
(* The balances and ledgers. *)

\* The only step of the workflow that touches the stock is a finalization.
LEMMA OnlyFinalizeMoves ==
  ASSUME [ANext]_avars
  PROVE  UNCHANGED stockVars \/ \E c \in Callers : FinalizeAdjustment(c)
<1>1. ASSUME NEW c \in Callers, AProgress(c) \/ AbortAdjustment(c)
      PROVE  UNCHANGED stockVars \/ FinalizeAdjustment(c)
  BY <1>1 DEF AProgress, AddLine, UpdateLine, DeleteLine, DeleteAllLines, DeleteAdjustment,
     SubmitAdjustment, Preflight, ApproveAdjustment, RejectAdjustment, CancelAdjustment,
     ClaimStatus, SetStatus, RefuseAdjustment, AbortAdjustment
<1>2. ASSUME NEW a \in Adjustments, CreateAdjustment(a) PROVE UNCHANGED stockVars
  BY <1>2 DEF CreateAdjustment
<1>3. ASSUME NEW c \in Callers, NEW op \in AdjustCalls, NEW a \in Adjustments,
             BeginAdjustment(c, op, a)
      PROVE  UNCHANGED stockVars
  BY <1>3 DEF BeginAdjustment
<1>4. CASE UNCHANGED avars
  BY <1>4 DEF avars, stockVars
<1> QED BY <1>1, <1>2, <1>3, <1>4 DEF ANext

\* What a finalization does, of a call of the right shape.
LEMMA FinalizeApplies ==
  ASSUME CallsShape, NEW c \in Callers, FinalizeAdjustment(c)
  PROVE  /\ caller[c].id \in Adjustments /\ caller[c].lines \in Seq(Line)
         /\ CanApply(caller[c].lines)
         /\ onHand' = OnHandAfter(caller[c].lines)[Len(caller[c].lines)]
         /\ ledger' = LedgerAfter(caller[c].lines, caller[c].id)[Len(caller[c].lines)]
         /\ reservedQty' = reservedQty
         /\ Len(caller[c].lines) \in Nat
<1>1. caller[c] # AIdle
  BY DEF FinalizeAdjustment, AAt
<1>2. caller[c].id \in Adjustments /\ caller[c].lines \in Seq(Line)
  BY <1>1, CallTyped
<1>3. Len(caller[c].lines) \in Nat
  BY <1>2
<1> QED BY <1>2, <1>3 DEF FinalizeAdjustment

\* A step of the adjustment workflow keeps the shape of the stock, the account of
\* the ledger and the reservations, whatever else has entries in the ledger; and
\* it takes no row below a floor that what is reserved does not undercut.
LEMMA StockStep ==
  ASSUME NEW S, Adjustments \subseteq S, StockShape(S), LedgerExplainsBalance,
         CallsShape, [ANext]_avars
  PROVE  /\ StockShape(S)' /\ LedgerExplainsBalance' /\ reservedQty' = reservedQty
         /\ \A floor \in Balances :
              (\A r \in Rows : floor[r] <= reservedQty[r] /\ floor[r] <= onHand[r])
                => \A r \in Rows : floor[r] <= onHand'[r]
<1>1. CASE UNCHANGED stockVars
  <2>1. onHand' = onHand /\ reservedQty' = reservedQty /\ ledger' = ledger
    BY <1>1 DEF stockVars
  <2> QED BY <2>1 DEF StockShape, LedgerExplainsBalance, Chained, BalanceBefore, Balances, Ledgers
<1>2. ASSUME NEW c \in Callers, FinalizeAdjustment(c)
      PROVE  /\ StockShape(S)' /\ LedgerExplainsBalance' /\ reservedQty' = reservedQty
             /\ \A floor \in Balances :
                  (\A r \in Rows : floor[r] <= reservedQty[r] /\ floor[r] <= onHand[r])
                    => \A r \in Rows : floor[r] <= onHand'[r]
  <2> DEFINE ls == caller[c].lines
             a == caller[c].id
             n == Len(ls)
  <2>1. /\ a \in Adjustments /\ ls \in Seq(Line) /\ CanApply(ls) /\ n \in Nat
        /\ onHand' = OnHandAfter(ls)[n] /\ ledger' = LedgerAfter(ls, a)[n]
        /\ reservedQty' = reservedQty
    BY <1>2, FinalizeApplies
  <2> HIDE DEF ls, a
  <2>2. onHand \in Balances /\ reservedQty \in Balances /\ ledger \in Ledgers(S)
    BY DEF StockShape
  <2>3. n \in 0..n
    BY <2>1
  <2>4. OnHandAfter(ls)[n] \in Balances
    BY <2>1, <2>2, <2>3, OnHandSteps
  <2>5. LedgerAfter(ls, a)[n] \in Ledgers(S)
    BY <2>1, <2>2, <2>3, LedgerSteps
  <2>6. ASSUME NEW floor \in Balances,
               \A r \in Rows : floor[r] <= reservedQty[r] /\ floor[r] <= onHand[r]
        PROVE  \A r \in Rows : floor[r] <= onHand'[r]
    BY <2>1, <2>2, <2>6, LinesKeepFloor
  <2>7. \A r \in Rows : Chained(r, ledger'[r], onHand'[r])
    BY <2>1, <2>2, LinesKeepChains
  <2>8. StockShape(S)'
    BY <2>1, <2>2, <2>4, <2>5 DEF StockShape, Balances, Ledgers
  <2>9. LedgerExplainsBalance'
    BY <2>7 DEF LedgerExplainsBalance, Chained, BalanceBefore
  <2> QED BY <2>1, <2>6, <2>8, <2>9
<1> QED BY <1>1, <1>2, OnlyFinalizeMoves

\* A row that a finalization lowers keeps what is reserved of it: the floor that is
\* the lower of what is reserved and what is on hand stays.
LEMMA LoweredKeepsReserved ==
  ASSUME NEW S, Adjustments \subseteq S, StockShape(S), LedgerExplainsBalance, CallsShape,
         [ANext]_avars, NEW r \in Rows, onHand'[r] < onHand[r]
  PROVE  reservedQty'[r] <= onHand'[r]
<1> DEFINE floor == [x \in Rows |-> IF reservedQty[x] <= onHand[x] THEN reservedQty[x] ELSE onHand[x]]
<1>1. onHand \in Balances /\ reservedQty \in Balances
  BY DEF StockShape
<1>2. /\ floor \in Balances
      /\ \A x \in Rows : floor[x] <= reservedQty[x] /\ floor[x] <= onHand[x]
  BY <1>1 DEF Balances
<1>3. floor[r] = IF reservedQty[r] <= onHand[r] THEN reservedQty[r] ELSE onHand[r]
  OBVIOUS
<1> HIDE DEF floor
<1>4. floor[r] <= onHand'[r] /\ reservedQty' = reservedQty /\ onHand' \in Balances
  BY <1>2, StockStep DEF StockShape, Balances
<1> QED BY <1>1, <1>3, <1>4 DEF Balances

\* And no row goes below zero that was not there.
LEMMA NonNegativeStep ==
  ASSUME NEW S, Adjustments \subseteq S, StockShape(S), LedgerExplainsBalance, CallsShape,
         [ANext]_avars, OnHandNonNegative, \A r \in Rows : reservedQty[r] >= 0
  PROVE  OnHandNonNegative'
<1> DEFINE zero == [r \in Rows |-> 0]
<1>1. zero \in Balances /\ \A r \in Rows : zero[r] = 0
  BY DEF Balances
<1>2. \A r \in Rows : reservedQty[r] \in Int /\ onHand[r] \in Int
  BY DEF StockShape, Balances
<1>3. \A r \in Rows : zero[r] <= reservedQty[r] /\ zero[r] <= onHand[r]
  BY <1>1, <1>2 DEF OnHandNonNegative
<1> HIDE DEF zero
<1>4. (\A r \in Rows : zero[r] <= onHand'[r]) /\ onHand' \in Balances
  BY <1>1, <1>3, StockStep DEF StockShape, Balances
<1> QED BY <1>1, <1>4 DEF OnHandNonNegative, Balances

\* The invariant of the workflow: neither what is on hand nor what is reserved of
\* a row is ever negative, although more may be reserved than is on hand.
AdjustmentInv ==
  /\ StockShape(ASources)
  /\ CallsShape
  /\ LedgerExplainsBalance
  /\ OnHandNonNegative
  /\ \A r \in Rows : reservedQty[r] >= 0

\* The tables start empty, and the ledgers at the opening balances.
LEMMA AdjustmentInvInit == AdjustmentInit => AdjustmentInv
<1> SUFFICES ASSUME AdjustmentInit PROVE AdjustmentInv
  OBVIOUS
<1>1. onHand = Opening /\ reservedQty = [r \in Rows |-> 0] /\ ledger = [r \in Rows |-> <<>>]
  BY DEF AdjustmentInit, StockInit
<1>2. \A r \in Rows : Opening[r] \in Nat
  BY StockAssumption
<1>3. ATypeOK
  BY <1>1, StockAssumption DEF AdjustmentInit, AInit, ATypeOK, AStatuses
<1>4. LedgerExplainsBalance
  <2> SUFFICES ASSUME NEW r \in Rows PROVE Chained(r, <<>>, Opening[r])
    BY <1>1 DEF LedgerExplainsBalance
  <2> QED BY DEF Chained, BalanceBefore
<1>5. OnHandNonNegative /\ \A r \in Rows : reservedQty[r] >= 0
  BY <1>1, <1>2 DEF OnHandNonNegative
<1> QED BY <1>3, <1>4, <1>5, ATypeIs DEF AdjustmentInv

\* A change of what is reserved of one row, and of nothing else.
LEMMA HoldKeeps ==
  ASSUME AdjustmentInv, NEW r \in Rows, NEW q \in Int, Hold(OneRow(r, q)),
         reservedQty[r] + q >= 0
  PROVE  reservedQty' \in Balances /\ \A x \in Rows : reservedQty'[x] >= 0
<1>1. reservedQty \in Balances /\ \A x \in Rows : reservedQty[x] >= 0
  BY DEF AdjustmentInv, StockShape
<1>2. \A x \in Rows : reservedQty'[x] = IF x = r THEN reservedQty[x] + q ELSE reservedQty[x] + 0
  BY DEF Hold, OneRow
<1> QED BY <1>1, <1>2 DEF Hold, OneRow, Balances

\* A transfer that is consumed posts to two rows, and leaves the entries of the
\* adjustments what they are.
LEMMA ConsumptionPosts ==
  ASSUME AdjustmentInv, NEW r \in Rows, NEW to \in Rows, NEW q \in 1..MaxHeld,
         NEW s \in OtherRequests, TransferConsumes(r, to, q, s)
  PROVE  /\ StockShape(ASources)' /\ LedgerExplainsBalance' /\ OnHandNonNegative'
         /\ \A x \in Rows : reservedQty'[x] >= 0
         /\ \A a \in Adjustments, x \in Rows : Posted(a, x)' = Posted(a, x)
<1> DEFINE delta == [x \in Rows |-> IF x = r THEN -q ELSE IF x = to THEN q ELSE 0]
           kind == [x \in Rows |-> IF x = r THEN "TRANSFER_OUT" ELSE "TRANSFER_IN"]
<1>1. /\ q \in Nat /\ q <= reservedQty[r] /\ q <= onHand[r] /\ r # to
      /\ Hold(OneRow(r, -q)) /\ Post(delta, kind, s)
  BY AdjustmentAssumption DEF TransferConsumes
<1>2. /\ onHand \in [Rows -> Int] /\ ledger \in [Rows -> Seq(Entry(ASources))]
      /\ reservedQty \in Balances /\ LedgerExplainsBalance /\ OnHandNonNegative
  BY DEF AdjustmentInv, StockShape, Balances, Ledgers
<1>3. delta \in [Rows -> Int] /\ kind \in [Rows -> EntryKinds] /\ s \in ASources
  BY <1>1 DEF EntryKinds, ASources
<1>4. onHand' = [x \in Rows |-> onHand[x] + delta[x]]
  BY <1>1 DEF Post
<1>5. \A x \in Rows : delta[x] = IF x = r THEN -q ELSE IF x = to THEN q ELSE 0
  OBVIOUS
<1> HIDE DEF delta, kind
<1>6. onHand' \in [Rows -> Int] /\ ledger' \in [Rows -> Seq(Entry(ASources))] /\ LedgerExplainsBalance'
  BY <1>1, <1>2, <1>3, PostKeepsLedger
<1>7. OnHandNonNegative'
  <2> SUFFICES ASSUME NEW x \in Rows PROVE onHand'[x] >= 0
    BY DEF OnHandNonNegative
  <2>1. onHand[x] \in Int /\ onHand[x] >= 0 /\ onHand[r] \in Int
    BY <1>2 DEF OnHandNonNegative
  <2> QED BY <1>1, <1>4, <1>5, <2>1
<1>8. reservedQty[r] \in Int /\ reservedQty[r] + (-q) >= 0 /\ -q \in Int
  BY <1>1, <1>2 DEF Balances
<1>9. reservedQty' \in Balances /\ \A x \in Rows : reservedQty'[x] >= 0
  BY <1>1, <1>8, HoldKeeps
<1>10. ASSUME NEW a \in Adjustments, NEW x \in Rows PROVE Posted(a, x)' = Posted(a, x)
  <2> DEFINE e == [change |-> delta[x], after |-> onHand[x] + delta[x], kind |-> kind[x], source |-> s]
             old == ledger[x]
  <2>1. s # a
    BY AdjustmentAssumption
  <2>0. onHand[x] \in Int /\ delta[x] \in Int /\ kind[x] \in EntryKinds /\ ledger[x] \in Seq(Entry(ASources))
    BY <1>2, <1>3
  <2>2. old \in Seq(Entry(ASources)) /\ e \in Entry(ASources) /\ e.source = s
    BY <2>0, <1>3 DEF Entry
  <2>3. ledger'[x] = IF delta[x] = 0 THEN old ELSE Append(old, e)
    BY <1>1 DEF Post
  <2> HIDE DEF e, old
  <2>4. /\ DOMAIN old = 1..Len(old) /\ DOMAIN Append(old, e) = 1..(Len(old) + 1) /\ Len(old) \in Nat
        /\ \A k \in 1..Len(old) : Append(old, e)[k] = old[k]
        /\ Append(old, e)[Len(old) + 1] = e
    BY <2>2, AppendEntry
  <2>5. \A k : k \in 1..(Len(old) + 1) <=> k \in 1..Len(old) \/ k = Len(old) + 1
    BY <2>4
  <2>6. Posted(a, x) = {k \in DOMAIN old : old[k].source = a}
    BY DEF Posted, old
  <2>7. Posted(a, x)' = {k \in DOMAIN ledger'[x] : ledger'[x][k].source = a}
    BY DEF Posted
  <2> QED BY <2>1, <2>2, <2>3, <2>4, <2>5, <2>6, <2>7
<1> QED BY <1>6, <1>7, <1>9, <1>10 DEF StockShape, Balances, Ledgers

\* What the reservation service does meanwhile keeps the invariant, the requests
\* and the entries of the adjustments.
LEMMA TransferKeeps ==
  ASSUME AdjustmentInv, TransferElsewhere
  PROVE  /\ AdjustmentInv' /\ UNCHANGED adjustVars
         /\ \A a \in Adjustments, x \in Rows : Posted(a, x)' = Posted(a, x)
<1>1. PICK r \in Rows, q \in 1..MaxHeld :
        \/ TransferHolds(r, q) \/ TransferReleases(r, q)
        \/ \E to \in Rows, s \in OtherRequests : TransferConsumes(r, to, q, s)
  BY DEF TransferElsewhere
<1>2. UNCHANGED adjustVars
  BY <1>1 DEF TransferHolds, TransferReleases, TransferConsumes
<1>3. CallsShape'
  BY <1>2 DEF AdjustmentInv, CallsShape, adjustVars
<1>4. reservedQty[r] \in Int /\ reservedQty[r] >= 0 /\ q \in Nat
  BY AdjustmentAssumption DEF AdjustmentInv, StockShape, Balances
<1>5. CASE TransferHolds(r, q) \/ TransferReleases(r, q)
  <2>1. reservedQty' \in Balances /\ \A x \in Rows : reservedQty'[x] >= 0
    <3>1. CASE TransferHolds(r, q)
      BY <1>4, <3>1, HoldKeeps DEF TransferHolds
    <3>2. CASE TransferReleases(r, q)
      <4>1. Hold(OneRow(r, -q)) /\ -q \in Int /\ reservedQty[r] + (-q) >= 0
        BY <1>4, <3>2 DEF TransferReleases
      <4> QED BY <4>1, HoldKeeps
    <3> QED BY <1>5, <3>1, <3>2
  <2>2. onHand' = onHand /\ ledger' = ledger
    BY <1>5 DEF TransferHolds, TransferReleases
  <2>3. StockShape(ASources)'
    BY <2>1, <2>2 DEF AdjustmentInv, StockShape, Balances, Ledgers
  <2>4. LedgerExplainsBalance' /\ OnHandNonNegative'
    BY <2>2 DEF AdjustmentInv, LedgerExplainsBalance, Chained, BalanceBefore, OnHandNonNegative
  <2>5. \A a \in Adjustments, x \in Rows : Posted(a, x)' = Posted(a, x)
    BY <2>2 DEF Posted
  <2> QED BY <1>2, <1>3, <2>1, <2>3, <2>4, <2>5 DEF AdjustmentInv
<1>6. CASE \E to \in Rows, s \in OtherRequests : TransferConsumes(r, to, q, s)
  BY <1>2, <1>3, <1>6, ConsumptionPosts DEF AdjustmentInv
<1> QED BY <1>1, <1>5, <1>6

\* Every step keeps the invariant.
LEMMA AdjustmentInvNext == AdjustmentInv /\ [AdjustmentNext]_avars => AdjustmentInv'
<1> SUFFICES ASSUME AdjustmentInv, [AdjustmentNext]_avars PROVE AdjustmentInv'
  OBVIOUS
<1>1. CASE [ANext]_avars
  <2> Adjustments \subseteq ASources
    BY DEF ASources
  <2>1. StockShape(ASources)' /\ LedgerExplainsBalance' /\ reservedQty' = reservedQty
    BY <1>1, StockStep DEF AdjustmentInv
  <2>2. CallsShape'
    BY <1>1, CallsShapeStep DEF AdjustmentInv
  <2>3. OnHandNonNegative'
    BY <1>1, NonNegativeStep DEF AdjustmentInv
  <2> QED BY <2>1, <2>2, <2>3 DEF AdjustmentInv
<1>2. CASE TransferElsewhere
  BY <1>2, TransferKeeps
<1> QED BY <1>1, <1>2 DEF AdjustmentNext

\* The invariant holds of every state of the workflow.
LEMMA AdjustmentInvariant == AdjustmentSpec => []AdjustmentInv
<1>1. AdjustmentInit => AdjustmentInv
  BY AdjustmentInvInit
<1>2. AdjustmentInv /\ [AdjustmentNext]_avars => AdjustmentInv'
  BY AdjustmentInvNext
<1> QED BY <1>1, <1>2, PTL DEF AdjustmentSpec

\* The tables and the calls in flight keep their shape (ATypeOK) in every state
\* of the adjustment workflow, whatever calls race.
THEOREM AdjustmentTyped == AdjustmentSpec => []ATypeOK
<1>1. AdjustmentInv => ATypeOK
  BY ATypeIs DEF AdjustmentInv
<1> QED BY <1>1, AdjustmentInvariant, PTL

\* applyAdjustmentTx tests each line against the balance the lines before it left
\* and what is reserved of the row, so that whatever is finalized, and however
\* often, a row it lowers keeps what is reserved of it, although approvals may
\* have reserved more than there is (AdjustmentSparesReserved).
THEOREM ReservedSpared == AdjustmentSpec => AdjustmentSparesReserved
<1> DEFINE Step == \A r \in Rows :
             (aStatus' # aStatus /\ onHand'[r] < onHand[r]) => reservedQty'[r] <= onHand'[r]
<1>1. AdjustmentInv /\ [AdjustmentNext]_avars => [Step]_avars
  <2> SUFFICES ASSUME AdjustmentInv, [AdjustmentNext]_avars, aStatus' # aStatus,
                      NEW r \in Rows, onHand'[r] < onHand[r]
               PROVE  reservedQty'[r] <= onHand'[r]
    OBVIOUS
  <2>1. [ANext]_avars
    BY TransferKeeps DEF AdjustmentNext, adjustVars
  <2>2. Adjustments \subseteq ASources
    BY DEF ASources
  <2> QED BY <2>1, <2>2, LoweredKeepsReserved DEF AdjustmentInv
<1> QED BY <1>1, AdjustmentInvariant, PTL DEF AdjustmentSpec, AdjustmentSparesReserved

\* No balance is ever negative (OnHandNonNegative): adjustments keep every row above
\* what is reserved or where it was, and a consumption is tested on the locked row.
THEOREM AdjustedNonNegative == AdjustmentSpec => []OnHandNonNegative
<1>1. AdjustmentInv => OnHandNonNegative
  BY DEF AdjustmentInv
<1> QED BY <1>1, AdjustmentInvariant, PTL

\* The ledger of a row, line after line of every finalized request, accounts for
\* its balance (LedgerExplainsBalance).
THEOREM AdjustedLedger == AdjustmentSpec => []LedgerExplainsBalance
<1>1. AdjustmentInv => LedgerExplainsBalance
  BY DEF AdjustmentInv
<1> QED BY <1>1, AdjustmentInvariant, PTL

-----------------------------------------------------------------------------
(* Action properties. *)

\* A step that changes the status of a request is a creation, or a write of a
\* call that has the request.
LEMMA StatusWrites ==
  ASSUME CallsShape, [ANext]_avars, NEW a \in Adjustments, aStatus'[a] # aStatus[a]
  PROVE  \/ aStatus'[a] = "DRAFT"
         \/ \E c \in Callers :
              /\ caller[c] # AIdle /\ caller[c].id = a
              /\ \/ aStatus'[a] \in {"DELETED", "SUBMITTED", "APPROVED"}
                 \/ aStatus'[a] = "REJECTED" /\ aStatus[a] = "SUBMITTED"
                 \/ aStatus'[a] = "CANCELLED" /\ aStatus[a] = caller[c].seen
                 \/ aStatus'[a] = "FINALIZED" /\ aStatus[a] = "APPROVED"
<1>1. ASSUME NEW b \in Adjustments, CreateAdjustment(b) PROVE aStatus'[a] = "DRAFT"
  BY <1>1 DEF CreateAdjustment, CallsShape
<1>2. ASSUME NEW c \in Callers, NEW op \in AdjustCalls, NEW b \in Adjustments,
             BeginAdjustment(c, op, b)
      PROVE  FALSE
  BY <1>2 DEF BeginAdjustment
<1>3. ASSUME NEW c \in Callers, AProgress(c) \/ AbortAdjustment(c)
      PROVE  /\ caller[c] # AIdle /\ caller[c].id = a
             /\ \/ aStatus'[a] \in {"DELETED", "SUBMITTED", "APPROVED"}
                \/ aStatus'[a] = "REJECTED" /\ aStatus[a] = "SUBMITTED"
                \/ aStatus'[a] = "CANCELLED" /\ aStatus[a] = caller[c].seen
                \/ aStatus'[a] = "FINALIZED" /\ aStatus[a] = "APPROVED"
  <2>1. CASE DeleteAdjustment(c)
    BY <2>1 DEF DeleteAdjustment, AAt, CallsShape
  <2>2. CASE SubmitAdjustment(c) \/ ApproveAdjustment(c)
    BY <2>2 DEF SubmitAdjustment, ApproveAdjustment, SetStatus, AAt, CallsShape
  <2>3. CASE RejectAdjustment(c)
    BY <2>3 DEF RejectAdjustment, ClaimStatus, SetStatus, AAt, CallsShape
  <2>4. CASE CancelAdjustment(c)
    BY <2>4 DEF CancelAdjustment, ClaimStatus, SetStatus, AAt, CallsShape
  <2>5. CASE FinalizeAdjustment(c)
    BY <2>5 DEF FinalizeAdjustment, AAt, CallsShape
  <2> QED BY <1>3, <2>1, <2>2, <2>3, <2>4, <2>5
          DEF AProgress, AddLine, UpdateLine, DeleteLine, DeleteAllLines, Preflight,
              RefuseAdjustment, AbortAdjustment
<1>4. CASE UNCHANGED avars
  BY <1>4 DEF avars
<1> QED BY <1>1, <1>2, <1>3, <1>4 DEF ANext

\* No race rejects, cancels or finalizes a request in a status that does not
\* allow it (ClaimsRespectStatus), although submit and approve overwrite any
\* status: the three claims carry a condition, cancel's on the status it read.
THEOREM ClaimsRespected == AdjustmentSpec => ClaimsRespectStatus
<1> DEFINE Step == \A a \in Adjustments :
             /\ aStatus'[a] = "CANCELLED" /\ aStatus[a] # "CANCELLED" => aStatus[a] \in AOpen
             /\ aStatus'[a] = "REJECTED" /\ aStatus[a] # "REJECTED" => aStatus[a] = "SUBMITTED"
             /\ aStatus'[a] = "FINALIZED" /\ aStatus[a] # "FINALIZED" => aStatus[a] = "APPROVED"
<1>1. AdjustmentInv /\ [AdjustmentNext]_avars => [Step]_aStatus
  <2> SUFFICES ASSUME AdjustmentInv, [AdjustmentNext]_avars, aStatus' # aStatus PROVE Step
    OBVIOUS
  <2>1. CallsShape
    BY DEF AdjustmentInv
  <2>2. [ANext]_avars
    BY TransferKeeps DEF AdjustmentNext, adjustVars
  <2> SUFFICES ASSUME NEW a \in Adjustments, aStatus'[a] # aStatus[a]
               PROVE  /\ aStatus'[a] = "CANCELLED" => aStatus[a] \in AOpen
                      /\ aStatus'[a] = "REJECTED" => aStatus[a] = "SUBMITTED"
                      /\ aStatus'[a] = "FINALIZED" => aStatus[a] = "APPROVED"
    OBVIOUS
  <2>3. \A c \in Callers : caller[c] # AIdle => caller[c].seen \in AOpen
    BY <2>1, CallTyped
  <2> QED BY <2>1, <2>2, <2>3, StatusWrites
<1> QED BY <1>1, AdjustmentInvariant, PTL DEF AdjustmentSpec, ClaimsRespectStatus

\* What a finalization adds to the entries of the requests: none to those of
\* another request, and to its own on a row as many as it had read lines there.
LEMMA FinalizePosts ==
  ASSUME NEW S, Adjustments \subseteq S, StockShape(S), CallsShape,
         NEW c \in Callers, FinalizeAdjustment(c), NEW r \in Rows, NEW b
  PROVE  /\ b # caller[c].id => Posted(b, r)' = Posted(b, r)
         /\ b = caller[c].id =>
              Cardinality(Posted(b, r)' \ Posted(b, r)) =
                Cardinality({k \in DOMAIN caller[c].lines : caller[c].lines[k].row = r})
<1> DEFINE ls == caller[c].lines
           a == caller[c].id
           n == Len(ls)
           old == ledger[r]
           new == ledger'[r]
<1>1. a \in Adjustments /\ ls \in Seq(Line) /\ n \in Nat /\ ledger' = LedgerAfter(ls, a)[n]
  BY FinalizeApplies
<1> HIDE DEF ls, a
<1>2. /\ Extends(new, old, a)
      /\ Cardinality(LinesOn(ls, n, r)) = Len(new) - Len(old)
  BY <1>1, LinesAddEntries DEF StockShape
<1>3. /\ Len(old) \in Nat /\ Len(new) \in Nat /\ Len(old) <= Len(new)
      /\ DOMAIN old = 1..Len(old) /\ DOMAIN new = 1..Len(new)
      /\ \A k \in 1..Len(old) : new[k] = old[k]
      /\ \A k \in (Len(old) + 1)..Len(new) : new[k].source = a
  BY <1>2 DEF Extends
<1>4. Posted(b, r) = {k \in 1..Len(old) : old[k].source = b}
  BY <1>3 DEF Posted
<1>5. Posted(b, r)' = {k \in 1..Len(new) : new[k].source = b}
  BY <1>3 DEF Posted
<1>6. 1..Len(new) = (1..Len(old)) \cup ((Len(old) + 1)..Len(new))
      /\ \A k \in (Len(old) + 1)..Len(new) : k \notin 1..Len(old)
  BY <1>3
<1> HIDE DEF old, new
<1>7. ASSUME b # a PROVE Posted(b, r)' = Posted(b, r)
  BY <1>3, <1>4, <1>5, <1>6, <1>7
<1>8. ASSUME b = a PROVE Cardinality(Posted(b, r)' \ Posted(b, r)) = Cardinality(LinesOn(ls, n, r))
  <2>1. Posted(b, r)' \ Posted(b, r) = (Len(old) + 1)..Len(new)
    BY <1>3, <1>4, <1>5, <1>6, <1>8
  <2>2. Cardinality((Len(old) + 1)..Len(new)) = Len(new) - Len(old)
    <3>1. Len(old) + 1 \in Int /\ Len(new) \in Int
      BY <1>3
    <3>2. Cardinality((Len(old) + 1)..Len(new)) =
            IF Len(old) + 1 > Len(new) THEN 0 ELSE Len(new) - (Len(old) + 1) + 1
      BY <3>1, FS_Interval
    <3> QED BY <1>3, <3>2
  <2> QED BY <1>2, <2>1, <2>2
<1>9. LinesOn(ls, n, r) = {k \in DOMAIN ls : ls[k].row = r}
  <2>1. DOMAIN ls = 1..n
    BY <1>1
  <2> QED BY <2>1 DEF LinesOn
<1> QED BY <1>7, <1>8, <1>9 DEF a, ls

\* One finalization posts every line of its request or none (FinalizedAllAtOnce):
\* entries appear only in the step that makes their request FINALIZED, as many on
\* each row as the call had read lines there, two lines of one row included.
THEOREM FinalizedWhole == AdjustmentSpec => FinalizedAllAtOnce
<1> DEFINE Whole(a, c) ==
             /\ AAt(c, "finalize", "read") /\ caller[c].id = a
             /\ \A x \in Rows : Cardinality(Posted(a, x)' \ Posted(a, x)) =
                  Cardinality({k \in DOMAIN caller[c].lines : caller[c].lines[k].row = x})
           Step == \A a \in Adjustments, r \in Rows :
             Posted(a, r)' # Posted(a, r) =>
               /\ aStatus[a] = "APPROVED" /\ aStatus'[a] = "FINALIZED"
               /\ \E c \in Callers : Whole(a, c)
<1>1. AdjustmentInv /\ [AdjustmentNext]_avars => [Step]_avars
  <2> SUFFICES ASSUME AdjustmentInv, [AdjustmentNext]_avars PROVE Step
    OBVIOUS
  <2> SUFFICES ASSUME NEW a \in Adjustments, NEW r \in Rows, Posted(a, r)' # Posted(a, r)
               PROVE  /\ aStatus[a] = "APPROVED" /\ aStatus'[a] = "FINALIZED"
                      /\ \E c \in Callers : Whole(a, c)
    OBVIOUS
  <2>1. StockShape(ASources) /\ CallsShape /\ Adjustments \subseteq ASources
    BY DEF AdjustmentInv, ASources
  <2>2. ledger' # ledger
    BY DEF Posted
  <2>3. [ANext]_avars /\ ~UNCHANGED stockVars
    BY <2>2, TransferKeeps DEF AdjustmentNext, stockVars
  <2>4. PICK c \in Callers : FinalizeAdjustment(c)
    BY <2>3, OnlyFinalizeMoves
  <2>5. caller[c].id = a
    BY <2>1, <2>4, FinalizePosts
  <2>6. AAt(c, "finalize", "read") /\ aStatus[a] = "APPROVED" /\ aStatus'[a] = "FINALIZED"
    BY <2>1, <2>4, <2>5 DEF FinalizeAdjustment, CallsShape
  <2>7. \A x \in Rows : Cardinality(Posted(a, x)' \ Posted(a, x)) =
          Cardinality({k \in DOMAIN caller[c].lines : caller[c].lines[k].row = x})
    BY <2>1, <2>4, <2>5, FinalizePosts
  <2> QED BY <2>5, <2>6, <2>7
<1> QED BY <1>1, AdjustmentInvariant, PTL DEF AdjustmentSpec, FinalizedAllAtOnce
=============================================================================
