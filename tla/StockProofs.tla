------------------------------ MODULE StockProofs ------------------------------
(***************************************************************************)
(* What the action fragments of Stock preserve, for every set of products   *)
(* and locations.                                                           *)
(***************************************************************************)
EXTENDS Stock, SumProofs, SequenceTheorems

-----------------------------------------------------------------------------
(* The ledger of a row. *)

\* Appending one entry to a row's ledger: everything before it stays.
LEMMA AppendEntry ==
  ASSUME NEW E, NEW s \in Seq(E), NEW e \in E
  PROVE  /\ Append(s, e) \in Seq(E)
         /\ Len(s) \in Nat
         /\ Len(Append(s, e)) = Len(s) + 1
         /\ DOMAIN s = 1..Len(s)
         /\ DOMAIN Append(s, e) = 1..(Len(s) + 1)
         /\ \A k \in 1..Len(s) : Append(s, e)[k] = s[k] /\ s[k] \in E
         /\ Append(s, e)[Len(s) + 1] = e
BY AppendProperties

\* An entry that carries the new balance continues the chain of a row.
LEMMA AppendKeepsChain ==
  ASSUME NEW S, NEW r, NEW s \in Seq(Entry(S)), NEW balance \in Int,
         NEW e \in Entry(S), e.after = balance + e.change,
         Chained(r, s, balance)
  PROVE  Chained(r, Append(s, e), e.after)
<1> DEFINE n == Len(s)
           new == Append(s, e)
<1>1. /\ n \in Nat /\ Len(new) = n + 1
      /\ DOMAIN s = 1..n /\ DOMAIN new = 1..(n + 1)
      /\ \A k \in 1..n : new[k] = s[k]
      /\ new[n + 1] = e
  BY AppendEntry
<1> HIDE DEF n, new
<1>2. \A k \in 1..(n + 1) : BalanceBefore(r, new, k) = BalanceBefore(r, s, k)
  <2> TAKE k \in 1..(n + 1)
  <2>1. k # 1 => k - 1 \in 1..n
    BY <1>1
  <2> QED BY <1>1, <2>1 DEF BalanceBefore
<1>3. balance = BalanceBefore(r, s, n + 1)
  BY DEF Chained, n
<1>4. \A k \in 1..n : s[k].after = BalanceBefore(r, s, k) + s[k].change
  BY <1>1 DEF Chained
<1>5. \A k \in 1..(n + 1) : new[k].after = BalanceBefore(r, new, k) + new[k].change
  <2> TAKE k \in 1..(n + 1)
  <2>1. CASE k \in 1..n
    BY <1>1, <1>2, <1>4, <2>1
  <2>2. CASE k = n + 1
    BY <1>1, <1>2, <1>3, <2>2
  <2> QED BY <1>1, <2>1, <2>2
<1>6. e.after = BalanceBefore(r, new, n + 1 + 1)
  <2>1. n + 1 + 1 # 1 /\ n + 1 + 1 - 1 = n + 1
    BY <1>1
  <2> QED BY <1>1, <2>1 DEF BalanceBefore
<1>7. Chained(r, new, e.after)
  BY <1>1, <1>5, <1>6 DEF Chained
<1> QED BY <1>7 DEF new

\* A transaction that posts changes keeps the tables typed and every ledger a
\* chain that ends at the balance of its row.
LEMMA PostKeepsLedger ==
  ASSUME NEW S,
         onHand \in [Rows -> Int], ledger \in [Rows -> Seq(Entry(S))],
         LedgerExplainsBalance,
         NEW delta \in [Rows -> Int], NEW kind \in [Rows -> EntryKinds], NEW source \in S,
         Post(delta, kind, source)
  PROVE  /\ onHand' \in [Rows -> Int]
         /\ ledger' \in [Rows -> Seq(Entry(S))]
         /\ LedgerExplainsBalance'
<1> DEFINE new(r) == [change |-> delta[r], after |-> onHand[r] + delta[r],
                      kind |-> kind[r], source |-> source]
<1>1. onHand' \in [Rows -> Int]
  BY DEF Post
<1>2. ASSUME NEW r \in Rows
      PROVE  ledger'[r] \in Seq(Entry(S)) /\ Chained(r, ledger'[r], onHand'[r])
  <2>1. /\ ledger[r] \in Seq(Entry(S)) /\ onHand[r] \in Int
        /\ delta[r] \in Int /\ kind[r] \in EntryKinds
    OBVIOUS
  <2>2. new(r) \in Entry(S)
    BY <2>1 DEF Entry
  <2>3. new(r).after = onHand[r] + new(r).change /\ new(r).after = onHand'[r]
    BY DEF Post
  <2>4. ledger'[r] = IF delta[r] = 0 THEN ledger[r] ELSE Append(ledger[r], new(r))
    BY DEF Post
  <2>5. onHand'[r] = onHand[r] + delta[r]
    BY DEF Post
  <2>6. Chained(r, ledger[r], onHand[r])
    BY DEF LedgerExplainsBalance
  <2> HIDE DEF new
  <2>7. CASE delta[r] = 0
    <3>1. ledger'[r] = ledger[r] /\ onHand'[r] = onHand[r]
      BY <2>1, <2>4, <2>5, <2>7
    <3> QED BY <2>1, <2>6, <3>1
  <2>8. CASE delta[r] # 0
    <3>1. ledger'[r] = Append(ledger[r], new(r))
      BY <2>4, <2>8
    <3>2. Append(ledger[r], new(r)) \in Seq(Entry(S))
      BY <2>1, <2>2, AppendEntry
    <3>3. Chained(r, Append(ledger[r], new(r)), new(r).after)
      BY <2>1, <2>2, <2>3, <2>6, AppendKeepsChain
    <3> QED BY <2>3, <3>1, <3>2, <3>3
  <2> QED BY <2>7, <2>8
<1>3. ledger' \in [Rows -> Seq(Entry(S))]
  BY <1>2 DEF Post
<1> QED BY <1>1, <1>2, <1>3 DEF LedgerExplainsBalance
=============================================================================
