------------------------ MODULE CreditBillingProofs ------------------------
(***************************************************************************)
(* Theorems about CreditBilling, for any clients, orders, payouts and      *)
(* amounts.                                                                *)
(***************************************************************************)
EXTENDS CreditBilling, WellFoundedInduction, FiniteSetTheorems, TLAPS

(***************************************************************************)
(* The platform ledger.  Movements are only added, and confirming one      *)
(* keeps its kind and its source, so a reference once paid out stays in    *)
(* the ledger for the unique index to find.                                *)
(***************************************************************************)
MovementsAreRecords ==
    \A m \in ledger : m = [kind |-> m.kind, source |-> m.source, amount |-> m.amount,
                           state |-> m.state, reversal |-> m.reversal, n |-> m.n]

PaidOut(l, reference) == \E m \in l : m.kind = "CASHBACK_PAID_OUT" /\ m.source = reference

PaidIsInLedger == \A p \in Payouts : payout[p] = "paid" => PaidOut(ledger, PayoutReference[p])

PayoutInv ==
    /\ payout \in [Payouts -> {"idle", "open", "paid", "duplicate"}]
    /\ MovementsAreRecords /\ PaidIsInLedger /\ ReferencePaidOnce

\* A movement recorded is one more record of the ledger.
LEMMA CreateAdds ==
    ASSUME NEW l, NEW m
    PROVE  \E x : /\ CreateMovement(l, m) = l \cup {x}
                  /\ x = [kind |-> x.kind, source |-> x.source, amount |-> x.amount,
                          state |-> x.state, reversal |-> x.reversal, n |-> x.n]
                  /\ x.kind = m.kind /\ x.source = m.source
<1> DEFINE same == {x \in l : x.kind = m.kind /\ x.source = m.source /\ x.reversal = m.reversal}
           new == [kind |-> m.kind, source |-> m.source, amount |-> m.amount, state |-> m.state,
                   reversal |-> m.reversal, n |-> Cardinality(same) + 1]
<1>1. CreateMovement(l, m) = l \cup {new}
  BY DEF CreateMovement
<1>2. new.kind = m.kind /\ new.source = m.source
  OBVIOUS
<1>3. new = [kind |-> new.kind, source |-> new.source, amount |-> new.amount,
             state |-> new.state, reversal |-> new.reversal, n |-> new.n]
  OBVIOUS
<1> QED BY <1>1, <1>2, <1>3

\* A movement with its reversal field set is a record of the same fields.
LEMMA FlippedIsRecord ==
    ASSUME NEW v, NEW m, m = [kind |-> m.kind, source |-> m.source, amount |-> m.amount,
                              state |-> m.state, reversal |-> m.reversal, n |-> m.n]
    PROVE  LET x == [m EXCEPT !.reversal = v] IN
           x = [kind |-> x.kind, source |-> x.source, amount |-> x.amount,
                state |-> x.state, reversal |-> x.reversal, n |-> x.n]
  OBVIOUS

\* Payouts already made survive any growth of the ledger.
LEMMA GrowingLedger ==
    ASSUME PayoutInv, UNCHANGED payout, ledger \subseteq ledger',
           \A m \in ledger' \ ledger :
               m = [kind |-> m.kind, source |-> m.source, amount |-> m.amount,
                    state |-> m.state, reversal |-> m.reversal, n |-> m.n]
    PROVE  PayoutInv'
  BY DEF PayoutInv, MovementsAreRecords, PaidIsInLedger, PaidOut, ReferencePaidOnce

\* Every action keeps a reference paid at most once.
LEMMA PayoutStep ==
    ASSUME PayoutInv, [BillingNext]_billingVars
    PROVE  PayoutInv'
<1>1. ASSUME UNCHANGED <<payout, ledger>>
      PROVE  PayoutInv'
  BY <1>1 DEF PayoutInv, MovementsAreRecords, PaidIsInLedger, PaidOut, ReferencePaidOnce
<1>2. ASSUME NEW kind, NEW rate, NEW i, UNCHANGED payout, ledger' = Accrued(ledger, kind, rate, i)
      PROVE  PayoutInv'
  <2>1. CASE ledger' = ledger
    BY <1>1, <1>2, <2>1
  <2>2. CASE ledger' # ledger
    <3>1. PICK m : ledger' = CreateMovement(ledger, m)
      BY <1>2, <2>2 DEF Accrued
    <3> QED BY <1>2, <3>1, CreateAdds, GrowingLedger
  <2> QED BY <2>1, <2>2
<1>3. CASE UNCHANGED billingVars
  BY <1>1, <1>3 DEF billingVars
<1>4. ASSUME NEW i \in Bills, BeginIssue(i)
      PROVE  PayoutInv'
  BY <1>1, <1>4 DEF BeginIssue
<1>5. ASSUME NEW i \in Bills, CommitIssue(i) \/ ApplySettlement(i)
      PROVE  PayoutInv'
  BY <1>2, <1>5 DEF CommitIssue, ApplySettlement
<1>6. ASSUME NEW i \in Bills, VoidInvoice(i)
      PROVE  PayoutInv'
  <2> DEFINE originals == {m \in ledger : m.source = i /\ m.state = "CONFIRMED" /\ ~m.reversal}
             reversed == {m \in originals : \E x \in ledger : x.reversal /\ x.source = i
                                                              /\ x.kind = m.kind /\ x.n = m.n}
             toReverse == originals \ reversed
             flipped(m) == [m EXCEPT !.reversal = TRUE]
  <2>1. ledger' = ledger \cup {flipped(m) : m \in toReverse} /\ UNCHANGED payout
    BY <1>6, Zenon DEF VoidInvoice, ReverseMovementsForInvoice
  <2>2. toReverse \subseteq ledger
    OBVIOUS
  <2> HIDE DEF toReverse
  <2>3. ASSUME NEW m \in ledger
        PROVE  LET x == flipped(m) IN
               x = [kind |-> x.kind, source |-> x.source, amount |-> x.amount,
                    state |-> x.state, reversal |-> x.reversal, n |-> x.n]
    BY FlippedIsRecord, Zenon DEF PayoutInv, MovementsAreRecords
  <2> HIDE DEF flipped
  <2> QED BY <2>1, <2>2, <2>3, GrowingLedger
<1>7. ASSUME NEW l \in CreditLimits, SetCreditLimit(l)
      PROVE  PayoutInv'
  BY <1>1, <1>7 DEF SetCreditLimit
<1>8. ASSUME NEW t \in Terms, SetCommissionTerm(t) \/ SetCashbackProgramme(t)
      PROVE  PayoutInv'
  BY <1>1, <1>8 DEF SetCommissionTerm, SetCashbackProgramme
<1>9. ASSUME NEW d \in Deposits, RecordPayment(d)
      PROVE  PayoutInv'
  <2>1. PICK m : ledger' = CreateMovement(ledger, m) /\ UNCHANGED payout
    BY <1>9 DEF RecordPayment
  <2> QED BY <2>1, CreateAdds, GrowingLedger
<1>10. ASSUME NEW d \in Deposits, ConfirmDeposit(d)
       PROVE  PayoutInv'
  <2>1. PICK m \in ledger : ledger' = (ledger \ {m}) \cup {[m EXCEPT !.state = "CONFIRMED"]}
                            /\ UNCHANGED payout
    BY <1>10 DEF ConfirmDeposit
  <2> DEFINE x == [m EXCEPT !.state = "CONFIRMED"]
  <2>2. /\ x = [kind |-> x.kind, source |-> x.source, amount |-> x.amount,
                state |-> x.state, reversal |-> x.reversal, n |-> x.n]
        /\ x.kind = m.kind /\ x.source = m.source
    BY DEF PayoutInv, MovementsAreRecords
  <2> HIDE DEF x
  <2>3. \A ref : PaidOut(ledger, ref) => PaidOut(ledger', ref)
    BY <2>1, <2>2 DEF PaidOut, x
  <2>4. MovementsAreRecords'
    BY <2>1, <2>2 DEF PayoutInv, MovementsAreRecords, x
  <2> QED BY <2>1, <2>3, <2>4 DEF PayoutInv, PaidIsInLedger, ReferencePaidOnce
<1>11. ASSUME NEW p \in Payouts, BeginPayout(p)
       PROVE  PayoutInv'
  <2>1. UNCHANGED ledger /\ payout' \in [Payouts -> {"idle", "open", "paid", "duplicate"}]
    BY <1>11 DEF BeginPayout, PayoutInv
  <2>2. \A q \in Payouts : payout'[q] = "paid" => payout[q] = "paid"
    BY <1>11 DEF BeginPayout, PayoutInv
  <2> QED BY <2>1, <2>2 DEF PayoutInv, MovementsAreRecords, PaidIsInLedger, PaidOut, ReferencePaidOnce
<1>12. ASSUME NEW p \in Payouts, CommitPayout(p)
       PROVE  PayoutInv'
  <2>1. CASE PaidOut(ledger, PayoutReference[p])
    <3>1. UNCHANGED ledger /\ payout' = [payout EXCEPT ![p] = "duplicate"]
      BY <1>12, <2>1 DEF CommitPayout, PaidOut
    <3> QED BY <3>1 DEF PayoutInv, MovementsAreRecords, PaidIsInLedger, PaidOut, ReferencePaidOnce
  <2>2. CASE ~PaidOut(ledger, PayoutReference[p])
    <3>1. /\ payout' = [payout EXCEPT ![p] = "paid"]
          /\ ledger' = CreateMovement(ledger, AccountMovement("CASHBACK_PAID_OUT", PayoutReference[p],
                                                              PayoutAmount[p], "CONFIRMED", FALSE))
      BY <1>12, <2>2 DEF CommitPayout, PaidOut
    <3>2. PICK x : /\ ledger' = ledger \cup {x}
                   /\ x = [kind |-> x.kind, source |-> x.source, amount |-> x.amount,
                           state |-> x.state, reversal |-> x.reversal, n |-> x.n]
                   /\ x.kind = "CASHBACK_PAID_OUT" /\ x.source = PayoutReference[p]
      BY <3>1, CreateAdds DEF AccountMovement
    <3>3. payout' \in [Payouts -> {"idle", "open", "paid", "duplicate"}]
      BY <3>1 DEF PayoutInv
    <3>4. MovementsAreRecords'
      BY <3>2 DEF PayoutInv, MovementsAreRecords
    <3>5. \A q \in Payouts : payout'[q] = "paid" => q = p \/ payout[q] = "paid"
      BY <3>1 DEF PayoutInv
    <3>6. PaidIsInLedger'
      BY <3>2, <3>5 DEF PayoutInv, PaidIsInLedger, PaidOut
    <3>7. ReferencePaidOnce'
      BY <2>2, <3>5 DEF PayoutInv, PaidIsInLedger, ReferencePaidOnce
    <3> QED BY <3>3, <3>4, <3>6, <3>7 DEF PayoutInv
  <2> QED BY <2>1, <2>2
<1>13. CASE LimitNext
  BY <1>1, <1>13 DEF LimitNext, CheckLimitRequest, InsertLimitRequest, ResolveLimitRequest
<1> QED
  BY <1>3, <1>4, <1>5, <1>6, <1>7, <1>8, <1>9, <1>10, <1>11, <1>12, <1>13
     DEF BillingNext, IssueNext, LedgerNext

\* Two payouts under one reference are never both paid, however their transactions overlap.
THEOREM ReferencesArePaidOnce == BillingSpec => []ReferencePaidOnce
<1>1. BillingInit => PayoutInv
  BY DEF BillingInit, PayoutInv, MovementsAreRecords, PaidIsInLedger, ReferencePaidOnce
<1>2. BillingSpec => []PayoutInv
  BY <1>1, PayoutStep, PTL DEF BillingSpec
<1> QED BY <1>2, PTL DEF PayoutInv
-----------------------------------------------------------------------------
(***************************************************************************)
(* Sums over a finite set.  The sum of natural numbers counts the units,   *)
(* the first, second, ... of each member; sums of nothing and of two are   *)
(* unfolded.                                                               *)
(***************************************************************************)
Units(f, T) == UNION {{x} \X (1..f[x]) : x \in T}

Pick(s) == CHOOSE x \in s : TRUE

\* The equation by which SumOf is defined.
Folds(f, S, iter) ==
    iter = [s \in SUBSET S |-> IF s = {} THEN 0 ELSE f[Pick(s)] + iter[s \ {Pick(s)}]]

LEMMA SumIsFold ==
    ASSUME NEW f, NEW S
    PROVE  SumOf(f, S) = (CHOOSE iter : Folds(f, S, iter))[S]
BY Zenon DEF SumOf, MapThenSumSet, MapThenFoldSet, Folds, Pick

LEMMA FoldUnfolds ==
    ASSUME NEW f, NEW S, NEW iter, Folds(f, S, iter), NEW s \in SUBSET S
    PROVE  /\ s = {} => iter[s] = 0
           /\ s # {} => Pick(s) \in s /\ iter[s] = f[Pick(s)] + iter[s \ {Pick(s)}]
<1>1. iter[s] = IF s = {} THEN 0 ELSE f[Pick(s)] + iter[s \ {Pick(s)}]
  BY Zenon DEF Folds
<1>2. s # {} => Pick(s) \in s
  BY DEF Pick
<1> QED BY <1>1, <1>2

LEMMA UnitOf ==
    ASSUME NEW x, NEW j \in Nat, NEW p
    PROVE  p \in {x} \X (1..j) <=> \E i \in Nat : p = <<x, i>> /\ 1 <= i /\ i <= j
OBVIOUS

LEMMA UnitsOf ==
    ASSUME NEW f, NEW T, \A x \in T : f[x] \in Nat, NEW p
    PROVE  p \in Units(f, T) <=> \E x \in T, i \in Nat : p = <<x, i>> /\ 1 <= i /\ i <= f[x]
<1>1. p \in Units(f, T) <=> \E x \in T : p \in {x} \X (1..f[x])
  BY DEF Units
<1> QED BY <1>1, UnitOf

LEMMA UnitsOfOne ==
    ASSUME NEW x, NEW j \in Nat
    PROVE  IsFiniteSet({x} \X (1..j)) /\ Cardinality({x} \X (1..j)) = j
<1> DEFINE I == 1..j
           block == {x} \X I
<1>1. IsFiniteSet(I) /\ Cardinality(I) = j
  <2>1. 1 \in Int /\ j \in Int
    OBVIOUS
  <2>2. IsFiniteSet(I) /\ Cardinality(I) = IF 1 > j THEN 0 ELSE j - 1 + 1
    BY <2>1, FS_Interval, Zenon
  <2> HIDE DEF I
  <2> QED BY <2>2
<1> HIDE DEF I
<1>2. IsFiniteSet({x}) /\ Cardinality({x}) = 1
  BY FS_Singleton, Zenon
<1>3. IsFiniteSet(block) /\ Cardinality(block) = Cardinality({x}) * Cardinality(I)
  BY <1>1, <1>2, FS_Product, Zenon
<1>4. Cardinality(block) = 1 * j
  BY <1>1, <1>2, <1>3, Zenon
<1> HIDE DEF block
<1>5. IsFiniteSet(block) /\ Cardinality(block) = j
  BY <1>3, <1>4
<1> QED BY <1>5, Zenon DEF block, I

\* One member more brings its units.
LEMMA UnitsAdd ==
    ASSUME NEW f, NEW T, NEW x, x \notin T, \A y \in T : f[y] \in Nat, f[x] \in Nat,
           IsFiniteSet(Units(f, T))
    PROVE  /\ IsFiniteSet(Units(f, T \cup {x})) /\ Cardinality(Units(f, T)) \in Nat
           /\ Cardinality(Units(f, T \cup {x})) = f[x] + Cardinality(Units(f, T))
<1> DEFINE rest == Units(f, T)
           block == {x} \X (1..f[x])
<1>1. Units(f, T \cup {x}) = rest \cup block
  BY DEF Units
<1>2. rest \cap block = {}
  <2>1. ASSUME NEW p \in rest, p \in block PROVE FALSE
    BY <2>1, UnitsOf, UnitOf
  <2> HIDE DEF rest, block
  <2> QED BY <2>1
<1>3. IsFiniteSet(block) /\ Cardinality(block) = f[x]
  BY UnitsOfOne
<1> HIDE DEF rest, block
<1>4. /\ IsFiniteSet(rest \cup block)
      /\ Cardinality(rest \cup block) = Cardinality(rest) + Cardinality(block) - Cardinality(rest \cap block)
  BY <1>3, FS_Union, Zenon DEF rest
<1>5. Cardinality(rest \cap block) = 0
  BY <1>2, FS_EmptySet, Zenon
<1>6. Cardinality(rest) \in Nat
  BY FS_CardinalityType, Zenon DEF rest
<1>7. Cardinality(rest \cup block) = Cardinality(rest) + f[x] - 0
  BY <1>3, <1>4, <1>5, Zenon
<1>8. Cardinality(rest \cup block) = f[x] + Cardinality(rest)
  BY <1>6, <1>7
<1> QED BY <1>1, <1>4, <1>6, <1>8, Zenon DEF rest

\* Fewer members have fewer units.
LEMMA UnitsSubset ==
    ASSUME NEW f, NEW T, NEW U, U \subseteq T, IsFiniteSet(Units(f, T))
    PROVE  /\ IsFiniteSet(Units(f, U)) /\ Cardinality(Units(f, U)) <= Cardinality(Units(f, T))
           /\ Cardinality(Units(f, U)) \in Nat /\ Cardinality(Units(f, T)) \in Nat
<1>1. Units(f, U) \in SUBSET Units(f, T)
  BY DEF Units
<1> QED BY <1>1, FS_Subset, FS_CardinalityType, Zenon

\* The counted units satisfy the equation of the fold.
LEMMA UnitsFold ==
    ASSUME NEW f, NEW S, \A x \in S : f[x] \in Nat, IsFiniteSet(Units(f, S))
    PROVE  Folds(f, S, [s \in SUBSET S |-> Cardinality(Units(f, s))])
<1> DEFINE g == [s \in SUBSET S |-> Cardinality(Units(f, s))]
<1>1. ASSUME NEW s \in SUBSET S
      PROVE  g[s] = IF s = {} THEN 0 ELSE f[Pick(s)] + g[s \ {Pick(s)}]
  <2>1. CASE s = {}
    <3>1. Units(f, s) = {}
      BY <2>1 DEF Units
    <3> QED BY <2>1, <3>1, FS_EmptySet, Zenon
  <2>2. CASE s # {}
    <3> DEFINE x == Pick(s)
               r == s \ {x}
    <3>1. x \in s
      BY <2>2 DEF Pick
    <3>2. r \in SUBSET S /\ x \notin r /\ r \cup {x} = s /\ f[x] \in Nat /\ \A y \in r : f[y] \in Nat
      BY <3>1
    <3> HIDE DEF x, r
    <3>3. IsFiniteSet(Units(f, r))
      BY <3>2, UnitsSubset, Zenon
    <3>4. Cardinality(Units(f, r \cup {x})) = f[x] + Cardinality(Units(f, r))
      BY <3>2, <3>3, UnitsAdd, Zenon
    <3>5. g[s] = Cardinality(Units(f, r \cup {x})) /\ g[r] = Cardinality(Units(f, r))
      BY <3>2, Zenon
    <3> HIDE DEF g
    <3>6. g[s] = f[x] + g[r]
      BY <3>4, <3>5, Zenon
    <3> QED BY <2>2, <3>6, Zenon DEF x, r
  <2> QED BY <2>1, <2>2
<1>2. g = [s \in SUBSET S |-> g[s]]
  OBVIOUS
<1> HIDE DEF g
<1>3. g = [s \in SUBSET S |-> IF s = {} THEN 0 ELSE f[Pick(s)] + g[s \ {Pick(s)}]]
  BY <1>1, <1>2, Zenon
<1> QED BY <1>3, Zenon DEF Folds, g

\* Two solutions agree on finite sets: there is no smallest set on which they differ.
LEMMA FoldsAgree ==
    ASSUME NEW f, NEW S, IsFiniteSet(S), NEW g, Folds(f, S, g), NEW h, Folds(f, S, h)
    PROVE  g[S] = h[S]
<1> DEFINE Bad == {s \in SUBSET S : g[s] # h[s]}
           Sizes == {Cardinality(s) : s \in Bad}
<1> SUFFICES ASSUME Bad # {} PROVE FALSE
  BY Zenon
<1>1. \A s \in SUBSET S : IsFiniteSet(s) /\ Cardinality(s) \in Nat
  BY FS_Subset, FS_CardinalityType, Zenon
<1>2. Sizes \subseteq Nat /\ Sizes # {}
  BY <1>1, Zenon
<1>3. PICK n \in Sizes : \A m \in Sizes : ~(<<m, n>> \in OpToRel(<, Nat))
  <2> HIDE DEF Sizes
  <2> QED BY <1>2, NatLessThanWellFounded, WFMin, Zenon
<1>4. PICK s \in Bad : n = Cardinality(s)
  BY <1>3, Zenon
<1>5. s \in SUBSET S /\ g[s] # h[s]
  BY <1>4, Zenon
<1>6. s # {}
  BY <1>5, FoldUnfolds
<1> DEFINE x == Pick(s)
           r == s \ {x}
<1>7. x \in s /\ g[s] = f[x] + g[r] /\ h[s] = f[x] + h[r]
  <2>1. ASSUME NEW iter, Folds(f, S, iter), NEW t \in SUBSET S, t # {}
        PROVE  Pick(t) \in t /\ iter[t] = f[Pick(t)] + iter[t \ {Pick(t)}]
    BY <2>1, FoldUnfolds
  <2> HIDE DEF Bad
  <2> QED BY <1>5, <1>6, <2>1
<1>8. r \in SUBSET S
  BY <1>5
<1>9. Cardinality(r) \in Nat /\ Cardinality(s) \in Nat /\ Cardinality(r) = Cardinality(s) - 1
  BY <1>1, <1>5, <1>7, <1>8, FS_RemoveElement, Zenon
<1> HIDE DEF x, r
<1>10. g[r] # h[r]
  BY <1>5, <1>7, Zenon
<1>11. Cardinality(r) \in Sizes
  BY <1>8, <1>10, Zenon
<1> HIDE DEF Sizes
<1>12. ~(<<Cardinality(r), n>> \in OpToRel(<, Nat))
  BY <1>3, <1>11, Zenon
<1>13. ~(Cardinality(r) < n)
  BY <1>2, <1>3, <1>9, <1>12 DEF OpToRel
<1> QED BY <1>4, <1>9, <1>13

LEMMA SumIsUnits ==
    ASSUME NEW f, NEW S, IsFiniteSet(S), \A x \in S : f[x] \in Nat, IsFiniteSet(Units(f, S))
    PROVE  SumOf(f, S) = Cardinality(Units(f, S))
<1> DEFINE g == [s \in SUBSET S |-> Cardinality(Units(f, s))]
           h == CHOOSE iter : Folds(f, S, iter)
<1>1. Folds(f, S, g)
  BY UnitsFold, Zenon
<1>2. Folds(f, S, h)
  BY <1>1, Zenon
<1>3. SumOf(f, S) = h[S] /\ g[S] = Cardinality(Units(f, S))
  BY SumIsFold, Zenon
<1> HIDE DEF g, h
<1> QED BY <1>1, <1>2, <1>3, FoldsAgree, Zenon
-----------------------------------------------------------------------------
(***************************************************************************)
(* Credit.  An approval that has passed the credit check and not yet       *)
(* committed is still covered: what others owe can only have shrunk since, *)
(* for a commit that would have raised it, or lowered the limit, made this *)
(* one start over.                                                         *)
(***************************************************************************)
Owing == {i \in Bills : MethodOf[i] = "CREDIT" /\ bill[i] = "ISSUED"}

OpenIsCovered ==
    \A i \in Bills : issuing[i].pc = "open" =>
        bill[i] = "none" /\ (MethodOf[i] = "CREDIT" => AmountOf[i] + Outstanding <= creditLimit)

CreditInv ==
    /\ bill \in [Bills -> {"none", "ISSUED", "SETTLED", "VOID"}]
    /\ DOMAIN issuing = Bills /\ creditLimit \in Int
    /\ IsFiniteSet(Owing) /\ IsFiniteSet(Units(AmountOf, Owing))
    /\ OpenIsCovered

LEMMA OutstandingIsUnits ==
    ASSUME IsFiniteSet(Owing), IsFiniteSet(Units(AmountOf, Owing))
    PROVE  Outstanding = Cardinality(Units(AmountOf, Owing)) /\ Outstanding \in Nat
<1>1. \A i \in Owing : AmountOf[i] \in Nat
  BY BillingAssumption DEF Owing
<1>2. Outstanding = SumOf(AmountOf, Owing)
  BY DEF Outstanding, Owing
<1>3. Outstanding = Cardinality(Units(AmountOf, Owing))
  BY <1>1, <1>2, SumIsUnits, Zenon
<1> QED BY <1>3, FS_CardinalityType, Zenon

\* The same after a step.
LEMMA OutstandingNext ==
    ASSUME IsFiniteSet(Owing'), IsFiniteSet(Units(AmountOf, Owing'))
    PROVE  Outstanding' = Cardinality(Units(AmountOf, Owing')) /\ Outstanding' \in Nat
<1>1. \A i \in Owing' : AmountOf[i] \in Nat
  BY BillingAssumption DEF Owing
<1>2. Outstanding' = SumOf(AmountOf, Owing')
  BY DEF Outstanding, Owing
<1>3. Outstanding' = Cardinality(Units(AmountOf, Owing'))
  BY <1>1, <1>2, SumIsUnits, Zenon
<1> QED BY <1>3, FS_CardinalityType, Zenon

\* Nobody owes more than before.
LEMMA OwingShrinks ==
    ASSUME CreditInv, Owing' \subseteq Owing
    PROVE  /\ IsFiniteSet(Owing') /\ IsFiniteSet(Units(AmountOf, Owing'))
           /\ Outstanding \in Nat /\ Outstanding' \in Nat /\ Outstanding' <= Outstanding
<1>1. IsFiniteSet(Owing) /\ IsFiniteSet(Units(AmountOf, Owing))
  BY DEF CreditInv
<1>2. IsFiniteSet(Owing')
  BY <1>1, FS_Subset, Zenon
<1>3. /\ IsFiniteSet(Units(AmountOf, Owing'))
      /\ Cardinality(Units(AmountOf, Owing')) <= Cardinality(Units(AmountOf, Owing))
  BY <1>1, UnitsSubset, Zenon
<1> QED BY <1>1, <1>2, <1>3, OutstandingIsUnits, OutstandingNext, Zenon

\* One invoice more is owed.
LEMMA OwingGrows ==
    ASSUME CreditInv, NEW i \in Bills, i \notin Owing, Owing' = Owing \cup {i}
    PROVE  /\ IsFiniteSet(Owing') /\ IsFiniteSet(Units(AmountOf, Owing'))
           /\ Outstanding' = AmountOf[i] + Outstanding
<1>1. IsFiniteSet(Owing) /\ IsFiniteSet(Units(AmountOf, Owing))
  BY DEF CreditInv
<1>2. AmountOf[i] \in Nat /\ \A j \in Owing : AmountOf[j] \in Nat
  BY BillingAssumption DEF Owing
<1>3. IsFiniteSet(Owing')
  BY <1>1, FS_AddElement, Zenon
<1>4. /\ IsFiniteSet(Units(AmountOf, Owing'))
      /\ Cardinality(Units(AmountOf, Owing')) = AmountOf[i] + Cardinality(Units(AmountOf, Owing))
  BY <1>1, <1>2, UnitsAdd, Zenon
<1> QED BY <1>1, <1>3, <1>4, OutstandingIsUnits, OutstandingNext, Zenon

\* The transactions that survive a committed write of the client's document.
LEMMA DoomedOpen ==
    ASSUME NEW open, NEW winners
    PROVE  /\ DOMAIN Doomed(open, winners) = Bills
           /\ \A i \in Bills : Doomed(open, winners)[i].pc = "open" =>
                 /\ open[i].pc = "open"
                 /\ i \in winners \/ MethodOf[i] # "CREDIT"
BY DEF Doomed

\* A step that leaves the invoices and the limit alone and opens nothing.
LEMMA CreditQuiet ==
    ASSUME CreditInv, UNCHANGED <<bill, creditLimit, issuing>> PROVE CreditInv'
<1>1. Owing' = Owing /\ Outstanding' = Outstanding
  BY Zenon DEF Owing, Outstanding
<1> QED BY <1>1, Zenon DEF CreditInv, OpenIsCovered

\* The limit changes: every credit order that was being approved starts over.
LEMMA LimitChanges ==
    ASSUME CreditInv, UNCHANGED bill, creditLimit' \in Int, issuing' = Doomed(issuing, {})
    PROVE  CreditInv'
<1>1. Owing' = Owing
  BY DEF Owing
<1>2. DOMAIN issuing' = Bills /\ \A i \in Bills : issuing'[i].pc = "open" =>
          issuing[i].pc = "open" /\ MethodOf[i] # "CREDIT"
  BY DoomedOpen
<1>3. OpenIsCovered'
  BY <1>2, Zenon DEF CreditInv, OpenIsCovered
<1> QED BY <1>1, <1>2, <1>3, Zenon DEF CreditInv

LEMMA BeginIssueCovered ==
    ASSUME CreditInv, NEW i \in Bills, BeginIssue(i) PROVE CreditInv'
<1> DEFINE q == [pc |-> "open", term |-> term]
<1>1. /\ bill[i] = "none" /\ issuing' = [issuing EXCEPT ![i] = q] /\ bill' = bill /\ creditLimit' = creditLimit
      /\ MethodOf[i] = "CREDIT" => AmountOf[i] <= creditLimit - Outstanding
  BY DEF BeginIssue, AvailableCredit, limits
<1> HIDE DEF q
<1>2. Owing' = Owing /\ Outstanding' = Outstanding
  BY <1>1, Zenon DEF Owing, Outstanding
<1>3. Outstanding \in Nat /\ AmountOf[i] \in Nat /\ creditLimit \in Int
  BY OutstandingIsUnits, BillingAssumption DEF CreditInv
<1>4. MethodOf[i] = "CREDIT" => AmountOf[i] + Outstanding <= creditLimit
  BY <1>1, <1>3
<1>5. DOMAIN issuing' = Bills /\ \A j \in Bills : j # i => issuing'[j] = issuing[j]
  BY <1>1 DEF CreditInv
<1>6. OpenIsCovered'
  <2> SUFFICES ASSUME NEW j \in Bills, issuing'[j].pc = "open"
               PROVE  bill'[j] = "none" /\ (MethodOf[j] = "CREDIT" => AmountOf[j] + Outstanding' <= creditLimit')
    BY DEF OpenIsCovered
  <2>1. CASE j = i
    BY <1>1, <1>2, <1>4, <2>1, Zenon
  <2>2. CASE j # i
    BY <1>1, <1>2, <1>5, <2>2, Zenon DEF CreditInv, OpenIsCovered
  <2> QED BY <2>1, <2>2
<1> QED BY <1>1, <1>2, <1>5, <1>6, Zenon DEF CreditInv

\* Issuing: for a credit order, what is owed afterwards is within the limit.
LEMMA CommitIssueCovered ==
    ASSUME CreditInv, NEW i \in Bills, CommitIssue(i)
    PROVE  CreditInv' /\ (MethodOf[i] = "CREDIT" => Outstanding' <= creditLimit)
<1> DEFINE idle == [pc |-> "idle"]
           closed == [issuing EXCEPT ![i] = idle]
<1>1. /\ issuing[i].pc = "open" /\ bill' = [bill EXCEPT ![i] = "ISSUED"] /\ creditLimit' = creditLimit
      /\ issuing' = IF MethodOf[i] = "CREDIT" THEN Doomed(closed, {i}) ELSE closed
  BY DEF CommitIssue, limits
<1>2. idle.pc # "open"
  OBVIOUS
<1>3. bill[i] = "none" /\ (MethodOf[i] = "CREDIT" => AmountOf[i] + Outstanding <= creditLimit)
  BY <1>1, Zenon DEF CreditInv, OpenIsCovered
<1> HIDE DEF idle
<1>4. /\ DOMAIN closed = Bills /\ closed[i].pc # "open"
      /\ \A j \in Bills : j # i => closed[j] = issuing[j]
  BY <1>2 DEF CreditInv
<1> HIDE DEF closed
<1>5. /\ bill' \in [Bills -> {"none", "ISSUED", "SETTLED", "VOID"}]
      /\ \A j \in Bills : j # i => bill'[j] = bill[j]
      /\ bill'[i] = "ISSUED"
  BY <1>1 DEF CreditInv
<1>6. CASE MethodOf[i] = "CREDIT"
  <2>1. Owing' = Owing \cup {i} /\ i \notin Owing
    BY <1>3, <1>5, <1>6 DEF Owing
  <2>2. /\ IsFiniteSet(Owing') /\ IsFiniteSet(Units(AmountOf, Owing'))
        /\ Outstanding' = AmountOf[i] + Outstanding
    BY <2>1, OwingGrows, Zenon
  <2>3. DOMAIN issuing' = Bills /\ \A j \in Bills : issuing'[j].pc = "open" =>
            closed[j].pc = "open" /\ (j = i \/ MethodOf[j] # "CREDIT")
    BY <1>1, <1>6, DoomedOpen
  <2>4. \A j \in Bills : issuing'[j].pc = "open" => j # i /\ issuing[j].pc = "open" /\ MethodOf[j] # "CREDIT"
    BY <1>4, <2>3, Zenon
  <2>5. OpenIsCovered'
    BY <1>5, <2>4, Zenon DEF CreditInv, OpenIsCovered
  <2>6. Outstanding' <= creditLimit
    BY <1>3, <1>6, <2>2, Zenon
  <2> QED BY <1>1, <1>5, <2>2, <2>3, <2>5, <2>6, Zenon DEF CreditInv
<1>7. CASE MethodOf[i] # "CREDIT"
  <2>1. Owing' = Owing
    BY <1>5, <1>7 DEF Owing
  <2>2. Outstanding' = Outstanding
    BY <2>1, Zenon DEF Owing, Outstanding
  <2>3. issuing' = closed
    BY <1>1, <1>7
  <2>4. OpenIsCovered'
    BY <1>1, <1>4, <1>5, <2>2, <2>3, Zenon DEF CreditInv, OpenIsCovered
  <2> QED BY <1>1, <1>4, <1>5, <1>7, <2>1, <2>3, <2>4, Zenon DEF CreditInv
<1> QED BY <1>6, <1>7

\* Settling and voiding only lower what is owed.
LEMMA ClosingCovered ==
    ASSUME CreditInv, NEW i \in Bills, ApplySettlement(i) \/ VoidInvoice(i) PROVE CreditInv'
<1>1. /\ bill[i] = "ISSUED" /\ issuing' = issuing /\ creditLimit' = creditLimit
      /\ bill' = [bill EXCEPT ![i] = "SETTLED"] \/ bill' = [bill EXCEPT ![i] = "VOID"]
  BY DEF ApplySettlement, VoidInvoice, limits
<1>2. /\ bill' \in [Bills -> {"none", "ISSUED", "SETTLED", "VOID"}] /\ Owing' \subseteq Owing
      /\ \A j \in Bills : bill[j] = "none" => bill'[j] = "none"
  BY <1>1 DEF CreditInv, Owing
<1>3. /\ IsFiniteSet(Owing') /\ IsFiniteSet(Units(AmountOf, Owing'))
      /\ Outstanding \in Nat /\ Outstanding' \in Nat /\ Outstanding' <= Outstanding
  BY <1>2, OwingShrinks, Zenon
<1>4. ASSUME NEW j \in Bills, issuing'[j].pc = "open"
      PROVE  bill'[j] = "none" /\ (MethodOf[j] = "CREDIT" => AmountOf[j] + Outstanding' <= creditLimit')
  <2>1. bill[j] = "none" /\ (MethodOf[j] = "CREDIT" => AmountOf[j] + Outstanding <= creditLimit)
    BY <1>1, <1>4, Zenon DEF CreditInv, OpenIsCovered
  <2>2. AmountOf[j] \in Nat /\ creditLimit \in Int
    BY BillingAssumption DEF CreditInv
  <2>3. AmountOf[j] + Outstanding <= creditLimit => AmountOf[j] + Outstanding' <= creditLimit
    BY <1>3, <2>2
  <2> QED BY <1>1, <1>2, <2>1, <2>3, Zenon
<1>5. OpenIsCovered'
  BY <1>4, Zenon DEF OpenIsCovered
<1> QED BY <1>1, <1>2, <1>3, <1>5, Zenon DEF CreditInv

\* What an approval of a credit order may never do.
ApprovedWithinLimit ==
    \A i \in Bills :
        MethodOf[i] = "CREDIT" /\ bill[i] = "none" /\ bill'[i] = "ISSUED" => Outstanding' <= creditLimit

LEMMA CreditStep ==
    ASSUME CreditInv, [BillingNext]_billingVars PROVE CreditInv' /\ ApprovedWithinLimit
<1>1. ASSUME CreditInv', \A i \in Bills : bill'[i] = "ISSUED" => bill[i] = "ISSUED" PROVE CreditInv' /\ ApprovedWithinLimit
  BY <1>1, Zenon DEF ApprovedWithinLimit
<1>2. CASE UNCHANGED <<bill, creditLimit, issuing>>
  BY <1>1, <1>2, CreditQuiet, Zenon
<1>3. ASSUME NEW i \in Bills, BeginIssue(i) PROVE CreditInv' /\ ApprovedWithinLimit
  <2>1. bill' = bill
    BY <1>3 DEF BeginIssue
  <2> QED BY <1>1, <1>3, <2>1, BeginIssueCovered
<1>4. ASSUME NEW i \in Bills, CommitIssue(i) PROVE CreditInv' /\ ApprovedWithinLimit
  <2>1. CreditInv' /\ (MethodOf[i] = "CREDIT" => Outstanding' <= creditLimit)
    BY <1>4, CommitIssueCovered
  <2>2. \A j \in Bills : bill[j] = "none" /\ bill'[j] = "ISSUED" => j = i
    BY <1>4 DEF CommitIssue, CreditInv
  <2> QED BY <2>1, <2>2, Zenon DEF ApprovedWithinLimit
<1>5. ASSUME NEW i \in Bills, ApplySettlement(i) \/ VoidInvoice(i) PROVE CreditInv' /\ ApprovedWithinLimit
  <2>1. CreditInv'
    BY <1>5, ClosingCovered
  <2>2. \A j \in Bills : bill'[j] = "ISSUED" => bill[j] = "ISSUED"
    BY <1>5 DEF ApplySettlement, VoidInvoice, CreditInv
  <2> QED BY <1>1, <2>1, <2>2
<1>6. ASSUME NEW l \in CreditLimits, SetCreditLimit(l) PROVE CreditInv' /\ ApprovedWithinLimit
  <2>1. bill' = bill /\ creditLimit' = l /\ issuing' = Doomed(issuing, {}) /\ l \in Int
    BY <1>6, BillingAssumption DEF SetCreditLimit
  <2> QED BY <1>1, <2>1, LimitChanges
<1>7. CASE LedgerNext
  <2>1. UNCHANGED <<bill, creditLimit, issuing>>
    BY <1>7 DEF LedgerNext, SetCommissionTerm, SetCashbackProgramme, RecordPayment, ConfirmDeposit,
                BeginPayout, CommitPayout, limits, billVars
  <2> QED BY <1>2, <2>1
<1>8. ASSUME NEW r \in LimitRequests, CheckLimitRequest(r) \/ InsertLimitRequest(r)
      PROVE  CreditInv' /\ ApprovedWithinLimit
  <2>1. UNCHANGED <<bill, creditLimit, issuing>>
    BY <1>8 DEF CheckLimitRequest, InsertLimitRequest, billVars
  <2> QED BY <1>2, <2>1
<1>9. ASSUME NEW r \in LimitRequests, NEW l \in CreditLimits, ResolveLimitRequest(r, l)
      PROVE  CreditInv' /\ ApprovedWithinLimit
  <2>1. CASE creditLimit' = l /\ issuing' = Doomed(issuing, {})
    <3>1. bill' = bill /\ l \in Int
      BY <1>9, BillingAssumption DEF ResolveLimitRequest
    <3> QED BY <1>1, <2>1, <3>1, LimitChanges
  <2>2. CASE UNCHANGED <<creditLimit, issuing>>
    <3>1. bill' = bill
      BY <1>9 DEF ResolveLimitRequest
    <3> QED BY <1>2, <2>2, <3>1
  <2> QED BY <1>9, <2>1, <2>2 DEF ResolveLimitRequest
<1>10. CASE UNCHANGED billingVars
  <2>1. UNCHANGED <<bill, creditLimit, issuing>>
    BY <1>10 DEF billingVars, limits, billVars
  <2> QED BY <1>2, <2>1
<1> QED
  BY <1>3, <1>4, <1>5, <1>6, <1>7, <1>8, <1>9, <1>10 DEF BillingNext, IssueNext, LimitNext

LEMMA CreditInitially == BillingInit => CreditInv
<1> SUFFICES ASSUME BillingInit PROVE CreditInv
  OBVIOUS
<1>1. Owing = {} /\ Units(AmountOf, Owing) = {}
  BY DEF BillingInit, Owing, Units
<1>2. IsFiniteSet(Owing) /\ IsFiniteSet(Units(AmountOf, Owing))
  BY <1>1, FS_EmptySet, Zenon
<1>3. \A i \in Bills : issuing[i].pc = "idle"
  BY DEF BillingInit
<1>4. DOMAIN issuing = Bills /\ creditLimit \in Int /\ bill \in [Bills -> {"none", "ISSUED", "SETTLED", "VOID"}]
  BY DEF BillingInit
<1>5. OpenIsCovered
  BY <1>3 DEF OpenIsCovered
<1> QED BY <1>2, <1>4, <1>5, Zenon DEF CreditInv

\* However many credit orders are approved at once, and while the limit is being changed, no
\* approval commits that takes the client past the limit in force.
THEOREM ApprovalsAreCovered == BillingSpec => CreditIsCovered
<1>1. ASSUME CreditInv, [BillingNext]_billingVars
      PROVE  CreditInv' /\ [ApprovedWithinLimit]_billingVars
  BY <1>1, CreditStep
<1>2. BillingSpec => [][ApprovedWithinLimit]_billingVars
  BY <1>1, CreditInitially, PTL DEF BillingSpec
<1> QED BY <1>2, PTL DEF CreditIsCovered, ApprovedWithinLimit
-----------------------------------------------------------------------------
(***************************************************************************)
(* The ledger follows the invoices.  An invoice that is owed or paid has   *)
(* at most one commission movement, confirmed and not reversed; voiding    *)
(* adds that movement's own reversal, whatever the terms are by then.      *)
(***************************************************************************)
Own(l, i, kind) == {m \in l : m.source = i /\ m.kind = kind}
Single(S) == \A x, y \in S : x = y
Plain(S) == Single(S) /\ \A m \in S : m.state = "CONFIRMED" /\ ~m.reversal
Reversed(m) == [m EXCEPT !.reversal = TRUE]
Netted(S) ==
    S = {} \/ \E m \in S : ~m.reversal /\ m.state = "CONFIRMED" /\ S = {m, Reversed(m)}

MovementDoc(m) ==
    m \in [kind: AccountMovementKind, source: {m.source}, amount: Int, state: {"RECORDED", "CONFIRMED"},
           reversal: BOOLEAN, n: {m.n}]

Follows(l, i, status) ==
    /\ status = "none" => Own(l, i, "COMMISSION_CHARGED") = {}
    /\ status \in {"ISSUED", "SETTLED"} => Plain(Own(l, i, "COMMISSION_CHARGED"))
    /\ status = "VOID" => Netted(Own(l, i, "COMMISSION_CHARGED"))
    /\ status # "SETTLED" => Own(l, i, "CASHBACK_CREDITED") = {}
    /\ status = "SETTLED" => Single(Own(l, i, "CASHBACK_CREDITED"))
    /\ status # "VOID" => Single(Own(l, i, "PAYMENT_RECORDED")) /\ Single(Own(l, i, "CASHBACK_PAID_OUT"))

RatesTyped ==
    /\ term \in Terms \cup {NoRate} /\ programme \in Terms \cup {NoRate}
    /\ DOMAIN issuing = Bills
    /\ \A i \in Bills : issuing[i].pc = "open" => bill[i] = "none" /\ issuing[i].term \in Terms \cup {NoRate}
    /\ bill \in [Bills -> {"none", "ISSUED", "SETTLED", "VOID"}]

LedgerDocs == \A m \in ledger : MovementDoc(m) /\ (m.state = "RECORDED" => m.kind = "PAYMENT_RECORDED")

FollowInv == RatesTyped /\ LedgerDocs /\ \A i \in Bills : Follows(ledger, i, bill[i])

\* A sum of nothing, and of two.
LEMMA SumOfNone == ASSUME NEW f PROVE SumOf(f, {}) = 0
<1> DEFINE g == [s \in SUBSET {} |-> 0]
           h == CHOOSE iter : Folds(f, {}, iter)
<1>1. Folds(f, {}, g)
  BY DEF Folds
<1>2. Folds(f, {}, h)
  BY <1>1, Zenon
<1>3. SumOf(f, {}) = h[{}]
  BY SumIsFold, Zenon
<1> HIDE DEF h
<1> QED BY <1>2, <1>3, FoldUnfolds

LEMMA SumOfTwo ==
    ASSUME NEW f, NEW a, NEW b, a # b, f[a] \in Int, f[b] \in Int
    PROVE  SumOf(f, {a, b}) = f[a] + f[b]
<1> DEFINE S == {a, b}
           h == CHOOSE iter : Folds(f, S, iter)
           g == [s \in SUBSET S |-> (IF a \in s THEN f[a] ELSE 0) + (IF b \in s THEN f[b] ELSE 0)]
<1>1. ASSUME NEW s \in SUBSET S, s # {}
      PROVE  g[s] = f[Pick(s)] + g[s \ {Pick(s)}]
  <2> DEFINE x == Pick(s)
  <2>1. x \in s
    BY <1>1 DEF Pick
  <2>2. x = a \/ x = b
    BY <1>1, <2>1
  <2> HIDE DEF x
  <2>3. g[s] = f[x] + g[s \ {x}]
    BY <2>1, <2>2
  <2> QED BY <2>3 DEF x
<1>2. g[{}] = 0
  OBVIOUS
<1>3. Folds(f, S, g)
  <2>1. g = [s \in SUBSET S |-> g[s]]
    OBVIOUS
  <2> HIDE DEF g, S
  <2> QED BY <1>1, <1>2, <2>1 DEF Folds
<1>4. Folds(f, S, h)
  BY <1>3, Zenon
<1>5. SumOf(f, S) = h[S]
  BY SumIsFold, Zenon
<1>6. g[S] = f[a] + f[b]
  OBVIOUS
<1>7. IsFiniteSet(S)
  <2>1. IsFiniteSet({a})
    BY FS_Singleton, Zenon
  <2>2. S = {a} \cup {b}
    OBVIOUS
  <2> QED BY <2>1, <2>2, FS_AddElement, Zenon
<1> HIDE DEF g, h, S
<1>8. h[S] = g[S]
  BY <1>3, <1>4, <1>7, FoldsAgree, Zenon
<1> QED BY <1>5, <1>6, <1>8 DEF S

\* What an invoice with a reversed commission nets to.
LEMMA NettedIsNothing ==
    ASSUME NEW l, NEW i, \A m \in l : MovementDoc(m), Netted(Own(l, i, "COMMISSION_CHARGED")),
           \A m \in Own(l, i, "COMMISSION_CHARGED") : m.state = "CONFIRMED"
    PROVE  ConfirmedBalance({m \in l : m.source = i}, "COMMISSION_CHARGED") = 0
<1> DEFINE S == Own(l, i, "COMMISSION_CHARGED")
           f == [m \in S |-> IF m.reversal THEN -m.amount ELSE m.amount]
<1>1. {m \in {m \in l : m.source = i} : m.kind = "COMMISSION_CHARGED" /\ m.state = "CONFIRMED"} = S
  BY DEF Own
<1>2. ConfirmedBalance({m \in l : m.source = i}, "COMMISSION_CHARGED") = SumOf(f, S)
  BY <1>1, Zenon DEF ConfirmedBalance
<1>3. CASE S = {}
  BY <1>2, <1>3, SumOfNone, Zenon
<1>4. CASE S # {}
  <2>1. PICK m \in S : ~m.reversal /\ S = {m, Reversed(m)}
    BY <1>4 DEF Netted
  <2> DEFINE x == Reversed(m)
  <2>2. m.amount \in Int /\ x \in S /\ MovementDoc(m)
    BY <2>1 DEF Own, MovementDoc
  <2>3. x.reversal = TRUE /\ x.amount = m.amount
    BY <2>2 DEF MovementDoc, Reversed
  <2>4. x # m
    BY <2>1, <2>3
  <2>5. f[m] = m.amount /\ f[x] = -m.amount
    BY <2>1, <2>2, <2>3
  <2> HIDE DEF x, f, S
  <2>6. f[m] \in Int /\ f[x] \in Int /\ f[m] + f[x] = 0
    BY <2>2, <2>5
  <2>7. SumOf(f, {m, x}) = f[m] + f[x]
    BY <2>4, <2>6, SumOfTwo, Zenon
  <2> QED BY <1>2, <2>1, <2>6, <2>7, Zenon DEF x
<1> QED BY <1>3, <1>4

\* The property, from the invariant.
LEMMA SingleCounts ==
    ASSUME NEW S, Single(S) PROVE Cardinality(S) <= 1
<1>1. CASE S = {}
  <2>1. Cardinality(S) = 0
    BY <1>1, FS_EmptySet, Zenon
  <2> QED BY <2>1
<1>2. CASE S # {}
  <2>1. PICK x : S = {x}
    BY <1>2 DEF Single
  <2>2. Cardinality(S) = 1
    BY <2>1, FS_Singleton, Zenon
  <2> QED BY <2>2
<1> QED BY <1>1, <1>2

LEMMA FollowImplies == FollowInv => LedgerFollowsInvoices
<1> SUFFICES ASSUME FollowInv, NEW i \in Bills
             PROVE  /\ bill[i] \in {"none", "VOID"} =>
                          ConfirmedBalance({m \in ledger : m.source = i}, "COMMISSION_CHARGED") = 0
                    /\ bill[i] # "SETTLED" => Own(ledger, i, "CASHBACK_CREDITED") = {}
                    /\ bill[i] # "VOID" => \A kind \in AccountMovementKind : Cardinality(Own(ledger, i, kind)) <= 1
  BY Zenon DEF LedgerFollowsInvoices, Own
<1>1. /\ Follows(ledger, i, bill[i]) /\ \A m \in ledger : MovementDoc(m)
      /\ bill[i] \in {"none", "ISSUED", "SETTLED", "VOID"}
  BY DEF FollowInv, LedgerDocs, RatesTyped
<1>2. \A m \in Own(ledger, i, "COMMISSION_CHARGED") : m.state = "CONFIRMED"
  BY <1>1 DEF FollowInv, LedgerDocs, Own, MovementDoc
<1>3. bill[i] \in {"none", "VOID"} =>
          ConfirmedBalance({m \in ledger : m.source = i}, "COMMISSION_CHARGED") = 0
  <2>1. bill[i] \in {"none", "VOID"} => Netted(Own(ledger, i, "COMMISSION_CHARGED"))
    BY <1>1 DEF Follows, Netted
  <2> QED BY <1>1, <1>2, <2>1, NettedIsNothing, Zenon
<1>4. bill[i] # "VOID" => \A kind \in AccountMovementKind : Single(Own(ledger, i, kind))
  BY <1>1 DEF Follows, AccountMovementKind, Plain, Single
<1>5. bill[i] # "VOID" => \A kind \in AccountMovementKind : Cardinality(Own(ledger, i, kind)) <= 1
  BY <1>4, SingleCounts, Zenon
<1>6. bill[i] # "SETTLED" => Own(ledger, i, "CASHBACK_CREDITED") = {}
  BY <1>1 DEF Follows
<1> QED BY <1>3, <1>5, <1>6

\* One movement more.
LEMMA OwnAdd ==
    ASSUME NEW l, NEW x, NEW i, NEW kind
    PROVE  /\ x.source # i \/ x.kind # kind => Own(l \cup {x}, i, kind) = Own(l, i, kind)
           /\ x.source = i /\ x.kind = kind => Own(l \cup {x}, i, kind) = Own(l, i, kind) \cup {x}
BY DEF Own

Recorded(l, new, kind, source, state) ==
    \E x : /\ new = l \cup {x} /\ MovementDoc(x)
           /\ x.kind = kind /\ x.source = source /\ x.state = state /\ x.reversal = FALSE

LEMMA CreateRecords ==
    ASSUME NEW l, NEW kind \in AccountMovementKind, NEW source, NEW amount \in Int,
           NEW state \in {"RECORDED", "CONFIRMED"}
    PROVE  Recorded(l, CreateMovement(l, AccountMovement(kind, source, amount, state, FALSE)), kind, source, state)
<1> DEFINE m == AccountMovement(kind, source, amount, state, FALSE)
           same == {x \in l : x.kind = m.kind /\ x.source = m.source /\ x.reversal = m.reversal}
           k == Cardinality(same) + 1
           new == [kind |-> m.kind, source |-> m.source, amount |-> m.amount, state |-> m.state,
                   reversal |-> m.reversal, n |-> k]
<1>1. CreateMovement(l, m) = l \cup {new}
  BY DEF CreateMovement
<1>2. /\ m.kind = kind /\ m.source = source /\ m.amount = amount /\ m.state = state
      /\ m.reversal = FALSE
  BY DEF AccountMovement
<1> HIDE DEF m, k
<1>3. new.kind = kind /\ new.source = source /\ new.state = state /\ new.reversal = FALSE
  BY <1>2
<1>4. MovementDoc(new)
  BY <1>2 DEF MovementDoc
<1> HIDE DEF new
<1> QED BY <1>1, <1>3, <1>4, Zenon DEF Recorded, m

LEMMA AccruedRecords ==
    ASSUME NEW l, NEW kind \in AccountMovementKind, NEW rate \in Terms \cup {NoRate}, NEW i \in Bills
    PROVE  \/ Accrued(l, kind, rate, i) = l
           \/ Recorded(l, Accrued(l, kind, rate, i), kind, i, "CONFIRMED")
<1> DEFINE amount == ComputeAmount(rate, AmountOf[i])
<1>1. rate.rate \in Nat /\ AmountOf[i] \in Nat
  BY BillingAssumption DEF NoRate
<1>2. amount \in Int
  <2>1. AmountOf[i] * rate.rate \in Int
    BY <1>1
  <2>2. (AmountOf[i] * rate.rate + 50) \div 100 \in Int
    BY <2>1
  <2> QED BY <2>1, <2>2 DEF ComputeAmount
<1> HIDE DEF amount
<1>3. Accrued(l, kind, rate, i) =
         IF amount <= 0 THEN l
         ELSE CreateMovement(l, AccountMovement(kind, i, amount, "CONFIRMED", FALSE))
  BY DEF Accrued, amount
<1>4. Recorded(l, CreateMovement(l, AccountMovement(kind, i, amount, "CONFIRMED", FALSE)), kind, i, "CONFIRMED")
  BY <1>2, CreateRecords
<1> QED BY <1>3, <1>4, Zenon

\* A movement of another source, or the first payment of a source, disturbs nothing.
LEMMA FollowsAdd ==
    ASSUME NEW l, NEW x, NEW i, NEW status, Follows(l, i, status),
           \/ x.source # i
           \/ x.kind \in {"PAYMENT_RECORDED", "CASHBACK_PAID_OUT"} /\ Own(l, i, x.kind) = {}
    PROVE  Follows(l \cup {x}, i, status)
<1> DEFINE new == l \cup {x}
<1>1. \A kind : x.source # i \/ x.kind # kind => Own(new, i, kind) = Own(l, i, kind)
  BY DEF Own
<1>2. x.source = i => Own(new, i, x.kind) = Own(l, i, x.kind) \cup {x}
  BY OwnAdd
<1>3. x.source = i => Own(new, i, x.kind) = {x} /\ x.kind \in {"PAYMENT_RECORDED", "CASHBACK_PAID_OUT"}
  BY <1>2
<1> HIDE DEF new
<1>4. /\ Own(new, i, "COMMISSION_CHARGED") = Own(l, i, "COMMISSION_CHARGED")
      /\ Own(new, i, "CASHBACK_CREDITED") = Own(l, i, "CASHBACK_CREDITED")
  BY <1>1
<1>5. \A kind \in {"PAYMENT_RECORDED", "CASHBACK_PAID_OUT"} :
          Own(new, i, kind) = Own(l, i, kind) \/ Single(Own(new, i, kind))
  BY <1>1, <1>3 DEF Single
<1>6. Follows(new, i, status)
  BY <1>4, <1>5 DEF Follows
<1> QED BY <1>6 DEF new

LEMMA DocsAdd ==
    ASSUME LedgerDocs, NEW kind, NEW source, NEW state, Recorded(ledger, ledger', kind, source, state),
           state = "RECORDED" => kind = "PAYMENT_RECORDED"
    PROVE  LedgerDocs'
BY DEF LedgerDocs, Recorded

\* The parts of the invariant that are not about one invoice.
LEMMA FollowQuiet ==
    ASSUME FollowInv, UNCHANGED <<bill, ledger>>, RatesTyped' PROVE FollowInv'
BY Zenon DEF FollowInv, LedgerDocs

LEMMA TypedWhenDoomed ==
    ASSUME RatesTyped, issuing' = Doomed(issuing, {}), UNCHANGED <<bill, term, programme>> PROVE RatesTyped'
<1>1. DOMAIN issuing' = Bills
  BY DEF Doomed
<1>2. \A j \in Bills : issuing'[j].pc = "open" => issuing'[j] = issuing[j]
  BY DEF Doomed
<1> QED BY <1>1, <1>2 DEF RatesTyped

\* Issuing: the commission is the invoice's first movement, if there is one.
LEMMA CommitIssueFollows ==
    ASSUME FollowInv, NEW i \in Bills, CommitIssue(i) PROVE FollowInv'
<1> DEFINE closed == [issuing EXCEPT ![i] = [pc |-> "idle"]]
<1>1. /\ issuing[i].pc = "open" /\ bill' = [bill EXCEPT ![i] = "ISSUED"]
      /\ ledger' = Accrued(ledger, "COMMISSION_CHARGED", issuing[i].term, i)
      /\ issuing' = IF MethodOf[i] = "CREDIT" THEN Doomed(closed, {i}) ELSE closed
      /\ UNCHANGED <<term, programme>>
  BY Zenon DEF CommitIssue, rates
<1>2. bill[i] = "none" /\ issuing[i].term \in Terms \cup {NoRate}
  BY <1>1 DEF FollowInv, RatesTyped
<1>3. \/ ledger' = ledger
      \/ Recorded(ledger, ledger', "COMMISSION_CHARGED", i, "CONFIRMED")
  BY <1>1, <1>2, AccruedRecords DEF AccountMovementKind
<1>4. LedgerDocs'
  BY <1>3, DocsAdd DEF FollowInv, LedgerDocs
<1>5. bill'[i] = "ISSUED" /\ \A j \in Bills : j # i => bill'[j] = bill[j]
  BY <1>1 DEF FollowInv, RatesTyped
<1>6. RatesTyped'
  <2>1. DOMAIN closed = Bills /\ closed[i].pc = "idle" /\ \A j \in Bills : j # i => closed[j] = issuing[j]
    BY DEF FollowInv, RatesTyped
  <2> HIDE DEF closed
  <2>2. DOMAIN issuing' = Bills
    BY <1>1, <2>1 DEF Doomed
  <2>3. \A j \in Bills : issuing'[j].pc = "open" => issuing'[j] = closed[j]
    BY <1>1, <2>1 DEF Doomed
  <2>4. \A j \in Bills : issuing'[j].pc = "open" => j # i /\ issuing'[j] = issuing[j]
    BY <2>1, <2>3
  <2>5. bill' \in [Bills -> {"none", "ISSUED", "SETTLED", "VOID"}]
    BY <1>1 DEF FollowInv, RatesTyped
  <2> QED BY <1>1, <1>5, <2>2, <2>4, <2>5 DEF FollowInv, RatesTyped
<1>7. ASSUME NEW j \in Bills PROVE Follows(ledger', j, bill'[j])
  <2>1. Follows(ledger, j, bill[j])
    BY DEF FollowInv
  <2>2. CASE ledger' = ledger
    BY <1>2, <1>5, <2>1, <2>2 DEF Follows, Plain, Single
  <2>3. CASE Recorded(ledger, ledger', "COMMISSION_CHARGED", i, "CONFIRMED")
    <3>1. PICK x : /\ ledger' = ledger \cup {x} /\ x.kind = "COMMISSION_CHARGED" /\ x.source = i
                   /\ x.state = "CONFIRMED" /\ x.reversal = FALSE
      BY <2>3 DEF Recorded
    <3>2. CASE j # i
      <4>1. Follows(ledger', j, bill[j])
        BY <2>1, <3>1, <3>2, FollowsAdd, Zenon
      <4> QED BY <1>5, <3>2, <4>1
    <3>3. CASE j = i
      <4>1. Own(ledger, i, "COMMISSION_CHARGED") = {}
        BY <1>2, <2>1, <3>3 DEF Follows
      <4>2. Own(ledger', i, "COMMISSION_CHARGED") = {x}
        BY <3>1, <4>1 DEF Own
      <4>3. \A kind \in {"CASHBACK_CREDITED", "PAYMENT_RECORDED", "CASHBACK_PAID_OUT"} :
                Own(ledger', i, kind) = Own(ledger, i, kind)
        BY <3>1 DEF Own
      <4>4. Plain(Own(ledger', i, "COMMISSION_CHARGED"))
        BY <3>1, <4>2 DEF Plain, Single
      <4> QED BY <1>2, <1>5, <2>1, <3>3, <4>3, <4>4 DEF Follows
    <3> QED BY <3>2, <3>3
  <2> QED BY <1>3, <2>2, <2>3
<1> QED BY <1>4, <1>6, <1>7, Zenon DEF FollowInv

\* Settling: the cashback is the invoice's first.
LEMMA SettlementFollows ==
    ASSUME FollowInv, NEW i \in Bills, ApplySettlement(i) PROVE FollowInv'
<1>1. /\ bill[i] = "ISSUED" /\ bill' = [bill EXCEPT ![i] = "SETTLED"]
      /\ ledger' = Accrued(ledger, "CASHBACK_CREDITED", programme, i)
      /\ UNCHANGED <<issuing, term, programme>>
  BY DEF ApplySettlement, rates
<1>3. \/ ledger' = ledger
      \/ Recorded(ledger, ledger', "CASHBACK_CREDITED", i, "CONFIRMED")
  BY <1>1, AccruedRecords DEF AccountMovementKind, FollowInv, RatesTyped
<1>4. LedgerDocs'
  BY <1>3, DocsAdd DEF FollowInv, LedgerDocs
<1>5. bill'[i] = "SETTLED" /\ \A j \in Bills : j # i => bill'[j] = bill[j]
  BY <1>1 DEF FollowInv, RatesTyped
<1>6. RatesTyped'
  BY <1>1, <1>5 DEF FollowInv, RatesTyped
<1>7. ASSUME NEW j \in Bills PROVE Follows(ledger', j, bill'[j])
  <2>1. Follows(ledger, j, bill[j])
    BY DEF FollowInv
  <2>2. CASE ledger' = ledger
    BY <1>1, <1>5, <2>1, <2>2 DEF Follows, Single
  <2>3. CASE Recorded(ledger, ledger', "CASHBACK_CREDITED", i, "CONFIRMED")
    <3>1. PICK x : ledger' = ledger \cup {x} /\ x.kind = "CASHBACK_CREDITED" /\ x.source = i
      BY <2>3 DEF Recorded
    <3>2. CASE j # i
      <4>1. Follows(ledger', j, bill[j])
        BY <2>1, <3>1, <3>2, FollowsAdd, Zenon
      <4> QED BY <1>5, <3>2, <4>1
    <3>3. CASE j = i
      <4>1. Own(ledger, i, "CASHBACK_CREDITED") = {}
        BY <1>1, <2>1, <3>3 DEF Follows
      <4>2. Own(ledger', i, "CASHBACK_CREDITED") = {x}
        BY <3>1, <4>1 DEF Own
      <4>3. \A kind \in {"COMMISSION_CHARGED", "PAYMENT_RECORDED", "CASHBACK_PAID_OUT"} :
                Own(ledger', i, kind) = Own(ledger, i, kind)
        BY <3>1 DEF Own
      <4>4. Single(Own(ledger', i, "CASHBACK_CREDITED"))
        BY <4>2 DEF Single
      <4> QED BY <1>1, <1>5, <2>1, <3>3, <4>3, <4>4 DEF Follows
    <3> QED BY <3>2, <3>3
  <2> QED BY <1>3, <2>2, <2>3
<1> QED BY <1>4, <1>6, <1>7, Zenon DEF FollowInv

LEMMA ReversedShape ==
    ASSUME NEW m, MovementDoc(m)
    PROVE  LET x == Reversed(m) IN
           /\ MovementDoc(x) /\ x.source = m.source /\ x.kind = m.kind /\ x.state = m.state
           /\ x.reversal = TRUE
BY DEF MovementDoc, Reversed

\* Voiding: each movement of the invoice gets its own reversal, the others none.
LEMMA VoidFollows ==
    ASSUME FollowInv, NEW i \in Bills, VoidInvoice(i) PROVE FollowInv'
<1> DEFINE originals == {m \in ledger : m.source = i /\ m.state = "CONFIRMED" /\ ~m.reversal}
           reversed == {m \in originals : \E x \in ledger : x.reversal /\ x.source = i
                                                            /\ x.kind = m.kind /\ x.n = m.n}
           todo == originals \ reversed
           added == {Reversed(m) : m \in todo}
<1>1. /\ bill[i] = "ISSUED" /\ bill' = [bill EXCEPT ![i] = "VOID"]
      /\ UNCHANGED <<issuing, term, programme>>
  BY DEF VoidInvoice, rates
<1>2. ledger' = ledger \cup added
  BY Zenon DEF VoidInvoice, ReverseMovementsForInvoice, Reversed
<1>3. \A m \in todo : m \in ledger /\ m.source = i /\ m.state = "CONFIRMED" /\ MovementDoc(m)
  BY DEF FollowInv, LedgerDocs
<1>4. \A m \in Own(ledger, i, "COMMISSION_CHARGED") : m \in todo
  <2>1. Plain(Own(ledger, i, "COMMISSION_CHARGED"))
    BY <1>1 DEF FollowInv, Follows
  <2>2. ASSUME NEW m \in Own(ledger, i, "COMMISSION_CHARGED") PROVE m \in originals /\ m \notin reversed
    BY <2>1, <2>2 DEF Own, Plain, Single
  <2> QED BY <2>2
<1> HIDE DEF todo
<1>5. \A x \in added : /\ x.source = i /\ x.state = "CONFIRMED" /\ MovementDoc(x)
                       /\ \E m \in todo : x = Reversed(m) /\ x.kind = m.kind
  BY <1>3, ReversedShape
<1>6. LedgerDocs'
  <2> HIDE DEF added
  <2> QED BY <1>2, <1>5 DEF FollowInv, LedgerDocs
<1>7. bill'[i] = "VOID" /\ \A j \in Bills : j # i => bill'[j] = bill[j]
  BY <1>1 DEF FollowInv, RatesTyped
<1>8. RatesTyped'
  BY <1>1, <1>7 DEF FollowInv, RatesTyped
<1>9. ASSUME NEW j \in Bills, j # i PROVE Follows(ledger', j, bill'[j])
  <2>1. \A kind : Own(ledger', j, kind) = Own(ledger, j, kind)
    <3> HIDE DEF added
    <3> QED BY <1>2, <1>5, <1>9 DEF Own
  <2>2. Follows(ledger, j, bill'[j])
    BY <1>7, <1>9 DEF FollowInv
  <2> QED BY <2>1, <2>2 DEF Follows
<1>10. Follows(ledger', i, "VOID")
  <2>1. Follows(ledger, i, "ISSUED")
    BY <1>1 DEF FollowInv
  <2>2. Own(ledger', i, "CASHBACK_CREDITED") = {}
    <3>1. Own(ledger, i, "CASHBACK_CREDITED") = {}
      BY <2>1 DEF Follows
    <3> HIDE DEF added
    <3> QED BY <1>2, <1>3, <1>5, <3>1 DEF Own
  <2>3. Netted(Own(ledger', i, "COMMISSION_CHARGED"))
    <3> DEFINE S == Own(ledger, i, "COMMISSION_CHARGED")
               T == Own(ledger', i, "COMMISSION_CHARGED")
    <3>1. Plain(S)
      BY <2>1 DEF Follows
    <3>2. \A m : m \in todo /\ m.kind = "COMMISSION_CHARGED" => m \in S
      BY <1>3 DEF Own
    <3>3. CASE S = {}
      <4>1. T = {}
        <5> HIDE DEF added
        <5> QED BY <1>2, <1>5, <3>2, <3>3 DEF Own
      <4> QED BY <4>1 DEF Netted
    <3>4. CASE S # {}
      <4>1. PICK m \in S : S = {m}
        BY <3>1, <3>4 DEF Plain, Single
      <4>2. m \in todo /\ m.kind = "COMMISSION_CHARGED"
        BY <1>4 DEF Own
      <4>3. Reversed(m) \in added
        BY <4>2
      <4>4. \A x \in added : x.kind = "COMMISSION_CHARGED" => x = Reversed(m)
        <5> HIDE DEF added, S
        <5> QED BY <1>5, <3>2, <4>1
      <4>5. Reversed(m).source = i /\ Reversed(m).kind = "COMMISSION_CHARGED"
        BY <1>3, <4>2, ReversedShape
      <4> HIDE DEF added
      <4>6. \A x : x \in T <=> x = m \/ x = Reversed(m)
        BY <1>2, <4>1, <4>3, <4>4, <4>5 DEF Own
      <4>7. T = {m, Reversed(m)}
        BY <4>6
      <4>8. m \in T /\ ~m.reversal /\ m.state = "CONFIRMED"
        BY <3>1, <4>7 DEF Plain
      <4> HIDE DEF T
      <4>9. Netted(T)
        BY <4>7, <4>8, Zenon DEF Netted
      <4> QED BY <4>9 DEF T
    <3> QED BY <3>3, <3>4
  <2> QED BY <2>2, <2>3 DEF Follows
<1> QED BY <1>6, <1>7, <1>8, <1>9, <1>10, Zenon DEF FollowInv

\* Payments: the first of their source, and confirmed in place.
LEMMA PaymentFollows ==
    ASSUME FollowInv, NEW kind \in {"PAYMENT_RECORDED", "CASHBACK_PAID_OUT"}, NEW source, NEW state,
           \A m \in ledger : ~(m.kind = kind /\ m.source = source),
           Recorded(ledger, ledger', kind, source, state),
           state = "RECORDED" => kind = "PAYMENT_RECORDED",
           UNCHANGED <<bill, issuing, term, programme>>
    PROVE  FollowInv'
<1>1. PICK x : ledger' = ledger \cup {x} /\ x.kind = kind /\ x.source = source
  BY DEF Recorded
<1>2. RatesTyped' /\ LedgerDocs'
  <2>1. LedgerDocs'
    BY DocsAdd DEF FollowInv
  <2> QED BY <2>1 DEF FollowInv, RatesTyped
<1>3. ASSUME NEW j \in Bills PROVE Follows(ledger', j, bill'[j])
  <2>1. Follows(ledger, j, bill[j])
    BY DEF FollowInv
  <2>2. \/ x.source # j
        \/ x.kind \in {"PAYMENT_RECORDED", "CASHBACK_PAID_OUT"} /\ Own(ledger, j, x.kind) = {}
    BY <1>1 DEF Own
  <2>3. Follows(ledger \cup {x}, j, bill[j])
    BY <2>1, <2>2, FollowsAdd, Zenon
  <2> QED BY <1>1, <2>3
<1> QED BY <1>2, <1>3, Zenon DEF FollowInv

LEMMA ConfirmFollows ==
    ASSUME FollowInv, NEW d \in Deposits, ConfirmDeposit(d) PROVE FollowInv'
<1>1. PICK m \in ledger : /\ m.source = d /\ m.state = "RECORDED"
                          /\ ledger' = (ledger \ {m}) \cup {[m EXCEPT !.state = "CONFIRMED"]}
                          /\ UNCHANGED <<limits, billVars, rates, payout>>
  BY DEF ConfirmDeposit
<1> DEFINE x == [m EXCEPT !.state = "CONFIRMED"]
<1>2. MovementDoc(m) /\ m.kind = "PAYMENT_RECORDED"
  BY <1>1 DEF FollowInv, LedgerDocs
<1>3. MovementDoc(x) /\ x.state = "CONFIRMED" /\ x.kind = m.kind /\ x.source = m.source
  BY <1>2 DEF MovementDoc
<1>4. ledger' = (ledger \ {m}) \cup {x}
  BY <1>1
<1> HIDE DEF x
<1>5. UNCHANGED <<bill, issuing, term, programme>>
  BY <1>1 DEF billVars, rates
<1>6. LedgerDocs'
  BY <1>3, <1>4 DEF FollowInv, LedgerDocs
<1>7. RatesTyped'
  BY <1>5 DEF FollowInv, RatesTyped
<1>8. ASSUME NEW j \in Bills PROVE Follows(ledger', j, bill'[j])
  <2>1. Follows(ledger, j, bill[j]) /\ bill'[j] = bill[j]
    BY <1>5 DEF FollowInv
  <2>2. \A kind \in {"COMMISSION_CHARGED", "CASHBACK_CREDITED", "CASHBACK_PAID_OUT"} :
            Own(ledger', j, kind) = Own(ledger, j, kind)
    BY <1>2, <1>3, <1>4 DEF Own
  <2>3. Single(Own(ledger, j, "PAYMENT_RECORDED")) => Single(Own(ledger', j, "PAYMENT_RECORDED"))
    <3>1. \A y \in Own(ledger', j, "PAYMENT_RECORDED") :
              \/ y = x /\ m \in Own(ledger, j, "PAYMENT_RECORDED")
              \/ y \in Own(ledger, j, "PAYMENT_RECORDED") \ {m}
      BY <1>2, <1>3, <1>4 DEF Own
    <3> QED BY <3>1 DEF Single
  <2> QED BY <2>1, <2>2, <2>3 DEF Follows
<1> QED BY <1>6, <1>7, <1>8, Zenon DEF FollowInv

LEMMA FollowStep ==
    ASSUME FollowInv, [BillingNext]_billingVars PROVE FollowInv'
<1>1. CASE UNCHANGED billingVars
  <2>1. UNCHANGED <<bill, ledger, issuing, term, programme>>
    BY <1>1 DEF billingVars, billVars, rates
  <2>2. RatesTyped'
    BY <2>1 DEF FollowInv, RatesTyped
  <2> QED BY <2>1, <2>2, FollowQuiet
<1>2. ASSUME NEW i \in Bills, BeginIssue(i) PROVE FollowInv'
  <2> DEFINE opened == [pc |-> "open", term |-> term]
  <2>1. /\ bill[i] = "none" /\ issuing' = [issuing EXCEPT ![i] = opened]
        /\ UNCHANGED <<bill, ledger, term, programme>>
    BY <1>2, Zenon DEF BeginIssue, rates
  <2>2. opened.term = term
    OBVIOUS
  <2> HIDE DEF opened
  <2>3. RatesTyped'
    BY <2>1, <2>2 DEF FollowInv, RatesTyped
  <2> QED BY <2>1, <2>3, FollowQuiet
<1>3. ASSUME NEW i \in Bills, CommitIssue(i) \/ ApplySettlement(i) \/ VoidInvoice(i) PROVE FollowInv'
  BY <1>3, CommitIssueFollows, SettlementFollows, VoidFollows
<1>4. ASSUME NEW l \in CreditLimits, SetCreditLimit(l) PROVE FollowInv'
  <2>1. issuing' = Doomed(issuing, {}) /\ UNCHANGED <<bill, ledger, term, programme>>
    BY <1>4 DEF SetCreditLimit, rates
  <2> QED BY <2>1, TypedWhenDoomed, FollowQuiet DEF FollowInv
<1>5. ASSUME NEW t \in Terms, SetCommissionTerm(t) \/ SetCashbackProgramme(t) PROVE FollowInv'
  <2>1. UNCHANGED <<bill, ledger, issuing>> /\ term' \in {term, t} /\ programme' \in {programme, t}
    BY <1>5 DEF SetCommissionTerm, SetCashbackProgramme, billVars
  <2>2. RatesTyped'
    BY <2>1 DEF FollowInv, RatesTyped
  <2> QED BY <2>1, <2>2, FollowQuiet
<1>6. ASSUME NEW d \in Deposits, RecordPayment(d) PROVE FollowInv'
  <2>1. /\ \A m \in ledger : ~(m.kind = "PAYMENT_RECORDED" /\ m.source = d)
        /\ ledger' = CreateMovement(ledger, AccountMovement("PAYMENT_RECORDED", d, DepositAmount, "RECORDED", FALSE))
        /\ UNCHANGED <<bill, issuing, term, programme>>
    BY <1>6 DEF RecordPayment, billVars, rates
  <2>2. Recorded(ledger, ledger', "PAYMENT_RECORDED", d, "RECORDED")
    <3>1. DepositAmount \in Int
      BY BillingAssumption
    <3> QED BY <2>1, <3>1, CreateRecords DEF AccountMovementKind
  <2> QED BY <2>1, <2>2, PaymentFollows
<1>7. ASSUME NEW d \in Deposits, ConfirmDeposit(d) PROVE FollowInv'
  BY <1>7, ConfirmFollows
<1>8. ASSUME NEW p \in Payouts, BeginPayout(p) PROVE FollowInv'
  <2>1. UNCHANGED <<bill, ledger, issuing, term, programme>>
    BY <1>8 DEF BeginPayout, billVars, rates
  <2>2. RatesTyped'
    BY <2>1 DEF FollowInv, RatesTyped
  <2> QED BY <2>1, <2>2, FollowQuiet
<1>9. ASSUME NEW p \in Payouts, CommitPayout(p) PROVE FollowInv'
  <2>1. UNCHANGED <<bill, issuing, term, programme>>
    BY <1>9 DEF CommitPayout, billVars, rates
  <2>2. CASE UNCHANGED ledger
    <3>1. RatesTyped'
      BY <2>1 DEF FollowInv, RatesTyped
    <3> QED BY <2>1, <2>2, <3>1, FollowQuiet
  <2>3. CASE ledger' # ledger
    <3>1. /\ \A m \in ledger : ~(m.kind = "CASHBACK_PAID_OUT" /\ m.source = PayoutReference[p])
          /\ ledger' = CreateMovement(ledger, AccountMovement("CASHBACK_PAID_OUT", PayoutReference[p],
                                                              PayoutAmount[p], "CONFIRMED", FALSE))
      BY <1>9, <2>3 DEF CommitPayout
    <3>2. PayoutAmount[p] \in Int
      BY BillingAssumption
    <3>3. Recorded(ledger, ledger', "CASHBACK_PAID_OUT", PayoutReference[p], "CONFIRMED")
      BY <3>1, <3>2, CreateRecords DEF AccountMovementKind
    <3> QED BY <2>1, <3>1, <3>3, PaymentFollows
  <2> QED BY <2>2, <2>3
<1>10. CASE LimitNext
  <2>1. UNCHANGED <<bill, ledger, term, programme>>
    BY <1>10 DEF LimitNext, CheckLimitRequest, InsertLimitRequest, ResolveLimitRequest, billVars, rates
  <2>2. issuing' = issuing \/ issuing' = Doomed(issuing, {})
    BY <1>10 DEF LimitNext, CheckLimitRequest, InsertLimitRequest, ResolveLimitRequest, billVars
  <2>3. RatesTyped'
    <3>1. CASE issuing' = issuing
      BY <2>1, <3>1 DEF FollowInv, RatesTyped
    <3>2. CASE issuing' = Doomed(issuing, {})
      BY <2>1, <3>2, TypedWhenDoomed DEF FollowInv
    <3> QED BY <2>2, <3>1, <3>2
  <2> QED BY <2>1, <2>3, FollowQuiet
<1> QED
  BY <1>1, <1>2, <1>3, <1>4, <1>5, <1>6, <1>7, <1>8, <1>9, <1>10 DEF BillingNext, IssueNext, LedgerNext

\* In every state, whatever rates were set meanwhile: a voided invoice nets to nothing in the
\* platform account, cashback exists only for a settled one, and nothing is booked twice.
THEOREM LedgerFollowsTheInvoices == BillingSpec => []LedgerFollowsInvoices
<1>1. BillingInit => FollowInv
  <2> SUFFICES ASSUME BillingInit PROVE FollowInv
    OBVIOUS
  <2>1. RatesTyped /\ LedgerDocs
    BY DEF BillingInit, RatesTyped, LedgerDocs
  <2>2. \A i \in Bills : Follows(ledger, i, "none")
    BY DEF BillingInit, Follows, Own, Single
  <2> QED BY <2>1, <2>2 DEF FollowInv, BillingInit
<1>2. BillingSpec => []FollowInv
  BY <1>1, FollowStep, PTL DEF BillingSpec
<1> QED BY <1>2, FollowImplies, PTL
=============================================================================
