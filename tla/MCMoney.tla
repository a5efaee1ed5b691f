------------------------------ MODULE MCMoney ------------------------------
(***************************************************************************)
(* Small instances of LitreLedger and CreditBilling for TLC.  The two      *)
(* share no document, so a behaviour steps one of them: part says which.   *)
(* The platform ledger and the client's limit meet only in issuing, so     *)
(* each is checked together with that and without the other.               *)
(***************************************************************************)
EXTENDS LitreLedger, CreditBilling, TLC

VARIABLE part

moneyVars == <<litreVars, billingVars, part>>

CONSTANTS o1, o2, c1, c2, f1, p1, p2, r1, r2

\* With 2 or 3 litres supplied: too much or exact for one, short or exact for the
\* other, and a balance smaller than the order that draws on it.
MCQuantity == o1 :> 2 @@ o2 :> 3
MCMethodOf == c1 :> "CREDIT" @@ c2 :> "CREDIT" @@ f1 :> "DEFERRED"
MCAmountOf == c1 :> 2 @@ c2 :> 3 @@ f1 :> 2
MCTerms == {[basis |-> "PERCENTAGE", rate |-> 50], [basis |-> "PER_UNIT", rate |-> 2]}
MCPayoutAmount == p1 :> 1 @@ p2 :> 2
MCSameReference == [p \in Payouts |-> "ref"]
MCOwnReference == p1 :> "ref1" @@ p2 :> "ref2"
MCCorrections == {-3}

\* Request slots are interchangeable.
MoneySymmetry == Permutations({r1, r2})

MoneyInit == LitreInit /\ BillingInit /\ part \in {"litres", "ledger", "limits"}

MoneyNext ==
    \/ part = "litres" /\ LitreNext /\ UNCHANGED <<billingVars, part>>
    \/ part = "ledger" /\ (IssueNext \/ LedgerNext) /\ UNCHANGED <<litreVars, part>>
    \/ part = "limits" /\ (IssueNext \/ LimitNext) /\ UNCHANGED <<litreVars, part>>

MoneySpec == MoneyInit /\ [][MoneyNext]_moneyVars
=============================================================================
