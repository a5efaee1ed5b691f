------------------------ MODULE LitreLedgerProofs ------------------------
(***************************************************************************)
(* Theorems about LitreLedger, for any orders, quantities and number of    *)
(* supplier-invoice requests in flight.                                    *)
(***************************************************************************)
EXTENDS LitreLedger, WellFoundedInduction, SequenceTheorems, TLAPS

(***************************************************************************)
(* The sequence operators the ledger is built from.                        *)
(***************************************************************************)
\* A set of naturals that is not empty has its least element for Min.
LEMMA MinIsMember ==
    ASSUME NEW S, S \subseteq Nat, S # {}
    PROVE  Min(S) \in S
<1>1. PICK x \in S : \A y \in S : ~(<<y, x>> \in OpToRel(<, Nat))
  BY NatLessThanWellFounded, WFMin, Zenon
<1>2. \A y \in S : x <= y
  <2> SUFFICES ASSUME NEW y \in S PROVE x <= y
    OBVIOUS
  <2>1. ~(y < x)
    BY <1>1 DEF OpToRel
  <2> QED BY <2>1
<1> QED BY <1>2 DEF Min

\* Removing one element shifts the later ones down by one place.
LEMMA RemoveAtProperties ==
    ASSUME NEW S, NEW s \in Seq(S), NEW i \in 1..Len(s)
    PROVE  /\ RemoveAt(s, i) \in Seq(S)
           /\ Len(RemoveAt(s, i)) = Len(s) - 1
           /\ \A j \in 1..(Len(s) - 1) : RemoveAt(s, i)[j] = s[IF j < i THEN j ELSE j + 1]
<1> DEFINE a == SubSeq(s, 1, i - 1)
           b == SubSeq(s, i + 1, Len(s))
<1>1. \A j \in 1..Len(s) : s[j] \in S
  OBVIOUS
<1>2. a \in Seq(S) /\ Len(a) = i - 1 /\ \A j \in 1..(i - 1) : a[j] = s[j]
  BY <1>1, SubSeqProperties
<1>3. b \in Seq(S) /\ Len(b) = Len(s) - i /\ \A j \in 1..(Len(s) - i) : b[j] = s[i + j]
  <2>1. b \in Seq(S) /\ Len(b) = (IF i + 1 <= Len(s) THEN Len(s) - (i + 1) + 1 ELSE 0)
        /\ \A j \in 1..(Len(s) - (i + 1) + 1) : b[j] = s[(i + 1) + j - 1]
    BY <1>1, SubSeqProperties
  <2> HIDE DEF b
  <2> QED BY <2>1
<1>4. RemoveAt(s, i) = a \o b
  BY DEF RemoveAt
<1> HIDE DEF a, b
<1>5. /\ a \o b \in Seq(S) /\ Len(a \o b) = Len(a) + Len(b)
      /\ \A j \in 1..(Len(a) + Len(b)) : (a \o b)[j] = IF j <= Len(a) THEN a[j] ELSE b[j - Len(a)]
  BY <1>2, <1>3, ConcatProperties
<1>6. \A j \in 1..(Len(s) - 1) : (a \o b)[j] = s[IF j < i THEN j ELSE j + 1]
  <2> SUFFICES ASSUME NEW j \in 1..(Len(s) - 1)
               PROVE  (a \o b)[j] = s[IF j < i THEN j ELSE j + 1]
    OBVIOUS
  <2>1. CASE j < i
    BY <1>2, <1>3, <1>5, <2>1
  <2>2. CASE ~(j < i)
    <3>1. (a \o b)[j] = b[j - (i - 1)]
      BY <1>2, <1>3, <1>5, <2>2
    <3>2. j - (i - 1) \in 1..(Len(s) - i) /\ i + (j - (i - 1)) = j + 1
      BY <2>2
    <3> QED BY <1>3, <2>2, <3>1, <3>2
  <2> QED BY <2>1, <2>2
<1> QED BY <1>2, <1>3, <1>4, <1>5, <1>6

\* A search finds a place that satisfies the test, or 0 when there is none.
LEMMA FirstMovementProperties ==
    ASSUME NEW b, NEW S, b.movements \in Seq(S), NEW o, NEW kinds
    PROVE  LET i == FirstMovement(b, o, kinds)
               fits(m) == m.orderId = o /\ m.kind \in kinds
           IN \/ i \in DOMAIN b.movements /\ fits(b.movements[i])
              \/ i = 0 /\ \A j \in DOMAIN b.movements : ~fits(b.movements[j])
<1> DEFINE ms == b.movements
           I == {j \in 1..Len(ms) : ms[j].orderId = o /\ ms[j].kind \in kinds}
<1>1. DOMAIN ms = 1..Len(ms) /\ I \subseteq Nat
  OBVIOUS
<1>2. FirstMovement(b, o, kinds) = IF I # {} THEN Min(I) ELSE 0
  BY DEF FirstMovement, SelectInSeq
<1>3. CASE I = {}
  BY <1>1, <1>2, <1>3
<1>4. CASE I # {}
  <2>1. Min(I) \in I
    BY <1>1, <1>4, MinIsMember
  <2> HIDE DEF I
  <2>2. FirstMovement(b, o, kinds) \in I
    BY <1>2, <1>4, <2>1
  <2> QED BY <1>1, <2>2 DEF I
<1> QED BY <1>3, <1>4
-----------------------------------------------------------------------------
(***************************************************************************)
(* Sums.  The running totals of n amounts exist, are determined by the     *)
(* amounts, and end in their sum; both by the least place where it would   *)
(* fail.                                                                   *)
(***************************************************************************)
Running(w, n, g) ==
    /\ g \in [0..n -> Int] /\ g[0] = 0
    /\ \A i \in 1..n : g[i] = g[i - 1] + w[i]

\* The equation by which Total is defined.
Sums(w, n, f) == f = [i \in 0..n |-> IF i = 0 THEN 0 ELSE f[i - 1] + w[i]]

LEMMA LeastOf ==
    ASSUME NEW S, S \subseteq Nat, S # {}
    PROVE  \E x \in S : \A y \in S : x <= y
<1>1. PICK x \in S : \A y \in S : ~(<<y, x>> \in OpToRel(<, Nat))
  BY NatLessThanWellFounded, WFMin, Zenon
<1>2. \A y \in S : x <= y
  <2> SUFFICES ASSUME NEW y \in S PROVE x <= y
    OBVIOUS
  <2>1. ~(y < x)
    BY <1>1 DEF OpToRel
  <2> QED BY <2>1
<1> QED BY <1>2

LEMMA RunningExists ==
    ASSUME NEW n \in Nat, NEW w \in [1..n -> Int]
    PROVE  \E g : Running(w, n, g)
<1> DEFINE Bad == {k \in 0..n : ~\E g : Running(w, k, g)}
<1> SUFFICES ASSUME Bad # {} PROVE FALSE
  <2>1. n \in 0..n
    OBVIOUS
  <2> QED BY <2>1, Zenon
<1>1. PICK k \in Bad : \A y \in Bad : k <= y
  <2>1. Bad \subseteq Nat
    OBVIOUS
  <2> HIDE DEF Bad
  <2> QED BY <2>1, LeastOf
<1>2. CASE k = 0
  <2> DEFINE g == [i \in 0..0 |-> 0]
  <2>1. Running(w, 0, g)
    BY DEF Running
  <2> QED BY <1>2, <2>1
<1>3. CASE k # 0
  <2>1. k - 1 \in 0..n /\ k - 1 \notin Bad /\ k \in 1..n
    BY <1>1, <1>3
  <2>2. PICK g : Running(w, k - 1, g)
    BY <2>1
  <2> DEFINE h == [i \in 0..k |-> IF i = k THEN g[k - 1] + w[k] ELSE g[i]]
  <2>3. /\ \A i \in 0..k : h[i] \in Int /\ (i = k => h[i] = g[k - 1] + w[k]) /\ (i # k => h[i] = g[i])
        /\ h \in [0..k -> Int]
    BY <2>1, <2>2 DEF Running
  <2> HIDE DEF h
  <2>4. Running(w, k, h)
    <3>1. h[0] = 0
      BY <1>3, <2>1, <2>2, <2>3 DEF Running
    <3>2. ASSUME NEW i \in 1..k PROVE h[i] = h[i - 1] + w[i]
      <4>1. CASE i = k
        BY <2>1, <2>2, <2>3, <4>1
      <4>2. CASE i # k
        <5>1. i \in 1..(k - 1) /\ i - 1 # k /\ i - 1 \in 0..k /\ i \in 0..k
          BY <2>1, <4>2
        <5> QED BY <2>2, <2>3, <4>2, <5>1 DEF Running
      <4> QED BY <4>1, <4>2
    <3> QED BY <2>3, <3>1, <3>2 DEF Running
  <2> QED BY <1>1, <2>4
<1> QED BY <1>2, <1>3

LEMMA RunningAgree ==
    ASSUME NEW n \in Nat, NEW w \in [1..n -> Int], NEW g, Running(w, n, g),
           NEW f, Sums(w, n, f)
    PROVE  f[n] = g[n]
<1> DEFINE Bad == {k \in 0..n : f[k] # g[k]}
<1> SUFFICES ASSUME Bad # {} PROVE FALSE
  OBVIOUS
<1>1. PICK k \in Bad : \A y \in Bad : k <= y
  <2>1. Bad \subseteq Nat
    OBVIOUS
  <2> HIDE DEF Bad
  <2> QED BY <2>1, LeastOf
<1>2. k \in 0..n /\ f[k] # g[k] /\ f[k] = IF k = 0 THEN 0 ELSE f[k - 1] + w[k]
  <2>1. k \in 0..n /\ f[k] # g[k]
    OBVIOUS
  <2>2. \A i \in 0..n : f[i] = IF i = 0 THEN 0 ELSE f[i - 1] + w[i]
    BY Zenon DEF Sums
  <2> QED BY <2>1, <2>2
<1>3. CASE k = 0
  BY <1>2, <1>3 DEF Running
<1>4. CASE k # 0
  <2>1. k - 1 \in 0..n /\ ~(k <= k - 1) /\ k \in 1..n
    BY <1>2, <1>4
  <2>2. f[k - 1] = g[k - 1]
    BY <1>1, <2>1
  <2> QED BY <1>2, <1>4, <2>1, <2>2 DEF Running
<1> QED BY <1>3, <1>4

\* Any running totals end in the sum.
LEMMA TotalIs ==
    ASSUME NEW n \in Nat, NEW w \in [1..n -> Int], NEW g, Running(w, n, g)
    PROVE  Total(w, n) = g[n]
<1> DEFINE sum == CHOOSE f : Sums(w, n, f)
<1>1. Sums(w, n, g)
  BY DEF Running, Sums
<1>2. Sums(w, n, sum)
  BY <1>1, Zenon
<1>3. Total(w, n) = sum[n]
  BY DEF Total, Sums
<1> HIDE DEF sum
<1>4. sum[n] = g[n]
  BY <1>2, RunningAgree, Zenon
<1> QED BY <1>3, <1>4

LEMMA TotalOfNone == ASSUME NEW w \in [1..0 -> Int] PROVE Total(w, 0) = 0
<1> DEFINE g == [i \in 0..0 |-> 0]
<1>1. Running(w, 0, g) /\ g[0] = 0
  BY DEF Running
<1> QED BY <1>1, TotalIs

\* One more amount.
LEMMA TotalAppend ==
    ASSUME NEW n \in Nat, NEW w \in [1..n -> Int], NEW v \in [1..(n + 1) -> Int],
           \A i \in 1..n : v[i] = w[i]
    PROVE  Total(v, n + 1) = Total(w, n) + v[n + 1] /\ Total(w, n) \in Int
<1>1. PICK g : Running(w, n, g)
  BY RunningExists
<1> DEFINE h == [i \in 0..(n + 1) |-> IF i = n + 1 THEN g[n] + v[n + 1] ELSE g[i]]
<1>2. /\ \A i \in 0..(n + 1) : (i = n + 1 => h[i] = g[n] + v[n + 1]) /\ (i # n + 1 => h[i] = g[i])
      /\ h \in [0..(n + 1) -> Int]
  BY <1>1 DEF Running
<1> HIDE DEF h
<1>3. Running(v, n + 1, h)
  <2>1. h[0] = 0
    BY <1>1, <1>2 DEF Running
  <2>2. ASSUME NEW i \in 1..(n + 1) PROVE h[i] = h[i - 1] + v[i]
    <3>1. CASE i = n + 1
      <4>1. i - 1 = n /\ n \in 0..(n + 1) /\ n # n + 1 /\ i \in 0..(n + 1)
        BY <3>1
      <4>2. h[i] = g[n] + v[n + 1] /\ h[i - 1] = g[n] /\ v[i] = v[n + 1]
        BY <1>2, <3>1, <4>1, Zenon
      <4> QED BY <4>2, Zenon
    <3>2. CASE i # n + 1
      <4>1. i \in 1..n /\ i - 1 # n + 1 /\ i - 1 \in 0..(n + 1) /\ i \in 0..(n + 1)
        BY <3>2
      <4> QED BY <1>1, <1>2, <3>2, <4>1 DEF Running
    <3> QED BY <3>1, <3>2
  <2> QED BY <1>2, <2>1, <2>2 DEF Running
<1>4. Total(w, n) = g[n]
  BY <1>1, TotalIs
<1>5. g[n] \in Int
  BY <1>1 DEF Running
<1>6. Total(v, n + 1) = h[n + 1]
  BY <1>3, TotalIs
<1> QED BY <1>2, <1>4, <1>5, <1>6

\* One amount less.
LEMMA TotalRemove ==
    ASSUME NEW n \in Nat, NEW w \in [1..n -> Int], NEW k \in 1..n, NEW v \in [1..(n - 1) -> Int],
           \A j \in 1..(n - 1) : v[j] = w[IF j < k THEN j ELSE j + 1]
    PROVE  Total(v, n - 1) = Total(w, n) - w[k] /\ Total(w, n) \in Int
<1>1. PICK g : Running(w, n, g)
  BY RunningExists
<1> DEFINE h == [i \in 0..(n - 1) |-> IF i < k THEN g[i] ELSE g[i + 1] - w[k]]
<1>2. /\ \A i \in 0..(n - 1) : (i < k => h[i] = g[i]) /\ (~(i < k) => h[i] = g[i + 1] - w[k])
      /\ h \in [0..(n - 1) -> Int]
  <2>1. ASSUME NEW i \in 0..(n - 1)
        PROVE  (IF i < k THEN g[i] ELSE g[i + 1] - w[k]) \in Int
    <3>1. i \in 0..n /\ i + 1 \in 0..n
      OBVIOUS
    <3>2. g[i] \in Int /\ g[i + 1] \in Int /\ w[k] \in Int
      BY <1>1, <3>1 DEF Running
    <3> QED BY <3>2
  <2> QED BY <2>1
<1> HIDE DEF h
<1>3. Running(v, n - 1, h)
  <2>1. h[0] = 0
    BY <1>1, <1>2 DEF Running
  <2>2. ASSUME NEW i \in 1..(n - 1) PROVE h[i] = h[i - 1] + v[i]
    <3>0. i \in 0..(n - 1) /\ i - 1 \in 0..(n - 1)
      OBVIOUS
    <3>1. CASE i < k
      <4>1. i \in 1..n /\ i - 1 < k
        BY <3>1
      <4> QED BY <1>1, <1>2, <3>0, <3>1, <4>1 DEF Running
    <3>2. CASE ~(i < k) /\ i - 1 < k
      <4>1. i = k /\ i + 1 \in 1..n /\ i \in 1..n /\ (i + 1) - 1 = i
        BY <3>2
      <4>2. h[i] = g[i + 1] - w[k] /\ h[i - 1] = g[i - 1] /\ v[i] = w[i + 1]
        BY <1>2, <3>0, <3>2
      <4>3. g[i + 1] = g[i] + w[i + 1] /\ g[i] = g[i - 1] + w[k]
        BY <1>1, <4>1 DEF Running
      <4>4. g[i] \in Int /\ g[i - 1] \in Int /\ w[i + 1] \in Int /\ w[k] \in Int
        BY <1>1, <4>1 DEF Running
      <4>5. h[i] = (g[i] + w[i + 1]) - w[k] /\ h[i - 1] = g[i] - w[k]
        BY <4>2, <4>3, <4>4
      <4> QED BY <4>2, <4>4, <4>5
    <3>3. CASE ~(i - 1 < k)
      <4>1. ~(i < k) /\ i + 1 \in 1..n /\ i \in 1..n /\ (i + 1) - 1 = i /\ (i - 1) + 1 = i
        BY <3>3
      <4>2. h[i] = g[i + 1] - w[k] /\ h[i - 1] = g[i] - w[k] /\ v[i] = w[i + 1]
        BY <1>2, <3>0, <3>3, <4>1
      <4>3. g[i + 1] = g[i] + w[i + 1]
        BY <1>1, <4>1 DEF Running
      <4>4. g[i] \in Int /\ w[i + 1] \in Int /\ w[k] \in Int
        BY <1>1, <4>1 DEF Running
      <4> QED BY <4>2, <4>3, <4>4
    <3> QED BY <3>1, <3>2, <3>3
  <2> QED BY <1>2, <2>1, <2>2 DEF Running
<1>4. Total(w, n) = g[n]
  BY <1>1, TotalIs
<1>7. g[n] \in Int /\ w[k] \in Int
  BY <1>1 DEF Running
<1>5. Total(v, n - 1) = h[n - 1]
  BY <1>3, TotalIs
<1>6. h[n - 1] = g[n] - w[k]
  <2>1. CASE n - 1 < k
    <3>1. k = n /\ n \in 1..n
      BY <2>1
    <3> QED BY <1>1, <1>2, <2>1, <3>1 DEF Running
  <2>2. CASE ~(n - 1 < k)
    <3>1. n - 1 \in 0..(n - 1) /\ (n - 1) + 1 = n
      BY <2>2
    <3> QED BY <1>2, <2>2, <3>1
  <2> QED BY <2>1, <2>2
<1> QED BY <1>4, <1>5, <1>6, <1>7
-----------------------------------------------------------------------------
(***************************************************************************)
(* What holds of the balance document by itself: an order has at most one  *)
(* reconciling movement, and only an order among reconciledOrderIds has    *)
(* one.  The second half is why recordReconciliation's refusal keeps the   *)
(* first.                                                                  *)
(***************************************************************************)
Move == [kind: LitreMovementKind, litres: Int, orderId: LitreOrders \cup {NoOrder}]
BalanceDoc ==
    [exists: BOOLEAN, litres: Int, movements: Seq(Move), reconciledOrderIds: SUBSET LitreOrders]

MarkedOnce(b) ==
    \A o \in LitreOrders : \A i \in DOMAIN b.movements :
        Reconciles(b.movements[i], o) =>
            /\ o \in b.reconciledOrderIds
            /\ \A j \in DOMAIN b.movements : Reconciles(b.movements[j], o) => i = j

\* Every reconciling movement of the order is the shortfall of one of es that stands.
Backed(b, o, es) ==
    \A i \in DOMAIN b.movements :
        Reconciles(b.movements[i], o) =>
            \E e \in DOMAIN es : /\ ~es[e].superseded
                                 /\ Shortfall(o, es[e].supplied) = b.movements[i].litres

Updated(b, l, ms) == [b EXCEPT !.litres = l, !.movements = ms]

LEMMA BalanceUpdated ==
    ASSUME NEW b \in BalanceDoc, NEW l \in Int, NEW ms \in Seq(Move)
    PROVE  /\ Updated(b, l, ms) \in BalanceDoc
           /\ Updated(b, l, ms).litres = l
           /\ Updated(b, l, ms).movements = ms
           /\ Updated(b, l, ms).reconciledOrderIds = b.reconciledOrderIds
           /\ Updated(b, l, ms).exists = b.exists
<1> DEFINE Q == Seq(Move)
           D == [exists: BOOLEAN, litres: Int, movements: Q, reconciledOrderIds: SUBSET LitreOrders]
<1>1. b \in D /\ ms \in Q
  BY DEF BalanceDoc
<1> HIDE DEF Q
<1>2. Updated(b, l, ms) \in D
  BY <1>1 DEF Updated
<1>3. /\ Updated(b, l, ms).litres = l
      /\ Updated(b, l, ms).movements = ms
      /\ Updated(b, l, ms).reconciledOrderIds = b.reconciledOrderIds
      /\ Updated(b, l, ms).exists = b.exists
  BY <1>1 DEF Updated
<1> QED BY <1>2, <1>3 DEF BalanceDoc, Q

LEMMA PostTyped ==
    ASSUME NEW b \in BalanceDoc, NEW m \in Move
    PROVE  /\ Post(b, m) \in BalanceDoc
           /\ Post(b, m).litres = b.litres + m.litres
           /\ Post(b, m).reconciledOrderIds = b.reconciledOrderIds /\ Post(b, m).exists = b.exists
           /\ DOMAIN Post(b, m).movements = 1..(Len(b.movements) + 1)
           /\ DOMAIN b.movements = 1..Len(b.movements)
           /\ \A i \in 1..Len(b.movements) : Post(b, m).movements[i] = b.movements[i]
           /\ Post(b, m).movements[Len(b.movements) + 1] = m
<1> DEFINE ms == b.movements
<1>1. b.litres \in Int /\ m.litres \in Int /\ ms \in Seq(Move)
  BY DEF BalanceDoc, Move
<1>2. /\ Append(ms, m) \in Seq(Move) /\ DOMAIN Append(ms, m) = 1..(Len(ms) + 1)
      /\ \A i \in 1..Len(ms) : Append(ms, m)[i] = ms[i]
      /\ Append(ms, m)[Len(ms) + 1] = m
  BY <1>1
<1>3. /\ Post(b, m).litres = b.litres + m.litres
      /\ Post(b, m).movements = Append(ms, m)
      /\ Post(b, m).reconciledOrderIds = b.reconciledOrderIds /\ Post(b, m).exists = b.exists
      /\ Post(b, m) \in BalanceDoc
  <2> DEFINE l == b.litres + m.litres
             ns == Append(ms, m)
  <2>1. l \in Int /\ ns \in Seq(Move)
    BY <1>1, <1>2
  <2>2. Post(b, m) = Updated(b, l, ns)
    BY DEF Post, Updated
  <2> HIDE DEF l, ns
  <2>3. /\ Post(b, m).litres = l /\ Post(b, m).movements = ns
        /\ Post(b, m).reconciledOrderIds = b.reconciledOrderIds /\ Post(b, m).exists = b.exists
        /\ Post(b, m) \in BalanceDoc
    BY <2>1, <2>2, BalanceUpdated
  <2> QED BY <2>3 DEF l, ns
<1>4. DOMAIN ms = 1..Len(ms)
  BY <1>1
<1> QED BY <1>2, <1>3, <1>4

\* A drawdown, a return or a correction reconciles nothing.
LEMMA PostNeutral ==
    ASSUME NEW b \in BalanceDoc, MarkedOnce(b), NEW m \in Move, m.kind \notin ReconciliationKinds
    PROVE  /\ MarkedOnce(Post(b, m))
           /\ \A o, es : Backed(b, o, es) => Backed(Post(b, m), o, es)
<1> DEFINE c == Post(b, m)
<1>1. \A o : \A i \in DOMAIN c.movements :
          Reconciles(c.movements[i], o) => i \in DOMAIN b.movements /\ c.movements[i] = b.movements[i]
  <2>1. Len(b.movements) \in Nat
    BY DEF BalanceDoc
  <2>2. /\ DOMAIN c.movements = 1..(Len(b.movements) + 1)
        /\ DOMAIN b.movements = 1..Len(b.movements)
        /\ \A i \in 1..Len(b.movements) : c.movements[i] = b.movements[i]
        /\ c.movements[Len(b.movements) + 1] = m
    BY PostTyped
  <2> HIDE DEF c
  <2>3. \A o : ~Reconciles(m, o)
    BY DEF Reconciles
  <2>4. \A i \in DOMAIN c.movements : i \in DOMAIN b.movements \/ i = Len(b.movements) + 1
    BY <2>1, <2>2
  <2> QED BY <2>2, <2>3, <2>4
<1>2. c.reconciledOrderIds = b.reconciledOrderIds
  BY PostTyped
<1> HIDE DEF c
<1>3. MarkedOnce(c)
  BY <1>1, <1>2 DEF MarkedOnce
<1>4. \A o, es : Backed(b, o, es) => Backed(c, o, es)
  BY <1>1 DEF Backed
<1> QED BY <1>3, <1>4 DEF c

Marked(b, x, ids) == [b EXCEPT !.exists = x, !.reconciledOrderIds = ids]

LEMMA BalanceMarked ==
    ASSUME NEW b \in BalanceDoc, NEW x \in BOOLEAN, NEW ids \in SUBSET LitreOrders
    PROVE  /\ Marked(b, x, ids) \in BalanceDoc
           /\ Marked(b, x, ids).movements = b.movements
           /\ Marked(b, x, ids).reconciledOrderIds = ids
           /\ Marked(b, x, ids).exists = x /\ Marked(b, x, ids).litres = b.litres
<1> DEFINE Q == Seq(Move)
           D == [exists: BOOLEAN, litres: Int, movements: Q, reconciledOrderIds: SUBSET LitreOrders]
<1>1. b \in D
  BY DEF BalanceDoc
<1> HIDE DEF Q
<1>2. Marked(b, x, ids) \in D
  BY <1>1 DEF Marked
<1>3. /\ Marked(b, x, ids).movements = b.movements
      /\ Marked(b, x, ids).reconciledOrderIds = ids
      /\ Marked(b, x, ids).exists = x /\ Marked(b, x, ids).litres = b.litres
  BY <1>1 DEF Marked
<1> QED BY <1>2, <1>3 DEF BalanceDoc, Q

\* recordReconciliation() of an order without a reconciling movement, or refused.
LEMMA RecordKeeps ==
    ASSUME NEW b \in BalanceDoc, MarkedOnce(b), NEW o \in LitreOrders, NEW s \in Supplied
    PROVE  LET r == RecordReconciliation(b, o, s) IN
           /\ r.b \in BalanceDoc /\ MarkedOnce(r.b)
           /\ ~r.ok => r.b = b
           /\ \A p \in LitreOrders : p # o => \A es : Backed(b, p, es) => Backed(r.b, p, es)
           /\ r.ok /\ Shortfall(o, s) = 0 => r.b = b
           /\ r.ok /\ Shortfall(o, s) # 0 =>
                 \A i \in DOMAIN r.b.movements :
                    Reconciles(r.b.movements[i], o) => r.b.movements[i].litres = Shortfall(o, s)
<1> DEFINE short == Shortfall(o, s)
           kind == IF short > 0 THEN "SHORTFALL_CREDIT" ELSE "EXCESS_DEBIT"
           ids == b.reconciledOrderIds \cup {o}
           m == Movement(kind, short, o)
           a == Marked(b, TRUE, ids)
           c == Post(a, m)
           r == RecordReconciliation(b, o, s)
<1>1. short \in Int
  BY LitreAssumption DEF Shortfall
<1>2. CASE short = 0 \/ o \in b.reconciledOrderIds
  <2>1. r.b = b /\ (~r.ok => r.b = b) /\ (r.ok => short = 0)
    BY <1>2 DEF RecordReconciliation
  <2> QED BY <2>1
<1>3. CASE short # 0 /\ o \notin b.reconciledOrderIds
  <2>1. r = [ok |-> TRUE, b |-> c]
    BY <1>3 DEF RecordReconciliation, Marked
  <2>2. ids \in SUBSET LitreOrders
    BY DEF BalanceDoc
  <2>3. m \in Move /\ m.orderId = o /\ m.litres = short
    BY <1>1 DEF Movement, Move, LitreMovementKind
  <2> HIDE DEF r, m, ids, short
  <2>4. a \in BalanceDoc /\ a.movements = b.movements /\ a.reconciledOrderIds = ids
    BY <2>2, BalanceMarked
  <2> HIDE DEF a
  <2>5. Len(b.movements) \in Nat
    BY DEF BalanceDoc
  <2>6. /\ c \in BalanceDoc
        /\ c.reconciledOrderIds = ids
        /\ DOMAIN c.movements = 1..(Len(b.movements) + 1)
        /\ DOMAIN b.movements = 1..Len(b.movements)
        /\ \A i \in 1..Len(b.movements) : c.movements[i] = b.movements[i]
        /\ c.movements[Len(b.movements) + 1] = m
    BY <2>3, <2>4, PostTyped
  <2> HIDE DEF c
  <2>7. \A i \in DOMAIN c.movements :
           \/ i \in DOMAIN b.movements /\ c.movements[i] = b.movements[i]
           \/ i = Len(b.movements) + 1 /\ c.movements[i] = m
    BY <2>5, <2>6
  <2>8. \A i \in DOMAIN b.movements : ~Reconciles(b.movements[i], o)
    BY <1>3 DEF MarkedOnce
  <2>9. \A p : p # o => ~Reconciles(m, p)
    BY <2>3 DEF Reconciles
  <2>10. MarkedOnce(c)
    <3> SUFFICES ASSUME NEW p \in LitreOrders, NEW i \in DOMAIN c.movements,
                        Reconciles(c.movements[i], p)
                 PROVE  /\ p \in c.reconciledOrderIds
                        /\ \A j \in DOMAIN c.movements : Reconciles(c.movements[j], p) => i = j
      BY DEF MarkedOnce
    <3>1. CASE p = o
      BY <2>6, <2>7, <2>8, <3>1 DEF ids
    <3>2. CASE p # o
      BY <2>6, <2>7, <2>9, <3>2 DEF ids, MarkedOnce
    <3> QED BY <3>1, <3>2
  <2>11. \A p \in LitreOrders : p # o => \A es : Backed(b, p, es) => Backed(c, p, es)
    BY <2>7, <2>9 DEF Backed
  <2>12. \A i \in DOMAIN c.movements :
            Reconciles(c.movements[i], o) => c.movements[i].litres = short
    BY <2>3, <2>7, <2>8
  <2>13. r.b = c /\ r.ok
    BY <2>1
  <2> QED BY <1>3, <2>6, <2>10, <2>11, <2>12, <2>13 DEF r, short
<1> QED BY <1>2, <1>3

Removed(b, l, ms, ids) == [b EXCEPT !.litres = l, !.movements = ms, !.reconciledOrderIds = ids]

LEMMA BalanceRemoved ==
    ASSUME NEW b \in BalanceDoc, NEW l \in Int, NEW ms \in Seq(Move), NEW ids \in SUBSET LitreOrders
    PROVE  /\ Removed(b, l, ms, ids) \in BalanceDoc
           /\ Removed(b, l, ms, ids).movements = ms
           /\ Removed(b, l, ms, ids).reconciledOrderIds = ids
           /\ Removed(b, l, ms, ids).exists = b.exists /\ Removed(b, l, ms, ids).litres = l
<1> DEFINE Q == Seq(Move)
           D == [exists: BOOLEAN, litres: Int, movements: Q, reconciledOrderIds: SUBSET LitreOrders]
<1>1. b \in D /\ ms \in Q
  BY DEF BalanceDoc
<1> HIDE DEF Q
<1>2. Removed(b, l, ms, ids) \in D
  BY <1>1 DEF Removed
<1>3. /\ Removed(b, l, ms, ids).movements = ms
      /\ Removed(b, l, ms, ids).reconciledOrderIds = ids
      /\ Removed(b, l, ms, ids).exists = b.exists /\ Removed(b, l, ms, ids).litres = l
  BY <1>1 DEF Removed
<1> QED BY <1>2, <1>3 DEF BalanceDoc, Q

\* Reversing the prior reconciliation leaves the order without one and every
\* other order's in place.
LEMMA UnreconciledKeeps ==
    ASSUME NEW b \in BalanceDoc, MarkedOnce(b), NEW o \in LitreOrders
    PROVE  LET c == Unreconciled(b, o) IN
           /\ c \in BalanceDoc /\ MarkedOnce(c)
           /\ \A i \in DOMAIN c.movements : ~Reconciles(c.movements[i], o)
           /\ \A p \in LitreOrders : \A es : Backed(b, p, es) => Backed(c, p, es)
<1> DEFINE k == FirstMovement(b, o, ReconciliationKinds)
           c == Unreconciled(b, o)
           ms == b.movements
           n == Len(ms)
           l == b.litres - ms[k].litres
           rest == RemoveAt(ms, k)
           ids == b.reconciledOrderIds \ {o}
<1>1. ms \in Seq(Move) /\ b.litres \in Int /\ DOMAIN ms = 1..n /\ n \in Nat
  BY DEF BalanceDoc
<1>2. \/ k \in 1..n /\ Reconciles(ms[k], o)
      \/ k = 0 /\ \A j \in 1..n : ~Reconciles(ms[j], o)
  BY <1>1, FirstMovementProperties DEF Reconciles
<1>3. CASE k = 0
  <2>1. c = b
    BY <1>3 DEF Unreconciled
  <2> QED BY <1>1, <1>2, <1>3, <2>1
<1>4. CASE k \in 1..n /\ Reconciles(ms[k], o)
  <2>1. c = Removed(b, l, rest, ids)
    BY <1>4 DEF Unreconciled, Removed
  <2>2. /\ rest \in Seq(Move) /\ Len(rest) = n - 1
        /\ \A j \in 1..(n - 1) : rest[j] = ms[IF j < k THEN j ELSE j + 1]
    BY <1>1, <1>4, RemoveAtProperties
  <2>3. l \in Int /\ ids \in SUBSET LitreOrders
    <3>1. ms[k] \in Move
      BY <1>1, <1>4
    <3> QED BY <1>1, <3>1 DEF Move, BalanceDoc
  <2>4. DOMAIN rest = 1..(n - 1)
    BY <2>2
  <2> HIDE DEF k, c, l, rest
  <2>5. c \in BalanceDoc /\ c.movements = rest /\ c.reconciledOrderIds = ids
    <3> HIDE DEF ids
    <3> QED BY <2>1, <2>2, <2>3, BalanceRemoved
  <2> DEFINE from(j) == IF j < k THEN j ELSE j + 1
  <2>6. \A j \in 1..(n - 1) : from(j) \in 1..n /\ from(j) # k /\ rest[j] = ms[from(j)]
    BY <1>1, <1>4, <2>2
  <2>7. \A i, j \in 1..(n - 1) : from(i) = from(j) => i = j
    BY <1>1, <1>4
  <2> HIDE DEF from, n
  <2>8. \A j \in 1..n : Reconciles(ms[j], o) => j = k
    BY <1>1, <1>4 DEF MarkedOnce
  <2>9. \A j \in DOMAIN c.movements : ~Reconciles(c.movements[j], o)
    BY <2>4, <2>5, <2>6, <2>8
  <2>10. MarkedOnce(c)
    <3> SUFFICES ASSUME NEW p \in LitreOrders, NEW i \in DOMAIN c.movements,
                        Reconciles(c.movements[i], p)
                 PROVE  /\ p \in c.reconciledOrderIds
                        /\ \A j \in DOMAIN c.movements : Reconciles(c.movements[j], p) => i = j
      BY DEF MarkedOnce
    <3>1. p # o
      BY <2>9
    <3>2. i \in 1..(n - 1) /\ from(i) \in DOMAIN ms /\ Reconciles(ms[from(i)], p)
      BY <1>1, <2>4, <2>5, <2>6
    <3>3. p \in b.reconciledOrderIds /\ \A j \in DOMAIN ms : Reconciles(ms[j], p) => from(i) = j
      BY <3>2 DEF MarkedOnce
    <3>4. ASSUME NEW j \in DOMAIN c.movements, Reconciles(c.movements[j], p)
          PROVE  i = j
      <4>1. j \in 1..(n - 1) /\ from(j) \in DOMAIN ms /\ Reconciles(ms[from(j)], p)
        BY <1>1, <2>4, <2>5, <2>6, <3>4
      <4> QED BY <2>7, <3>2, <3>3, <4>1
    <3> QED BY <2>5, <3>1, <3>3, <3>4
  <2>11. \A p \in LitreOrders : \A es : Backed(b, p, es) => Backed(c, p, es)
    BY <1>1, <2>4, <2>5, <2>6 DEF Backed
  <2> QED BY <2>5, <2>9, <2>10, <2>11 DEF c
<1> QED BY <1>2, <1>3, <1>4

\* restateReconciliation(): it is never refused, and the order's movement is the new one.
LEMMA RestateKeeps ==
    ASSUME NEW b \in BalanceDoc, MarkedOnce(b), NEW o \in LitreOrders, NEW s \in Supplied
    PROVE  LET r == RestateReconciliation(b, o, s) IN
           /\ r.b \in BalanceDoc /\ MarkedOnce(r.b)
           /\ \A p \in LitreOrders : p # o => \A es : Backed(b, p, es) => Backed(r.b, p, es)
           /\ r.ok => \A i \in DOMAIN r.b.movements :
                         Reconciles(r.b.movements[i], o) => r.b.movements[i].litres = Shortfall(o, s)
<1> DEFINE u == Unreconciled(b, o)
           r == RecordReconciliation(u, o, s)
<1>1. /\ u \in BalanceDoc /\ MarkedOnce(u)
      /\ \A i \in DOMAIN u.movements : ~Reconciles(u.movements[i], o)
      /\ \A p \in LitreOrders : \A es : Backed(b, p, es) => Backed(u, p, es)
  BY UnreconciledKeeps
<1> HIDE DEF u
<1>2. /\ r.b \in BalanceDoc /\ MarkedOnce(r.b)
      /\ \A p \in LitreOrders : p # o => \A es : Backed(u, p, es) => Backed(r.b, p, es)
      /\ r.ok /\ Shortfall(o, s) = 0 => r.b = u
      /\ r.ok /\ Shortfall(o, s) # 0 =>
            \A i \in DOMAIN r.b.movements :
               Reconciles(r.b.movements[i], o) => r.b.movements[i].litres = Shortfall(o, s)
  BY <1>1, RecordKeeps
<1>3. RestateReconciliation(b, o, s) = r
  BY DEF RestateReconciliation, u
<1> HIDE DEF r
<1>4. r.ok => \A i \in DOMAIN r.b.movements :
         Reconciles(r.b.movements[i], o) => r.b.movements[i].litres = Shortfall(o, s)
  BY <1>1, <1>2
<1> QED BY <1>1, <1>2, <1>3, <1>4

\* Drawing and returning leave every reconciliation alone.
LEMMA DrawdownKeeps ==
    ASSUME NEW b \in BalanceDoc, MarkedOnce(b), NEW o \in LitreOrders
    PROVE  /\ Drawdown(b, o) \in BalanceDoc /\ MarkedOnce(Drawdown(b, o))
           /\ \A p, es : Backed(b, p, es) => Backed(Drawdown(b, o), p, es)
           /\ Drawdown(b, o).litres = b.litres - ProjectDrawdown(b.litres, Quantity[o])
           /\ Drawdown(b, o).litres < b.litres => Drawdown(b, o).litres >= 0
<1> DEFINE drawn == LitresDrawn(b.litres, Quantity[o])
           m == Movement("ORDER_DRAWDOWN", -drawn, o)
<1>1. b.litres \in Int /\ Quantity[o] \in Nat \ {0}
  BY LitreAssumption DEF BalanceDoc
<1>2. /\ drawn \in Nat /\ drawn = ProjectDrawdown(b.litres, Quantity[o])
      /\ drawn > 0 => drawn <= b.litres
  BY <1>1 DEF LitresDrawn, ProjectDrawdown, Smaller
<1>3. m \in Move /\ m.litres = -drawn /\ m.kind \notin ReconciliationKinds
  BY <1>2 DEF Movement, Move, LitreMovementKind, ReconciliationKinds
<1>4. Drawdown(b, o) = IF drawn <= 0 THEN b ELSE Post(b, m)
  BY DEF Drawdown
<1> HIDE DEF drawn, m
<1>5. /\ Post(b, m) \in BalanceDoc /\ MarkedOnce(Post(b, m))
      /\ \A p, es : Backed(b, p, es) => Backed(Post(b, m), p, es)
      /\ Post(b, m).litres = b.litres + m.litres
  BY <1>3, PostTyped, PostNeutral
<1>6. CASE drawn <= 0
  BY <1>1, <1>2, <1>4, <1>6
<1>7. CASE drawn > 0
  <2>1. Drawdown(b, o) = Post(b, m)
    BY <1>2, <1>4, <1>7
  <2>2. Post(b, m).litres = b.litres - drawn /\ b.litres - drawn >= 0
    BY <1>1, <1>2, <1>3, <1>5, <1>7
  <2> QED BY <1>2, <1>5, <2>1, <2>2
<1> QED BY <1>2, <1>6, <1>7

LEMMA ReturnKeeps ==
    ASSUME NEW b \in BalanceDoc, MarkedOnce(b), NEW o \in LitreOrders
    PROVE  /\ ReturnDrawdown(b, o) \in BalanceDoc /\ MarkedOnce(ReturnDrawdown(b, o))
           /\ \A p, es : Backed(b, p, es) => Backed(ReturnDrawdown(b, o), p, es)
<1> DEFINE k == FirstMovement(b, o, {"ORDER_DRAWDOWN"})
           m == Movement("DRAWDOWN_RETURNED", -b.movements[k].litres, o)
<1>1. \/ ReturnDrawdown(b, o) = b
      \/ k # 0 /\ ReturnDrawdown(b, o) = Post(b, m)
  BY DEF ReturnDrawdown
<1>2. CASE k # 0
  <2>1. k \in DOMAIN b.movements
    BY <1>2, FirstMovementProperties DEF BalanceDoc
  <2>2. b.movements[k] \in Move
    BY <2>1 DEF BalanceDoc
  <2> HIDE DEF k
  <2>3. m \in Move /\ m.kind \notin ReconciliationKinds
    BY <2>2 DEF Movement, Move, LitreMovementKind, ReconciliationKinds
  <2> HIDE DEF m
  <2>4. /\ Post(b, m) \in BalanceDoc /\ MarkedOnce(Post(b, m))
        /\ \A p, es : Backed(b, p, es) => Backed(Post(b, m), p, es)
    BY <2>3, PostTyped, PostNeutral
  <2> QED BY <1>1, <2>4
<1> QED BY <1>1, <1>2
-----------------------------------------------------------------------------
(***************************************************************************)
(* The inductive invariant.                                                *)
(***************************************************************************)
EntryDoc == [supplied: Supplied, superseded: BOOLEAN]

OrdersTyped ==
    /\ placed \in [LitreOrders -> {"none", "PENDING_APPROVAL", "APPROVED", "CANCELLED", "REJECTED"}]
    /\ entries \in [LitreOrders -> Seq(EntryDoc)]

\* A request in flight names an order and the quantity its invoice states.
RequestsTyped ==
    /\ DOMAIN invoicing = InvoiceRequests
    /\ \A r \in InvoiceRequests :
        invoicing[r].pc # "idle" => invoicing[r].order \in LitreOrders /\ invoicing[r].supplied \in Supplied

BalanceKept == balance \in BalanceDoc /\ MarkedOnce(balance)
AllBacked == \A o \in LitreOrders : Backed(balance, o, entries[o])

LedgerInv == OrdersTyped /\ RequestsTyped /\ BalanceKept /\ AllBacked

LEMMA LedgerInitially == LitreInit => LedgerInv
<1> SUFFICES ASSUME LitreInit PROVE LedgerInv
  OBVIOUS
<1>1. OrdersTyped /\ RequestsTyped
  BY DEF LitreInit, OrdersTyped, RequestsTyped, NoInvoiceRequest
<1>2. balance.movements = <<>> /\ balance \in BalanceDoc
  BY DEF LitreInit, NoBalance, BalanceDoc
<1> QED BY <1>1, <1>2 DEF LedgerInv, BalanceKept, AllBacked, MarkedOnce, Backed

\* A step that answers a request leaves the others as they were.
LEMMA RequestAnswered ==
    ASSUME RequestsTyped, NEW r \in InvoiceRequests,
           invoicing' = [invoicing EXCEPT ![r] = NoInvoiceRequest]
    PROVE  RequestsTyped'
BY DEF RequestsTyped, NoInvoiceRequest

LEMMA RequestLoaded ==
    ASSUME LedgerInv, NEW r \in InvoiceRequests, NEW o \in LitreOrders, NEW s \in Supplied,
           LoadForConfirm(r, o, s) \/ LoadForReplace(r, o, s)
    PROVE  LedgerInv'
<1>1. RequestsTyped'
  <2>1. CASE LoadForConfirm(r, o, s)
    BY <2>1 DEF LedgerInv, RequestsTyped, LoadForConfirm
  <2>2. CASE LoadForReplace(r, o, s)
    <3> DEFINE q == [pc |-> "replace", order |-> o, supplied |-> s, existing |-> CurrentEntry(o)]
    <3>1. invoicing' = [invoicing EXCEPT ![r] = q]
      BY <2>2 DEF LoadForReplace
    <3>2. q.order \in LitreOrders /\ q.supplied \in Supplied
      OBVIOUS
    <3> HIDE DEF q
    <3> QED BY <3>1, <3>2 DEF LedgerInv, RequestsTyped
  <2> QED BY <2>1, <2>2
<1>2. UNCHANGED <<placed, entries, balance>>
  BY DEF LoadForConfirm, LoadForReplace, litreOrder
<1> QED BY <1>1, <1>2 DEF LedgerInv, OrdersTyped, BalanceKept, AllBacked

LEMMA OrderStepKeeps ==
    ASSUME LedgerInv, NEW o \in LitreOrders,
           PlaceWithDrawdown(o) \/ CancelReturning(o) \/ RejectKeeping(o) \/ ApprovePlaced(o)
    PROVE  LedgerInv'
<1>1. UNCHANGED <<entries, invoicing>> /\ OrdersTyped'
  BY DEF LedgerInv, OrdersTyped, PlaceWithDrawdown, CancelReturning, RejectKeeping, ApprovePlaced
<1>2. BalanceKept' /\ \A p \in LitreOrders : Backed(balance', p, entries[p])
  <2>1. CASE PlaceWithDrawdown(o)
    BY <2>1, DrawdownKeeps DEF LedgerInv, BalanceKept, AllBacked, PlaceWithDrawdown
  <2>2. CASE CancelReturning(o)
    BY <2>2, ReturnKeeps DEF LedgerInv, BalanceKept, AllBacked, CancelReturning
  <2>3. CASE RejectKeeping(o) \/ ApprovePlaced(o)
    BY <2>3 DEF LedgerInv, BalanceKept, AllBacked, RejectKeeping, ApprovePlaced
  <2> QED BY <2>1, <2>2, <2>3
<1> QED BY <1>1, <1>2 DEF LedgerInv, RequestsTyped, BalanceKept, AllBacked

LEMMA CorrectionKeeps ==
    ASSUME LedgerInv, NEW l \in Corrections, Correct(l)
    PROVE  LedgerInv'
<1> DEFINE m == Movement("CORRECTION", l, NoOrder)
<1>1. m \in Move /\ m.kind \notin ReconciliationKinds
  BY LitreAssumption DEF Movement, Move, LitreMovementKind, ReconciliationKinds
<1>2. balance' = Post(balance, m) /\ UNCHANGED <<placed, entries, invoicing>>
  BY DEF Correct, litreOrder
<1> HIDE DEF m
<1>3. BalanceKept' /\ \A p \in LitreOrders : Backed(balance', p, entries[p])
  BY <1>1, <1>2, PostTyped, PostNeutral DEF LedgerInv, BalanceKept, AllBacked
<1> QED BY <1>2, <1>3 DEF LedgerInv, OrdersTyped, RequestsTyped, BalanceKept, AllBacked

LEMMA ConfirmKeeps ==
    ASSUME LedgerInv, NEW r \in InvoiceRequests, CommitConfirm(r)
    PROVE  LedgerInv'
<1> DEFINE o == invoicing[r].order
           s == invoicing[r].supplied
           result == RecordReconciliation(balance, o, s)
           es == Append(entries[o], Entry(s))
<1>1. o \in LitreOrders /\ s \in Supplied /\ entries[o] \in Seq(EntryDoc) /\ Entry(s) \in EntryDoc
  BY DEF LedgerInv, OrdersTyped, RequestsTyped, CommitConfirm, Entry, EntryDoc
<1>2. /\ balance' = result.b
      /\ entries' = IF result.ok THEN [entries EXCEPT ![o] = es] ELSE entries
      /\ invoicing' = [invoicing EXCEPT ![r] = NoInvoiceRequest] /\ placed' = placed
  BY DEF CommitConfirm
<1>3. RequestsTyped'
  BY <1>2, RequestAnswered DEF LedgerInv
<1> HIDE DEF o, s
<1>4. /\ result.b \in BalanceDoc /\ MarkedOnce(result.b)
      /\ ~result.ok => result.b = balance
      /\ \A p \in LitreOrders : p # o => Backed(result.b, p, entries[p])
      /\ result.ok /\ Shortfall(o, s) = 0 => result.b = balance
      /\ result.ok /\ Shortfall(o, s) # 0 =>
            \A i \in DOMAIN result.b.movements :
               Reconciles(result.b.movements[i], o) => result.b.movements[i].litres = Shortfall(o, s)
  BY <1>1, RecordKeeps DEF LedgerInv, BalanceKept, AllBacked
<1> HIDE DEF result
<1>5. /\ es \in Seq(EntryDoc) /\ DOMAIN es = 1..(Len(entries[o]) + 1)
      /\ DOMAIN entries[o] = 1..Len(entries[o]) /\ Len(entries[o]) \in Nat
      /\ \A e \in DOMAIN entries[o] : e \in DOMAIN es /\ es[e] = entries[o][e]
      /\ es[Len(entries[o]) + 1] = Entry(s) /\ Len(entries[o]) + 1 \in DOMAIN es
  BY <1>1
<1>6. Entry(s).supplied = s /\ ~Entry(s).superseded
  BY DEF Entry
<1> HIDE DEF es
<1>7. OrdersTyped' /\ BalanceKept'
  BY <1>1, <1>2, <1>4, <1>5 DEF LedgerInv, OrdersTyped, BalanceKept
<1>8. CASE ~result.ok
  BY <1>2, <1>3, <1>4, <1>7, <1>8 DEF LedgerInv, AllBacked
<1>9. CASE result.ok
  <2>1. entries'[o] = es /\ \A p \in LitreOrders : p # o => entries'[p] = entries[p]
    BY <1>1, <1>2, <1>9 DEF LedgerInv, OrdersTyped
  <2>2. Backed(result.b, o, es)
    <3>1. CASE Shortfall(o, s) = 0
      BY <1>1, <1>4, <1>5, <1>9, <3>1 DEF LedgerInv, AllBacked, Backed
    <3>2. CASE Shortfall(o, s) # 0
      BY <1>4, <1>5, <1>6, <1>9, <3>2 DEF Backed
    <3> QED BY <3>1, <3>2
  <2>3. AllBacked'
    BY <1>2, <1>4, <2>1, <2>2 DEF AllBacked
  <2> QED BY <1>3, <1>7, <2>3 DEF LedgerInv
<1> QED BY <1>8, <1>9

LEMMA ReplaceKeeps ==
    ASSUME LedgerInv, NEW r \in InvoiceRequests, CommitReplace(r)
    PROVE  LedgerInv'
<1> DEFINE o == invoicing[r].order
           s == invoicing[r].supplied
           x == invoicing[r].existing
           result == RestateReconciliation(balance, o, s)
           kept == IF x = 0 THEN entries[o] ELSE [entries[o] EXCEPT ![x].superseded = TRUE]
           es == Append(kept, Entry(s))
<1>1. o \in LitreOrders /\ s \in Supplied /\ entries[o] \in Seq(EntryDoc) /\ Entry(s) \in EntryDoc
  BY DEF LedgerInv, OrdersTyped, RequestsTyped, CommitReplace, Entry, EntryDoc
<1>2. /\ balance' = IF result.ok THEN result.b ELSE balance
      /\ entries' = IF result.ok THEN [entries EXCEPT ![o] = es] ELSE entries
      /\ invoicing' = [invoicing EXCEPT ![r] = NoInvoiceRequest] /\ placed' = placed
  BY DEF CommitReplace
<1>3. RequestsTyped'
  BY <1>2, RequestAnswered DEF LedgerInv
<1> HIDE DEF o, s, x
<1>4. /\ result.b \in BalanceDoc /\ MarkedOnce(result.b)
      /\ \A p \in LitreOrders : p # o => Backed(result.b, p, entries[p])
      /\ result.ok => \A i \in DOMAIN result.b.movements :
            Reconciles(result.b.movements[i], o) => result.b.movements[i].litres = Shortfall(o, s)
  BY <1>1, RestateKeeps DEF LedgerInv, BalanceKept, AllBacked
<1> HIDE DEF result
<1>5. kept \in Seq(EntryDoc)
  <2> DEFINE mark(e) == [e EXCEPT !.superseded = TRUE]
  <2>1. \A e \in EntryDoc : mark(e) \in EntryDoc
    BY DEF EntryDoc
  <2>2. x # 0 => kept = [entries[o] EXCEPT ![x] = mark(entries[o][x])]
    OBVIOUS
  <2>3. x = 0 => kept = entries[o]
    OBVIOUS
  <2> HIDE DEF mark, kept
  <2> QED BY <1>1, <2>1, <2>2, <2>3
<1> HIDE DEF kept
<1>6. es \in Seq(EntryDoc) /\ es[Len(kept) + 1] = Entry(s) /\ Len(kept) + 1 \in DOMAIN es
  BY <1>1, <1>5
<1>7. Entry(s).supplied = s /\ ~Entry(s).superseded
  BY DEF Entry
<1> HIDE DEF es
<1>8. OrdersTyped' /\ BalanceKept'
  BY <1>1, <1>2, <1>4, <1>6 DEF LedgerInv, OrdersTyped, BalanceKept
<1>9. CASE ~result.ok
  BY <1>2, <1>3, <1>8, <1>9 DEF LedgerInv, AllBacked
<1>10. CASE result.ok
  <2>1. entries'[o] = es /\ \A p \in LitreOrders : p # o => entries'[p] = entries[p]
    BY <1>1, <1>2, <1>10 DEF LedgerInv, OrdersTyped
  <2>2. Backed(result.b, o, es)
    BY <1>4, <1>6, <1>7, <1>10 DEF Backed
  <2>3. AllBacked'
    BY <1>2, <1>4, <1>10, <2>1, <2>2 DEF AllBacked
  <2> QED BY <1>3, <1>8, <2>3 DEF LedgerInv
<1> QED BY <1>9, <1>10

LEMMA LedgerStep == LedgerInv /\ [LitreNext]_litreVars => LedgerInv'
<1> SUFFICES ASSUME LedgerInv, [LitreNext]_litreVars PROVE LedgerInv'
  OBVIOUS
<1>1. CASE UNCHANGED litreVars
  BY <1>1 DEF LedgerInv, OrdersTyped, RequestsTyped, BalanceKept, AllBacked, litreVars
<1>2. ASSUME NEW o \in LitreOrders,
             PlaceWithDrawdown(o) \/ CancelReturning(o) \/ RejectKeeping(o) \/ ApprovePlaced(o)
      PROVE  LedgerInv'
  BY <1>2, OrderStepKeeps
<1>3. ASSUME NEW r \in InvoiceRequests, NEW o \in LitreOrders, NEW s \in Supplied,
             LoadForConfirm(r, o, s) \/ LoadForReplace(r, o, s)
      PROVE  LedgerInv'
  BY <1>3, RequestLoaded
<1>4. ASSUME NEW r \in InvoiceRequests, CommitConfirm(r) \/ CommitReplace(r)
      PROVE  LedgerInv'
  BY <1>4, ConfirmKeeps, ReplaceKeeps
<1>5. ASSUME NEW l \in Corrections, Correct(l)
      PROVE  LedgerInv'
  BY <1>5, CorrectionKeeps
<1> QED BY <1>1, <1>2, <1>3, <1>4, <1>5 DEF LitreNext

\* However supplier-invoice confirmations and replacements interleave, an
\* order's one reconciling movement is the shortfall of an invoice that stands.
THEOREM MovementsAreBacked == LitreSpec => []MovementBacksStandingInvoice
<1>1. LedgerInv => MovementBacksStandingInvoice
  BY DEF LedgerInv, BalanceKept, AllBacked, MarkedOnce, Backed, MovementBacksStandingInvoice
<1> QED BY <1>1, LedgerInitially, LedgerStep, PTL DEF LitreSpec

\* A new order draws what its quote promised and never takes the balance below zero.
THEOREM DrawdownsAreCovered == LitreSpec => DrawdownIsCovered
<1> DEFINE Covered ==
      \A o \in LitreOrders :
          placed[o] = "none" /\ placed'[o] # "none" =>
              /\ balance'.litres = balance.litres - ProjectDrawdown(balance.litres, Quantity[o])
              /\ balance'.litres < balance.litres => balance'.litres >= 0
<1>1. LedgerInv /\ [LitreNext]_litreVars => [Covered]_litreVars
  <2> SUFFICES ASSUME LedgerInv, LitreNext, NEW o \in LitreOrders,
                      placed[o] = "none", placed'[o] # "none"
               PROVE  /\ balance'.litres = balance.litres - ProjectDrawdown(balance.litres, Quantity[o])
                      /\ balance'.litres < balance.litres => balance'.litres >= 0
    OBVIOUS
  <2>1. PlaceWithDrawdown(o)
    <3>1. placed \in [LitreOrders -> {"none", "PENDING_APPROVAL", "APPROVED", "CANCELLED", "REJECTED"}]
      BY DEF LedgerInv, OrdersTyped
    <3>2. placed' # placed
      OBVIOUS
    <3>3. ~(\E r \in InvoiceRequests :
              \/ \E p \in LitreOrders, s \in Supplied : LoadForConfirm(r, p, s) \/ LoadForReplace(r, p, s)
              \/ CommitConfirm(r) \/ CommitReplace(r))
      BY <3>2 DEF LoadForConfirm, LoadForReplace, CommitConfirm, CommitReplace, litreOrder
    <3>4. ~(\E l \in Corrections : Correct(l))
      BY <3>2 DEF Correct, litreOrder
    <3>5. PICK p \in LitreOrders :
            PlaceWithDrawdown(p) \/ CancelReturning(p) \/ RejectKeeping(p) \/ ApprovePlaced(p)
      BY <3>3, <3>4 DEF LitreNext
    <3>6. p = o
      BY <3>1, <3>5 DEF PlaceWithDrawdown, CancelReturning, RejectKeeping, ApprovePlaced
    <3> QED BY <3>5, <3>6 DEF CancelReturning, RejectKeeping, ApprovePlaced
  <2> QED BY <2>1, DrawdownKeeps DEF PlaceWithDrawdown, LedgerInv, BalanceKept
<1> QED BY <1>1, LedgerInitially, LedgerStep, PTL DEF LitreSpec, DrawdownIsCovered
-----------------------------------------------------------------------------
(***************************************************************************)
(* The balance and the litres an order holds.  The stored balance is the   *)
(* sum of the history; an order that is not cancelled holds what its one   *)
(* drawdown took, or nothing; a balance that was never written has no      *)
(* history.                                                                *)
(***************************************************************************)
SumKept(b) == b.litres = Total(Amounts(b), Len(b.movements))

NeverWritten(b) == ~b.exists => b.litres = 0 /\ Len(b.movements) = 0

HoldsNothing(b, o) == \A i \in DOMAIN b.movements : ~Holds(b.movements[i], o)

HeldKept(b, o, status) ==
    /\ status = "none" => HoldsNothing(b, o)
    /\ status # "CANCELLED" =>
          /\ \A i \in DOMAIN b.movements : Holds(b.movements[i], o) =>
                b.movements[i].kind = "ORDER_DRAWDOWN" /\ LitresHeld(b, o) = b.movements[i].litres
          /\ HoldsNothing(b, o) => LitresHeld(b, o) = 0
    /\ status = "CANCELLED" => LitresHeld(b, o) = 0

\* c is b without its kth movement, which reconciled o.
RemovedAt(b, c, k, o) ==
    /\ Reconciles(b.movements[k], o)
    /\ c.exists = b.exists /\ c.litres = b.litres - b.movements[k].litres
    /\ Len(c.movements) = Len(b.movements) - 1
    /\ \A j \in 1..(Len(b.movements) - 1) :
          c.movements[j] = b.movements[IF j < k THEN j ELSE j + 1]

\* What one movement adds to what the order holds.
HeldOf(m, o) == IF Holds(m, o) THEN m.litres ELSE 0

LEMMA AmountsTyped ==
    ASSUME NEW b \in BalanceDoc
    PROVE  /\ Len(b.movements) \in Nat /\ DOMAIN b.movements = 1..Len(b.movements)
           /\ Amounts(b) \in [1..Len(b.movements) -> Int]
           /\ \A o : HeldAmounts(b, o) \in [1..Len(b.movements) -> Int]
           /\ \A i \in 1..Len(b.movements) : b.movements[i] \in Move /\ b.movements[i].litres \in Int
           /\ \A i \in 1..Len(b.movements) : Amounts(b)[i] = b.movements[i].litres
           /\ \A o : \A i \in 1..Len(b.movements) :
                HeldAmounts(b, o)[i] = HeldOf(b.movements[i], o)
<1>1. Len(b.movements) \in Nat /\ DOMAIN b.movements = 1..Len(b.movements)
  BY DEF BalanceDoc
<1>2. \A i \in 1..Len(b.movements) : b.movements[i] \in Move
  BY DEF BalanceDoc
<1>3. \A i \in 1..Len(b.movements) : b.movements[i].litres \in Int
  BY <1>2 DEF Move
<1> QED BY <1>1, <1>2, <1>3 DEF Amounts, HeldAmounts, HeldOf

\* A movement adds its litres to the sum, and to what its order holds.
LEMMA PostSums ==
    ASSUME NEW b \in BalanceDoc, NEW m \in Move
    PROVE  /\ Total(Amounts(Post(b, m)), Len(Post(b, m).movements)) =
                 Total(Amounts(b), Len(b.movements)) + m.litres
           /\ \A o : LitresHeld(Post(b, m), o) = LitresHeld(b, o) + HeldOf(m, o)
           /\ Total(Amounts(b), Len(b.movements)) \in Int
           /\ \A o : LitresHeld(b, o) \in Int
<1> DEFINE c == Post(b, m)
           n == Len(b.movements)
<1>1. /\ c \in BalanceDoc /\ DOMAIN c.movements = 1..(n + 1)
      /\ \A i \in 1..n : c.movements[i] = b.movements[i]
      /\ c.movements[n + 1] = m
  BY PostTyped
<1>2. /\ n \in Nat /\ Amounts(b) \in [1..n -> Int]
      /\ \A i \in 1..n : Amounts(b)[i] = b.movements[i].litres
      /\ \A o : /\ HeldAmounts(b, o) \in [1..n -> Int]
                /\ \A i \in 1..n : HeldAmounts(b, o)[i] = HeldOf(b.movements[i], o)
  BY AmountsTyped
<1> HIDE DEF c
<1>3. Len(c.movements) = n + 1
  <2>1. Len(c.movements) \in Nat /\ DOMAIN c.movements = 1..Len(c.movements)
    BY <1>1, AmountsTyped
  <2> QED BY <1>1, <1>2, <2>1
<1> HIDE DEF n
<1>4. /\ Amounts(c) \in [1..(n + 1) -> Int]
      /\ \A i \in 1..(n + 1) : Amounts(c)[i] = c.movements[i].litres
      /\ \A o : /\ HeldAmounts(c, o) \in [1..(n + 1) -> Int]
                /\ \A i \in 1..(n + 1) :
                     HeldAmounts(c, o)[i] = HeldOf(c.movements[i], o)
  <2>1. /\ Amounts(c) \in [1..Len(c.movements) -> Int]
        /\ \A i \in 1..Len(c.movements) : Amounts(c)[i] = c.movements[i].litres
        /\ \A o : HeldAmounts(c, o) \in [1..Len(c.movements) -> Int]
        /\ \A o : \A i \in 1..Len(c.movements) :
              HeldAmounts(c, o)[i] = HeldOf(c.movements[i], o)
    BY <1>1, AmountsTyped, Zenon
  <2> QED BY <1>3, <2>1, Zenon
<1>10. \A i \in 1..n : i \in 1..(n + 1)
  BY <1>2
<1>5. /\ Total(Amounts(c), n + 1) = Total(Amounts(b), n) + m.litres
      /\ Total(Amounts(b), n) \in Int
  <2>1. \A i \in 1..n : Amounts(c)[i] = Amounts(b)[i]
    BY <1>1, <1>2, <1>4, <1>10, Zenon
  <2>2. Amounts(c)[n + 1] = m.litres
    BY <1>1, <1>2, <1>4
  <2>3. /\ Total(Amounts(c), n + 1) = Total(Amounts(b), n) + Amounts(c)[n + 1]
        /\ Total(Amounts(b), n) \in Int
    BY <1>2, <1>4, <2>1, TotalAppend, Zenon
  <2> QED BY <2>2, <2>3
<1>6. ASSUME NEW o
      PROVE  /\ LitresHeld(c, o) = LitresHeld(b, o) + HeldOf(m, o)
             /\ LitresHeld(b, o) \in Int
  <2>1. \A i \in 1..n : HeldAmounts(c, o)[i] = HeldAmounts(b, o)[i]
    <3>1. \A i \in 1..n : HeldAmounts(b, o)[i] = HeldOf(b.movements[i], o)
      BY <1>2, Zenon
    <3>2. \A i \in 1..(n + 1) : HeldAmounts(c, o)[i] = HeldOf(c.movements[i], o)
      BY <1>4, Zenon
    <3> QED BY <1>1, <1>10, <3>1, <3>2, Zenon
  <2>2. HeldAmounts(c, o)[n + 1] = HeldOf(m, o)
    BY <1>1, <1>2, <1>4
  <2>3. HeldAmounts(b, o) \in [1..n -> Int] /\ HeldAmounts(c, o) \in [1..(n + 1) -> Int]
    BY <1>2, <1>4
  <2>4. /\ Total(HeldAmounts(c, o), n + 1) = Total(HeldAmounts(b, o), n) + HeldAmounts(c, o)[n + 1]
        /\ Total(HeldAmounts(b, o), n) \in Int
    BY <1>2, <2>1, <2>3, TotalAppend, Zenon
  <2> QED BY <1>3, <2>2, <2>4, Zenon DEF LitresHeld, n
<1> QED BY <1>3, <1>5, <1>6 DEF c, n

\* Pulling a reconciling movement takes its litres from the sum and nothing from any order.
LEMMA RemovedSums ==
    ASSUME NEW b \in BalanceDoc, NEW c \in BalanceDoc, NEW o, NEW k \in 1..Len(b.movements), RemovedAt(b, c, k, o)
    PROVE  /\ SumKept(b) => SumKept(c)
           /\ \A p : LitresHeld(c, p) = LitresHeld(b, p)
<1> DEFINE n == Len(b.movements)
<1>1. /\ n \in Nat /\ Amounts(b) \in [1..n -> Int]
      /\ \A i \in 1..n : b.movements[i].litres \in Int
      /\ \A i \in 1..n : Amounts(b)[i] = b.movements[i].litres
      /\ \A p : /\ HeldAmounts(b, p) \in [1..n -> Int]
                /\ \A i \in 1..n : HeldAmounts(b, p)[i] = HeldOf(b.movements[i], p)
  BY AmountsTyped
<1>2. /\ Amounts(c) \in [1..(n - 1) -> Int]
      /\ \A i \in 1..(n - 1) : Amounts(c)[i] = c.movements[i].litres
      /\ \A p : /\ HeldAmounts(c, p) \in [1..(n - 1) -> Int]
                /\ \A i \in 1..(n - 1) :
                     HeldAmounts(c, p)[i] = HeldOf(c.movements[i], p)
  BY AmountsTyped DEF RemovedAt
<1>3. /\ Len(c.movements) = n - 1 /\ c.litres = b.litres - b.movements[k].litres
      /\ \A j \in 1..(n - 1) : c.movements[j] = b.movements[IF j < k THEN j ELSE j + 1]
      /\ \A p : ~Holds(b.movements[k], p)
  BY DEF RemovedAt, Reconciles, Holds, ReconciliationKinds
<1>4. k \in 1..n
  OBVIOUS
<1> HIDE DEF n
<1>5. \A j \in 1..(n - 1) : (IF j < k THEN j ELSE j + 1) \in 1..n
  BY <1>1, <1>4
<1>6. /\ Total(Amounts(c), n - 1) = Total(Amounts(b), n) - b.movements[k].litres
      /\ Total(Amounts(b), n) \in Int
  <2>1. \A j \in 1..(n - 1) : Amounts(c)[j] = Amounts(b)[IF j < k THEN j ELSE j + 1]
    BY <1>1, <1>2, <1>3, <1>5, Zenon
  <2>2. /\ Total(Amounts(c), n - 1) = Total(Amounts(b), n) - Amounts(b)[k]
        /\ Total(Amounts(b), n) \in Int
    BY <1>1, <1>2, <1>4, <2>1, TotalRemove, Zenon
  <2> QED BY <1>1, <1>4, <2>2, Zenon
<1>7. ASSUME NEW p PROVE LitresHeld(c, p) = LitresHeld(b, p)
  <2>1. \A j \in 1..(n - 1) : HeldAmounts(c, p)[j] = HeldAmounts(b, p)[IF j < k THEN j ELSE j + 1]
    <3> SUFFICES ASSUME NEW j \in 1..(n - 1), NEW i, i = IF j < k THEN j ELSE j + 1
                 PROVE  HeldAmounts(c, p)[j] = HeldAmounts(b, p)[i]
      BY Zenon
    <3>1. i \in 1..n /\ c.movements[j] = b.movements[i]
      BY <1>3, <1>5, Zenon
    <3>2. HeldAmounts(b, p)[i] = HeldOf(b.movements[i], p)
      BY <1>1, <3>1, Zenon
    <3>3. HeldAmounts(c, p)[j] = HeldOf(c.movements[j], p)
      BY <1>2, Zenon
    <3> QED BY <3>1, <3>2, <3>3, Zenon
  <2>2. HeldAmounts(b, p) \in [1..n -> Int] /\ HeldAmounts(c, p) \in [1..(n - 1) -> Int]
    BY <1>1, <1>2, Zenon
  <2>3. HeldAmounts(b, p)[k] = 0
    BY <1>1, <1>3, <1>4, Zenon DEF HeldOf
  <2>4. /\ Total(HeldAmounts(c, p), n - 1) = Total(HeldAmounts(b, p), n) - HeldAmounts(b, p)[k]
        /\ Total(HeldAmounts(b, p), n) \in Int
    BY <1>1, <1>4, <2>1, <2>2, TotalRemove, Zenon
  <2>5. Total(HeldAmounts(c, p), n - 1) = Total(HeldAmounts(b, p), n)
    BY <2>3, <2>4
  <2> QED BY <1>3, <2>5, Zenon DEF LitresHeld, n
<1>8. SumKept(b) => SumKept(c)
  BY <1>1, <1>3, <1>4, <1>6 DEF SumKept, n
<1> QED BY <1>7, <1>8

LEMMA PostHeld ==
    ASSUME NEW b \in BalanceDoc, NEW m \in Move, NEW p, ~Holds(m, p), NEW status, HeldKept(b, p, status)
    PROVE  HeldKept(Post(b, m), p, status)
<1> DEFINE c == Post(b, m)
           n == Len(b.movements)
<1>1. /\ DOMAIN c.movements = 1..(n + 1) /\ DOMAIN b.movements = 1..n
      /\ \A i \in 1..n : c.movements[i] = b.movements[i]
      /\ c.movements[n + 1] = m /\ n \in Nat
  BY PostTyped, AmountsTyped
<1>2. LitresHeld(c, p) = LitresHeld(b, p)
  <2>1. LitresHeld(c, p) = LitresHeld(b, p) + 0 /\ LitresHeld(b, p) \in Int
    BY PostSums, Zenon DEF HeldOf
  <2> QED BY <2>1
<1> HIDE DEF c, n
<1>3. \A i \in DOMAIN c.movements : Holds(c.movements[i], p) =>
          i \in DOMAIN b.movements /\ c.movements[i] = b.movements[i]
  BY <1>1
<1>4. \A i \in DOMAIN b.movements : i \in DOMAIN c.movements /\ c.movements[i] = b.movements[i]
  BY <1>1
<1>5. HoldsNothing(c, p) <=> HoldsNothing(b, p)
  BY <1>3, <1>4 DEF HoldsNothing
<1> QED BY <1>2, <1>3, <1>5 DEF HeldKept, c

LEMMA RemovedHeld ==
    ASSUME NEW b \in BalanceDoc, NEW c \in BalanceDoc, NEW o, NEW k \in 1..Len(b.movements), RemovedAt(b, c, k, o),
           NEW p, NEW status, HeldKept(b, p, status)
    PROVE  HeldKept(c, p, status)
<1> DEFINE n == Len(b.movements)
<1>1. LitresHeld(c, p) = LitresHeld(b, p)
  BY RemovedSums, Zenon
<1>2. /\ DOMAIN c.movements = 1..(n - 1) /\ DOMAIN b.movements = 1..n /\ n \in Nat /\ k \in 1..n
      /\ \A j \in 1..(n - 1) : c.movements[j] = b.movements[IF j < k THEN j ELSE j + 1]
      /\ ~Holds(b.movements[k], p)
  BY AmountsTyped DEF RemovedAt, Reconciles, Holds, ReconciliationKinds
<1> HIDE DEF n
<1>3. \A j \in DOMAIN c.movements : \E i \in DOMAIN b.movements : c.movements[j] = b.movements[i]
  <2>1. \A j \in 1..(n - 1) : (IF j < k THEN j ELSE j + 1) \in 1..n
    BY <1>2
  <2> QED BY <1>2, <2>1, Zenon
<1>4. \A i \in DOMAIN b.movements : i # k => \E j \in DOMAIN c.movements : c.movements[j] = b.movements[i]
  <2> SUFFICES ASSUME NEW i \in 1..n, i # k PROVE \E j \in 1..(n - 1) : c.movements[j] = b.movements[i]
    BY <1>2
  <2>1. CASE i < k
    <3>1. i \in 1..(n - 1)
      BY <1>2, <2>1
    <3> QED BY <1>2, <2>1, <3>1
  <2>2. CASE ~(i < k)
    <3>1. i - 1 \in 1..(n - 1) /\ ~(i - 1 < k) /\ (i - 1) + 1 = i
      BY <1>2, <2>2
    <3>2. c.movements[i - 1] = b.movements[i]
      BY <1>2, <3>1
    <3> QED BY <3>1, <3>2
  <2> QED BY <2>1, <2>2
<1>5. HoldsNothing(c, p) <=> HoldsNothing(b, p)
  BY <1>2, <1>3, <1>4, Zenon DEF HoldsNothing
<1> QED BY <1>1, <1>3, <1>5, Zenon DEF HeldKept

DocKept(b, status) ==
    SumKept(b) /\ NeverWritten(b) /\ \A o \in LitreOrders : HeldKept(b, o, status[o])

\* A movement that no order holds, on a balance that exists.
LEMMA PostKept ==
    ASSUME NEW b \in BalanceDoc, NEW m \in Move, NEW status, DocKept(b, status), b.exists,
           \A o : ~Holds(m, o)
    PROVE  DocKept(Post(b, m), status)
<1>1. \A o \in LitreOrders : HeldKept(Post(b, m), o, status[o])
  BY PostHeld, Zenon DEF DocKept
<1>2. SumKept(Post(b, m)) /\ NeverWritten(Post(b, m))
  BY PostSums, PostTyped DEF DocKept, SumKept, NeverWritten
<1> QED BY <1>1, <1>2, Zenon DEF DocKept

LEMMA MarkedKept ==
    ASSUME NEW b \in BalanceDoc, NEW ids \in SUBSET LitreOrders, NEW status, DocKept(b, status)
    PROVE  DocKept(Marked(b, TRUE, ids), status)
<1> DEFINE a == Marked(b, TRUE, ids)
<1>1. a.movements = b.movements /\ a.exists /\ a.litres = b.litres
  BY BalanceMarked
<1> HIDE DEF a
<1>2. Amounts(a) = Amounts(b) /\ \A o : LitresHeld(a, o) = LitresHeld(b, o)
  BY <1>1, Zenon DEF Amounts, LitresHeld, HeldAmounts
<1>3. SumKept(a) /\ NeverWritten(a)
  BY <1>1, <1>2, Zenon DEF DocKept, SumKept, NeverWritten
<1>4. ASSUME NEW o \in LitreOrders PROVE HeldKept(a, o, status[o])
  <2>1. LitresHeld(a, o) = LitresHeld(b, o)
    BY <1>2, Zenon
  <2> QED BY <1>1, <2>1, Zenon DEF DocKept, HeldKept, HoldsNothing
<1> QED BY <1>3, <1>4, Zenon DEF DocKept, a

LEMMA RecordDoc ==
    ASSUME NEW b \in BalanceDoc, NEW o \in LitreOrders, NEW s \in Supplied, NEW status, DocKept(b, status)
    PROVE  DocKept(RecordReconciliation(b, o, s).b, status)
<1> DEFINE short == Shortfall(o, s)
           kind == IF short > 0 THEN "SHORTFALL_CREDIT" ELSE "EXCESS_DEBIT"
           ids == b.reconciledOrderIds \cup {o}
           m == Movement(kind, short, o)
           a == Marked(b, TRUE, ids)
           r == RecordReconciliation(b, o, s)
<1>1. short \in Int /\ ids \in SUBSET LitreOrders
  BY LitreAssumption DEF Shortfall, BalanceDoc
<1>2. r = [ok |-> TRUE, b |-> b] \/ r = [ok |-> FALSE, b |-> b] \/ r = [ok |-> TRUE, b |-> Post(a, m)]
  BY DEF RecordReconciliation, Marked
<1>3. m \in Move /\ \A p : ~Holds(m, p)
  BY <1>1 DEF Movement, Move, LitreMovementKind, Holds
<1> HIDE DEF r, m, ids, short
<1>4. a \in BalanceDoc /\ a.exists /\ DocKept(a, status)
  BY <1>1, BalanceMarked, MarkedKept
<1> HIDE DEF a
<1>5. DocKept(Post(a, m), status)
  BY <1>3, <1>4, PostKept
<1>6. r.b = b \/ r.b = Post(a, m)
  BY <1>2
<1> QED BY <1>5, <1>6 DEF r

LEMMA UnreconciledShape ==
    ASSUME NEW b \in BalanceDoc, NEW o \in LitreOrders
    PROVE  LET c == Unreconciled(b, o) IN
           /\ c \in BalanceDoc
           /\ c = b \/ \E k \in 1..Len(b.movements) : RemovedAt(b, c, k, o)
<1> DEFINE k == FirstMovement(b, o, ReconciliationKinds)
           c == Unreconciled(b, o)
           ms == b.movements
           n == Len(ms)
           l == b.litres - ms[k].litres
           rest == RemoveAt(ms, k)
           ids == b.reconciledOrderIds \ {o}
<1>1. ms \in Seq(Move) /\ b.litres \in Int /\ DOMAIN ms = 1..n /\ n \in Nat
  BY DEF BalanceDoc
<1>2. \/ k \in 1..n /\ Reconciles(ms[k], o)
      \/ k = 0
  BY <1>1, FirstMovementProperties DEF Reconciles
<1>3. CASE k = 0
  BY <1>3 DEF Unreconciled
<1>4. CASE k \in 1..n /\ Reconciles(ms[k], o)
  <2>1. c = Removed(b, l, rest, ids)
    BY <1>4 DEF Unreconciled, Removed
  <2>2. /\ rest \in Seq(Move) /\ Len(rest) = n - 1
        /\ \A j \in 1..(n - 1) : rest[j] = ms[IF j < k THEN j ELSE j + 1]
    BY <1>1, <1>4, RemoveAtProperties
  <2>3. l \in Int /\ ids \in SUBSET LitreOrders
    <3>1. ms[k] \in Move
      BY <1>1, <1>4
    <3> QED BY <1>1, <3>1 DEF Move, BalanceDoc
  <2>4. l = b.litres - ms[k].litres
    OBVIOUS
  <2> HIDE DEF k, c, l, rest, ids
  <2>5. c \in BalanceDoc /\ c.movements = rest /\ c.exists = b.exists /\ c.litres = l
    BY <2>1, <2>2, <2>3, BalanceRemoved
  <2>6. RemovedAt(b, c, k, o)
    BY <1>4, <2>2, <2>4, <2>5 DEF RemovedAt
  <2> QED BY <1>4, <2>5, <2>6 DEF c
<1> QED BY <1>2, <1>3, <1>4

LEMMA UnreconciledDoc ==
    ASSUME NEW b \in BalanceDoc, NEW o \in LitreOrders, NEW status, DocKept(b, status)
    PROVE  Unreconciled(b, o) \in BalanceDoc /\ DocKept(Unreconciled(b, o), status)
<1> DEFINE c == Unreconciled(b, o)
<1>1. /\ c \in BalanceDoc
      /\ c = b \/ \E k \in 1..Len(b.movements) : RemovedAt(b, c, k, o)
  BY UnreconciledShape
<1> HIDE DEF c
<1>2. ASSUME NEW k \in 1..Len(b.movements), RemovedAt(b, c, k, o) PROVE DocKept(c, status)
  <2>1. SumKept(c)
    BY <1>1, <1>2, RemovedSums, Zenon DEF DocKept
  <2>2. NeverWritten(c)
    BY <1>2, AmountsTyped DEF DocKept, NeverWritten, RemovedAt
  <2>3. \A p \in LitreOrders : HeldKept(c, p, status[p])
    BY <1>1, <1>2, RemovedHeld, Zenon DEF DocKept
  <2> QED BY <2>1, <2>2, <2>3, Zenon DEF DocKept
<1> QED BY <1>1, <1>2 DEF c

\* What placing an order draws is what it holds from then on.
LEMMA DrawdownDoc ==
    ASSUME NEW b \in BalanceDoc, NEW o \in LitreOrders, SumKept(b), NeverWritten(b), HeldKept(b, o, "none")
    PROVE  LET c == Drawdown(b, o) IN
           /\ SumKept(c) /\ NeverWritten(c) /\ HeldKept(c, o, "PENDING_APPROVAL")
           /\ \A p, status : p # o /\ HeldKept(b, p, status) => HeldKept(c, p, status)
<1> DEFINE drawn == LitresDrawn(b.litres, Quantity[o])
           m == Movement("ORDER_DRAWDOWN", -drawn, o)
           n == Len(b.movements)
<1>1. b.litres \in Int /\ Quantity[o] \in Nat \ {0}
  BY LitreAssumption DEF BalanceDoc
<1>2. drawn \in Nat /\ (drawn > 0 => b.litres # 0)
  BY <1>1 DEF LitresDrawn, Smaller
<1>3. /\ m \in Move /\ m.litres = -drawn /\ m.kind = "ORDER_DRAWDOWN" /\ Holds(m, o)
      /\ \A p : p # o => ~Holds(m, p)
  BY <1>2 DEF Movement, Move, LitreMovementKind, Holds
<1>4. Drawdown(b, o) = IF drawn <= 0 THEN b ELSE Post(b, m)
  BY DEF Drawdown
<1> HIDE DEF drawn, m
<1>5. CASE drawn <= 0
  <2>1. HeldKept(b, o, "PENDING_APPROVAL")
    BY DEF HeldKept
  <2> QED BY <1>4, <1>5, <2>1
<1>6. CASE ~(drawn <= 0)
  <2> DEFINE c == Post(b, m)
  <2>1. /\ DOMAIN c.movements = 1..(n + 1) /\ DOMAIN b.movements = 1..n /\ n \in Nat
        /\ \A i \in 1..n : c.movements[i] = b.movements[i]
        /\ c.movements[n + 1] = m /\ c.exists = b.exists /\ c.litres = b.litres + m.litres
    BY <1>3, PostTyped, AmountsTyped
  <2>2. /\ Total(Amounts(c), Len(c.movements)) = Total(Amounts(b), n) + m.litres
        /\ LitresHeld(c, o) = LitresHeld(b, o) + m.litres /\ LitresHeld(b, o) \in Int
    BY <1>3, PostSums, Zenon DEF HeldOf
  <2>3. \A p, status : p # o /\ HeldKept(b, p, status) => HeldKept(c, p, status)
    BY <1>3, PostHeld, Zenon
  <2> HIDE DEF c
  <2>4. SumKept(c)
    BY <2>1, <2>2, Zenon DEF SumKept
  <2>5. NeverWritten(c)
    BY <1>2, <1>6, <2>1 DEF NeverWritten
  <2>6. LitresHeld(b, o) = 0 /\ HoldsNothing(b, o)
    BY DEF HeldKept
  <2>7. LitresHeld(c, o) = m.litres
    BY <1>2, <1>3, <2>2, <2>6
  <2>8. \A i \in DOMAIN c.movements : Holds(c.movements[i], o) => c.movements[i] = m
    BY <2>1, <2>6 DEF HoldsNothing
  <2>9. n + 1 \in DOMAIN c.movements
    BY <2>1
  <2>10. HeldKept(c, o, "PENDING_APPROVAL")
    BY <1>3, <2>1, <2>7, <2>8, <2>9 DEF HeldKept, HoldsNothing
  <2>11. Drawdown(b, o) = c
    BY <1>4, <1>6 DEF c
  <2> QED BY <2>3, <2>4, <2>5, <2>10, <2>11, Zenon
<1> QED BY <1>5, <1>6

\* Cancelling gives back what the order holds.
LEMMA ReturnDoc ==
    ASSUME NEW b \in BalanceDoc, NEW o \in LitreOrders, SumKept(b), NeverWritten(b),
           NEW before, before # "CANCELLED", HeldKept(b, o, before)
    PROVE  LET c == ReturnDrawdown(b, o) IN
           /\ SumKept(c) /\ NeverWritten(c) /\ HeldKept(c, o, "CANCELLED")
           /\ \A p, status : p # o /\ HeldKept(b, p, status) => HeldKept(c, p, status)
<1> DEFINE drawn == FirstMovement(b, o, {"ORDER_DRAWDOWN"})
           returned == FirstMovement(b, o, {"DRAWDOWN_RETURNED"})
           m == Movement("DRAWDOWN_RETURNED", -b.movements[drawn].litres, o)
           n == Len(b.movements)
<1>1. ReturnDrawdown(b, o) = IF ~b.exists \/ returned # 0 \/ drawn = 0 THEN b ELSE Post(b, m)
  BY DEF ReturnDrawdown
<1>2. DOMAIN b.movements = 1..n /\ n \in Nat /\ b.movements \in Seq(Move)
  BY DEF BalanceDoc
<1>3. \/ drawn \in 1..n /\ b.movements[drawn].orderId = o /\ b.movements[drawn].kind = "ORDER_DRAWDOWN"
      \/ drawn = 0 /\ \A j \in 1..n : ~(b.movements[j].orderId = o /\ b.movements[j].kind = "ORDER_DRAWDOWN")
  BY <1>2, FirstMovementProperties
<1>4. \/ returned \in 1..n /\ b.movements[returned].orderId = o /\ b.movements[returned].kind = "DRAWDOWN_RETURNED"
      \/ returned = 0
  BY <1>2, FirstMovementProperties
<1>5. returned = 0
  BY <1>2, <1>4 DEF HeldKept, Holds
<1>6. CASE ~b.exists \/ drawn = 0
  <2>1. HoldsNothing(b, o)
    <3>1. CASE ~b.exists
      BY <1>2, <3>1 DEF NeverWritten, HoldsNothing
    <3>2. CASE drawn = 0
      BY <1>2, <1>3, <3>2 DEF HeldKept, HoldsNothing, Holds
    <3> QED BY <1>6, <3>1, <3>2
  <2>2. HeldKept(b, o, "CANCELLED")
    BY <2>1 DEF HeldKept
  <2>3. ReturnDrawdown(b, o) = b
    BY <1>1, <1>6
  <2> QED BY <2>2, <2>3, Zenon
<1>7. CASE b.exists /\ drawn # 0
  <2> DEFINE d == b.movements[drawn]
             c == Post(b, m)
  <2>1. drawn \in 1..n /\ Holds(d, o)
    BY <1>3, <1>7 DEF Holds
  <2>2. d.litres \in Int /\ LitresHeld(b, o) = d.litres
    <3>1. d.litres \in Int
      BY <2>1, AmountsTyped
    <3>2. LitresHeld(b, o) = d.litres
      <4> HIDE DEF drawn
      <4> QED BY <1>2, <2>1 DEF HeldKept
    <3> QED BY <3>1, <3>2
  <2> HIDE DEF d
  <2>3. /\ m \in Move /\ m.litres = -d.litres /\ Holds(m, o)
        /\ \A p : p # o => ~Holds(m, p)
    BY <2>2 DEF Movement, Move, LitreMovementKind, Holds, d
  <2> HIDE DEF m
  <2>4. c.exists = b.exists /\ c.litres = b.litres + m.litres
    BY <2>3, PostTyped
  <2>5. /\ Total(Amounts(c), Len(c.movements)) = Total(Amounts(b), n) + m.litres
        /\ LitresHeld(c, o) = LitresHeld(b, o) + m.litres
    BY <2>3, PostSums, Zenon DEF HeldOf
  <2>6. \A p, status : p # o /\ HeldKept(b, p, status) => HeldKept(c, p, status)
    BY <2>3, PostHeld, Zenon
  <2> HIDE DEF c
  <2>7. SumKept(c) /\ NeverWritten(c)
    BY <1>7, <2>4, <2>5, Zenon DEF SumKept, NeverWritten
  <2>8. LitresHeld(c, o) = 0
    BY <2>2, <2>3, <2>5
  <2>9. HeldKept(c, o, "CANCELLED")
    BY <2>8 DEF HeldKept
  <2>10. ReturnDrawdown(b, o) = c
    BY <1>1, <1>5, <1>7 DEF c
  <2> QED BY <2>6, <2>7, <2>9, <2>10, Zenon
<1> QED BY <1>6, <1>7

HeldInv == DocKept(balance, placed)

LEMMA HeldInitially == LitreInit => HeldInv
<1> SUFFICES ASSUME LitreInit PROVE DocKept(balance, placed)
  BY DEF HeldInv
<1>1. /\ balance.exists = FALSE /\ balance.litres = 0 /\ balance.movements = <<>>
      /\ placed = [o \in LitreOrders |-> "none"]
  BY DEF LitreInit, NoBalance
<1>2. Len(balance.movements) = 0 /\ DOMAIN balance.movements = {}
  BY <1>1
<1>3. \A w \in [1..0 -> Int] : Total(w, 0) = 0
  BY TotalOfNone
<1>4. Amounts(balance) \in [1..0 -> Int] /\ \A o : HeldAmounts(balance, o) \in [1..0 -> Int]
  BY <1>1 DEF Amounts, HeldAmounts
<1>5. SumKept(balance) /\ \A o : LitresHeld(balance, o) = 0
  BY <1>1, <1>2, <1>3, <1>4, Zenon DEF SumKept, LitresHeld
<1>6. \A o \in LitreOrders : placed[o] = "none"
  BY <1>1
<1>7. \A o \in LitreOrders : HeldKept(balance, o, placed[o])
  BY <1>2, <1>5, <1>6 DEF HeldKept, HoldsNothing
<1> QED BY <1>1, <1>2, <1>5, <1>7 DEF DocKept, NeverWritten

LEMMA OrderStepHeld ==
    ASSUME LedgerInv, DocKept(balance, placed), NEW o \in LitreOrders,
           PlaceWithDrawdown(o) \/ CancelReturning(o) \/ RejectKeeping(o) \/ ApprovePlaced(o)
    PROVE  DocKept(balance', placed')
<1>1. balance \in BalanceDoc /\ placed \in [LitreOrders -> {"none", "PENDING_APPROVAL", "APPROVED", "CANCELLED", "REJECTED"}]
  BY DEF LedgerInv, BalanceKept, OrdersTyped
<1>2. SumKept(balance) /\ NeverWritten(balance) /\ \A p \in LitreOrders : HeldKept(balance, p, placed[p])
  BY DEF DocKept
<1>3. CASE PlaceWithDrawdown(o)
  <2>1. placed[o] = "none" /\ balance' = Drawdown(balance, o) /\ placed' = [placed EXCEPT ![o] = "PENDING_APPROVAL"]
    BY <1>3 DEF PlaceWithDrawdown
  <2>2. HeldKept(balance, o, "none")
    BY <1>2, <2>1
  <2>3. /\ SumKept(balance') /\ NeverWritten(balance') /\ HeldKept(balance', o, "PENDING_APPROVAL")
        /\ \A p, status : p # o /\ HeldKept(balance, p, status) => HeldKept(balance', p, status)
    BY <1>1, <1>2, <2>1, <2>2, DrawdownDoc
  <2>4. placed'[o] = "PENDING_APPROVAL" /\ \A p \in LitreOrders : p # o => placed'[p] = placed[p]
    BY <1>1, <2>1
  <2>5. \A p \in LitreOrders : HeldKept(balance', p, placed'[p])
    BY <1>2, <2>3, <2>4
  <2> QED BY <2>3, <2>5 DEF DocKept
<1>4. CASE CancelReturning(o)
  <2>1. /\ placed[o] # "CANCELLED" /\ balance' = ReturnDrawdown(balance, o)
        /\ placed' = [placed EXCEPT ![o] = "CANCELLED"]
    BY <1>4 DEF CancelReturning
  <2>3. /\ SumKept(balance') /\ NeverWritten(balance') /\ HeldKept(balance', o, "CANCELLED")
        /\ \A p, status : p # o /\ HeldKept(balance, p, status) => HeldKept(balance', p, status)
    BY <1>1, <1>2, <2>1, ReturnDoc
  <2>4. placed'[o] = "CANCELLED" /\ \A p \in LitreOrders : p # o => placed'[p] = placed[p]
    BY <1>1, <2>1
  <2>5. \A p \in LitreOrders : HeldKept(balance', p, placed'[p])
    BY <1>2, <2>3, <2>4
  <2> QED BY <2>3, <2>5 DEF DocKept
<1>5. CASE RejectKeeping(o) \/ ApprovePlaced(o)
  <2>1. balance' = balance /\ placed[o] = "PENDING_APPROVAL"
    BY <1>5 DEF RejectKeeping, ApprovePlaced
  <2>2. placed'[o] \in {"REJECTED", "APPROVED"} /\ \A p \in LitreOrders : p # o => placed'[p] = placed[p]
    BY <1>1, <1>5 DEF RejectKeeping, ApprovePlaced
  <2>3. HeldKept(balance, o, placed'[o])
    <3>1. HeldKept(balance, o, "PENDING_APPROVAL")
      BY <1>2, <2>1
    <3> QED BY <2>2, <3>1 DEF HeldKept
  <2>4. \A p \in LitreOrders : HeldKept(balance, p, placed'[p])
    BY <1>2, <2>2, <2>3
  <2> QED BY <1>2, <2>1, <2>4 DEF DocKept
<1> QED BY <1>3, <1>4, <1>5

LEMMA HeldStep == LedgerInv /\ HeldInv /\ [LitreNext]_litreVars => HeldInv'
<1> SUFFICES ASSUME LedgerInv, DocKept(balance, placed), [LitreNext]_litreVars PROVE DocKept(balance', placed')
  BY DEF HeldInv
<1>0. balance \in BalanceDoc
  BY DEF LedgerInv, BalanceKept
<1>1. CASE UNCHANGED <<balance, placed>>
  BY <1>1, Zenon
<1>2. ASSUME NEW o \in LitreOrders,
             PlaceWithDrawdown(o) \/ CancelReturning(o) \/ RejectKeeping(o) \/ ApprovePlaced(o)
      PROVE  DocKept(balance', placed')
  BY <1>2, OrderStepHeld
<1>3. ASSUME NEW r \in InvoiceRequests, NEW o \in LitreOrders, NEW s \in Supplied,
             LoadForConfirm(r, o, s) \/ LoadForReplace(r, o, s)
      PROVE  UNCHANGED <<balance, placed>>
  BY <1>3 DEF LoadForConfirm, LoadForReplace, litreOrder
<1>4. ASSUME NEW r \in InvoiceRequests, CommitConfirm(r) PROVE DocKept(balance', placed')
  <2> DEFINE o == invoicing[r].order
             s == invoicing[r].supplied
  <2>1. o \in LitreOrders /\ s \in Supplied
    BY <1>4 DEF LedgerInv, RequestsTyped, CommitConfirm
  <2>2. balance' = RecordReconciliation(balance, o, s).b /\ placed' = placed
    BY <1>4 DEF CommitConfirm
  <2> HIDE DEF o, s
  <2> QED BY <1>0, <2>1, <2>2, RecordDoc, Zenon
<1>5. ASSUME NEW r \in InvoiceRequests, CommitReplace(r) PROVE DocKept(balance', placed')
  <2> DEFINE o == invoicing[r].order
             s == invoicing[r].supplied
             u == Unreconciled(balance, o)
  <2>1. o \in LitreOrders /\ s \in Supplied
    BY <1>5 DEF LedgerInv, RequestsTyped, CommitReplace
  <2>2. /\ balance' = RecordReconciliation(u, o, s).b \/ balance' = balance
        /\ placed' = placed
    BY <1>5 DEF CommitReplace, RestateReconciliation
  <2> HIDE DEF o, s
  <2>3. u \in BalanceDoc /\ DocKept(u, placed)
    BY <1>0, <2>1, UnreconciledDoc, Zenon
  <2> HIDE DEF u
  <2>4. DocKept(RecordReconciliation(u, o, s).b, placed)
    BY <2>1, <2>3, RecordDoc, Zenon
  <2> QED BY <2>2, <2>4, Zenon
<1>6. ASSUME NEW l \in Corrections, Correct(l) PROVE DocKept(balance', placed')
  <2> DEFINE m == Movement("CORRECTION", l, NoOrder)
  <2>1. m \in Move /\ \A o : ~Holds(m, o)
    BY LitreAssumption DEF Movement, Move, LitreMovementKind, Holds
  <2>2. balance.exists /\ balance' = Post(balance, m) /\ placed' = placed
    BY <1>6 DEF Correct, litreOrder
  <2> HIDE DEF m
  <2> QED BY <1>0, <2>1, <2>2, PostKept, Zenon
<1>7. UNCHANGED litreVars => UNCHANGED <<balance, placed>>
  BY DEF litreVars
<1> QED BY <1>1, <1>2, <1>3, <1>4, <1>5, <1>6, <1>7 DEF LitreNext

\* However drawdowns, returns, reconciliations, restatements and corrections interleave, the
\* balance the station owner sees is the sum of the movements in its history.
THEOREM BalancesAreSums == LitreSpec => []BalanceIsSumOfMovements
<1>1. HeldInv => BalanceIsSumOfMovements
  BY Zenon DEF HeldInv, DocKept, SumKept, BalanceIsSumOfMovements
<1> QED BY <1>1, LedgerInitially, LedgerStep, HeldInitially, HeldStep, PTL DEF LitreSpec

\* A cancelled order's drawdown was given back, once and to the litre.
THEOREM CancellingGivesBack == LitreSpec => []CancelledOrderHoldsNoLitres
<1>1. HeldInv => CancelledOrderHoldsNoLitres
  BY Zenon DEF HeldInv, DocKept, HeldKept, CancelledOrderHoldsNoLitres
<1> QED BY <1>1, LedgerInitially, LedgerStep, HeldInitially, HeldStep, PTL DEF LitreSpec
=============================================================================
