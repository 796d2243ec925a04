--------------------------- MODULE Ledger_proofs ---------------------------
(***************************************************************************)
(* What the settlement ledger guarantees for any months, settlements,      *)
(* charges and amounts: a payment is spread over its months as             *)
(* plan_portions promises, a waiver clears its scope, and however requests *)
(* interleave the portions place every cent that was paid.                 *)
(***************************************************************************)
EXTENDS Ledger, Sums

\* A total is the sum over all keys.
LEMMA TotalIsSum == \A f : Total(f) = Sum(f, DOMAIN f)
BY DEF Total, SumFunction, Sum

\* The newest of some months is one of them.
LEMMA MaxIn ==
    ASSUME NEW n \in Nat, NEW S, S \subseteq 1..n, S # {}
    PROVE  Max(S) \in S /\ \A m \in S : m <= Max(S)
<1> DEFINE T == {n - m : m \in S}
<1>1. T \subseteq Nat /\ T # {}
  <2>1. \A m \in S : m \in 1..n
    OBVIOUS
  <2>2. \A m \in S : n - m \in Nat
    BY <2>1
  <2> QED BY <2>2
<1>2. PICK t \in T : \A u \in T : t <= u
  BY <1>1, LeastNat
<1>3. PICK m \in S : t = n - m
  BY <1>2
<1>4. \A k \in S : k <= m
  <2> SUFFICES ASSUME NEW k \in S PROVE k <= m
    OBVIOUS
  <2>1. n - k \in T
    OBVIOUS
  <2>2. t <= n - k
    BY <1>2, <2>1
  <2> QED BY <1>3, <2>2
<1> QED BY <1>3, <1>4 DEF Max

----------------------------------------------------------------------------
(* The loop of plan_portions: what is left of the money after each month.  *)
LeftIs(owed, covered, money, last, left) ==
    left = [m \in 0..last |->
               IF m = 0 THEN money
               ELSE IF m \in covered THEN left[m-1] - Paid(owed, m, left[m-1])
               ELSE left[m-1]]

\* The loop ends, after any number of months.
LEMMA LeftExists ==
    ASSUME NEW owed, NEW covered, NEW money, NEW last \in Nat
    PROVE  \E left : LeftIs(owed, covered, money, last, left)
<1> DEFINE Good == {n \in Nat : \E left : LeftIs(owed, covered, money, n, left)}
<1>1. 0 \in Good
  <2>1. LeftIs(owed, covered, money, 0, [m \in 0..0 |-> money])
    BY DEF LeftIs
  <2> QED BY <2>1
<1>2. ASSUME NEW n \in Nat, n \in Good PROVE n + 1 \in Good
  <2>1. PICK g : LeftIs(owed, covered, money, n, g)
    BY <1>2
  <2> DEFINE after(h, m) == IF m \in covered THEN h[m-1] - Paid(owed, m, h[m-1]) ELSE h[m-1]
             h == [m \in 0..(n+1) |-> IF m <= n THEN g[m] ELSE after(g, m)]
  <2>2. \A m \in 0..n : g[m] = IF m = 0 THEN money ELSE after(g, m)
    BY <2>1 DEF LeftIs
  <2>3. \A m \in 0..n : h[m] = g[m]
    OBVIOUS
  <2>4. \A m \in 1..(n+1) : m - 1 \in 0..n
    OBVIOUS
  <2>5. \A m \in 1..(n+1) : after(h, m) = after(g, m)
    BY <2>3, <2>4
  <2>6. \A m \in 0..(n+1) : h[m] = IF m = 0 THEN money ELSE after(h, m)
    <3> SUFFICES ASSUME NEW m \in 0..(n+1) PROVE h[m] = IF m = 0 THEN money ELSE after(h, m)
      OBVIOUS
    <3>1. CASE m = 0
      BY <2>2, <2>3, <3>1
    <3>2. CASE m # 0
      <4>1. m \in 1..(n+1) /\ h[m] = after(g, m)
        BY <2>2, <3>2
      <4> HIDE DEF h, after
      <4> QED BY <2>5, <3>2, <4>1
    <3> QED BY <3>1, <3>2
  <2>7. h = [m \in 0..(n+1) |-> h[m]]
    OBVIOUS
  <2> HIDE DEF h
  <2>8. h = [m \in 0..(n+1) |-> IF m = 0 THEN money ELSE after(h, m)]
    BY <2>6, <2>7
  <2> QED BY <2>8 DEF LeftIs
<1> HIDE DEF Good
<1> QED BY <1>1, <1>2, NatInduct DEF Good

\* What the loop does with the money, month by month.
Spends(owed, covered, money, last, left) ==
    /\ left \in [0..last -> Nat] /\ left[0] = money
    /\ \A m \in 1..last :
          left[m] = IF m \in covered THEN left[m-1] - Paid(owed, m, left[m-1]) ELSE left[m-1]

\* What is left of the money, month by month.
LEMMA LeftSpends ==
    ASSUME NEW last \in Nat, NEW covered, covered \subseteq 1..last, NEW owed, IntOn(owed, covered),
           NEW money \in Nat
    PROVE  Spends(owed, covered, money, last, LeftAfter(owed, covered, money, last))
<1> DEFINE left == LeftAfter(owed, covered, money, last)
<1>1. LeftIs(owed, covered, money, last, left)
  BY LeftExists DEF LeftAfter, LeftIs
<1> HIDE DEF left
<1>2. /\ left[0] = money
      /\ \A m \in 1..last :
            left[m] = IF m \in covered THEN left[m-1] - Paid(owed, m, left[m-1]) ELSE left[m-1]
      /\ left = [m \in 0..last |-> left[m]]
  BY <1>1 DEF LeftIs
<1> DEFINE Good == {n \in Nat : n <= last => left[n] \in Nat}
<1>3. 0 \in Good
  BY <1>2
<1>4. ASSUME NEW n \in Nat, n \in Good PROVE n + 1 \in Good
  <2> SUFFICES ASSUME n + 1 <= last PROVE left[n + 1] \in Nat
    OBVIOUS
  <2>1. left[n] \in Nat /\ n + 1 \in 1..last /\ (n + 1) - 1 = n
    BY <1>4
  <2>2. left[n+1] = IF n + 1 \in covered THEN left[n] - Paid(owed, n + 1, left[n]) ELSE left[n]
    BY <1>2, <2>1
  <2>3. n + 1 \in covered => owed[n + 1] \in Int
    BY DEF IntOn
  <2> QED BY <2>1, <2>2, <2>3 DEF Paid, Least
<1> HIDE DEF Good
<1>5. Nat \subseteq Good
  BY <1>3, <1>4, NatInduct
<1>6. \A m \in 0..last : left[m] \in Nat
  BY <1>5 DEF Good
<1> QED BY <1>2, <1>6 DEF Spends, left

\* The money only gets less.
LEMMA LeftFalls ==
    ASSUME NEW last \in Nat, NEW covered, covered \subseteq 1..last, NEW owed, IntOn(owed, covered),
           NEW money \in Nat, NEW left, Spends(owed, covered, money, last, left)
    PROVE  \A n \in 0..last : \A m \in 0..n : left[n] <= left[m]
<1> DEFINE Good == {n \in Nat : n <= last => \A m \in 0..n : left[n] <= left[m]}
<1>1. 0 \in Good
  BY DEF Spends
<1>2. ASSUME NEW n \in Nat, n \in Good PROVE n + 1 \in Good
  <2> SUFFICES ASSUME n + 1 <= last, NEW m \in 0..(n+1) PROVE left[n + 1] <= left[m]
    OBVIOUS
  <2>1. n \in 0..last /\ n + 1 \in 1..last /\ n + 1 \in 0..last /\ m \in 0..last /\ (n + 1) - 1 = n
    OBVIOUS
  <2>2. left[n] \in Nat /\ left[n + 1] \in Nat /\ left[m] \in Nat
    BY <2>1 DEF Spends
  <2>3. left[n+1] = IF n + 1 \in covered THEN left[n] - Paid(owed, n + 1, left[n]) ELSE left[n]
    BY <2>1 DEF Spends
  <2>4. left[n + 1] <= left[n]
    BY <2>2, <2>3 DEF Paid, Least, IntOn
  <2>5. CASE m = n + 1
    BY <2>2, <2>5
  <2>6. CASE m # n + 1
    <3>1. left[n] <= left[m]
      BY <1>2, <2>6
    <3> QED BY <2>2, <2>4, <3>1
  <2> QED BY <2>5, <2>6
<1> HIDE DEF Good
<1>3. Nat \subseteq Good
  BY <1>1, <1>2, NatInduct
<1> QED BY <1>3 DEF Good

\* What was paid up to a month and what is left of it are all the money.
LEMMA PaidIsSpent ==
    ASSUME NEW last \in Nat, NEW covered, covered \subseteq 1..last, NEW owed, IntOn(owed, covered),
           NEW money \in Nat, NEW left, Spends(owed, covered, money, last, left)
    PROVE  Sum([m \in covered |-> Paid(owed, m, left[m-1])], covered) = money - left[last]
<1> DEFINE paid == [m \in covered |-> Paid(owed, m, left[m-1])]
           upTo(n) == covered \cap 1..n
           Good == {n \in Nat : n <= last => Sum(paid, upTo(n)) = money - left[n]}
<1>0. \A m \in covered : /\ m \in 1..last /\ m - 1 \in 0..last /\ left[m-1] \in Nat
                         /\ paid[m] = Paid(owed, m, left[m-1]) /\ paid[m] \in Int
  BY DEF Spends, IntOn, Paid, Least
<1>1. 0 \in Good
  <2>1. upTo(0) = {}
    OBVIOUS
  <2> HIDE DEF paid
  <2> QED BY <2>1, SumEmpty DEF Spends
<1>2. ASSUME NEW n \in Nat, n \in Good PROVE n + 1 \in Good
  <2> SUFFICES ASSUME n + 1 <= last PROVE Sum(paid, upTo(n + 1)) = money - left[n + 1]
    OBVIOUS
  <2>1. n \in 0..last /\ n + 1 \in 1..last /\ n + 1 \in 0..last /\ (n + 1) - 1 = n
    OBVIOUS
  <2>2. left[n] \in Nat /\ left[n + 1] \in Nat
    BY <2>1 DEF Spends
  <2>3. left[n+1] = IF n + 1 \in covered THEN left[n] - Paid(owed, n + 1, left[n]) ELSE left[n]
    BY <2>1 DEF Spends
  <2>4. Sum(paid, upTo(n)) = money - left[n]
    BY <1>2
  <2>5. IsFiniteSet(upTo(n)) /\ IntOn(paid, upTo(n)) /\ n + 1 \notin upTo(n)
    <3>1. IsFiniteSet(1..n)
      BY FS_Interval
    <3>2. IsFiniteSet(upTo(n))
      BY <3>1, FS_Subset
    <3> QED BY <1>0, <3>2 DEF IntOn
  <2>6. CASE n + 1 \in covered
    <3>1. upTo(n + 1) = upTo(n) \cup {n + 1}
      BY <2>6
    <3>2. paid[n + 1] = Paid(owed, n + 1, left[n]) /\ paid[n + 1] \in Int
      BY <1>0, <2>1, <2>6
    <3> HIDE DEF paid, upTo
    <3>3. Sum(paid, upTo(n) \cup {n + 1}) = paid[n + 1] + Sum(paid, upTo(n))
      BY <2>5, <3>2, SumAdd
    <3>4. Sum(paid, upTo(n + 1)) = paid[n + 1] + (money - left[n])
      BY <2>4, <3>1, <3>3, Zenon
    <3> QED BY <2>2, <2>3, <2>6, <3>2, <3>4
  <2>7. CASE n + 1 \notin covered
    <3>1. upTo(n + 1) = upTo(n)
      BY <2>7
    <3> HIDE DEF paid, upTo
    <3> QED BY <2>3, <2>4, <2>7, <3>1
  <2> QED BY <2>6, <2>7
<1> HIDE DEF Good
<1>3. Nat \subseteq Good
  BY <1>1, <1>2, NatInduct
<1>4. Sum(paid, upTo(last)) = money - left[last]
  BY <1>3 DEF Good
<1>5. upTo(last) = covered
  OBVIOUS
<1> HIDE DEF paid, upTo
<1>6. Sum(paid, covered) = money - left[last]
  BY <1>4, <1>5, Zenon
<1> QED BY <1>6 DEF paid

----------------------------------------------------------------------------
(* The plan.  A month's portion is what it hands back, what is paid of what *)
(* it is short, and for the newest month what is left in the end.          *)
Portion(owed, covered, left) ==
    [m \in covered |-> HandedBack(owed, covered)[m] + Paid(owed, m, left[m-1])
                         + (IF m = Max(covered) THEN left[m] ELSE 0)]
\* The money to pay with: the amount and what the months hand back.
MoneyFor(owed, amount, covered) == amount - Total(HandedBack(owed, covered))

\* Months that may be covered, and what they need, given an amount.
Plannable(owed, amount, covered) ==
    /\ covered \subseteq Months /\ covered # {} /\ IntOn(owed, covered)
    /\ amount \in Nat \ {0}

\* The newest covered month ends the loop, and no covered month is later.
LEMMA CoveredMonths ==
    ASSUME NEW covered, covered \subseteq Months, covered # {}, LastMonth \in Nat
    PROVE  /\ Max(covered) \in covered /\ Max(covered) \in Nat \ {0}
           /\ covered \subseteq 1..Max(covered) /\ IsFiniteSet(covered) /\ IsFiniteSet(Months)
<1>1. Max(covered) \in covered /\ \A m \in covered : m <= Max(covered)
  BY MaxIn DEF Months
<1>2. \A m \in covered : m \in 1..Max(covered)
  BY <1>1 DEF Months
<1>3. IsFiniteSet(Months)
  BY FS_Interval DEF Months
<1>4. Max(covered) \in Nat \ {0}
  <2>1. Max(covered) \in Months
    BY <1>1
  <2> QED BY <2>1 DEF Months
<1> QED BY <1>1, <1>2, <1>3, <1>4, FS_Subset

\* What is handed back is not above zero, and the rest of the plan spends it.
LEMMA PlanSpends ==
    ASSUME LastMonth \in Nat, NEW owed, NEW amount, NEW covered, Plannable(owed, amount, covered),
           NEW left, left = LeftAfter(owed, covered, MoneyFor(owed, amount, covered), Max(covered))
    PROVE  /\ IntOn(HandedBack(owed, covered), covered)
           /\ \A m \in covered : HandedBack(owed, covered)[m] = Least(owed[m], 0)
           /\ MoneyFor(owed, amount, covered) \in Nat \ {0}
           /\ Spends(owed, covered, MoneyFor(owed, amount, covered), Max(covered), left)
<1> DEFINE back == HandedBack(owed, covered)
           none == [m \in covered |-> 0]
<1>1. /\ covered \subseteq 1..Max(covered) /\ Max(covered) \in Nat /\ IsFiniteSet(covered)
      /\ IntOn(owed, covered) /\ amount \in Nat \ {0}
  BY CoveredMonths DEF Plannable
<1>2. /\ IntOn(back, covered) /\ DOMAIN back = covered
      /\ \A m \in covered : back[m] = Least(owed[m], 0) /\ back[m] <= none[m]
      /\ IntOn(none, covered) /\ \A m \in covered : none[m] = 0
  BY <1>1 DEF HandedBack, Least, IntOn
<1> HIDE DEF back, none
<1>3. Total(back) = Sum(back, covered) /\ Sum(back, covered) \in Int
  BY <1>1, <1>2, TotalIsSum, SumInt
<1>4. Sum(back, covered) <= Sum(none, covered) /\ Sum(none, covered) = 0
  BY <1>1, <1>2, SumMonotone, SumZero
<1>5. MoneyFor(owed, amount, covered) \in Nat \ {0}
  BY <1>1, <1>3, <1>4 DEF MoneyFor, back
<1>6. Spends(owed, covered, MoneyFor(owed, amount, covered), Max(covered), left)
  BY <1>1, <1>5, LeftSpends
<1> QED BY <1>2, <1>5, <1>6 DEF back

\* The portions come to the amount, whatever the months need.
LEMMA PortionsAddUp ==
    ASSUME LastMonth \in Nat, NEW owed, NEW amount, NEW covered, Plannable(owed, amount, covered),
           NEW left, left = LeftAfter(owed, covered, MoneyFor(owed, amount, covered), Max(covered))
    PROVE  /\ IntOn(Portion(owed, covered, left), covered)
           /\ Sum(Portion(owed, covered, left), covered) = amount
<1> DEFINE newest == Max(covered)
           money == MoneyFor(owed, amount, covered)
           back == HandedBack(owed, covered)
           paid == [m \in covered |-> Paid(owed, m, left[m-1])]
           rest == [m \in covered |-> IF m = newest THEN left[m] ELSE 0]
           most == [m \in covered |-> back[m] + paid[m]]
           all == Portion(owed, covered, left)
<1>1. /\ newest \in covered /\ newest \in Nat \ {0} /\ covered \subseteq 1..newest
      /\ IsFiniteSet(covered) /\ IntOn(owed, covered) /\ amount \in Nat \ {0}
  BY CoveredMonths DEF Plannable
<1>2. IntOn(back, covered) /\ money \in Nat /\ Spends(owed, covered, money, newest, left)
  BY PlanSpends
<1>3. \A m \in covered : left[m-1] \in Nat /\ left[m] \in Nat
  <2>1. \A m \in covered : m \in 0..newest /\ m - 1 \in 0..newest
    BY <1>1
  <2> QED BY <1>2, <2>1 DEF Spends
<1>4. left[newest] \in Nat
  BY <1>1, <1>3
<1>5. IntOn(paid, covered) /\ IntOn(rest, covered)
  BY <1>1, <1>3 DEF IntOn, Paid, Least
<1>6. /\ IntOn(most, covered) /\ \A m \in covered : most[m] = back[m] + paid[m]
      /\ IntOn(all, covered) /\ \A m \in covered : all[m] = most[m] + rest[m]
      /\ rest[newest] = left[newest] /\ \A m \in covered \ {newest} : rest[m] = 0
  BY <1>1, <1>2, <1>5 DEF IntOn, Portion
<1>7. Sum(paid, covered) = money - left[newest]
  BY <1>1, <1>2, PaidIsSpent
<1>8. money = amount - Sum(back, covered)
  BY TotalIsSum DEF MoneyFor, HandedBack
<1> HIDE DEF newest, money, back, paid, rest, most, all
<1>9. Sum(all, covered) = Sum(most, covered) + Sum(rest, covered)
  <2>1. IsFiniteSet(covered) /\ IntOn(most, covered) /\ IntOn(rest, covered)
    BY <1>1, <1>5, <1>6
  <2>2. \A m \in covered : all[m] = most[m] + rest[m]
    BY <1>6
  <2> QED BY <2>1, <2>2, SumPlus
<1>10. Sum(most, covered) = Sum(back, covered) + Sum(paid, covered)
  <2>1. IsFiniteSet(covered) /\ IntOn(back, covered) /\ IntOn(paid, covered)
    BY <1>1, <1>2, <1>5
  <2>2. \A m \in covered : most[m] = back[m] + paid[m]
    BY <1>6
  <2> QED BY <2>1, <2>2, SumPlus
<1>11. Sum(rest, covered) = left[newest]
  <2>1. {newest} \subseteq covered /\ IntOn(rest, {newest}) /\ rest[newest] \in Int
    BY <1>1, <1>5 DEF IntOn
  <2>2. Sum(rest, covered) = Sum(rest, {newest})
    BY <1>1, <1>6, <2>1, SumSupport
  <2>3. Sum(rest, {newest}) = rest[newest]
    BY <2>1, SumOne
  <2> QED BY <1>6, <2>2, <2>3
<1>12. Sum(back, covered) \in Int
  BY <1>1, <1>2, SumInt
<1>13. Sum(all, covered) = amount
  BY <1>1, <1>2, <1>4, <1>7, <1>8, <1>9, <1>10, <1>11, <1>12
<1> QED BY <1>6, <1>13 DEF all

\* The plan keeps the portions that are not zero.
LEMMA PlanIsPortion ==
    ASSUME LastMonth \in Nat, NEW owed, NEW amount, NEW covered, Plannable(owed, amount, covered),
           NEW left, left = LeftAfter(owed, covered, MoneyFor(owed, amount, covered), Max(covered))
    PROVE  LET p == Portion(owed, covered, left) IN
           Plan(owed, amount, covered) = [m \in {n \in covered : p[n] # 0} |-> p[m]]
<1>1. covered # {} /\ ~(amount <= 0)
  BY DEF Plannable
<1> QED BY <1>1 DEF Plan, Portion, MoneyFor

\* A plan places all of the amount, on covered months.
LEMMA PlanPlaces ==
    ASSUME LastMonth \in Nat, NEW owed, NEW amount, NEW covered, Plannable(owed, amount, covered),
           NEW plan, plan = Plan(owed, amount, covered)
    PROVE  /\ DOMAIN plan \subseteq covered /\ DOMAIN plan # {}
           /\ IntOn(plan, DOMAIN plan) /\ Total(plan) = amount
<1> DEFINE left == LeftAfter(owed, covered, MoneyFor(owed, amount, covered), Max(covered))
           p == Portion(owed, covered, left)
           S == {n \in covered : p[n] # 0}
<1>1. IntOn(p, covered) /\ Sum(p, covered) = amount
  BY PortionsAddUp
<1>2. plan = [m \in S |-> p[m]]
  BY PlanIsPortion
<1>3. IsFiniteSet(covered) /\ amount \in Nat \ {0}
  BY CoveredMonths DEF Plannable
<1> HIDE DEF p
<1>4. DOMAIN plan = S /\ IntOn(p, S) /\ \A m \in S : plan[m] = p[m]
  BY <1>1, <1>2 DEF IntOn
<1>5. S \subseteq covered /\ \A m \in covered \ S : p[m] = 0
  OBVIOUS
<1> HIDE DEF S
<1>6. IsFiniteSet(S)
  BY <1>3, <1>5, FS_Subset
<1>7. Sum(p, S) = amount
  BY <1>1, <1>3, <1>4, <1>5, SumSupport
<1>8. Sum(plan, S) = amount
  BY <1>4, <1>6, <1>7, SumSame
<1>9. S # {}
  BY <1>3, <1>7, SumEmpty
<1> QED BY <1>4, <1>5, <1>8, <1>9, TotalIsSum DEF IntOn

\* Each month's part of the plan is its portion, and a month outside of it has
\* none: together the amount.
LEMMA PlanAt ==
    ASSUME LastMonth \in Nat, NEW owed, NEW amount, NEW covered, Plannable(owed, amount, covered),
           NEW left, left = LeftAfter(owed, covered, MoneyFor(owed, amount, covered), Max(covered)),
           NEW at, at = [m \in Months |-> At(Plan(owed, amount, covered), m)]
    PROVE  /\ IntOn(at, Months) /\ Sum(at, Months) = amount
           /\ \A m \in covered : at[m] = Portion(owed, covered, left)[m]
           /\ \A m \in Months \ covered : at[m] = 0
<1> DEFINE p == Portion(owed, covered, left)
           plan == Plan(owed, amount, covered)
<1>1. IntOn(p, covered) /\ Sum(p, covered) = amount
  BY PortionsAddUp
<1>2. plan = [m \in {n \in covered : p[n] # 0} |-> p[m]]
  BY PlanIsPortion
<1>3. covered \subseteq Months /\ IsFiniteSet(covered) /\ IsFiniteSet(Months)
  BY CoveredMonths DEF Plannable
<1> HIDE DEF p, plan
<1>4. \A m : At(plan, m) = IF m \in covered /\ p[m] # 0 THEN p[m] ELSE 0
  BY <1>2 DEF At
<1>5. /\ \A m \in covered : at[m] = p[m]
      /\ \A m \in Months \ covered : at[m] = 0
  BY <1>1, <1>3, <1>4 DEF plan
<1>6. IntOn(at, Months) /\ IntOn(at, covered)
  BY <1>1, <1>3, <1>5 DEF IntOn
<1>7. Sum(at, covered) = Sum(p, covered)
  BY <1>1, <1>3, <1>5, SumSame
<1>8. Sum(at, Months) = Sum(at, covered)
  BY <1>3, <1>5, <1>6, SumSupport
<1> QED BY <1>1, <1>5, <1>6, <1>7, <1>8 DEF p

\* What plan_portions promises, of any balances, amount and months.
THEOREM PlanKeepsPromise ==
    ASSUME LastMonth \in Nat, NEW owed \in [Months -> Int], NEW amount, NEW covered,
           Plannable(owed, amount, covered),
           NEW after, after = [m \in Months |-> owed[m] - At(Plan(owed, amount, covered), m)]
    PROVE  KeepsPromise(owed, after, amount, covered)
<1> DEFINE newest == Max(covered)
           money == MoneyFor(owed, amount, covered)
           left == LeftAfter(owed, covered, money, newest)
           p == Portion(owed, covered, left)
           at == [m \in Months |-> At(Plan(owed, amount, covered), m)]
<1>1. /\ newest \in covered /\ newest \in Nat \ {0} /\ covered \subseteq 1..newest
      /\ covered \subseteq Months /\ IsFiniteSet(Months) /\ IntOn(owed, covered) /\ amount \in Nat \ {0}
  BY CoveredMonths DEF Plannable
<1>2. /\ money \in Nat /\ Spends(owed, covered, money, newest, left)
      /\ \A m \in covered : HandedBack(owed, covered)[m] = Least(owed[m], 0)
  BY PlanSpends
<1>3. /\ IntOn(at, Months) /\ Sum(at, Months) = amount
      /\ \A m \in covered : at[m] = p[m]
      /\ \A m \in Months \ covered : at[m] = 0
  BY PlanAt
<1>4. DOMAIN after = Months /\ \A m \in Months : after[m] = owed[m] - at[m]
  OBVIOUS
<1>5. \A m \in covered : p[m] = Least(owed[m], 0) + Paid(owed, m, left[m-1])
                                  + (IF m = newest THEN left[m] ELSE 0)
  BY <1>2 DEF Portion
<1>6. \A m \in covered : /\ m \in 1..newest /\ m \in Months /\ owed[m] \in Int
                         /\ left[m-1] \in Nat /\ left[m] \in Nat
                         /\ left[m] = left[m-1] - Paid(owed, m, left[m-1])
  <2>1. \A m \in covered : m \in 1..newest /\ m \in Months /\ m \in 0..newest /\ m - 1 \in 0..newest
    BY <1>1
  <2> QED BY <1>2, <2>1 DEF Spends
<1>7. \A n \in 0..newest : \A m \in 0..n : left[n] <= left[m]
  BY <1>1, <1>2, LeftFalls
<1> HIDE DEF newest, money, left, p, at
\* What a covered month is still short of, and its balance: the newest month
\* carries the surplus.
<1> DEFINE short(m) == IF owed[m] < 0 THEN 0 ELSE owed[m] - Least(owed[m], left[m-1])
<1>8. ASSUME NEW m \in covered
      PROVE  /\ short(m) \in Nat /\ owed[m] \in Int /\ left[m] \in Nat
             /\ after[m] = IF m = newest THEN short(m) - left[m] ELSE short(m)
             /\ owed[m] < 0 => short(m) = 0
             /\ ~(owed[m] < 0) => short(m) <= owed[m]
             /\ short(m) > 0 => ~(owed[m] < 0) /\ left[m] = 0
             /\ left[m-1] = 0 => short(m) = IF owed[m] < 0 THEN 0 ELSE owed[m]
  <2>1. /\ owed[m] \in Int /\ left[m-1] \in Nat /\ left[m] \in Nat
        /\ left[m] = left[m-1] - Paid(owed, m, left[m-1])
    BY <1>6
  <2>2. after[m] = owed[m] - (Least(owed[m], 0) + Paid(owed, m, left[m-1])
                                + (IF m = newest THEN left[m] ELSE 0))
    <3>1. m \in Months
      BY <1>1
    <3>2. after[m] = owed[m] - at[m]
      BY <1>4, <3>1
    <3>3. at[m] = p[m]
      BY <1>3
    <3> QED BY <1>5, <3>2, <3>3
  <2>3. CASE owed[m] < 0
    <3>1. Least(owed[m], 0) = owed[m] /\ Paid(owed, m, left[m-1]) = 0
      BY <2>1, <2>3 DEF Least, Paid
    <3> QED BY <2>1, <2>2, <2>3, <3>1
  <2>4. CASE ~(owed[m] < 0)
    <3>1. Least(owed[m], 0) = 0 /\ Paid(owed, m, left[m-1]) = Least(owed[m], left[m-1])
      BY <2>1, <2>4 DEF Least, Paid
    <3>2. /\ Least(owed[m], left[m-1]) \in Nat /\ Least(owed[m], left[m-1]) <= owed[m]
          /\ Least(owed[m], left[m-1]) \in {owed[m], left[m-1]}
          /\ left[m-1] = 0 => Least(owed[m], left[m-1]) = 0
      BY <2>1, <2>4 DEF Least
    <3> QED BY <2>1, <2>2, <2>4, <3>1, <3>2
  <2> QED BY <2>3, <2>4
<1> HIDE DEF short
<1>10. Total(after) = Total(owed) - amount
  <2>1. \A m \in Months : owed[m] = after[m] + at[m]
    BY <1>3, <1>4 DEF IntOn
  <2>2. IntOn(owed, Months) /\ IntOn(after, Months) /\ DOMAIN owed = Months
    BY <1>3, <1>4 DEF IntOn
  <2>3. Sum(owed, Months) = Sum(after, Months) + Sum(at, Months)
    <3>1. IsFiniteSet(Months) /\ IntOn(after, Months) /\ IntOn(at, Months)
      BY <1>1, <1>3, <2>2
    <3> QED BY <2>1, <3>1, SumPlus
  <2>4. Sum(owed, Months) \in Int /\ Sum(after, Months) \in Int
    BY <1>1, <2>2, SumInt
  <2> QED BY <1>1, <1>3, <1>4, <2>2, <2>3, <2>4, TotalIsSum
<1>11. \A m \in DOMAIN owed \ covered : after[m] = owed[m]
  BY <1>3, <1>4
<1>12. ASSUME NEW m \in covered \ {newest}
       PROVE  IF owed[m] < 0 THEN after[m] = 0 ELSE after[m] \in 0..owed[m]
  BY <1>8
<1>13. owed[newest] >= 0 => after[newest] <= owed[newest]
  BY <1>1, <1>8
<1>14. ASSUME after[newest] < 0, NEW m \in covered \ {newest} PROVE after[m] = 0
  <2>1. left[newest] > 0
    <3>1. short(newest) \in Nat /\ left[newest] \in Nat /\ after[newest] = short(newest) - left[newest]
      BY <1>1, <1>8
    <3> QED BY <1>14, <3>1
  <2>2. m \in 0..newest /\ newest \in 0..newest
    BY <1>1, <1>6
  <2>3. left[newest] <= left[m]
    BY <1>7, <2>2
  <2>4. left[m] # 0
    BY <1>1, <1>6, <2>1, <2>3
  <2> QED BY <1>8, <2>4
<1>15. ASSUME NEW m \in covered, NEW n \in covered, m < n, after[m] > 0
       PROVE  after[n] = IF owed[n] < 0 THEN 0 ELSE owed[n]
  <2>1. m # newest /\ m \in 0..(n-1) /\ n - 1 \in 0..newest /\ n \in 0..newest /\ m \in 0..n
    BY <1>1, <1>6, <1>15
  <2>2. short(m) > 0 /\ left[m] = 0
    BY <1>8, <1>15, <2>1
  <2>3. left[n-1] = 0 /\ left[n] = 0
    BY <1>6, <1>7, <2>1, <2>2
  <2> QED BY <1>8, <2>3
<1> QED BY <1>10, <1>11, <1>12, <1>13, <1>14, <1>15 DEF KeepsPromise, newest

\* A payment of exactly what its months come to leaves them at zero.
LEMMA PromiseClears ==
    ASSUME LastMonth \in Nat, NEW owed \in [Months -> Int], NEW left \in [Months -> Int],
           NEW amount \in Int, NEW covered, covered \subseteq Months, covered # {},
           KeepsPromise(owed, left, amount, covered), amount = Sum(owed, covered)
    PROVE  \A m \in covered : left[m] = 0
<1> DEFINE newest == Max(covered)
           none == [m \in covered |-> 0]
<1>1. newest \in covered /\ IsFiniteSet(covered) /\ IsFiniteSet(Months)
  BY CoveredMonths
<1>2. /\ \A m \in DOMAIN owed \ covered : left[m] = owed[m]
      /\ Total(left) = Total(owed) - amount
      /\ \A m \in covered \ {newest} : IF owed[m] < 0 THEN left[m] = 0 ELSE left[m] \in 0..owed[m]
      /\ left[newest] < 0 => \A m \in covered \ {newest} : left[m] = 0
  BY DEF KeepsPromise
<1>3. /\ DOMAIN owed = Months /\ DOMAIN left = Months /\ covered \cup (Months \ covered) = Months
      /\ covered \cap (Months \ covered) = {} /\ IsFiniteSet(Months \ covered)
      /\ IntOn(owed, covered) /\ IntOn(owed, Months \ covered)
      /\ IntOn(left, covered) /\ IntOn(left, Months \ covered)
  BY <1>1, FS_Subset DEF IntOn
<1> HIDE DEF newest
<1>4. Sum(left, covered) = 0
  <2>1. Sum(left, covered \cup (Months \ covered)) = Sum(left, covered) + Sum(left, Months \ covered)
    BY <1>1, <1>3, SumUnion
  <2>2. Sum(owed, covered \cup (Months \ covered)) = Sum(owed, covered) + Sum(owed, Months \ covered)
    BY <1>1, <1>3, SumUnion
  <2>3. Total(left) = Sum(left, covered) + Sum(left, Months \ covered)
    BY <1>3, <2>1, TotalIsSum, Zenon
  <2>4. Total(owed) = Sum(owed, covered) + Sum(owed, Months \ covered)
    BY <1>3, <2>2, TotalIsSum, Zenon
  <2>5. Sum(left, Months \ covered) = Sum(owed, Months \ covered)
    BY <1>2, <1>3, SumSame
  <2>6. Sum(left, covered) \in Int /\ Sum(owed, covered) \in Int /\ Sum(owed, Months \ covered) \in Int
    BY <1>1, <1>3, SumInt
  <2> QED BY <1>2, <2>3, <2>4, <2>5, <2>6
<1>5. ASSUME NEW m \in covered
      PROVE  Sum(left, covered) = left[m] + Sum(left, covered \ {m}) /\ IsFiniteSet(covered \ {m})
             /\ IntOn(left, covered \ {m}) /\ left[m] \in Int /\ Sum(left, covered \ {m}) \in Int
  <2>1. IsFiniteSet(covered \ {m}) /\ IntOn(left, covered \ {m}) /\ left[m] \in Int
    BY <1>1, <1>3, FS_Subset DEF IntOn
  <2> QED BY <1>1, <1>3, <2>1, SumTake, SumInt
<1>6. left[newest] >= 0
  <2> SUFFICES ASSUME left[newest] < 0 PROVE FALSE
    BY <1>1, <1>5
  <2>1. \A m \in covered \ {newest} : left[m] = 0
    BY <1>2
  <2>2. Sum(left, covered \ {newest}) = 0
    BY <1>1, <1>5, <2>1, SumZero
  <2> QED BY <1>1, <1>4, <1>5, <2>2
<1>7. \A m \in covered : left[m] >= none[m] /\ none[m] = 0
  BY <1>2, <1>6
<1>8. SUFFICES ASSUME NEW m \in covered PROVE left[m] = 0
  OBVIOUS
<1>9. IntOn(none, covered \ {m})
  BY DEF IntOn
<1> HIDE DEF none
<1>10. Sum(none, covered \ {m}) = 0 /\ Sum(none, covered \ {m}) <= Sum(left, covered \ {m})
  BY <1>5, <1>7, <1>9, SumZero, SumMonotone
<1> QED BY <1>4, <1>5, <1>7, <1>10

----------------------------------------------------------------------------
(* The books.  A portion table says how much of a settlement each month     *)
(* carries.                                                                 *)
Placed(p) == DOMAIN p \subseteq Months /\ IntOn(p, DOMAIN p)
Paying(k, stl, por, m) == stl[k].from * At(Resolved(stl, por, k), m)

\* A finite table of settlements with what is stored of their portions.
Stored(stl, por) ==
    /\ IsFiniteSet(DOMAIN stl) /\ \A k \in DOMAIN stl : stl[k] \in Record
    /\ \A k \in DOMAIN por : Placed(por[k])

\* What a settlement takes from a month is an integer.
LEMMA PayingInt ==
    ASSUME NEW stl, NEW por, Stored(stl, por), NEW k \in DOMAIN stl, NEW m
    PROVE  Paying(k, stl, por, m) \in Int
<1>1. stl[k].from \in {1, -1} /\ stl[k].amount \in Nat
  BY DEF Stored, Record, Senders
<1>2. At(Resolved(stl, por, k), m) \in Int
  <2>1. CASE k \in DOMAIN por
    <3>1. IntOn(por[k], DOMAIN por[k]) /\ Resolved(stl, por, k) = por[k]
      BY <2>1 DEF Stored, Placed, Resolved
    <3> QED BY <3>1 DEF At, IntOn
  <2>2. CASE k \notin DOMAIN por
    BY <1>1, <2>2 DEF Resolved, At
  <2> QED BY <2>1, <2>2
<1> QED BY <1>1, <1>2 DEF Paying

\* The books of a month: its charges less what every settlement takes from it.
LEMMA BooksAt ==
    ASSUME NEW chg \in [Months -> Int], NEW stl, NEW por, Stored(stl, por), NEW m \in Months
    PROVE  /\ Books(chg, stl, por)[m]
                = chg[m] - Sum([k \in DOMAIN stl |-> Paying(k, stl, por, m)], DOMAIN stl)
           /\ Sum([k \in DOMAIN stl |-> Paying(k, stl, por, m)], DOMAIN stl) \in Int
<1> DEFINE pay == [k \in DOMAIN stl |-> Paying(k, stl, por, m)]
<1>1. Books(chg, stl, por)[m] = chg[m] - Total(pay)
  BY DEF Books, Paying
<1>2. DOMAIN pay = DOMAIN stl /\ IsFiniteSet(DOMAIN stl) /\ IntOn(pay, DOMAIN stl)
  BY PayingInt DEF IntOn, Stored
<1> HIDE DEF pay
<1>3. Total(pay) = Sum(pay, DOMAIN stl) /\ Sum(pay, DOMAIN stl) \in Int
  BY <1>2, TotalIsSum, SumInt
<1> QED BY <1>1, <1>3 DEF pay

\* The books are integers.
LEMMA BooksInt ==
    ASSUME NEW chg \in [Months -> Int], NEW stl, NEW por, Stored(stl, por)
    PROVE  Books(chg, stl, por) \in [Months -> Int]
<1>1. ASSUME NEW m \in Months PROVE Books(chg, stl, por)[m] \in Int
  <2> DEFINE taken == Sum([k \in DOMAIN stl |-> Paying(k, stl, por, m)], DOMAIN stl)
  <2>1. Books(chg, stl, por)[m] = chg[m] - taken /\ taken \in Int
    BY BooksAt
  <2>2. chg[m] \in Int
    OBVIOUS
  <2> HIDE DEF taken
  <2> QED BY <2>1, <2>2
<1>2. Books(chg, stl, por) = [m \in Months |-> Books(chg, stl, por)[m]]
  BY DEF Books
<1> QED BY <1>1, <1>2

\* Inserting a settlement takes its portion from each month and changes no other.
LEMMA BooksInsert ==
    ASSUME NEW chg \in [Months -> Int], NEW stl, NEW por, Stored(stl, por), DOMAIN por = DOMAIN stl,
           NEW k, k \notin DOMAIN stl, NEW row \in Record, NEW plan, Placed(plan), NEW m \in Months
    PROVE  Books(chg, Inserted(stl, k, row), Inserted(por, k, plan))[m]
             = Books(chg, stl, por)[m] - row.from * At(plan, m)
<1> DEFINE stl2 == Inserted(stl, k, row)
           por2 == Inserted(por, k, plan)
           pay == [j \in DOMAIN stl |-> Paying(j, stl, por, m)]
           pay2 == [j \in DOMAIN stl2 |-> Paying(j, stl2, por2, m)]
<1>1. /\ DOMAIN stl2 = DOMAIN stl \cup {k} /\ DOMAIN por2 = DOMAIN stl \cup {k}
      /\ stl2[k] = row /\ por2[k] = plan
      /\ \A j \in DOMAIN stl : stl2[j] = stl[j] /\ por2[j] = por[j]
  BY DEF Inserted
<1> HIDE DEF stl2, por2
<1>2. Stored(stl2, por2)
  <2>1. IsFiniteSet(DOMAIN stl2)
    BY <1>1, FS_AddElement DEF Stored
  <2> QED BY <1>1, <2>1 DEF Stored
<1>3. \A j \in DOMAIN stl : pay2[j] = pay[j]
  BY <1>1 DEF Paying, Resolved
<1>4. pay2[k] = row.from * At(plan, m)
  BY <1>1 DEF Paying, Resolved
<1>5. pay2[k] \in Int /\ IntOn(pay2, DOMAIN stl) /\ IntOn(pay, DOMAIN stl)
  <2>1. \A j \in DOMAIN stl2 : Paying(j, stl2, por2, m) \in Int
    BY <1>2, PayingInt
  <2>2. \A j \in DOMAIN stl : Paying(j, stl, por, m) \in Int
    BY PayingInt
  <2> QED BY <1>1, <2>1, <2>2 DEF IntOn
<1>6. Books(chg, stl2, por2)[m] = chg[m] - Sum(pay2, DOMAIN stl2)
  BY <1>2, BooksAt
<1>7. Books(chg, stl, por)[m] = chg[m] - Sum(pay, DOMAIN stl) /\ Sum(pay, DOMAIN stl) \in Int
  BY BooksAt
<1>8. IsFiniteSet(DOMAIN stl) /\ chg[m] \in Int
  BY DEF Stored
<1> HIDE DEF pay, pay2
<1>9. Sum(pay2, DOMAIN stl \cup {k}) = pay2[k] + Sum(pay2, DOMAIN stl)
  BY <1>5, <1>8, SumAdd
<1>10. Sum(pay2, DOMAIN stl) = Sum(pay, DOMAIN stl)
  BY <1>3, <1>5, <1>8, SumSame
<1>11. Sum(pay2, DOMAIN stl2) = row.from * At(plan, m) + Sum(pay, DOMAIN stl)
  BY <1>1, <1>4, <1>9, <1>10, Zenon
<1>12. row.from * At(plan, m) \in Int
  BY <1>4, <1>5
<1> QED BY <1>6, <1>7, <1>8, <1>11, <1>12 DEF stl2, por2

\* When every settlement's portions come to its amount, what is outstanding
\* over all months is all charges less all payments.
LEMMA BooksNet ==
    ASSUME LastMonth \in Nat, NEW chg \in [Months -> Int], NEW stl, NEW por, Stored(stl, por),
           DOMAIN por = DOMAIN stl, \A k \in DOMAIN stl : Total(por[k]) = stl[k].amount
    PROVE  Total(Books(chg, stl, por))
             = Total(chg) - Total([k \in DOMAIN stl |-> stl[k].from * stl[k].amount])
<1> DEFINE K == DOMAIN stl
           t == [km \in K \X Months |-> Paying(km[1], stl, por, km[2])]
           paid == [k \in K |-> stl[k].from * stl[k].amount]
           rows == RowSums(t, K, Months)
           columns == ColumnSums(t, K, Months)
           books == Books(chg, stl, por)
<1>1. IsFiniteSet(K) /\ IsFiniteSet(Months)
  BY FS_Interval DEF Stored, Months
<1>2. \A k \in K, m \in Months : t[<<k, m>>] = Paying(k, stl, por, m) /\ t[<<k, m>>] \in Int
  BY PayingInt
<1>3. ASSUME NEW k \in K
      PROVE  Sum(Row(t, Months, k), Months) = stl[k].from * stl[k].amount
             /\ Sum(Row(t, Months, k), Months) \in Int
  <2> DEFINE p == por[k]
             at == [m \in Months |-> At(p, m)]
  <2>1. Placed(p) /\ Total(p) = stl[k].amount /\ stl[k].from \in Int /\ Resolved(stl, por, k) = p
    BY DEF Stored, Record, Senders, Resolved
  <2>2. /\ DOMAIN p \subseteq Months /\ IntOn(p, DOMAIN p)
        /\ \A m \in DOMAIN p : at[m] = p[m]
        /\ \A m \in Months \ DOMAIN p : at[m] = 0
    BY <2>1 DEF Placed, At
  <2>3. IntOn(at, Months) /\ IntOn(at, DOMAIN p) /\ IsFiniteSet(DOMAIN p)
    <3> HIDE DEF p, at
    <3>1. IntOn(at, Months) /\ IntOn(at, DOMAIN p)
      BY <2>2 DEF IntOn
    <3> QED BY <1>1, <2>2, <3>1, FS_Subset
  <2>4. \A m \in Months : Row(t, Months, k)[m] = stl[k].from * at[m] /\ Row(t, Months, k)[m] \in Int
    BY <1>2, <2>1 DEF Paying, Row
  <2> DEFINE r == Row(t, Months, k)
  <2>5. IntOn(r, Months) /\ \A m \in Months : r[m] = stl[k].from * at[m]
    BY <2>4 DEF IntOn
  <2> HIDE DEF p, at, r
  <2>6. Sum(at, Months) = Sum(at, DOMAIN p)
    BY <1>1, <2>2, <2>3, SumSupport
  <2>7. Sum(at, DOMAIN p) = Sum(p, DOMAIN p)
    BY <2>2, <2>3, SumSame
  <2>8. Sum(at, Months) = stl[k].amount
    BY <2>1, <2>6, <2>7, TotalIsSum
  <2>9. Sum(r, Months) = stl[k].from * Sum(at, Months)
    BY <1>1, <2>1, <2>3, <2>5, SumScale
  <2>10. Sum(r, Months) \in Int
    BY <1>1, <2>5, SumInt
  <2> QED BY <2>8, <2>9, <2>10 DEF r
<1>4. ASSUME NEW m \in Months
      PROVE  columns[m] = Sum([k \in K |-> Paying(k, stl, por, m)], K)
  <2>1. Column(t, K, m) = [k \in K |-> Paying(k, stl, por, m)]
    BY <1>2 DEF Column
  <2> QED BY <2>1 DEF ColumnSums
<1>5. \A m \in Months : /\ books[m] = chg[m] - columns[m] /\ columns[m] \in Int
                        /\ chg[m] \in Int /\ books[m] \in Int
  <2> SUFFICES ASSUME NEW m \in Months
               PROVE  books[m] = chg[m] - columns[m] /\ columns[m] \in Int /\ chg[m] \in Int
    BY BooksInt
  <2>1. columns[m] = Sum([k \in K |-> Paying(k, stl, por, m)], K)
    BY <1>4
  <2> QED BY <2>1, BooksAt
<1>6. Sum(rows, K) = Sum(columns, Months)
  <2>1. \A k \in K, m \in Months : t[<<k, m>>] \in Int
    BY <1>2
  <2> HIDE DEF t, K
  <2> QED BY <1>1, <2>1, SumExchange
<1>7. Sum(rows, K) = Sum(paid, K) /\ IntOn(paid, K)
  <2>1. \A k \in K : rows[k] = paid[k] /\ rows[k] \in Int
    BY <1>3 DEF RowSums
  <2>2. IntOn(paid, K) /\ \A k \in K : rows[k] = paid[k]
    BY <2>1 DEF IntOn
  <2> HIDE DEF rows, paid, K
  <2> QED BY <1>1, <2>2, SumSame
<1>8. DOMAIN books = Months /\ DOMAIN chg = Months /\ DOMAIN paid = K
  BY DEF Books
<1> HIDE DEF books, columns, paid, rows, K
<1>9. Sum(chg, Months) = Sum(books, Months) + Sum(columns, Months)
  <2>1. IntOn(books, Months) /\ IntOn(columns, Months)
    BY <1>5 DEF IntOn
  <2>2. \A m \in Months : chg[m] = books[m] + columns[m]
    BY <1>5
  <2> QED BY <1>1, <2>1, <2>2, SumPlus
<1>10. Sum(books, Months) \in Int /\ Sum(columns, Months) \in Int
  <2>1. IntOn(books, Months) /\ IntOn(columns, Months)
    BY <1>5 DEF IntOn
  <2> QED BY <1>1, <2>1, SumInt
<1>11. Total(books) = Sum(books, Months) /\ Total(chg) = Sum(chg, Months) /\ Total(paid) = Sum(paid, K)
  BY <1>8, TotalIsSum
<1>12. Total(books) = Total(chg) - Total(paid)
  <2>1. Sum(paid, K) = Sum(columns, Months)
    BY <1>6, <1>7
  <2>2. Sum(books, Months) = Sum(chg, Months) - Sum(columns, Months)
    BY <1>9, <1>10
  <2> QED BY <1>11, <2>1, <2>2
<1> QED BY <1>12 DEF books, paid, K

----------------------------------------------------------------------------
(* The ledger under concurrent requests.                                    *)

\* What the constants may be: months are counted, charges are cents, and a
\* payment is of more than nothing (Settlement.create).
Parameters ==
    /\ LastMonth \in Nat
    /\ Charges \subseteq Int /\ 0 \in Charges
    /\ Amounts \subseteq Nat \ {0}

Cents == [Months -> Int]
Tables == UNION {[K -> Record] : K \in {L \in SUBSET Settlements : IsFiniteSet(L)}}
Stages == {"charges", "settlements", "portions", "ready"}
Records == [op : {"record"}, stage : Stages, from : Senders, amount : Nat \ {0},
            covered : SUBSET Months, seen : Cents \cup {Nothing}, stl : Tables]
Waivers == [op : {"waive"}, stage : Stages, from : Senders,
            year : {Whole} \cup {Year[m] : m \in Months}, seen : Cents \cup {Nothing}, stl : Tables]
Deletes == [op : {"delete"}, stage : {"ready"}, sid : Settlements]
Requests == Records \cup Waivers \cup Deletes \cup {Idle}

\* A request that has read the charges holds a month's cents for every month.
HasRead(q) == q.op \in {"record", "waive"} /\ q.stage # "charges" => q.seen \in Cents

RequestsOK == req \in [Sessions -> Requests] /\ \A s \in Sessions : HasRead(req[s])

\* Every stored settlement has its portions, on months, and they come to its amount.
Allotted(stl, por, k) ==
    /\ stl[k] \in Record /\ Placed(por[k]) /\ DOMAIN por[k] # {}
    /\ Total(por[k]) = stl[k].amount
TablesOK ==
    /\ charged \in [Months -> Charges]
    /\ IsFiniteSet(issued) /\ issued \subseteq Settlements /\ DOMAIN settlement \subseteq issued
    /\ settlement = [k \in DOMAIN settlement |-> settlement[k]]
    /\ DOMAIN portions = DOMAIN settlement
    /\ \A k \in DOMAIN settlement : Allotted(settlement, portions, k)

Kept == TablesOK /\ RequestsOK

\* The tables as they are.
LEMMA KeptTables ==
    ASSUME Parameters, TablesOK
    PROVE  charged \in Cents /\ settlement \in Tables /\ Stored(settlement, portions)
<1>1. charged \in Cents
  BY DEF TablesOK, Parameters, Cents
<1>2. IsFiniteSet(DOMAIN settlement) /\ DOMAIN settlement \subseteq Settlements
  BY FS_Subset DEF TablesOK
<1>3. \A k \in DOMAIN settlement : settlement[k] \in Record
  BY DEF TablesOK, Allotted
<1>4. settlement \in [DOMAIN settlement -> Record]
  BY <1>3 DEF TablesOK
<1>5. settlement \in Tables
  BY <1>2, <1>4 DEF Tables
<1>6. Stored(settlement, portions)
  BY <1>2, <1>3 DEF TablesOK, Allotted, Stored
<1> QED BY <1>1, <1>5, <1>6

\* What is outstanding follows from the tables.
LEMMA KeptNet == ASSUME Parameters, Kept PROVE OutstandingIsNet
<1>1. charged \in [Months -> Int] /\ Stored(settlement, portions)
  BY KeptTables DEF Kept, Cents
<1>2. /\ DOMAIN portions = DOMAIN settlement /\ LastMonth \in Nat
      /\ \A k \in DOMAIN settlement : DOMAIN portions[k] # {} /\ Total(portions[k]) = settlement[k].amount
  BY DEF Kept, TablesOK, Allotted, Parameters
<1>3. Total(Balance) = Total(charged) - Total([k \in DOMAIN settlement |-> settlement[k].from * settlement[k].amount])
  BY <1>1, <1>2, BooksNet DEF Balance
<1>4. \A k \in DOMAIN settlement : portions[k] # Nothing
  <2>1. DOMAIN Nothing = {}
    BY DEF Nothing
  <2> QED BY <1>2, <2>1
<1> QED BY <1>2, <1>3, <1>4 DEF OutstandingIsNet

\* The empty ledger.
LEMMA KeptInit == ASSUME Parameters PROVE Init => Kept
<1> SUFFICES ASSUME Init PROVE Kept
  OBVIOUS
<1>1. TablesOK
  BY FS_EmptySet DEF Init, TablesOK, Nothing, Parameters
<1>2. RequestsOK
  BY DEF Init, RequestsOK, Requests, HasRead, Idle
<1> QED BY <1>1, <1>2 DEF Kept

\* A request may become any other; the others stay.
LEMMA KeptRequest ==
    ASSUME RequestsOK, NEW s \in Sessions, NEW q \in Requests, HasRead(q), req' = [req EXCEPT ![s] = q]
    PROVE  RequestsOK'
<1>1. req' \in [Sessions -> Requests]
  BY DEF RequestsOK
<1>2. \A t \in Sessions : req'[t] = IF t = s THEN q ELSE req[t]
  BY DEF RequestsOK
<1>3. \A t \in Sessions : HasRead(req'[t])
  BY <1>2 DEF RequestsOK
<1> QED BY <1>1, <1>3 DEF RequestsOK

\* A request that ends leaves the others.
LEMMA KeptFinish ==
    ASSUME RequestsOK, NEW s \in Sessions, Finish(s) PROVE RequestsOK'
<1>1. Idle \in Requests /\ HasRead(Idle)
  BY DEF Requests, HasRead, Idle
<1> QED BY <1>1, KeptRequest DEF Finish

\* Starting a request and reading the ledger.
LEMMA KeptStarts ==
    ASSUME Parameters, Kept, NEW s \in Sessions, StartRecord(s) \/ StartWaive(s) \/ StartDelete(s)
    PROVE  RequestsOK'
<1>0. RequestsOK /\ Nothing \in Tables
  <2>1. Nothing \in [{} -> Record] /\ {} \in {L \in SUBSET Settlements : IsFiniteSet(L)}
    BY FS_EmptySet DEF Nothing
  <2> QED BY <2>1 DEF Kept, Tables
<1>1. CASE StartRecord(s)
  <2>1. PICK from \in Senders, a \in Amounts, covered \in SUBSET Months :
           req' = [req EXCEPT ![s] =
              [op |-> "record", stage |-> "charges", from |-> from, amount |-> a,
               covered |-> covered, seen |-> Nothing, stl |-> Nothing]]
    BY <1>1 DEF StartRecord
  <2> DEFINE q == [op |-> "record", stage |-> "charges", from |-> from, amount |-> a,
                   covered |-> covered, seen |-> Nothing, stl |-> Nothing]
  <2>2. q \in Requests /\ HasRead(q)
    BY <1>0 DEF Requests, Records, Stages, HasRead, Parameters
  <2> QED BY <1>0, <2>1, <2>2, KeptRequest
<1>2. CASE StartWaive(s)
  <2>1. PICK from \in Senders, year \in {Whole} \cup {Year[m] : m \in Months} :
           req' = [req EXCEPT ![s] =
              [op |-> "waive", stage |-> "charges", from |-> from, year |-> year,
               seen |-> Nothing, stl |-> Nothing]]
    BY <1>2 DEF StartWaive
  <2> DEFINE q == [op |-> "waive", stage |-> "charges", from |-> from, year |-> year,
                   seen |-> Nothing, stl |-> Nothing]
  <2>2. q \in Requests /\ HasRead(q)
    BY <1>0 DEF Requests, Waivers, Stages, HasRead
  <2> QED BY <1>0, <2>1, <2>2, KeptRequest
<1>3. CASE StartDelete(s)
  <2>1. PICK k \in DOMAIN settlement : req' = [req EXCEPT ![s] = [op |-> "delete", stage |-> "ready", sid |-> k]]
    BY <1>3 DEF StartDelete
  <2> DEFINE q == [op |-> "delete", stage |-> "ready", sid |-> k]
  <2>2. q \in Requests /\ HasRead(q)
    BY DEF Requests, Deletes, HasRead, Kept, TablesOK
  <2> QED BY <1>0, <2>1, <2>2, KeptRequest
<1> QED BY <1>1, <1>2, <1>3

\* A request that reads is a payment or a waiver, and stays one.
LEMMA KeptReader ==
    ASSUME NEW q \in Requests, q.op \in {"record", "waive"},
           NEW seen \in Cents, NEW stl \in Tables, NEW stage \in Stages,
           NEW p, p = [q EXCEPT !.seen = seen, !.stl = stl, !.stage = stage]
    PROVE  p \in Requests /\ HasRead(p) /\ q.stl \in Tables /\ q.seen \in Cents \cup {Nothing}
<1>1. CASE q \in Records
  <2>1. p \in Records /\ p.seen = seen
    BY <1>1 DEF Records
  <2> QED BY <1>1, <2>1 DEF Requests, HasRead, Records
<1>2. CASE q \in Waivers
  <2>1. p \in Waivers /\ p.seen = seen
    BY <1>2 DEF Waivers
  <2> QED BY <1>2, <2>1 DEF Requests, HasRead, Waivers
<1>3. q \notin Deletes /\ q # Idle
  BY DEF Deletes, Idle
<1> QED BY <1>1, <1>2, <1>3 DEF Requests

\* Reading on: charges, then settlements, then their portions.
LEMMA KeptLoads ==
    ASSUME Parameters, Kept, NEW s \in Sessions, LoadCharges(s) \/ LoadSettlements(s) \/ LoadPortions(s)
    PROVE  RequestsOK'
<1> DEFINE q == req[s]
<1>1. /\ RequestsOK /\ q \in Requests /\ q.op \in {"record", "waive"} /\ HasRead(q)
      /\ charged \in Cents /\ settlement \in Tables /\ Nothing \in Tables
  <2>1. Nothing \in [{} -> Record] /\ {} \in {L \in SUBSET Settlements : IsFiniteSet(L)}
    BY FS_EmptySet DEF Nothing
  <2>2. Nothing \in Tables
    BY <2>1 DEF Tables
  <2>3. q.op \in {"record", "waive"}
    BY DEF LoadCharges, LoadSettlements, LoadPortions, Loading
  <2> QED BY <2>2, <2>3, KeptTables DEF Kept, RequestsOK
<1>2. q.stl \in Tables /\ (q.stage # "charges" => q.seen \in Cents)
  BY <1>1, KeptReader DEF HasRead, Stages
<1> DEFINE With(seen, stl, stage) == [q EXCEPT !.seen = seen, !.stl = stl, !.stage = stage]
<1>3. /\ \A c, at : [q EXCEPT !.seen = c, !.stage = at] = With(c, q.stl, at)
      /\ \A t, at : [q EXCEPT !.stl = t, !.stage = at] = With(q.seen, t, at)
  BY <1>1 DEF Requests, Records, Waivers, Deletes, Idle
<1>4. CASE LoadCharges(s)
  <2> DEFINE p == With(charged, q.stl, "settlements")
  <2>0. req' = [req EXCEPT ![s] = [q EXCEPT !.seen = charged, !.stage = "settlements"]]
    BY <1>1, <1>4 DEF LoadCharges, RequestsOK
  <2>1. req' = [req EXCEPT ![s] = p]
    BY <1>3, <2>0
  <2>2. p \in Requests /\ HasRead(p)
    BY <1>1, <1>2, KeptReader DEF Stages
  <2> QED BY <1>1, <2>1, <2>2, KeptRequest
<1>5. CASE LoadSettlements(s)
  <2> DEFINE p == With(q.seen, settlement, "portions")
  <2>0. q.seen \in Cents
    BY <1>2, <1>5 DEF LoadSettlements, Loading
  <2>3. req' = [req EXCEPT ![s] = [q EXCEPT !.stl = settlement, !.stage = "portions"]]
    BY <1>1, <1>5 DEF LoadSettlements, RequestsOK
  <2>1. req' = [req EXCEPT ![s] = p]
    BY <1>3, <2>3
  <2>2. p \in Requests /\ HasRead(p)
    BY <1>1, <2>0, KeptReader DEF Stages
  <2> QED BY <1>1, <2>1, <2>2, KeptRequest
<1>6. CASE LoadPortions(s)
  <2> DEFINE seen == Books(q.seen, q.stl, portions)
             p == With(seen, Nothing, "ready")
  <2>0. seen \in Cents
    <3>1. q.seen \in [Months -> Int]
      BY <1>2, <1>6 DEF LoadPortions, Loading, Cents
    <3>2. PICK K \in SUBSET Settlements : IsFiniteSet(K) /\ q.stl \in [K -> Record]
      BY <1>2 DEF Tables
    <3>3. \A k \in DOMAIN portions : Placed(portions[k])
      BY DEF Kept, TablesOK, Allotted
    <3>4. Stored(q.stl, portions)
      BY <3>2, <3>3 DEF Stored
    <3> QED BY <3>1, <3>4, BooksInt DEF Cents
  <2>1. req' = [req EXCEPT ![s] = p]
    BY <1>1, <1>6 DEF LoadPortions, RequestsOK
  <2> HIDE DEF seen
  <2>2. p \in Requests /\ HasRead(p)
    BY <1>1, <2>0, KeptReader DEF Stages
  <2> QED BY <1>1, <2>1, <2>2, KeptRequest
<1> QED BY <1>4, <1>5, <1>6

\* Storing a settlement with the portions that come to its amount.
LEMMA KeptSave ==
    ASSUME Parameters, TablesOK, charged' \in [Months -> Charges],
           NEW k \in Settlements, NEW from \in Senders, NEW amount, NEW at \in Months,
           NEW seen \in Cents, NEW covered, Plannable(Toward(from, seen), amount, covered),
           Save(k, from, amount, at, seen, covered)
    PROVE  TablesOK'
<1> DEFINE row == [from |-> from, amount |-> amount, at |-> at]
           plan == Plan(Toward(from, seen), amount, covered)
<1>1. row \in Record
  BY DEF Record, Plannable
<1>2. Placed(plan) /\ DOMAIN plan # {} /\ Total(plan) = amount
  <2>1. LastMonth \in Nat /\ covered \subseteq Months
    BY DEF Parameters, Plannable
  <2>2. DOMAIN plan \subseteq covered /\ DOMAIN plan # {} /\ IntOn(plan, DOMAIN plan) /\ Total(plan) = amount
    BY <2>1, PlanPlaces
  <2> QED BY <2>1, <2>2 DEF Placed
<1>3. /\ k \notin issued /\ issued' = issued \cup {k}
      /\ settlement' = Inserted(settlement, k, row) /\ portions' = Inserted(portions, k, plan)
  BY DEF Save
<1>4. row.amount = amount
  OBVIOUS
<1> HIDE DEF row, plan
<1>5. /\ DOMAIN settlement' = DOMAIN settlement \cup {k} /\ DOMAIN portions' = DOMAIN portions \cup {k}
      /\ settlement'[k] = row /\ portions'[k] = plan
      /\ \A j \in DOMAIN settlement : j # k => settlement'[j] = settlement[j]
      /\ \A j \in DOMAIN portions : j # k => portions'[j] = portions[j]
      /\ settlement' = [j \in DOMAIN settlement' |-> settlement'[j]]
  BY <1>3 DEF Inserted
<1>6. \A j \in DOMAIN settlement' : Allotted(settlement', portions', j)
  <2>1. Allotted(settlement', portions', k)
    BY <1>1, <1>2, <1>4, <1>5 DEF Allotted
  <2>2. ASSUME NEW j \in DOMAIN settlement, j # k PROVE Allotted(settlement', portions', j)
    <3>1. Allotted(settlement, portions, j) /\ j \in DOMAIN portions
      BY DEF TablesOK
    <3>2. settlement'[j] = settlement[j] /\ portions'[j] = portions[j]
      BY <1>5, <2>2, <3>1
    <3> QED BY <3>1, <3>2 DEF Allotted
  <2> QED BY <1>5, <2>1, <2>2
<1>7. IsFiniteSet(issued') /\ issued' \subseteq Settlements /\ DOMAIN settlement' \subseteq issued'
      /\ DOMAIN portions' = DOMAIN settlement'
  BY <1>3, <1>5, FS_AddElement DEF TablesOK
<1> QED BY <1>5, <1>6, <1>7 DEF TablesOK

\* What is planned for a payment: the months it names, or the one it is dated in.
LEMMA RecordPlannable ==
    ASSUME NEW q \in Requests, q.op = "record", q.seen \in Cents, NEW at \in Months
    PROVE  /\ Plannable(Toward(q.from, q.seen), q.amount, CoveredBy(q, at))
           /\ q.from \in Senders /\ Toward(q.from, q.seen) \in Cents
<1>1. q.from \in Senders /\ q.amount \in Nat \ {0} /\ q.covered \subseteq Months
  BY DEF Requests, Records, Waivers, Deletes, Idle
<1>2. DOMAIN q.seen = Months /\ \A m \in Months : q.from * q.seen[m] \in Int
  BY <1>1 DEF Senders, Cents
<1>3. Toward(q.from, q.seen) \in Cents
  BY <1>2 DEF Toward, Cents
<1>4. CoveredBy(q, at) \subseteq Months /\ CoveredBy(q, at) # {}
  BY <1>1 DEF CoveredBy
<1> QED BY <1>1, <1>3, <1>4 DEF Plannable, IntOn, Cents

\* What is planned for a waiver that is not refused: the open months of its
\* scope, which come to what it waives.
LEMMA WaiverPlannable ==
    ASSUME Parameters, NEW q \in Requests, q.op = "waive", q.seen \in Cents,
           q.from * ScopeTotal(q.seen, q.year) > 0
    PROVE  /\ Plannable(Toward(q.from, q.seen), q.from * ScopeTotal(q.seen, q.year), OpenMonths(q.seen, q.year))
           /\ q.from \in Senders /\ Toward(q.from, q.seen) \in Cents
           /\ q.from * ScopeTotal(q.seen, q.year) = Sum(Toward(q.from, q.seen), OpenMonths(q.seen, q.year))
<1> DEFINE S == InScope(q.year)
           O == OpenMonths(q.seen, q.year)
           b == q.seen
           scope == [m \in S |-> b[m]]
           toward == Toward(q.from, b)
<1>1. q.from \in Senders
  BY DEF Requests, Records, Waivers, Deletes, Idle
<1>2. DOMAIN b = Months /\ \A m \in Months : b[m] \in Int
  BY DEF Cents
<1>3. toward = [m \in Months |-> q.from * b[m]]
  BY <1>2 DEF Toward
<1>4. toward \in Cents /\ \A m \in Months : toward[m] = q.from * b[m]
  BY <1>1, <1>2, <1>3 DEF Cents, Senders
<1>5. S \subseteq Months /\ O \subseteq S /\ \A m \in S \ O : b[m] = 0
  BY DEF InScope, OpenMonths
<1>6. IsFiniteSet(Months) /\ IsFiniteSet(S) /\ IsFiniteSet(O)
  <2>1. IsFiniteSet(Months)
    BY FS_Interval DEF Parameters, Months
  <2> HIDE DEF S, O
  <2> QED BY <1>5, <2>1, FS_Subset
<1>7. /\ ScopeTotal(q.seen, q.year) = Total(scope) /\ DOMAIN scope = S
      /\ \A m \in S : scope[m] = b[m]
  BY DEF ScopeTotal
<1> HIDE DEF S, O, scope, b, toward
<1>8. /\ IntOn(scope, S) /\ IntOn(scope, O) /\ IntOn(toward, O) /\ IntOn(b, O)
      /\ \A m \in S \ O : scope[m] = 0
  BY <1>2, <1>4, <1>5, <1>7 DEF IntOn, Cents
<1>9. Total(scope) = Sum(scope, S) /\ Sum(scope, S) = Sum(scope, O)
  BY <1>5, <1>6, <1>7, <1>8, TotalIsSum, SumSupport
<1>10. q.from \in Int
  BY <1>1 DEF Senders
<1>11. Sum(toward, O) = q.from * Sum(scope, O)
  <2>1. \A m \in O : toward[m] = q.from * scope[m]
    BY <1>4, <1>5, <1>7
  <2> QED BY <1>6, <1>8, <1>10, <2>1, SumScale
<1>12. q.from * ScopeTotal(q.seen, q.year) = Sum(toward, O)
  BY <1>7, <1>9, <1>11
<1>13. Sum(toward, O) \in Nat \ {0} /\ O # {}
  BY <1>6, <1>8, <1>12, SumInt, SumEmpty
<1>14. Plannable(toward, Sum(toward, O), O)
  BY <1>5, <1>8, <1>13 DEF Plannable
<1> QED BY <1>1, <1>4, <1>12, <1>14 DEF toward, O, b

\* A request commits, is refused or fails.
LEMMA KeptCommits ==
    ASSUME Parameters, Kept, NEW s \in Sessions, CommitRecord(s) \/ CommitWaive(s) \/ CommitDelete(s)
    PROVE  Kept'
<1> DEFINE q == req[s]
<1>1. RequestsOK /\ TablesOK /\ q \in Requests /\ HasRead(q) /\ charged \in [Months -> Charges]
  BY DEF Kept, RequestsOK, TablesOK
<1>2. RequestsOK'
  <2>1. Finish(s)
    BY DEF CommitRecord, CommitWaive, CommitDelete
  <2> QED BY <1>1, <2>1, KeptFinish
<1>3. CASE CommitRecord(s)
  <2>1. q.op = "record" /\ q.seen \in Cents
    BY <1>1, <1>3 DEF CommitRecord, Ready, HasRead
  <2>2. PICK k \in Settlements, at \in Months : Save(k, q.from, q.amount, at, q.seen, CoveredBy(q, at))
    BY <1>3 DEF CommitRecord
  <2>3. charged' \in [Months -> Charges]
    BY <1>1, <1>3 DEF CommitRecord
  <2>4. Plannable(Toward(q.from, q.seen), q.amount, CoveredBy(q, at)) /\ q.from \in Senders
    BY <1>1, <2>1, RecordPlannable
  <2> HIDE DEF q
  <2>5. TablesOK'
    BY <1>1, <2>1, <2>2, <2>3, <2>4, KeptSave
  <2> QED BY <1>2, <2>5 DEF Kept
<1>4. CASE CommitWaive(s)
  <2>1. /\ q.op = "waive" /\ q.seen \in Cents /\ q.from * ScopeTotal(q.seen, q.year) > 0
    BY <1>1, <1>4 DEF CommitWaive, Ready, HasRead
  <2>2. PICK k \in Settlements, now \in Months :
           Save(k, q.from, q.from * ScopeTotal(q.seen, q.year), now, q.seen, OpenMonths(q.seen, q.year))
    BY <1>4 DEF CommitWaive
  <2>3. charged' \in [Months -> Charges]
    BY <1>1, <1>4 DEF CommitWaive
  <2>4. /\ Plannable(Toward(q.from, q.seen), q.from * ScopeTotal(q.seen, q.year), OpenMonths(q.seen, q.year))
        /\ q.from \in Senders
    BY <1>1, <2>1, WaiverPlannable
  <2> HIDE DEF q
  <2>5. TablesOK'
    BY <1>1, <2>1, <2>2, <2>3, <2>4, KeptSave
  <2> QED BY <1>2, <2>5 DEF Kept
<1>5. CASE CommitDelete(s)
  <2>1. /\ settlement' = [k \in DOMAIN settlement \ {q.sid} |-> settlement[k]]
        /\ portions' = [k \in DOMAIN portions \ {q.sid} |-> portions[k]]
        /\ charged' = charged /\ issued' = issued
    BY <1>5 DEF CommitDelete
  <2>2. /\ DOMAIN settlement' = DOMAIN settlement \ {q.sid} /\ DOMAIN portions' = DOMAIN settlement'
        /\ \A k \in DOMAIN settlement' : settlement'[k] = settlement[k] /\ portions'[k] = portions[k]
        /\ settlement' = [k \in DOMAIN settlement' |-> settlement'[k]]
    BY <1>1, <2>1 DEF TablesOK
  <2>3. \A k \in DOMAIN settlement' : Allotted(settlement', portions', k)
    BY <1>1, <2>2 DEF Allotted, TablesOK
  <2>4. TablesOK'
    BY <1>1, <2>1, <2>2, <2>3 DEF TablesOK
  <2> QED BY <1>2, <2>4 DEF Kept
<1> QED BY <1>3, <1>4, <1>5

\* Every step keeps the ledger.
LEMMA KeptNext == ASSUME Parameters, Kept, [Next]_vars PROVE Kept'
<1>1. CASE UNCHANGED vars
  BY <1>1 DEF vars, Kept, TablesOK, RequestsOK, HasRead, Allotted
<1>2. CASE Next
  <2>1. PICK s \in Sessions :
           \/ ChangeCharges(s) \/ StartRecord(s) \/ StartWaive(s) \/ StartDelete(s)
           \/ LoadCharges(s) \/ LoadSettlements(s) \/ LoadPortions(s)
           \/ CommitRecord(s) \/ CommitWaive(s) \/ CommitDelete(s) \/ Abort(s)
    BY <1>2 DEF Next
  <2>2. ASSUME UNCHANGED <<settlement, portions, issued>>, charged' \in [Months -> Charges] PROVE TablesOK'
    BY <2>2 DEF Kept, TablesOK, Allotted
  <2>3. charged \in [Months -> Charges]
    BY DEF Kept, TablesOK
  <2>4. CASE ChangeCharges(s)
    <3>1. charged' \in [Months -> Charges] /\ UNCHANGED <<settlement, portions, issued, req>>
      BY <2>3, <2>4 DEF ChangeCharges
    <3>2. RequestsOK'
      BY <3>1 DEF Kept, RequestsOK, HasRead
    <3> QED BY <2>2, <3>1, <3>2 DEF Kept
  <2>5. CASE StartRecord(s) \/ StartWaive(s) \/ StartDelete(s)
    <3>1. UNCHANGED db
      BY <2>5 DEF StartRecord, StartWaive, StartDelete
    <3> QED BY <2>2, <2>3, <2>5, <3>1, KeptStarts DEF Kept, db
  <2>6. CASE LoadCharges(s) \/ LoadSettlements(s) \/ LoadPortions(s)
    <3>1. UNCHANGED db
      BY <2>6 DEF LoadCharges, LoadSettlements, LoadPortions
    <3> QED BY <2>2, <2>3, <2>6, <3>1, KeptLoads DEF Kept, db
  <2>7. CASE CommitRecord(s) \/ CommitWaive(s) \/ CommitDelete(s)
    BY <2>7, KeptCommits
  <2>8. CASE Abort(s)
    <3>1. UNCHANGED db /\ Finish(s)
      BY <2>8 DEF Abort
    <3> QED BY <2>2, <2>3, <3>1, KeptFinish DEF Kept, db
  <2> QED BY <2>1, <2>4, <2>5, <2>6, <2>7, <2>8
<1> QED BY <1>1, <1>2

\* The stored charges, payments and portions have the types of their columns.
THEOREM LedgerTyped ==
    ASSUME Parameters
    PROVE  Spec => []TypeOK
<1>1. Kept /\ [Next]_vars => Kept'
  BY KeptNext
<1>2. Kept => TypeOK
  BY DEF Kept, TablesOK, Allotted, Placed, IntOn, TypeOK
<1> QED BY KeptInit, <1>1, <1>2, PTL DEF Spec

\* However requests interleave, a stored settlement's portions come to its
\* amount: what is outstanding is all charges less all payments.
THEOREM LedgerBalances ==
    ASSUME Parameters
    PROVE  Spec => []OutstandingIsNet
<1>1. Kept /\ [Next]_vars => Kept'
  BY KeptNext
<1>2. Kept => OutstandingIsNet
  BY KeptNet
<1> QED BY KeptInit, <1>1, <1>2, PTL DEF Spec

----------------------------------------------------------------------------
(* A single request at a time: what it read is still so when it commits.    *)
OneRequest == \A s, t \in Sessions : s = t
Asks(q) == q.op \in {"record", "waive"}
Fresh(q) ==
    Asks(q) =>
        /\ q.stage = "settlements" => q.seen = charged
        /\ q.stage = "portions" => q.seen = charged /\ q.stl = settlement
        /\ q.stage = "ready" => q.seen = Balance
AllFresh == \A s \in Sessions : Fresh(req[s])

\* Nothing is read at first.
LEMMA FreshInit == Init => AllFresh
BY DEF Init, AllFresh, Fresh, Asks, Idle

\* What a request holds after it read on.
LEMMA ReadOn ==
    ASSUME NEW q \in Records \cup Waivers, NEW seen, NEW stl, NEW stage
    PROVE  /\ [q EXCEPT !.seen = seen, !.stage = stage].stage = stage
           /\ [q EXCEPT !.seen = seen, !.stage = stage].seen = seen
           /\ [q EXCEPT !.stl = stl, !.stage = stage].stage = stage
           /\ [q EXCEPT !.stl = stl, !.stage = stage].stl = stl
           /\ [q EXCEPT !.stl = stl, !.stage = stage].seen = q.seen
           /\ [q EXCEPT !.seen = seen, !.stl = stl, !.stage = stage].stage = stage
           /\ [q EXCEPT !.seen = seen, !.stl = stl, !.stage = stage].seen = seen
<1>1. CASE q \in Records
  BY <1>1 DEF Records
<1>2. CASE q \in Waivers
  BY <1>2 DEF Waivers
<1> QED BY <1>1, <1>2

\* The request of a session after it read on.
LEMMA FreshLoads ==
    ASSUME Kept, AllFresh, NEW s \in Sessions, LoadCharges(s) \/ LoadSettlements(s) \/ LoadPortions(s)
    PROVE  Fresh(req[s])'
<1> DEFINE q == req[s]
<1>1. q \in Records \cup Waivers /\ Fresh(q) /\ UNCHANGED db
  <2>1. q \in Requests /\ q.op \in {"record", "waive"}
    BY DEF Kept, RequestsOK, LoadCharges, LoadSettlements, LoadPortions, Loading
  <2> QED BY <2>1 DEF Requests, Deletes, Idle, AllFresh, LoadCharges, LoadSettlements, LoadPortions
<1>2. \A p : req' = [req EXCEPT ![s] = p] => req'[s] = p
  BY DEF Kept, RequestsOK
<1>3. Balance' = Balance /\ charged' = charged /\ settlement' = settlement
  BY <1>1 DEF Balance, db
<1>4. CASE LoadCharges(s)
  <2>1. req' = [req EXCEPT ![s] = [q EXCEPT !.seen = charged, !.stage = "settlements"]]
    BY <1>4 DEF LoadCharges, Kept, RequestsOK
  <2>2. req'[s].stage = "settlements" /\ req'[s].seen = charged
    <3>1. req'[s] = [q EXCEPT !.seen = charged, !.stage = "settlements"]
      BY <1>2, <2>1
    <3> HIDE DEF q
    <3> QED BY <1>1, <3>1, ReadOn
  <2> QED BY <1>3, <2>2 DEF Fresh
<1>5. CASE LoadSettlements(s)
  <2>1. req' = [req EXCEPT ![s] = [q EXCEPT !.stl = settlement, !.stage = "portions"]]
    BY <1>5 DEF LoadSettlements, Kept, RequestsOK
  <2>2. req'[s].stage = "portions" /\ req'[s].stl = settlement /\ req'[s].seen = q.seen
    <3>1. req'[s] = [q EXCEPT !.stl = settlement, !.stage = "portions"]
      BY <1>2, <2>1
    <3> HIDE DEF q
    <3> QED BY <1>1, <3>1, ReadOn
  <2>3. q.seen = charged
    BY <1>1, <1>5 DEF LoadSettlements, Loading, Fresh, Asks
  <2> QED BY <1>3, <2>2, <2>3 DEF Fresh
<1>6. CASE LoadPortions(s)
  <2>1. q.seen = charged /\ q.stl = settlement
    BY <1>1, <1>6 DEF LoadPortions, Loading, Fresh, Asks
  <2>2. req' = [req EXCEPT ![s] = [q EXCEPT !.seen = Balance, !.stl = Nothing, !.stage = "ready"]]
    BY <1>6, <2>1 DEF LoadPortions, Kept, RequestsOK, Balance
  <2>3. req'[s].stage = "ready" /\ req'[s].seen = Balance
    <3>1. req'[s] = [q EXCEPT !.seen = Balance, !.stl = Nothing, !.stage = "ready"]
      BY <1>2, <2>2
    <3> HIDE DEF q
    <3> QED BY <1>1, <3>1, ReadOn
  <2> QED BY <1>3, <2>3 DEF Fresh
<1> QED BY <1>4, <1>5, <1>6

\* With one request at most, what it read stays so: nothing else commits meanwhile.
LEMMA FreshNext == ASSUME OneRequest, Kept, AllFresh, [Next]_vars PROVE AllFresh'
<1>1. CASE UNCHANGED vars
  <2>1. Balance' = Balance
    BY <1>1 DEF vars, Balance
  <2> QED BY <1>1, <2>1 DEF vars, AllFresh, Fresh, Asks
<1>2. CASE Next
  <2>1. PICK s \in Sessions :
           \/ ChangeCharges(s) \/ StartRecord(s) \/ StartWaive(s) \/ StartDelete(s)
           \/ LoadCharges(s) \/ LoadSettlements(s) \/ LoadPortions(s)
           \/ CommitRecord(s) \/ CommitWaive(s) \/ CommitDelete(s) \/ Abort(s)
    BY <1>2 DEF Next
  <2>2. SUFFICES Fresh(req[s])'
    BY <2>1 DEF AllFresh, OneRequest
  <2>3. \A p : req' = [req EXCEPT ![s] = p] => req'[s] = p
    BY <2>1 DEF Kept, RequestsOK
  <2>4. CASE LoadCharges(s) \/ LoadSettlements(s) \/ LoadPortions(s)
    BY <2>4, FreshLoads
  <2>5. CASE ChangeCharges(s)
    BY <2>5 DEF ChangeCharges, Fresh, Asks, Idle
  <2>6. CASE StartRecord(s) \/ StartWaive(s)
    <3>1. req'[s].stage = "charges"
      BY <2>3, <2>6 DEF StartRecord, StartWaive
    <3> QED BY <3>1 DEF Fresh
  <2>7. CASE StartDelete(s)
    <3>1. PICK k \in DOMAIN settlement : req' = [req EXCEPT ![s] = [op |-> "delete", stage |-> "ready", sid |-> k]]
      BY <2>7 DEF StartDelete
    <3>2. req'[s].op = "delete"
      BY <2>3, <3>1
    <3> QED BY <3>2 DEF Fresh, Asks
  <2>8. CASE CommitRecord(s) \/ CommitWaive(s) \/ CommitDelete(s) \/ Abort(s)
    <3>1. req'[s] = Idle
      BY <2>3, <2>8 DEF CommitRecord, CommitWaive, CommitDelete, Abort, Finish
    <3> QED BY <3>1 DEF Fresh, Asks, Idle
  <2> QED BY <2>1, <2>4, <2>5, <2>6, <2>7, <2>8
<1> QED BY <1>1, <1>2

\* A settlement planned from the ledger as it stands does what the plan
\* promises to the balances.
LEMMA SaveKeepsPromise ==
    ASSUME Parameters, TablesOK, NEW k \in Settlements, NEW from \in Senders, NEW amount,
           NEW at \in Months, NEW covered, Plannable(Toward(from, Balance), amount, covered),
           Save(k, from, amount, at, Balance, covered), charged' = charged
    PROVE  /\ KeepsPromise(Toward(from, Balance), Toward(from, Balance'), amount, covered)
           /\ settlement'[k].at = at /\ issued' \ issued = {k}
           /\ Toward(from, Balance) \in Cents /\ Toward(from, Balance') \in Cents
           /\ Balance \in Cents /\ Balance' \in Cents
<1> DEFINE row == [from |-> from, amount |-> amount, at |-> at]
           owed == Toward(from, Balance)
           plan == Plan(owed, amount, covered)
           after == [m \in Months |-> owed[m] - At(plan, m)]
<1>1. /\ charged \in [Months -> Int] /\ Stored(settlement, portions) /\ DOMAIN portions = DOMAIN settlement
      /\ LastMonth \in Nat /\ from \in Int /\ from * from = 1
  BY KeptTables DEF TablesOK, Cents, Parameters, Senders
<1>2. Balance \in [Months -> Int]
  BY <1>1, BooksInt DEF Balance
<1>3. row \in Record /\ row.from = from /\ row.at = at
  BY DEF Record, Plannable
<1>4. Placed(plan)
  <2>1. DOMAIN plan \subseteq covered /\ IntOn(plan, DOMAIN plan)
    BY <1>1, PlanPlaces
  <2>2. covered \subseteq Months
    BY DEF Plannable
  <2> QED BY <2>1, <2>2 DEF Placed
<1>5. /\ k \notin issued /\ k \notin DOMAIN settlement /\ issued' = issued \cup {k}
      /\ settlement' = Inserted(settlement, k, row) /\ portions' = Inserted(portions, k, plan)
  BY DEF Save, TablesOK
<1>6. owed \in [Months -> Int] /\ \A m \in Months : owed[m] = from * Balance[m]
  <2>1. owed = [m \in Months |-> from * Balance[m]]
    BY <1>2 DEF Toward
  <2> QED BY <1>1, <1>2, <2>1
<1> HIDE DEF row, owed, plan
<1>7. settlement'[k].at = at /\ issued' \ issued = {k}
  BY <1>3, <1>5 DEF Inserted
<1>8. \A m : At(plan, m) \in Int
  BY <1>4 DEF Placed, At, IntOn
<1>9. \A m \in Months : Balance'[m] = Balance[m] - from * At(plan, m)
  <2>1. Balance' = Books(charged, Inserted(settlement, k, row), Inserted(portions, k, plan))
    BY <1>5 DEF Balance
  <2>2. \A m \in Months : Books(charged, Inserted(settlement, k, row), Inserted(portions, k, plan))[m]
                            = Books(charged, settlement, portions)[m] - row.from * At(plan, m)
    BY <1>1, <1>3, <1>4, <1>5, BooksInsert
  <2> QED BY <1>3, <2>1, <2>2 DEF Balance
<1>10. Balance' = [m \in Months |-> Balance'[m]]
  <2>1. \A chg, stl, por : Books(chg, stl, por) = [m \in Months |-> Books(chg, stl, por)[m]]
    BY DEF Books
  <2> QED BY <2>1 DEF Balance
<1>11. \A m \in Months : Balance'[m] \in Int /\ from * Balance'[m] = owed[m] - At(plan, m)
  <2> SUFFICES ASSUME NEW m \in Months PROVE Balance'[m] \in Int /\ from * Balance'[m] = owed[m] - At(plan, m)
    OBVIOUS
  <2>1. /\ Balance[m] \in Int /\ At(plan, m) \in Int /\ owed[m] = from * Balance[m]
        /\ Balance'[m] = Balance[m] - from * At(plan, m)
    BY <1>2, <1>6, <1>8, <1>9
  <2>2. from = 1 \/ from = -1
    BY DEF Senders
  <2> QED BY <2>1, <2>2
<1>12. Balance' \in [Months -> Int]
  BY <1>10, <1>11
<1>13. Toward(from, Balance') = after
  <2>1. Toward(from, Balance') = [m \in Months |-> from * Balance'[m]]
    BY <1>12 DEF Toward
  <2> QED BY <1>11, <2>1
<1>14. after \in [Months -> Int]
  BY <1>6, <1>8
<1>15. KeepsPromise(owed, after, amount, covered)
  BY <1>1, <1>6, PlanKeepsPromise DEF plan, owed
<1> QED BY <1>2, <1>6, <1>7, <1>12, <1>13, <1>14, <1>15 DEF owed, Cents

\* A request that completes is the one that commits.
LEMMA CompletesCommits ==
    ASSUME Kept, Next, NEW s \in Sessions, NEW op \in {"record", "waive"}, Completes(s, op)
    PROVE  /\ op = "record" => CommitRecord(s)
           /\ op = "waive" => CommitWaive(s)
<1>1. PICK t \in Sessions :
           \/ ChangeCharges(t) \/ StartRecord(t) \/ StartWaive(t) \/ StartDelete(t)
           \/ LoadCharges(t) \/ LoadSettlements(t) \/ LoadPortions(t)
           \/ CommitRecord(t) \/ CommitWaive(t) \/ CommitDelete(t) \/ Abort(t)
  BY DEF Next
<1>2. issued' # issued /\ req[s].op = op /\ req'[s] = Idle
  BY DEF Completes
<1>3. CommitRecord(t) \/ CommitWaive(t)
  BY <1>1, <1>2 DEF ChangeCharges, StartRecord, StartWaive, StartDelete, LoadCharges, LoadSettlements,
                    LoadPortions, CommitDelete, Abort, db
<1>4. req' = [req EXCEPT ![t] = Idle]
  BY <1>3 DEF CommitRecord, CommitWaive, Finish
<1>5. t = s
  <2>1. t # s => req'[s] = req[s]
    BY <1>4 DEF Kept, RequestsOK
  <2>2. Idle.op = "none"
    BY DEF Idle
  <2> QED BY <1>2, <2>1, <2>2
<1> QED BY <1>2, <1>3, <1>5 DEF CommitRecord, CommitWaive, Ready

\* A payment, of legs that are in no month's charges.
LEMMA RecordKeepsPromise ==
    ASSUME Parameters, LegShares \subseteq {0}, Kept, [Next]_vars
    PROVE  [RecordPromise]_vars
<1> SUFFICES ASSUME Next, NEW s \in Sessions, Completes(s, "record"), Current(s), NEW j \in issued' \ issued
             PROVE  KeepsPromise(Toward(req[s].from, Balance), Toward(req[s].from, Balance'),
                                 req[s].amount, CoveredBy(req[s], settlement'[j].at))
  BY DEF RecordPromise
<1> DEFINE q == req[s]
<1>1. CommitRecord(s)
  BY CompletesCommits
<1>2. q \in Requests /\ q.op = "record" /\ q.seen = Balance /\ TablesOK /\ charged \in Cents
  BY <1>1, KeptTables DEF Kept, RequestsOK, CommitRecord, Ready, Current
<1>3. q.seen \in Cents
  BY <1>1 DEF Kept, RequestsOK, CommitRecord, Ready, HasRead
<1>4. PICK k \in Settlements, at \in Months : Save(k, q.from, q.amount, at, Balance, CoveredBy(q, at))
  BY <1>1, <1>2 DEF CommitRecord
<1>5. charged' = charged
  <2>1. PICK leg \in Months, share \in LegShares \cup {0} : charged' = [charged EXCEPT ![leg] = @ - share]
    BY <1>1 DEF CommitRecord
  <2>2. share = 0 /\ charged[leg] \in Int
    BY <1>2 DEF Cents
  <2>3. charged[leg] - share = charged[leg]
    BY <2>2
  <2> QED BY <1>2, <2>1, <2>3 DEF Cents
<1>6. Plannable(Toward(q.from, Balance), q.amount, CoveredBy(q, at)) /\ q.from \in Senders
  BY <1>2, <1>3, RecordPlannable
<1> HIDE DEF q
<1>7. /\ KeepsPromise(Toward(q.from, Balance), Toward(q.from, Balance'), q.amount, CoveredBy(q, at))
      /\ settlement'[k].at = at /\ issued' \ issued = {k}
  BY <1>2, <1>4, <1>5, <1>6, SaveKeepsPromise
<1> QED BY <1>7 DEF q

\* A waiver.
LEMMA WaiverClears ==
    ASSUME Parameters, Kept, [Next]_vars
    PROVE  [WaiverPromise]_vars
<1> SUFFICES ASSUME Next, NEW s \in Sessions, Completes(s, "waive"), Current(s), NEW m \in Months
             PROVE  Balance'[m] = IF m \in InScope(req[s].year) THEN 0 ELSE Balance[m]
  BY DEF WaiverPromise
<1> DEFINE q == req[s]
           total == q.from * ScopeTotal(Balance, q.year)
           open == OpenMonths(Balance, q.year)
<1>1. CommitWaive(s)
  BY CompletesCommits
<1>2. q \in Requests /\ q.op = "waive" /\ q.seen = Balance /\ TablesOK /\ charged' = charged
  BY <1>1 DEF Kept, RequestsOK, CommitWaive, Ready, Current
<1>3. q.seen \in Cents /\ q.from * ScopeTotal(q.seen, q.year) > 0
  BY <1>1 DEF Kept, RequestsOK, CommitWaive, Ready, HasRead
<1>4. PICK k \in Settlements, now \in Months : Save(k, q.from, total, now, Balance, open)
  BY <1>1, <1>2 DEF CommitWaive
<1>5. /\ Plannable(Toward(q.from, Balance), total, open) /\ q.from \in Senders
      /\ total = Sum(Toward(q.from, Balance), open)
  BY <1>2, <1>3, WaiverPlannable
<1> DEFINE owed == Toward(q.from, Balance)
           left == Toward(q.from, Balance')
<1> HIDE DEF q, total, open
<1>6. /\ KeepsPromise(owed, left, total, open) /\ owed \in Cents /\ left \in Cents
      /\ Balance \in Cents /\ Balance' \in Cents
  BY <1>2, <1>4, <1>5, SaveKeepsPromise
<1>7. /\ owed[m] = q.from * Balance[m] /\ left[m] = q.from * Balance'[m]
      /\ Balance[m] \in Int /\ Balance'[m] \in Int /\ DOMAIN owed = Months
  <2>1. DOMAIN Balance = Months /\ DOMAIN Balance' = Months /\ Balance[m] \in Int /\ Balance'[m] \in Int
    BY <1>6 DEF Cents
  <2> QED BY <1>6, <2>1 DEF Toward, Cents
<1>8. q.from = 1 \/ q.from = -1
  BY <1>5 DEF Senders
<1>9. /\ open \subseteq InScope(q.year) /\ open \subseteq Months /\ open # {} /\ total \in Int
      /\ m \in InScope(q.year) \ open => Balance[m] = 0
  BY <1>5 DEF open, OpenMonths, InScope, Plannable
<1> HIDE DEF owed, left
<1>10. CASE m \in open
  <2>1. owed \in [Months -> Int] /\ left \in [Months -> Int] /\ LastMonth \in Nat /\ total = Sum(owed, open)
    BY <1>5, <1>6 DEF Cents, Parameters, owed
  <2>2. left[m] = 0
    BY <1>6, <1>9, <1>10, <2>1, PromiseClears
  <2>3. Balance'[m] = 0
    BY <1>7, <1>8, <2>2
  <2> QED BY <1>9, <1>10, <2>3 DEF q
<1>11. CASE m \notin open
  <2>1. left[m] = owed[m]
    BY <1>6, <1>7, <1>11 DEF KeepsPromise
  <2>2. Balance'[m] = Balance[m]
    BY <1>7, <1>8, <2>1
  <2> QED BY <1>9, <1>11, <2>2 DEF q
<1> QED BY <1>10, <1>11

\* A payment recorded from a ledger that is current does to the balances what
\* plan_portions promises, of any amount over any months and beside any other
\* requests, when no linked leg is still in the charges (record_settlement.py).
THEOREM PaymentsAsPromised ==
    ASSUME Parameters, LegShares \subseteq {0}
    PROVE  Spec => PaymentsKeepPromise
<1>1. Kept /\ [Next]_vars => Kept'
  BY KeptNext
<1>2. Kept /\ [Next]_vars => [RecordPromise]_vars
  BY RecordKeepsPromise
<1> QED BY KeptInit, <1>1, <1>2, PTL DEF Spec, PaymentsKeepPromise

\* A waiver of a current ledger brings every month of its scope to zero and
\* leaves the others, beside any other requests (record_waived_settlement.py).
THEOREM WaiversAsPromised ==
    ASSUME Parameters
    PROVE  Spec => WaiversClear
<1>1. Kept /\ [Next]_vars => Kept'
  BY KeptNext
<1>2. Kept /\ [Next]_vars => [WaiverPromise]_vars
  BY WaiverClears
<1> QED BY KeptInit, <1>1, <1>2, PTL DEF Spec, WaiversClear

\* And the ledger is current for the only request: what it read with three
\* queries (load_ledger) is what the books say when it commits.
CurrentWhenReady == \A s \in Sessions : Ready(s, "record") \/ Ready(s, "waive") => Current(s)
THEOREM CurrentAlone ==
    ASSUME Parameters, OneRequest
    PROVE  Spec => []CurrentWhenReady
<1>1. Kept /\ AllFresh /\ [Next]_vars => Kept' /\ AllFresh'
  BY KeptNext, FreshNext
<1>2. AllFresh => CurrentWhenReady
  BY DEF AllFresh, Fresh, Asks, CurrentWhenReady, Ready, Current
<1> QED BY KeptInit, FreshInit, <1>1, <1>2, PTL DEF Spec
=============================================================================
