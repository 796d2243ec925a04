------------------------------ MODULE Portions ------------------------------
(***************************************************************************)
(* How a payment is split over the months it covers (plan_portions), and   *)
(* the promise its documentation makes. Months are numbered in             *)
(* chronological order; an amount of money is an integer number of cents.  *)
(* owed[m] is what month m needs from the payer to reach zero: negative    *)
(* when the month is owed to the payer.                                    *)
(***************************************************************************)
EXTENDS Integers, FiniteSetsExt, Functions

Least(x, y) == IF x < y THEN x ELSE y
Total(f) == SumFunction(f)
At(f, m) == IF m \in DOMAIN f THEN f[m] ELSE 0

\* Mutant of HandedBack: months owed to the payer are left alone.
NothingBack(owed, covered) == [m \in covered |-> 0]

\* What is handed back to the payer by the months owed to them.
HandedBack(owed, covered) == [m \in covered |-> Least(owed[m], 0)]

\* What is left of the money after the covered months up to m were paid,
\* oldest first, each as far as the money goes.
Paid(owed, m, money) == IF owed[m] > 0 THEN Least(owed[m], money) ELSE 0
LeftAfter(owed, covered, money, last) ==
    LET left[m \in 0..last] ==
            IF m = 0 THEN money
            ELSE IF m \in covered THEN left[m-1] - Paid(owed, m, left[m-1])
            ELSE left[m-1]
    IN  left

\* Mutant of Plan: the surplus is dropped.
PlanWithoutSurplus(owed, amount, covered) ==
    LET back == HandedBack(owed, covered)
        left == LeftAfter(owed, covered, amount - Total(back), Max(covered))
    IN  IF covered = {} \/ amount <= 0 THEN [m \in {} |-> 0]
        ELSE [m \in covered |-> back[m] + Paid(owed, m, left[m-1])]

\* The whole plan: give-backs, then the oldest months, then the surplus on the
\* newest covered month; months with nothing have no portion.
Plan(owed, amount, covered) ==
    LET back == HandedBack(owed, covered)
        newest == Max(covered)
        left == LeftAfter(owed, covered, amount - Total(back), newest)
        portion == [m \in covered |->
                       back[m] + Paid(owed, m, left[m-1])
                               + (IF m = newest THEN left[m] ELSE 0)]
    IN  IF covered = {} \/ amount <= 0 THEN [m \in {} |-> 0]
        ELSE [m \in {n \in covered : portion[n] # 0} |-> portion[m]]

-----------------------------------------------------------------------------
\* The promise, without the loop: owed is what the months needed before the
\* payment, left what they need after it.
\*   - only covered months move, and together by the amount paid;
\*   - but for a surplus, which the newest month carries once every other
\*     month is at zero, no month ends on the other side of zero;
\*   - months owed to the payer are brought to zero;
\*   - nothing is paid on a month while an older one is still short.
KeepsPromise(owed, left, amount, covered) ==
    LET newest == Max(covered) IN
    /\ \A m \in DOMAIN owed \ covered : left[m] = owed[m]
    /\ Total(left) = Total(owed) - amount
    /\ \A m \in covered \ {newest} :
          IF owed[m] < 0 THEN left[m] = 0 ELSE left[m] \in 0..owed[m]
    /\ owed[newest] >= 0 => left[newest] <= owed[newest]
    /\ left[newest] < 0 => \A m \in covered \ {newest} : left[m] = 0
    /\ \A m, n \in covered :
          m < n /\ left[m] > 0 => left[n] = IF owed[n] < 0 THEN 0 ELSE owed[n]

=============================================================================
