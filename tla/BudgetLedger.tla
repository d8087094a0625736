---------------------------- MODULE BudgetLedger ----------------------------
(***************************************************************************)
(* RootBudgetLedger (phenix-sdk/src/contracts/budget.rs) and the plan a    *)
(* usage policy makes of what is left of it (usage_policy.rs), as          *)
(* operators on a ledger: a function from reservation identities to        *)
(* records with a state, a parent reservation, the budget asked for and,   *)
(* once settled, the actual usage.  A budget has tokens, attempts and a    *)
(* cost that need not be stated (NoCost).                                  *)
(***************************************************************************)
EXTENDS Naturals, FiniteSetsExt

CONSTANTS Limit,   \* the limits of the root budget
          None,    \* no parent reservation
          NoCost   \* a cost that is not stated (Option::None)

\* u64::saturating_sub.
Less(a, b) == IF b > a THEN 0 ELSE a - b
Smaller(a, b) == IF a < b THEN a ELSE b

Stated(cost) == IF cost = NoCost THEN 0 ELSE cost

\* A usage that states no cost is charged what was reserved.
CostFor(actual, asked) ==
    IF actual.cost # NoCost THEN actual.cost ELSE Stated(asked.cost)

\* What a record takes out of the budget it is counted under.
Takes(rec) ==
    CASE rec.state = "reserved" ->
           [rec.asked EXCEPT !.cost = Stated(rec.asked.cost)]
      [] rec.state = "settled" ->
           [rec.actual EXCEPT !.cost = CostFor(rec.actual, rec.asked)]
      [] OTHER -> [tokens |-> 0, attempts |-> 0, cost |-> 0]

Under(ledger, parent) ==
    {k \in DOMAIN ledger :
        /\ ledger[k].state # "absent"
        /\ ledger[k].parent = parent}

Taken(ledger, keys) ==
    [tokens   |-> MapThenSumSet(LAMBDA k : Takes(ledger[k]).tokens, keys),
     attempts |-> MapThenSumSet(LAMBDA k : Takes(ledger[k]).attempts, keys),
     cost     |-> MapThenSumSet(LAMBDA k : Takes(ledger[k]).cost, keys)]

\* remaining, and remaining_within of a reservation.
Remaining(ledger, parent) ==
    LET whole == IF parent = None THEN Limit ELSE ledger[parent].asked
        taken == Taken(ledger, Under(ledger, parent))
    IN  [tokens   |-> Less(whole.tokens, taken.tokens),
         attempts |-> Less(whole.attempts, taken.attempts),
         cost     |-> IF whole.cost = NoCost
                        THEN NoCost
                        ELSE Less(whole.cost, taken.cost)]

\* Mutant: only the attempts are counted.
FitsAttempts(asked, left) == asked.attempts <= left.attempts

Fits(asked, left) ==
    /\ asked.tokens <= left.tokens
    /\ asked.attempts <= left.attempts
    /\ (NoCost \notin {asked.cost, left.cost}) => asked.cost <= left.cost

HasActiveChildren(ledger, k) ==
    \E c \in Under(ledger, k) : ledger[c].state = "reserved"

SettledChildren(ledger, k) ==
    Taken(ledger, {c \in Under(ledger, k) : ledger[c].state = "settled"})

Exceeds(actual, asked) ==
    \/ actual.tokens > asked.tokens
    \/ actual.attempts > asked.attempts
    \/ /\ NoCost \notin {actual.cost, asked.cost}
       /\ actual.cost > asked.cost

CanReserve(ledger, k, parent, asked) ==
    /\ ledger[k].state = "absent"
    /\ (parent # None) => (ledger[parent].state = "reserved")
    /\ Fits(asked, Remaining(ledger, parent))

CanRelease(ledger, k) ==
    /\ ledger[k].state = "reserved"
    /\ ~HasActiveChildren(ledger, k)

CanSettle(ledger, k, actual) ==
    /\ CanRelease(ledger, k)
    /\ ~Exceeds(actual, ledger[k].asked)
    /\ LET children == SettledChildren(ledger, k)
       IN  /\ actual.tokens >= children.tokens
           /\ actual.attempts >= children.attempts
           /\ CostFor(actual, ledger[k].asked) >= children.cost

\* The three mutations.
Reserved(ledger, k, parent, asked) ==
    [ledger EXCEPT ![k].state = "reserved",
                   ![k].parent = parent,
                   ![k].asked = asked]
Settled(ledger, k, actual) ==
    [ledger EXCEPT ![k].state = "settled", ![k].actual = actual]
Released(ledger, k) ==
    [ledger EXCEPT ![k].state = "released"]

-----------------------------------------------------------------------------
(* UsagePolicy.plan.  A demand carries the mandatory and the reducible     *)
(* input of the task and the policy's own maxima.                          *)

Plannable(demand, left) ==
    /\ left.attempts # 0
    /\ demand.mandatory <= Smaller(demand.max, left.tokens)

Planned(demand, left) ==
    LET budget == Smaller(demand.max, left.tokens)
    IN  [tokens   |-> demand.mandatory
                        + Smaller(demand.reducible, Less(budget, demand.mandatory)),
         attempts |-> 1,
         cost     |-> CASE demand.cost = NoCost -> left.cost
                        [] left.cost = NoCost   -> demand.cost
                        [] OTHER                -> Smaller(demand.cost, left.cost)]

=============================================================================
