--------------------------- MODULE PaymentPromise ---------------------------
(***************************************************************************)
(* Past Due records and payment promises of one borrower with several      *)
(* loans.  A receipt is posted, the promises whose day has passed are       *)
(* closed, the Past Due records its money reaches are reduced, the promises *)
(* on them follow, and a new shortfall is recorded: one transaction, which  *)
(* locks the loan and the pending promise.  A collector may also record a   *)
(* Past Due for a receipt in a request of its own.                          *)
(*                                                                         *)
(* A loan on the contract path spreads money over its installments, oldest  *)
(* first; a legacy loan applies it to the day of the receipt.  One          *)
(* installment falls due each day.                                          *)
(***************************************************************************)
EXTENDS Integers, Sequences, FiniteSets, FiniteSetsExt

CONSTANTS
    Loans,
    ContractLoans,  \* loans whose receipts are allocated to installments
    Days,           \* 1 .. the last day
    Daily,          \* amount of a day, or installment, of each loan
    PastDueAmounts, \* cash and promised amounts
    MaxReceipts,    \* bound: receipts posted and requests of their own
    MaxFollowups    \* bound: records made by such a request

\* What the constants must be; a module that gives them values assumes it.
PromiseAssumption ==
    /\ ContractLoans \subseteq Loans /\ Daily \in [Loans -> Nat \ {0}]
    /\ IsFiniteSet(Days) /\ Days = 1 .. Cardinality(Days)
    /\ PastDueAmounts \subseteq Nat \ {0} /\ MaxReceipts \in Nat /\ MaxFollowups \in Nat

VARIABLES
    posted,         \* receipts in order: loan, day, kind, money per day, live, linked
    obligations,    \* past_due_obligations: loan, day, original, remaining, source
    promises,       \* payment_promises: obligation, amount, deadline, remaining, status
    followups       \* records made by a request of their own

promiseVars == <<posted, obligations, promises, followups>>

AtLeast0(x) == Max({0, x})
Least(x, y) == Min({x, y})

-----------------------------------------------------------------------------
(* Money.                                                                  *)

AppliedIn(rs, l, d) ==
    MapThenSumSet(LAMBDA i : rs[i].spread[d],
                  {i \in DOMAIN rs : rs[i].live /\ rs[i].loan = l})
BalanceIn(rs, l) == MapThenSumSet(LAMBDA d : Daily[l] - AppliedIn(rs, l, d), Days)
Unpaid(l, d) == AtLeast0(Daily[l] - AppliedIn(posted, l, d))

Spread(l, day, amount) ==
    [d \in Days |->
        IF l \in ContractLoans
        THEN AtLeast0(Least(Unpaid(l, d),
                            amount - MapThenSumSet(LAMBDA e : Unpaid(l, e), 1 .. d - 1)))
        ELSE IF d = day THEN amount ELSE 0]

\* Receipts of a loan come in the order of their days; one pass a day.
InOrder(l, day) ==
    \A i \in DOMAIN posted :
        posted[i].loan = l /\ posted[i].live /\ posted[i].kind = "payment"
            => posted[i].day <= day

PassAllowed(l, day) ==
    /\ Unpaid(l, day) > 0
    /\ ~\E i \in DOMAIN posted :
        /\ posted[i].loan = l /\ posted[i].live
        /\ posted[i].day = day /\ posted[i].kind = "pass"

-----------------------------------------------------------------------------
(* Promise progress.                                                       *)

DeadlineStatus(p) ==
    IF p.remaining = 0 THEN "kept"
    ELSE IF p.remaining < p.amount THEN "partially_kept" ELSE "not_kept"

\* Mutant: promises are left open by a payment that comes after their day.
CloseNever(ps, day) == ps

CloseOverdue(ps, day) ==
    [i \in DOMAIN ps |->
        IF ps[i].status = "pending" /\ ps[i].deadline < day
        THEN [ps[i] EXCEPT !.status = DeadlineStatus(ps[i])] ELSE ps[i]]

\* Mutant: every record of an installment takes its whole money.
ReduceEach(rs, l, day, spread) ==
    [i \in DOMAIN obligations |->
        LET o == obligations[i]
        IN  IF o.loan = l THEN [o EXCEPT !.remaining = @ - spread[o.day]] ELSE o]

\* Money of an installment goes to its records in turn; on the legacy path the
\* records of the day are set to what the day still owes.
Reduce(rs, l, day, spread) ==
    [i \in DOMAIN obligations |->
        LET o == obligations[i]
            before == MapThenSumSet(LAMBDA j : obligations[j].remaining,
                        {j \in 1 .. i - 1 : obligations[j].loan = l /\ obligations[j].day = o.day})
            due == AtLeast0(Least(Daily[l] - AppliedIn(rs, l, day), BalanceIn(rs, l)))
        IN  IF o.loan # l THEN o
            ELSE IF l \in ContractLoans
            THEN [o EXCEPT !.remaining = @ - AtLeast0(Least(@, spread[o.day] - before))]
            ELSE IF o.day = day THEN [o EXCEPT !.remaining = Least(@, due)] ELSE o]

\* Mutant: the progress counts from what is left, not from what was owed.
LeftPromisedOfRemaining(p, os) == p.amount - Least(p.amount, os[p.obligation].remaining)

LeftPromised(p, os) ==
    p.amount - Least(p.amount, os[p.obligation].original - os[p.obligation].remaining)

Reconcile(ps, os) ==
    [i \in DOMAIN ps |->
        IF ps[i].status = "pending" /\ os[ps[i].obligation] # obligations[ps[i].obligation]
        THEN LET left == LeftPromised(ps[i], os)
             IN  [ps[i] EXCEPT !.remaining = left,
                               !.status = IF left = 0 THEN "kept" ELSE "pending"]
        ELSE ps[i]]

-----------------------------------------------------------------------------
(* Past Due capture.                                                       *)

\* What the day leaves unpaid and no open record says yet.
Shortfall(rs, os, l, day) ==
    IF \E i \in DOMAIN os : os[i].loan = l /\ os[i].day = day /\ os[i].remaining > 0 THEN 0
    ELSE AtLeast0(IF l \in ContractLoans THEN Daily[l] - AppliedIn(rs, l, day)
                  ELSE Least(Daily[l] - AppliedIn(rs, l, day), BalanceIn(rs, l)))

Record(os, l, day, amount, source) ==
    Append(os, [loan |-> l, day |-> day, original |-> amount,
                remaining |-> amount, source |-> source])

MayPromise(ps, os, due, amount, deadline, day) ==
    /\ amount <= due /\ deadline >= day
    /\ \A i \in DOMAIN ps : ps[i].status # "pending"

NewPromise(o, amount, deadline) ==
    [obligation |-> o, amount |-> amount, deadline |-> deadline,
     remaining |-> amount, status |-> "pending"]

\* With an amount of 0 the reason is another one and nothing is promised.
Promise(ps, os, due, amount, deadline, day) ==
    IF amount = 0 THEN promises' = ps
    ELSE /\ MayPromise(ps, os, due, amount, deadline, day)
         /\ promises' = Append(ps, NewPromise(Len(os), amount, deadline))

-----------------------------------------------------------------------------
(* Operations.                                                             *)

PostReceipt(l, day, kind, cash, promised, deadline) ==
    LET spread == IF kind = "pass" THEN [d \in Days |-> 0] ELSE Spread(l, day, cash)
        rs == Append(posted, [loan |-> l, day |-> day, kind |-> kind, spread |-> spread,
                                live |-> TRUE, linked |-> FALSE])
        closed == CloseOverdue(promises, day)
        reduced == IF kind = "pass" THEN obligations ELSE Reduce(rs, l, day, spread)
        followed == Reconcile(closed, reduced)
        due == Shortfall(rs, reduced, l, day)
    IN  /\ promised = 0 => deadline = day
        /\ InOrder(l, day)
        /\ IF kind = "pass" THEN cash = 0 /\ PassAllowed(l, day)
                            ELSE cash > 0 /\ cash <= BalanceIn(posted, l)
        /\ IF due = 0
           THEN /\ promised = 0
                /\ obligations' = reduced /\ promises' = followed
           ELSE LET os == Record(reduced, l, day, due, Len(rs))
                IN  /\ obligations' = os
                    /\ Promise(followed, os, due, promised, deadline, day)
        /\ posted' = [rs EXCEPT ![Len(rs)].linked =
                            obligations' # obligations \/ promises' # promises]
        /\ UNCHANGED followups

\* The request a collector sends for a receipt it recorded: any amount, and any
\* day up to the day of the receipt.
AddFollowup(i, day, amount, promised, deadline) ==
    LET r == posted[i]
        os == Record(obligations, r.loan, day, amount, i)
    IN  /\ followups < MaxFollowups
        /\ (promised = 0 => deadline = day)
        /\ r.live /\ day <= r.day
        /\ ~\E o \in DOMAIN obligations : obligations[o].source = i /\ obligations[o].day = day
        /\ obligations' = os
        /\ Promise(promises, os, amount, promised, deadline, r.day)
        /\ followups' = followups + 1
        /\ UNCHANGED posted

\* Only the last change of the loan, and none that moved linked records.
Voidable(i) ==
    /\ posted[i].live /\ ~posted[i].linked
    /\ \A j \in DOMAIN posted : j > i => posted[j].loan # posted[i].loan

Void(i) ==
    /\ Voidable(i)
    /\ posted' = [posted EXCEPT ![i].live = FALSE]
    /\ UNCHANGED <<obligations, promises, followups>>

-----------------------------------------------------------------------------
PromisesInit == posted = <<>> /\ obligations = <<>> /\ promises = <<>> /\ followups = 0

PromisesNext ==
    \/ /\ Len(posted) + followups < MaxReceipts
       /\ \/ \E l \in Loans, day \in Days, kind \in {"payment", "pass"},
                cash, promised \in PastDueAmounts \cup {0}, deadline \in Days :
                PostReceipt(l, day, kind, cash, promised, deadline)
          \/ \E i \in DOMAIN posted, day \in Days, amount \in PastDueAmounts,
                promised \in PastDueAmounts \cup {0}, deadline \in Days :
                AddFollowup(i, day, amount, promised, deadline)
    \/ \E i \in DOMAIN posted : Void(i)

PromisesSpec == PromisesInit /\ [][PromisesNext]_promiseVars

-----------------------------------------------------------------------------
(* Type invariant.                                                         *)
PromisesTypeOK ==
    /\ \A i \in DOMAIN posted : posted[i].spread \in [Days -> Nat]
    /\ \A i \in DOMAIN obligations : obligations[i].remaining \in 0 .. obligations[i].original
    /\ \A i \in DOMAIN promises : promises[i].remaining \in 0 .. promises[i].amount

\* A borrower has one pending promise, over all loans
\* (collection_past_due_capture._create_initial_promise).
OnePendingPromise == Cardinality({i \in DOMAIN promises : promises[i].status = "pending"}) <= 1

\* What a pending promise still asks for is what its Past Due record still owes
\* of it, after every receipt that reached the record
\* (past_due_promise_progress._reconcile_pending_promises).
PendingFollowsDue ==
    \A i \in DOMAIN promises : promises[i].status = "pending" =>
        /\ LET p == promises[i]
               o == obligations[p.obligation]
           IN  p.remaining = p.amount - Least(p.amount, o.original - o.remaining)
        /\ promises[i].remaining > 0

\* A closed promise says how much was paid by its day, and no later receipt
\* rewrites it (class comment of PastDuePromiseProgress, lines 57 to 60).
JudgedOnce ==
    \A i \in DOMAIN promises :
        promises[i].status # "pending" => promises'[i] = promises[i]

\* A promise is kept by receipts of its day or before, and judged missed only
\* by receipts of a later day (lines 57 to 60).
KeptInTime ==
    \A i \in DOMAIN promises :
        promises[i].status = "pending" /\ promises'[i].status # "pending" =>
            (promises'[i].status = "kept")
                <=> (posted'[Len(posted')].day <= promises[i].deadline)

\* What was captured as Past Due is what the day still lacks: exactly on the
\* contract path, at most on the legacy path (collection_past_due_capture).
DueIsUnpaid ==
    \A i \in DOMAIN obligations :
        LET o == obligations[i] IN
        /\ o.remaining <= Unpaid(o.loan, o.day)
        /\ o.loan \in ContractLoans => o.remaining = Unpaid(o.loan, o.day)

\* One pending promise, which asks for what its Past Due record still owes of it;
\* and where no collector recorded one by hand, the records say what is unpaid.
PromisesFollowDue ==
    OnePendingPromise /\ PendingFollowsDue /\ (followups = 0 => DueIsUnpaid)

\* A promise is judged by the receipt that ends it, once.
PromiseIsJudgedOnce == [][JudgedOnce /\ KeptInTime]_promiseVars
=============================================================================
