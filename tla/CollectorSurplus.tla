-------------------------- MODULE CollectorSurplus --------------------------
(***************************************************************************)
(* Counted settlement of remittances and what follows from a count that    *)
(* does not match: a short count may leave disputed cash with the          *)
(* receiver, an excess is identified, credited to the collector, and       *)
(* returned or applied to a later remittance.                              *)
(*                                                                         *)
(* Every command runs in one transaction that holds the account and the    *)
(* rows it changes and compares their versions, so a command is one step;  *)
(* a repeated command answers with its stored outcome and changes nothing. *)
(* An outgoing payment is the exception: it is recorded although its link  *)
(* to the action is refused, and a later command may try the link again.   *)
(***************************************************************************)
EXTENDS Integers, FiniteSets, FiniteSetsExt

CONSTANTS
    Collectors,     \* also the identities of their opening anchors
    Remittances,    \* submitted remittances
    CollectorOf,    \* collector of each remittance
    Gross, Refund,  \* its receipts, and the refund lines it carries
    Counts,         \* identities of counts, and of the exceptions of short ones
    Credits,        \* identities of recognised credits
    Actions,        \* identities of returns and applications, with their request
    Refs,           \* references of outgoing payments
    Entered,        \* amounts a person may enter
    OpeningAmount   \* cash of the active opening of the account

\* What the constants must be; a module that gives them values assumes it.
SurplusAssumption ==
    /\ IsFiniteSet(Collectors) /\ IsFiniteSet(Credits) /\ IsFiniteSet(Actions)
    /\ Collectors \cap Remittances = {} /\ Credits \cap Counts = {}
    /\ 0 \notin Credits \cup Counts \cup Actions \cup Refs \cup Collectors \cup Remittances
    /\ \A m \in Remittances : /\ CollectorOf[m] \in Collectors
                              /\ Refund[m] \in Nat /\ Gross[m] - Refund[m] \in Nat
    /\ Entered \subseteq Nat \ {0} /\ OpeningAmount \in Nat

VARIABLES
    remitted,       \* status of each remittance
    counts,         \* recorded counts
    exceptions,     \* disputed cash kept from a short count
    settlements,    \* the count each accepted remittance was settled with
    cases,          \* excess of a settlement, or of an opening, not identified yet
    credits,        \* recognised credits
    actions,        \* requests, and the returns and applications approved on them
    payments,       \* outgoing payments recorded for actions
    anchors         \* obligations found in the opening cash

surplusVars == <<remitted, counts, exceptions, settlements, cases, credits, actions,
                 payments, anchors>>

NoCount == [remittance |-> 0, counted |-> 0, application |-> 0, early |-> FALSE]
NoException == [retained |-> 0, returned |-> 0, reserved |-> 0]
NoCredit == [case |-> 0, recognized |-> 0, returned |-> 0, applied |-> 0,
             reserved |-> 0, frozen |-> FALSE, opening |-> FALSE]
NoAction == [kind |-> "none", target |-> 0, remittance |-> 0, amount |-> 0,
             status |-> "none", payment |-> 0, ack |-> "none", reversed |-> 0]
NoPayment == [action |-> 0, amount |-> 0, linked |-> FALSE, revised |-> FALSE]
NoAnchor == [kind |-> "none", amount |-> 0, status |-> "none"]

Cases == Remittances \cup Collectors
Sum(F(_), S) == MapThenSumSet(F, S)

-----------------------------------------------------------------------------
(* Capacity of a credit and of disputed cash.                              *)

Outstanding(c) == credits[c].recognized - credits[c].returned - credits[c].applied
Available(c) == Outstanding(c) - credits[c].reserved
Holder(c) == IF credits[c].case \in Remittances THEN CollectorOf[credits[c].case]
                                                ELSE credits[c].case

Held(n) == exceptions[n].retained - exceptions[n].returned
Disputed(m) == \E n \in Counts : counts[n].remittance = m /\ Held(n) > 0

ChangeCredit(c, reserved, returned, applied) ==
    LET new == [credits EXCEPT ![c].reserved = @ + reserved,
                               ![c].returned = @ + returned,
                               ![c].applied = @ + applied]
    IN  /\ ~credits[c].frozen
        /\ Available(c) - reserved - returned - applied >= 0
        /\ credits' = new

ChangeException(n, reserved, returned) ==
    /\ Held(n) - returned - exceptions[n].reserved - reserved >= 0
    /\ exceptions' = [exceptions EXCEPT ![n].reserved = @ + reserved,
                                        ![n].returned = @ + returned]

\* What an action changes, according to what it acts on.
ChangeTarget(k, reserved, returned) ==
    IF actions[k].kind = "exception_return"
    THEN ChangeException(actions[k].target, reserved, returned) /\ UNCHANGED credits
    ELSE ChangeCredit(actions[k].target, reserved, returned, 0) /\ UNCHANGED exceptions

-----------------------------------------------------------------------------
(* Counting and accepting a remittance.                                    *)

CanCount(m) == remitted[m] = "submitted" /\ ~Disputed(m)

\* An application reserved for the remittance, on a credit that is in order.
Selectable(k, m) ==
    /\ actions[k].kind = "application" /\ actions[k].status = "reserved"
    /\ actions[k].remittance = m
    /\ ~credits[actions[k].target].frozen

Applied(k) == IF k = 0 THEN 0 ELSE actions[k].amount

Required(m, k) == Gross[m] - Refund[m] - Applied(k)

Count(n, m, amount, k, early) ==
    /\ counts[n] = NoCount /\ CanCount(m)
    /\ k # 0 => Selectable(k, m)
    /\ counts' = [counts EXCEPT ![n] = [remittance |-> m, counted |-> amount,
                                        application |-> k, early |-> early]]
    /\ UNCHANGED <<remitted, exceptions, settlements, cases, credits, actions,
                   payments, anchors>>

Difference(n) == counts[n].counted - Required(counts[n].remittance, counts[n].application)

\* The digest of the count is still that of its source and its application.
Current(n) ==
    /\ counts[n] # NoCount /\ CanCount(counts[n].remittance)
    /\ counts[n].application # 0 => Selectable(counts[n].application, counts[n].remittance)

\* The holder of the cash of a short count keeps part of it.
Retain(n, amount) ==
    /\ Current(n) /\ Difference(n) < 0
    /\ exceptions[n] = NoException
    /\ amount <= counts[n].counted
    /\ exceptions' = [exceptions EXCEPT ![n].retained = amount]
    /\ UNCHANGED <<remitted, counts, settlements, cases, credits, actions,
                   payments, anchors>>

Consume(k) ==
    /\ ChangeCredit(actions[k].target, -actions[k].amount, 0, actions[k].amount)
    /\ actions' = [actions EXCEPT ![k].status = "applied"]

Accept(n) ==
    LET m == counts[n].remittance
        k == counts[n].application
    IN  /\ Current(n) /\ Difference(n) >= 0
        /\ settlements' = [settlements EXCEPT ![m] = n]
        /\ cases' = [cases EXCEPT ![m] = Difference(n)]
        /\ IF k = 0 THEN UNCHANGED <<credits, actions>> ELSE Consume(k)
        /\ remitted' = [remitted EXCEPT ![m] = "received"]
        /\ UNCHANGED <<counts, exceptions, payments, anchors>>

\* Cash that is still held cannot be said to be back with the collector.
RejectRemittance(m) ==
    /\ remitted[m] = "submitted" /\ ~Disputed(m)
    /\ remitted' = [remitted EXCEPT ![m] = "rejected"]
    /\ UNCHANGED <<counts, exceptions, settlements, cases, credits, actions,
                   payments, anchors>>

-----------------------------------------------------------------------------
(* Credits.                                                                *)

NewCredit(case, amount, opening) ==
    [NoCredit EXCEPT !.case = case, !.recognized = amount, !.opening = opening]

Recognize(c, case, amount) ==
    /\ credits[c] = NoCredit /\ amount <= cases[case]
    /\ cases' = [cases EXCEPT ![case] = @ - amount]
    /\ credits' = [credits EXCEPT ![c] = NewCredit(case, amount, FALSE)]
    /\ UNCHANGED <<remitted, counts, exceptions, settlements, actions, payments,
                   anchors>>

\* The source of a credit that was used in any way turns out wrong.
Freeze(c) ==
    /\ ~credits[c].frozen
    /\ credits[c].returned + credits[c].applied + credits[c].reserved > 0
    /\ credits' = [credits EXCEPT ![c].frozen = TRUE]
    /\ UNCHANGED <<remitted, counts, exceptions, settlements, cases, actions,
                   payments, anchors>>

OpeningRoom(w, amount) ==
    amount + Sum(LAMBDA v : anchors[v].amount, Collectors \ {w}) <= OpeningAmount

\* No settlement of the collector was counted before the cutoff.
NoOverlap(w) ==
    \A m \in Remittances :
        settlements[m] # 0 /\ CollectorOf[m] = w => ~counts[settlements[m]].early

PrepareAnchor(w, kind, amount) ==
    /\ anchors[w] = NoAnchor /\ NoOverlap(w) /\ OpeningRoom(w, amount)
    /\ anchors' = [anchors EXCEPT ![w] = [kind |-> kind, amount |-> amount, status |-> "draft"]]
    /\ UNCHANGED <<remitted, counts, exceptions, settlements, cases, credits,
                   actions, payments>>

ActivateAnchor(w, c) ==
    /\ anchors[w].status = "draft" /\ NoOverlap(w) /\ OpeningRoom(w, anchors[w].amount)
    /\ anchors' = [anchors EXCEPT ![w].status = "active"]
    /\ IF anchors[w].kind = "pending_excess"
       THEN cases' = [cases EXCEPT ![w] = anchors[w].amount] /\ UNCHANGED credits
       ELSE /\ credits[c] = NoCredit
            /\ credits' = [credits EXCEPT ![c] = NewCredit(w, anchors[w].amount, TRUE)]
            /\ UNCHANGED cases
    /\ UNCHANGED <<remitted, counts, exceptions, settlements, actions, payments>>

-----------------------------------------------------------------------------
(* Returns and applications.                                               *)

Request(k, kind, c, m, amount) ==
    /\ actions[k] = NoAction
    /\ ~credits[c].frozen /\ amount <= Available(c)
    /\ IF kind = "return" THEN m = 0
       ELSE m # 0 /\ remitted[m] = "submitted" /\ CollectorOf[m] = Holder(c)
    /\ actions' = [actions EXCEPT ![k] = [NoAction EXCEPT !.kind = kind, !.target = c,
                        !.remittance = m, !.amount = amount, !.status = "requested"]]
    /\ UNCHANGED <<remitted, counts, exceptions, settlements, cases, credits,
                   payments, anchors>>

Status(k, status) == actions' = [actions EXCEPT ![k].status = status]

PrepareReturn(k) ==
    /\ actions[k].kind = "return" /\ actions[k].status = "requested"
    /\ ChangeCredit(actions[k].target, actions[k].amount, 0, 0)
    /\ Status(k, "reserved")
    /\ UNCHANGED <<remitted, counts, exceptions, settlements, cases, payments, anchors>>

\* No refunds or disputes, and no other application of the remittance.
Applicable(k, m) ==
    /\ CanCount(m)
    /\ Refund[m] = 0 /\ actions[k].amount <= Gross[m]
    /\ \A j \in Actions \ {k} :
        actions[j].kind = "application" /\ actions[j].remittance = m
            => actions[j].status \in {"requested", "cancelled"}

PrepareApplication(k) ==
    /\ actions[k].kind = "application" /\ actions[k].status = "requested"
    /\ ~credits[actions[k].target].opening
    /\ Applicable(k, actions[k].remittance)
    /\ ChangeCredit(actions[k].target, actions[k].amount, 0, 0)
    /\ Status(k, "reserved")
    /\ UNCHANGED <<remitted, counts, exceptions, settlements, cases, payments, anchors>>

PrepareExceptionReturn(k, n, amount) ==
    /\ actions[k] = NoAction /\ exceptions[n] # NoException
    /\ ChangeException(n, amount, 0)
    /\ actions' = [actions EXCEPT ![k] = [NoAction EXCEPT !.kind = "exception_return",
                        !.target = n, !.amount = amount, !.status = "reserved"]]
    /\ UNCHANGED <<remitted, counts, settlements, cases, credits, payments, anchors>>

PaidFor(k) == {e \in Refs : payments[e].action = k}

Cancellable(k) == actions[k].status = "reserved" /\ PaidFor(k) = {}

Cancel(k) ==
    /\ Cancellable(k)
    /\ ChangeTarget(k, -actions[k].amount, 0)
    /\ Status(k, "cancelled")
    /\ UNCHANGED <<remitted, counts, settlements, cases, payments, anchors>>

\* One payment per action and one action per payment; a repetition must match.
Payable(k, e, amount) ==
    /\ actions[k].kind # "application" /\ actions[k].status = "reserved"
    /\ PaidFor(k) \subseteq {e}
    /\ payments[e].action \in {0, k}
    /\ payments[e] # NoPayment => payments[e].amount = amount /\ ~payments[e].revised

Links(k, amount) ==
    /\ amount = actions[k].amount
    /\ actions[k].kind = "return" => ~credits[actions[k].target].frozen

\* The payment is recorded whether it links or not.
Pay(k, e, amount) ==
    /\ Payable(k, e, amount)
    /\ payments' = [payments EXCEPT ![e] = [NoPayment EXCEPT
                        !.action = k, !.amount = amount, !.linked = Links(k, amount)]]
    /\ IF Links(k, amount)
       THEN actions' = [actions EXCEPT ![k].status = "debited", ![k].payment = e]
       ELSE UNCHANGED actions
    /\ UNCHANGED <<remitted, counts, exceptions, settlements, cases, credits, anchors>>

\* A payment no action claims is corrected.
Correct(e) ==
    /\ payments[e] # NoPayment /\ ~payments[e].linked
    /\ payments' = [payments EXCEPT ![e].revised = TRUE]
    /\ UNCHANGED <<remitted, counts, exceptions, settlements, cases, credits,
                   actions, anchors>>

Acknowledge(k, answer) ==
    /\ actions[k].status = "debited"
    /\ actions' = [actions EXCEPT ![k].ack = answer]
    /\ UNCHANGED <<remitted, counts, exceptions, settlements, cases, credits,
                   payments, anchors>>

\* Mutant: what was reserved for the return stays reserved after it is paid.
SettleKeepingReserved(k) ==
    /\ actions[k].status = "debited" /\ actions[k].ack = "received"
    /\ ~payments[actions[k].payment].revised
    /\ ChangeTarget(k, 0, actions[k].amount)
    /\ Status(k, "paid")
    /\ UNCHANGED <<remitted, counts, settlements, cases, payments, anchors>>

Settle(k) ==
    /\ actions[k].status = "debited" /\ actions[k].ack = "received"
    /\ ~payments[actions[k].payment].revised
    /\ ChangeTarget(k, -actions[k].amount, actions[k].amount)
    /\ Status(k, "paid")
    /\ UNCHANGED <<remitted, counts, settlements, cases, payments, anchors>>

LeftToReverse(k) == actions[k].amount - actions[k].reversed

\* Part of a return comes back as an incoming payment of its own.
ReverseReturn(k, amount) ==
    /\ actions[k].kind = "return" /\ actions[k].status \in {"paid", "partly_reversed"}
    /\ amount <= LeftToReverse(k)
    /\ ChangeCredit(actions[k].target, 0, -amount, 0)
    /\ actions' = [actions EXCEPT
           ![k].reversed = @ + amount,
           ![k].status = IF amount = LeftToReverse(k) THEN "reversed" ELSE "partly_reversed"]
    /\ UNCHANGED <<remitted, counts, exceptions, settlements, cases, payments, anchors>>

-----------------------------------------------------------------------------
SurplusInit ==
    /\ remitted = [m \in Remittances |-> "submitted"]
    /\ counts = [n \in Counts |-> NoCount]
    /\ exceptions = [n \in Counts |-> NoException]
    /\ settlements = [m \in Remittances |-> 0]
    /\ cases = [s \in Cases |-> 0]
    /\ credits = [c \in Credits |-> NoCredit]
    /\ actions = [k \in Actions |-> NoAction]
    /\ payments = [e \in Refs |-> NoPayment]
    /\ anchors = [w \in Collectors |-> NoAnchor]

SurplusNext ==
    \/ \E n \in Counts, m \in Remittances, amount \in Entered \cup {0},
          k \in Actions \cup {0}, early \in BOOLEAN : Count(n, m, amount, k, early)
    \/ \E n \in Counts, amount \in Entered : Retain(n, amount)
    \/ \E n \in Counts : Accept(n)
    \/ \E m \in Remittances : RejectRemittance(m)
    \/ \E c \in Credits, s \in Cases, amount \in Entered : Recognize(c, s, amount)
    \/ \E c \in Credits : Freeze(c)
    \/ \E w \in Collectors, kind \in {"credit", "pending_excess"}, amount \in Entered :
          PrepareAnchor(w, kind, amount)
    \/ \E w \in Collectors, c \in Credits : ActivateAnchor(w, c)
    \/ \E k \in Actions, kind \in {"return", "application"}, c \in Credits,
          m \in Remittances \cup {0}, amount \in Entered : Request(k, kind, c, m, amount)
    \/ \E k \in Actions : PrepareReturn(k)
    \/ \E k \in Actions : PrepareApplication(k)
    \/ \E k \in Actions, n \in Counts, amount \in Entered : PrepareExceptionReturn(k, n, amount)
    \/ \E k \in Actions : Cancel(k)
    \/ \E k \in Actions, e \in Refs, amount \in Entered : Pay(k, e, amount)
    \/ \E e \in Refs : Correct(e)
    \/ \E k \in Actions, answer \in {"received", "not_received"} : Acknowledge(k, answer)
    \/ \E k \in Actions : Settle(k)
    \/ \E k \in Actions, amount \in Entered : ReverseReturn(k, amount)

SurplusSpec == SurplusInit /\ [][SurplusNext]_surplusVars

-----------------------------------------------------------------------------
(* Type invariant: no capacity goes below zero.                            *)
SurplusTypeOK ==
    /\ remitted \in [Remittances -> {"submitted", "received", "rejected"}]
    /\ \A c \in Credits : /\ Available(c) >= 0
                          /\ {credits[c].reserved, credits[c].returned, credits[c].applied} \subseteq Nat
    /\ \A n \in Counts : Held(n) >= exceptions[n].reserved /\ exceptions[n].reserved >= 0
    /\ \A s \in Cases : cases[s] \in Nat
    /\ \A k \in Actions : actions[k].reversed \in 0 .. actions[k].amount

Pending == {"reserved", "debited"}
Paid == {"paid", "partly_reversed", "reversed"}
On(t, kinds, statuses) ==
    {k \in Actions : /\ actions[k].target = t /\ actions[k].kind \in kinds
                     /\ actions[k].status \in statuses}

\* The columns of a credit and of disputed cash say what their actions add up
\* to, through partial reversals, refused links and cancellations
\* (collector_surplus.credit_change, exception_change).
CapacityFollowsActions ==
    /\ \A c \in Credits :
        /\ credits[c].reserved =
             Sum(LAMBDA k : actions[k].amount, On(c, {"return", "application"}, Pending))
        /\ credits[c].returned =
             Sum(LAMBDA k : actions[k].amount - actions[k].reversed, On(c, {"return"}, Paid))
        /\ credits[c].applied =
             Sum(LAMBDA k : actions[k].amount, On(c, {"application"}, {"applied"}))
    /\ \A n \in Counts :
        /\ exceptions[n].reserved =
             Sum(LAMBDA k : actions[k].amount, On(n, {"exception_return"}, Pending))
        /\ exceptions[n].returned =
             Sum(LAMBDA k : actions[k].amount, On(n, {"exception_return"}, {"paid"}))

\* Accepted custody is covered: what was counted and the credit applied to the
\* remittance pay the receipts less their refunds, and the rest is accounted
\* for as unidentified or as credits (collector_settlement, lines 199 and 369).
SettlementBalances ==
    \A m \in Remittances : settlements[m] # 0 =>
        counts[settlements[m]].counted
          + Sum(LAMBDA k : actions[k].amount,
                {k \in Actions : actions[k].status = "applied" /\ actions[k].remittance = m})
        = Gross[m] - Refund[m] + cases[m]
          + Sum(LAMBDA c : credits[c].recognized, {c \in Credits : credits[c].case = m})

\* A remittance is closed, either way, only when nobody keeps disputed cash of
\* it (collector_settlement.guard_legacy_rejection and preview).
ClosedWithoutDispute ==
    \A m \in Remittances : remitted[m] # "submitted" => ~Disputed(m)

\* Money left the account at most once for an action, never for a cancelled
\* one, and what is linked is exactly what was reserved
\* (collector_surplus.debit_authority, observed_debit and link_debit).
PaidOnce ==
    \A k \in Actions :
        /\ Cardinality(PaidFor(k)) <= 1
        /\ actions[k].status \in {"requested", "cancelled"} => PaidFor(k) = {}
        /\ \A e \in PaidFor(k) : payments[e].linked =>
              /\ actions[k].payment = e /\ payments[e].amount = actions[k].amount
              /\ actions[k].status \in {"debited"} \cup Paid

\* Obligations found in an opening fit in its cash, over all collectors
\* (collector_surplus_resolution.opening_capacity).
OpeningHoldsAnchors ==
    /\ Sum(LAMBDA w : anchors[w].amount, Collectors) <= OpeningAmount
    /\ \A w \in Collectors : anchors[w].status = "active" =>
        cases[w] + Sum(LAMBDA c : credits[c].recognized, {c \in Credits : credits[c].case = w})
            = anchors[w].amount

SurplusBalances == /\ CapacityFollowsActions /\ SettlementBalances /\ ClosedWithoutDispute
                   /\ PaidOnce /\ OpeningHoldsAnchors
=============================================================================
