-------------------------- MODULE CombinedCollection --------------------------
(***************************************************************************)
(* One cash total for the Regular and the 7x7 loan of a client.  The phone  *)
(* builds a draft from its route, has the server preview the split, and     *)
(* submits it under one key; a request may arrive twice or its answer be    *)
(* lost, and the draft is kept, in memory, until an answer is certain; it   *)
(* is sent, and sent again, only from a route that offers the payment.  The *)
(* server answers a known key from its record, and otherwise computes the   *)
(* split again under its locks and posts up to three receipts at once.      *)
(* Receipts, passes and voids of other requests come in between.            *)
(*                                                                         *)
(* Cash of a 7x7 loan pays the interest accrued first, then principal; the  *)
(* schedule of each loan asks one installment a day.                        *)
(***************************************************************************)
EXTENDS Integers, Sequences, FiniteSets, FiniteSetsExt

CONSTANTS
    Keys,           \* idempotency keys
    Days,           \* 1 .. the last installment
    Daily,          \* installment of each loan
    Interest,       \* interest a 7x7 loan accrues each day
    Verified,       \* loans with an active verified signed schedule
    Totals,         \* cash received
    MaxReceipts     \* bound: receipts of other requests, and voids

CombinedLoans == {"seven", "regular"}
ExtraChoices == {"none", "regular_advance", "regular_reduction", "seven_advance", "seven_principal"}

\* What the constants must be; a module that gives them values assumes it.
CombinedAssumption ==
    /\ Days = 1 .. Cardinality(Days) /\ Daily \in [CombinedLoans -> Nat \ {0}]
    /\ Interest \in Nat /\ Interest < Daily["seven"]
    /\ Verified \subseteq CombinedLoans /\ Totals \subseteq Nat \ {0} /\ MaxReceipts \in Nat

VARIABLES
    day,            \* business date
    receipts,       \* collection_transactions, in order
    version,        \* state_version of each loan
    saved,          \* gilbic_combined_collection_idempotency: key -> body and legs
    route,          \* the route the phone loaded: its date, its versions, and whether it
                    \* offers the combined payment
    draft,          \* the draft the phone holds, or NoDraft
    wire,           \* requests that may still reach the server
    answer,         \* what the phone last heard of each key
    others          \* receipts and voids of other requests so far

vars == <<day, receipts, version, saved, route, draft, wire, answer, others>>

NoDraft == [key |-> "no draft"]
NotSaved == [legs |-> <<>>]
NoReview == <<>>
AtLeast0(x) == Max({0, x})
Least(x, y) == Min({x, y})
LastDay == Cardinality(Days)

-----------------------------------------------------------------------------
(* Schedules and balances.                                                 *)

Live(l) == {i \in DOMAIN receipts : receipts[i].live /\ receipts[i].loan = l}
Allocated(l, d) == MapThenSumSet(LAMBDA i : receipts[i].spread[d], Live(l))
Left(l, d) == AtLeast0(Daily[l] - Allocated(l, d))
LeftIn(l, ds) == MapThenSumSet(LAMBDA d : Left(l, d), ds)

\* Principal and interest of a 7x7 loan at the end of a day, interest first.
SevenState ==
    LET cash(d) == MapThenSumSet(LAMBDA i : receipts[i].effective[d], Live("seven"))
        extra(d) == MapThenSumSet(LAMBDA i :
                        IF receipts[i].kind = "seven_principal" /\ receipts[i].day = d
                        THEN receipts[i].amount ELSE 0, Live("seven"))
        f[d \in 0 .. LastDay] ==
            IF d = 0 THEN [principal |-> LastDay * (Daily["seven"] - Interest), interest |-> 0]
            ELSE LET before == f[d - 1]
                     received == cash(d)
                     owed == before.interest + (IF before.principal > 0 THEN Interest ELSE 0)
                     paid == Least(received, owed)
                 IN  [principal |-> before.principal - (received - paid) - extra(d),
                      interest |-> owed - paid]
    IN  f

Balance(l) ==
    IF l = "regular"
    THEN LastDay * Daily[l] - MapThenSumSet(LAMBDA i : receipts[i].amount, Live(l))
    ELSE SevenState[day].principal

PaidOn(l, d) ==
    MapThenSumSet(LAMBDA i : receipts[i].amount, {i \in Live(l) : receipts[i].day = d})

\* What a loan asks through today: its due installments, or without a verified
\* schedule the daily amount less what was paid today.
Collectible(l) ==
    IF l \in Verified THEN LeftIn(l, 1 .. day)
    ELSE AtLeast0(Least(Daily[l] - PaidOn(l, day), Balance(l)))

\* The rows a reviewed split stands on.
Evidence(l) ==
    IF l \in Verified THEN [d \in Days |-> Allocated(l, d)] ELSE <<version[l], Balance(l)>>

\* Cash over installments ds in the order of their days, or the reverse.
Oldest(l, ds, amount) ==
    [d \in Days |-> IF d \notin ds THEN 0
        ELSE AtLeast0(Least(Left(l, d), amount - LeftIn(l, {e \in ds : e < d})))]
Latest(l, ds, amount) ==
    [d \in Days |-> IF d \notin ds THEN 0
        ELSE AtLeast0(Least(Left(l, d), amount - LeftIn(l, {e \in ds : e > d})))]

-----------------------------------------------------------------------------
(* Split and preview.                                                      *)

Plan(cash, seven, regular) ==
    LET s == Least(cash, seven)
        r == Least(cash - s, regular)
    IN  [seven |-> s, regular |-> r, extra |-> cash - s - r]

\* The receipts a split asks for, in the order they are posted.
\* Mutant: the extra of the Regular loan is left out.
LegsWithoutExtra(plan, choice) ==
    SelectSeq(<<[loan |-> "seven", kind |-> "scheduled", amount |-> plan.seven],
                [loan |-> "regular", kind |-> "scheduled", amount |-> plan.regular],
                [loan |-> "seven", kind |-> choice,
                 amount |-> IF choice \in {"seven_advance", "seven_principal"}
                            THEN plan.extra ELSE 0]>>,
              LAMBDA leg : leg.amount > 0)

Legs(plan, choice) ==
    LET toRegular == choice \in {"regular_advance", "regular_reduction"}
    IN  SelectSeq(<<[loan |-> "seven", kind |-> "scheduled", amount |-> plan.seven],
                    [loan |-> "regular", kind |-> IF toRegular THEN choice ELSE "scheduled",
                     amount |-> plan.regular + IF toRegular THEN plan.extra ELSE 0],
                    [loan |-> "seven", kind |-> choice,
                     amount |-> IF toRegular THEN 0 ELSE plan.extra]>>,
                  LAMBDA leg : leg.amount > 0)

Review(body) ==
    [key |-> body.key, day |-> body.day, cash |-> body.cash, choice |-> body.choice,
     rev |-> body.rev, due |-> [l \in CombinedLoans |-> Collectible(l)],
     evidence |-> [l \in CombinedLoans |-> Evidence(l)]]

\* Versions up to the current one that came from same-day payments only.
SafeChain(l, d, seen) ==
    LET rows == {i \in Live(l) : receipts[i].day = d /\ receipts[i].kind # "pass"
                                 /\ receipts[i].kind # "seven_advance"
                                 /\ receipts[i].before >= seen}
    IN  \A v \in seen .. version[l] - 1 :
            Cardinality({i \in rows : receipts[i].before = v}) = 1

\* Mutant: any later version is accepted.
RouteIsSafeAhead(l, body) == body.rev[l] <= version[l]

RouteIsSafe(l, body) ==
    \/ body.rev[l] = version[l]
    \/ body.rev[l] < version[l] /\ SafeChain(l, body.day, body.rev[l])

WithinPayoff(body, plan) ==
    LET s == SevenState[day]
    IN  /\ plan.seven <= s.interest + s.principal
        /\ body.choice \in {"regular_advance", "regular_reduction"} =>
             plan.regular + plan.extra <= Balance("regular")
        /\ body.choice = "seven_principal" =>
             plan.seven >= s.interest /\ plan.extra <= s.principal - (plan.seven - s.interest)

\* The preview is refused unless every part of the split can be posted.
Previewed(body, plan) ==
    /\ body.day = day
    /\ \A l \in CombinedLoans : RouteIsSafe(l, body) /\ Balance(l) > 0 /\ Collectible(l) > 0
    /\ plan.extra = 0 => body.choice = "none"
    /\ body.choice \in {"regular_advance", "regular_reduction"} => "regular" \in Verified
    /\ body.choice \in {"seven_advance", "seven_principal"} => "seven" \in Verified
    /\ body.choice = "seven_advance" => plan.extra <= LeftIn("seven", day + 1 .. LastDay)
    /\ WithinPayoff(body, plan)

Today(body) == Plan(body.cash, Collectible("seven"), Collectible("regular"))
Exact(plan) == plan.extra = 0 /\ plan.seven = Collectible("seven")
                /\ plan.regular = Collectible("regular")

Reviewed(body, plan) ==
    IF body.review = NoReview THEN Exact(plan) ELSE body.review = Review(body)

-----------------------------------------------------------------------------
(* Posting.                                                                *)

Receipt(leg, key, before) ==
    [loan |-> leg.loan, kind |-> leg.kind, amount |-> leg.amount, key |-> key, day |-> day,
     before |-> before, live |-> TRUE,
     spread |-> CASE leg.kind = "scheduled" -> Oldest(leg.loan, 1 .. day, leg.amount)
                  [] leg.kind = "regular_advance" -> Oldest(leg.loan, Days, leg.amount)
                  [] leg.kind = "seven_advance" -> Oldest(leg.loan, day + 1 .. LastDay, leg.amount)
                  [] leg.kind = "regular_reduction" ->
                        LET due == Least(leg.amount, Collectible(leg.loan))
                            first == Oldest(leg.loan, 1 .. day, due)
                            last == Latest(leg.loan, day + 1 .. LastDay, leg.amount - due)
                        IN  [d \in Days |-> first[d] + last[d]]
                  [] leg.kind = "seven_principal" -> Latest(leg.loan, day + 1 .. LastDay, leg.amount)
                  [] OTHER -> [d \in Days |-> 0],
     effective |-> IF leg.kind = "seven_advance"
                   THEN Oldest(leg.loan, day + 1 .. LastDay, leg.amount)
                   ELSE [d \in Days |-> IF leg.kind = "scheduled" /\ d = day THEN leg.amount ELSE 0]]

PostLegs(legs, key) ==
    /\ receipts' = receipts \o
         [i \in DOMAIN legs |->
            Receipt(legs[i], key, version[legs[i].loan]
                                    + Cardinality({j \in 1 .. i - 1 : legs[j].loan = legs[i].loan}))]
    /\ version' = [l \in CombinedLoans |-> version[l] + Cardinality({i \in DOMAIN legs : legs[i].loan = l})]

Known(body) == saved[body.key] # NotSaved

AnswerKnown(body) == IF saved[body.key].body = body THEN "accepted" ELSE "refused"

-----------------------------------------------------------------------------
(* Phone.                                                                  *)

\* Today's installment of a loan is open; without a verified schedule, nothing
\* was collected today.
Payable(l) ==
    IF l \in Verified THEN Left(l, day) > 0 ELSE \A i \in Live(l) : receipts[i].day # day

\* The route offers the combined payment when it shows both loans payable and
\* either may be written: on the phone, by this account, with nothing pending.
LoadRoute ==
    /\ \E writable \in BOOLEAN :
         route' = [day |-> day, rev |-> version,
                   offered |-> writable /\ \A l \in CombinedLoans : Payable(l)]
    /\ UNCHANGED <<day, receipts, version, saved, draft, wire, answer, others>>

\* The server is not reached and a read-only copy is shown, or access is refused,
\* which discards the draft too.
LoadFails ==
    /\ route' = [route EXCEPT !.offered = FALSE]
    /\ draft' \in {draft, NoDraft}
    /\ UNCHANGED <<day, receipts, version, saved, wire, answer, others>>

\* A fresh key; the preview of the server is kept as the reviewed split, or the
\* request is one of the old exact kind that carries none.
Draft(k, cash, choice, reviewed) ==
    LET body == [key |-> k, cash |-> cash, choice |-> choice, day |-> route.day,
                 rev |-> route.rev, review |-> NoReview]
    IN  /\ route.offered
        /\ draft = NoDraft /\ answer[k] = "unused"
        /\ Previewed(body, Today(body))
        /\ draft' = IF reviewed THEN [body EXCEPT !.review = Review(body)] ELSE body
        /\ answer' = [answer EXCEPT ![k] = "unknown"]
        /\ UNCHANGED <<day, receipts, version, saved, route, wire, others>>

\* The draft, a retained one too, is sent while the route offers the payment.
Send ==
    /\ draft # NoDraft
    /\ route.offered
    /\ wire' = wire \cup {draft}
    /\ UNCHANGED <<day, receipts, version, saved, route, draft, answer, others>>

\* The draft is kept while the result is uncertain, and lost with the page.
Restart ==
    /\ draft # NoDraft
    /\ draft' = NoDraft
    /\ route' = [route EXCEPT !.offered = FALSE]
    /\ UNCHANGED <<day, receipts, version, saved, wire, answer, others>>

\* Mutant: a refusal leaves the draft.
HearAccepted(body, outcome, lost) ==
    IF lost THEN UNCHANGED <<draft, answer>>
    ELSE /\ answer' = [answer EXCEPT ![body.key] = outcome]
         /\ draft' = IF draft = body /\ outcome = "accepted" THEN NoDraft ELSE draft

\* An answer that reaches the phone ends the draft of its key.
Hear(body, outcome, lost) ==
    IF lost THEN UNCHANGED <<draft, answer>>
    ELSE /\ answer' = [answer EXCEPT ![body.key] = outcome]
         /\ draft' = IF draft = body THEN NoDraft ELSE draft

-----------------------------------------------------------------------------
(* Server.                                                                 *)

\* Of the request the network keeps a second copy, or not.
Arrive(body, again) ==
    /\ body \in wire
    /\ wire' = IF again THEN wire ELSE wire \ {body}

Replay(body, again, lost) ==
    /\ Arrive(body, again) /\ Known(body)
    /\ Hear(body, AnswerKnown(body), lost)
    /\ UNCHANGED <<day, receipts, version, saved, route, others>>

Acceptable(body) ==
    LET plan == Today(body)
    IN  /\ Previewed(body, plan)
        /\ ~(plan.extra > 0 /\ body.choice = "none")
        /\ Reviewed(body, plan)

Submit(body, again, lost) ==
    /\ Arrive(body, again) /\ ~Known(body) /\ Acceptable(body)
    /\ \E legs \in {Legs(Today(body), body.choice)} :
         /\ PostLegs(legs, body.key)
         /\ saved' = [saved EXCEPT ![body.key] = [body |-> body, legs |-> legs]]
    /\ Hear(body, "accepted", lost)
    /\ UNCHANGED <<day, route, others>>

Refuse(body, again, lost) ==
    /\ Arrive(body, again) /\ ~Known(body) /\ ~Acceptable(body)
    /\ Hear(body, "refused", lost)
    /\ UNCHANGED <<day, receipts, version, saved, route, others>>

\* A payment or a pass recorded by itself.
Other(l, kind, amount) ==
    /\ others < MaxReceipts /\ others' = others + 1
    /\ IF kind = "pass" THEN amount = 0 /\ PaidOn(l, day) = 0
       ELSE amount > 0 /\ amount <= Collectible(l)
    /\ l = "seven" => amount <= SevenState[day].interest + SevenState[day].principal
    /\ PostLegs(<<[loan |-> l, kind |-> kind, amount |-> amount]>>, "other")
    /\ UNCHANGED <<day, saved, route, draft, wire, answer>>

\* Only the last change of the loan is voided.
Void(i) ==
    LET l == receipts[i].loan
    IN  /\ others < MaxReceipts /\ others' = others + 1
        /\ receipts[i].live /\ receipts[i].before + 1 = version[l]
        /\ receipts' = [receipts EXCEPT ![i].live = FALSE]
        /\ version' = [version EXCEPT ![l] = @ + 1]
        /\ UNCHANGED <<day, saved, route, draft, wire, answer>>

Midnight ==
    /\ day < LastDay /\ day' = day + 1
    /\ UNCHANGED <<receipts, version, saved, route, draft, wire, answer, others>>

Init ==
    /\ day = 1 /\ receipts = <<>> /\ version = [l \in CombinedLoans |-> 0]
    /\ saved = [k \in Keys |-> NotSaved]
    /\ route = [day |-> 1, rev |-> [l \in CombinedLoans |-> 0], offered |-> TRUE]
    /\ draft = NoDraft /\ wire = {} /\ answer = [k \in Keys |-> "unused"] /\ others = 0

Next ==
    \/ LoadRoute \/ LoadFails \/ Send \/ Restart \/ Midnight
    \/ \E k \in Keys, cash \in Totals, choice \in ExtraChoices, reviewed \in BOOLEAN :
          Draft(k, cash, choice, reviewed)
    \/ \E body \in wire, again, lost \in BOOLEAN :
          Replay(body, again, lost) \/ Submit(body, again, lost) \/ Refuse(body, again, lost)
    \/ \E l \in CombinedLoans, kind \in {"scheduled", "pass"}, amount \in Totals \cup {0} :
          Other(l, kind, amount)
    \/ \E i \in DOMAIN receipts : Void(i)

Spec == Init /\ [][Next]_vars

\* A request of key k is answered and the answer reaches the phone.
Served(k) == \E body \in wire, again \in BOOLEAN :
    /\ body.key = k
    /\ Replay(body, again, FALSE) \/ Submit(body, again, FALSE) \/ Refuse(body, again, FALSE)

\* The collector taps whenever the phone offers it, and what is sent again and again
\* is answered.  Nobody is bound to load the route, nor the route to offer anything.
FairSpec == Spec /\ SF_vars(Send) /\ \A k \in Keys : SF_vars(Served(k))

-----------------------------------------------------------------------------
(* Type invariant.                                                         *)
TypeOK ==
    /\ day \in Days /\ version \in [CombinedLoans -> Nat] /\ others \in 0 .. MaxReceipts
    /\ \A l \in CombinedLoans : Balance(l) \in Nat
    /\ route \in [day : Days, rev : [CombinedLoans -> Nat], offered : BOOLEAN]
    /\ answer \in [Keys -> {"unused", "unknown", "accepted", "refused"}]
    /\ \A i \in DOMAIN receipts : receipts[i].loan \in CombinedLoans /\ receipts[i].amount \in Nat

OfKey(k) == {i \in DOMAIN receipts : receipts[i].key = k}

\* Every cash total is posted once and whole, however often its request arrives
\* (_post_reviewed_components, submit_combined_payment).
CashPostedOnce ==
    \A k \in Keys :
        MapThenSumSet(LAMBDA i : receipts[i].amount, OfKey(k)) =
            IF saved[k] = NotSaved THEN 0 ELSE saved[k].body.cash

\* A split the collector reviewed is posted as it was reviewed, and one that was
\* not reviewed leaves nothing due (submit_combined_payment:1754 to 1780).
ReviewedIsPosted ==
    \A k \in Keys : saved'[k] # saved[k] =>
        LET b == saved'[k].body
        IN  IF b.review = NoReview
            THEN \A l \in CombinedLoans : Collectible(l)' = 0
            ELSE /\ b.review.evidence = [l \in CombinedLoans |-> Evidence(l)]
                 /\ saved'[k].legs = Legs(Plan(b.cash, b.review.due["seven"], b.review.due["regular"]),
                                          b.choice)

\* Cash clears the 7x7 obligation, then the Regular one, and only what remains
\* is extra (_plan_combined_allocation, "Management's frozen order").
FrozenOrder ==
    \A k \in Keys : saved'[k] # saved[k] =>
        LET legs == saved'[k].legs
        IN  /\ (\E i \in DOMAIN legs : legs[i].loan = "regular") => Collectible("seven")' = 0
            /\ (\E i \in DOMAIN legs : legs[i].kind # "scheduled") =>
                  \A l \in CombinedLoans : Collectible(l)' = 0

\* Between the route the collector saw and the receipts there were only same-day
\* payments that still stand (_same_day_payment_revision_chain_is_safe).
NothingMissed ==
    \A k \in Keys : saved'[k] # saved[k] =>
        \A l \in CombinedLoans :
            LET since == {i \in DOMAIN receipts : receipts[i].loan = l
                                                  /\ receipts[i].before >= saved'[k].body.rev[l]}
            IN  /\ \A i \in since : receipts[i].live /\ receipts[i].kind # "pass"
                                    /\ receipts[i].day = day
                /\ version[l] = saved'[k].body.rev[l] + Cardinality(since)

\* A request that was accepted is never answered otherwise, on a later day either
\* (_replay_or_conflict).
AcceptedStays ==
    \A k \in Keys : saved[k] # NotSaved => answer'[k] \in {answer[k], "accepted"}

PostedAsReviewed == ReviewedIsPosted /\ FrozenOrder /\ NothingMissed /\ AcceptedStays

\* While the route keeps offering the payment, a retained draft gets its answer: its
\* own receipts or a refusal, whatever was posted since (_payCombined).
DraftSettles == []<>route.offered => ((draft # NoDraft) ~> (draft = NoDraft))
=============================================================================
