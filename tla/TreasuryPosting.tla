---------------------------- MODULE TreasuryPosting ----------------------------
(***************************************************************************)
(* Verified recipient-account funds applied to the loans of a client, and   *)
(* what takes receipts back.  An application posts up to three receipts on  *)
(* one or two loans and is reversed as a whole, last receipt first, each    *)
(* void continuing the chain of the one before it.  Collectors post cash    *)
(* and undo their receipts, by requests that may come again after their     *)
(* answer was lost; Management voids; refunds compete for the funds.  A      *)
(* receipt that changed Past Due or promise records is never taken back, nor *)
(* one that reduced a 7x7 principal and whose Refund Due was handed out.     *)
(*                                                                         *)
(* Loan 1 is a 7x7 loan: what exceeds its due is posted by itself.  The      *)
(* others are Regular.                                                     *)
(***************************************************************************)
EXTENDS Integers, Sequences, FiniteSets, FiniteSetsExt, Folds, SequencesExt

CONSTANTS
    Loans, Opening, Daily,  \* the loans, their balances and what each asks a day
    Funds, FundAmount,      \* treasury receipts and the amount of each
    Payments,               \* amounts applied or collected
    Reasons,                \* reasons of an undo
    LastDay,
    MaxReceipts             \* bound: receipts ever posted

Cash == "collector_cash"

\* What the constants must be; a module that gives them values assumes it.
PostingAssumption ==
    /\ 1 \in Loans /\ Opening \in [Loans -> Nat] /\ Daily \in [Loans -> Nat \ {0}]
    /\ Cash \notin Funds /\ FundAmount \in Nat /\ Payments \subseteq Nat \ {0}
    /\ LastDay \in Nat \ {0} /\ MaxReceipts \in Nat

VARIABLES
    day,
    loans,          \* loan -> balance, version (loan_collection_state)
    collected,      \* collection_transactions in order, with their void
    funds,          \* treasury receipt -> applied, refunded, version
    allocations,    \* in order: fund, receipts, active, accounted
    review,         \* the allocation last previewed, or NoReview
    wire,           \* undo requests that may still arrive
    told,           \* undo requests with the answers they were given
    linked,         \* receipts that changed Past Due or promise records
    principal,      \* receipts that reduced the principal of the 7x7 loan
    released        \* those whose Refund Due was handed to the borrower

marks == <<linked, principal, released>>
postingVars == <<day, loans, collected, funds, allocations, review, wire, told, marks>>

NoReview == [parts |-> <<>>]
NotVoided == [balance |-> 0, version |-> 0]
NoUndo == [rev |-> 0, reason |-> "none"]
AtLeast0(x) == Max({0, x})
Least(x, y) == Min({x, y})
Total(rs, ids) == MapThenSumSet(LAMBDA i : rs[i].amount, ids)
LiveOf(rs, f) == {i \in DOMAIN rs : rs[i].live /\ rs[i].fund = f}

-----------------------------------------------------------------------------
(* Posting.                                                                *)

PaidToday(l) == Total(collected, {i \in DOMAIN collected :
    collected[i].live /\ collected[i].loan = l /\ collected[i].day = day})

Due(l) == AtLeast0(Least(loans[l].balance, Daily[l] - PaidToday(l)))

\* Receipts are posted one after another; each keeps the state it replaced.
PostOne(st, part) ==
    [loans |-> [st.loans EXCEPT ![part.loan] =
                    [balance |-> @.balance - part.amount, version |-> @.version + 1]],
     rs |-> Append(st.rs,
        [loan |-> part.loan, day |-> day, fund |-> st.fund, amount |-> part.amount,
         before |-> st.loans[part.loan], live |-> TRUE,
         voided |-> NotVoided, undo |-> NoUndo]),
     fund |-> st.fund]

PostAll(parts, fund) ==
    FoldLeft(PostOne, [loans |-> loans, rs |-> collected, fund |-> fund], parts)

Posted(parts, fund) ==
    /\ Len(collected) + Len(parts) <= MaxReceipts
    /\ loans' = PostAll(parts, fund).loans /\ collected' = PostAll(parts, fund).rs

\* A Regular payment that leaves today unpaid records a Past Due follow-up; one
\* that comes after such a payment reduces its obligation.
Unpaid(part) ==
    part.loan # 1 /\ Due(part.loan) > 0 /\ (part.amount < Due(part.loan) \/ PaidToday(part.loan) > 0)

\* What exceeds the due of the 7x7 loan: an advance, or a principal reduction.
Extra(parts, i) == parts[i].loan = 1 /\ i = Len(parts) /\ (i > 1 \/ Due(1) = 0)

\* The records a posting changes beside the loans.  Any receipt may touch some
\* that are not modelled here: an overdue promise, an older obligation.
Marked(parts) ==
    \E touched \in SUBSET DOMAIN parts, reduces \in BOOLEAN :
        /\ linked' = linked \cup {Len(collected) + i :
                i \in touched \cup {k \in DOMAIN parts : Unpaid(parts[k])}}
        /\ principal' = principal \cup {Len(collected) + i :
                i \in {k \in DOMAIN parts : reduces /\ Extra(parts, k)}}
        /\ UNCHANGED released

Collect(l, amount) ==
    /\ amount <= loans[l].balance
    /\ Posted(<<[loan |-> l, amount |-> amount]>>, Cash)
    /\ Marked(<<[loan |-> l, amount |-> amount]>>)
    /\ UNCHANGED <<day, funds, allocations, review, wire, told>>

-----------------------------------------------------------------------------
(* Application.                                                            *)

\* Mutant: what is left of the balance does not bound the parts.
WithinAny(parts) == Len(parts) > 0

Within(parts) ==
    /\ Len(parts) > 0
    /\ \A l \in Loans :
         MapThenSumSet(LAMBDA i : IF parts[i].loan = l THEN parts[i].amount ELSE 0, DOMAIN parts)
            <= loans[l].balance

\* The parts of an amount over a 7x7 loan, a Regular loan or both, 7x7 first.
Parts(selected, amount) ==
    LET seven == IF 1 \in selected THEN Least(amount, Due(1)) ELSE 0
        regular == CHOOSE l \in selected \ {1} : TRUE
        rest == CASE selected = {1} -> 0
                  [] 1 \notin selected -> amount
                  [] OTHER -> Least(amount - seven, Due(regular))
        part(l, share) == IF share > 0 THEN <<[loan |-> l, amount |-> share]>> ELSE <<>>
    IN  part(1, seven) \o part(regular, rest) \o part(1, amount - seven - rest)

Unspent(f) == FundAmount - funds[f].applied - funds[f].refunded

\* The digest of a preview: the versions it read and the parts it showed.
Digest(f, selected, amount) ==
    [fund |-> f, fundVersion |-> funds[f].version, day |-> day, loans |-> selected,
     versions |-> [l \in selected |-> loans[l].version], amount |-> amount,
     parts |-> Parts(selected, amount)]

Preview(f, selected, amount) ==
    /\ selected # {} /\ (\A l, k \in selected \ {1} : l = k) /\ amount <= Unspent(f)
    /\ Cardinality(selected) > 1 => \A l \in selected : Due(l) > 0
    /\ Within(Parts(selected, amount))
    /\ review' = Digest(f, selected, amount)
    /\ UNCHANGED <<day, loans, collected, funds, allocations, wire, told, marks>>

Current(r) == r = Digest(r.fund, r.loans, r.amount)

Apply ==
    /\ review # NoReview /\ Current(review) /\ review.amount <= Unspent(review.fund)
    /\ Posted(review.parts, review.fund) /\ Marked(review.parts)
    /\ allocations' = Append(allocations,
          [fund |-> review.fund, active |-> TRUE, accounted |-> FALSE,
           ids |-> [i \in 1 .. Len(review.parts) |-> Len(collected) + i]])
    /\ funds' = [funds EXCEPT ![review.fund].applied = @ + review.amount,
                              ![review.fund].version = @ + 1]
    /\ review' = NoReview
    /\ UNCHANGED <<day, wire, told>>

Refund(f, amount) ==
    /\ amount <= Unspent(f)
    /\ funds' = [funds EXCEPT ![f].refunded = @ + amount, ![f].version = @ + 1]
    /\ UNCHANGED <<day, loans, collected, allocations, review, wire, told, marks>>

Account(a) ==
    /\ allocations[a].active /\ ~allocations[a].accounted
    /\ allocations' = [allocations EXCEPT ![a].accounted = TRUE]
    /\ UNCHANGED <<day, loans, collected, funds, review, wire, told, marks>>

-----------------------------------------------------------------------------
(* Voids.                                                                  *)

\* Mutant: any receipt is taken as the latest one.
LatestAny(st, r, prev) == TRUE

\* A receipt is voided when its loan did not change after it, or when the void
\* before it in the same reversal left the loan exactly as the receipt had.
Latest(st, r, prev) ==
    \/ r.before.version + 1 = st.loans[r.loan].version
    \/ /\ prev # 0 /\ r.fund # Cash
       /\ st.rs[prev].loan = r.loan /\ st.rs[prev].fund = r.fund
       /\ st.rs[prev].before.version = r.before.version + 1
       /\ st.rs[prev].voided =
            [balance |-> r.before.balance - r.amount, version |-> st.loans[r.loan].version]

\* Receipts with records that only a correction of their own may restore.
Protected == linked \cup released

\* The void of one receipt in a state under construction.
VoidOne(st, i) ==
    LET r == st.rs[i]
        after == [balance |-> r.before.balance, version |-> st.loans[r.loan].version + 1]
    IN  IF ~st.ok \/ ~r.live \/ i \in Protected \/ ~Latest(st, r, st.prev[r.loan])
        THEN [st EXCEPT !.ok = FALSE]
        ELSE [ok |-> TRUE, prev |-> [st.prev EXCEPT ![r.loan] = i],
              loans |-> [st.loans EXCEPT ![r.loan] = after],
              rs |-> [st.rs EXCEPT ![i].live = FALSE, ![i].voided = after]]

NoVoids == [ok |-> TRUE, prev |-> [l \in Loans |-> 0], loans |-> loans, rs |-> collected]

ReversalOrder(ids) == Reverse(ids)

Reversed(a) == FoldLeft(VoidOne, NoVoids, ReversalOrder(allocations[a].ids))

ReversePosted(a) ==
    /\ allocations[a].active /\ ~allocations[a].accounted /\ Reversed(a).ok
    /\ loans' = Reversed(a).loans /\ collected' = Reversed(a).rs
    /\ allocations' = [allocations EXCEPT ![a].active = FALSE]
    /\ funds' = [funds EXCEPT ![allocations[a].fund].applied = @ -
                                Total(collected, ToSet(allocations[a].ids)),
                              ![allocations[a].fund].version = @ + 1]
    /\ UNCHANGED <<day, review, wire, told, marks>>

Voidable(i) == collected[i].fund = Cash /\ VoidOne(NoVoids, i).ok

VoidedAlone(i, undo) ==
    /\ loans' = VoidOne(NoVoids, i).loans
    /\ collected' = [VoidOne(NoVoids, i).rs EXCEPT ![i].undo = undo]

ManagementVoid(i) ==
    /\ Voidable(i) /\ VoidedAlone(i, NoUndo)
    /\ UNCHANGED <<day, funds, allocations, review, wire, told, marks>>

\* The Refund Due of a principal reduction is handed to the borrower.
ReleaseRefund(i) ==
    /\ collected[i].live /\ i \in principal \ released
    /\ released' = released \cup {i}
    /\ UNCHANGED <<day, loans, collected, funds, allocations, review, wire, told, linked, principal>>

-----------------------------------------------------------------------------
(* Undo by the collector.                                                  *)

AskUndo(i, reason) ==
    /\ collected[i].live /\ collected[i].fund = Cash
    /\ wire' = wire \cup {[id |-> i, rev |-> loans[collected[i].loan].version, reason |-> reason]}
    /\ UNCHANGED <<day, loans, collected, funds, allocations, review, told, marks>>

\* Mutant: any undo of a voided receipt is answered as done.
UndoneBeforeAny(q) == ~collected[q.id].live

UndoneBefore(q) ==
    ~collected[q.id].live /\ collected[q.id].undo = [rev |-> q.rev, reason |-> q.reason]

Undoable(q) ==
    /\ collected[q.id].live /\ collected[q.id].day = day /\ q.id \notin principal
    /\ q.rev = loans[collected[q.id].loan].version
    /\ Voidable(q.id)

\* The answer, kept whether or not it reached the phone.
Tell(q, answer, again) ==
    /\ told' = told \cup {[request |-> q, answer |-> answer]}
    /\ wire' = IF again THEN wire ELSE wire \ {q}

Undo(q, again) ==
    /\ IF Undoable(q)
       THEN /\ VoidedAlone(q.id, [rev |-> q.rev, reason |-> q.reason])
            /\ Tell(q, VoidOne(NoVoids, q.id).rs[q.id].voided, again)
       ELSE /\ UNCHANGED <<loans, collected>>
            /\ Tell(q, IF UndoneBefore(q) THEN collected[q.id].voided ELSE NotVoided, again)
    /\ UNCHANGED <<day, funds, allocations, review, marks>>

Midnight ==
    /\ day < LastDay /\ day' = day + 1
    /\ UNCHANGED <<loans, collected, funds, allocations, review, wire, told, marks>>

-----------------------------------------------------------------------------
PostingInit ==
    /\ day = 1 /\ loans = [l \in Loans |-> [balance |-> Opening[l], version |-> 1]]
    /\ collected = <<>> /\ allocations = <<>> /\ review = NoReview /\ wire = {} /\ told = {}
    /\ linked = {} /\ principal = {} /\ released = {}
    /\ funds = [f \in Funds |-> [applied |-> 0, refunded |-> 0, version |-> 1]]

PostingNext ==
    \/ Apply \/ Midnight
    \/ \E l \in Loans, amount \in Payments : Collect(l, amount)
    \/ \E f \in Funds, amount \in Payments :
          Refund(f, amount) \/ \E selected \in SUBSET Loans : Preview(f, selected, amount)
    \/ \E a \in DOMAIN allocations : Account(a) \/ ReversePosted(a)
    \/ \E i \in DOMAIN collected :
          ManagementVoid(i) \/ ReleaseRefund(i) \/ \E reason \in Reasons : AskUndo(i, reason)
    \/ \E q \in wire, again \in BOOLEAN : Undo(q, again)

PostingSpec == PostingInit /\ [][PostingNext]_postingVars

-----------------------------------------------------------------------------
(* Type invariant.                                                         *)
PostingTypeOK ==
    /\ day \in 1 .. LastDay
    /\ \A l \in Loans : loans[l].balance \in Nat /\ loans[l].version \in Nat \ {0}
    /\ \A f \in Funds : funds[f].applied \in Nat /\ funds[f].refunded \in Nat
    /\ \A i \in DOMAIN collected : collected[i].loan \in Loans /\ collected[i].live \in BOOLEAN
    /\ linked \cup principal \subseteq 1 .. MaxReceipts /\ released \subseteq principal

\* However receipts were voided, one by one or in a chain, a loan owes what its
\* live receipts leave (void_unremitted, reverse_application).
BalanceIsReplay ==
    \A l \in Loans : loans[l].balance = Opening[l] -
        Total(collected, {i \in DOMAIN collected : collected[i].live /\ collected[i].loan = l})

\* The funds of a treasury receipt are spent by its live receipts and its
\* refunds, once (capture_treasury_collection_funding).
FundsMatch ==
    \A f \in Funds :
        /\ funds[f].applied = Total(collected, LiveOf(collected, f))
        /\ funds[f].applied + funds[f].refunded <= FundAmount

\* An application stands or is reversed as a whole (reverse_application).
ApplicationIsWhole ==
    \A a \in DOMAIN allocations : \A i \in DOMAIN allocations[a].ids :
        collected[allocations[a].ids[i]].live = allocations[a].active

\* Of the applications after which no loan changed, those and only those are taken
\* back of which no receipt changed Past Due or promise records and no refund was
\* released, and then every loan has its balance again, with several receipts on
\* one loan too (reverse_application, treasury_previous_void_transaction_id).
FreshIsReversible ==
    \A a \in DOMAIN allocations :
        LET ids == ToSet(allocations[a].ids)
            last(l) == {i \in ids : collected[i].loan = l}
        IN  allocations[a].active
            /\ (\A l \in Loans : last(l) # {} =>
                  collected[Max(last(l))].before.version + 1 = loans[l].version)
            => /\ Reversed(a).ok <=> ids \cap Protected = {}
               /\ Reversed(a).ok => \A l \in Loans : last(l) # {} =>
                    Reversed(a).loans[l].balance = collected[Min(last(l))].before.balance

LoansFollowReceipts == BalanceIsReplay /\ FundsMatch /\ ApplicationIsWhole /\ FreshIsReversible

\* An undo that is answered as done was done for that request, whoever else
\* voided the receipt, and every answer of it shows the same state
\* (_collector_undo_replay, "an exact lost-response retry is read-only").
UndoAnswersHold ==
    \A t \in told : t.answer # NotVoided =>
        /\ collected[t.request.id].undo = [rev |-> t.request.rev, reason |-> t.request.reason]
        /\ t.answer = collected[t.request.id].voided

=============================================================================
