------------------------------ MODULE PeriodClose ------------------------------
(***************************************************************************)
(* The General Journal and the protected close of a fiscal period          *)
(* (general_journal_repository.py, period_close_repository.py and their    *)
(* functions in sql/0022, 0024, 0091, 0092, 0131 and 0154).  A date is the *)
(* period it lies in.  Every call is one transaction: a call that reviews, *)
(* prepares or closes holds the journal tables against every writer to its *)
(* end (sql/0146), the others lock the rows they decide on.  The gates on  *)
(* unreconciled sources (sql/0141, 0146) and the bounded lock waits        *)
(* (sql/0164) may refuse a step at any time; a refusal changes nothing.    *)
(***************************************************************************)
EXTENDS Integers, Sequences, FiniteSets, FiniteSetsExt

CONSTANTS
    Periods,         \* fiscal periods, numbered in the order of their dates
    Accounts, Temporary, Retained,   \* income and expense are temporary; 3100
    Postings,        \* the lines of manual entries: debit less credit by account
    MaxEntries, MaxUpdates   \* bounds

Nothing == [Accounts -> {0}]

\* What the constants must be; a module that gives them values assumes it.
PeriodCloseAssumption ==
    /\ Periods \subseteq Nat \ {0} /\ IsFiniteSet(Accounts) /\ Temporary \subseteq Accounts
    /\ Retained \in Accounts \ Temporary /\ Postings \subseteq [Accounts -> Int]
    /\ \A v \in Postings : v \notin Nothing /\ MapThenSumSet(LAMBDA a : v[a], Accounts) = 0
    /\ MaxEntries \in Nat /\ MaxUpdates \in Nat

VARIABLES
    periods,        \* status of each fiscal period, "none" before it is created
    entries,        \* journal_entries with their lines; a cancelled draft is "gone"
    manifests,      \* the entries of the latest review of each period
    preparations,   \* period_close_preparations with their account snapshots
    closings,       \* period_close_postings
    numbered,       \* accounting.journal_number_seq
    updates         \* edits of drafts, for the bound

vars == <<periods, entries, manifests, preparations, closings, numbered, updates>>

NoPreparation == [before |-> "none"]
NoClosing == [after |-> "none"]

-----------------------------------------------------------------------------
(* The ledger.                                                             *)

Drafts(p) == {i \in DOMAIN entries : entries[i].status = "draft" /\ entries[i].period = p}
Posted == {i \in DOMAIN entries : entries[i].status = "posted"}
Ordinary(p) == {i \in Posted : entries[i].period = p /\ entries[i].source # "period_close"}

Balance(S, a) == MapThenSumSet(LAMBDA i : entries[i].lines[a], S)

\* period_close_temporary_balances, without the zero ones.
Balances(S) == [a \in {b \in Temporary : Balance(S, b) # 0} |-> Balance(S, a)]

\* Profit is the excess of credits.
NetIncome(S) == -MapThenSumSet(LAMBDA a : Balance(S, a), Temporary)

\* Balance of 3100 up to the end of a period, in credit.
RetainedAt(p) == -Balance({i \in Posted : entries[i].period <= p}, Retained)

Reversals(i) == {j \in DOMAIN entries : entries[j].of = i /\ entries[j].status # "gone"}

-----------------------------------------------------------------------------
(* The journal.                                                            *)

CreatePeriod(p) ==
    /\ periods[p] = "none" /\ periods' = [periods EXCEPT ![p] = "open"]
    /\ UNCHANGED <<entries, manifests, preparations, closings, numbered, updates>>

Row(p, source, of, lines) ==
    [period |-> p, source |-> source, of |-> of, lines |-> lines, status |-> "draft", number |-> 0]

\* A new row of the journal, in an open period.
Write(row) ==
    /\ periods[row.period] = "open"
    /\ Cardinality({j \in DOMAIN entries : entries[j].source # "period_close"}) < MaxEntries
    /\ entries' = Append(entries, row)
    /\ UNCHANGED <<periods, manifests, preparations, closings, numbered, updates>>

WriteNew(p, v) == Write(Row(p, "manual", 0, v))

\* Mutant: an entry that is posted can be edited.
EditableAny(i) == entries[i].status # "gone" /\ entries[i].source = "manual"

Editable(i) == entries[i].status = "draft" /\ entries[i].source = "manual"

WriteAgain(i, p, v) ==
    /\ Editable(i) /\ periods[p] = "open" /\ updates < MaxUpdates /\ updates' = updates + 1
    /\ entries' = [entries EXCEPT ![i] = Row(p, "manual", 0, v)]
    /\ UNCHANGED <<periods, manifests, preparations, closings, numbered>>

\* Mutant: a reversal counts once it is posted.
ReversibleAgain(i) ==
    /\ entries[i].status = "posted" /\ entries[i].source = "manual"
    /\ ~\E j \in Reversals(i) : entries[j].status = "posted"

Reversible(i) ==
    /\ entries[i].status = "posted" /\ entries[i].source = "manual" /\ Reversals(i) = {}

WriteReversal(i, p) ==
    /\ Reversible(i)
    /\ Write(Row(p, "reversal", i, [a \in Accounts |-> -entries[i].lines[a]]))

CancelDraft(i) ==
    /\ Editable(i)
    /\ entries' = [entries EXCEPT ![i] = [@ EXCEPT !.status = "gone", !.lines = [a \in Accounts |-> 0]]]
    /\ UNCHANGED <<periods, manifests, preparations, closings, numbered, updates>>

\* The status post_journal_entry asks of the period of an ordinary entry.
Accepts(p) == periods[p] = "open"

Post(i) ==
    /\ entries[i].status = "draft" /\ entries[i].source \in {"manual", "reversal"}
    /\ Accepts(entries[i].period)
    /\ entries' = [entries EXCEPT ![i] = [@ EXCEPT !.status = "posted", !.number = numbered + 1]]
    /\ numbered' = numbered + 1
    /\ UNCHANGED <<periods, manifests, preparations, closings, updates>>

-----------------------------------------------------------------------------
(* The close.                                                              *)

\* period_review_source_snapshot: every entry up to the end of p, but its own close.
Ledger(p) ==
    {i \in Posted : entries[i].period <= p /\ ~(entries[i].source = "period_close" /\ entries[i].period = p)}

Freeze(p) ==
    /\ periods[p] = "open" /\ Drafts(p) = {}
    /\ periods' = [periods EXCEPT ![p] = "review"]
    /\ manifests' = [manifests EXCEPT ![p] = Ledger(p)]
    /\ UNCHANGED <<entries, preparations, closings, numbered, updates>>

Reopen(p) ==
    /\ periods[p] = "review" /\ preparations[p] = NoPreparation
    /\ periods' = [periods EXCEPT ![p] = "open"]
    /\ UNCHANGED <<entries, manifests, preparations, closings, numbered, updates>>

\* The lines that bring the temporary accounts to zero against 3100.
CloseLines(p) ==
    [a \in Accounts |-> IF a \in Temporary THEN -Balance(Ordinary(p), a)
                        ELSE IF a = Retained THEN -NetIncome(Ordinary(p)) ELSE 0]

\* prepare_period_close: a snapshot, and the draft of the closing entry.
Prepare(p) ==
    /\ periods[p] = "review" /\ preparations[p] = NoPreparation /\ Drafts(p) = {}
    /\ manifests[p] = Ledger(p)
    /\ LET balances == Balances(Ordinary(p))
           entry == IF DOMAIN balances = {} THEN 0 ELSE Len(entries) + 1
       IN  /\ preparations' = [preparations EXCEPT ![p] =
                [entry |-> entry, count |-> Cardinality(Ordinary(p)), balances |-> balances,
                 net |-> NetIncome(Ordinary(p)), before |-> RetainedAt(p)]]
           /\ entries' = IF entry = 0 THEN entries ELSE Append(entries, Row(p, "period_close", 0, CloseLines(p)))
    /\ UNCHANGED <<periods, manifests, closings, numbered, updates>>

\* What post_period_close compares with the preparation.
Unchanged(p) ==
    LET q == preparations[p] IN
    /\ manifests[p] = Ledger(p) /\ Drafts(p) \subseteq {q.entry} /\ q.count = Cardinality(Ordinary(p))
    /\ q.balances = Balances(Ordinary(p)) /\ q.net = NetIncome(Ordinary(p))
    /\ q.before = RetainedAt(p)

PostClose(p) ==
    LET q == preparations[p]  last == IF q.entry = 0 THEN numbered ELSE numbered + 1 IN
    /\ q # NoPreparation /\ periods[p] = "review" /\ Unchanged(p)
    /\ entries' = IF q.entry = 0 THEN entries
                  ELSE [entries EXCEPT ![q.entry] = [@ EXCEPT !.status = "posted", !.number = last]]
    /\ numbered' = last
    /\ RetainedAt(p)' = q.before + q.net
    /\ periods' = [periods EXCEPT ![p] = "closed"]
    /\ closings' = [closings EXCEPT ![p] = [after |-> q.before + q.net, last |-> last]]
    /\ UNCHANGED <<manifests, preparations, updates>>

-----------------------------------------------------------------------------
Init ==
    /\ periods = [p \in Periods |-> "none"] /\ entries = <<>>
    /\ manifests = [p \in Periods |-> {}]
    /\ preparations = [p \in Periods |-> NoPreparation]
    /\ closings = [p \in Periods |-> NoClosing]
    /\ numbered = 0 /\ updates = 0

Next ==
    \/ \E p \in Periods : CreatePeriod(p) \/ Freeze(p) \/ Reopen(p) \/ Prepare(p) \/ PostClose(p)
    \/ \E p \in Periods, v \in Postings : WriteNew(p, v)
    \/ \E i \in DOMAIN entries :
         \/ \E p \in Periods : WriteReversal(i, p) \/ \E v \in Postings : WriteAgain(i, p, v)
         \/ CancelDraft(i) \/ Post(i)

Spec == Init /\ [][Next]_vars

-----------------------------------------------------------------------------
(* Properties.                                                             *)

\* The types of the variables.
TypeOK ==
    /\ periods \in [Periods -> {"none", "open", "review", "closed"}]
    /\ \A i \in DOMAIN entries :
         /\ entries[i].period \in Periods /\ entries[i].lines \in [Accounts -> Int]
         /\ entries[i].status \in {"draft", "posted", "gone"}
         /\ entries[i].number # 0 <=> entries[i].status = "posted"
         /\ entries[i].number \in 0 .. numbered
    /\ \A p \in Periods : manifests[p] \subseteq DOMAIN entries

\* A closed period has no income or expense left, and its profit is in 3100 once.
ClosedIsZero ==
    \A p \in Periods : periods[p] = "closed" =>
        LET all == {i \in Posted : entries[i].period = p}  closing == all \ Ordinary(p) IN
        /\ \A a \in Temporary : Balance(all, a) = 0
        /\ -Balance(closing, Retained) = NetIncome(Ordinary(p))

\* What was prepared for a period in review is what is posted in it: the review froze it.
PreparedIsFrozen ==
    \A p \in Periods : preparations[p] # NoPreparation =>
        /\ preparations[p].count = Cardinality(Ordinary(p))
        /\ preparations[p].balances = Balances(Ordinary(p))

\* An entry is reversed once, with its lines the other way round, and neither a close
\* nor a reversal is.
ReversalsNegate ==
    \A i \in Posted :
        /\ Cardinality(Reversals(i)) <= 1
        /\ \A j \in Reversals(i) :
             /\ entries[i].source = "manual"
             /\ \A a \in Accounts : entries[j].lines[a] = -entries[i].lines[a]

\* The balance of 3100 a close recorded is the one of the entries posted by then.
RetainedIsReplay ==
    \A p \in Periods : closings[p] # NoClosing =>
        closings[p].after = -Balance({i \in Posted :
            entries[i].period <= p /\ entries[i].number <= closings[p].last}, Retained)

\* A period in review or closed has no draft but that of its close.
ReviewTakesNoDraft ==
    \A p \in Periods, i \in DOMAIN entries :
        periods[p] \in {"review", "closed"} /\ i \in Drafts(p) =>
            periods[p] = "review" /\ preparations[p] # NoPreparation /\ preparations[p].entry = i

\* A prepared period can be closed as long as nothing dated up to its end is posted: the
\* refusals about drafts, snapshots and balances never come up on their own.  (An entry
\* of an earlier period that is still open does come up, and then it can never be closed.)
PreparedCanClose ==
    \A p \in Periods :
        /\ periods[p] = "review" /\ preparations[p] # NoPreparation
        /\ manifests[p] = Ledger(p)
        => Unchanged(p)

\* A closed period has no income or expense left and its profit is in retained earnings
\* once; a review freezes what is prepared, and only an entry of an earlier date can keep
\* it from being closed; an entry is reversed once (sql/0091, 0092 and 0154).
BooksHold ==
    ClosedIsZero /\ PreparedIsFrozen /\ ReversalsNegate /\ RetainedIsReplay
    /\ ReviewTakesNoDraft /\ PreparedCanClose

\* A posted entry, a preparation and a close never change, nothing more is posted in a
\* period under review, and a review that was prepared is not taken back.
PostedStays ==
    /\ \A i \in Posted : entries'[i] = entries[i]
    /\ \A p \in Periods :
         /\ preparations[p] # NoPreparation =>
                preparations'[p] = preparations[p] /\ periods'[p] \in {periods[p], "closed"}
         /\ closings[p] # NoClosing => closings'[p] = closings[p]
         /\ periods[p] \in {"review", "closed"} => Ordinary(p)' = Ordinary(p)

\* What is posted, prepared or closed is never changed, and nothing more is posted in a
\* period under review.
BooksStay == [][PostedStays]_vars
=============================================================================
