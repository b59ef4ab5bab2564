------------------------ MODULE CollectionSubmission ------------------------
(***************************************************************************)
(* How one collection entry gets from the collector's phone to the ledger: *)
(* the draft the application retains, the lossy connection, and the        *)
(* idempotent executor of the server.  One Regular loan without a contract *)
(* schedule and one collection date; every collector has one device and    *)
(* collects from the borrower once.                                        *)
(*                                                                         *)
(* The rules of posting are those of CollectionLedger; here a new entry    *)
(* with an acceptable revision is posted or rejected, whatever they say.   *)
(* A server transaction holds the locks of the key, the sequence and the   *)
(* loan from before it reads to its commit, so it is one step.             *)
(***************************************************************************)
EXTENDS Integers, Sequences

CONSTANTS
    Collectors,
    MaxDrafts,      \* bound: drafts ever built
    MaxVersion      \* bound: changes of the collection state

ASSUME CollectorsAssumption == Collectors # {}
ASSUME BoundsAssumption == MaxDrafts \in Nat /\ MaxVersion \in Nat

VARIABLES
    \* The application of each collector.
    view,           \* version of the loan in the route it last loaded
    blocked,        \* the route shown does not let the entry be written
    draft,          \* the retained attempt: a set of at most one request
    sent,           \* the request of the open connection, not answered yet
    answer,         \* the answer on the open connection, not received yet
    lastSeq,        \* the device sequence in secure storage
    authorised,     \* the server accepts the session and the device
    \* The network and the server.
    delayed,        \* requests of closed connections that may still arrive
    version,        \* loan_collection_state.state_version
    receipts,       \* collection_transactions with their idempotency rows
    keys            \* idempotency keys generated so far

app == <<view, blocked, draft, lastSeq>>
wire == <<sent, answer, delayed>>
server == <<version, receipts>>
vars == <<app, wire, server, authorised, keys>>

Kinds == {"payment", "pass"}
Requests == [key : Nat \ {0}, seq : Nat \ {0}, by : Collectors, kind : Kinds, revision : Nat]
Statuses == {"accepted", "duplicate", "rejected", "denied", "route_revision_changed",
             "device_sequence_reused", "idempotency_mismatch"}
Saved == {"accepted", "duplicate"}

-----------------------------------------------------------------------------
(* The server.                                                             *)

\* Mutant: a voided receipt is not found again.
ExistingLive(m) ==
    {i \in DOMAIN receipts : receipts[i].request.key = m.key /\ receipts[i].voidedAt = 0}

\* The receipt stored for the idempotency key of a request.
Existing(m) == {i \in DOMAIN receipts : receipts[i].request.key = m.key}

SequenceUsed(m) ==
    \E i \in DOMAIN receipts : /\ receipts[i].request.by = m.by
                               /\ receipts[i].request.seq = m.seq

\* Every change since revision e is a live payment.
SameDayChainIsSafe(e) ==
    \A v \in e..(version - 1) :
        \E i \in DOMAIN receipts : /\ receipts[i].vBefore = v
                                   /\ receipts[i].request.kind = "payment"
                                   /\ receipts[i].voidedAt = 0

RevisionAccepted(m) ==
    \/ m.revision = version
    \/ m.kind = "payment" /\ SameDayChainIsSafe(m.revision)

Answer(status, i) == [status |-> status, receipt |-> i]

\* Mutant: the replay returns the last receipt of the loan.
ReplayLast(m) ==
    {IF receipts[i].request = m THEN Answer("duplicate", Len(receipts))
     ELSE Answer("idempotency_mismatch", 0) : i \in Existing(m)}

\* The answer to a request whose key has a receipt.
Replay(m) ==
    {IF receipts[i].request = m THEN Answer("duplicate", i)
     ELSE Answer("idempotency_mismatch", 0) : i \in Existing(m)}

\* The answers to a new request that is not posted; "rejected" is every refusal
\* for what the entry says.
Refuse(m) ==
    IF Existing(m) # {} THEN {}
    ELSE IF SequenceUsed(m) THEN {Answer("device_sequence_reused", 0)}
    ELSE {Answer("rejected", 0)} \cup
         {Answer(s, 0) : s \in IF RevisionAccepted(m) THEN {} ELSE {"route_revision_changed"}}

\* A new request is posted, with its receipt and its idempotency row.
Post(m) ==
    /\ Existing(m) = {}
    /\ ~SequenceUsed(m)
    /\ RevisionAccepted(m)
    /\ version < MaxVersion
    /\ receipts' = Append(receipts, [request |-> m, vBefore |-> version,
                                     vAfter |-> version + 1, voidedAt |-> 0])
    /\ version' = version + 1

\* The open request of collector c is answered: authentication, then the
\* transaction of the executor.
Serve(c) ==
    \E m \in sent[c] :
        /\ sent' = [sent EXCEPT ![c] = {}]
        /\ \/ /\ \E a \in IF authorised[c] THEN Replay(m) \cup Refuse(m)
                          ELSE {Answer("denied", 0)} :
                 answer' = [answer EXCEPT ![c] = {a}]
              /\ UNCHANGED server
           \/ /\ authorised[c]
              /\ Post(m)
              /\ answer' = [answer EXCEPT ![c] = {Answer("accepted", Len(receipts) + 1)}]
        /\ UNCHANGED <<app, delayed, authorised, keys>>

\* A request whose connection is closed arrives, and nobody gets the answer; it
\* was authenticated when it was sent or now.  It stays on the network, for the
\* other attempts with the same draft that may be on their way.
ServeDelayed(m) ==
    /\ Post(m)
    /\ UNCHANGED <<app, wire, authorised, keys>>

DropDelayed(m) ==
    /\ delayed' = delayed \ {m}
    /\ UNCHANGED <<app, sent, answer, server, authorised, keys>>

\* The last receipt is undone or voided.
VoidLatest(i) ==
    /\ version < MaxVersion
    /\ receipts[i].voidedAt = 0
    /\ receipts[i].vAfter = version
    /\ version' = version + 1
    /\ receipts' = [receipts EXCEPT ![i].voidedAt = version + 1]
    /\ UNCHANGED <<app, wire, authorised, keys>>

\* The loan changes otherwise: a correction, a No Collection day, a schedule.
ChangeLoan ==
    /\ version < MaxVersion
    /\ version' = version + 1
    /\ UNCHANGED <<app, wire, receipts, authorised, keys>>

\* A session expires, a device is revoked, or access comes back.
ChangeAccess(c) ==
    /\ authorised' = [authorised EXCEPT ![c] = ~@]
    /\ UNCHANGED <<app, wire, server, keys>>

-----------------------------------------------------------------------------
(* The application.                                                        *)

Submitting(c) == sent[c] # {} \/ answer[c] # {}

\* Mutant: an unable-to-pay receipt does not count.
PaidInView(c) ==
    \E i \in DOMAIN receipts : /\ receipts[i].vAfter <= view[c]
                               /\ receipts[i].request.kind = "payment"
                               /\ receipts[i].voidedAt \notin 1..view[c]

\* The loaded route shows a collection of today.
ProcessedToday(c) ==
    \E i \in DOMAIN receipts : /\ receipts[i].vAfter <= view[c]
                               /\ receipts[i].voidedAt \notin 1..view[c]

\* Mutant: the stored sequence is used again.
StoredSequence(c) == lastSeq[c]

NextSequence(c) == lastSeq[c] + 1

\* The draft of a new entry, with a fresh key and sequence.
BuildDraft(c, kind) ==
    [key |-> keys + 1, seq |-> NextSequence(c), by |-> c, kind |-> kind, revision |-> view[c]]

\* A new entry: its draft is retained and sent.
Record(c, kind) ==
    /\ keys < MaxDrafts
    /\ draft[c] = {}
    /\ ~Submitting(c)
    /\ ~blocked[c]
    /\ ~ProcessedToday(c)
    /\ keys' = keys + 1
    /\ lastSeq' = [lastSeq EXCEPT ![c] = NextSequence(c)]
    /\ draft' = [draft EXCEPT ![c] = {BuildDraft(c, kind)}]
    /\ sent' = [sent EXCEPT ![c] = {BuildDraft(c, kind)}]
    /\ UNCHANGED <<view, blocked, answer, delayed, server, authorised>>

\* The retained draft is sent again, unchanged, if the route lets it be written.
Retry(c) ==
    /\ draft[c] # {}
    /\ ~Submitting(c)
    /\ ~blocked[c]
    /\ ~ProcessedToday(c)
    /\ sent' = [sent EXCEPT ![c] = draft[c]]
    /\ UNCHANGED <<app, answer, delayed, server, authorised, keys>>

\* Mutant: a conflict leaves the draft in review.
ReceiveKeepingConflicts(c) ==
    /\ \E a \in answer[c] :
        /\ draft' = IF a.status = "route_revision_changed" THEN draft
                    ELSE [draft EXCEPT ![c] = {}]
        /\ blocked' = [blocked EXCEPT ![c] = @ \/ a.status \in Saved]
    /\ answer' = [answer EXCEPT ![c] = {}]
    /\ UNCHANGED <<view, lastSeq, sent, delayed, server, authorised, keys>>

\* Every answer that is not uncertain ends the attempt.
Receive(c) ==
    /\ \E a \in answer[c] :
        /\ draft' = [draft EXCEPT ![c] = {}]
        /\ blocked' = [blocked EXCEPT ![c] = @ \/ a.status \in Saved]
    /\ answer' = [answer EXCEPT ![c] = {}]
    /\ UNCHANGED <<view, lastSeq, sent, delayed, server, authorised, keys>>

\* The connection ends without an answer the application understands, before or
\* after the request arrived; a request on its way may be lost or delayed.
CloseConnection(c) ==
    /\ sent' = [sent EXCEPT ![c] = {}]
    /\ answer' = [answer EXCEPT ![c] = {}]
    /\ delayed' \in {delayed, delayed \cup sent[c]}

\* A timeout, a lost connection, 429, 5xx or an unreadable answer: the draft stays.
LoseConnection(c) ==
    /\ Submitting(c)
    /\ CloseConnection(c)
    /\ UNCHANGED <<app, server, authorised, keys>>

\* The route is loaded again.  The server may say that the entry cannot be written
\* on the phone, or send a route without it.
LoadRoute(c) ==
    /\ ~Submitting(c)
    /\ authorised[c]
    /\ view' = [view EXCEPT ![c] = version]
    /\ \E writable \in BOOLEAN : blocked' = [blocked EXCEPT ![c] = ~writable]
    /\ UNCHANGED <<draft, lastSeq, wire, server, authorised, keys>>

\* The server is not reached: the copy of the last route is shown, read-only, and
\* the draft stays.
LoadOffline(c) ==
    /\ ~Submitting(c)
    /\ blocked' = [blocked EXCEPT ![c] = TRUE]
    /\ UNCHANGED <<view, draft, lastSeq, wire, server, authorised, keys>>

\* Refused access discards the route and the drafts.
LoadRefused(c) ==
    /\ ~Submitting(c)
    /\ ~authorised[c]
    /\ draft' = [draft EXCEPT ![c] = {}]
    /\ blocked' = [blocked EXCEPT ![c] = TRUE]
    /\ UNCHANGED <<view, lastSeq, wire, server, authorised, keys>>

\* Mutant: the sequence does not survive.
RestartWithoutSequence(c) ==
    /\ CloseConnection(c)
    /\ draft' = [draft EXCEPT ![c] = {}]
    /\ blocked' = [blocked EXCEPT ![c] = TRUE]
    /\ lastSeq' = [lastSeq EXCEPT ![c] = 0]
    /\ UNCHANGED <<view, server, authorised, keys>>

\* The application restarts: the draft was in memory, the sequence was stored.
Restart(c) ==
    /\ CloseConnection(c)
    /\ draft' = [draft EXCEPT ![c] = {}]
    /\ blocked' = [blocked EXCEPT ![c] = TRUE]
    /\ UNCHANGED <<view, lastSeq, server, authorised, keys>>

-----------------------------------------------------------------------------
Init ==
    /\ view = [c \in Collectors |-> 0]
    /\ blocked = [c \in Collectors |-> FALSE]
    /\ draft = [c \in Collectors |-> {}]
    /\ sent = [c \in Collectors |-> {}]
    /\ answer = [c \in Collectors |-> {}]
    /\ lastSeq = [c \in Collectors |-> 0]
    /\ authorised = [c \in Collectors |-> TRUE]
    /\ delayed = {}
    /\ version = 0
    /\ receipts = <<>>
    /\ keys = 0

Next ==
    \/ \E c \in Collectors :
        \/ \E kind \in Kinds : Record(c, kind)
        \/ Retry(c) \/ Receive(c) \/ LoseConnection(c) \/ Restart(c)
        \/ LoadRoute(c) \/ LoadOffline(c) \/ LoadRefused(c)
        \/ Serve(c) \/ ChangeAccess(c)
    \/ \E m \in delayed : ServeDelayed(m) \/ DropDelayed(m)
    \/ \E i \in DOMAIN receipts : VoidLatest(i)
    \/ ChangeLoan

Spec == Init /\ [][Next]_vars

\* The collector taps Retry if it is offered again and again, and not every
\* connection is lost before the answer.  Nothing makes the route writable again.
Fairness ==
    \A c \in Collectors : SF_vars(Retry(c)) /\ SF_vars(Serve(c)) /\ SF_vars(Receive(c))

FairSpec == Spec /\ Fairness

-----------------------------------------------------------------------------
(* Properties.                                                             *)

ReceiptType == [request : Requests, vBefore : Nat, vAfter : Nat, voidedAt : Nat]

\* The types of the variables.
TypeOK ==
    /\ view \in [Collectors -> Nat]
    /\ blocked \in [Collectors -> BOOLEAN]
    /\ draft \in [Collectors -> SUBSET Requests]
    /\ sent \in [Collectors -> SUBSET Requests]
    /\ answer \in [Collectors -> SUBSET [status : Statuses, receipt : Nat]]
    /\ lastSeq \in [Collectors -> Nat]
    /\ authorised \in [Collectors -> BOOLEAN]
    /\ delayed \in SUBSET Requests
    /\ version \in Nat
    /\ receipts \in Seq(ReceiptType)
    /\ keys \in Nat

\* "Saved" on the wire is about the draft the collector is waiting for: the
\* receipt it names was posted for exactly that draft, even when other receipts
\* followed before the replay.
AnswersNameTheReceipt ==
    \A c \in Collectors : \A a \in answer[c] : a.status \in Saved =>
        a.receipt \in DOMAIN receipts /\ draft[c] = {receipts[a.receipt].request}

\* Whatever is lost, delayed, repeated or restarted, the application never gets
\* a conflict with itself: no key stands for two entries, no sequence is reused.
OwnRetriesDoNotConflict ==
    \A c \in Collectors : \A a \in answer[c] :
        a.status \notin {"idempotency_mismatch", "device_sequence_reused"}

\* The exact revision would keep the collections of a day apart: a receipt that
\* was posted with it followed only receipts that were voided before.  It is the
\* rebase of same-day payments alone that lets a second one through.
SecondReceiptIsRebased ==
    \A i, j \in DOMAIN receipts :
        i < j /\ receipts[j].request.revision = receipts[j].vBefore =>
            receipts[i].voidedAt \in 1..receipts[j].vBefore

\* A request whose key has a receipt is answered with that receipt or, before it
\* reaches the executor, refused access; never with a conflict or a rejection.
CommittedIsReplayed ==
    [][\A c \in Collectors : \A m \in sent[c], a \in answer'[c], i \in DOMAIN receipts :
        receipts[i].request.key = m.key =>
            a.status = "denied" \/ a = Answer("duplicate", i)]_vars

\* The route of the collector lets the entry be written, again and again: not for
\* good offline, refused, or without the entry.
Writable(c) == []<>~blocked[c]

\* A retained draft does not stay uncertain while the route can be written: it is
\* answered, or the route shows a collection of the day.
DraftIsSettled ==
    \A c \in Collectors :
        Writable(c) => (draft[c] # {} ~> (draft[c] = {} \/ ProcessedToday(c)))

-----------------------------------------------------------------------------
(* What the documents say and the code does not do.                        *)

\* docs/gilbic-mobile-collector-entry-form.md: an entry with an uncertain result
\* can be retried, so an entry that is not recorded is recorded or answered.
UnrecordedDraftIsSettled ==
    \A c \in Collectors :
        Writable(c) => ((\E m \in draft[c] : Existing(m) = {})
                            ~> (\A m \in draft[c] : Existing(m) # {}))
=============================================================================
