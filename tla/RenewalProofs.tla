----------------------------- MODULE RenewalProofs -----------------------------
(***************************************************************************)
(* The proceeds of a renewal go out once, and what was locked stays.        *)
(*                                                                         *)
(* No guard compares the two routes across requests: releasing cash looks   *)
(* for a payout of the same request, preparing a payout for cash of the     *)
(* same request.  That is enough because money moves for an approved        *)
(* request only, an approved request never leaves that status, and a new    *)
(* request waits until none is open: OutInv makes the connection.           *)
(***************************************************************************)
EXTENDS Renewal, FiniteSetTheorems, TLAPS

-----------------------------------------------------------------------------
(* The rows of the tables.                                                 *)

AmountType == [offset : Int, net : Int]

RequestType ==
    [status : {"pending", "approved", "rejected", "cancelled"},
     recommended : BOOLEAN, principal : Nat, office : BOOLEAN,
     verified : BOOLEAN, signed : BOOLEAN,
     decision : {"none", "accepted", "declined"}, amount : AmountType,
     cash : {"none", "released", "received", "given"}, confirmed : BOOLEAN,
     proof : {"not_submitted", "under_review", "approved", "correction_required", "flagged"},
     activation : {"not_released", "released_pending_management", "active"}]

EvidenceType ==
    [request : Nat, principal : Nat, settle : Nat, cash : Nat, bank : BOOLEAN,
     date : Nat, live : BOOLEAN, posted : BOOLEAN]

StageNames == {"recipient", "borrower_handover", "borrower"}

PayoutType ==
    [request : Nat, evidence : Nat, destination : {"collector", "borrower"},
     holder : Collectors \cup {"none"},
     status : {"prepared", "debited", "recipient_confirmed", "completed", "cancelled"},
     debits : 0 .. MaxDebits, late : BOOLEAN, received : SUBSET StageNames]

Rows ==
    /\ day \in 1 .. LastDay /\ paid \in 0 .. Opening
    /\ collector \in Collectors /\ cifReady \in BOOLEAN
    /\ requests \in Seq(RequestType)
    /\ evidence \in Seq(EvidenceType)
    /\ payouts \in Seq(PayoutType)

-----------------------------------------------------------------------------
(* The invariant.                                                          *)

\* A new request waits until none is open.
OneIsOpen ==
    \A k, l \in DOMAIN requests : Open(requests[k]) /\ Open(requests[l]) => k = l

\* Cash that was released was accepted, with its amount locked.
CashHolds(r) ==
    /\ r.cash # "none" => Accepted(r) /\ Ready(r) /\ r.amount # NoAmount
    /\ r.confirmed => r.cash = "given"

AllStages(q) == {Stages(q)[i] : i \in DOMAIN Stages(q)}
Completed(q) == q.status = "completed" /\ q.received = AllStages(q)
PaidOut(k) == \E p \in DOMAIN payouts : payouts[p].request = k /\ Completed(payouts[p])

\* What locks an amount or activates a renewal is one of its two routes.
RequestHolds(k) ==
    LET r == requests[k] IN
    /\ CashHolds(r)
    /\ r.amount # NoAmount => r.cash # "none" \/ PaidOut(k)
    /\ r.activation = "active" => (r.cash = "given" /\ r.confirmed) \/ PaidOut(k)

LivePay(q) == q.status # "cancelled"

\* What a payout has is in order.
PayoutHolds(q) ==
    /\ q.received \subseteq AllStages(q)
    /\ \A i \in DOMAIN Stages(q) : Stages(q)[i] \in q.received =>
         \A j \in 1 .. i : Stages(q)[j] \in q.received
    /\ q.status = "completed" => q.received = AllStages(q)
    /\ q.debits > 0 => LivePay(q)

\* What a live payout is paid for stands, and has not gone out as cash.
SourceHolds(q) ==
    /\ q.request \in DOMAIN requests /\ q.evidence \in DOMAIN evidence
    /\ LivePay(q) =>
         /\ requests[q.request].status = "approved"
         /\ requests[q.request].cash = "none"
         /\ evidence[q.evidence].live /\ ~evidence[q.evidence].posted
         /\ evidence[q.evidence].request = q.request

OnePayout ==
    \A p, q \in DOMAIN payouts : LivePay(payouts[p]) /\ LivePay(payouts[q]) => p = q

OutInv ==
    /\ Rows
    /\ OneIsOpen /\ OnePayout
    /\ \A k \in DOMAIN requests : RequestHolds(k)
    /\ \A p \in DOMAIN payouts : PayoutHolds(payouts[p]) /\ SourceHolds(payouts[p])

-----------------------------------------------------------------------------
(* A request that is set to another row.                                   *)

Locked(r, s) ==
    r.amount # NoAmount =>
        s.amount = r.amount /\ s.decision = r.decision /\ s.principal = r.principal

\* What every step that sets a request does to it.
Moves(k, s) ==
    LET r == requests[k] IN
    /\ s \in RequestType
    /\ Open(s) => Open(r)
    /\ r.status = "approved" => s.status = "approved"
    /\ CashHolds(s)
    /\ s.cash # "none" => r.cash # "none" \/ LivePayout(k) = {}
    /\ s.amount # NoAmount => s.cash # "none" \/ PaidOut(k)
    /\ s.activation = "active" => (s.cash = "given" /\ s.confirmed) \/ PaidOut(k)
    /\ Locked(r, s)

LEMMA RowTypes ==
    ASSUME Rows
    PROVE  /\ \A k \in DOMAIN requests : requests[k] \in RequestType
           /\ \A e \in DOMAIN evidence : evidence[e] \in EvidenceType
           /\ \A p \in DOMAIN payouts : payouts[p] \in PayoutType
BY DEF Rows

\* A payout that completed is one of an approved request, so an amount that is locked
\* belongs to an approved request.
LEMMA LockedIsApproved ==
    ASSUME OutInv, NEW k \in DOMAIN requests,
           requests[k].amount # NoAmount \/ requests[k].activation = "active"
    PROVE  requests[k].status = "approved"
<1>1. CASE requests[k].cash # "none"
  BY <1>1 DEF OutInv, RequestHolds, CashHolds, Accepted
<1>2. CASE requests[k].cash = "none"
  <2>1. PICK p \in DOMAIN payouts : payouts[p].request = k /\ Completed(payouts[p])
    BY <1>2 DEF OutInv, RequestHolds, PaidOut
  <2> QED BY <2>1 DEF OutInv, SourceHolds, LivePay, Completed
<1> QED BY <1>1, <1>2

\* Until the borrower answers and signs, and Management ends the request.
LEMMA RequestMoves ==
    ASSUME RenewalAssumption, OutInv, NEW k \in DOMAIN requests,
           \/ Cancel(k) \/ Recommend(k) \/ Sign(k)
           \/ \E principal \in Principals, office \in BOOLEAN, verified \in BOOLEAN :
                Terms(k, TRUE, principal, office, verified)
           \/ Terms(k, FALSE, 0, FALSE, FALSE)
           \/ \E d \in {"accepted", "declined"} : Decide(k, d)
    PROVE  \E s : Set(k, s) /\ Moves(k, s)
<1> DEFINE r == requests[k]
<1>1. /\ r \in RequestType /\ RequestHolds(k) /\ CashHolds(r)
  BY RowTypes DEF OutInv, RequestHolds
<1>2. r.amount # NoAmount \/ r.activation = "active" => r.status = "approved"
  BY LockedIsApproved
<1>3. r.status = "pending" => r.cash = "none" /\ r.amount = NoAmount /\ r.activation # "active"
  BY <1>1, <1>2 DEF CashHolds, Accepted
<1>4. CASE Cancel(k)
  <2> DEFINE s == [r EXCEPT !.status = "cancelled"]
  <2>1. Set(k, s) /\ r.status = "pending"
    BY <1>4 DEF Cancel
  <2>2. Moves(k, s)
    BY <1>1, <1>3, <2>1 DEF Moves, RequestType, Open, CashHolds, Locked
  <2> QED BY <2>1, <2>2
<1>5. CASE Recommend(k)
  <2> DEFINE s == [r EXCEPT !.recommended = TRUE]
  <2>1. Set(k, s) /\ r.status = "pending"
    BY <1>5 DEF Recommend
  <2>2. Moves(k, s)
    BY <1>1, <1>3, <2>1 DEF Moves, RequestType, Open, CashHolds, Locked
  <2> QED BY <2>1, <2>2
<1>6. CASE Sign(k)
  <2> DEFINE s == [r EXCEPT !.signed = TRUE]
  <2>1. Set(k, s) /\ r.status = "approved"
    BY <1>6 DEF Sign, Accepted
  <2>2. Moves(k, s)
    BY <1>1, <2>1 DEF Moves, RequestType, RequestHolds, Open, CashHolds, Accepted, Ready, Locked
  <2> QED BY <2>1, <2>2
<1>7. ASSUME NEW principal \in Principals, NEW office \in BOOLEAN, NEW verified \in BOOLEAN,
             Terms(k, TRUE, principal, office, verified)
      PROVE  \E s : Set(k, s) /\ Moves(k, s)
  <2> DEFINE s == [r EXCEPT !.status = "approved", !.principal = principal,
                            !.office = office, !.verified = verified]
  <2>1. Set(k, s) /\ r.status = "pending"
    BY <1>7 DEF Terms
  <2>2. principal \in Nat
    BY DEF RenewalAssumption
  <2>3. Moves(k, s)
    BY <1>1, <1>3, <2>1, <2>2 DEF Moves, RequestType, Open, CashHolds, Locked
  <2> QED BY <2>1, <2>3
<1>8. CASE Terms(k, FALSE, 0, FALSE, FALSE)
  <2> DEFINE s == [r EXCEPT !.status = "rejected"]
  <2>1. Set(k, s) /\ r.status = "pending"
    BY <1>8 DEF Terms
  <2>2. Moves(k, s)
    BY <1>1, <1>3, <2>1 DEF Moves, RequestType, Open, CashHolds, Locked
  <2> QED BY <2>1, <2>2
<1>9. ASSUME NEW d \in {"accepted", "declined"}, Decide(k, d)
      PROVE  \E s : Set(k, s) /\ Moves(k, s)
  <2> DEFINE s == [r EXCEPT !.decision = d]
  <2>1. /\ Set(k, s) /\ r.status = "approved"
        /\ r.amount = NoAmount /\ r.cash = "none" /\ r.activation = "not_released"
    BY <1>9 DEF Decide, DecisionOpen
  <2>2. Moves(k, s)
    BY <1>1, <2>1 DEF Moves, RequestType, Open, CashHolds, Locked
  <2> QED BY <2>1, <2>2
<1> QED BY <1>4, <1>5, <1>6, <1>7, <1>8, <1>9

\* From the release of the cash to the activation.
LEMMA CashMoves ==
    ASSUME OutInv, NEW k \in DOMAIN requests, CashStep(k)
    PROVE  \E s : Set(k, s) /\ Moves(k, s)
<1> DEFINE r == requests[k]
<1>1. /\ r \in RequestType /\ RequestHolds(k) /\ CashHolds(r)
  BY RowTypes DEF OutInv, RequestHolds
<1>2. ASSUME NEW e \in DOMAIN evidence, Release(k, e)
      PROVE  \E s : Set(k, s) /\ Moves(k, s)
  <2> DEFINE amount == [offset |-> evidence[e].settle, net |-> evidence[e].cash]
             s == [r EXCEPT !.amount = amount, !.cash = "released",
                            !.activation = "released_pending_management"]
  <2>1. /\ Set(k, s) /\ Accepted(r) /\ Ready(r)
        /\ r.amount = NoAmount /\ LivePayout(k) = {}
    BY <1>2 DEF Release, Unlocked, NoPayout
  <2>2. evidence[e] \in EvidenceType
    BY RowTypes DEF OutInv
  <2>3. amount \in AmountType /\ amount # NoAmount
    <3>1. evidence[e].settle \in Nat /\ evidence[e].cash \in Nat
      BY <2>2 DEF EvidenceType
    <3>2. amount.offset # NoAmount.offset
      BY <3>1 DEF NoAmount
    <3> QED BY <3>1, <3>2 DEF AmountType
  <2>4. Moves(k, s)
    <3>1. /\ s \in RequestType
          /\ s.status = r.status /\ s.cash = "released" /\ s.amount = amount
          /\ s.confirmed = r.confirmed /\ s.activation = "released_pending_management"
          /\ Accepted(s) /\ Ready(s)
      BY <1>1, <2>1, <2>3 DEF RequestType, Accepted, Ready
    <3>2. ~r.confirmed
      BY <1>1, <2>1 DEF CashHolds, RequestHolds, PaidOut, LivePayout, Completed, Accepted
    <3> QED BY <1>1, <2>1, <2>3, <3>1, <3>2 DEF Moves, Open, CashHolds, Locked
  <2> QED BY <2>1, <2>4
<1>3. CASE Receive(k)
  <2> DEFINE s == [r EXCEPT !.cash = "received"]
  <2>1. Set(k, s) /\ r.cash = "released"
    BY <1>3 DEF Receive
  <2>2. Moves(k, s)
    BY <1>1, <2>1 DEF Moves, RequestType, RequestHolds, Open, CashHolds, Accepted, Ready, Locked
  <2> QED BY <2>1, <2>2
<1>4. CASE Give(k)
  <2> DEFINE s == [r EXCEPT !.cash = "given"]
  <2>1. Set(k, s) /\ r.cash = "received"
    BY <1>4 DEF Give
  <2>2. Moves(k, s)
    BY <1>1, <2>1 DEF Moves, RequestType, RequestHolds, Open, CashHolds, Accepted, Ready, Locked
  <2> QED BY <2>1, <2>2
<1>5. CASE Confirm(k)
  <2> DEFINE s == [r EXCEPT !.confirmed = TRUE]
  <2>1. Set(k, s) /\ r.cash = "given"
    BY <1>5 DEF Confirm
  <2>2. Moves(k, s)
    BY <1>1, <2>1 DEF Moves, RequestType, RequestHolds, Open, CashHolds, Accepted, Ready, Locked
  <2> QED BY <2>1, <2>2
<1>6. CASE UploadPhoto(k)
  <2> DEFINE s == [r EXCEPT !.proof = "under_review"]
  <2>1. Set(k, s)
    BY <1>6 DEF UploadPhoto
  <2>2. Moves(k, s)
    BY <1>1 DEF Moves, RequestType, RequestHolds, Open, CashHolds, Accepted, Ready, Locked
  <2> QED BY <2>1, <2>2
<1>7. CASE Activate(k)
  <2> DEFINE s == [r EXCEPT !.activation = "active"]
  <2>1. Set(k, s) /\ r.confirmed
    BY <1>7 DEF Activate, Activatable
  <2>2. Moves(k, s)
    BY <1>1, <2>1 DEF Moves, RequestType, RequestHolds, Open, CashHolds, Accepted, Ready, Locked
  <2> QED BY <2>1, <2>2
<1>8. ASSUME NEW o \in {"approved", "correction_required", "flagged"}, ReviewProof(k, o)
      PROVE  \E s : Set(k, s) /\ Moves(k, s)
  <2> DEFINE n == [r EXCEPT !.proof = o]
             a == [n EXCEPT !.activation = "active"]
  <2>1. (Set(k, a) /\ Activatable(n)) \/ Set(k, n)
    BY <1>8 DEF ReviewProof
  <2>2. Moves(k, n)
    BY <1>1 DEF Moves, RequestType, RequestHolds, Open, CashHolds, Accepted, Ready, Locked
  <2>3. Activatable(n) => Moves(k, a)
    <3> HAVE Activatable(n)
    <3>1. r.confirmed
      BY <1>1 DEF Activatable, RequestType
    <3> QED
      BY <1>1, <3>1 DEF Moves, RequestType, RequestHolds, Open, CashHolds, Accepted, Ready, Locked
  <2> QED BY <2>1, <2>2, <2>3
<1> QED BY <1>2, <1>3, <1>4, <1>5, <1>6, <1>7, <1>8 DEF CashStep

LEMMA SetKeeps ==
    ASSUME OutInv, NEW k \in DOMAIN requests, NEW s, Set(k, s), Moves(k, s)
    PROVE  OutInv' /\ LockedStays
<1>1. /\ requests \in Seq(RequestType) /\ s \in RequestType
      /\ requests' = [requests EXCEPT ![k] = s]
      /\ UNCHANGED <<day, paid, collector, cifReady, evidence, payouts>>
  BY DEF OutInv, Rows, Set, Moves
<1>2. /\ DOMAIN requests' = DOMAIN requests /\ requests'[k] = s
      /\ \A l \in DOMAIN requests : l # k => requests'[l] = requests[l]
      /\ requests' \in Seq(RequestType)
  BY <1>1
<1>3. \A l : PaidOut(l)' <=> PaidOut(l)
  BY <1>1 DEF PaidOut
<1>4. Rows'
  BY <1>1, <1>2 DEF OutInv, Rows
<1>5. OneIsOpen' /\ OnePayout'
  BY <1>1, <1>2 DEF OutInv, OneIsOpen, OnePayout, Moves
<1>6. \A l \in DOMAIN requests' : RequestHolds(l)'
  <2> SUFFICES ASSUME NEW l \in DOMAIN requests PROVE RequestHolds(l)'
    BY <1>2
  <2>1. CASE l = k
    BY <1>2, <1>3, <2>1 DEF RequestHolds, Moves
  <2>2. CASE l # k
    BY <1>2, <1>3, <2>2 DEF OutInv, RequestHolds
  <2> QED BY <2>1, <2>2
<1>7. \A p \in DOMAIN payouts' : (PayoutHolds(payouts[p]) /\ SourceHolds(payouts[p]))'
  <2> SUFFICES ASSUME NEW p \in DOMAIN payouts
               PROVE  PayoutHolds(payouts[p])' /\ SourceHolds(payouts[p])'
    BY <1>1
  <2>1. PayoutHolds(payouts[p]) /\ SourceHolds(payouts[p])
    BY DEF OutInv
  <2>2. payouts[p].request = k /\ LivePay(payouts[p]) => s.status = "approved" /\ s.cash = "none"
    BY <2>1 DEF SourceHolds, LivePay, Moves, LivePayout
  <2>3. SourceHolds(payouts[p])'
    BY <1>1, <1>2, <2>1, <2>2 DEF SourceHolds
  <2> QED BY <1>1, <2>1, <2>3 DEF PayoutHolds
<1>8. LockedStays
  BY <1>2 DEF LockedStays, Moves, Locked
<1> QED BY <1>4, <1>5, <1>6, <1>7, <1>8 DEF OutInv

\* A new request is the only one that is open.
LEMMA SubmitKeeps ==
    ASSUME OutInv, Submit
    PROVE  OutInv' /\ LockedStays
<1>1. /\ requests \in Seq(RequestType) /\ NewRequest \in RequestType
      /\ requests' = Append(requests, NewRequest) /\ NothingOpen
      /\ UNCHANGED <<day, paid, collector, cifReady, evidence, payouts>>
  BY DEF OutInv, Rows, Submit, NewRequest, RequestType, NoAmount, AmountType
<1>0. PICK n \in Nat : n = Len(requests) + 1
  BY <1>1
<1>2. /\ DOMAIN requests' = DOMAIN requests \cup {n} /\ n \notin DOMAIN requests
      /\ requests'[n] = NewRequest
      /\ \A l \in DOMAIN requests : requests'[l] = requests[l]
      /\ requests' \in Seq(RequestType)
  BY <1>0, <1>1
<1>3. \A l : PaidOut(l)' <=> PaidOut(l)
  BY <1>1 DEF PaidOut
<1>4. Rows'
  BY <1>1, <1>2 DEF OutInv, Rows
<1>5. OneIsOpen' /\ OnePayout'
  BY <1>1, <1>2 DEF OutInv, OneIsOpen, OnePayout, NothingOpen
<1>6. \A l \in DOMAIN requests' : RequestHolds(l)'
  <2>1. RequestHolds(n)'
    BY <1>2 DEF RequestHolds, NewRequest, CashHolds
  <2>2. \A l \in DOMAIN requests : RequestHolds(l)'
    BY <1>2, <1>3 DEF OutInv, RequestHolds
  <2> QED BY <1>2, <2>1, <2>2
<1>7. \A p \in DOMAIN payouts' : (PayoutHolds(payouts[p]) /\ SourceHolds(payouts[p]))'
  BY <1>1, <1>2 DEF OutInv, PayoutHolds, SourceHolds
<1>8. LockedStays
  BY <1>2 DEF LockedStays
<1> QED BY <1>4, <1>5, <1>6, <1>7, <1>8 DEF OutInv

-----------------------------------------------------------------------------
(* The evidence.                                                           *)

\* What a payout stands on is neither voided nor booked.
LEMMA EvidenceKeeps ==
    ASSUME RenewalAssumption, OutInv,
           \/ \E k \in DOMAIN requests, principal \in Principals, settle, cash \in 0 .. Opening,
                 bank \in BOOLEAN : RecordEvidence(k, principal, settle, cash, bank)
           \/ \E e \in DOMAIN evidence : VoidEvidence(e) \/ PostJournal(e)
    PROVE  OutInv' /\ LockedStays
<1>1. /\ UNCHANGED <<day, paid, collector, cifReady, requests, payouts>>
      /\ evidence \in Seq(EvidenceType)
  BY DEF RecordEvidence, VoidEvidence, PostJournal, OutInv, Rows
<1>2. /\ evidence' \in Seq(EvidenceType) /\ DOMAIN evidence \subseteq DOMAIN evidence'
      /\ \A p \in DOMAIN payouts : LivePay(payouts[p]) =>
           evidence'[payouts[p].evidence] = evidence[payouts[p].evidence]
  <2>1. ASSUME NEW k \in DOMAIN requests, NEW principal \in Principals,
               NEW settle \in 0 .. Opening, NEW cash \in 0 .. Opening, NEW bank \in BOOLEAN,
               RecordEvidence(k, principal, settle, cash, bank)
        PROVE  <1>2
    <3> DEFINE x == [request |-> k, principal |-> principal, settle |-> settle, cash |-> cash,
                     bank |-> bank, date |-> day, live |-> TRUE, posted |-> FALSE]
    <3>1. evidence' = Append(evidence, x)
      BY <2>1 DEF RecordEvidence
    <3>2. x \in EvidenceType
      <4>1. k \in Nat /\ day \in Nat
        BY DEF RenewalAssumption, OutInv, Rows
      <4>2. principal \in Nat /\ settle \in Nat /\ cash \in Nat
        BY DEF RenewalAssumption
      <4> QED BY <4>1, <4>2 DEF EvidenceType
    <3>3. \A p \in DOMAIN payouts : payouts[p].evidence \in DOMAIN evidence
      BY DEF OutInv, SourceHolds
    <3>4. /\ evidence' \in Seq(EvidenceType) /\ DOMAIN evidence \subseteq DOMAIN evidence'
          /\ \A d \in DOMAIN evidence : evidence'[d] = evidence[d]
      BY <1>1, <3>1, <3>2
    <3> QED BY <3>3, <3>4
  <2>2. ASSUME NEW e \in DOMAIN evidence, VoidEvidence(e) \/ PostJournal(e)
        PROVE  <1>2
    <3>1. /\ evidence' \in Seq(EvidenceType) /\ DOMAIN evidence' = DOMAIN evidence
          /\ \A d \in DOMAIN evidence : d # e => evidence'[d] = evidence[d]
      <4>1. PICK y : evidence' = [evidence EXCEPT ![e] = y] /\ y \in EvidenceType
        <5>1. evidence[e] \in EvidenceType
          BY RowTypes DEF OutInv
        <5>2. [evidence[e] EXCEPT !.live = FALSE] \in EvidenceType
          BY <5>1 DEF EvidenceType
        <5>3. [evidence[e] EXCEPT !.posted = TRUE] \in EvidenceType
          BY <5>1 DEF EvidenceType
        <5> QED BY <2>2, <5>2, <5>3 DEF VoidEvidence, PostJournal
      <4> QED BY <1>1, <4>1
    <3>2. \A p \in DOMAIN payouts : LivePay(payouts[p]) => payouts[p].evidence # e
      BY <2>2 DEF VoidEvidence, PostJournal, Unbound, LivePay
    <3>3. \A p \in DOMAIN payouts : payouts[p].evidence \in DOMAIN evidence
      BY DEF OutInv, SourceHolds
    <3> QED BY <3>1, <3>2, <3>3
  <2> QED BY <2>1, <2>2
<1>3. Rows' /\ OneIsOpen' /\ OnePayout'
  BY <1>1, <1>2 DEF OutInv, Rows, OneIsOpen, OnePayout
<1>4. \A l \in DOMAIN requests' : RequestHolds(l)'
  BY <1>1 DEF OutInv, RequestHolds, PaidOut
<1>5. \A p \in DOMAIN payouts' : (PayoutHolds(payouts[p]) /\ SourceHolds(payouts[p]))'
  BY <1>1, <1>2 DEF OutInv, PayoutHolds, SourceHolds
<1>6. LockedStays
  BY <1>1 DEF LockedStays
<1> QED BY <1>3, <1>4, <1>5, <1>6 DEF OutInv

-----------------------------------------------------------------------------
(* The payouts.                                                            *)

\* Every stage is one of the names, and the stages of a payout differ.
LEMMA StagesDiffer ==
    ASSUME NEW q
    PROVE  /\ AllStages(q) \subseteq StageNames
           /\ DOMAIN Stages(q) = 1 .. Len(Stages(q)) /\ Len(Stages(q)) \in {1, 3}
           /\ \A i, j \in DOMAIN Stages(q) : Stages(q)[i] = Stages(q)[j] => i = j
<1>1. CASE q.destination = "collector"
  <2>1. Stages(q) = <<"recipient", "borrower_handover", "borrower">>
    BY <1>1 DEF Stages
  <2>2. /\ DOMAIN Stages(q) = {1, 2, 3} /\ Len(Stages(q)) = 3
        /\ Stages(q)[1] = "recipient" /\ Stages(q)[2] = "borrower_handover"
        /\ Stages(q)[3] = "borrower"
    BY <2>1
  <2>3. AllStages(q) = {Stages(q)[i] : i \in {1, 2, 3}}
    BY <2>2 DEF AllStages
  <2> QED BY <2>2, <2>3 DEF StageNames
<1>2. CASE q.destination # "collector"
  <2>1. Stages(q) = <<"borrower">>
    BY <1>2 DEF Stages
  <2>2. DOMAIN Stages(q) = {1} /\ Len(Stages(q)) = 1 /\ Stages(q)[1] = "borrower"
    BY <2>1
  <2>3. AllStages(q) = {Stages(q)[i] : i \in {1}}
    BY <2>2 DEF AllStages
  <2> QED BY <2>2, <2>3 DEF StageNames
<1> QED BY <1>1, <1>2

\* What every step that sets a payout does to it.
Pays(p, s) ==
    LET q == payouts[p] IN
    /\ s \in PayoutType /\ PayoutHolds(s)
    /\ s.request = q.request /\ s.evidence = q.evidence
    /\ Completed(q) => Completed(s)
    /\ LivePay(s) => LivePay(q)

LEMMA PayoutPays ==
    ASSUME OutInv, NEW p \in DOMAIN payouts,
           \/ \E exact \in BOOLEAN : Debit(p, exact)
           \/ CancelPayout(p) \/ ConfirmRecipient(p)
           \/ \E i \in DOMAIN Stages(payouts[p]) : Acknowledge(p, i)
    PROVE  \E s : SetPayout(p, s) /\ Pays(p, s)
<1> DEFINE q == payouts[p]
<1>1. q \in PayoutType /\ PayoutHolds(q)
  BY RowTypes DEF OutInv
<1>2. \A s : s.destination = q.destination => Stages(s) = Stages(q) /\ AllStages(s) = AllStages(q)
  BY DEF Stages, AllStages
<1>3. ASSUME NEW exact \in BOOLEAN, Debit(p, exact)
      PROVE  \E s : SetPayout(p, s) /\ Pays(p, s)
  <2>1. CASE q.status = "cancelled"
    <3> DEFINE s == [q EXCEPT !.late = TRUE]
    <3>1. SetPayout(p, s)
      BY <1>3, <2>1 DEF Debit
    <3>2. /\ s.request = q.request /\ s.evidence = q.evidence /\ s.received = q.received
          /\ s.destination = q.destination /\ s.status = "cancelled" /\ s.debits = q.debits
          /\ s \in PayoutType
      BY <1>1, <2>1 DEF PayoutType
    <3>3. Stages(s) = Stages(q) /\ AllStages(s) = AllStages(q)
      BY <1>2, <3>2
    <3>4. PayoutHolds(s)
      BY <1>1, <2>1, <3>2, <3>3 DEF PayoutHolds, LivePay
    <3> QED BY <2>1, <3>1, <3>2, <3>4 DEF Pays, Completed, LivePay
  <2>2. CASE q.status # "cancelled"
    <3>1. PICK d \in 0 .. MaxDebits, t \in {q.status, "debited"} :
            /\ SetPayout(p, [q EXCEPT !.debits = d, !.status = t])
            /\ t # q.status => q.status = "prepared"
      <4>1. q.debits \in 0 .. MaxDebits /\ q.debits < MaxDebits
        BY <1>1, <1>3, <2>2 DEF PayoutType, Debit
      <4>2. q.debits + 1 \in 0 .. MaxDebits
        BY <4>1 DEF MaxDebits
      <4> QED BY <1>3, <2>2, <4>2 DEF Debit
    <3> DEFINE s == [q EXCEPT !.debits = d, !.status = t]
    <3>2. SetPayout(p, s)
      BY <3>1
    <3>3. /\ s.request = q.request /\ s.evidence = q.evidence /\ s.received = q.received
          /\ s.destination = q.destination /\ s.status = t /\ s \in PayoutType
      BY <1>1, <3>1 DEF PayoutType
    <3>4. Stages(s) = Stages(q) /\ AllStages(s) = AllStages(q)
      BY <1>2, <3>3
    <3>5. s.status # "cancelled" /\ (s.status = "completed" <=> q.status = "completed")
      BY <2>2, <3>1, <3>3
    <3> HIDE DEF s
    <3>6. PayoutHolds(s)
      BY <1>1, <3>3, <3>4, <3>5 DEF PayoutHolds, LivePay
    <3> QED BY <2>2, <3>2, <3>3, <3>4, <3>5, <3>6 DEF Pays, Completed, LivePay
  <2> QED BY <2>1, <2>2
<1>4. CASE CancelPayout(p)
  <2> DEFINE s == [q EXCEPT !.status = "cancelled"]
  <2>1. SetPayout(p, s) /\ q.status = "prepared" /\ q.debits = 0
    BY <1>4 DEF CancelPayout, Cancellable
  <2>2. /\ s.request = q.request /\ s.evidence = q.evidence /\ s.received = q.received
        /\ s.destination = q.destination /\ s.status = "cancelled" /\ s.debits = 0
        /\ s \in PayoutType
    BY <1>1, <2>1 DEF PayoutType
  <2>3. Stages(s) = Stages(q) /\ AllStages(s) = AllStages(q)
    BY <1>2, <2>2
  <2>4. PayoutHolds(s)
    BY <1>1, <2>1, <2>2, <2>3 DEF PayoutHolds, LivePay
  <2> QED BY <2>1, <2>2, <2>4 DEF Pays, Completed, LivePay
<1>5. CASE ConfirmRecipient(p)
  <2> DEFINE s == [q EXCEPT !.status = "recipient_confirmed"]
  <2>1. SetPayout(p, s) /\ q.status = "debited"
    BY <1>5 DEF ConfirmRecipient
  <2>2. /\ s.request = q.request /\ s.evidence = q.evidence /\ s.received = q.received
        /\ s.destination = q.destination /\ s.status = "recipient_confirmed"
        /\ s \in PayoutType
    BY <1>1, <2>1 DEF PayoutType
  <2>3. Stages(s) = Stages(q) /\ AllStages(s) = AllStages(q)
    BY <1>2, <2>2
  <2>4. PayoutHolds(s)
    BY <1>1, <2>1, <2>2, <2>3 DEF PayoutHolds, LivePay
  <2> QED BY <2>1, <2>2, <2>4 DEF Pays, Completed, LivePay
<1>6. ASSUME NEW i \in DOMAIN Stages(q), Acknowledge(p, i)
      PROVE  \E s : SetPayout(p, s) /\ Pays(p, s)
  <2> DEFINE s == [q EXCEPT !.received = @ \cup {Stages(q)[i]}]
  <2>1. SetPayout(p, s) /\ q.status = "recipient_confirmed" /\ AfterPrior(q, i)
    BY <1>6 DEF Acknowledge
  <2>2. Stages(q)[i] \in AllStages(q)
    BY DEF AllStages
  <2>3. /\ s.request = q.request /\ s.evidence = q.evidence
        /\ s.received = q.received \cup {Stages(q)[i]}
        /\ s.destination = q.destination /\ s.status = "recipient_confirmed"
        /\ s.debits = q.debits /\ s \in PayoutType
    BY <1>1, <2>1, <2>2, StagesDiffer DEF PayoutType
  <2>4. \A j \in DOMAIN Stages(q) : Stages(q)[j] \in s.received =>
          \A m \in 1 .. j : Stages(q)[m] \in s.received
    <3> SUFFICES ASSUME NEW j \in DOMAIN Stages(q), Stages(q)[j] \in s.received, NEW m \in 1 .. j
                 PROVE  Stages(q)[m] \in s.received
      OBVIOUS
    <3>1. CASE Stages(q)[j] \in q.received
      BY <1>1, <2>3, <3>1 DEF PayoutHolds
    <3>2. CASE Stages(q)[j] = Stages(q)[i]
      <4>1. j = i /\ i \in 1 .. Len(Stages(q)) /\ Len(Stages(q)) \in Nat
        BY <3>2, StagesDiffer
      <4>2. CASE m = i
        BY <2>3, <4>2
      <4>3. CASE m # i
        <5>1. i > 1 /\ m \in 1 .. i - 1 /\ i - 1 \in DOMAIN Stages(q)
          BY <4>1, <4>3, StagesDiffer
        <5>2. Stages(q)[i - 1] \in q.received
          BY <2>1, <5>1 DEF AfterPrior
        <5> QED BY <1>1, <2>3, <5>1, <5>2 DEF PayoutHolds
      <4> QED BY <4>2, <4>3
    <3> QED BY <2>3, <3>1, <3>2
  <2>5. Stages(s) = Stages(q) /\ AllStages(s) = AllStages(q)
    BY <1>2, <2>3
  <2>6. Pays(p, s)
    BY <1>1, <2>1, <2>2, <2>3, <2>4, <2>5 DEF Pays, Completed, PayoutHolds, LivePay
  <2> QED BY <2>1, <2>6
<1> QED BY <1>3, <1>4, <1>5, <1>6

LEMMA SetPayoutKeeps ==
    ASSUME OutInv, NEW p \in DOMAIN payouts, NEW s, SetPayout(p, s), Pays(p, s)
    PROVE  OutInv' /\ LockedStays
<1>1. /\ payouts \in Seq(PayoutType) /\ s \in PayoutType
      /\ payouts' = [payouts EXCEPT ![p] = s]
      /\ UNCHANGED <<day, paid, collector, cifReady, requests, evidence>>
  BY DEF OutInv, Rows, SetPayout, Pays
<1>2. /\ DOMAIN payouts' = DOMAIN payouts /\ payouts'[p] = s
      /\ \A o \in DOMAIN payouts : o # p => payouts'[o] = payouts[o]
      /\ payouts' \in Seq(PayoutType)
  BY <1>1
<1>3. Rows' /\ OneIsOpen' /\ OnePayout'
  BY <1>1, <1>2 DEF OutInv, Rows, OneIsOpen, OnePayout, Pays
<1>4. \A k : PaidOut(k) => PaidOut(k)'
  BY <1>1, <1>2 DEF PaidOut, Completed, Pays, AllStages, Stages
<1>5. \A k \in DOMAIN requests' : RequestHolds(k)'
  BY <1>1, <1>4 DEF OutInv, RequestHolds
<1>6. \A o \in DOMAIN payouts' : (PayoutHolds(payouts[o]) /\ SourceHolds(payouts[o]))'
  <2>1. PayoutHolds(s) /\ SourceHolds(payouts[p])
    BY DEF Pays, OutInv
  <2>2. SourceHolds(payouts[p])'
    BY <1>1, <1>2, <2>1 DEF SourceHolds, Pays
  <2>3. PayoutHolds(payouts[p])'
    BY <1>2, <2>1 DEF PayoutHolds, Stages, AllStages, LivePay
  <2>4. ASSUME NEW o \in DOMAIN payouts, o # p
        PROVE  PayoutHolds(payouts[o])' /\ SourceHolds(payouts[o])'
    BY <1>1, <1>2, <2>4 DEF OutInv, PayoutHolds, SourceHolds
  <2> QED BY <1>2, <2>2, <2>3, <2>4
<1>7. LockedStays
  BY <1>1 DEF LockedStays
<1> QED BY <1>3, <1>5, <1>6, <1>7 DEF OutInv

\* A payout is prepared for an accepted request without cash, so no other is live.
LEMMA PrepareKeeps ==
    ASSUME OutInv, NEW k \in DOMAIN requests, NEW e \in DOMAIN evidence,
           NEW d \in {"collector", "borrower"}, Prepare(k, e, d)
    PROVE  OutInv' /\ LockedStays
<1> DEFINE s == [request |-> k, evidence |-> e, destination |-> d,
                 holder |-> IF d = "collector" THEN collector ELSE "none",
                 status |-> "prepared", debits |-> 0, late |-> FALSE, received |-> {}]
<1>1. /\ payouts \in Seq(PayoutType) /\ payouts' = Append(payouts, s)
      /\ UNCHANGED <<day, paid, collector, cifReady, requests, evidence>>
      /\ Accepted(requests[k]) /\ requests[k].cash = "none" /\ LivePayout(k) = {}
      /\ e \in Evidence(k) /\ ~evidence[e].posted
  BY DEF OutInv, Rows, Prepare, Source, Authoritative
<1>2. s \in PayoutType
  <2>1. k \in Nat /\ e \in Nat /\ collector \in Collectors
    BY DEF OutInv, Rows
  <2> QED BY <2>1 DEF PayoutType, MaxDebits
<1>3. PICK n \in Nat : n = Len(payouts) + 1
  BY <1>1
<1>4. /\ DOMAIN payouts' = DOMAIN payouts \cup {n} /\ n \notin DOMAIN payouts
      /\ payouts'[n] = s
      /\ \A o \in DOMAIN payouts : payouts'[o] = payouts[o]
      /\ payouts' \in Seq(PayoutType)
  BY <1>1, <1>2, <1>3
<1>5. \A o \in DOMAIN payouts : ~LivePay(payouts[o])
  <2> SUFFICES ASSUME NEW o \in DOMAIN payouts, LivePay(payouts[o]) PROVE FALSE
    OBVIOUS
  <2>1. payouts[o].request \in DOMAIN requests /\ requests[payouts[o].request].status = "approved"
    BY DEF OutInv, SourceHolds
  <2>2. payouts[o].request = k
    BY <1>1, <2>1 DEF OutInv, OneIsOpen, Open, Accepted
  <2> QED BY <1>1, <2>2 DEF LivePayout, LivePay
<1>6. Rows' /\ OneIsOpen' /\ OnePayout'
  BY <1>1, <1>4, <1>5 DEF OutInv, Rows, OneIsOpen, OnePayout
<1>7. \A l : PaidOut(l) => PaidOut(l)'
  BY <1>4 DEF PaidOut, Completed, AllStages, Stages
<1>8. \A l \in DOMAIN requests' : RequestHolds(l)'
  BY <1>1, <1>7 DEF OutInv, RequestHolds
<1>9. \A o \in DOMAIN payouts' : (PayoutHolds(payouts[o]) /\ SourceHolds(payouts[o]))'
  <2>1. PayoutHolds(s) /\ SourceHolds(s)
    BY <1>1, <1>2 DEF PayoutHolds, SourceHolds, Accepted, Evidence
  <2>2. PayoutHolds(payouts[n])' /\ SourceHolds(payouts[n])'
    BY <1>1, <1>4, <2>1 DEF PayoutHolds, SourceHolds, LivePay, Stages, AllStages
  <2>3. ASSUME NEW o \in DOMAIN payouts
        PROVE  PayoutHolds(payouts[o])' /\ SourceHolds(payouts[o])'
    BY <1>1, <1>4 DEF OutInv, PayoutHolds, SourceHolds
  <2> QED BY <1>4, <2>2, <2>3
<1>10. LockedStays
  BY <1>1 DEF LockedStays
<1> QED BY <1>6, <1>8, <1>9, <1>10 DEF OutInv

\* The payout that completes is the only live one, so its request had no amount.
LEMMA CompleteKeeps ==
    ASSUME OutInv, NEW p \in DOMAIN payouts, CompletePayout(p)
    PROVE  OutInv' /\ LockedStays
<1>1. PICK q, k : /\ q = payouts[p] /\ k = q.request
                  /\ q.status = "recipient_confirmed" /\ Source(k, q.evidence)
                  /\ \A i \in DOMAIN Stages(q) : Stages(q)[i] \in q.received
  BY DEF CompletePayout, Revalidated
<1>2. /\ q \in PayoutType /\ PayoutHolds(q) /\ SourceHolds(q) /\ LivePay(q)
      /\ k \in DOMAIN requests /\ requests[k] \in RequestType /\ RequestHolds(k)
      /\ q.evidence \in DOMAIN evidence /\ evidence[q.evidence] \in EvidenceType
  BY <1>1, RowTypes DEF OutInv, SourceHolds, LivePay
<1>3. PICK amount \in AmountType :
        amount = [offset |-> evidence[q.evidence].settle, net |-> evidence[q.evidence].cash]
  <2>1. evidence[q.evidence].settle \in Nat /\ evidence[q.evidence].cash \in Nat
    BY <1>2 DEF EvidenceType
  <2>2. [offset |-> evidence[q.evidence].settle, net |-> evidence[q.evidence].cash] \in AmountType
    BY <2>1 DEF AmountType
  <2> QED BY <2>2
<1>4. PICK s \in RequestType :
        s = [requests[k] EXCEPT !.amount = amount, !.proof = "approved", !.activation = "active"]
  <2>1. [requests[k] EXCEPT !.amount = amount, !.proof = "approved",
                            !.activation = "active"] \in RequestType
    BY <1>2, <1>3 DEF RequestType
  <2> QED BY <2>1
<1>5. PICK t \in PayoutType : t = [q EXCEPT !.status = "completed"]
  <2>1. [q EXCEPT !.status = "completed"] \in PayoutType
    BY <1>2 DEF PayoutType
  <2> QED BY <2>1
<1>6. /\ requests' = [requests EXCEPT ![k] = s] /\ payouts' = [payouts EXCEPT ![p] = t]
      /\ UNCHANGED <<day, paid, collector, cifReady, evidence>>
      /\ requests \in Seq(RequestType) /\ payouts \in Seq(PayoutType)
  BY <1>1, <1>3, <1>4, <1>5 DEF CompletePayout, OutInv, Rows
<1>7. /\ DOMAIN requests' = DOMAIN requests /\ requests'[k] = s
      /\ \A l \in DOMAIN requests : l # k => requests'[l] = requests[l]
      /\ DOMAIN payouts' = DOMAIN payouts /\ payouts'[p] = t
      /\ \A o \in DOMAIN payouts : o # p => payouts'[o] = payouts[o]
      /\ requests' \in Seq(RequestType) /\ payouts' \in Seq(PayoutType)
  BY <1>2, <1>4, <1>5, <1>6
<1>8. /\ t.request = k /\ t.evidence = q.evidence /\ t.received = q.received
      /\ t.status = "completed" /\ t.debits = q.debits /\ t.destination = q.destination
  BY <1>1, <1>2, <1>5 DEF PayoutType
<1>9. /\ s.status = requests[k].status /\ s.cash = requests[k].cash
      /\ s.confirmed = requests[k].confirmed
      /\ requests[k].status = "approved" /\ requests[k].cash = "none" /\ ~requests[k].confirmed
  BY <1>1, <1>2, <1>4 DEF RequestType, Source, Accepted
<1>10. Completed(t) /\ PayoutHolds(t)
  <2>1. Stages(t) = Stages(q) /\ AllStages(t) = AllStages(q)
    BY <1>8 DEF Stages, AllStages
  <2>2. q.received = AllStages(q)
    BY <1>1, <1>2 DEF PayoutHolds, AllStages
  <2> QED BY <1>2, <1>8, <2>1, <2>2 DEF Completed, PayoutHolds, LivePay
<1>11. PaidOut(k)'
  BY <1>7, <1>8, <1>10 DEF PaidOut
<1>12. \A l : PaidOut(l) => PaidOut(l)'
  <2> SUFFICES ASSUME NEW l, NEW o \in DOMAIN payouts, payouts[o].request = l,
                      Completed(payouts[o])
               PROVE  PaidOut(l)'
    BY DEF PaidOut
  <2>1. payouts'[o] = payouts[o] /\ o \in DOMAIN payouts'
    BY <1>1, <1>7 DEF Completed
  <2> QED BY <2>1 DEF PaidOut
<1>13. requests[k].amount = NoAmount
  <2> SUFFICES ASSUME requests[k].amount # NoAmount PROVE FALSE
    OBVIOUS
  <2>1. PICK o \in DOMAIN payouts : Completed(payouts[o])
    BY <1>2, <1>9 DEF RequestHolds, PaidOut
  <2> QED BY <1>1, <2>1 DEF OutInv, OnePayout, LivePay, Completed
<1>14. Rows' /\ OneIsOpen' /\ OnePayout'
  <2>1. Rows'
    BY <1>6, <1>7 DEF OutInv, Rows
  <2>2. OneIsOpen'
    BY <1>7, <1>9 DEF OutInv, OneIsOpen, Open
  <2>3. OnePayout'
    BY <1>1, <1>2, <1>7 DEF OutInv, OnePayout
  <2> QED BY <2>1, <2>2, <2>3
<1>15. \A l \in DOMAIN requests' : RequestHolds(l)'
  <2>1. RequestHolds(k)'
    BY <1>7, <1>9, <1>11 DEF RequestHolds, CashHolds
  <2>2. ASSUME NEW l \in DOMAIN requests, l # k PROVE RequestHolds(l)'
    BY <1>7, <1>12, <2>2 DEF OutInv, RequestHolds
  <2> QED BY <1>7, <2>1, <2>2
<1>16. \A o \in DOMAIN payouts' : (PayoutHolds(payouts[o]) /\ SourceHolds(payouts[o]))'
  <2>1. PayoutHolds(payouts[p])'
    BY <1>7, <1>10 DEF PayoutHolds, Stages, AllStages, LivePay
  <2>2. SourceHolds(payouts[p])'
    BY <1>1, <1>2, <1>6, <1>7, <1>8, <1>9 DEF SourceHolds
  <2>3. ASSUME NEW o \in DOMAIN payouts, o # p
        PROVE  PayoutHolds(payouts[o])' /\ SourceHolds(payouts[o])'
    <3>1. PayoutHolds(payouts[o]) /\ SourceHolds(payouts[o])
      BY DEF OutInv
    <3>2. SourceHolds(payouts[o])'
      BY <1>6, <1>7, <1>9, <2>3, <3>1 DEF SourceHolds
    <3> QED BY <1>7, <2>3, <3>1, <3>2 DEF PayoutHolds
  <2> QED BY <1>7, <2>1, <2>2, <2>3
<1>17. LockedStays
  BY <1>7, <1>13 DEF LockedStays
<1> QED BY <1>14, <1>15, <1>16, <1>17 DEF OutInv

\* Payments, the client's file, the collector and the day decide nothing already decided.
LEMMA AroundKeeps ==
    ASSUME RenewalAssumption, OutInv, Around \/ UNCHANGED vars
    PROVE  OutInv' /\ (LockedStays \/ UNCHANGED vars)
<1>1. UNCHANGED <<requests, evidence, payouts>>
  BY DEF Around, PayOldLoan, VoidPayment, ChangeCif, NextDay, Reassign, vars
<1>2. /\ day' \in 1 .. LastDay /\ paid' \in 0 .. Opening
      /\ collector' \in Collectors /\ cifReady' \in BOOLEAN
  <2>1. /\ day \in 1 .. LastDay /\ paid \in 0 .. Opening /\ LastDay \in Nat /\ Opening \in Nat
        /\ collector \in Collectors /\ cifReady \in BOOLEAN
    BY DEF OutInv, Rows, RenewalAssumption
  <2>2. CASE PayOldLoan
    BY <2>1, <2>2 DEF PayOldLoan, Settled
  <2>3. CASE VoidPayment
    BY <2>1, <2>3 DEF VoidPayment
  <2>4. CASE ChangeCif
    BY <2>1, <2>4 DEF ChangeCif
  <2>5. CASE NextDay
    BY <2>1, <2>5 DEF NextDay
  <2>6. ASSUME NEW c \in Collectors, Reassign(c) PROVE <1>2
    BY <2>1, <2>6 DEF Reassign
  <2>7. CASE UNCHANGED vars
    BY <2>1, <2>7 DEF vars
  <2> QED BY <2>2, <2>3, <2>4, <2>5, <2>6, <2>7 DEF Around
<1>3. OutInv'
  BY <1>1, <1>2 DEF OutInv, Rows, OneIsOpen, OnePayout, RequestHolds, PaidOut,
                    PayoutHolds, SourceHolds
<1> QED BY <1>1, <1>3 DEF LockedStays

-----------------------------------------------------------------------------
(* Every step.                                                             *)

LEMMA InitOut == RenewalAssumption /\ Init => OutInv
<1> SUFFICES ASSUME RenewalAssumption, Init PROVE OutInv
  OBVIOUS
<1>1. Rows
  BY DEF Init, Rows, RenewalAssumption
<1>2. DOMAIN requests = {} /\ DOMAIN payouts = {}
  BY DEF Init
<1> QED BY <1>1, <1>2 DEF OutInv, OneIsOpen, OnePayout

LEMMA NextKeeps ==
    ASSUME RenewalAssumption, OutInv, [Next]_vars
    PROVE  OutInv' /\ [LockedStays]_vars
<1>1. CASE Submit
  BY <1>1, SubmitKeeps
<1>2. ASSUME NEW k \in DOMAIN requests, RequestStep(k)
      PROVE  OutInv' /\ LockedStays
  <2>1. CASE \E principal \in Principals, settle, cash \in 0 .. Opening, bank \in BOOLEAN :
               RecordEvidence(k, principal, settle, cash, bank)
    BY <2>1, EvidenceKeeps
  <2>2. CASE \/ Cancel(k) \/ Recommend(k) \/ Sign(k)
             \/ \E principal \in Principals, office \in BOOLEAN, verified \in BOOLEAN :
                  Terms(k, TRUE, principal, office, verified)
             \/ Terms(k, FALSE, 0, FALSE, FALSE)
             \/ \E d \in {"accepted", "declined"} : Decide(k, d)
    BY <2>2, RequestMoves, SetKeeps
  <2> QED BY <1>2, <2>1, <2>2 DEF RequestStep
<1>3. ASSUME NEW k \in DOMAIN requests, CashStep(k)
      PROVE  OutInv' /\ LockedStays
  BY <1>3, CashMoves, SetKeeps
<1>4. ASSUME NEW k \in DOMAIN requests, NEW e \in DOMAIN evidence,
             NEW d \in {"collector", "borrower"}, Prepare(k, e, d)
      PROVE  OutInv' /\ LockedStays
  BY <1>4, PrepareKeeps
<1>5. ASSUME NEW e \in DOMAIN evidence, VoidEvidence(e) \/ PostJournal(e)
      PROVE  OutInv' /\ LockedStays
  BY <1>5, EvidenceKeeps
<1>6. ASSUME NEW p \in DOMAIN payouts, PayoutStep(p)
      PROVE  OutInv' /\ LockedStays
  <2>1. CASE CompletePayout(p)
    BY <2>1, CompleteKeeps
  <2>2. CASE \/ \E exact \in BOOLEAN : Debit(p, exact)
             \/ CancelPayout(p) \/ ConfirmRecipient(p)
             \/ \E i \in DOMAIN Stages(payouts[p]) : Acknowledge(p, i)
    BY <2>2, PayoutPays, SetPayoutKeeps
  <2> QED BY <1>6, <2>1, <2>2 DEF PayoutStep
<1>7. CASE Around \/ UNCHANGED vars
  BY <1>7, AroundKeeps
<1> QED BY <1>1, <1>2, <1>3, <1>4, <1>5, <1>6, <1>7 DEF Next

LEMMA OutStays ==
    ASSUME RenewalAssumption
    PROVE  Spec => []OutInv
<1>1. Init => OutInv
  BY InitOut
<1>2. OutInv /\ [Next]_vars => OutInv'
  BY NextKeeps
<1> QED BY <1>1, <1>2, PTL DEF Spec

-----------------------------------------------------------------------------
(* What follows.                                                           *)

LEMMA AtMostOne ==
    ASSUME NEW S, \A x, y \in S : x = y
    PROVE  Cardinality(S) \in {0, 1} /\ (Cardinality(S) = 0 <=> S = {})
<1>1. CASE S = {}
  BY <1>1, FS_EmptySet
<1>2. ASSUME NEW x \in S PROVE Cardinality(S) = 1
  <2>1. S = {x}
    OBVIOUS
  <2> QED BY <2>1, FS_Singleton
<1> QED BY <1>1, <1>2

\* The money of a renewal is accepted, evidenced and accounted for once.
LEMMA OutOnce ==
    ASSUME OutInv
    PROVE  RenewalGoesOutOnce
<1> DEFINE C == {k \in DOMAIN requests : CashOut(k)}
           P == {p \in DOMAIN payouts : Funded(p)}
<1>1. \A k \in C : Accepted(requests[k]) /\ Ready(requests[k])
  BY DEF OutInv, RequestHolds, CashHolds, CashOut
<1>2. \A p \in P : LivePay(payouts[p])
  BY DEF Funded, LivePay
<1>3. \A k, l \in C : k = l
  BY <1>1 DEF OutInv, OneIsOpen, Open, Accepted
<1>4. \A p, q \in P : p = q
  BY <1>2 DEF OutInv, OnePayout
<1>5. C = {} \/ P = {}
  <2> SUFFICES ASSUME NEW k \in C, NEW p \in P PROVE FALSE
    OBVIOUS
  <2>1. /\ payouts[p].request \in DOMAIN requests
        /\ requests[payouts[p].request].status = "approved"
        /\ requests[payouts[p].request].cash = "none"
    BY <1>2 DEF OutInv, SourceHolds
  <2>2. payouts[p].request = k
    BY <1>1, <2>1 DEF OutInv, OneIsOpen, Open, Accepted
  <2> QED BY <2>1, <2>2 DEF CashOut
<1>6. ProceedsOutOnce
  <2>1. Cardinality(C) + Cardinality(P) <= 1
    BY <1>3, <1>4, <1>5, AtMostOne
  <2> QED BY <2>1 DEF ProceedsOutOnce
<1>7. DebitIsKept
  BY DEF OutInv, PayoutHolds, LivePay, DebitIsKept
<1>8. CashIsAccepted
  BY DEF OutInv, RequestHolds, CashHolds, CashOut, CashIsAccepted
<1>9. ActiveIsReceived
  BY DEF OutInv, RequestHolds, PaidOut, Completed, AllStages, LivePayout, ActiveIsReceived
<1>10. PayoutKeepsEvidence
  BY DEF OutInv, SourceHolds, LivePay, PayoutKeepsEvidence
<1>11. HandedInOrder
  BY DEF OutInv, PayoutHolds, HandedInOrder
<1> QED BY <1>6, <1>7, <1>8, <1>9, <1>10, <1>11 DEF RenewalGoesOutOnce

\* The proceeds of a renewal are accounted for by cash or by one payout that a debit
\* funds, never both, for whatever number of requests, replaced evidence and payouts and
\* debits that name any of them; cash is accepted, a payout is not replaced over a debit
\* recorded against it, the evidence of a live payout stands, the money is handed on in
\* order and only a renewal that reached the borrower is active (release, prepare,
\* link_debit, action, complete, _try_activate).
THEOREM RenewalOutOnce ==
    ASSUME RenewalAssumption
    PROVE  Spec => []RenewalGoesOutOnce
<1>1. OutInv => RenewalGoesOutOnce
  BY OutOnce
<1> QED BY <1>1, OutStays, PTL

\* An amount that was locked, its principal and the borrower's answer are never written
\* again, whatever happens to the evidence (amount_locked_at).
THEOREM LockedNeverChanges ==
    ASSUME RenewalAssumption
    PROVE  Spec => [][LockedStays]_vars
<1>1. OutInv /\ [Next]_vars => [LockedStays]_vars
  BY NextKeeps
<1> QED BY <1>1, OutStays, PTL DEF Spec
================================================================================
