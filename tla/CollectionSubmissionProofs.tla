--------------------- MODULE CollectionSubmissionProofs ---------------------
(***************************************************************************)
(* Theorems about CollectionSubmission, for every value of its constants.  *)
(*                                                                         *)
(* A request is a message when it is retained, on the wire, delayed or     *)
(* posted.  The argument is about all messages at once: they are fresh when*)
(* they are built and distinct ever after, and no receipt that one of them *)
(* could have seen in its route was live then.                             *)
(***************************************************************************)
EXTENDS CollectionSubmission, SequenceTheorems, TLAPS

USE CollectorsAssumption, BoundsAssumption

Messages ==
    {m \in Requests : \/ \E c \in Collectors : m \in draft[c] \/ m \in sent[c]
                      \/ m \in delayed
                      \/ \E i \in DOMAIN receipts : receipts[i].request = m}

-----------------------------------------------------------------------------
(* The receipts.                                                           *)

\* A stored receipt is a typed record.
LEMMA ReceiptTyped ==
    ASSUME TypeOK, NEW i \in DOMAIN receipts
    PROVE  /\ receipts[i] \in ReceiptType
           /\ receipts[i].request \in Requests
           /\ receipts[i].vBefore \in Nat
           /\ receipts[i].vAfter \in Nat
           /\ receipts[i].voidedAt \in Nat
           /\ i \in Nat
<1>1. receipts[i] \in ReceiptType /\ i \in Nat
  BY ElementOfSeq, LenProperties DEF TypeOK
<1> QED BY <1>1 DEF ReceiptType

\* A posted request adds its receipt at the end.
LEMMA PostFacts ==
    ASSUME TypeOK, NEW m \in Requests, Post(m)
    PROVE  /\ Len(receipts) \in Nat
           /\ DOMAIN receipts = 1..Len(receipts)
           /\ DOMAIN receipts' = 1..(Len(receipts) + 1)
           /\ \A i \in DOMAIN receipts : receipts'[i] = receipts[i]
           /\ receipts'[Len(receipts) + 1].request = m
           /\ receipts'[Len(receipts) + 1].vBefore = version
           /\ receipts'[Len(receipts) + 1].vAfter = version + 1
           /\ receipts'[Len(receipts) + 1].voidedAt = 0
           /\ receipts' \in Seq(ReceiptType)
           /\ version' = version + 1
<1> DEFINE r == [request |-> m, vBefore |-> version, vAfter |-> version + 1, voidedAt |-> 0]
<1>1. receipts' = Append(receipts, r) /\ version' = version + 1
  BY DEF Post
<1>2. r \in ReceiptType
  BY DEF ReceiptType, TypeOK
<1>3. receipts \in Seq(ReceiptType)
  BY DEF TypeOK
<1>4. /\ r.request = m /\ r.vBefore = version /\ r.vAfter = version + 1 /\ r.voidedAt = 0
  OBVIOUS
<1> HIDE DEF r
<1>5. /\ Len(receipts) \in Nat
      /\ DOMAIN receipts = 1..Len(receipts)
      /\ DOMAIN receipts' = 1..(Len(receipts) + 1)
      /\ \A i \in DOMAIN receipts : receipts'[i] = receipts[i]
      /\ receipts'[Len(receipts) + 1] = r
      /\ receipts' \in Seq(ReceiptType)
  BY <1>1, <1>2, <1>3
<1> QED BY <1>1, <1>4, <1>5

\* A void changes the mark of one receipt.
LEMMA VoidFacts ==
    ASSUME TypeOK, NEW i \in DOMAIN receipts, VoidLatest(i)
    PROVE  /\ DOMAIN receipts' = DOMAIN receipts
           /\ \A j \in DOMAIN receipts :
                /\ receipts'[j].request = receipts[j].request
                /\ receipts'[j].vBefore = receipts[j].vBefore
                /\ receipts'[j].vAfter = receipts[j].vAfter
                /\ j # i => receipts'[j].voidedAt = receipts[j].voidedAt
           /\ receipts'[i].voidedAt = version + 1
           /\ receipts' \in Seq(ReceiptType)
           /\ version' = version + 1
<1> DEFINE r == [receipts[i] EXCEPT !.voidedAt = version + 1]
<1>1. receipts' = [receipts EXCEPT ![i] = r] /\ version' = version + 1
  BY DEF VoidLatest
<1>2. receipts[i] \in ReceiptType
  BY ReceiptTyped
<1>3. /\ r \in ReceiptType /\ r.request = receipts[i].request
      /\ r.vBefore = receipts[i].vBefore /\ r.vAfter = receipts[i].vAfter
      /\ r.voidedAt = version + 1
  <2>1. version + 1 \in Nat
    BY DEF TypeOK
  <2> HIDE DEF TypeOK
  <2> QED BY <1>2, <2>1 DEF ReceiptType
<1> HIDE DEF r
<1>4. receipts' \in Seq(ReceiptType)
  BY <1>1, <1>3, ExceptSeq, LenProperties DEF TypeOK
<1>5. DOMAIN receipts' = DOMAIN receipts /\ receipts'[i] = r
      /\ \A j \in DOMAIN receipts : j # i => receipts'[j] = receipts[j]
  BY <1>1
<1> QED BY <1>1, <1>3, <1>4, <1>5
-----------------------------------------------------------------------------
(* Type correctness.                                                       *)

\* The answers of the executor name receipts, or nothing.
LEMMA AnswersTyped ==
    ASSUME TypeOK, NEW m \in Requests, NEW a \in Replay(m) \cup Refuse(m)
    PROVE  a \in [status : Statuses, receipt : Nat]
<1>1. \A i \in Existing(m) : i \in Nat
  BY ReceiptTyped DEF Existing
<1>2. \A s \in Statuses, n \in Nat : Answer(s, n) \in [status : Statuses, receipt : Nat]
  BY DEF Answer
<1>3. {"duplicate", "idempotency_mismatch", "device_sequence_reused", "rejected",
       "route_revision_changed"} \subseteq Statuses
  BY DEF Statuses
<1>4. CASE a \in Replay(m)
  <2>1. PICK i \in Existing(m) :
          a = Answer("duplicate", i) \/ a = Answer("idempotency_mismatch", 0)
    BY <1>4 DEF Replay
  <2> QED BY <2>1, <1>1, <1>2, <1>3
<1>5. CASE a \in Refuse(m)
  <2>1. \/ a = Answer("device_sequence_reused", 0) \/ a = Answer("rejected", 0)
        \/ a = Answer("route_revision_changed", 0)
    BY <1>5 DEF Refuse
  <2> QED BY <2>1, <1>2, <1>3
<1> QED BY <1>4, <1>5

\* The draft of a new entry is a request.
LEMMA DraftTyped ==
    ASSUME TypeOK, NEW c \in Collectors, NEW kind \in Kinds
    PROVE  BuildDraft(c, kind) \in Requests
  BY DEF TypeOK, BuildDraft, NextSequence, Requests

\* Closing a connection keeps the types of the wire.
LEMMA CloseTyped ==
    ASSUME TypeOK, NEW c \in Collectors, CloseConnection(c)
    PROVE  /\ sent' \in [Collectors -> SUBSET Requests]
           /\ answer' \in [Collectors -> SUBSET [status : Statuses, receipt : Nat]]
           /\ delayed' \in SUBSET Requests
  BY DEF TypeOK, CloseConnection

\* What a server step does: nothing, a receipt for a message, a void of the
\* last receipt, or another change of the loan.
ServerStep ==
    \/ UNCHANGED server
    \/ \E m \in Messages : Post(m)
    \/ \E i \in DOMAIN receipts : VoidLatest(i)
    \/ version' = version + 1 /\ UNCHANGED receipts

\* Server steps keep the types of the server.
LEMMA ServerTyped ==
    ASSUME TypeOK, ServerStep
    PROVE  version' \in Nat /\ receipts' \in Seq(ReceiptType)
<1>1. CASE UNCHANGED server
  BY <1>1 DEF server, TypeOK
<1>2. ASSUME NEW m \in Messages, Post(m)
      PROVE  version' \in Nat /\ receipts' \in Seq(ReceiptType)
  BY <1>2, PostFacts DEF TypeOK, Messages
<1>3. ASSUME NEW i \in DOMAIN receipts, VoidLatest(i)
      PROVE  version' \in Nat /\ receipts' \in Seq(ReceiptType)
  BY <1>3, VoidFacts DEF TypeOK
<1>4. CASE version' = version + 1 /\ UNCHANGED receipts
  BY <1>4 DEF TypeOK
<1> QED BY <1>1, <1>2, <1>3, <1>4 DEF ServerStep

\* Every step of the system is a server step for the server.
LEMMA StepsOfServer ==
    ASSUME TypeOK, [Next]_vars
    PROVE  ServerStep
<1>1. CASE UNCHANGED vars
  BY <1>1 DEF vars, server, ServerStep
<1>2. ASSUME NEW c \in Collectors, NEW kind \in Kinds, Record(c, kind)
      PROVE  ServerStep
  BY <1>2 DEF Record, ServerStep
<1>3. ASSUME NEW c \in Collectors,
             \/ Retry(c) \/ Receive(c) \/ LoseConnection(c) \/ Restart(c) \/ ChangeAccess(c)
             \/ LoadRoute(c) \/ LoadOffline(c) \/ LoadRefused(c)
      PROVE  ServerStep
  BY <1>3 DEF Retry, Receive, LoseConnection, LoadRoute, LoadOffline, LoadRefused, Restart,
              ChangeAccess, ServerStep
<1>4. ASSUME NEW c \in Collectors, Serve(c)
      PROVE  ServerStep
  <2>1. PICK m \in sent[c] : UNCHANGED server \/ Post(m)
    BY <1>4 DEF Serve
  <2>2. m \in Messages
    BY <2>1 DEF Messages, TypeOK
  <2> QED BY <2>1, <2>2 DEF ServerStep
<1>5. ASSUME NEW m \in delayed, ServeDelayed(m)
      PROVE  ServerStep
  BY <1>5 DEF ServeDelayed, ServerStep, Messages, TypeOK
<1>6. ASSUME NEW m \in delayed, DropDelayed(m)
      PROVE  ServerStep
  BY <1>6 DEF DropDelayed, ServerStep
<1>7. ASSUME NEW i \in DOMAIN receipts, VoidLatest(i)
      PROVE  ServerStep
  BY <1>7 DEF ServerStep
<1>8. CASE ChangeLoan
  BY <1>8 DEF ChangeLoan, ServerStep
<1> QED BY <1>1, <1>2, <1>3, <1>4, <1>5, <1>6, <1>7, <1>8 DEF Next

LEMMA TypeStep ==
    ASSUME TypeOK, [Next]_vars
    PROVE  TypeOK'
<1>1. version' \in Nat /\ receipts' \in Seq(ReceiptType)
  BY StepsOfServer, ServerTyped
<1>2. CASE UNCHANGED vars
  BY <1>1, <1>2 DEF vars, app, wire, TypeOK
<1>3. ASSUME NEW c \in Collectors, NEW kind \in Kinds, Record(c, kind)
      PROVE  TypeOK'
  <2>1. BuildDraft(c, kind) \in Requests /\ NextSequence(c) \in Nat
    BY DraftTyped DEF TypeOK, NextSequence
  <2> QED BY <1>1, <1>3, <2>1 DEF Record, TypeOK
<1>4. ASSUME NEW c \in Collectors, Retry(c)
      PROVE  TypeOK'
  BY <1>1, <1>4 DEF Retry, app, TypeOK
<1>5. ASSUME NEW c \in Collectors, Receive(c)
      PROVE  TypeOK'
  <2>1. \E b \in BOOLEAN : blocked' = [blocked EXCEPT ![c] = b]
    BY <1>5 DEF Receive, TypeOK
  <2>2. draft' = [draft EXCEPT ![c] = {}]
    BY <1>5 DEF Receive
  <2> QED BY <1>1, <1>5, <2>1, <2>2 DEF Receive, TypeOK
<1>6. ASSUME NEW c \in Collectors, LoseConnection(c)
      PROVE  TypeOK'
  BY <1>1, <1>6, CloseTyped DEF LoseConnection, app, TypeOK
<1>7. ASSUME NEW c \in Collectors, LoadRoute(c) \/ LoadOffline(c) \/ LoadRefused(c)
      PROVE  TypeOK'
  <2>1. /\ view' \in {view, [view EXCEPT ![c] = version]}
        /\ draft' \in {draft, [draft EXCEPT ![c] = {}]}
        /\ \E b \in BOOLEAN : blocked' = [blocked EXCEPT ![c] = b]
    BY <1>7 DEF LoadRoute, LoadOffline, LoadRefused
  <2>2. UNCHANGED <<lastSeq, sent, answer, delayed, authorised, keys>>
    BY <1>7 DEF LoadRoute, LoadOffline, LoadRefused, wire
  <2>3. /\ view' \in [Collectors -> Nat] /\ draft' \in [Collectors -> SUBSET Requests]
        /\ blocked' \in [Collectors -> BOOLEAN]
    BY <2>1 DEF TypeOK
  <2> QED BY <1>1, <2>2, <2>3 DEF TypeOK
<1>8. ASSUME NEW c \in Collectors, Restart(c)
      PROVE  TypeOK'
  BY <1>1, <1>8, CloseTyped DEF Restart, TypeOK
<1>9. ASSUME NEW c \in Collectors, Serve(c)
      PROVE  TypeOK'
  <2>1. PICK m \in sent[c], a \in [status : Statuses, receipt : Nat] :
          answer' = [answer EXCEPT ![c] = {a}]
    <3>1. PICK m \in sent[c] :
            \/ \E a \in Replay(m) \cup Refuse(m) : answer' = [answer EXCEPT ![c] = {a}]
            \/ answer' = [answer EXCEPT ![c] = {Answer("denied", 0)}]
            \/ answer' = [answer EXCEPT ![c] = {Answer("accepted", Len(receipts) + 1)}]
      BY <1>9 DEF Serve
    <3>2. /\ Answer("denied", 0) \in [status : Statuses, receipt : Nat]
          /\ Answer("accepted", Len(receipts) + 1) \in [status : Statuses, receipt : Nat]
      <4>1. Len(receipts) \in Nat
        BY LenProperties DEF TypeOK
      <4> QED BY <4>1 DEF Answer, Statuses
    <3>3. m \in Requests
      BY DEF TypeOK
    <3> QED BY <3>1, <3>2, <3>3, AnswersTyped
  <2>2. sent' = [sent EXCEPT ![c] = {}]
    BY <1>9 DEF Serve
  <2> QED BY <1>1, <1>9, <2>1, <2>2 DEF Serve, app, TypeOK
<1>10. ASSUME NEW c \in Collectors, ChangeAccess(c)
       PROVE  TypeOK'
  BY <1>1, <1>10 DEF ChangeAccess, app, wire, TypeOK
<1>11. ASSUME NEW m \in delayed, ServeDelayed(m) \/ DropDelayed(m)
       PROVE  TypeOK'
  BY <1>1, <1>11 DEF ServeDelayed, DropDelayed, app, wire, TypeOK
<1>12. ASSUME NEW i \in DOMAIN receipts, VoidLatest(i)
       PROVE  TypeOK'
  BY <1>1, <1>12 DEF VoidLatest, app, wire, TypeOK
<1>13. CASE ChangeLoan
  BY <1>1, <1>13 DEF ChangeLoan, app, wire, TypeOK
<1> QED BY <1>2, <1>3, <1>4, <1>5, <1>6, <1>7, <1>8, <1>9, <1>10, <1>11, <1>12, <1>13 DEF Next

\* No order of losses, delays, replays and restarts leaves the types.
THEOREM SubmissionTyped == Spec => []TypeOK
<1>1. Init => TypeOK
  BY EmptySeq DEF Init, TypeOK
<1>2. TypeOK /\ [Next]_vars => TypeOK'
  BY TypeStep
<1> QED BY <1>1, <1>2, PTL DEF Spec
-----------------------------------------------------------------------------
(* The messages.                                                           *)

\* What is retained and what is on the wire is one draft.
WireCarriesDraft ==
    \A c \in Collectors :
        /\ \A m, n \in draft[c] : m = n
        /\ sent[c] # {} => sent[c] = draft[c] /\ answer[c] = {}

\* A message was built from what its collector had then.
MessagesAreFresh ==
    \A m \in Messages :
        m.key <= keys /\ m.seq <= lastSeq[m.by] /\ m.revision <= version

\* A key stands for one draft, and so does a sequence of a device.
MessagesDiffer ==
    \A m, n \in Messages : m.key = n.key \/ (m.by = n.by /\ m.seq = n.seq) => m = n

\* A key has one receipt.
KeysHaveOneReceipt ==
    \A i, j \in DOMAIN receipts :
        receipts[i].request.key = receipts[j].request.key => i = j

\* Receipts follow each other in the history of the loan.
ReceiptsAreOrdered ==
    /\ \A i \in DOMAIN receipts :
        /\ receipts[i].vBefore < receipts[i].vAfter
        /\ receipts[i].vAfter <= version
        /\ receipts[i].voidedAt <= version
    /\ \A i, j \in DOMAIN receipts : i < j => receipts[i].vAfter <= receipts[j].vBefore

\* A receipt posted before revision v was voided before it.
NothingLiveAt(v) ==
    \A i \in DOMAIN receipts :
        receipts[i].vAfter <= v => receipts[i].voidedAt \in 1..v

\* The route behind a message showed no collection, and no route is ahead.
MessagesSawNothing ==
    /\ \A m \in Messages : NothingLiveAt(m.revision)
    /\ \A c \in Collectors : view[c] <= version

HistoryInv == /\ WireCarriesDraft /\ MessagesAreFresh /\ MessagesDiffer
              /\ KeysHaveOneReceipt /\ ReceiptsAreOrdered /\ MessagesSawNothing

\* No step but a new entry makes a message.
NoNewMessage ==
    /\ Messages' \subseteq Messages
    /\ UNCHANGED <<keys, lastSeq>>

\* A posted receipt is for a message, and the receipts stay with theirs.
LEMMA ReceiptsAreMessages ==
    ASSUME TypeOK, ServerStep, NEW i \in DOMAIN receipts'
    PROVE  receipts'[i].request \in Messages
<1>1. \A j \in DOMAIN receipts : receipts[j].request \in Messages
  BY ReceiptTyped DEF Messages
<1>2. CASE UNCHANGED server \/ UNCHANGED receipts
  BY <1>1, <1>2 DEF server
<1>3. ASSUME NEW m \in Messages, Post(m)
      PROVE  receipts'[i].request \in Messages
  <2>1. m \in Requests
    BY DEF Messages
  <2>2. i \in DOMAIN receipts \/ i = Len(receipts) + 1
    BY <2>1, <1>3, PostFacts
  <2> QED BY <2>1, <2>2, <1>1, <1>3, PostFacts
<1>4. ASSUME NEW j \in DOMAIN receipts, VoidLatest(j)
      PROVE  receipts'[i].request \in Messages
  BY <1>1, <1>4, VoidFacts
<1> QED BY <1>2, <1>3, <1>4 DEF ServerStep

\* A step whose drafts and requests were there before makes no message.
LEMMA NoNewMessageFrom ==
    ASSUME TypeOK, ServerStep, UNCHANGED <<keys, lastSeq>>,
           \A c \in Collectors : draft'[c] \cup sent'[c] \subseteq draft[c] \cup sent[c],
           \A m \in delayed' : m \in delayed \/ \E c \in Collectors : m \in sent[c]
    PROVE  NoNewMessage
<1> SUFFICES ASSUME NEW m \in Messages'
             PROVE  m \in Messages
  BY DEF NoNewMessage
<1>1. m \in Requests
  BY DEF Messages
<1>2. CASE \E c \in Collectors : m \in draft'[c] \/ m \in sent'[c]
  BY <1>1, <1>2 DEF Messages
<1>3. CASE m \in delayed'
  BY <1>1, <1>3 DEF Messages
<1>4. CASE \E i \in DOMAIN receipts' : receipts'[i].request = m
  BY <1>4, ReceiptsAreMessages
<1> QED BY <1>2, <1>3, <1>4 DEF Messages

\* A new entry makes exactly the message of its draft.
LEMMA RecordMessages ==
    ASSUME TypeOK, NEW c \in Collectors, NEW kind \in Kinds, Record(c, kind)
    PROVE  Messages' \subseteq Messages \cup {BuildDraft(c, kind)}
<1>1. /\ draft' = [draft EXCEPT ![c] = {BuildDraft(c, kind)}]
      /\ sent' = [sent EXCEPT ![c] = {BuildDraft(c, kind)}]
      /\ UNCHANGED <<delayed, receipts>>
  BY DEF Record, server
<1> QED BY <1>1 DEF Messages, TypeOK

\* Every step makes a new entry or no message, and keeps the wire consistent.
LEMMA StepsOfWire ==
    ASSUME TypeOK, WireCarriesDraft, [Next]_vars
    PROVE  /\ WireCarriesDraft'
           /\ \/ NoNewMessage
              \/ \E c \in Collectors, kind \in Kinds : Record(c, kind)
<1> USE StepsOfServer
<1>1. CASE UNCHANGED vars
  BY <1>1, NoNewMessageFrom DEF vars, app, wire, WireCarriesDraft
<1>2. ASSUME NEW c \in Collectors, NEW kind \in Kinds, Record(c, kind)
      PROVE  WireCarriesDraft'
  BY <1>2 DEF Record, Submitting, WireCarriesDraft, TypeOK
<1>3. ASSUME NEW c \in Collectors, Retry(c)
      PROVE  WireCarriesDraft' /\ NoNewMessage
  <2>1. WireCarriesDraft'
    BY <1>3 DEF Retry, app, Submitting, WireCarriesDraft, TypeOK
  <2>2. /\ UNCHANGED <<keys, lastSeq, delayed>>
        /\ \A b \in Collectors : draft'[b] \cup sent'[b] \subseteq draft[b] \cup sent[b]
    BY <1>3 DEF Retry, app, TypeOK
  <2> QED BY <2>1, <2>2, NoNewMessageFrom
<1>4. ASSUME NEW c \in Collectors, Receive(c)
      PROVE  WireCarriesDraft' /\ NoNewMessage
  <2>1. /\ draft' = [draft EXCEPT ![c] = {}] /\ answer' = [answer EXCEPT ![c] = {}]
        /\ answer[c] # {}
        /\ UNCHANGED <<keys, lastSeq, delayed, sent>>
    BY <1>4 DEF Receive
  <2>2. WireCarriesDraft'
    BY <2>1 DEF WireCarriesDraft, TypeOK
  <2>3. \A b \in Collectors : draft'[b] \cup sent'[b] \subseteq draft[b] \cup sent[b]
    BY <2>1 DEF TypeOK
  <2> QED BY <2>1, <2>2, <2>3, NoNewMessageFrom
<1>5. ASSUME NEW c \in Collectors, LoseConnection(c)
      PROVE  WireCarriesDraft' /\ NoNewMessage
  <2>1. WireCarriesDraft'
    BY <1>5 DEF LoseConnection, CloseConnection, app, WireCarriesDraft, TypeOK
  <2>2. /\ UNCHANGED <<keys, lastSeq>> /\ delayed' \subseteq delayed \cup sent[c]
        /\ \A b \in Collectors : draft'[b] \cup sent'[b] \subseteq draft[b] \cup sent[b]
    BY <1>5 DEF LoseConnection, CloseConnection, app, TypeOK
  <2>3. \A m \in delayed' : m \in delayed \/ \E b \in Collectors : m \in sent[b]
    BY <2>2
  <2> QED BY <2>1, <2>2, <2>3, NoNewMessageFrom
<1>6. ASSUME NEW c \in Collectors, LoadRoute(c) \/ LoadOffline(c) \/ LoadRefused(c)
      PROVE  WireCarriesDraft' /\ NoNewMessage
  <2>1. WireCarriesDraft'
    <3>1. /\ sent[c] = {} /\ sent' = sent /\ answer' = answer
          /\ draft' = draft \/ draft' = [draft EXCEPT ![c] = {}]
      BY <1>6 DEF LoadRoute, LoadOffline, LoadRefused, wire, Submitting
    <3> QED BY <3>1 DEF WireCarriesDraft, TypeOK
  <2>2. /\ UNCHANGED <<keys, lastSeq, delayed>>
        /\ \A b \in Collectors : draft'[b] \cup sent'[b] \subseteq draft[b] \cup sent[b]
    BY <1>6 DEF LoadRoute, LoadOffline, LoadRefused, wire, TypeOK
  <2> QED BY <2>1, <2>2, NoNewMessageFrom
<1>7. ASSUME NEW c \in Collectors, Restart(c)
      PROVE  WireCarriesDraft' /\ NoNewMessage
  <2>1. WireCarriesDraft'
    BY <1>7 DEF Restart, CloseConnection, WireCarriesDraft, TypeOK
  <2>2. /\ UNCHANGED <<keys, lastSeq>> /\ delayed' \subseteq delayed \cup sent[c]
        /\ \A b \in Collectors : draft'[b] \cup sent'[b] \subseteq draft[b] \cup sent[b]
    BY <1>7 DEF Restart, CloseConnection, TypeOK
  <2>3. \A m \in delayed' : m \in delayed \/ \E b \in Collectors : m \in sent[b]
    BY <2>2
  <2> QED BY <2>1, <2>2, <2>3, NoNewMessageFrom
<1>8. ASSUME NEW c \in Collectors, Serve(c)
      PROVE  WireCarriesDraft' /\ NoNewMessage
  <2>1. /\ sent' = [sent EXCEPT ![c] = {}]
        /\ \A b \in Collectors : b # c => answer'[b] = answer[b]
        /\ UNCHANGED <<keys, lastSeq, delayed, draft>>
    BY <1>8 DEF Serve, app, TypeOK
  <2>2. WireCarriesDraft'
    BY <2>1 DEF WireCarriesDraft, TypeOK
  <2>3. \A b \in Collectors : draft'[b] \cup sent'[b] \subseteq draft[b] \cup sent[b]
    BY <2>1 DEF TypeOK
  <2> QED BY <2>1, <2>2, <2>3, NoNewMessageFrom
<1>9. CASE \/ \E c \in Collectors : ChangeAccess(c)
           \/ \E m \in delayed : ServeDelayed(m) \/ DropDelayed(m)
           \/ \E i \in DOMAIN receipts : VoidLatest(i)
           \/ ChangeLoan
  <2>1. UNCHANGED <<keys, lastSeq, draft, sent, answer>> /\ delayed' \subseteq delayed
    BY <1>9 DEF ChangeAccess, ServeDelayed, DropDelayed, VoidLatest, ChangeLoan, app, wire
  <2> QED BY <2>1, NoNewMessageFrom DEF WireCarriesDraft
<1> QED BY <1>1, <1>2, <1>3, <1>4, <1>5, <1>6, <1>7, <1>8, <1>9 DEF Next
-----------------------------------------------------------------------------
(* The history.                                                            *)

\* A new entry is fresh, differs from every message and saw no collection.
LEMMA RecordKeepsHistory ==
    ASSUME TypeOK, HistoryInv, NEW c \in Collectors, NEW kind \in Kinds, Record(c, kind)
    PROVE  HistoryInv'
<1> DEFINE m0 == BuildDraft(c, kind)
<1>1. /\ m0 \in Requests /\ m0.key = keys + 1 /\ m0.seq = lastSeq[c] + 1
      /\ m0.by = c /\ m0.revision = view[c]
  BY DraftTyped DEF BuildDraft, NextSequence
<1>2. Messages' \subseteq Messages \cup {m0}
  BY RecordMessages
<1>3. /\ keys' = keys + 1 /\ lastSeq' = [lastSeq EXCEPT ![c] = lastSeq[c] + 1]
      /\ UNCHANGED <<view, version, receipts>> /\ ~ProcessedToday(c)
  BY DEF Record, server, NextSequence
<1> HIDE DEF m0
<1>4. \A m \in Messages : m \in Requests
  BY DEF Messages
<1>5. WireCarriesDraft'
  BY StepsOfWire DEF HistoryInv, Next
<1>6. MessagesAreFresh'
  <2>1. \A m \in Messages : m.key <= keys' /\ m.seq <= lastSeq'[m.by] /\ m.revision <= version'
    <3>1. TAKE m \in Messages
    <3>2. /\ m.by \in Collectors /\ m.key \in Nat /\ m.seq \in Nat
          /\ lastSeq[m.by] \in Nat /\ keys \in Nat
      BY <1>4 DEF TypeOK, Requests
    <3>3. m.key <= keys /\ m.seq <= lastSeq[m.by] /\ m.revision <= version
      BY DEF HistoryInv, MessagesAreFresh
    <3>4. lastSeq'[m.by] \in {lastSeq[m.by], lastSeq[m.by] + 1}
      BY <1>3, <3>2 DEF TypeOK
    <3> QED BY <1>3, <3>2, <3>3, <3>4
  <2>2. m0.key <= keys' /\ m0.seq <= lastSeq'[m0.by] /\ m0.revision <= version'
    BY <1>1, <1>3 DEF HistoryInv, MessagesSawNothing, TypeOK
  <2> QED BY <1>2, <2>1, <2>2 DEF MessagesAreFresh
<1>7. MessagesDiffer'
  <2>1. \A m \in Messages : m.key # m0.key /\ ~(m.by = m0.by /\ m.seq = m0.seq)
    BY <1>1, <1>4 DEF HistoryInv, MessagesAreFresh, TypeOK, Requests
  <2> QED BY <1>2, <2>1 DEF HistoryInv, MessagesDiffer
<1>8. KeysHaveOneReceipt' /\ ReceiptsAreOrdered'
  BY <1>3 DEF HistoryInv, KeysHaveOneReceipt, ReceiptsAreOrdered
<1>9. MessagesSawNothing'
  <2>1. NothingLiveAt(m0.revision)
    BY <1>1, <1>3 DEF ProcessedToday, NothingLiveAt
  <2>2. \A m \in Messages' : NothingLiveAt(m.revision)
    BY <1>2, <2>1 DEF HistoryInv, MessagesSawNothing
  <2> QED BY <1>3, <2>2 DEF HistoryInv, MessagesSawNothing, NothingLiveAt
<1> QED BY <1>5, <1>6, <1>7, <1>8, <1>9 DEF HistoryInv

\* The views of a step are old ones, or the version of now.
LEMMA StepsOfView ==
    ASSUME TypeOK, [Next]_vars, NEW c \in Collectors
    PROVE  view'[c] = view[c] \/ (view'[c] = version /\ UNCHANGED server)
<1>1. CASE UNCHANGED vars
  BY <1>1 DEF vars, app
<1>2. CASE \E b \in Collectors : LoadRoute(b)
  BY <1>2 DEF LoadRoute, TypeOK
<1>3. CASE \E b \in Collectors :
            \/ \E kind \in Kinds : Record(b, kind)
            \/ Retry(b) \/ Receive(b) \/ LoseConnection(b) \/ Restart(b)
            \/ LoadOffline(b) \/ LoadRefused(b) \/ Serve(b) \/ ChangeAccess(b)
  BY <1>3 DEF Record, Retry, Receive, LoseConnection, Restart, LoadOffline, LoadRefused,
              Serve, ChangeAccess, app
<1>4. CASE \/ \E m \in delayed : ServeDelayed(m) \/ DropDelayed(m)
           \/ \E i \in DOMAIN receipts : VoidLatest(i)
           \/ ChangeLoan
  BY <1>4 DEF ServeDelayed, DropDelayed, VoidLatest, ChangeLoan, app
<1> QED BY <1>1, <1>2, <1>3, <1>4 DEF Next

\* A server step keeps the order of the receipts and what the messages saw.
LEMMA ServerKeepsReceipts ==
    ASSUME TypeOK, HistoryInv, ServerStep
    PROVE  /\ KeysHaveOneReceipt' /\ ReceiptsAreOrdered'
           /\ \A m \in Messages : NothingLiveAt(m.revision)'
           /\ version' \in Nat /\ version <= version'
<1> DEFINE Goal == /\ KeysHaveOneReceipt' /\ ReceiptsAreOrdered'
                   /\ \A m \in Messages : NothingLiveAt(m.revision)'
                   /\ version' \in Nat /\ version <= version'
<1>1. /\ \A i \in DOMAIN receipts :
            /\ i \in Nat /\ receipts[i].vBefore \in Nat /\ receipts[i].vAfter \in Nat
            /\ receipts[i].voidedAt \in Nat /\ receipts[i].request \in Messages
      /\ \A m \in Messages : m \in Requests /\ m.revision \in Nat /\ m.revision <= version
      /\ version \in Nat
  BY ReceiptTyped DEF Messages, Requests, TypeOK, HistoryInv, MessagesAreFresh
<1>2. CASE UNCHANGED receipts /\ version' \in {version, version + 1}
  BY <1>1, <1>2 DEF HistoryInv, KeysHaveOneReceipt, ReceiptsAreOrdered,
                    MessagesSawNothing, NothingLiveAt
<1>3. ASSUME NEW m0 \in Messages, Post(m0)
      PROVE  Goal
  <2> DEFINE new == Len(receipts) + 1
  <2>1. /\ DOMAIN receipts = 1..Len(receipts) /\ DOMAIN receipts' = 1..new
        /\ Len(receipts) \in Nat /\ version' = version + 1
        /\ \A i \in DOMAIN receipts : receipts'[i] = receipts[i]
        /\ receipts'[new].request = m0 /\ receipts'[new].voidedAt = 0
        /\ receipts'[new].vBefore = version /\ receipts'[new].vAfter = version + 1
    BY <1>1, <1>3, PostFacts
  <2> HIDE DEF new
  <2>2. DOMAIN receipts' = DOMAIN receipts \cup {new} /\ new \notin DOMAIN receipts
        /\ new \in Nat /\ \A i \in DOMAIN receipts : i < new
    BY <2>1 DEF new
  <2>3. \A i \in DOMAIN receipts : receipts[i].request.key # m0.key
    BY <1>3 DEF Post, Existing
  <2>4. KeysHaveOneReceipt'
    BY <2>1, <2>2, <2>3 DEF HistoryInv, KeysHaveOneReceipt
  <2>5. ReceiptsAreOrdered'
    <3>1. \A i \in DOMAIN receipts' : /\ receipts'[i].vBefore < receipts'[i].vAfter
                                      /\ receipts'[i].vAfter <= version'
                                      /\ receipts'[i].voidedAt <= version'
      <4>1. TAKE i \in DOMAIN receipts'
      <4>2. CASE i \in DOMAIN receipts
        BY <1>1, <2>1, <4>2 DEF HistoryInv, ReceiptsAreOrdered
      <4>3. CASE i = new
        BY <1>1, <2>1, <4>3
      <4> QED BY <2>2, <4>2, <4>3
    <3>2. ASSUME NEW i \in DOMAIN receipts', NEW j \in DOMAIN receipts', i < j
          PROVE  receipts'[i].vAfter <= receipts'[j].vBefore
      <4>1. i \in DOMAIN receipts
        BY <1>1, <2>2, <3>2
      <4>2. CASE j \in DOMAIN receipts
        BY <2>1, <3>2, <4>1, <4>2 DEF HistoryInv, ReceiptsAreOrdered
      <4>3. CASE j = new
        BY <2>1, <4>1, <4>3 DEF HistoryInv, ReceiptsAreOrdered
      <4> QED BY <2>2, <4>2, <4>3
    <3> QED BY <3>1, <3>2 DEF ReceiptsAreOrdered
  <2>6. ASSUME NEW m \in Messages, NEW i \in DOMAIN receipts',
               receipts'[i].vAfter <= m.revision
        PROVE  receipts'[i].voidedAt \in 1..m.revision
    <3>1. i # new
      BY <1>1, <2>1, <2>6
    <3> QED BY <2>1, <2>2, <2>6, <3>1 DEF HistoryInv, MessagesSawNothing, NothingLiveAt
  <2> QED BY <1>1, <2>1, <2>4, <2>5, <2>6 DEF NothingLiveAt
<1>4. ASSUME NEW i \in DOMAIN receipts, VoidLatest(i)
      PROVE  Goal
  <2>1. /\ DOMAIN receipts' = DOMAIN receipts /\ version' = version + 1
        /\ \A j \in DOMAIN receipts :
            /\ receipts'[j].request = receipts[j].request
            /\ receipts'[j].vBefore = receipts[j].vBefore
            /\ receipts'[j].vAfter = receipts[j].vAfter
            /\ j # i => receipts'[j].voidedAt = receipts[j].voidedAt
        /\ receipts'[i].voidedAt = version + 1
    BY <1>4, VoidFacts
  <2>2. receipts[i].voidedAt = 0 /\ receipts[i].vAfter = version
    BY <1>4 DEF VoidLatest
  <2>3. KeysHaveOneReceipt' /\ ReceiptsAreOrdered'
    BY <1>1, <2>1, <2>2 DEF HistoryInv, KeysHaveOneReceipt, ReceiptsAreOrdered
  <2>4. \A m \in Messages : NothingLiveAt(m.revision)'
    BY <1>1, <2>1, <2>2 DEF HistoryInv, MessagesSawNothing, NothingLiveAt
  <2> QED BY <1>1, <2>1, <2>3, <2>4
<1>5. CASE UNCHANGED server
  BY <1>2, <1>5 DEF server
<1> QED BY <1>2, <1>3, <1>4, <1>5 DEF ServerStep

\* A step that makes no message keeps the history.
LEMMA NoNewMessageKeepsHistory ==
    ASSUME TypeOK, HistoryInv, [Next]_vars, NoNewMessage
    PROVE  HistoryInv'
<1>1. /\ KeysHaveOneReceipt' /\ ReceiptsAreOrdered'
      /\ \A m \in Messages : NothingLiveAt(m.revision)'
      /\ version' \in Nat /\ version <= version' /\ version \in Nat
  BY StepsOfServer, ServerKeepsReceipts DEF TypeOK
<1>2. /\ \A m \in Messages' : m \in Messages
      /\ \A m \in Messages : m \in Requests
      /\ UNCHANGED <<keys, lastSeq>>
  BY DEF NoNewMessage, Messages
<1>3. WireCarriesDraft'
  BY StepsOfWire DEF HistoryInv
<1>4. MessagesAreFresh'
  BY <1>1, <1>2 DEF HistoryInv, MessagesAreFresh, Requests, TypeOK
<1>5. MessagesDiffer'
  BY <1>2 DEF HistoryInv, MessagesDiffer
<1>6. \A c \in Collectors : view'[c] <= version'
  <2>1. TAKE c \in Collectors
  <2>2. view'[c] = view[c] \/ (view'[c] = version /\ version' = version)
    BY StepsOfView DEF server
  <2> QED BY <1>1, <2>2 DEF HistoryInv, MessagesSawNothing, TypeOK
<1>7. MessagesSawNothing'
  BY <1>1, <1>2, <1>6 DEF MessagesSawNothing
<1> QED BY <1>1, <1>3, <1>4, <1>5, <1>7 DEF HistoryInv

LEMMA HistoryInductive == Spec => [](TypeOK /\ HistoryInv)
<1>1. Init => TypeOK /\ HistoryInv
  <2>1. Init => TypeOK
    BY EmptySeq DEF Init, TypeOK
  <2>2. Init => Messages = {} /\ DOMAIN receipts = {}
    BY DEF Init, Messages
  <2>3. Init => HistoryInv
    BY <2>2 DEF Init, HistoryInv, WireCarriesDraft, MessagesAreFresh, MessagesDiffer,
                KeysHaveOneReceipt, ReceiptsAreOrdered, MessagesSawNothing
  <2> QED BY <2>1, <2>3
<1>2. TypeOK /\ HistoryInv /\ [Next]_vars => (TypeOK /\ HistoryInv)'
  BY TypeStep, StepsOfWire, RecordKeepsHistory, NoNewMessageKeepsHistory DEF HistoryInv
<1> QED BY <1>1, <1>2, PTL DEF Spec
-----------------------------------------------------------------------------
(* What follows.                                                           *)

\* Only a rebased payment gets a second receipt on the books: a receipt posted
\* with the exact revision followed receipts that were voided before.
THEOREM SecondReceiptsAreRebased == Spec => []SecondReceiptIsRebased
<1>1. TypeOK /\ HistoryInv => SecondReceiptIsRebased
  <2> SUFFICES ASSUME TypeOK, HistoryInv, NEW i \in DOMAIN receipts, NEW j \in DOMAIN receipts,
                      i < j, receipts[j].request.revision = receipts[j].vBefore
               PROVE  receipts[i].voidedAt \in 1..receipts[j].vBefore
    BY DEF SecondReceiptIsRebased
  <2>1. receipts[j].request \in Messages
    BY ReceiptTyped DEF Messages
  <2>2. receipts[i].vAfter <= receipts[j].vBefore
    BY DEF HistoryInv, ReceiptsAreOrdered
  <2> QED BY <2>1, <2>2 DEF HistoryInv, MessagesSawNothing, NothingLiveAt
<1> QED BY <1>1, HistoryInductive, PTL

\* A request whose key has a receipt is that receipt's request, and the executor
\* answers with the receipt.
LEMMA ReplayFacts ==
    ASSUME TypeOK, HistoryInv, NEW m \in Messages, NEW i \in DOMAIN receipts,
           receipts[i].request.key = m.key
    PROVE  /\ receipts[i].request = m
           /\ ~Post(m)
           /\ Refuse(m) = {}
           /\ \A a \in Replay(m) : a = Answer("duplicate", i)
<1>1. receipts[i].request = m
  BY ReceiptTyped DEF Messages, HistoryInv, MessagesDiffer
<1>2. Existing(m) = {i}
  BY DEF Existing, HistoryInv, KeysHaveOneReceipt
<1>3. Replay(m) = {Answer("duplicate", i)}
  BY <1>1, <1>2 DEF Replay
<1>4. Existing(m) # {}
  BY <1>2
<1>5. ~Post(m)
  BY <1>4 DEF Post
<1>6. Refuse(m) = {}
  BY <1>4 DEF Refuse
<1> QED BY <1>1, <1>3, <1>5, <1>6

\* A request in flight is a message.
LEMMA SentAreMessages ==
    ASSUME TypeOK, NEW c \in Collectors, NEW m \in sent[c]
    PROVE  m \in Messages
  BY DEF Messages, TypeOK

\* Whatever was lost, delayed or repeated, a committed entry is only ever
\* answered with its own receipt or a refusal of access.
THEOREM CommittedStaysReplayed == Spec => CommittedIsReplayed
<1>1. TypeOK /\ HistoryInv /\ [Next]_vars =>
        [\A c \in Collectors : \A m \in sent[c], a \in answer'[c], i \in DOMAIN receipts :
            receipts[i].request.key = m.key =>
                a.status = "denied" \/ a = Answer("duplicate", i)]_vars
  <2> SUFFICES ASSUME TypeOK, HistoryInv, Next, NEW c \in Collectors, NEW m \in sent[c],
                      NEW a \in answer'[c], NEW i \in DOMAIN receipts,
                      receipts[i].request.key = m.key
               PROVE  a.status = "denied" \/ a = Answer("duplicate", i)
    OBVIOUS
  <2>1. answer[c] = {}
    BY DEF HistoryInv, WireCarriesDraft
  <2>2. CASE Serve(c)
    <3>1. PICK n \in sent[c] :
            \/ \E b \in IF authorised[c] THEN Replay(n) \cup Refuse(n)
                      ELSE {Answer("denied", 0)} : answer' = [answer EXCEPT ![c] = {b}]
            \/ Post(n)
      BY <2>2 DEF Serve
    <3>2. n = m
      BY DEF HistoryInv, WireCarriesDraft
    <3>3. ~Post(m) /\ Refuse(m) = {} /\ \A b \in Replay(m) : b = Answer("duplicate", i)
      BY ReplayFacts, SentAreMessages
    <3>4. Answer("denied", 0).status = "denied"
      BY DEF Answer
    <3>5. CASE authorised[c]
      BY <3>1, <3>2, <3>3, <3>5 DEF TypeOK
    <3>6. CASE ~authorised[c]
      BY <3>1, <3>2, <3>3, <3>4, <3>6 DEF TypeOK
    <3> QED BY <3>5, <3>6
  <2>3. ASSUME ~Serve(c)
        PROVE  answer'[c] = {}
    <3>1. CASE \E b \in Collectors : b # c /\ Serve(b)
      BY <2>1, <3>1 DEF Serve, TypeOK
    <3>2. CASE \E b \in Collectors :
                \/ \E kind \in Kinds : Record(b, kind)
                \/ Retry(b) \/ Receive(b) \/ LoseConnection(b) \/ Restart(b)
                \/ LoadRoute(b) \/ LoadOffline(b) \/ LoadRefused(b) \/ ChangeAccess(b)
      BY <2>1, <3>2 DEF Record, Retry, Receive, LoseConnection, LoadRoute, LoadOffline,
                        LoadRefused, Restart, ChangeAccess, CloseConnection, wire, TypeOK
    <3>3. CASE \/ \E n \in delayed : ServeDelayed(n) \/ DropDelayed(n)
               \/ \E j \in DOMAIN receipts : VoidLatest(j)
               \/ ChangeLoan
      BY <2>1, <3>3 DEF ServeDelayed, DropDelayed, VoidLatest, ChangeLoan, wire
    <3> QED BY <2>3, <3>1, <3>2, <3>3 DEF Next
  <2> QED BY <2>2, <2>3
<1> QED BY <1>1, HistoryInductive, PTL DEF Spec, CommittedIsReplayed

\* A receipt keeps its request, whatever the server does.
LEMMA RequestsStay ==
    ASSUME TypeOK, ServerStep, NEW i \in DOMAIN receipts
    PROVE  i \in DOMAIN receipts' /\ receipts'[i].request = receipts[i].request
<1>1. CASE UNCHANGED server \/ UNCHANGED receipts
  BY <1>1 DEF server
<1>2. ASSUME NEW m \in Messages, Post(m)
      PROVE  i \in DOMAIN receipts' /\ receipts'[i].request = receipts[i].request
  <2>1. m \in Requests
    BY DEF Messages
  <2> QED BY <2>1, <1>2, PostFacts
<1>3. ASSUME NEW j \in DOMAIN receipts, VoidLatest(j)
      PROVE  i \in DOMAIN receipts' /\ receipts'[i].request = receipts[i].request
  BY <1>3, VoidFacts
<1> QED BY <1>1, <1>2, <1>3 DEF ServerStep

\* The answers of one collector, and the two properties of them together.
AnswersFit(c) ==
    \A a \in answer[c] :
        /\ a.status \in Saved =>
            a.receipt \in DOMAIN receipts /\ draft[c] = {receipts[a.receipt].request}
        /\ a.status \notin {"idempotency_mismatch", "device_sequence_reused"}

\* An answer that stays fits as long as its draft stays.
LEMMA AnswersKeepFitting ==
    ASSUME TypeOK, ServerStep, NEW c \in Collectors, AnswersFit(c),
           answer'[c] = {} \/ (answer'[c] = answer[c] /\ draft'[c] = draft[c])
    PROVE  AnswersFit(c)'
  BY RequestsStay DEF AnswersFit

\* The answer of a server step fits the draft it was sent with.
LEMMA ServeFits ==
    ASSUME TypeOK, HistoryInv, NEW c \in Collectors, Serve(c)
    PROVE  AnswersFit(c)'
<1>1. PICK m \in sent[c] :
        \/ /\ \E a \in IF authorised[c] THEN Replay(m) \cup Refuse(m) ELSE {Answer("denied", 0)} :
                answer' = [answer EXCEPT ![c] = {a}]
           /\ UNCHANGED server
        \/ Post(m) /\ answer' = [answer EXCEPT ![c] = {Answer("accepted", Len(receipts) + 1)}]
  BY DEF Serve
<1>2. m \in Messages /\ m \in Requests
  BY SentAreMessages DEF Messages
<1>3. draft[c] = {m} /\ draft' = draft
  BY DEF HistoryInv, WireCarriesDraft, Serve, app
<1>4. \A s \in Statuses, n \in Nat : Answer(s, n).status = s /\ Answer(s, n).receipt = n
  BY DEF Answer
<1>5. CASE /\ Post(m)
           /\ answer' = [answer EXCEPT ![c] = {Answer("accepted", Len(receipts) + 1)}]
  <2>1. /\ Len(receipts) + 1 \in DOMAIN receipts' /\ Len(receipts) + 1 \in Nat
        /\ receipts'[Len(receipts) + 1].request = m
    BY <1>2, <1>5, PostFacts
  <2>2. "accepted" \in Statuses /\ "accepted" \notin {"idempotency_mismatch", "device_sequence_reused"}
    BY DEF Statuses
  <2>3. answer'[c] = {Answer("accepted", Len(receipts) + 1)}
    BY <1>5 DEF TypeOK
  <2> QED BY <1>3, <1>4, <2>1, <2>2, <2>3 DEF AnswersFit
<1>6. ASSUME NEW a \in IF authorised[c] THEN Replay(m) \cup Refuse(m) ELSE {Answer("denied", 0)},
             answer' = [answer EXCEPT ![c] = {a}], UNCHANGED server
      PROVE  AnswersFit(c)'
  <2>1. answer'[c] = {a} /\ receipts' = receipts
    BY <1>6 DEF TypeOK, server
  <2>2. CASE a \in {Answer("denied", 0), Answer("rejected", 0), Answer("route_revision_changed", 0)}
    BY <1>4, <2>1, <2>2 DEF AnswersFit, Statuses, Saved
  <2>3. ASSUME NEW i \in DOMAIN receipts, receipts[i].request.key = m.key, a \in Replay(m)
        PROVE  AnswersFit(c)'
    <3>1. receipts[i].request = m /\ a = Answer("duplicate", i) /\ i \in Nat
      BY <1>2, <2>3, ReplayFacts, ReceiptTyped
    <3>2. a.status = "duplicate" /\ a.receipt = i
      BY <1>4, <3>1 DEF Statuses
    <3> QED BY <1>3, <2>1, <3>1, <3>2 DEF AnswersFit
  <2>4. CASE a \in Replay(m)
    <3>1. PICK i \in Existing(m) : TRUE
      BY <2>4 DEF Replay
    <3> QED BY <2>3, <2>4, <3>1 DEF Existing
  <2>5. CASE a \in Refuse(m)
    <3>1. ~SequenceUsed(m) \/ Existing(m) # {}
      <4>1. \A i \in DOMAIN receipts : receipts[i].request \in Messages
        BY ReceiptTyped DEF Messages
      <4> QED BY <1>2, <4>1 DEF SequenceUsed, Existing, HistoryInv, MessagesDiffer
    <3>2. a \in {Answer("rejected", 0), Answer("route_revision_changed", 0)}
      BY <2>5, <3>1 DEF Refuse
    <3> QED BY <2>2, <3>2
  <2> QED BY <1>6, <2>2, <2>4, <2>5
<1> QED BY <1>1, <1>5, <1>6

\* Every step keeps the answers fitting.
LEMMA AnswersFitStep ==
    ASSUME TypeOK, HistoryInv, [Next]_vars, NEW c \in Collectors, AnswersFit(c)
    PROVE  AnswersFit(c)'
<1> USE StepsOfServer, AnswersKeepFitting
<1>1. CASE UNCHANGED vars
  BY <1>1 DEF vars, app, wire
<1>2. CASE Serve(c)
  BY <1>2, ServeFits
<1>3. ASSUME NEW b \in Collectors, b # c, Serve(b)
      PROVE  AnswersFit(c)'
  BY <1>3 DEF Serve, app, TypeOK
<1>4. ASSUME NEW b \in Collectors, Receive(b) \/ LoseConnection(b) \/ Restart(b)
      PROVE  AnswersFit(c)'
  <2>1. /\ answer'[b] = {}
        /\ b # c => answer'[c] = answer[c] /\ draft'[c] = draft[c]
    BY <1>4 DEF Receive, LoseConnection, Restart, CloseConnection, app, TypeOK
  <2> QED BY <2>1
<1>5. ASSUME NEW b \in Collectors,
             \/ (\E kind \in Kinds : Record(b, kind)) \/ Retry(b) \/ ChangeAccess(b)
             \/ LoadRoute(b) \/ LoadOffline(b) \/ LoadRefused(b)
      PROVE  AnswersFit(c)'
  <2>1. /\ answer' = answer
        /\ draft'[c] = draft[c] \/ answer[c] = {}
    BY <1>5 DEF Record, Retry, LoadRoute, LoadOffline, LoadRefused, ChangeAccess, Submitting,
                app, wire, TypeOK
  <2> QED BY <2>1
<1>6. CASE \/ \E n \in delayed : ServeDelayed(n) \/ DropDelayed(n)
           \/ \E j \in DOMAIN receipts : VoidLatest(j)
           \/ ChangeLoan
  BY <1>6 DEF ServeDelayed, DropDelayed, VoidLatest, ChangeLoan, app, wire
<1> QED BY <1>1, <1>2, <1>3, <1>4, <1>5, <1>6 DEF Next

LEMMA AnswersAlwaysFit == Spec => [](\A c \in Collectors : AnswersFit(c))
<1>1. Init => \A c \in Collectors : AnswersFit(c)
  BY DEF Init, AnswersFit
<1>2. TypeOK /\ HistoryInv /\ [Next]_vars /\ (\A c \in Collectors : AnswersFit(c))
        => (\A c \in Collectors : AnswersFit(c))'
  BY AnswersFitStep
<1> QED BY <1>1, <1>2, HistoryInductive, PTL DEF Spec

\* "Saved" is always about the draft the collector is waiting for.
THEOREM AnswersFitDrafts == Spec => []AnswersNameTheReceipt
<1>1. (\A c \in Collectors : AnswersFit(c)) => AnswersNameTheReceipt
  BY DEF AnswersFit, AnswersNameTheReceipt
<1> QED BY <1>1, AnswersAlwaysFit, PTL

\* No device ever conflicts with itself.
THEOREM NoConflictWithOneself == Spec => []OwnRetriesDoNotConflict
<1>1. (\A c \in Collectors : AnswersFit(c)) => OwnRetriesDoNotConflict
  BY DEF AnswersFit, OwnRetriesDoNotConflict
<1> QED BY <1>1, AnswersAlwaysFit, PTL

=============================================================================
