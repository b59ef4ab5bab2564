----------------------- MODULE CollectionLedgerProofs -----------------------
(***************************************************************************)
(* Theorems about CollectionLedger, for every value of its constants:      *)
(*   - its types;                                                          *)
(*   - its history: receipts account for successive spans of state         *)
(*     versions, only the newest one is ever edited, and a payment sent    *)
(*     with an outdated revision overlooks payments only.  The actions are *)
(*     reduced to four kinds of steps (Accepted, Edited, Moved,            *)
(*     Untouched), and HistoryInv is inductive for each kind;              *)
(*   - frozen receipts stand, and the ledger implements ReceiptBook.  Both *)
(*     follow from HistoryInv, which says that an edited receipt is the    *)
(*     last one accepted and explains the current balance, and from every  *)
(*     receipt's remittance being one that was submitted;                  *)
(*   - what the receipts of a loan add up to: the cash of a remittance is  *)
(*     the cash of its receipts, the collection state is the replay of the *)
(*     live receipts, and the schedule says what they paid.  An edit       *)
(*     brings back the state that the edited receipt replaced, so the      *)
(*     inductive invariants say that this state was the replay of the      *)
(*     other live receipts.  They speak of a receipt sequence as a         *)
(*     parameter: one lemma serves the ledger before and after a step.     *)
(***************************************************************************)
EXTENDS CollectionLedger, SequenceTheorems, Sums

USE CollectorsAssumption, AmountsAssumption, BoundsAssumption

-----------------------------------------------------------------------------
(* Type correctness.                                                       *)

\* A receipt is well typed when it is made from a well typed state.
LEMMA ReceiptIsTyped ==
    ASSUME TypeOK, balance > 0,
           NEW entry \in EntryTypes, NEW d \in Dates, NEW c \in Collectors,
           NEW cash \in Nat, NEW applied \in 0..balance, NEW e \in 0..version,
           NEW evidence \in BOOLEAN
    PROVE  Receipt(entry, d, c, cash, applied, e, evidence) \in ReceiptType
  BY DEF TypeOK, ReceiptType, Receipt, Snapshot, Dates

\* Recording a receipt keeps the types of what it changes.
LEMMA RecordIsTyped ==
    ASSUME TypeOK, balance > 0,
           NEW entry \in EntryTypes, NEW d \in Dates, NEW c \in Collectors,
           NEW cash \in Nat, NEW applied \in 0..balance, NEW e \in 0..version,
           NEW evidence \in BOOLEAN,
           Record(entry, d, c, cash, applied, e, evidence)
    PROVE  /\ balance' \in 0..OpeningBalance
           /\ passCount' \in Nat
           /\ lastPaid' \in 0..LastDate
           /\ version' \in Nat
           /\ status' \in {"active", "paid"}
           /\ today' \in Dates
           /\ receipts' \in Seq(ReceiptType)
           /\ remittances' \in Seq(RemittanceType)
           /\ changes' \in Seq(0..LastDate)
<1>1. receipts' \in Seq(ReceiptType)
  <2>1. Receipt(entry, d, c, cash, applied, e, evidence) \in ReceiptType
    BY ReceiptIsTyped
  <2>2. receipts \in Seq(ReceiptType)
    BY DEF TypeOK
  <2> QED BY <2>1, <2>2 DEF Record
<1>2. changes' \in Seq(0..LastDate)
  <2>1. (IF entry = "payment" THEN d ELSE 0) \in 0..LastDate
    BY DEF Dates
  <2> QED BY <2>1 DEF Record, TypeOK
<1> QED BY <1>1, <1>2 DEF Record, TypeOK, Dates

\* The coverage without a receipt is still a coverage.
LEMMA CoverageIsTyped ==
    ASSUME covered \in [Dates -> Nat], NEW i \in Nat
    PROVE  CoverageWithout(i) \in [Dates -> Nat]
  BY DEF CoverageWithout

\* A live receipt of the ledger is a typed record.
LEMMA MemberIsTyped ==
    ASSUME TypeOK, NEW i \in DOMAIN receipts
    PROVE  receipts[i] \in ReceiptType /\ i \in Nat
  BY ElementOfSeq, LenProperties DEF TypeOK

\* Replacing one receipt by a typed record keeps the ledger typed.
LEMMA ReplaceIsTyped ==
    ASSUME TypeOK, NEW i \in DOMAIN receipts, NEW r \in ReceiptType,
           receipts' = [receipts EXCEPT ![i] = r]
    PROVE  receipts' \in Seq(ReceiptType)
<1>1. receipts \in Seq(ReceiptType)
  BY DEF TypeOK
<1> QED BY <1>1, ExceptSeq, LenProperties

\* Rewriting receipts one by one into typed records keeps the ledger typed.
LEMMA RewriteIsTyped ==
    ASSUME TypeOK, DOMAIN receipts' = DOMAIN receipts,
           receipts' = [i \in DOMAIN receipts |-> receipts'[i]],
           \A i \in DOMAIN receipts : receipts'[i] \in ReceiptType
    PROVE  receipts' \in Seq(ReceiptType)
<1>1. PICK n \in Nat : DOMAIN receipts = 1..n
  BY LenProperties DEF TypeOK
<1> QED BY <1>1, SMT

\* Touching the collection state keeps the types of what it changes.
LEMMA TouchIsTyped ==
    ASSUME TypeOK, Touch
    PROVE  version' \in Nat /\ changes' \in Seq(0..LastDate)
<1>1. 0 \in 0..LastDate
  OBVIOUS
<1> QED BY <1>1 DEF Touch, TypeOK

LEMMA PostPaymentTyped ==
    ASSUME TypeOK, NEW c \in Collectors, NEW d \in Dates, NEW e \in 0..version,
           NEW cash \in 1..MaxCash, NEW explicit \in BOOLEAN,
           NEW closing \in BOOLEAN, PostPayment(c, d, e, cash, explicit, closing)
    PROVE  TypeOK'
<1>1. PICK applied \in 1..balance, due \in 0..DailyAmount :
        /\ Record("payment", d, c, cash, applied, e, closing \/ due # owed[d])
        /\ covered' = covered \/ covered' = [covered EXCEPT ![d] = Len(receipts) + 1]
        /\ owed' = [owed EXCEPT ![d] = due]
  BY DEF PostPayment
<1>2. balance > 0
  BY DEF PostPayment, CanPost
<1>3. /\ balance' \in 0..OpeningBalance /\ passCount' \in Nat
      /\ lastPaid' \in 0..LastDate /\ version' \in Nat
      /\ status' \in {"active", "paid"} /\ today' \in Dates
      /\ receipts' \in Seq(ReceiptType) /\ remittances' \in Seq(RemittanceType)
      /\ changes' \in Seq(0..LastDate)
  <2>1. "payment" \in EntryTypes /\ applied \in 0..balance /\ cash \in Nat
    BY DEF EntryTypes, TypeOK
  <2> QED BY <2>1, <1>1, <1>2, RecordIsTyped
<1>4. covered' \in [Dates -> Nat]
  <2>1. Len(receipts) + 1 \in Nat /\ covered \in [Dates -> Nat]
    BY LenProperties DEF TypeOK
  <2> QED BY <1>1, <2>1
<1>5. owed' \in [Dates -> 0..DailyAmount]
  BY <1>1 DEF TypeOK
<1>6. advUntil' = advUntil
  BY DEF PostPayment
<1> QED BY <1>3, <1>4, <1>5, <1>6 DEF TypeOK

LEMMA PostAdvanceTyped ==
    ASSUME TypeOK, NEW c \in Collectors, NEW d \in Dates, NEW cash \in 1..MaxCash,
           NEW dates \in SUBSET Dates, NEW closing \in BOOLEAN,
           PostAdvance(c, d, cash, dates, closing)
    PROVE  TypeOK'
<1>1. PICK applied \in 1..balance, last \in dates :
        /\ Record("advance", d, c, cash, applied, version, closing)
        /\ advUntil' = Greater(advUntil, last)
  BY DEF PostAdvance
<1>2. balance > 0
  BY DEF PostAdvance, CanPost
<1>3. /\ balance' \in 0..OpeningBalance /\ passCount' \in Nat
      /\ lastPaid' \in 0..LastDate /\ version' \in Nat
      /\ status' \in {"active", "paid"} /\ today' \in Dates
      /\ receipts' \in Seq(ReceiptType) /\ remittances' \in Seq(RemittanceType)
      /\ changes' \in Seq(0..LastDate)
  <2>1. "advance" \in EntryTypes /\ applied \in 0..balance /\ cash \in Nat
        /\ version \in 0..version
    BY DEF EntryTypes, TypeOK
  <2> QED BY <2>1, <1>1, <1>2, RecordIsTyped
<1>4. covered' \in [Dates -> Nat]
  BY LenProperties DEF TypeOK, PostAdvance
<1>5. advUntil' \in 0..LastDate
  BY <1>1 DEF TypeOK, Greater, Dates
<1>6. owed' = owed
  BY DEF PostAdvance
<1> QED BY <1>3, <1>4, <1>5, <1>6 DEF TypeOK

LEMMA PostPassTyped ==
    ASSUME TypeOK, NEW c \in Collectors, NEW d \in Dates, PostPass(c, d)
    PROVE  TypeOK'
<1>1. PICK due \in 1..DailyAmount : owed' = [owed EXCEPT ![d] = due]
  BY DEF PostPass
<1>2. balance > 0
  BY DEF PostPass, CanPost
<1>3. /\ balance' \in 0..OpeningBalance /\ passCount' \in Nat
      /\ lastPaid' \in 0..LastDate /\ version' \in Nat
      /\ status' \in {"active", "paid"} /\ today' \in Dates
      /\ receipts' \in Seq(ReceiptType) /\ remittances' \in Seq(RemittanceType)
      /\ changes' \in Seq(0..LastDate)
  <2>1. "pass" \in EntryTypes /\ 0 \in 0..balance /\ 0 \in Nat
        /\ version \in 0..version /\ TRUE \in BOOLEAN
    BY DEF EntryTypes, TypeOK
  <2>2. Record("pass", d, c, 0, 0, version, TRUE)
    BY DEF PostPass
  <2> QED BY <2>1, <2>2, <1>2, RecordIsTyped
<1>4. owed' \in [Dates -> 0..DailyAmount]
  BY <1>1 DEF TypeOK
<1>5. covered' = covered /\ advUntil' = advUntil
  BY DEF PostPass
<1> QED BY <1>3, <1>4, <1>5 DEF TypeOK

LEMMA CorrectOwnTyped ==
    ASSUME TypeOK, NEW c \in Collectors, NEW i \in DOMAIN receipts,
           NEW type \in EntryTypes, NEW amount \in 0..MaxCash,
           NEW dates \in SUBSET Dates, CorrectOwn(c, i, type, amount, dates)
    PROVE  TypeOK'
<1> DEFINE r == receipts[i]
<1>1. r \in ReceiptType /\ i \in Nat
  BY MemberIsTyped
<1>a. /\ r.before.balance \in 1..OpeningBalance
      /\ r.before.lastPaid \in 0..LastDate
      /\ r.before.advUntil \in 0..LastDate
      /\ r.before.passCount \in Nat
      /\ r.date \in 1..LastDate
  BY <1>1 DEF ReceiptType, Dates
<1>b. amount <= r.before.balance
  BY DEF CorrectOwn, ValidReplacement
<1>2. /\ amount \in Nat /\ amount \in 0..OpeningBalance
      /\ version + 1 \in Nat
  <2>1. version \in Nat
    BY DEF TypeOK
  <2> HIDE DEF r
  <2> QED BY <1>a, <1>b, <2>1
<1>3. receipts' \in Seq(ReceiptType)
  <2> DEFINE q == [r EXCEPT !.entry = type, !.amount = amount, !.applied = amount,
                            !.vAfter = version + 1]
  <2>1. q \in ReceiptType
    BY <1>1, <1>2 DEF ReceiptType
  <2>2. receipts' = [receipts EXCEPT ![i] = q]
    BY DEF CorrectOwn
  <2> HIDE DEF q
  <2> QED BY <2>1, <2>2, ReplaceIsTyped
<1>4. balance' \in 0..OpeningBalance /\ status' \in {"active", "paid"}
  <2>1. balance' = r.before.balance - amount
        /\ status' \in {"active", "paid"}
    BY DEF CorrectOwn
  <2> QED BY <2>1, <1>a, <1>b, <1>2
<1>5. passCount' \in Nat /\ lastPaid' \in 0..LastDate
  <2>1. passCount' \in {r.before.passCount + 1, 0}
        /\ lastPaid' \in {r.before.lastPaid, r.date}
    BY DEF CorrectOwn
  <2> QED BY <2>1, <1>a
<1>6. advUntil' \in 0..LastDate
  <2>1. \/ advUntil' = r.before.advUntil
        \/ \E last \in dates : advUntil' = Greater(r.before.advUntil, last)
    BY DEF CorrectOwn
  <2> QED BY <2>1, <1>a DEF Greater, Dates
<1>7. covered' \in [Dates -> Nat]
  BY <1>1, CoverageIsTyped DEF CorrectOwn, TypeOK
<1>8. version' \in Nat /\ changes' \in Seq(0..LastDate)
  <2>1. Touch
    BY DEF CorrectOwn
  <2> QED BY <2>1, TouchIsTyped
<1>9. today' = today /\ owed' = owed /\ remittances' = remittances
  BY DEF CorrectOwn
<1> QED BY <1>3, <1>4, <1>5, <1>6, <1>7, <1>8, <1>9 DEF TypeOK

LEMMA RestoreTyped ==
    ASSUME TypeOK, NEW i \in DOMAIN receipts, Restore(i)
    PROVE  TypeOK'
<1> DEFINE r == receipts[i]
<1>1. r \in ReceiptType /\ i \in Nat
  BY MemberIsTyped
<1>2. receipts' \in Seq(ReceiptType)
  <2>1. [r EXCEPT !.voided = TRUE] \in ReceiptType
    BY <1>1 DEF ReceiptType
  <2>2. receipts' = [receipts EXCEPT ![i] = [r EXCEPT !.voided = TRUE]]
    BY DEF Restore
  <2> QED BY <2>1, <2>2, ReplaceIsTyped
<1>3. balance' \in 0..OpeningBalance /\ status' \in {"active", "paid"}
  BY <1>1 DEF Restore, ReceiptType
<1>4. passCount' \in Nat /\ lastPaid' \in 0..LastDate /\ advUntil' \in 0..LastDate
  BY <1>1 DEF Restore, ReceiptType
<1>5. covered' \in [Dates -> Nat]
  BY <1>1, CoverageIsTyped DEF Restore, TypeOK
<1>6. version' \in Nat /\ changes' \in Seq(0..LastDate)
  <2>1. Touch
    BY DEF Restore
  <2> QED BY <2>1, TouchIsTyped
<1>7. today' = today /\ owed' = owed /\ remittances' = remittances
  BY DEF Restore
<1> QED BY <1>2, <1>3, <1>4, <1>5, <1>6, <1>7 DEF TypeOK

LEMMA SubmitTyped ==
    ASSUME TypeOK, NEW c \in Collectors, NEW d \in Dates, SubmitRemittance(c, d)
    PROVE  TypeOK'
<1> DEFINE b == Len(remittances) + 1
<1>1. b \in Nat
  BY LenProperties DEF TypeOK
<1>2. receipts' \in Seq(ReceiptType)
  <2>1. \A i \in DOMAIN receipts : receipts'[i] \in ReceiptType
    <3> SUFFICES ASSUME NEW i \in DOMAIN receipts PROVE receipts'[i] \in ReceiptType
      OBVIOUS
    <3>1. receipts[i] \in ReceiptType
      BY MemberIsTyped
    <3>2. [receipts[i] EXCEPT !.remittance = b] \in ReceiptType
      BY <1>1, <3>1 DEF ReceiptType
    <3>3. receipts'[i] \in {receipts[i], [receipts[i] EXCEPT !.remittance = b]}
      BY DEF SubmitRemittance
    <3> QED BY <3>1, <3>2, <3>3
  <2>2. DOMAIN receipts' = DOMAIN receipts
        /\ receipts' = [i \in DOMAIN receipts |-> receipts'[i]]
    BY DEF SubmitRemittance
  <2> QED BY <2>1, <2>2, RewriteIsTyped
<1>3. remittances' \in Seq(RemittanceType)
  <2>1. PICK total \in 0..(MaxReceipts * MaxCash) :
          remittances' = Append(remittances, [items |-> OnHand(c, d), total |-> total,
                                              status |-> "submitted"])
    BY DEF SubmitRemittance
  <2>2. MaxReceipts * MaxCash \in Nat
    BY SMT
  <2>3. OnHand(c, d) \in SUBSET Nat
    BY MemberIsTyped DEF OnHand, LiveReceipts
  <2>4. [items |-> OnHand(c, d), total |-> total, status |-> "submitted"]
            \in RemittanceType
    BY <2>2, <2>3 DEF RemittanceType
  <2> QED BY <2>1, <2>4 DEF TypeOK
<1> QED BY <1>2, <1>3 DEF SubmitRemittance, TypeOK, state

\* Setting the status of a remittance keeps the remittances typed.
LEMMA RemittanceStatusTyped ==
    ASSUME TypeOK, NEW b \in DOMAIN remittances,
           NEW s \in {"submitted", "received", "rejected"},
           remittances' = [remittances EXCEPT ![b].status = s]
    PROVE  remittances' \in Seq(RemittanceType)
<1>1. remittances[b] \in RemittanceType /\ b \in 1..Len(remittances)
  BY ElementOfSeq, LenProperties DEF TypeOK
<1>2. [remittances[b] EXCEPT !.status = s] \in RemittanceType
  BY <1>1 DEF RemittanceType
<1> QED BY <1>1, <1>2, ExceptSeq DEF TypeOK

LEMMA RejectTyped ==
    ASSUME TypeOK, NEW b \in DOMAIN remittances, RejectRemittance(b)
    PROVE  TypeOK'
<1>1. receipts' \in Seq(ReceiptType)
  <2>1. \A i \in DOMAIN receipts : receipts'[i] \in ReceiptType
    <3> SUFFICES ASSUME NEW i \in DOMAIN receipts PROVE receipts'[i] \in ReceiptType
      OBVIOUS
    <3>1. receipts[i] \in ReceiptType
      BY MemberIsTyped
    <3>2. [receipts[i] EXCEPT !.remittance = 0] \in ReceiptType
      BY <3>1 DEF ReceiptType
    <3>3. receipts'[i] \in {receipts[i], [receipts[i] EXCEPT !.remittance = 0]}
      BY DEF RejectRemittance
    <3> QED BY <3>1, <3>2, <3>3
  <2>2. DOMAIN receipts' = DOMAIN receipts
        /\ receipts' = [i \in DOMAIN receipts |-> receipts'[i]]
    BY DEF RejectRemittance
  <2> QED BY <2>1, <2>2, RewriteIsTyped
<1>2. remittances' \in Seq(RemittanceType)
  BY RemittanceStatusTyped DEF RejectRemittance
<1> QED BY <1>1, <1>2 DEF RejectRemittance, TypeOK, state

\* Every step keeps the types.
LEMMA StepIsTyped ==
    ASSUME TypeOK, [Next]_vars
    PROVE  TypeOK'
<1>1. ASSUME NEW c \in Collectors, Post(c) PROVE TypeOK'
  BY <1>1, PostPaymentTyped, PostAdvanceTyped DEF Post
<1>2. ASSUME NEW c \in Collectors, NEW d \in Dates, PostPass(c, d) PROVE TypeOK'
  BY <1>2, PostPassTyped
<1>3. ASSUME NEW c \in Collectors, Edit(c) PROVE TypeOK'
  BY <1>3, CorrectOwnTyped, RestoreTyped DEF Edit, UndoByCollector
<1>4. ASSUME NEW c \in Collectors, NEW d \in Dates, SubmitRemittance(c, d) PROVE TypeOK'
  BY <1>4, SubmitTyped
<1>5. ASSUME NEW i \in DOMAIN receipts, VoidByManagement(i) PROVE TypeOK'
  BY <1>5, RestoreTyped DEF VoidByManagement
<1>6. ASSUME NEW b \in DOMAIN remittances, ConfirmReceived(b) PROVE TypeOK'
  <2>1. remittances' \in Seq(RemittanceType)
    BY <1>6, RemittanceStatusTyped DEF ConfirmReceived
  <2> QED BY <1>6, <2>1 DEF ConfirmReceived, TypeOK, state
<1>7. ASSUME NEW b \in DOMAIN remittances, RejectRemittance(b) PROVE TypeOK'
  BY <1>7, RejectTyped
<1>8. CASE ChangeSchedule
  <2>1. version' \in Nat /\ changes' \in Seq(0..LastDate)
    BY <1>8, TouchIsTyped DEF ChangeSchedule
  <2> QED BY <1>8, <2>1 DEF ChangeSchedule, TypeOK, state
<1>9. CASE NextDay
  BY <1>9 DEF NextDay, TypeOK, state, Dates
<1>10. CASE UNCHANGED vars
  BY <1>10 DEF vars, state, TypeOK
<1> QED BY <1>1, <1>2, <1>3, <1>4, <1>5, <1>6, <1>7, <1>8, <1>9, <1>10 DEF Next

\* The variables of the ledger keep their types: balances stay between zero and
\* the opening balance, whatever is posted, corrected, undone or voided.
THEOREM TypeCorrect == Spec => []TypeOK
<1>1. Init => TypeOK
  BY DEF Init, TypeOK, Dates
<1>2. TypeOK /\ [Next]_vars => TypeOK'
  BY StepIsTyped
<1> QED BY <1>1, <1>2, PTL DEF Spec

-----------------------------------------------------------------------------
(* Four kinds of steps.                                                    *)

\* Receipt r was accepted and appended.
Accepted(r) ==
    /\ r \in ReceiptType
    /\ r.vBefore = version /\ r.vAfter = version + 1
    /\ ~r.voided /\ r.remittance = 0
    /\ r.before.balance = balance /\ r.applied <= balance
    /\ \/ r.reviewed = version
       \/ r.entry = "payment" /\ SameDayChainIsSafe(r.date, r.reviewed)
    /\ receipts' = Append(receipts, r)
    /\ version' = version + 1
    /\ changes' = Append(changes, IF r.entry = "payment" THEN r.date ELSE 0)
    /\ balance' = balance - r.applied
    /\ remittances' = remittances

\* Receipt i was corrected to, or voided as, r.
Edited(i, r) ==
    /\ Editable(i)
    /\ r \in ReceiptType
    /\ r.by = receipts[i].by /\ r.date = receipts[i].date
    /\ r.before = receipts[i].before /\ r.remittance = 0
    /\ r.reviewed = receipts[i].reviewed /\ r.vBefore = receipts[i].vBefore
    /\ \/ /\ ~r.voided
          /\ r.vAfter = version + 1
          /\ r.applied <= r.before.balance
          /\ balance' = r.before.balance - r.applied
       \/ /\ r.voided
          /\ r.vAfter = version
          /\ r.entry = receipts[i].entry
          /\ balance' = r.before.balance
    /\ receipts' = [receipts EXCEPT ![i] = r]
    /\ Touch
    /\ remittances' = remittances

\* Receipts were handed over or came back: only their remittance changed.
Moved ==
    /\ DOMAIN receipts' = DOMAIN receipts
    /\ \A i \in DOMAIN receipts :
          receipts'[i] = [receipts[i] EXCEPT !.remittance = receipts'[i].remittance]
    /\ UNCHANGED <<balance, version, changes>>

\* No receipt was concerned.
Untouched ==
    /\ UNCHANGED <<balance, receipts, remittances>>
    /\ Touch \/ UNCHANGED <<version, changes>>

\* What posting a receipt amounts to.
LEMMA RecordIsAccepted ==
    ASSUME TypeOK, balance > 0,
           NEW entry \in EntryTypes, NEW d \in Dates, NEW c \in Collectors,
           NEW cash \in Nat, NEW applied \in 0..balance, NEW e \in 0..version,
           NEW evidence \in BOOLEAN,
           e = version \/ (entry = "payment" /\ SameDayChainIsSafe(d, e)),
           Record(entry, d, c, cash, applied, e, evidence)
    PROVE  \E r \in ReceiptType : Accepted(r)
<1> DEFINE r == Receipt(entry, d, c, cash, applied, e, evidence)
<1>1. r \in ReceiptType
  BY ReceiptIsTyped
<1>2. /\ r.entry = entry /\ r.date = d /\ r.applied = applied /\ r.reviewed = e
      /\ r.vBefore = version /\ r.vAfter = version + 1 /\ ~r.voided
      /\ r.remittance = 0 /\ r.before.balance = balance
  BY DEF Receipt, Snapshot
<1>3. /\ receipts' = Append(receipts, r)
      /\ balance' = balance - applied
      /\ version' = version + 1
      /\ changes' = Append(changes, IF entry = "payment" THEN d ELSE 0)
      /\ remittances' = remittances
  BY DEF Record
<1>4. applied <= balance
  BY DEF TypeOK
<1> HIDE DEF r
<1>5. Accepted(r)
  BY <1>1, <1>2, <1>3, <1>4 DEF Accepted
<1> QED BY <1>1, <1>5

LEMMA PostIsAccepted ==
    ASSUME TypeOK, NEW c \in Collectors,
           Post(c) \/ \E d \in Dates : PostPass(c, d)
    PROVE  \E r \in ReceiptType : Accepted(r)
<1>1. ASSUME NEW d \in Dates, NEW cash \in 1..MaxCash, NEW closing \in BOOLEAN,
             NEW e \in 0..version, NEW explicit \in BOOLEAN,
             PostPayment(c, d, e, cash, explicit, closing)
      PROVE  \E r \in ReceiptType : Accepted(r)
  <2>1. balance > 0 /\ (e = version \/ SameDayChainIsSafe(d, e))
    BY <1>1 DEF RevisionAccepted, PostPayment, CanPost
  <2>2. PICK applied \in 1..balance, due \in 0..DailyAmount :
          Record("payment", d, c, cash, applied, e, closing \/ due # owed[d])
    BY <1>1 DEF PostPayment
  <2>3. applied \in 0..balance /\ cash \in Nat /\ "payment" \in EntryTypes
        /\ (closing \/ due # owed[d]) \in BOOLEAN
    BY DEF EntryTypes, TypeOK
  <2> QED BY <2>1, <2>2, <2>3, RecordIsAccepted
<1>2. ASSUME NEW d \in Dates, NEW cash \in 1..MaxCash, NEW closing \in BOOLEAN,
             NEW dates \in SUBSET Dates, PostAdvance(c, d, cash, dates, closing)
      PROVE  \E r \in ReceiptType : Accepted(r)
  <2>1. balance > 0
    BY <1>2 DEF PostAdvance, CanPost
  <2>2. PICK applied \in 1..balance :
          Record("advance", d, c, cash, applied, version, closing)
    BY <1>2 DEF PostAdvance
  <2>3. applied \in 0..balance /\ cash \in Nat /\ "advance" \in EntryTypes
        /\ version \in 0..version
    BY DEF EntryTypes, TypeOK
  <2> QED BY <2>1, <2>2, <2>3, RecordIsAccepted
<1>3. ASSUME NEW d \in Dates, PostPass(c, d)
      PROVE  \E r \in ReceiptType : Accepted(r)
  <2>1. balance > 0 /\ Record("pass", d, c, 0, 0, version, TRUE)
    BY <1>3 DEF PostPass, CanPost
  <2>2. 0 \in 0..balance /\ 0 \in Nat /\ "pass" \in EntryTypes
        /\ version \in 0..version /\ TRUE \in BOOLEAN
    BY DEF EntryTypes, TypeOK
  <2> QED BY <2>1, <2>2, RecordIsAccepted
<1> QED BY <1>1, <1>2, <1>3 DEF Post

LEMMA CorrectionIsEdited ==
    ASSUME TypeOK, NEW c \in Collectors, NEW i \in DOMAIN receipts,
           NEW type \in EntryTypes, NEW amount \in 0..MaxCash,
           NEW dates \in SUBSET Dates, CorrectOwn(c, i, type, amount, dates)
    PROVE  \E r \in ReceiptType : Edited(i, r)
<1> DEFINE o == receipts[i]
           r == [o EXCEPT !.entry = type, !.amount = amount, !.applied = amount,
                          !.vAfter = version + 1]
<1>1. o \in ReceiptType
  BY MemberIsTyped
<1>2. amount <= o.before.balance /\ Editable(i) /\ Touch /\ remittances' = remittances
      /\ receipts' = [receipts EXCEPT ![i] = r]
      /\ balance' = o.before.balance - amount
  BY DEF CorrectOwn, ValidReplacement
<1>3. amount \in Nat /\ amount \in 0..OpeningBalance /\ version + 1 \in Nat
      /\ ~o.voided /\ o.remittance = 0
  <2>1. o.before.balance \in 1..OpeningBalance
    BY <1>1 DEF ReceiptType
  <2>2. amount \in Nat /\ amount \in 0..OpeningBalance
    BY <2>1, <1>2
  <2>4. version + 1 \in Nat
    BY DEF TypeOK
  <2>3. ~o.voided /\ o.remittance = 0
    BY <1>2 DEF Editable, LiveReceipts
  <2> QED BY <2>2, <2>3, <2>4
<1>4. r \in ReceiptType
  BY <1>1, <1>3 DEF ReceiptType
<1>5. /\ r.by = o.by /\ r.date = o.date /\ r.before = o.before
      /\ r.remittance = 0 /\ r.reviewed = o.reviewed /\ r.vBefore = o.vBefore
      /\ ~r.voided /\ r.vAfter = version + 1 /\ r.applied = amount
  BY <1>1, <1>3 DEF ReceiptType
<1> HIDE DEF r
<1>6. Edited(i, r)
  BY <1>2, <1>4, <1>5 DEF Edited
<1> QED BY <1>4, <1>6

LEMMA RestoreIsEdited ==
    ASSUME TypeOK, NEW i \in DOMAIN receipts, Editable(i), Restore(i)
    PROVE  \E r \in ReceiptType : Edited(i, r)
<1> DEFINE o == receipts[i]
           r == [o EXCEPT !.voided = TRUE]
<1>1. o \in ReceiptType
  BY MemberIsTyped
<1>2. Touch /\ remittances' = remittances
      /\ receipts' = [receipts EXCEPT ![i] = r]
      /\ balance' = o.before.balance
  BY DEF Restore
<1>3. o.remittance = 0 /\ o.vAfter = version
  BY DEF Editable
<1>4. r \in ReceiptType
  BY <1>1 DEF ReceiptType
<1>5. /\ r.by = o.by /\ r.date = o.date /\ r.before = o.before
      /\ r.remittance = 0 /\ r.reviewed = o.reviewed /\ r.vBefore = o.vBefore
      /\ r.voided /\ r.vAfter = version /\ r.entry = o.entry
  BY <1>1, <1>3 DEF ReceiptType
<1> HIDE DEF r
<1>6. Edited(i, r)
  BY <1>2, <1>4, <1>5 DEF Edited
<1> QED BY <1>4, <1>6

\* Writing a record field back into the record changes nothing.
LEMMA SameRemittance ==
    ASSUME NEW r \in ReceiptType
    PROVE  r = [r EXCEPT !.remittance = r.remittance]
  BY DEF ReceiptType

\* A step of the remittance: handed over, received or sent back.
Handing ==
    \/ \E c \in Collectors, d \in Dates : SubmitRemittance(c, d)
    \/ \E b \in DOMAIN remittances : ConfirmReceived(b) \/ RejectRemittance(b)

LEMMA HandingIsMoved ==
    ASSUME TypeOK, Handing
    PROVE  Moved
<1>1. ASSUME NEW b,
             \A i \in DOMAIN receipts : \/ receipts'[i] = receipts[i]
                                        \/ receipts'[i] = [receipts[i] EXCEPT !.remittance = b]
      PROVE  \A i \in DOMAIN receipts :
               receipts'[i] = [receipts[i] EXCEPT !.remittance = receipts'[i].remittance]
  <2> SUFFICES ASSUME NEW i \in DOMAIN receipts
               PROVE  receipts'[i]
                        = [receipts[i] EXCEPT !.remittance = receipts'[i].remittance]
    OBVIOUS
  <2>1. receipts[i] \in ReceiptType
    BY MemberIsTyped
  <2>2. CASE receipts'[i] = receipts[i]
    BY <2>1, <2>2, SameRemittance
  <2>3. CASE receipts'[i] = [receipts[i] EXCEPT !.remittance = b]
    <3>1. receipts'[i].remittance = b
      BY <2>1, <2>3 DEF ReceiptType
    <3> QED BY <3>1, <2>3
  <2> QED BY <1>1, <2>2, <2>3
<1>2. ASSUME NEW c \in Collectors, NEW d \in Dates, SubmitRemittance(c, d)
      PROVE  Moved
  <2>1. \A i \in DOMAIN receipts :
          \/ receipts'[i] = receipts[i]
          \/ receipts'[i] = [receipts[i] EXCEPT !.remittance = Len(remittances) + 1]
    BY <1>2 DEF SubmitRemittance
  <2>2. DOMAIN receipts' = DOMAIN receipts /\ UNCHANGED <<balance, version, changes>>
    BY <1>2 DEF SubmitRemittance, state
  <2> QED BY <1>1, <2>1, <2>2 DEF Moved
<1>3. ASSUME NEW b \in DOMAIN remittances, RejectRemittance(b)
      PROVE  Moved
  <2>1. \A i \in DOMAIN receipts :
          \/ receipts'[i] = receipts[i]
          \/ receipts'[i] = [receipts[i] EXCEPT !.remittance = 0]
    BY <1>3 DEF RejectRemittance
  <2>2. DOMAIN receipts' = DOMAIN receipts /\ UNCHANGED <<balance, version, changes>>
    BY <1>3 DEF RejectRemittance, state
  <2> QED BY <1>1, <2>1, <2>2 DEF Moved
<1>4. ASSUME NEW b \in DOMAIN remittances, ConfirmReceived(b)
      PROVE  Moved
  <2>1. UNCHANGED <<balance, receipts, version, changes>>
    BY <1>4 DEF ConfirmReceived, state
  <2>2. \A i \in DOMAIN receipts :
          receipts[i] = [receipts[i] EXCEPT !.remittance = receipts[i].remittance]
    BY MemberIsTyped, SameRemittance
  <2> QED BY <2>1, <2>2 DEF Moved
<1> QED BY <1>2, <1>3, <1>4 DEF Handing

\* Every step accepts or edits a receipt, hands cash over, or does neither.
LEMMA StepKinds ==
    ASSUME TypeOK, [Next]_vars
    PROVE  \/ \E r \in ReceiptType : Accepted(r)
           \/ \E i \in DOMAIN receipts, r \in ReceiptType : Edited(i, r)
           \/ Handing
           \/ Untouched
<1>1. ASSUME NEW c \in Collectors, Post(c) \/ \E d \in Dates : PostPass(c, d)
      PROVE  \E r \in ReceiptType : Accepted(r)
  BY <1>1, PostIsAccepted
<1>2. ASSUME NEW c \in Collectors, Edit(c)
      PROVE  \E i \in DOMAIN receipts, r \in ReceiptType : Edited(i, r)
  BY <1>2, CorrectionIsEdited, RestoreIsEdited DEF Edit, UndoByCollector
<1>3. ASSUME NEW i \in DOMAIN receipts, VoidByManagement(i)
      PROVE  \E r \in ReceiptType : Edited(i, r)
  BY <1>3, RestoreIsEdited DEF VoidByManagement
<1>4. CASE ChangeSchedule
  BY <1>4 DEF ChangeSchedule, Untouched, state
<1>5. CASE NextDay
  BY <1>5 DEF NextDay, Untouched, state
<1>6. CASE UNCHANGED vars
  BY <1>6 DEF vars, Untouched, state
<1> QED BY <1>1, <1>2, <1>3, <1>4, <1>5, <1>6 DEF Next, Handing

-----------------------------------------------------------------------------
(* The inductive invariant.                                                *)

\* A payment that was never corrected is in the log under its version.
PaymentsAreLogged ==
    \A i \in DOMAIN receipts :
        /\ receipts[i].entry = "payment"
        /\ receipts[i].vAfter = receipts[i].vBefore + 1
        => changes[receipts[i].vAfter] = receipts[i].date

\* The receipt that made the current state accounts for the current balance.
NewestExplainsBalance ==
    \A i \in LiveReceipts :
        receipts[i].vAfter = version
            => /\ receipts[i].applied <= receipts[i].before.balance
               /\ balance = receipts[i].before.balance - receipts[i].applied

HistoryInv ==
    /\ TypeOK
    /\ Len(changes) = version
    /\ SpansAreOrdered
    /\ PaymentsAreLogged
    /\ NewestExplainsBalance
    /\ OnlySameDayPaymentsAreOverlooked

\* The receipt that made the current state is the last one accepted.
LEMMA EditableIsLast ==
    ASSUME HistoryInv, NEW i \in DOMAIN receipts, Editable(i)
    PROVE  \A j \in DOMAIN receipts : j <= i
<1>0. TypeOK /\ SpansAreOrdered
  BY DEF HistoryInv
<1>i. \A j \in DOMAIN receipts : j \in Nat
  BY <1>0, MemberIsTyped
<1> SUFFICES ASSUME NEW j \in DOMAIN receipts, i < j PROVE FALSE
  BY <1>i
<1>1. receipts[j] \in ReceiptType
  BY <1>0, MemberIsTyped
<1>2. receipts[i].vAfter = version
  BY DEF Editable
<1>3. /\ receipts[i].vAfter <= receipts[j].vBefore
      /\ receipts[j].vBefore < receipts[j].vAfter
      /\ receipts[j].vAfter <= version
  BY DEF HistoryInv, SpansAreOrdered
<1>4. receipts[j].vBefore \in Nat /\ receipts[j].vAfter \in Nat /\ version \in Nat
  BY <1>0, <1>1 DEF ReceiptType, TypeOK
<1> QED BY <1>2, <1>3, <1>4

\* What an appended receipt finds in the ledger.
LEMMA AppendFacts ==
    ASSUME TypeOK, NEW r \in ReceiptType, receipts' = Append(receipts, r)
    PROVE  /\ Len(receipts) \in Nat
           /\ DOMAIN receipts = 1..Len(receipts)
           /\ DOMAIN receipts' = 1..(Len(receipts) + 1)
           /\ receipts'[Len(receipts) + 1] = r
           /\ \A i \in DOMAIN receipts : receipts'[i] = receipts[i]
<1>1. receipts \in Seq(ReceiptType)
  BY DEF TypeOK
<1> QED BY <1>1, LenProperties

\* What an edited receipt leaves in the ledger.
LEMMA EditFacts ==
    ASSUME TypeOK, NEW i \in DOMAIN receipts, NEW r \in ReceiptType,
           receipts' = [receipts EXCEPT ![i] = r]
    PROVE  /\ DOMAIN receipts' = DOMAIN receipts
           /\ receipts'[i] = r
           /\ \A j \in DOMAIN receipts \ {i} : receipts'[j] = receipts[j]
  BY LenProperties DEF TypeOK

\* The log only grows.
LEMMA LogGrows ==
    ASSUME TypeOK, Len(changes) = version, NEW x \in 0..LastDate,
           changes' = Append(changes, x), version' = version + 1
    PROVE  /\ Len(changes') = version'
           /\ changes'[version + 1] = x
           /\ \A v \in 1..version : changes'[v] = changes[v]
<1>1. changes \in Seq(0..LastDate)
  BY DEF TypeOK
<1> QED BY <1>1

\* The fields the invariant speaks of are numbers.
LEMMA FieldsAreTyped ==
    ASSUME TypeOK, NEW i \in DOMAIN receipts
    PROVE  /\ receipts[i].vBefore \in Nat /\ receipts[i].vAfter \in Nat
           /\ receipts[i].reviewed \in Nat /\ receipts[i].date \in 1..LastDate
           /\ receipts[i].applied \in Nat /\ receipts[i].before.balance \in Nat
           /\ i \in Nat
<1>1. receipts[i] \in ReceiptType /\ i \in Nat
  BY MemberIsTyped
<1> QED BY <1>1 DEF ReceiptType, Dates

-----------------------------------------------------------------------------
(* Accepted receipts.                                                      *)

\* Accepting a receipt keeps the invariant.  A rebased payment overlooks the
\* versions from the one it reviewed; the chain names a payment for each.
LEMMA AcceptedKeepsInv ==
    ASSUME HistoryInv, TypeOK', NEW r \in ReceiptType, Accepted(r)
    PROVE  HistoryInv'
<1> DEFINE n == Len(receipts) + 1
<1>1. TypeOK /\ version \in Nat /\ receipts' = Append(receipts, r)
  BY DEF HistoryInv, TypeOK, Accepted
<1>2. /\ Len(receipts) \in Nat /\ DOMAIN receipts = 1..Len(receipts)
      /\ DOMAIN receipts' = 1..n /\ receipts'[n] = r
      /\ \A i \in DOMAIN receipts : receipts'[i] = receipts[i]
  BY <1>1, AppendFacts
<1>3. /\ r.vBefore = version /\ r.vAfter = version + 1 /\ version' = version + 1
      /\ r.reviewed \in Nat /\ r.date \in 1..LastDate
  BY DEF Accepted, ReceiptType, Dates
<1>4. /\ Len(changes') = version'
      /\ r.entry = "payment" => changes'[version + 1] = r.date
      /\ \A v \in 1..version : changes'[v] = changes[v]
  <2>1. (IF r.entry = "payment" THEN r.date ELSE 0) \in 0..LastDate
    BY <1>3
  <2>2. changes' = Append(changes, IF r.entry = "payment" THEN r.date ELSE 0)
        /\ Len(changes) = version
    BY DEF Accepted, HistoryInv
  <2> QED BY <1>1, <1>3, <2>1, <2>2, LogGrows
<1>5. \A i \in DOMAIN receipts : /\ receipts[i].vBefore \in Nat
                                 /\ receipts[i].vAfter \in Nat
                                 /\ receipts[i].vBefore < receipts[i].vAfter
                                 /\ receipts[i].vAfter <= version
  BY <1>1, FieldsAreTyped DEF HistoryInv, SpansAreOrdered
<1>6. SpansAreOrdered'
  <2>1. ASSUME NEW i \in DOMAIN receipts'
        PROVE  receipts'[i].vBefore < receipts'[i].vAfter
               /\ receipts'[i].vAfter <= version'
    BY <1>1, <1>2, <1>3, <1>5
  <2>2. ASSUME NEW i \in DOMAIN receipts', NEW j \in DOMAIN receipts', i < j
        PROVE  receipts'[i].vAfter <= receipts'[j].vBefore
    <3>1. i \in DOMAIN receipts
      BY <1>2, <2>2
    <3>2. CASE j = n
      BY <1>2, <1>3, <1>5, <3>1, <3>2
    <3>3. CASE j # n
      <4>1. j \in DOMAIN receipts
        BY <1>2, <3>3
      <4> QED BY <1>2, <2>2, <3>1, <4>1 DEF HistoryInv, SpansAreOrdered
    <3> QED BY <3>2, <3>3
  <2> QED BY <2>1, <2>2 DEF SpansAreOrdered
<1>7. PaymentsAreLogged'
  <2> SUFFICES ASSUME NEW i \in DOMAIN receipts', receipts'[i].entry = "payment",
                      receipts'[i].vAfter = receipts'[i].vBefore + 1
               PROVE  changes'[receipts'[i].vAfter] = receipts'[i].date
    BY DEF PaymentsAreLogged
  <2>1. CASE i = n
    BY <1>2, <1>3, <1>4, <2>1
  <2>2. CASE i # n
    <3>1. i \in DOMAIN receipts /\ receipts'[i] = receipts[i]
      BY <1>2, <2>2
    <3>2. receipts[i].vAfter \in 1..version
      BY <1>1, <1>5, <3>1
    <3>3. changes[receipts[i].vAfter] = receipts[i].date
      BY <3>1 DEF HistoryInv, PaymentsAreLogged
    <3> QED BY <1>4, <3>1, <3>2, <3>3
  <2> QED BY <2>1, <2>2
<1>8. NewestExplainsBalance'
  <2> SUFFICES ASSUME NEW i \in LiveReceipts', receipts'[i].vAfter = version'
               PROVE  /\ receipts'[i].applied <= receipts'[i].before.balance
                      /\ balance' = receipts'[i].before.balance - receipts'[i].applied
    BY DEF NewestExplainsBalance
  <2>1. i = n
    BY <1>1, <1>2, <1>3, <1>5 DEF LiveReceipts
  <2> QED BY <1>2, <2>1 DEF Accepted
<1>9. OnlySameDayPaymentsAreOverlooked'
  <2> SUFFICES ASSUME NEW i \in DOMAIN receipts',
                      NEW v \in (receipts'[i].reviewed + 1)..receipts'[i].vBefore
               PROVE  changes'[v] = receipts'[i].date
    BY DEF OnlySameDayPaymentsAreOverlooked
  <2>1. CASE i = n
    <3>1. r.reviewed # version
      BY <1>1, <1>2, <1>3, <2>1
    <3>2. SameDayChainIsSafe(r.date, r.reviewed)
      BY <3>1 DEF Accepted
    <3>3. v \in 1..version /\ v - 1 \in r.reviewed..(version - 1)
      BY <1>1, <1>2, <1>3, <2>1
    <3>4. PICK j \in PaymentsOn(r.date) : receipts[j].vBefore = v - 1
                                          /\ receipts[j].vAfter = receipts[j].vBefore + 1
      BY <3>2, <3>3 DEF SameDayChainIsSafe
    <3>5. /\ j \in DOMAIN receipts /\ receipts[j].entry = "payment"
          /\ receipts[j].date = r.date
      BY DEF PaymentsOn, LiveReceipts
    <3>6. changes[receipts[j].vAfter] = r.date
      BY <3>4, <3>5 DEF HistoryInv, PaymentsAreLogged
    <3>7. receipts[j].vAfter = v
      BY <3>3, <3>4
    <3> QED BY <1>2, <1>4, <2>1, <3>3, <3>6, <3>7
  <2>2. CASE i # n
    <3>1. i \in DOMAIN receipts /\ receipts'[i] = receipts[i]
      BY <1>2, <2>2
    <3>2. v \in 1..version
      BY <1>1, <1>5, <3>1, FieldsAreTyped
    <3>3. changes[v] = receipts[i].date
      BY <3>1 DEF HistoryInv, OnlySameDayPaymentsAreOverlooked
    <3> QED BY <1>4, <3>1, <3>2, <3>3
  <2> QED BY <2>1, <2>2
<1> QED BY <1>4, <1>6, <1>7, <1>8, <1>9 DEF HistoryInv

-----------------------------------------------------------------------------
(* Edited receipts.                                                        *)

\* Correcting or voiding a receipt keeps the invariant: its span now ends with
\* the new version, or its receipt no longer counts, and no receipt is after it.
LEMMA EditedKeepsInv ==
    ASSUME HistoryInv, TypeOK', NEW i \in DOMAIN receipts, NEW r \in ReceiptType,
           Edited(i, r)
    PROVE  HistoryInv'
<1>1. TypeOK /\ version \in Nat
  BY DEF HistoryInv, TypeOK
<1>2. /\ DOMAIN receipts' = DOMAIN receipts /\ receipts'[i] = r
      /\ \A j \in DOMAIN receipts \ {i} : receipts'[j] = receipts[j]
  BY <1>1, EditFacts DEF Edited
<1>3. \A j \in DOMAIN receipts : j \in Nat /\ j <= i
  BY <1>1, EditableIsLast, MemberIsTyped DEF Edited
<1>4. /\ version' = version + 1
      /\ Len(changes') = version'
      /\ \A v \in 1..version : changes'[v] = changes[v]
  <2>1. 0 \in 0..LastDate /\ changes' = Append(changes, 0) /\ version' = version + 1
        /\ Len(changes) = version
    BY DEF Edited, Touch, HistoryInv
  <2> QED BY <1>1, <2>1, LogGrows
<1>5. \A j \in DOMAIN receipts : /\ receipts[j].vBefore \in Nat
                                 /\ receipts[j].vAfter \in Nat
                                 /\ receipts[j].vBefore < receipts[j].vAfter
                                 /\ receipts[j].vAfter <= version
  BY <1>1, FieldsAreTyped DEF HistoryInv, SpansAreOrdered
<1>6. /\ receipts[i].vAfter = version
      /\ r.vBefore = receipts[i].vBefore
      /\ r.vAfter = version + 1 \/ (r.vAfter = version /\ r.voided)
      /\ r.reviewed = receipts[i].reviewed /\ r.date = receipts[i].date
      /\ r.before = receipts[i].before
  BY DEF Edited, Editable
<1>7. SpansAreOrdered'
  <2>1. ASSUME NEW j \in DOMAIN receipts'
        PROVE  receipts'[j].vBefore < receipts'[j].vAfter
               /\ receipts'[j].vAfter <= version'
    BY <1>1, <1>2, <1>4, <1>5, <1>6
  <2>2. ASSUME NEW j \in DOMAIN receipts', NEW k \in DOMAIN receipts', j < k
        PROVE  receipts'[j].vAfter <= receipts'[k].vBefore
    <3>1. j \in DOMAIN receipts \ {i} /\ k \in DOMAIN receipts
      BY <1>2, <1>3, <2>2
    <3>2. receipts[j].vAfter <= receipts[k].vBefore
      BY <2>2, <3>1 DEF HistoryInv, SpansAreOrdered
    <3>3. receipts'[k].vBefore = receipts[k].vBefore
      BY <1>2, <1>6, <3>1
    <3> QED BY <1>2, <3>1, <3>2, <3>3
  <2> QED BY <2>1, <2>2 DEF SpansAreOrdered
<1>8. PaymentsAreLogged'
  <2> SUFFICES ASSUME NEW j \in DOMAIN receipts', receipts'[j].entry = "payment",
                      receipts'[j].vAfter = receipts'[j].vBefore + 1
               PROVE  changes'[receipts'[j].vAfter] = receipts'[j].date
    BY DEF PaymentsAreLogged
  <2>1. receipts'[j].vAfter \in 1..version
    <3>1. CASE j = i
      BY <1>1, <1>2, <1>5, <1>6, <3>1
    <3>2. CASE j # i
      BY <1>1, <1>2, <1>5, <3>2
    <3> QED BY <3>1, <3>2
  <2>2. changes[receipts'[j].vAfter] = receipts'[j].date
    <3>1. CASE j = i
      <4>1. r.vAfter = version
        BY <1>1, <1>2, <1>5, <1>6, <3>1
      <4>2. r.entry = receipts[i].entry
        BY <1>1, <4>1 DEF Edited
      <4> QED BY <1>2, <1>6, <3>1, <4>1, <4>2 DEF HistoryInv, PaymentsAreLogged
    <3>2. CASE j # i
      BY <1>2, <3>2 DEF HistoryInv, PaymentsAreLogged
    <3> QED BY <3>1, <3>2
  <2> QED BY <1>4, <2>1, <2>2
<1>9. NewestExplainsBalance'
  <2> SUFFICES ASSUME NEW j \in LiveReceipts', receipts'[j].vAfter = version'
               PROVE  /\ receipts'[j].applied <= receipts'[j].before.balance
                      /\ balance' = receipts'[j].before.balance - receipts'[j].applied
    BY DEF NewestExplainsBalance
  <2>1. j = i
    BY <1>1, <1>2, <1>4, <1>5 DEF LiveReceipts
  <2>2. ~r.voided
    BY <1>2, <2>1 DEF LiveReceipts
  <2> QED BY <1>2, <2>1, <2>2 DEF Edited
<1>10. OnlySameDayPaymentsAreOverlooked'
  <2> SUFFICES ASSUME NEW j \in DOMAIN receipts',
                      NEW v \in (receipts'[j].reviewed + 1)..receipts'[j].vBefore
               PROVE  changes'[v] = receipts'[j].date
    BY DEF OnlySameDayPaymentsAreOverlooked
  <2>1. /\ j \in DOMAIN receipts
        /\ receipts'[j].reviewed = receipts[j].reviewed
        /\ receipts'[j].vBefore = receipts[j].vBefore
        /\ receipts'[j].date = receipts[j].date
    BY <1>2, <1>6
  <2>2. v \in 1..version
    BY <1>1, <1>5, <2>1, FieldsAreTyped
  <2>3. changes[v] = receipts[j].date
    BY <2>1 DEF HistoryInv, OnlySameDayPaymentsAreOverlooked
  <2> QED BY <1>4, <2>1, <2>2, <2>3
<1> QED BY <1>4, <1>7, <1>8, <1>9, <1>10 DEF HistoryInv

-----------------------------------------------------------------------------
(* Other steps, and the theorems.                                          *)

\* Handing over changes nothing the invariant speaks of.
LEMMA MovedKeepsInv ==
    ASSUME HistoryInv, TypeOK', Moved
    PROVE  HistoryInv'
<1>1. \A i \in DOMAIN receipts :
        /\ receipts'[i].entry = receipts[i].entry
        /\ receipts'[i].date = receipts[i].date
        /\ receipts'[i].applied = receipts[i].applied
        /\ receipts'[i].before = receipts[i].before
        /\ receipts'[i].voided = receipts[i].voided
        /\ receipts'[i].reviewed = receipts[i].reviewed
        /\ receipts'[i].vBefore = receipts[i].vBefore
        /\ receipts'[i].vAfter = receipts[i].vAfter
  <2>1. \A i \in DOMAIN receipts : receipts[i] \in ReceiptType
    BY MemberIsTyped DEF HistoryInv
  <2> QED BY <2>1 DEF Moved, ReceiptType
<1>2. /\ DOMAIN receipts' = DOMAIN receipts
      /\ UNCHANGED <<balance, version, changes>>
  BY DEF Moved
<1>3. LiveReceipts' = LiveReceipts
  BY <1>1, <1>2 DEF LiveReceipts
<1> USE <1>1, <1>2
<1>4. SpansAreOrdered'
  BY DEF HistoryInv, SpansAreOrdered
<1>5. PaymentsAreLogged'
  BY DEF HistoryInv, PaymentsAreLogged
<1>6. NewestExplainsBalance'
  BY <1>3 DEF HistoryInv, NewestExplainsBalance, LiveReceipts
<1>7. OnlySameDayPaymentsAreOverlooked'
  BY DEF HistoryInv, OnlySameDayPaymentsAreOverlooked
<1> QED BY <1>4, <1>5, <1>6, <1>7 DEF HistoryInv

\* A schedule change makes a version that no receipt accounts for.
LEMMA UntouchedKeepsInv ==
    ASSUME HistoryInv, TypeOK', Untouched
    PROVE  HistoryInv'
<1>1. TypeOK /\ version \in Nat /\ Len(changes) = version
  BY DEF HistoryInv, TypeOK
<1>2. UNCHANGED <<balance, receipts, remittances>>
  BY DEF Untouched
<1>3. CASE UNCHANGED <<version, changes>>
  BY <1>2, <1>3 DEF HistoryInv, SpansAreOrdered, PaymentsAreLogged,
        NewestExplainsBalance, OnlySameDayPaymentsAreOverlooked, LiveReceipts
<1>4. CASE Touch
  <2>1. /\ version' = version + 1
        /\ Len(changes') = version'
        /\ \A v \in 1..version : changes'[v] = changes[v]
    <3>1. 0 \in 0..LastDate /\ changes' = Append(changes, 0) /\ version' = version + 1
      BY <1>4 DEF Touch
    <3> QED BY <1>1, <3>1, LogGrows
  <2>2. \A j \in DOMAIN receipts : /\ receipts[j].vBefore \in Nat
                                   /\ receipts[j].vAfter \in Nat
                                   /\ receipts[j].reviewed \in Nat
                                   /\ receipts[j].vBefore < receipts[j].vAfter
                                   /\ receipts[j].vAfter <= version
    BY <1>1, FieldsAreTyped DEF HistoryInv, SpansAreOrdered
  <2>3. SpansAreOrdered'
    BY <1>1, <1>2, <2>1, <2>2 DEF HistoryInv, SpansAreOrdered
  <2>4. PaymentsAreLogged'
    <3>1. \A j \in DOMAIN receipts : receipts[j].vAfter \in 1..version
      BY <1>1, <2>2
    <3> QED BY <1>2, <2>1, <3>1 DEF HistoryInv, PaymentsAreLogged
  <2>5. NewestExplainsBalance'
    <3>1. \A j \in DOMAIN receipts : receipts[j].vAfter # version'
      BY <1>1, <2>1, <2>2
    <3> QED BY <1>2, <3>1 DEF NewestExplainsBalance, LiveReceipts
  <2>6. OnlySameDayPaymentsAreOverlooked'
    <3>1. \A j \in DOMAIN receipts :
            \A v \in (receipts[j].reviewed + 1)..receipts[j].vBefore : v \in 1..version
      BY <1>1, <2>2
    <3> QED BY <1>2, <2>1, <3>1 DEF HistoryInv, OnlySameDayPaymentsAreOverlooked
  <2> QED BY <2>1, <2>3, <2>4, <2>5, <2>6 DEF HistoryInv
<1> QED BY <1>3, <1>4 DEF Untouched

\* HistoryInv is inductive.
LEMMA HistoryInvariant == Spec => []HistoryInv
<1>1. Init => HistoryInv
  <2> SUFFICES ASSUME Init PROVE HistoryInv
    OBVIOUS
  <2>1. TypeOK
    BY DEF Init, TypeOK, Dates
  <2>2. DOMAIN receipts = {} /\ Len(changes) = version
    BY DEF Init
  <2> QED BY <2>1, <2>2 DEF HistoryInv, SpansAreOrdered, PaymentsAreLogged,
        NewestExplainsBalance, OnlySameDayPaymentsAreOverlooked, LiveReceipts
<1>2. HistoryInv /\ [Next]_vars => HistoryInv'
  <2> SUFFICES ASSUME HistoryInv, [Next]_vars PROVE HistoryInv'
    OBVIOUS
  <2>1. TypeOK /\ TypeOK'
    BY StepIsTyped DEF HistoryInv
  <2> QED BY <2>1, StepKinds, AcceptedKeepsInv, EditedKeepsInv,
             HandingIsMoved, MovedKeepsInv, UntouchedKeepsInv
<1> QED BY <1>1, <1>2, PTL DEF Spec

\* Receipts account for successive spans of state versions, in the order in which
\* they were accepted.
THEOREM SpansStayOrdered == Spec => []SpansAreOrdered
<1>1. HistoryInv => SpansAreOrdered
  BY DEF HistoryInv
<1> QED BY <1>1, HistoryInvariant, PTL

\* A stale payment revision never hides a PASS, an advance, a correction, a void,
\* an undo or a schedule change from the collector who sent it.
THEOREM NothingElseIsOverlooked == Spec => []OnlySameDayPaymentsAreOverlooked
<1>1. HistoryInv => OnlySameDayPaymentsAreOverlooked
  BY DEF HistoryInv
<1> QED BY <1>1, HistoryInvariant, PTL

-----------------------------------------------------------------------------
(* Remittances that receipts refer to exist.                               *)

RemittancesExist ==
    \A i \in DOMAIN receipts : receipts[i].remittance \in 0..Len(remittances)

BookInv == HistoryInv /\ RemittancesExist

\* What submitting does to receipts and remittances.
LEMMA SubmitFacts ==
    ASSUME TypeOK, NEW c \in Collectors, NEW d \in Dates, SubmitRemittance(c, d)
    PROVE  /\ Len(remittances) \in Nat
           /\ DOMAIN receipts' = DOMAIN receipts
           /\ Len(remittances') = Len(remittances) + 1
           /\ \A b \in 1..Len(remittances) : remittances'[b] = remittances[b]
           /\ remittances'[Len(remittances) + 1].status = "submitted"
           /\ \A i \in DOMAIN receipts :
                \/ receipts'[i] = receipts[i]
                \/ /\ receipts[i].remittance = 0
                   /\ receipts'[i].remittance = Len(remittances) + 1
<1>1. PICK total : remittances' = Append(remittances,
            [items |-> OnHand(c, d), total |-> total, status |-> "submitted"])
  BY DEF SubmitRemittance
<1>2. remittances \in Seq(RemittanceType)
  BY DEF TypeOK
<1>3. \A i \in DOMAIN receipts :
        \/ receipts'[i] = receipts[i]
        \/ /\ receipts[i].remittance = 0
           /\ receipts'[i] = [receipts[i] EXCEPT !.remittance = Len(remittances) + 1]
  BY DEF SubmitRemittance, OnHand
<1>4. \A i \in DOMAIN receipts : receipts[i] \in ReceiptType
  BY MemberIsTyped
<1>5. \A i \in DOMAIN receipts :
        [receipts[i] EXCEPT !.remittance = Len(remittances) + 1].remittance
            = Len(remittances) + 1
  BY <1>4 DEF ReceiptType
<1>6. DOMAIN receipts' = DOMAIN receipts
  BY DEF SubmitRemittance
<1>7. /\ Len(remittances) \in Nat
      /\ Len(remittances') = Len(remittances) + 1
      /\ \A b \in 1..Len(remittances) : remittances'[b] = remittances[b]
      /\ remittances'[Len(remittances) + 1].status = "submitted"
  BY <1>1, <1>2
<1> QED BY <1>3, <1>5, <1>6, <1>7

\* What the recipient's answer does to receipts and remittances.
LEMMA AnswerFacts ==
    ASSUME TypeOK, NEW b \in DOMAIN remittances,
           ConfirmReceived(b) \/ RejectRemittance(b)
    PROVE  /\ DOMAIN receipts' = DOMAIN receipts
           /\ Len(remittances') = Len(remittances)
           /\ remittances[b].status = "submitted"
           /\ \A a \in DOMAIN remittances \ {b} : remittances'[a] = remittances[a]
           /\ \A i \in DOMAIN receipts :
                \/ receipts'[i] = receipts[i]
                \/ receipts[i].remittance = b /\ receipts'[i].remittance = 0
<1>1. remittances \in Seq(RemittanceType)
  BY DEF TypeOK
<1>2. /\ remittances[b].status = "submitted"
      /\ \E s : remittances' = [remittances EXCEPT ![b].status = s]
      /\ DOMAIN receipts' = DOMAIN receipts
  BY DEF ConfirmReceived, RejectRemittance
<1>3. /\ Len(remittances') = Len(remittances)
      /\ \A a \in DOMAIN remittances \ {b} : remittances'[a] = remittances[a]
  BY <1>1, <1>2
<1>4. \A i \in DOMAIN receipts :
        \/ receipts'[i] = receipts[i]
        \/ /\ receipts[i].remittance = b
           /\ receipts'[i] = [receipts[i] EXCEPT !.remittance = 0]
  BY DEF ConfirmReceived, RejectRemittance
<1>5. \A i \in DOMAIN receipts :
        [receipts[i] EXCEPT !.remittance = 0].remittance = 0
  <2>1. \A i \in DOMAIN receipts : receipts[i] \in ReceiptType
    BY MemberIsTyped
  <2> QED BY <2>1 DEF ReceiptType
<1> QED BY <1>2, <1>3, <1>4, <1>5

LEMMA RemittancesKeepExisting ==
    ASSUME BookInv, [Next]_vars, HistoryInv'
    PROVE  RemittancesExist'
<1>1. TypeOK /\ Len(remittances) \in Nat
  BY LenProperties DEF BookInv, HistoryInv, TypeOK
<1>2. ASSUME NEW r \in ReceiptType, Accepted(r) PROVE RemittancesExist'
  <2>1. /\ DOMAIN receipts = 1..Len(receipts) /\ Len(receipts) \in Nat
        /\ DOMAIN receipts' = 1..(Len(receipts) + 1)
        /\ receipts'[Len(receipts) + 1] = r
        /\ \A i \in DOMAIN receipts : receipts'[i] = receipts[i]
    BY <1>1, <1>2, AppendFacts DEF Accepted
  <2>2. r.remittance = 0 /\ remittances' = remittances
    BY <1>2 DEF Accepted
  <2>3. \A i \in DOMAIN receipts' : i = Len(receipts) + 1 \/ i \in DOMAIN receipts
    BY <2>1
  <2> QED BY <1>1, <2>1, <2>2, <2>3 DEF RemittancesExist, BookInv
<1>3. ASSUME NEW i \in DOMAIN receipts, NEW r \in ReceiptType, Edited(i, r)
      PROVE  RemittancesExist'
  <2>1. /\ DOMAIN receipts' = DOMAIN receipts /\ receipts'[i] = r
        /\ \A j \in DOMAIN receipts \ {i} : receipts'[j] = receipts[j]
    BY <1>1, <1>3, EditFacts DEF Edited
  <2>2. r.remittance = 0 /\ remittances' = remittances
    BY <1>3 DEF Edited
  <2> QED BY <1>1, <2>1, <2>2 DEF RemittancesExist, BookInv
<1>4. CASE Handing
  <2>1. ASSUME NEW c \in Collectors, NEW d \in Dates, SubmitRemittance(c, d)
        PROVE  RemittancesExist'
    BY <1>1, <2>1, SubmitFacts DEF RemittancesExist, BookInv
  <2>2. ASSUME NEW b \in DOMAIN remittances, ConfirmReceived(b) \/ RejectRemittance(b)
        PROVE  RemittancesExist'
    BY <1>1, <2>2, AnswerFacts DEF RemittancesExist, BookInv
  <2> QED BY <1>4, <2>1, <2>2 DEF Handing
<1>5. CASE Untouched
  BY <1>5 DEF Untouched, RemittancesExist, BookInv
<1> QED BY <1>1, <1>2, <1>3, <1>4, <1>5, StepKinds

LEMMA BookInvariant == Spec => []BookInv
<1>1. Init => RemittancesExist
  BY DEF Init, RemittancesExist
<1>2. BookInv /\ [Next]_vars /\ HistoryInv' => RemittancesExist'
  BY RemittancesKeepExisting
<1>3. BookInv <=> HistoryInv /\ RemittancesExist
  BY DEF BookInv
<1> QED BY <1>1, <1>2, <1>3, HistoryInvariant, PTL DEF Spec

-----------------------------------------------------------------------------
(* Frozen receipts.                                                        *)

\* Receipts with linked records or handed over are not rewritten, and received
\* ones do not even come back.
LEMMA FrozenStep ==
    ASSUME BookInv, [Next]_vars, NEW i \in DOMAIN receipts
    PROVE  /\ receipts[i].evidence \/ receipts[i].remittance # 0 =>
                receipts'[i] = [receipts[i] EXCEPT !.remittance = receipts'[i].remittance]
           /\ /\ receipts[i].remittance # 0
              /\ remittances[receipts[i].remittance].status = "received"
              => receipts'[i] = receipts[i]
<1>1. TypeOK /\ receipts[i] \in ReceiptType
  BY MemberIsTyped DEF BookInv, HistoryInv
<1>2. receipts[i] = [receipts[i] EXCEPT !.remittance = receipts[i].remittance]
  BY <1>1, SameRemittance
<1>3. ASSUME NEW r \in ReceiptType, Accepted(r) PROVE receipts'[i] = receipts[i]
  BY <1>1, <1>3, AppendFacts DEF Accepted
<1>4. ASSUME NEW j \in DOMAIN receipts, NEW r \in ReceiptType, Edited(j, r), j # i
      PROVE  receipts'[i] = receipts[i]
  BY <1>1, <1>4, EditFacts DEF Edited
<1>5. ASSUME NEW j \in DOMAIN receipts, NEW r \in ReceiptType, Edited(j, r), j = i
      PROVE  ~receipts[i].evidence /\ receipts[i].remittance = 0
  BY <1>5 DEF Edited, Editable
<1>6. CASE Handing
  <2>1. receipts'[i] = [receipts[i] EXCEPT !.remittance = receipts'[i].remittance]
    BY <1>1, <1>6, HandingIsMoved DEF Moved
  <2>2. ASSUME NEW c \in Collectors, NEW d \in Dates, SubmitRemittance(c, d),
               receipts[i].remittance # 0
        PROVE  receipts'[i] = receipts[i]
    BY <1>1, <2>2, SubmitFacts
  <2>3. ASSUME NEW b \in DOMAIN remittances, ConfirmReceived(b) \/ RejectRemittance(b),
               remittances[receipts[i].remittance].status = "received"
        PROVE  receipts'[i] = receipts[i]
    <3>1. receipts[i].remittance # b
      BY <1>1, <2>3, AnswerFacts
    <3> QED BY <1>1, <2>3, <3>1, AnswerFacts
  <2> QED BY <1>6, <2>1, <2>2, <2>3 DEF Handing
<1>7. CASE Untouched
  BY <1>2, <1>7 DEF Untouched
<1> QED BY <1>1, <1>2, <1>3, <1>4, <1>5, <1>6, <1>7, StepKinds

\* A receipt with linked Past Due or promise records, or in a remittance, is never
\* corrected, undone or voided; a received one never leaves its remittance.
THEOREM FrozenReceiptsStay == Spec => FrozenReceiptsStand
<1>1. BookInv /\ [Next]_vars =>
        [\A i \in DOMAIN receipts :
            /\ receipts[i].evidence \/ receipts[i].remittance # 0 =>
                receipts'[i] = [receipts[i] EXCEPT !.remittance = receipts'[i].remittance]
            /\ /\ receipts[i].remittance # 0
               /\ remittances[receipts[i].remittance].status = "received"
               => receipts'[i] = receipts[i]]_vars
  BY FrozenStep
<1> QED BY <1>1, BookInvariant, PTL DEF Spec, FrozenReceiptsStand

-----------------------------------------------------------------------------
(* The ledger implements ReceiptBook.                                      *)

\* An accepted receipt is entered under the next number.
LEMMA AcceptedIsEntered ==
    ASSUME BookInv, NEW r \in ReceiptType, Accepted(r)
    PROVE  Book!Next
<1> DEFINE n == Len(receipts) + 1
           x == [who |-> r.by, day |-> r.date, entry |-> r.entry, credit |-> r.applied]
<1>1. TypeOK
  BY DEF BookInv, HistoryInv
<1>2. /\ Len(receipts) \in Nat
      /\ DOMAIN receipts = 1..Len(receipts)
      /\ DOMAIN receipts' = 1..(Len(receipts) + 1)
      /\ receipts'[n] = r
      /\ \A i \in DOMAIN receipts : receipts'[i] = receipts[i]
  BY <1>1, AppendFacts DEF Accepted
<1>3. /\ r.applied \in 0..balance /\ ~r.voided /\ r.remittance = 0
      /\ balance' = balance - r.applied /\ remittances' = remittances
  <2>1. r.applied \in 0..OpeningBalance
    BY DEF ReceiptType
  <2> QED BY <1>1, <2>1 DEF Accepted, TypeOK
<1>4. DOMAIN receipts' = DOMAIN receipts \cup {n} /\ n \notin DOMAIN receipts
  BY <1>2
<1> HIDE DEF n
<1>5. LiveReceipts' = LiveReceipts \cup {n} /\ n \notin LiveReceipts
  BY <1>2, <1>3, <1>4 DEF LiveReceipts
<1>6. \A j \in LiveReceipts : j < n
  BY <1>2 DEF LiveReceipts, n
<1>7. BookEntries' = [j \in LiveReceipts \cup {n} |-> IF j = n THEN x ELSE BookEntries[j]]
  BY <1>2, <1>5 DEF BookEntries, LiveReceipts
<1>8. ReceivedEntries' = ReceivedEntries
  BY <1>2, <1>3, <1>5 DEF ReceivedEntries, LiveReceipts
<1>9. /\ DOMAIN BookEntries = LiveReceipts
      /\ DOMAIN BookEntries' = LiveReceipts \cup {n}
      /\ BookEntries'[n] = x
      /\ x.credit = r.applied
  BY <1>7 DEF BookEntries
<1> HIDE DEF x
<1>10. Book!Enter(n, BookEntries'[n])
  BY <1>3, <1>6, <1>7, <1>8, <1>9 DEF Book!Enter
<1> QED BY <1>9, <1>10 DEF Book!Next

\* The edited receipt is the last entry of the book and was not received.
LEMMA EditedIsLastEntry ==
    ASSUME BookInv, NEW i \in DOMAIN receipts, Editable(i)
    PROVE  /\ i \in LiveReceipts
           /\ i \notin ReceivedEntries
           /\ Book!IsLast(i)
           /\ BookEntries[i].who = receipts[i].by
           /\ BookEntries[i].day = receipts[i].date
           /\ receipts[i].before.balance = balance + BookEntries[i].credit
<1>1. i \in LiveReceipts /\ receipts[i].remittance = 0 /\ receipts[i].vAfter = version
  BY DEF Editable
<1>2. DOMAIN BookEntries = LiveReceipts /\ LiveReceipts \subseteq DOMAIN receipts
  BY DEF BookEntries, LiveReceipts
<1>3. Book!IsLast(i)
  BY <1>1, <1>2, EditableIsLast DEF Book!IsLast, BookInv
<1>4. /\ BookEntries[i].who = receipts[i].by
      /\ BookEntries[i].day = receipts[i].date
      /\ BookEntries[i].credit = receipts[i].applied
  BY <1>1 DEF BookEntries
<1>5. balance = receipts[i].before.balance - receipts[i].applied
  BY <1>1 DEF BookInv, HistoryInv, NewestExplainsBalance
<1>6. receipts[i].applied \in Nat /\ receipts[i].before.balance \in Nat
  BY FieldsAreTyped DEF BookInv, HistoryInv
<1> QED BY <1>1, <1>3, <1>4, <1>5, <1>6 DEF ReceivedEntries

\* A correction amends the last entry, an undo or a void strikes it.
LEMMA EditedIsAmendedOrStruck ==
    ASSUME BookInv, NEW i \in DOMAIN receipts, NEW r \in ReceiptType, Edited(i, r)
    PROVE  Book!Next
<1> DEFINE x == [who |-> r.by, day |-> r.date, entry |-> r.entry, credit |-> r.applied]
<1>1. TypeOK /\ Editable(i)
  BY DEF BookInv, HistoryInv, Edited
<1>2. /\ DOMAIN receipts' = DOMAIN receipts
      /\ receipts'[i] = r
      /\ \A j \in DOMAIN receipts \ {i} : receipts'[j] = receipts[j]
  BY <1>1, EditFacts DEF Edited
<1>3. r.remittance = 0 /\ remittances' = remittances
  BY DEF Edited
<1>4. /\ i \in LiveReceipts
      /\ i \notin ReceivedEntries
      /\ Book!IsLast(i)
      /\ BookEntries[i].who = receipts[i].by
      /\ BookEntries[i].day = receipts[i].date
      /\ receipts[i].before.balance = balance + BookEntries[i].credit
  BY <1>1, EditedIsLastEntry
<1>5. DOMAIN BookEntries = LiveReceipts
  BY DEF BookEntries
<1>6. ReceivedEntries' = ReceivedEntries
  BY <1>1, <1>2, <1>3 DEF ReceivedEntries, LiveReceipts, Editable
<1>7. CASE ~r.voided
  <2>1. LiveReceipts' = LiveReceipts
    BY <1>2, <1>4, <1>7 DEF LiveReceipts
  <2>2. BookEntries' = [BookEntries EXCEPT ![i] = x]
    BY <1>2, <1>4, <2>1 DEF BookEntries, LiveReceipts
  <2>3. i \in DOMAIN BookEntries' /\ BookEntries'[i] = x
    BY <1>4, <1>5, <2>2
  <2>4. x.who = r.by /\ x.day = r.date /\ x.credit = r.applied
    OBVIOUS
  <2>5. r.by = receipts[i].by /\ r.date = receipts[i].date
    BY DEF Edited
  <2>6. /\ r.applied <= receipts[i].before.balance
        /\ balance' = receipts[i].before.balance - r.applied
    BY <1>7 DEF Edited
  <2>7. r.applied \in Nat
    BY DEF ReceiptType
  <2> HIDE DEF x
  <2>8. Book!Amend(i, BookEntries'[i])
    <3>1. x.credit \in 0..(balance + BookEntries[i].credit)
      BY <1>4, <2>4, <2>6, <2>7, FieldsAreTyped, <1>1
    <3>2. balance' = balance + BookEntries[i].credit - x.credit
      <4>1. balance \in Int /\ receipts[i].applied \in Int
        BY <1>1, FieldsAreTyped DEF TypeOK
      <4>2. BookEntries[i].credit = receipts[i].applied
        BY <1>4 DEF BookEntries
      <4> QED BY <1>4, <2>4, <2>6, <2>7, <4>1, <4>2
    <3> QED BY <1>4, <1>6, <2>2, <2>3, <2>4, <2>5, <3>1, <3>2 DEF Book!Amend
  <2> QED BY <2>3, <2>8 DEF Book!Next
<1>8. CASE r.voided
  <2>1. LiveReceipts' = LiveReceipts \ {i}
    BY <1>2, <1>4, <1>8 DEF LiveReceipts
  <2>2. BookEntries' = [j \in LiveReceipts \ {i} |-> BookEntries[j]]
    BY <1>2, <2>1 DEF BookEntries, LiveReceipts
  <2>3. balance' = receipts[i].before.balance
    BY <1>8 DEF Edited
  <2>4. Book!Strike(i)
    BY <1>4, <1>5, <1>6, <2>2, <2>3 DEF Book!Strike
  <2> QED BY <1>4, <1>5, <2>4 DEF Book!Next
<1>9. r.voided \in BOOLEAN
  BY DEF ReceiptType
<1> QED BY <1>7, <1>8, <1>9

\* Handing over and its answer change at most which entries were received.
LEMMA HandingIsReceived ==
    ASSUME BookInv, Handing
    PROVE  Book!Next
<1>1. TypeOK /\ RemittancesExist
  BY DEF BookInv, HistoryInv
<1>2. Moved
  BY <1>1, HandingIsMoved
<1>3. DOMAIN receipts' = DOMAIN receipts /\ balance' = balance
  BY <1>2 DEF Moved
<1>4. \A i \in DOMAIN receipts :
        /\ receipts'[i].by = receipts[i].by
        /\ receipts'[i].date = receipts[i].date
        /\ receipts'[i].entry = receipts[i].entry
        /\ receipts'[i].applied = receipts[i].applied
        /\ receipts'[i].voided = receipts[i].voided
  <2> TAKE i \in DOMAIN receipts
  <2>1. receipts[i] \in ReceiptType
    BY <1>1, MemberIsTyped
  <2>2. receipts'[i] = [receipts[i] EXCEPT !.remittance = receipts'[i].remittance]
    BY <1>2 DEF Moved
  <2> QED BY <2>1, <2>2 DEF ReceiptType
<1>5. LiveReceipts' = LiveReceipts
  BY <1>3, <1>4 DEF LiveReceipts
<1>6. BookEntries' = BookEntries
  BY <1>4, <1>5 DEF BookEntries, LiveReceipts
<1>7. ASSUME NEW c \in Collectors, NEW d \in Dates, SubmitRemittance(c, d)
      PROVE  ReceivedEntries \subseteq ReceivedEntries'
  BY <1>1, <1>5, <1>7, SubmitFacts DEF ReceivedEntries, RemittancesExist, LiveReceipts
<1>8. ASSUME NEW b \in DOMAIN remittances, ConfirmReceived(b) \/ RejectRemittance(b)
      PROVE  ReceivedEntries \subseteq ReceivedEntries'
  <2>1. DOMAIN remittances = 1..Len(remittances)
    BY <1>1, LenProperties DEF TypeOK
  <2>2. /\ remittances[b].status = "submitted"
        /\ \A a \in DOMAIN remittances \ {b} : remittances'[a] = remittances[a]
        /\ \A i \in DOMAIN receipts :
             \/ receipts'[i] = receipts[i]
             \/ receipts[i].remittance = b /\ receipts'[i].remittance = 0
    BY <1>1, <1>8, AnswerFacts
  <2> SUFFICES ASSUME NEW i \in ReceivedEntries PROVE i \in ReceivedEntries'
    OBVIOUS
  <2>3. /\ i \in LiveReceipts /\ i \in DOMAIN receipts
        /\ receipts[i].remittance # 0
        /\ remittances[receipts[i].remittance].status = "received"
    BY DEF ReceivedEntries, LiveReceipts
  <2>4. receipts[i].remittance \in DOMAIN remittances
    <3>1. receipts[i].remittance \in 0..Len(remittances)
      BY <1>1, <2>3 DEF RemittancesExist
    <3>2. Len(remittances) \in Nat
      BY <1>1, LenProperties DEF TypeOK
    <3> QED BY <2>1, <2>3, <3>1, <3>2
  <2>5. receipts[i].remittance # b
    BY <2>2, <2>3
  <2>6. receipts'[i] = receipts[i]
    BY <2>2, <2>3, <2>5
  <2>7. remittances'[receipts[i].remittance] = remittances[receipts[i].remittance]
    BY <2>2, <2>4, <2>5
  <2> QED BY <1>5, <2>3, <2>6, <2>7 DEF ReceivedEntries
<1>9. ReceivedEntries \subseteq ReceivedEntries'
  BY <1>7, <1>8 DEF Handing
<1>10. ReceivedEntries' \subseteq DOMAIN BookEntries
  BY <1>5 DEF ReceivedEntries, BookEntries
<1>11. Book!Receive
  BY <1>3, <1>6, <1>9, <1>10 DEF Book!Receive
<1> QED BY <1>11 DEF Book!Next

\* Every step of the ledger is a step of the book or leaves it unchanged.
LEMMA StepsOfTheBook ==
    ASSUME BookInv, [Next]_vars
    PROVE  [Book!Next]_(Book!vars)
<1>1. TypeOK
  BY DEF BookInv, HistoryInv
<1>2. CASE Untouched
  <2>1. BookEntries' = BookEntries /\ ReceivedEntries' = ReceivedEntries
    BY <1>2 DEF Untouched, BookEntries, ReceivedEntries, LiveReceipts
  <2> QED BY <1>2, <2>1 DEF Book!vars, Untouched
<1> QED BY <1>1, <1>2, StepKinds, AcceptedIsEntered, EditedIsAmendedOrStruck,
           HandingIsReceived

\* The ledger keeps the promise of ReceiptBook: entries are only appended, only the
\* last one is amended or struck, never a received one, and what is owed changes
\* by exactly what the entries say.
THEOREM LedgerImplementsBook == Spec => ImplementsBook
<1>1. Init => Book!Init
  <2> SUFFICES ASSUME Init PROVE Book!Init
    OBVIOUS
  <2>1. LiveReceipts = {}
    BY DEF Init, LiveReceipts
  <2> QED BY <2>1 DEF Init, Book!Init, BookEntries, ReceivedEntries
<1>2. BookInv /\ [Next]_vars => [Book!Next]_(Book!vars)
  BY StepsOfTheBook
<1> QED BY <1>1, <1>2, BookInvariant, PTL DEF Spec, ImplementsBook, Book!Spec

-----------------------------------------------------------------------------
(* Sums over receipts.                                                     *)

AppliedOf(rs) == [j \in DOMAIN rs |-> rs[j].applied]
AmountOf(rs) == [j \in DOMAIN rs |-> rs[j].amount]

\* The live receipts of rs but receipt i (0 for none), and those that paid.
Counting(rs, i) == {j \in DOMAIN rs : ~rs[j].voided} \ {i}
PaidBy(rs, i) == {j \in Counting(rs, i) : rs[j].entry # "pass"}
PaidOn(rs, i, d) == {j \in Counting(rs, i) : rs[j].entry = "payment" /\ rs[j].date = d}

IsMax(x, S) == x \in S /\ \A y \in S : y <= x

PaidDates(rs, i) == {0} \cup {rs[j].date : j \in PaidBy(rs, i)}
AdvanceDates(rs, cov, i) ==
    {0} \cup {d \in Dates : cov[d] \notin {0, i} /\ rs[cov[d]].entry = "advance"}
Missed(rs, i) == {k \in Counting(rs, i) : \A j \in PaidBy(rs, i) : j < k}

\* The state s is the one the live receipts but i add up to.
Replays(rs, cov, i, s) ==
    /\ s.balance = OpeningBalance - SumOf(AppliedOf(rs), Counting(rs, i))
    /\ IsMax(s.lastPaid, PaidDates(rs, i))
    /\ s.passCount = (IF PaidBy(rs, i) = {} THEN OpeningPasses ELSE 0)
                     + Cardinality(Missed(rs, i))
    /\ IsMax(s.advUntil, AdvanceDates(rs, cov, i))

\* The sums of CollectionLedger are sums of Sums.
LEMMA AppliedIsSum ==
    ASSUME NEW rs, NEW S \in SUBSET DOMAIN rs
    PROVE  MapThenSumSet(LAMBDA i : rs[i].applied, S) = SumOf(AppliedOf(rs), S)
<1> DEFINE f == AppliedOf(rs)
<1>1. \A s \in SUBSET S : s # {} => f[Pick(s)] = rs[Pick(s)].applied
  BY PickIsMember DEF AppliedOf
<1>2. ASSUME NEW g
      PROVE  [s \in SUBSET S |-> IF s = {} THEN 0 ELSE f[Pick(s)] + g[s \ {Pick(s)}]]
             = [s \in SUBSET S |-> IF s = {} THEN 0 ELSE rs[Pick(s)].applied + g[s \ {Pick(s)}]]
  BY <1>1
<1> DEFINE Eq(g) == g = [s \in SUBSET S |-> IF s = {} THEN 0
                                           ELSE rs[Pick(s)].applied + g[s \ {Pick(s)}]]
<1>3. \A g : IsSum(f, g, S) <=> Eq(g)
  BY <1>2 DEF IsSum
<1>4. (CHOOSE g : IsSum(f, g, S)) = (CHOOSE g : Eq(g))
  BY <1>3
<1>5. SumOf(f, S) = (CHOOSE g : IsSum(f, g, S))[S]
  BY DEF SumOf, MapThenSumSet, MapThenFoldSet, IsSum, Pick
<1>6. MapThenSumSet(LAMBDA i : rs[i].applied, S) = (CHOOSE g : Eq(g))[S]
  BY DEF MapThenSumSet, MapThenFoldSet, Pick
<1> QED BY <1>4, <1>5, <1>6

LEMMA CashIsSum ==
    ASSUME NEW rs, NEW S \in SUBSET DOMAIN rs
    PROVE  MapThenSumSet(LAMBDA i : rs[i].amount, S) = SumOf(AmountOf(rs), S)
<1> DEFINE f == AmountOf(rs)
<1>1. \A s \in SUBSET S : s # {} => f[Pick(s)] = rs[Pick(s)].amount
  BY PickIsMember DEF AmountOf
<1>2. ASSUME NEW g
      PROVE  [s \in SUBSET S |-> IF s = {} THEN 0 ELSE f[Pick(s)] + g[s \ {Pick(s)}]]
             = [s \in SUBSET S |-> IF s = {} THEN 0 ELSE rs[Pick(s)].amount + g[s \ {Pick(s)}]]
  BY <1>1
<1> DEFINE Eq(g) == g = [s \in SUBSET S |-> IF s = {} THEN 0
                                           ELSE rs[Pick(s)].amount + g[s \ {Pick(s)}]]
<1>3. \A g : IsSum(f, g, S) <=> Eq(g)
  BY <1>2 DEF IsSum
<1>4. (CHOOSE g : IsSum(f, g, S)) = (CHOOSE g : Eq(g))
  BY <1>3
<1>5. SumOf(f, S) = (CHOOSE g : IsSum(f, g, S))[S]
  BY DEF SumOf, MapThenSumSet, MapThenFoldSet, IsSum, Pick
<1>6. MapThenSumSet(LAMBDA i : rs[i].amount, S) = (CHOOSE g : Eq(g))[S]
  BY DEF MapThenSumSet, MapThenFoldSet, Pick
<1> QED BY <1>4, <1>5, <1>6

LEMMA AppliedNow ==
    ASSUME NEW S \in SUBSET DOMAIN receipts
    PROVE  Applied(S) = SumOf(AppliedOf(receipts), S)
<1>1. MapThenSumSet(LAMBDA i : receipts[i].applied, S) = SumOf(AppliedOf(receipts), S)
  BY AppliedIsSum
<1> QED BY <1>1 DEF Applied, MapThenSumSet, MapThenFoldSet

LEMMA CashNow ==
    ASSUME NEW S \in SUBSET DOMAIN receipts
    PROVE  Cash(S) = SumOf(AmountOf(receipts), S)
<1>1. MapThenSumSet(LAMBDA i : receipts[i].amount, S) = SumOf(AmountOf(receipts), S)
  BY CashIsSum
<1> QED BY <1>1 DEF Cash, MapThenSumSet, MapThenFoldSet

\* Receipts of the same amounts sum up to the same.
LEMMA SameAmounts ==
    ASSUME NEW rs, NEW ss, NEW S \in SUBSET DOMAIN rs, S \subseteq DOMAIN ss,
           \A j \in S : ss[j].amount = rs[j].amount
    PROVE  SumOf(AmountOf(ss), S) = SumOf(AmountOf(rs), S)
<1>1. \A j \in S : AmountOf(ss)[j] = AmountOf(rs)[j]
  BY DEF AmountOf
<1> QED BY <1>1, SumOfSame

-----------------------------------------------------------------------------
(* The cash of a remittance.                                               *)

HandedIn(b) == {i \in DOMAIN receipts : receipts[i].remittance = b}

RemittancesHold ==
    /\ \A b \in DOMAIN remittances : remittances[b].status # "rejected" =>
        /\ remittances[b].items = HandedIn(b)
        /\ HandedIn(b) \subseteq LiveReceipts
        /\ remittances[b].total = SumOf(AmountOf(receipts), HandedIn(b))
    /\ \A i \in DOMAIN receipts : receipts[i].remittance # 0 =>
        remittances[receipts[i].remittance].status # "rejected"

\* A step that rewrites or adds only receipts that are not handed in keeps what
\* the remittances hold.
LEMMA UnhandedIsFree ==
    ASSUME TypeOK, RemittancesHold, remittances' = remittances,
           DOMAIN receipts \subseteq DOMAIN receipts',
           \A i \in DOMAIN receipts :
                receipts'[i] = receipts[i] \/ (receipts[i].remittance = 0 /\ receipts'[i].remittance = 0),
           \A i \in DOMAIN receipts' \ DOMAIN receipts : receipts'[i].remittance = 0
    PROVE  RemittancesHold'
<1>1. ASSUME NEW b, b # 0
      PROVE  HandedIn(b)' = HandedIn(b)
  BY <1>1 DEF HandedIn
<1>2. \A b \in DOMAIN remittances : b # 0
  BY LenProperties DEF TypeOK
<1>3. ASSUME NEW b \in DOMAIN remittances', remittances'[b].status # "rejected"
      PROVE  /\ remittances'[b].items = HandedIn(b)'
             /\ HandedIn(b)' \subseteq LiveReceipts'
             /\ remittances'[b].total = SumOf(AmountOf(receipts), HandedIn(b))'
  <2>1. /\ HandedIn(b)' = HandedIn(b) /\ b # 0
        /\ remittances[b].items = HandedIn(b)
        /\ HandedIn(b) \subseteq LiveReceipts
        /\ remittances[b].total = SumOf(AmountOf(receipts), HandedIn(b))
    BY <1>1, <1>2, <1>3 DEF RemittancesHold
  <2>2. \A i \in HandedIn(b) : i \in DOMAIN receipts /\ receipts'[i] = receipts[i]
    BY <2>1 DEF HandedIn
  <2>3. SumOf(AmountOf(receipts'), HandedIn(b)) = SumOf(AmountOf(receipts), HandedIn(b))
    <3>1. HandedIn(b) \in SUBSET DOMAIN receipts
      BY DEF HandedIn
    <3> QED BY <3>1, <2>2, SameAmounts
  <2>4. HandedIn(b) \subseteq LiveReceipts'
    BY <2>1, <2>2 DEF LiveReceipts
  <2>5. SumOf(AmountOf(receipts), HandedIn(b))' = SumOf(AmountOf(receipts'), HandedIn(b)')
    OBVIOUS
  <2> QED BY <2>1, <2>3, <2>4, <2>5
<1>4. ASSUME NEW i \in DOMAIN receipts', receipts'[i].remittance # 0
      PROVE  remittances'[receipts'[i].remittance].status # "rejected"
  BY <1>4 DEF RemittancesHold
<1> QED BY <1>3, <1>4 DEF RemittancesHold

\* Everything a collector holds for a day goes in, and nothing else.
LEMMA SubmitHolds ==
    ASSUME BookInv, RemittancesHold, NEW c \in Collectors, NEW d \in Dates,
           SubmitRemittance(c, d)
    PROVE  RemittancesHold'
<1> DEFINE items == OnHand(c, d)
<1>0. PICK n : n = Len(remittances) + 1
  OBVIOUS
<1>1. /\ TypeOK /\ RemittancesExist /\ Len(remittances) \in Nat
      /\ DOMAIN remittances = 1..Len(remittances)
  BY LenProperties DEF BookInv, HistoryInv, TypeOK
<1>2. /\ remittances' = Append(remittances, [items |-> items, total |-> Cash(items),
                                             status |-> "submitted"])
      /\ receipts' = [i \in DOMAIN receipts |->
            IF i \in items THEN [receipts[i] EXCEPT !.remittance = n] ELSE receipts[i]]
  <2> HIDE DEF items
  <2> QED BY <1>0 DEF SubmitRemittance, items
<1>3. /\ items \in SUBSET DOMAIN receipts /\ items \subseteq LiveReceipts
      /\ \A i \in items : receipts[i].remittance = 0
  BY DEF OnHand, LiveReceipts
<1>4. /\ DOMAIN remittances' = 1..n
      /\ \A b \in 1..Len(remittances) : remittances'[b] = remittances[b]
      /\ remittances'[n].items = items /\ remittances'[n].total = Cash(items)
      /\ remittances'[n].status = "submitted"
  <2> HIDE DEF items
  <2>1. remittances \in Seq(RemittanceType)
    BY <1>1 DEF TypeOK
  <2> QED BY <1>0, <1>1, <1>2, <2>1
<1> HIDE DEF items
<1>5. DOMAIN receipts' = DOMAIN receipts
  BY <1>2
<1>6. \A i \in DOMAIN receipts :
        /\ receipts'[i].amount = receipts[i].amount
        /\ receipts'[i].voided = receipts[i].voided
        /\ receipts'[i].remittance = IF i \in items THEN n ELSE receipts[i].remittance
  <2>1. \A i \in DOMAIN receipts : receipts[i] \in ReceiptType
    BY <1>1, MemberIsTyped
  <2> QED BY <1>2, <2>1 DEF ReceiptType
<1>7. LiveReceipts' = LiveReceipts
  BY <1>5, <1>6 DEF LiveReceipts
<1>8. \A i \in DOMAIN receipts : receipts[i].remittance \in 0..Len(remittances)
  BY <1>1 DEF RemittancesExist
<1>9. HandedIn(n)' = items /\ \A b \in 1..Len(remittances) : HandedIn(b)' = HandedIn(b)
  <2>1. HandedIn(n)' = items
    <3>1. \A i \in DOMAIN receipts : receipts[i].remittance # n
      BY <1>0, <1>1, <1>8
    <3>2. \A i \in DOMAIN receipts : receipts'[i].remittance = n <=> i \in items
      BY <1>6, <3>1
    <3> QED BY <1>3, <1>5, <3>2 DEF HandedIn
  <2>2. ASSUME NEW b \in 1..Len(remittances)
        PROVE  HandedIn(b)' = HandedIn(b)
    <3>1. b # n /\ b # 0
      BY <1>0, <1>1
    <3>2. \A i \in DOMAIN receipts : receipts'[i].remittance = b <=> receipts[i].remittance = b
      BY <1>3, <1>6, <3>1
    <3> QED BY <1>5, <3>2 DEF HandedIn
  <2> QED BY <2>1, <2>2
<1>10. ASSUME NEW S \in SUBSET DOMAIN receipts
       PROVE  SumOf(AmountOf(receipts'), S) = SumOf(AmountOf(receipts), S)
  BY <1>5, <1>6, SameAmounts
<1>11. ASSUME NEW b \in DOMAIN remittances', remittances'[b].status # "rejected"
       PROVE  /\ remittances'[b].items = HandedIn(b)'
              /\ HandedIn(b)' \subseteq LiveReceipts'
              /\ remittances'[b].total = SumOf(AmountOf(receipts'), HandedIn(b)')
  <2>1. CASE b = n
    <3>1. Cash(items) = SumOf(AmountOf(receipts'), items)
      BY <1>3, <1>10, CashNow
    <3>2. HandedIn(b)' = items
      BY <1>9, <2>1
    <3>3. remittances'[b].items = items /\ remittances'[b].total = Cash(items)
      BY <1>4, <2>1
    <3> QED BY <3>1, <3>2, <3>3, <1>3, <1>7
  <2>2. CASE b # n
    <3>1. /\ b \in 1..Len(remittances) /\ remittances'[b] = remittances[b]
          /\ HandedIn(b)' = HandedIn(b) /\ HandedIn(b) \in SUBSET DOMAIN receipts
      BY <1>0, <1>1, <1>4, <1>9, <2>2 DEF HandedIn
    <3> QED BY <1>1, <1>7, <1>10, <1>11, <3>1 DEF RemittancesHold
  <2> QED BY <2>1, <2>2
<1>12. ASSUME NEW i \in DOMAIN receipts', receipts'[i].remittance # 0
       PROVE  remittances'[receipts'[i].remittance].status # "rejected"
  <2>1. CASE i \in items
    BY <1>4, <1>5, <1>6, <2>1
  <2>2. CASE i \notin items
    <3>1. receipts'[i].remittance = receipts[i].remittance
          /\ receipts[i].remittance \in 1..Len(remittances)
      BY <1>1, <1>5, <1>6, <1>8, <1>12, <2>2
    <3> QED BY <1>4, <1>5, <1>12, <3>1 DEF RemittancesHold
  <2> QED BY <2>1, <2>2
<1> QED BY <1>11, <1>12 DEF RemittancesHold

\* The recipient's answer leaves the cash where the remittance says it is, or
\* gives all of it back.
LEMMA AnswerHolds ==
    ASSUME BookInv, RemittancesHold, NEW b \in DOMAIN remittances,
           ConfirmReceived(b) \/ RejectRemittance(b)
    PROVE  RemittancesHold'
<1>1. /\ TypeOK /\ b # 0 /\ DOMAIN remittances' = DOMAIN remittances
      /\ remittances[b].status = "submitted"
      /\ \A a \in DOMAIN remittances \ {b} : remittances'[a] = remittances[a]
  <2>1. TypeOK
    BY DEF BookInv, HistoryInv
  <2>2. /\ remittances[b].status = "submitted"
        /\ Len(remittances') = Len(remittances)
        /\ \A a \in DOMAIN remittances \ {b} : remittances'[a] = remittances[a]
    BY <2>1, AnswerFacts
  <2>3. DOMAIN remittances' = DOMAIN remittances
    BY DEF ConfirmReceived, RejectRemittance
  <2>4. b # 0
    BY <2>1, LenProperties DEF TypeOK
  <2> QED BY <2>1, <2>2, <2>3, <2>4
<1>2. CASE ConfirmReceived(b)
  <2>1. receipts' = receipts
    BY <1>2 DEF ConfirmReceived
  <2>2. remittances'[b] = [remittances[b] EXCEPT !.status = "received"]
    BY <1>2 DEF ConfirmReceived
  <2>3. /\ remittances'[b].items = remittances[b].items
        /\ remittances'[b].total = remittances[b].total
        /\ remittances'[b].status = "received"
    <3>1. remittances[b] \in RemittanceType
      BY <1>1, ElementOfSeq, LenProperties DEF TypeOK
    <3> QED BY <2>2, <3>1 DEF RemittanceType
  <2>4. ASSUME NEW a \in DOMAIN remittances', remittances'[a].status # "rejected"
        PROVE  /\ remittances'[a].items = HandedIn(a)
               /\ HandedIn(a) \subseteq LiveReceipts
               /\ remittances'[a].total = SumOf(AmountOf(receipts), HandedIn(a))
    BY <1>1, <2>3, <2>4 DEF RemittancesHold
  <2>5. ASSUME NEW i \in DOMAIN receipts, receipts[i].remittance # 0
        PROVE  remittances'[receipts[i].remittance].status # "rejected"
    <3>1. receipts[i].remittance \in DOMAIN remittances
      BY <1>1, <2>5, LenProperties DEF BookInv, RemittancesExist, TypeOK
    <3> QED BY <1>1, <2>3, <2>5, <3>1 DEF RemittancesHold
  <2>6. /\ \A a : HandedIn(a)' = HandedIn(a)
        /\ LiveReceipts' = LiveReceipts
    BY <2>1 DEF HandedIn, LiveReceipts
  <2> QED BY <2>1, <2>4, <2>5, <2>6 DEF RemittancesHold
<1>3. CASE RejectRemittance(b)
  <2>1. receipts' = [i \in DOMAIN receipts |->
            IF receipts[i].remittance = b THEN [receipts[i] EXCEPT !.remittance = 0]
                                          ELSE receipts[i]]
    BY <1>3 DEF RejectRemittance
  <2>2. remittances'[b].status = "rejected"
    <3>1. remittances[b] \in RemittanceType
      BY <1>1, ElementOfSeq, LenProperties DEF TypeOK
    <3>2. remittances'[b] = [remittances[b] EXCEPT !.status = "rejected"]
      BY <1>3 DEF RejectRemittance
    <3> QED BY <3>1, <3>2 DEF RemittanceType
  <2>3. DOMAIN receipts' = DOMAIN receipts
    BY <2>1
  <2>4. \A i \in DOMAIN receipts :
          /\ receipts'[i].amount = receipts[i].amount
          /\ receipts'[i].voided = receipts[i].voided
          /\ receipts'[i].remittance = IF receipts[i].remittance = b THEN 0
                                       ELSE receipts[i].remittance
    <3>1. \A i \in DOMAIN receipts : receipts[i] \in ReceiptType
      BY <1>1, MemberIsTyped
    <3> QED BY <2>1, <3>1 DEF ReceiptType
  <2>5. LiveReceipts' = LiveReceipts
    BY <2>3, <2>4 DEF LiveReceipts
  <2>6. ASSUME NEW a \in DOMAIN remittances \ {b}
        PROVE  HandedIn(a)' = HandedIn(a)
    <3>1. a # 0
      BY <1>1, LenProperties DEF TypeOK
    <3> QED BY <2>3, <2>4, <3>1 DEF HandedIn
  <2>7. ASSUME NEW a \in DOMAIN remittances', remittances'[a].status # "rejected"
        PROVE  /\ remittances'[a].items = HandedIn(a)'
               /\ HandedIn(a)' \subseteq LiveReceipts'
               /\ remittances'[a].total = SumOf(AmountOf(receipts'), HandedIn(a)')
    <3>1. a \in DOMAIN remittances \ {b}
      BY <1>1, <2>2, <2>7
    <3>2. SumOf(AmountOf(receipts'), HandedIn(a)) = SumOf(AmountOf(receipts), HandedIn(a))
      <4>1. HandedIn(a) \in SUBSET DOMAIN receipts
        BY DEF HandedIn
      <4> QED BY <2>3, <2>4, <4>1, SameAmounts
    <3> QED BY <1>1, <2>5, <2>6, <2>7, <3>1, <3>2 DEF RemittancesHold
  <2>8. ASSUME NEW i \in DOMAIN receipts', receipts'[i].remittance # 0
        PROVE  remittances'[receipts'[i].remittance].status # "rejected"
    <3>1. /\ receipts'[i].remittance = receipts[i].remittance
          /\ receipts[i].remittance # b /\ receipts[i].remittance # 0
      BY <2>3, <2>4, <2>8
    <3>2. receipts[i].remittance \in DOMAIN remittances
      BY <1>1, <2>3, <3>1, LenProperties DEF BookInv, RemittancesExist, TypeOK
    <3> QED BY <1>1, <2>3, <2>8, <3>1, <3>2 DEF RemittancesHold
  <2> QED BY <2>7, <2>8 DEF RemittancesHold
<1> QED BY <1>2, <1>3

LEMMA RemittancesKeepHolding ==
    ASSUME BookInv, RemittancesHold, [Next]_vars
    PROVE  RemittancesHold'
<1>1. TypeOK
  BY DEF BookInv, HistoryInv
<1>2. ASSUME NEW r \in ReceiptType, Accepted(r) PROVE RemittancesHold'
  <2>1. /\ DOMAIN receipts = 1..Len(receipts) /\ Len(receipts) \in Nat
        /\ DOMAIN receipts' = 1..(Len(receipts) + 1)
        /\ receipts'[Len(receipts) + 1] = r
        /\ \A i \in DOMAIN receipts : receipts'[i] = receipts[i]
    BY <1>1, <1>2, AppendFacts DEF Accepted
  <2>2. r.remittance = 0 /\ remittances' = remittances
    BY <1>2 DEF Accepted
  <2>3. \A i \in DOMAIN receipts' \ DOMAIN receipts : i = Len(receipts) + 1
    BY <2>1
  <2>4. DOMAIN receipts \subseteq DOMAIN receipts'
    BY <2>1
  <2> QED BY <1>1, <2>1, <2>2, <2>3, <2>4, UnhandedIsFree
<1>3. ASSUME NEW i \in DOMAIN receipts, NEW r \in ReceiptType, Edited(i, r)
      PROVE  RemittancesHold'
  <2>1. /\ DOMAIN receipts' = DOMAIN receipts /\ receipts'[i] = r
        /\ \A j \in DOMAIN receipts \ {i} : receipts'[j] = receipts[j]
    BY <1>1, <1>3, EditFacts DEF Edited
  <2>2. r.remittance = 0 /\ receipts[i].remittance = 0 /\ remittances' = remittances
    BY <1>3 DEF Edited, Editable
  <2> QED BY <1>1, <2>1, <2>2, UnhandedIsFree
<1>4. CASE Handing
  BY <1>4, SubmitHolds, AnswerHolds DEF Handing
<1>5. CASE Untouched
  <2>1. receipts' = receipts /\ remittances' = remittances
    BY <1>5 DEF Untouched
  <2> QED BY <1>1, <2>1, UnhandedIsFree
<1> QED BY <1>1, <1>2, <1>3, <1>4, <1>5, StepKinds

LEMMA RemittancesHeld == Spec => [](BookInv /\ RemittancesHold)
<1>1. Init => RemittancesHold
  BY DEF Init, RemittancesHold
<1>2. BookInv /\ RemittancesHold /\ [Next]_vars => RemittancesHold'
  BY RemittancesKeepHolding
<1> QED BY <1>1, <1>2, BookInvariant, PTL DEF Spec

\* Handing over, sending back, correcting and handing over again never counts
\* cash twice: what an open or received remittance declares is what its receipts
\* hold, and no receipt is in two of them.
THEOREM RemittedCashStaysHeld == Spec => []RemittedCashIsHeld
<1>1. RemittancesHold => RemittedCashIsHeld
  <2> SUFFICES ASSUME RemittancesHold PROVE RemittedCashIsHeld
    OBVIOUS
  <2>1. ASSUME NEW b \in DOMAIN remittances, remittances[b].status # "rejected"
        PROVE  /\ remittances[b].items = HandedIn(b)
               /\ remittances[b].items \subseteq LiveReceipts
               /\ remittances[b].total = Cash(remittances[b].items)
    <3>1. HandedIn(b) \in SUBSET DOMAIN receipts
      BY DEF HandedIn
    <3> QED BY <2>1, <3>1, CashNow DEF RemittancesHold
  <2>2. \A i \in DOMAIN receipts : receipts[i].remittance # 0 =>
            remittances[receipts[i].remittance].status # "rejected"
    BY DEF RemittancesHold
  <2> QED BY <2>1, <2>2 DEF RemittedCashIsHeld, HandedIn
<1> QED BY <1>1, RemittancesHeld, PTL

\* The numbers in a sequence of receipts.
LEMMA ReceiptsAreTyped ==
    ASSUME NEW rs \in Seq(ReceiptType)
    PROVE  /\ IsFiniteSet(DOMAIN rs)
           /\ \A j \in DOMAIN rs :
                /\ j \in Nat \ {0} /\ rs[j] \in ReceiptType
                /\ rs[j].applied \in Nat /\ rs[j].date \in Dates
                /\ AppliedOf(rs)[j] = rs[j].applied
<1>1. DOMAIN rs = 1..Len(rs) /\ Len(rs) \in Nat
  BY LenProperties
<1>2. IsFiniteSet(DOMAIN rs)
  BY <1>1, FS_Interval
<1>3. \A j \in DOMAIN rs : j \in Nat \ {0} /\ rs[j] \in ReceiptType
  BY <1>1, ElementOfSeq
<1>4. ASSUME NEW j \in DOMAIN rs PROVE rs[j].applied \in Nat /\ rs[j].date \in Dates
  <2>1. rs[j].applied \in 0..OpeningBalance /\ rs[j].date \in Dates
    BY <1>3 DEF ReceiptType
  <2> QED BY <2>1
<1> QED BY <1>2, <1>3, <1>4 DEF AppliedOf

LEMMA CountingIsFinite ==
    ASSUME NEW rs \in Seq(ReceiptType), NEW i
    PROVE  /\ IsFiniteSet(Counting(rs, i)) /\ Counting(rs, i) \in SUBSET DOMAIN rs
           /\ IsFiniteSet(Missed(rs, i)) /\ Cardinality(Missed(rs, i)) \in Nat
           /\ SumOf(AppliedOf(rs), Counting(rs, i)) \in Int
<1>1. Counting(rs, i) \in SUBSET DOMAIN rs /\ Missed(rs, i) \in SUBSET DOMAIN rs
  BY DEF Counting, Missed
<1>2. IsFiniteSet(Counting(rs, i)) /\ IsFiniteSet(Missed(rs, i))
  BY <1>1, ReceiptsAreTyped, FS_Subset
<1>3. \A j \in Counting(rs, i) : AppliedOf(rs)[j] \in Int
  BY <1>1, ReceiptsAreTyped
<1> QED BY <1>1, <1>2, <1>3, SumIsInt, FS_CardinalityType

\* A replay depends on the live receipts it counts and on the dates of advances.
LEMMA SameReplay ==
    ASSUME NEW rs \in Seq(ReceiptType), NEW ss \in Seq(ReceiptType), NEW cov, NEW cow,
           NEW i, NEW k, NEW s, Replays(rs, cov, i, s),
           Counting(ss, k) = Counting(rs, i),
           \A j \in Counting(rs, i) : /\ ss[j].applied = rs[j].applied
                                      /\ ss[j].entry = rs[j].entry
                                      /\ ss[j].date = rs[j].date,
           AdvanceDates(ss, cow, k) = AdvanceDates(rs, cov, i)
    PROVE  Replays(ss, cow, k, s)
<1>1. PaidBy(ss, k) = PaidBy(rs, i)
  BY DEF PaidBy
<1>2. PaidDates(ss, k) = PaidDates(rs, i)
  <2>1. \A j \in PaidBy(rs, i) : ss[j].date = rs[j].date
    BY DEF PaidBy
  <2> QED BY <1>1, <2>1 DEF PaidDates
<1>3. Missed(ss, k) = Missed(rs, i)
  BY <1>1 DEF Missed
<1>4. SumOf(AppliedOf(ss), Counting(ss, k)) = SumOf(AppliedOf(rs), Counting(rs, i))
  <2>1. \A j \in Counting(rs, i) : AppliedOf(ss)[j] = AppliedOf(rs)[j]
    BY DEF Counting, AppliedOf
  <2> QED BY <2>1, SumOfSame
<1> QED BY <1>1, <1>2, <1>3, <1>4 DEF Replays

\* A voided receipt changes no replay.
LEMMA VoidedReplay ==
    ASSUME NEW rs \in Seq(ReceiptType), NEW cov \in [Dates -> Nat], NEW i \in DOMAIN rs,
           rs[i].voided, \A d \in Dates : cov[d] # i, NEW s, Replays(rs, cov, i, s)
    PROVE  Replays(rs, cov, 0, s)
<1>1. Counting(rs, 0) = Counting(rs, i)
  BY ReceiptsAreTyped DEF Counting
<1>2. AdvanceDates(rs, cov, 0) = AdvanceDates(rs, cov, i)
  BY DEF AdvanceDates
<1> QED BY <1>1, <1>2, SameReplay

\* The last receipt adds what it applied, its date and its missed day.
LEMMA LastReplay ==
    ASSUME NEW rs \in Seq(ReceiptType), NEW cov \in [Dates -> Nat], NEW i \in DOMAIN rs,
           ~rs[i].voided, \A j \in DOMAIN rs : j <= i,
           NEW s, Replays(rs, cov, i, s), s.lastPaid <= rs[i].date, s.lastPaid \in Nat,
           NEW t,
           t.balance = s.balance - rs[i].applied,
           t.lastPaid = IF rs[i].entry = "pass" THEN s.lastPaid ELSE rs[i].date,
           t.passCount = IF rs[i].entry = "pass" THEN s.passCount + 1 ELSE 0,
           IsMax(t.advUntil, AdvanceDates(rs, cov, 0))
    PROVE  Replays(rs, cov, 0, t)
<1> USE ReceiptsAreTyped, CountingIsFinite
<1>1. /\ Counting(rs, 0) = Counting(rs, i) \cup {i}
      /\ i \notin Counting(rs, i) /\ i \in Nat /\ i # 0
  BY DEF Counting
<1>2. t.balance = OpeningBalance - SumOf(AppliedOf(rs), Counting(rs, 0))
  <2>1. \A j \in Counting(rs, i) \cup {i} : AppliedOf(rs)[j] \in Int
    BY DEF Counting
  <2>2. SumOf(AppliedOf(rs), Counting(rs, 0))
        = SumOf(AppliedOf(rs), Counting(rs, i)) + AppliedOf(rs)[i]
    BY <1>1, <2>1, SumWith
  <2>3. AppliedOf(rs)[i] = rs[i].applied /\ rs[i].applied \in Int /\ OpeningBalance \in Int
    OBVIOUS
  <2>4. SumOf(AppliedOf(rs), Counting(rs, i)) \in Int
    OBVIOUS
  <2> QED BY <2>2, <2>3, <2>4 DEF Replays
<1>3. \A j \in PaidBy(rs, i) : j \in Nat /\ j < i
  BY DEF PaidBy, Counting
<1>4. CASE rs[i].entry = "pass"
  <2>1. PaidBy(rs, 0) = PaidBy(rs, i)
    BY <1>1, <1>4 DEF PaidBy
  <2>2. PaidDates(rs, 0) = PaidDates(rs, i)
    BY <2>1 DEF PaidDates
  <2>3. Missed(rs, 0) = Missed(rs, i) \cup {i}
    BY <1>1, <1>3, <2>1 DEF Missed
  <2>4. Cardinality(Missed(rs, 0)) = Cardinality(Missed(rs, i)) + 1
    <3>1. i \notin Missed(rs, i)
      BY <1>1 DEF Missed
    <3> QED BY <2>3, <3>1, FS_AddElement
  <2>5. s.passCount = (IF PaidBy(rs, i) = {} THEN OpeningPasses ELSE 0)
                      + Cardinality(Missed(rs, i))
    BY DEF Replays
  <2>6. t.passCount = (IF PaidBy(rs, 0) = {} THEN OpeningPasses ELSE 0)
                      + Cardinality(Missed(rs, 0))
    <3> DEFINE o == IF PaidBy(rs, i) = {} THEN OpeningPasses ELSE 0
               m == Cardinality(Missed(rs, i))
    <3>1. o \in Int /\ m \in Int /\ s.passCount = o + m
      BY <2>5
    <3>2. t.passCount = s.passCount + 1
      BY <1>4
    <3> HIDE DEF o, m
    <3>3. t.passCount = o + (m + 1)
      BY <3>1, <3>2
    <3> QED BY <2>1, <2>4, <3>3 DEF o, m
  <2>7. IsMax(t.lastPaid, PaidDates(rs, 0))
    BY <1>4, <2>2 DEF Replays
  <2> QED BY <1>2, <2>6, <2>7 DEF Replays
<1>5. CASE rs[i].entry # "pass"
  <2>1. PaidBy(rs, 0) = PaidBy(rs, i) \cup {i}
    BY <1>1, <1>5 DEF PaidBy
  <2>2. Missed(rs, 0) = {}
    <3>1. ASSUME NEW k \in Missed(rs, 0) PROVE FALSE
      <4>1. k \in DOMAIN rs /\ i < k
        BY <2>1 DEF Missed, Counting
      <4> QED BY <1>1, <4>1
    <3> QED BY <3>1
  <2>3. t.passCount = (IF PaidBy(rs, 0) = {} THEN OpeningPasses ELSE 0)
                      + Cardinality(Missed(rs, 0))
    <3>1. PaidBy(rs, 0) # {} /\ t.passCount = 0
      BY <1>5, <2>1
    <3>2. Cardinality(Missed(rs, 0)) = 0
      BY <2>2, FS_EmptySet
    <3> QED BY <3>1, <3>2
  <2>4. PaidDates(rs, 0) = PaidDates(rs, i) \cup {rs[i].date}
    BY <2>1 DEF PaidDates
  <2>5. PaidDates(rs, i) \subseteq Nat
    BY DEF PaidDates, PaidBy, Counting, Dates
  <2>6. IsMax(rs[i].date, PaidDates(rs, 0))
    <3>1. \A y \in PaidDates(rs, i) : y <= s.lastPaid
      BY DEF Replays, IsMax
    <3>2. rs[i].date \in Nat
      BY DEF Dates
    <3>3. \A y \in PaidDates(rs, i) : y <= rs[i].date
      BY <2>5, <3>1, <3>2
    <3> QED BY <2>4, <3>2, <3>3 DEF IsMax
  <2> QED BY <1>2, <1>5, <2>3, <2>6 DEF Replays
<1> QED BY <1>4, <1>5

\* How far the advances reach once the last receipt is counted.
LEMMA LastAdvance ==
    ASSUME NEW rs, NEW cov \in [Dates -> Nat], NEW i \in Nat \ {0}, NEW a \in Nat,
           IsMax(a, AdvanceDates(rs, cov, i)), NEW b,
           \/ b = a /\ \A d \in Dates : cov[d] = i => rs[i].entry # "advance"
           \/ /\ rs[i].entry = "advance"
              /\ \E last \in Dates : /\ cov[last] = i /\ b = Greater(a, last)
                                     /\ \A d \in Dates : cov[d] = i => d <= last
    PROVE  IsMax(b, AdvanceDates(rs, cov, 0))
<1>1. CASE b = a /\ \A d \in Dates : cov[d] = i => rs[i].entry # "advance"
  <2>1. AdvanceDates(rs, cov, 0) = AdvanceDates(rs, cov, i)
    BY <1>1 DEF AdvanceDates
  <2> QED BY <1>1, <2>1
<1>2. ASSUME rs[i].entry = "advance", NEW last \in Dates, cov[last] = i, b = Greater(a, last),
             \A d \in Dates : cov[d] = i => d <= last
      PROVE  IsMax(b, AdvanceDates(rs, cov, 0))
  <2>1. \A d \in AdvanceDates(rs, cov, 0) :
          d \in AdvanceDates(rs, cov, i) \/ (d \in Dates /\ cov[d] = i)
    BY DEF AdvanceDates
  <2>2. /\ last \in AdvanceDates(rs, cov, 0)
        /\ AdvanceDates(rs, cov, i) \subseteq AdvanceDates(rs, cov, 0)
    BY <1>2 DEF AdvanceDates
  <2>3. AdvanceDates(rs, cov, 0) \subseteq Nat
    BY DEF AdvanceDates, Dates
  <2>4. last \in Nat
    BY DEF Dates
  <2>5. b \in AdvanceDates(rs, cov, 0)
    BY <1>2, <2>2 DEF Greater, IsMax
  <2>6. \A d \in AdvanceDates(rs, cov, 0) : d <= b
    <3>1. a <= b /\ last <= b /\ b \in Nat
      BY <1>2, <2>4 DEF Greater
    <3>2. ASSUME NEW d \in AdvanceDates(rs, cov, 0) PROVE d <= a \/ d <= last
      BY <1>2, <2>1 DEF IsMax
    <3> QED BY <2>3, <2>4, <3>1, <3>2
  <2> QED BY <2>5, <2>6 DEF IsMax
<1> QED BY <1>1, <1>2

-----------------------------------------------------------------------------
(* The inductive invariants.                                               *)

\* Receipt i made the current state.
Newest(i) == i \in LiveReceipts /\ receipts[i].vAfter = version

SnapshotsInOrder ==
    \A j \in DOMAIN receipts : receipts[j].before.lastPaid <= receipts[j].date

\* The collection state replays the live receipts, and an edit of the newest
\* receipt will find the replay of the others with it.
ReplayInv ==
    /\ HistoryInv
    /\ CoveredByLiveReceipt
    /\ SnapshotsInOrder
    /\ status = "paid" <=> balance = 0
    /\ Replays(receipts, covered, 0, Snapshot)
    /\ \A i \in DOMAIN receipts : Newest(i) =>
            Replays(receipts, covered, i, receipts[i].before)

PaidUpTo(rs, d, k) == SumOf(AppliedOf(rs), {j \in PaidOn(rs, 0, d) : j <= k})
PaidBelow(rs, d, k) == SumOf(AppliedOf(rs), {j \in PaidOn(rs, 0, d) : j < k})

\* The receipt that covers a date is the one that completed it, or it took the
\* date while the date was not complete.
CoverageIsEarned ==
    \A d \in Dates : covered[d] # 0 =>
        LET r == receipts[covered[d]] IN
        /\ r.entry = "payment" =>
                /\ r.date = d
                /\ \/ PaidUpTo(receipts, d, covered[d]) >= DailyAmount
                   \/ r.before.balance = r.applied
        /\ PaidBelow(receipts, d, covered[d]) < DailyAmount

FullDayIsCovered ==
    \A d \in Dates :
        SumOf(AppliedOf(receipts), PaidOn(receipts, 0, d)) >= DailyAmount => covered[d] # 0

Tracked(i) ==
    \A d \in Dates :
        /\ PaidOn(receipts, i, d) # {}
        /\ SumOf(AppliedOf(receipts), PaidOn(receipts, i, d)) < DailyAmount
        => owed[d] > 0

ScheduleInv ==
    /\ HistoryInv
    /\ CoveredByLiveReceipt
    /\ CoverageIsEarned
    /\ FullDayIsCovered
    /\ balance > 0 => Tracked(0)
    /\ \A i \in DOMAIN receipts : Newest(i) /\ ~receipts[i].evidence => Tracked(i)

-----------------------------------------------------------------------------
(* Two kinds of steps: one writes the last receipt, any other leaves the   *)
(* state, the schedule and what the receipts say alone.                    *)

\* Receipt i, new or the newest one, is written as r.
Rewrites(i, r) ==
    /\ r \in ReceiptType /\ i \in Nat \ {0}
    /\ DOMAIN receipts' = DOMAIN receipts \cup {i}
    /\ receipts'[i] = r
    /\ \A j \in DOMAIN receipts : j <= i
    /\ \A j \in DOMAIN receipts \ {i} : receipts'[j] = receipts[j]
    /\ IF i \in DOMAIN receipts
       THEN /\ Newest(i) /\ ~receipts[i].evidence /\ ~r.evidence
            /\ r.before = receipts[i].before /\ r.date = receipts[i].date
       ELSE r.before = Snapshot /\ balance > 0
    /\ r.before.lastPaid <= r.date
    /\ version' = version + 1

\* Its dates are marked, or released.
Covers(i, r) ==
    \A d \in Dates :
        /\ covered'[d] = covered[d] \/ (covered[d] \in {0, i} /\ covered'[d] \in {0, i})
        /\ covered'[d] = i => ~r.voided /\ r.entry # "pass"

\* The state it replaced comes back, or what it says is added to that.
MovesState(i, r) ==
    /\ status' = "paid" <=> balance' = 0
    /\ r.voided => Snapshot' = r.before
    /\ ~r.voided =>
        /\ balance' = r.before.balance - r.applied
        /\ passCount' = IF r.entry = "pass" THEN r.before.passCount + 1 ELSE 0
        /\ lastPaid' = IF r.entry = "pass" THEN r.before.lastPaid ELSE r.date
        /\ \/ r.entry # "advance" /\ advUntil' = r.before.advUntil
           \/ /\ r.entry = "advance"
              /\ \E last \in Dates : /\ covered'[last] = i
                                     /\ advUntil' = Greater(r.before.advUntil, last)
                                     /\ \A d \in Dates : covered'[d] = i => d <= last

PaidBefore(i, d) == SumOf(AppliedOf(receipts), PaidOn(receipts, i, d))

\* A payment covers its date when it completes it, and leaves it open otherwise;
\* whatever opens or reduces an obligation is kept with the receipt.
MovesSchedule(i, r) ==
    /\ ~r.voided /\ r.entry = "payment" =>
        /\ \A d \in Dates : covered'[d] = i =>
                /\ d = r.date
                /\ \/ PaidBefore(i, d) + r.applied >= DailyAmount
                   \/ r.before.balance = r.applied
        /\ PaidBefore(i, r.date) + r.applied >= DailyAmount => covered'[r.date] # 0
        /\ PaidBefore(i, r.date) + r.applied < DailyAmount /\ balance' > 0 => owed'[r.date] > 0
    /\ \A d \in Dates : \/ owed'[d] >= owed[d]
                        \/ d = r.date /\ ~r.voided /\ r.entry = "payment"
    /\ r.evidence \/ owed' = owed

Writes(i, r) == Rewrites(i, r) /\ Covers(i, r) /\ MovesState(i, r)

\* The next receipt.
Latest(i) == i = Len(receipts) + 1 /\ i \notin DOMAIN receipts

LEMMA RecordRewrites ==
    ASSUME TypeOK, NEW entry \in EntryTypes, NEW d \in Dates, NEW c \in Collectors,
           NEW cash \in Nat, NEW applied \in 0..balance, NEW e \in 0..version,
           NEW evidence \in BOOLEAN, CanPost(d),
           Record(entry, d, c, cash, applied, e, evidence),
           NEW i, i = Len(receipts) + 1,
           NEW r, r = Receipt(entry, d, c, cash, applied, e, evidence)
    PROVE  /\ Rewrites(i, r) /\ Latest(i) /\ Len(receipts) \in Nat
           /\ ~r.voided /\ r.entry = entry /\ r.date = d /\ r.applied = applied
           /\ r.evidence = evidence /\ r.before = Snapshot
           /\ balance' = r.before.balance - r.applied
           /\ passCount' = IF r.entry = "pass" THEN r.before.passCount + 1 ELSE 0
           /\ lastPaid' = IF r.entry = "pass" THEN r.before.lastPaid ELSE r.date
           /\ r.before.advUntil = advUntil
           /\ status' = "paid" <=> balance' = 0
<1>1. balance > 0 /\ lastPaid <= d /\ status = "active"
  BY DEF CanPost
<1>2. r \in ReceiptType
  BY <1>1, ReceiptIsTyped
<1>3. /\ ~r.voided /\ r.entry = entry /\ r.date = d /\ r.applied = applied
      /\ r.evidence = evidence /\ r.before = Snapshot
  BY DEF Receipt
<1>4. /\ r.before.balance = balance /\ r.before.passCount = passCount
      /\ r.before.lastPaid = lastPaid /\ r.before.advUntil = advUntil
  BY <1>3 DEF Snapshot
<1>5. /\ receipts' = Append(receipts, r) /\ version' = version + 1
      /\ balance' = balance - applied
      /\ status' = IF balance' = 0 THEN "paid" ELSE status
      /\ passCount' = IF entry = "pass" THEN passCount + 1 ELSE 0
      /\ lastPaid' = IF entry = "pass" THEN lastPaid ELSE d
  BY DEF Record
<1>6. /\ Len(receipts) \in Nat /\ DOMAIN receipts = 1..Len(receipts)
      /\ DOMAIN receipts' = 1..(Len(receipts) + 1)
      /\ receipts'[Len(receipts) + 1] = r
      /\ \A j \in DOMAIN receipts : receipts'[j] = receipts[j]
  BY <1>2, <1>5, AppendFacts
<1>7. /\ i \in Nat \ {0} /\ i \notin DOMAIN receipts
      /\ DOMAIN receipts' = DOMAIN receipts \cup {i}
      /\ \A j \in DOMAIN receipts : j <= i
  BY <1>6
<1>8. Rewrites(i, r)
  BY <1>1, <1>2, <1>3, <1>4, <1>5, <1>6, <1>7 DEF Rewrites
<1> QED BY <1>1, <1>3, <1>4, <1>5, <1>6, <1>7, <1>8 DEF Latest

\* The payments of a day, as PaymentsOn and Applied see them.
LEMMA PaidIsPaymentsOn ==
    ASSUME TypeOK, NEW i, i \notin DOMAIN receipts, NEW d
    PROVE  /\ PaymentsOn(d) = PaidOn(receipts, i, d)
           /\ PaidOn(receipts, 0, d) = PaidOn(receipts, i, d)
           /\ Applied(PaymentsOn(d)) = PaidBefore(i, d)
<1>1. 0 \notin DOMAIN receipts
  BY LenProperties DEF TypeOK
<1>2. PaymentsOn(d) = PaidOn(receipts, i, d) /\ PaidOn(receipts, 0, d) = PaidOn(receipts, i, d)
  BY <1>1 DEF PaymentsOn, LiveReceipts, PaidOn, Counting
<1>3. PaymentsOn(d) \in SUBSET DOMAIN receipts
  BY DEF PaymentsOn, LiveReceipts
<1> QED BY <1>2, <1>3, AppliedNow DEF PaidBefore

LEMMA PaidIsNat ==
    ASSUME NEW rs \in Seq(ReceiptType), NEW i, NEW d
    PROVE  /\ PaidOn(rs, i, d) \in SUBSET DOMAIN rs /\ IsFiniteSet(PaidOn(rs, i, d))
           /\ \A S \in SUBSET PaidOn(rs, i, d) :
                /\ SumOf(AppliedOf(rs), S) \in Nat
                /\ SumOf(AppliedOf(rs), S) <= SumOf(AppliedOf(rs), PaidOn(rs, i, d))
<1>1. PaidOn(rs, i, d) \in SUBSET DOMAIN rs
  BY DEF PaidOn, Counting
<1>2. IsFiniteSet(PaidOn(rs, i, d))
  BY <1>1, ReceiptsAreTyped, FS_Subset
<1>3. \A j \in PaidOn(rs, i, d) : AppliedOf(rs)[j] \in Nat
  BY <1>1, ReceiptsAreTyped
<1> QED BY <1>1, <1>2, <1>3, SumIsMonotone

\* A coverage mark names a receipt of the ledger.
LEMMA MarksAreReceipts ==
    ASSUME TypeOK, CoveredByLiveReceipt, NEW d \in Dates, NEW i, i \notin DOMAIN receipts
    PROVE  covered[d] # i \/ i = 0
  BY DEF CoveredByLiveReceipt, LiveReceipts

\* Writing a payment.  Cash that meets the target completes the day or settles
\* the loan; less than that leaves an obligation.
LEMMA PaymentWrites ==
    ASSUME TypeOK, CoveredByLiveReceipt,
           NEW c \in Collectors, NEW d \in Dates, NEW e \in 0..version,
           NEW cash \in 1..MaxCash, NEW explicit \in BOOLEAN, NEW closing \in BOOLEAN,
           PostPayment(c, d, e, cash, explicit, closing)
    PROVE  \E i \in Nat, r \in ReceiptType :
              Writes(i, r) /\ (FullDayIsCovered => MovesSchedule(i, r))
<1>1. CanPost(d) /\ advUntil' = advUntil
  BY DEF PostPayment
<1>2. PICK target : target = Lesser(balance, ScheduledRemaining(d))
  OBVIOUS
<1>3. PICK i : i = Len(receipts) + 1
  OBVIOUS
<1>4. PICK applied \in 1..balance, due \in 0..DailyAmount, evidence \in BOOLEAN :
        /\ due = DueAfter(d, applied) /\ evidence = (closing \/ due # owed[d])
        /\ Record("payment", d, c, cash, applied, e, evidence)
        /\ covered' = IF target > 0 /\ applied >= target
                      THEN [covered EXCEPT ![d] = i] ELSE covered
        /\ owed' = [owed EXCEPT ![d] = due]
  BY <1>2, <1>3 DEF PostPayment
<1>5. PICK r : r = Receipt("payment", d, c, cash, applied, e, evidence)
  OBVIOUS
<1>6. /\ Rewrites(i, r) /\ Latest(i) /\ Len(receipts) \in Nat
      /\ ~r.voided /\ r.entry = "payment" /\ r.date = d /\ r.applied = applied
      /\ r.evidence = evidence /\ r.before = Snapshot
      /\ balance' = r.before.balance - r.applied
      /\ passCount' = IF r.entry = "pass" THEN r.before.passCount + 1 ELSE 0
      /\ lastPaid' = IF r.entry = "pass" THEN r.before.lastPaid ELSE r.date
      /\ r.before.advUntil = advUntil
      /\ status' = "paid" <=> balance' = 0
  <2>1. applied \in 0..balance /\ "payment" \in EntryTypes /\ cash \in Nat
    BY DEF TypeOK, EntryTypes
  <2>2. Record("payment", d, c, cash, applied, e, evidence)
    BY <1>4
  <2> QED BY <1>1, <1>3, <1>5, <2>1, <2>2, RecordRewrites
<1>7. /\ i \notin DOMAIN receipts /\ i \in Nat /\ i # 0 /\ r \in ReceiptType
      /\ r.before.balance = balance
  BY <1>6 DEF Latest, Rewrites, Snapshot
<1>8. \A x \in Dates : covered[x] # i
  BY <1>7, MarksAreReceipts
<1>9. /\ covered \in [Dates -> Nat] /\ owed \in [Dates -> 0..DailyAmount]
      /\ balance \in Nat \ {0}
  BY <1>1 DEF TypeOK, CanPost
<1> DEFINE paid == PaidBefore(i, d)
<1>10. paid \in Nat /\ Applied(PaymentsOn(d)) = paid
  <2>1. receipts \in Seq(ReceiptType)
    BY DEF TypeOK
  <2> QED BY <1>7, <2>1, PaidIsPaymentsOn, PaidIsNat DEF PaidBefore
<1>11. /\ covered[d] # 0 => ~(target > 0)
       /\ target > 0 /\ applied >= target => paid + applied >= DailyAmount \/ applied = balance
       /\ covered[d] = 0 /\ paid < DailyAmount /\ paid + applied >= DailyAmount
            => target > 0 /\ applied >= target
       /\ paid + applied < DailyAmount /\ balance - applied > 0 => due > 0
  <2>1. PICK remaining :
            remaining = IF covered[d] # 0 THEN 0 ELSE Greater(0, DailyAmount - paid)
    OBVIOUS
  <2>2. target = Lesser(balance, remaining)
    BY <1>2, <1>10, <2>1 DEF ScheduledRemaining
  <2>4. PICK unpaid :
            unpaid = Greater(0, Lesser(DailyAmount - (paid + applied), balance - applied))
    OBVIOUS
  <2>5. due = IF owed[d] > 0 THEN Lesser(owed[d], unpaid) ELSE unpaid
    BY <1>4, <1>10, <2>4 DEF DueAfter, Reconciled, UnpaidAfter
  <2>3. covered[d] \in Nat /\ owed[d] \in Nat /\ DailyAmount \in Nat \ {0}
    BY <1>9
  <2> HIDE DEF paid
  <2>6. covered[d] # 0 => ~(target > 0)
    BY <1>9, <2>1, <2>2, <2>3 DEF Lesser
  <2>7. covered[d] = 0 => remaining = Greater(0, DailyAmount - paid)
    BY <2>1
  <2>8. target > 0 /\ applied >= target => paid + applied >= DailyAmount \/ applied = balance
    BY <1>9, <1>10, <2>2, <2>3, <2>6, <2>7 DEF Lesser, Greater
  <2>9. covered[d] = 0 /\ paid < DailyAmount /\ paid + applied >= DailyAmount
            => target > 0 /\ applied >= target
    BY <1>9, <1>10, <2>2, <2>3, <2>7 DEF Lesser, Greater
  <2>10. paid + applied < DailyAmount /\ balance - applied > 0 => due > 0
    BY <1>9, <1>10, <2>3, <2>4, <2>5 DEF Lesser, Greater
  <2> QED BY <2>6, <2>8, <2>9, <2>10
<1> HIDE DEF paid
<1>12. \A x \in Dates :
         /\ covered'[x] = IF x = d /\ target > 0 /\ applied >= target THEN i ELSE covered[x]
         /\ owed'[x] = IF x = d THEN due ELSE owed[x]
  BY <1>4, <1>9
<1>13. Covers(i, r)
  BY <1>6, <1>8, <1>11, <1>12 DEF Covers
<1>14. MovesState(i, r)
  BY <1>1, <1>6 DEF MovesState
<1>15. ASSUME FullDayIsCovered PROVE MovesSchedule(i, r)
  <2>1. covered[d] = 0 => paid < DailyAmount
    <3>1. SumOf(AppliedOf(receipts), PaidOn(receipts, 0, d)) = paid
      BY <1>7, PaidIsPaymentsOn DEF PaidBefore, paid
    <3> QED BY <1>10, <1>15, <3>1 DEF FullDayIsCovered
  <2>2. \A x \in Dates : covered'[x] = i =>
            x = d /\ (paid + applied >= DailyAmount \/ applied = balance)
    BY <1>8, <1>11, <1>12
  <2>3. paid + applied >= DailyAmount => covered'[d] # 0
    BY <1>7, <1>11, <1>12, <2>1
  <2>4. paid + applied < DailyAmount /\ balance' > 0 => owed'[d] > 0
    BY <1>6, <1>7, <1>11, <1>12
  <2>5. \A x \in Dates : owed'[x] >= owed[x] \/ x = d
    BY <1>9, <1>12
  <2>6. r.evidence \/ owed' = owed
    BY <1>4, <1>6, <1>9
  <2> QED BY <1>6, <1>7, <2>2, <2>3, <2>4, <2>5, <2>6 DEF MovesSchedule, paid
<1> QED BY <1>6, <1>7, <1>13, <1>14, <1>15 DEF Writes

\* Writing a covered-date payment.
LEMMA AdvanceWrites ==
    ASSUME TypeOK, CoveredByLiveReceipt, NEW c \in Collectors, NEW d \in Dates,
           NEW cash \in 1..MaxCash, NEW dates \in SUBSET Dates, NEW closing \in BOOLEAN,
           PostAdvance(c, d, cash, dates, closing)
    PROVE  \E i \in Nat, r \in ReceiptType : Writes(i, r) /\ MovesSchedule(i, r)
<1>1. CanPost(d) /\ owed' = owed /\ \A x \in dates : covered[x] = 0
  BY DEF PostAdvance, DatesAvailable
<1>2. PICK i : i = Len(receipts) + 1
  OBVIOUS
<1>3. PICK applied \in 1..balance, last \in dates :
        /\ \A x \in dates : x <= last
        /\ Record("advance", d, c, cash, applied, version, closing)
        /\ advUntil' = Greater(advUntil, last)
  BY DEF PostAdvance
<1>4. \A x \in Dates : covered'[x] = IF x \in dates THEN i ELSE covered[x]
  BY <1>2 DEF PostAdvance
<1>5. PICK r : r = Receipt("advance", d, c, cash, applied, version, closing)
  OBVIOUS
<1>6. /\ Rewrites(i, r) /\ Latest(i) /\ Len(receipts) \in Nat
      /\ ~r.voided /\ r.entry = "advance" /\ r.date = d /\ r.applied = applied
      /\ r.evidence = closing /\ r.before = Snapshot
      /\ balance' = r.before.balance - r.applied
      /\ passCount' = IF r.entry = "pass" THEN r.before.passCount + 1 ELSE 0
      /\ lastPaid' = IF r.entry = "pass" THEN r.before.lastPaid ELSE r.date
      /\ r.before.advUntil = advUntil
      /\ status' = "paid" <=> balance' = 0
  <2>1. applied \in 0..balance /\ "advance" \in EntryTypes /\ cash \in Nat
        /\ version \in 0..version
    BY DEF TypeOK, EntryTypes
  <2> QED BY <1>1, <1>2, <1>3, <1>5, <2>1, RecordRewrites
<1>7. i \notin DOMAIN receipts /\ i \in Nat /\ i # 0 /\ r \in ReceiptType
  BY <1>6 DEF Latest, Rewrites
<1>8. \A x \in Dates : covered[x] # i
  BY <1>7, MarksAreReceipts
<1>9. Covers(i, r)
  BY <1>1, <1>4, <1>6, <1>8 DEF Covers
<1>10. MovesState(i, r)
  <2>1. last \in Dates /\ covered'[last] = i
    BY <1>4
  <2>2. \A x \in Dates : covered'[x] = i => x <= last
    BY <1>3, <1>4, <1>8
  <2>3. advUntil' = Greater(r.before.advUntil, last)
    BY <1>3, <1>6
  <2> QED BY <1>6, <2>1, <2>2, <2>3 DEF MovesState
<1>11. MovesSchedule(i, r)
  <2>1. \A x \in Dates : owed'[x] >= owed[x]
    BY <1>1 DEF TypeOK
  <2> QED BY <1>1, <1>6, <2>1 DEF MovesSchedule
<1> QED BY <1>6, <1>7, <1>9, <1>10, <1>11 DEF Writes

\* Writing a PASS.
LEMMA PassWrites ==
    ASSUME TypeOK, CoveredByLiveReceipt, NEW c \in Collectors, NEW d \in Dates, PostPass(c, d)
    PROVE  \E i \in Nat, r \in ReceiptType : Writes(i, r) /\ MovesSchedule(i, r)
<1>1. /\ CanPost(d) /\ owed[d] = 0 /\ covered' = covered /\ advUntil' = advUntil
      /\ Record("pass", d, c, 0, 0, version, TRUE)
  BY DEF PostPass
<1>2. PICK due \in 1..DailyAmount : owed' = [owed EXCEPT ![d] = due]
  BY DEF PostPass
<1>3. PICK i : i = Len(receipts) + 1
  OBVIOUS
<1>n. PICK evidence \in BOOLEAN : evidence = TRUE
  OBVIOUS
<1>4. PICK r : r = Receipt("pass", d, c, 0, 0, version, evidence)
  OBVIOUS
<1>5. /\ Rewrites(i, r) /\ Latest(i) /\ Len(receipts) \in Nat
      /\ ~r.voided /\ r.entry = "pass" /\ r.date = d /\ r.applied = 0
      /\ r.evidence = evidence /\ r.before = Snapshot
      /\ balance' = r.before.balance - r.applied
      /\ passCount' = IF r.entry = "pass" THEN r.before.passCount + 1 ELSE 0
      /\ lastPaid' = IF r.entry = "pass" THEN r.before.lastPaid ELSE r.date
      /\ r.before.advUntil = advUntil
      /\ status' = "paid" <=> balance' = 0
  <2>1. 0 \in 0..balance /\ "pass" \in EntryTypes /\ 0 \in Nat /\ version \in 0..version
    BY DEF TypeOK, EntryTypes
  <2>2. Record("pass", d, c, 0, 0, version, evidence)
    BY <1>1, <1>n
  <2> QED BY <1>1, <1>3, <1>4, <2>1, <2>2, RecordRewrites
<1>6. i \notin DOMAIN receipts /\ i \in Nat /\ i # 0 /\ r \in ReceiptType
  BY <1>5 DEF Latest, Rewrites
<1>7. \A x \in Dates : covered[x] # i
  BY <1>6, MarksAreReceipts
<1>8. Covers(i, r) /\ MovesState(i, r)
  BY <1>1, <1>5, <1>7 DEF Covers, MovesState
<1>9. MovesSchedule(i, r)
  <2>1. \A x \in Dates : owed'[x] >= owed[x]
    BY <1>1, <1>2 DEF TypeOK
  <2> QED BY <1>n, <1>5, <2>1 DEF MovesSchedule
<1> QED BY <1>5, <1>6, <1>8, <1>9 DEF Writes

\* Writing the newest receipt again: what an edit leaves of the ledger.
LEMMA EditRewrites ==
    ASSUME HistoryInv, SnapshotsInOrder,
           NEW i \in DOMAIN receipts, Editable(i), Touch,
           NEW r \in ReceiptType, r.before = receipts[i].before, r.date = receipts[i].date,
           r.evidence = receipts[i].evidence, receipts' = [receipts EXCEPT ![i] = r]
    PROVE  Rewrites(i, r)
<1>1. TypeOK
  BY DEF HistoryInv
<1>2. /\ DOMAIN receipts' = DOMAIN receipts /\ receipts'[i] = r
      /\ \A j \in DOMAIN receipts \ {i} : receipts'[j] = receipts[j]
  BY <1>1, EditFacts
<1>3. i \in Nat \ {0}
  <2>1. receipts \in Seq(ReceiptType)
    BY <1>1 DEF TypeOK
  <2>2. DOMAIN receipts = 1 .. Len(receipts) /\ Len(receipts) \in Nat
    BY <2>1, LenProperties
  <2> QED BY <2>2
<1>4. Newest(i) /\ ~receipts[i].evidence /\ version' = version + 1
  BY DEF Editable, Newest, Touch
<1>5. \A j \in DOMAIN receipts : j <= i
  BY EditableIsLast
<1> QED BY <1>2, <1>3, <1>4, <1>5 DEF Rewrites, SnapshotsInOrder

\* Writing a correction.  It completes the day or settles the loan when it makes a
\* payment of the receipt.
LEMMA CorrectionWrites ==
    ASSUME HistoryInv, SnapshotsInOrder,
           NEW c \in Collectors, NEW i \in DOMAIN receipts, NEW type \in EntryTypes,
           NEW amount \in 0..MaxCash, NEW dates \in SUBSET Dates,
           CorrectOwn(c, i, type, amount, dates)
    PROVE  \E r \in ReceiptType : Writes(i, r) /\ MovesSchedule(i, r)
<1> DEFINE o == receipts[i]
<1>1. TypeOK /\ o \in ReceiptType /\ i \in Nat /\ i # 0
  BY MemberIsTyped, LenProperties DEF HistoryInv, TypeOK
<1>2. PICK r : r = [o EXCEPT !.entry = type, !.amount = amount, !.applied = amount,
                             !.vAfter = version + 1]
  OBVIOUS
<1>3. /\ Editable(i) /\ Touch /\ owed' = owed
      /\ receipts' = [receipts EXCEPT ![i] = r]
      /\ balance' = o.before.balance - amount
      /\ status' = IF balance' = 0 THEN "paid" ELSE "active"
      /\ passCount' = IF type = "pass" THEN o.before.passCount + 1 ELSE 0
      /\ lastPaid' = IF type = "pass" THEN o.before.lastPaid ELSE o.date
      /\ covered' = [x \in Dates |-> IF x \in dates THEN i ELSE CoverageWithout(i)[x]]
      /\ \A x \in dates : covered[x] \in {0, i}
  BY <1>2 DEF CorrectOwn, DatesAvailable
<1>4. /\ IF type = "pass" THEN dates = {} ELSE dates # {}
      /\ type = "payment" => dates = {o.date}
      /\ amount <= o.before.balance
      /\ type = "payment" => ~LeavesRemainder(o, i, amount)
  BY DEF CorrectOwn, ValidReplacement
<1>5. r \in ReceiptType
  <2>1. ~o.voided
    BY <1>3 DEF Editable, LiveReceipts
  <2>2. o.before.balance \in 1..OpeningBalance
    BY <1>1 DEF ReceiptType
  <2>3. amount \in Nat /\ amount \in 0..OpeningBalance /\ version + 1 \in Nat
    BY <1>1, <1>4, <2>2 DEF TypeOK
  <2> QED BY <1>1, <1>2, <2>3 DEF ReceiptType
<1>6. /\ r.before = o.before /\ r.date = o.date /\ r.evidence = o.evidence
      /\ r.voided = o.voided /\ r.entry = type /\ r.applied = amount
  BY <1>1, <1>2 DEF ReceiptType
<1>7. Rewrites(i, r)
  BY <1>3, <1>5, <1>6, EditRewrites
<1>8. ~r.voided /\ ~r.evidence
  BY <1>3, <1>6 DEF Editable, LiveReceipts
<1>9. \A x \in Dates : covered'[x] = IF x \in dates THEN i
                                    ELSE IF covered[x] = i THEN 0 ELSE covered[x]
  BY <1>3 DEF CoverageWithout
<1>10. Covers(i, r)
  BY <1>1, <1>3, <1>4, <1>6, <1>8, <1>9 DEF Covers
<1>11. \A x \in Dates : covered'[x] = i <=> x \in dates
  BY <1>1, <1>9
<1>12. MovesState(i, r)
  <2>1. CASE type = "advance"
    <3>1. PICK last \in dates : /\ \A x \in dates : x <= last
                                /\ advUntil' = Greater(o.before.advUntil, last)
      BY <2>1 DEF CorrectOwn
    <3>2. last \in Dates /\ covered'[last] = i /\ \A x \in Dates : covered'[x] = i => x <= last
      BY <1>11, <3>1
    <3> QED BY <1>3, <1>6, <1>8, <2>1, <3>1, <3>2 DEF MovesState
  <2>2. CASE type # "advance"
    <3>1. advUntil' = o.before.advUntil
      BY <2>2 DEF CorrectOwn
    <3> QED BY <1>3, <1>6, <1>8, <2>2, <3>1 DEF MovesState
  <2> QED BY <2>1, <2>2
<1>13. MovesSchedule(i, r)
  <2>1. \A x \in Dates : owed'[x] >= owed[x]
    <3>1. owed' = owed /\ owed \in [Dates -> 0..DailyAmount]
      BY <1>1, <1>3 DEF TypeOK
    <3>2. \A x \in Dates : owed[x] \in Int
      BY <3>1
    <3> QED BY <3>1, <3>2
  <2>2. CASE type # "payment"
    BY <1>3, <1>6, <2>1, <2>2 DEF MovesSchedule
  <2>3. CASE type = "payment"
    <3>1. Applied(PaymentsOn(o.date) \ {i}) = PaidBefore(i, o.date)
      <4>1. 0 \notin DOMAIN receipts
        BY <1>1, LenProperties DEF TypeOK
      <4>2. PaymentsOn(o.date) \ {i} = PaidOn(receipts, i, o.date)
        BY <4>1 DEF PaymentsOn, LiveReceipts, PaidOn, Counting
      <4>3. PaymentsOn(o.date) \ {i} \in SUBSET DOMAIN receipts
        BY DEF PaymentsOn, LiveReceipts
      <4> QED BY <4>2, <4>3, AppliedNow DEF PaidBefore
    <3>2. PaidBefore(i, o.date) \in Nat
      BY <1>1, PaidIsNat DEF PaidBefore, TypeOK
    <3>3. o.before.balance \in Nat
      BY <1>1 DEF ReceiptType
    <3>4. PaidBefore(i, o.date) + amount >= DailyAmount \/ o.before.balance = amount
      BY <1>4, <2>3, <3>1, <3>2, <3>3 DEF LeavesRemainder
    <3>5. PaidBefore(i, o.date) + amount < DailyAmount => ~(balance' > 0)
      BY <1>3, <3>2, <3>3, <3>4
    <3>6. covered'[o.date] = i /\ \A x \in Dates : covered'[x] = i => x = o.date
      <4>1. o.date \in Dates
        BY <1>1 DEF ReceiptType
      <4> QED BY <1>4, <1>11, <2>3, <4>1
    <3>7. /\ \A x \in Dates : covered'[x] = i =>
                /\ x = r.date
                /\ \/ PaidBefore(i, x) + r.applied >= DailyAmount
                   \/ r.before.balance = r.applied
          /\ covered'[r.date] # 0
          /\ PaidBefore(i, r.date) + r.applied < DailyAmount => ~(balance' > 0)
      BY <1>1, <1>6, <3>4, <3>5, <3>6
    <3> QED BY <1>3, <2>1, <3>7 DEF MovesSchedule
  <2> QED BY <2>2, <2>3
<1> QED BY <1>5, <1>7, <1>10, <1>12, <1>13 DEF Writes

\* Writing an undo or a void: the state the receipt replaced comes back.
LEMMA RestoreWrites ==
    ASSUME HistoryInv, SnapshotsInOrder,
           NEW i \in DOMAIN receipts, Editable(i), Restore(i)
    PROVE  \E r \in ReceiptType : Writes(i, r) /\ MovesSchedule(i, r)
<1> DEFINE o == receipts[i]
<1>1. TypeOK /\ o \in ReceiptType /\ i \in Nat /\ i # 0
  BY MemberIsTyped, LenProperties DEF HistoryInv, TypeOK
<1>2. PICK r : r = [o EXCEPT !.voided = TRUE]
  OBVIOUS
<1>3. /\ Touch /\ owed' = owed /\ covered' = CoverageWithout(i)
      /\ receipts' = [receipts EXCEPT ![i] = r]
      /\ balance' = o.before.balance /\ passCount' = o.before.passCount
      /\ lastPaid' = o.before.lastPaid /\ advUntil' = o.before.advUntil
      /\ status' = IF balance' = 0 THEN "paid" ELSE "active"
  BY <1>2 DEF Restore
<1>4. /\ r \in ReceiptType /\ r.voided /\ r.before = o.before /\ r.date = o.date
      /\ r.evidence = o.evidence
  BY <1>1, <1>2 DEF ReceiptType
<1>5. Rewrites(i, r)
  BY <1>3, <1>4, EditRewrites
<1>6. \A x \in Dates : covered'[x] = IF covered[x] = i THEN 0 ELSE covered[x]
  BY <1>3 DEF CoverageWithout
<1>7. Covers(i, r)
  BY <1>1, <1>6 DEF Covers
<1>8. MovesState(i, r)
  <2>1. Snapshot' = r.before
    <3>1. o.before = [balance |-> o.before.balance, lastPaid |-> o.before.lastPaid,
                      advUntil |-> o.before.advUntil, passCount |-> o.before.passCount]
      BY <1>1 DEF ReceiptType
    <3> QED BY <1>3, <1>4, <3>1 DEF Snapshot
  <2> QED BY <1>3, <1>4, <2>1 DEF MovesState
<1>9. MovesSchedule(i, r)
  <2>1. \A x \in Dates : owed'[x] >= owed[x]
    BY <1>1, <1>3 DEF TypeOK
  <2> QED BY <1>3, <1>4, <2>1 DEF MovesSchedule
<1> QED BY <1>4, <1>5, <1>7, <1>8, <1>9 DEF Writes

\* The state, the schedule and what the receipts say stay as they are.
Rests ==
    /\ UNCHANGED <<balance, passCount, lastPaid, advUntil, status, covered, owed>>
    /\ DOMAIN receipts' = DOMAIN receipts
    /\ \A j \in DOMAIN receipts :
        /\ receipts'[j].entry = receipts[j].entry
        /\ receipts'[j].date = receipts[j].date
        /\ receipts'[j].applied = receipts[j].applied
        /\ receipts'[j].voided = receipts[j].voided
        /\ receipts'[j].before = receipts[j].before
        /\ receipts'[j].evidence = receipts[j].evidence
        /\ receipts'[j].vAfter = receipts[j].vAfter
    /\ version' = version \/ version' = version + 1

LEMMA HandingRests ==
    ASSUME TypeOK, Handing
    PROVE  Rests
<1>1. \A j \in DOMAIN receipts : receipts[j] \in ReceiptType
  BY MemberIsTyped
<1>2. Moved
  BY HandingIsMoved
<1>3. UNCHANGED <<balance, passCount, lastPaid, advUntil, status, covered, owed, version>>
  BY DEF Handing, SubmitRemittance, ConfirmReceived, RejectRemittance, state
<1>4. ASSUME NEW j \in DOMAIN receipts
      PROVE  /\ receipts'[j].entry = receipts[j].entry
             /\ receipts'[j].date = receipts[j].date
             /\ receipts'[j].applied = receipts[j].applied
             /\ receipts'[j].voided = receipts[j].voided
             /\ receipts'[j].before = receipts[j].before
             /\ receipts'[j].evidence = receipts[j].evidence
             /\ receipts'[j].vAfter = receipts[j].vAfter
  <2>1. receipts'[j] = [receipts[j] EXCEPT !.remittance = receipts'[j].remittance]
    BY <1>2 DEF Moved
  <2> QED BY <1>1, <2>1 DEF ReceiptType
<1> QED BY <1>2, <1>3, <1>4 DEF Rests, Moved

\* Every step writes the last receipt or rests.
LEMMA StepWrites ==
    ASSUME HistoryInv, CoveredByLiveReceipt, SnapshotsInOrder, [Next]_vars
    PROVE  \/ \E i \in Nat, r \in ReceiptType :
                Writes(i, r) /\ (FullDayIsCovered => MovesSchedule(i, r))
           \/ Rests
<1>1. TypeOK
  BY DEF HistoryInv
<1>2. \A i \in DOMAIN receipts : i \in Nat
  BY <1>1, MemberIsTyped
<1> DEFINE W == \E i \in Nat, r \in ReceiptType :
                    Writes(i, r) /\ (FullDayIsCovered => MovesSchedule(i, r))
<1>3. ASSUME NEW c \in Collectors, Post(c) PROVE W
  BY <1>1, <1>3, PaymentWrites, AdvanceWrites DEF Post
<1>4. ASSUME NEW c \in Collectors, NEW d \in Dates, PostPass(c, d) PROVE W
  BY <1>1, <1>4, PassWrites
<1>5. ASSUME NEW i \in DOMAIN receipts, Editable(i), Restore(i) PROVE W
  BY <1>2, <1>5, RestoreWrites
<1>6. ASSUME NEW c \in Collectors, Edit(c) PROVE W
  <2>1. ASSUME NEW i \in DOMAIN receipts, NEW type \in EntryTypes, NEW amount \in 0..MaxCash,
               NEW dates \in SUBSET Dates, CorrectOwn(c, i, type, amount, dates)
        PROVE  W
    BY <1>2, <2>1, CorrectionWrites
  <2> HIDE DEF W
  <2> QED BY <1>5, <1>6, <2>1 DEF Edit, UndoByCollector
<1>7. ASSUME Handing PROVE Rests
  BY <1>1, <1>7, HandingRests
<1>8. ASSUME ChangeSchedule \/ NextDay \/ UNCHANGED vars PROVE Rests
  BY <1>8 DEF ChangeSchedule, NextDay, Touch, vars, state, Rests
<1> HIDE DEF W
<1>9. W \/ Rests
  <2>1. ASSUME NEW c \in Collectors, Post(c) \/ (\E d \in Dates : PostPass(c, d)) \/ Edit(c)
        PROVE  W
    BY <1>3, <1>4, <1>6, <2>1
  <2>2. ASSUME NEW i \in DOMAIN receipts, VoidByManagement(i)
        PROVE  W
    BY <1>5, <2>2 DEF VoidByManagement
  <2> QED BY <1>7, <1>8, <2>1, <2>2 DEF Next, Handing
<1> QED BY <1>9 DEF W

-----------------------------------------------------------------------------
(* The state is the replay of the live receipts.                           *)

\* Only the receipt that was written can be the newest after it.
LEMMA NewestIsWritten ==
    ASSUME HistoryInv, NEW i \in Nat, NEW r \in ReceiptType, Rewrites(i, r),
           NEW j, Newest(j)'
    PROVE  j = i
<1> SUFFICES ASSUME j # i PROVE FALSE
  OBVIOUS
<1>1. TypeOK /\ version \in Nat
  BY DEF HistoryInv, TypeOK
<1>2. j \in DOMAIN receipts /\ receipts'[j] = receipts[j] /\ version' = version + 1
  BY DEF Rewrites, Newest, LiveReceipts
<1>3. receipts[j].vAfter \in Nat /\ receipts[j].vAfter <= version
  BY <1>1, <1>2, FieldsAreTyped DEF HistoryInv, SpansAreOrdered
<1> QED BY <1>1, <1>2, <1>3 DEF Newest

\* No receipt is the newest when the version moved on without one.
LEMMA RestingNewest ==
    ASSUME HistoryInv, Rests, NEW j, Newest(j)'
    PROVE  Newest(j) /\ j \in DOMAIN receipts
<1>1. TypeOK /\ version \in Nat
  BY DEF HistoryInv, TypeOK
<1>2. j \in LiveReceipts /\ j \in DOMAIN receipts /\ receipts'[j].vAfter = receipts[j].vAfter
  BY DEF Rests, Newest, LiveReceipts
<1>3. receipts[j].vAfter \in Nat /\ receipts[j].vAfter <= version
  BY <1>1, <1>2, FieldsAreTyped DEF HistoryInv, SpansAreOrdered
<1> QED BY <1>1, <1>2, <1>3 DEF Newest, Rests

LEMMA WritingKeepsCoverage ==
    ASSUME HistoryInv, CoveredByLiveReceipt, NEW i \in Nat, NEW r \in ReceiptType, Writes(i, r)
    PROVE  CoveredByLiveReceipt'
<1> SUFFICES ASSUME NEW d \in Dates, covered'[d] # 0
             PROVE  /\ covered'[d] \in LiveReceipts'
                    /\ receipts'[covered'[d]].entry # "pass"
  BY DEF CoveredByLiveReceipt
<1>1. CASE covered'[d] = i
  BY <1>1 DEF Writes, Rewrites, Covers, LiveReceipts
<1>2. CASE covered'[d] # i
  <2>1. covered'[d] = covered[d] /\ covered[d] # 0 /\ covered[d] # i
    BY <1>2 DEF Writes, Covers
  <2>2. /\ covered[d] \in LiveReceipts /\ receipts[covered[d]].entry # "pass"
        /\ receipts'[covered[d]] = receipts[covered[d]]
    BY <2>1 DEF CoveredByLiveReceipt, Writes, Rewrites, LiveReceipts
  <2>3. covered[d] \in LiveReceipts'
    BY <2>2 DEF Writes, Rewrites, LiveReceipts
  <2> QED BY <2>1, <2>2, <2>3
<1> QED BY <1>1, <1>2

\* Whichever receipt is written, it finds the replay of the others with it.
LEMMA OthersReplay ==
    ASSUME ReplayInv, HistoryInv', NEW i \in Nat, NEW r \in ReceiptType, Writes(i, r)
    PROVE  Replays(receipts', covered', i, r.before)
<1>1. /\ receipts \in Seq(ReceiptType) /\ receipts' \in Seq(ReceiptType)
      /\ 0 \notin DOMAIN receipts
  <2>1. receipts \in Seq(ReceiptType) /\ receipts' \in Seq(ReceiptType)
    BY DEF ReplayInv, HistoryInv, TypeOK
  <2> QED BY <2>1, ReceiptsAreTyped
<1>2. /\ i # 0 /\ DOMAIN receipts' = DOMAIN receipts \cup {i}
      /\ \A j \in DOMAIN receipts \ {i} : receipts'[j] = receipts[j]
  BY DEF Writes, Rewrites
<1>3. \A d \in Dates : covered[d] # 0 => covered[d] \in DOMAIN receipts
  BY DEF ReplayInv, CoveredByLiveReceipt, LiveReceipts
<1>4. Replays(receipts, covered, i, r.before)
  <2>1. CASE i \in DOMAIN receipts
    BY <2>1 DEF ReplayInv, Writes, Rewrites
  <2>2. CASE i \notin DOMAIN receipts
    <3>1. Counting(receipts, i) = Counting(receipts, 0)
      BY <1>1, <2>2 DEF Counting
    <3>2. AdvanceDates(receipts, covered, i) = AdvanceDates(receipts, covered, 0)
      BY <1>3, <2>2 DEF AdvanceDates
    <3>3. Replays(receipts, covered, 0, r.before)
      BY <2>2 DEF ReplayInv, Writes, Rewrites
    <3> QED BY <1>1, <3>1, <3>2, <3>3, SameReplay
  <2> QED BY <2>1, <2>2
<1>5. Counting(receipts', i) = Counting(receipts, i)
  BY <1>2 DEF Counting
<1>6. \A j \in Counting(receipts, i) : receipts'[j] = receipts[j]
  BY <1>2 DEF Counting
<1>7. AdvanceDates(receipts', covered', i) = AdvanceDates(receipts, covered, i)
  <2>1. ASSUME NEW d \in Dates
        PROVE  /\ covered'[d] \notin {0, i} <=> covered[d] \notin {0, i}
               /\ covered[d] \notin {0, i} => /\ covered'[d] = covered[d]
                                              /\ receipts'[covered[d]] = receipts[covered[d]]
    BY <1>2, <1>3 DEF Writes, Covers
  <2> QED BY <2>1 DEF AdvanceDates
<1> QED BY <1>1, <1>4, <1>5, <1>6, <1>7, SameReplay

LEMMA WritingKeepsReplay ==
    ASSUME ReplayInv, HistoryInv', NEW i \in Nat, NEW r \in ReceiptType, Writes(i, r)
    PROVE  ReplayInv'
<1>1. /\ receipts' \in Seq(ReceiptType) /\ covered' \in [Dates -> Nat]
      /\ Replays(receipts', covered', i, r.before)
  BY OthersReplay DEF HistoryInv, TypeOK
<1>2. /\ i # 0 /\ i \in DOMAIN receipts' /\ receipts'[i] = r
      /\ \A j \in DOMAIN receipts' : j <= i
      /\ \A j \in DOMAIN receipts \ {i} : receipts'[j] = receipts[j]
      /\ DOMAIN receipts' = DOMAIN receipts \cup {i}
      /\ r.before.lastPaid <= r.date
  BY DEF Writes, Rewrites
<1>3. /\ r.before.lastPaid \in Nat /\ r.before.advUntil \in Nat
  BY DEF ReceiptType
<1>4. Replays(receipts', covered', 0, Snapshot')
  <2>1. CASE r.voided
    <3>1. Snapshot' = r.before /\ \A d \in Dates : covered'[d] # i
      BY <2>1 DEF Writes, MovesState, Covers
    <3> QED BY <1>1, <1>2, <2>1, <3>1, VoidedReplay
  <2>2. CASE ~r.voided
    <3>1. PICK t : t = Snapshot'
      OBVIOUS
    <3>2. /\ t.balance = balance' /\ t.passCount = passCount'
          /\ t.lastPaid = lastPaid' /\ t.advUntil = advUntil'
      BY <3>1 DEF Snapshot
    <3>3. IsMax(t.advUntil, AdvanceDates(receipts', covered', 0))
      <4>1. IsMax(r.before.advUntil, AdvanceDates(receipts', covered', i))
        BY <1>1 DEF Replays
      <4>2. \/ /\ t.advUntil = r.before.advUntil
               /\ \A d \in Dates : covered'[d] = i => receipts'[i].entry # "advance"
            \/ /\ receipts'[i].entry = "advance"
               /\ \E last \in Dates : /\ covered'[last] = i
                                      /\ t.advUntil = Greater(r.before.advUntil, last)
                                      /\ \A d \in Dates : covered'[d] = i => d <= last
        BY <1>2, <2>2, <3>2 DEF Writes, MovesState
      <4> QED BY <1>1, <1>2, <1>3, <4>1, <4>2, LastAdvance
    <3>4. /\ t.balance = r.before.balance - receipts'[i].applied
          /\ t.lastPaid = IF receipts'[i].entry = "pass" THEN r.before.lastPaid ELSE receipts'[i].date
          /\ t.passCount = IF receipts'[i].entry = "pass" THEN r.before.passCount + 1 ELSE 0
      BY <1>2, <2>2, <3>2 DEF Writes, MovesState
    <3>5. Replays(receipts', covered', 0, t)
      BY <1>1, <1>2, <1>3, <2>2, <3>3, <3>4, LastReplay
    <3> QED BY <3>1, <3>5
  <2> QED BY <2>1, <2>2
<1>5. \A j \in DOMAIN receipts' : Newest(j)' => Replays(receipts', covered', j, receipts'[j].before)
  BY <1>1, <1>2, NewestIsWritten DEF Writes, ReplayInv
<1>6. SnapshotsInOrder'
  BY <1>2 DEF ReplayInv, SnapshotsInOrder
<1>7. CoveredByLiveReceipt'
  BY WritingKeepsCoverage DEF ReplayInv
<1>8. status' = "paid" <=> balance' = 0
  BY DEF Writes, MovesState
<1> QED BY <1>4, <1>5, <1>6, <1>7, <1>8 DEF ReplayInv

LEMMA RestingKeepsReplay ==
    ASSUME ReplayInv, HistoryInv', Rests
    PROVE  ReplayInv'
<1>1. receipts \in Seq(ReceiptType) /\ receipts' \in Seq(ReceiptType)
  BY DEF ReplayInv, HistoryInv, TypeOK
<1>2. /\ DOMAIN receipts' = DOMAIN receipts /\ covered' = covered
      /\ Snapshot' = Snapshot /\ status' = status /\ balance' = balance
  BY DEF Rests, Snapshot
<1>3. CoveredByLiveReceipt'
  <2>1. LiveReceipts' = LiveReceipts
    BY DEF LiveReceipts, Rests
  <2> QED BY <1>2, <2>1 DEF ReplayInv, CoveredByLiveReceipt, Rests, LiveReceipts
<1>4. ASSUME NEW i, NEW s, Replays(receipts, covered, i, s)
      PROVE  Replays(receipts', covered', i, s)
  <2>1. Counting(receipts', i) = Counting(receipts, i)
    BY DEF Counting, Rests
  <2>2. \A j \in Counting(receipts, i) : /\ receipts'[j].applied = receipts[j].applied
                                         /\ receipts'[j].entry = receipts[j].entry
                                         /\ receipts'[j].date = receipts[j].date
    BY DEF Counting, Rests
  <2>3. AdvanceDates(receipts', covered', i) = AdvanceDates(receipts, covered, i)
    <3>1. \A d \in Dates : covered[d] # 0 =>
            receipts'[covered[d]].entry = receipts[covered[d]].entry
      BY DEF ReplayInv, CoveredByLiveReceipt, LiveReceipts, Rests
    <3> QED BY <1>2, <3>1 DEF AdvanceDates
  <2> QED BY <1>1, <1>4, <2>1, <2>2, <2>3, SameReplay
<1>5. Replays(receipts', covered', 0, Snapshot')
  BY <1>2, <1>4 DEF ReplayInv
<1>6. \A j \in DOMAIN receipts' : Newest(j)' => Replays(receipts', covered', j, receipts'[j].before)
  <2> SUFFICES ASSUME NEW j \in DOMAIN receipts', Newest(j)'
               PROVE  Replays(receipts', covered', j, receipts'[j].before)
    OBVIOUS
  <2>1. Newest(j) /\ j \in DOMAIN receipts /\ receipts'[j].before = receipts[j].before
    BY RestingNewest DEF ReplayInv, Rests
  <2> QED BY <1>4, <2>1 DEF ReplayInv
<1>7. SnapshotsInOrder'
  BY DEF ReplayInv, SnapshotsInOrder, Rests
<1> QED BY <1>2, <1>3, <1>5, <1>6, <1>7 DEF ReplayInv

LEMMA ReplayInvariant == Spec => []ReplayInv
<1>1. Init /\ HistoryInv => ReplayInv
  <2> SUFFICES ASSUME Init, HistoryInv PROVE ReplayInv
    OBVIOUS
  <2>1. DOMAIN receipts = {} /\ LiveReceipts = {} /\ \A i : Counting(receipts, i) = {}
    BY DEF Init, LiveReceipts, Counting
  <2>2. \A d \in Dates : covered[d] = 0
    BY DEF Init
  <2>3. Replays(receipts, covered, 0, Snapshot)
    <3>1. PaidBy(receipts, 0) = {} /\ Missed(receipts, 0) = {}
      BY <2>1 DEF PaidBy, Missed
    <3>2. PaidDates(receipts, 0) = {0} /\ AdvanceDates(receipts, covered, 0) = {0}
      BY <2>2, <3>1 DEF PaidDates, AdvanceDates
    <3>3. /\ Snapshot.balance = OpeningBalance /\ Snapshot.lastPaid = 0
          /\ Snapshot.advUntil = 0 /\ Snapshot.passCount = OpeningPasses
      BY DEF Snapshot, Init
    <3>4. SumOf(AppliedOf(receipts), Counting(receipts, 0)) = 0
      BY <2>1, SumOfNone
    <3>5. Cardinality(Missed(receipts, 0)) = 0
      BY <3>1, FS_EmptySet
    <3>6. OpeningBalance = OpeningBalance - 0 /\ OpeningPasses = OpeningPasses + 0
      OBVIOUS
    <3> QED BY <3>1, <3>2, <3>3, <3>4, <3>5, <3>6 DEF Replays, IsMax
  <2>4. status # "paid" /\ balance # 0
    BY DEF Init
  <2> QED BY <2>1, <2>2, <2>3, <2>4 DEF ReplayInv, CoveredByLiveReceipt, SnapshotsInOrder
<1>2. ReplayInv /\ [Next]_vars /\ HistoryInv' => ReplayInv'
  <2> SUFFICES ASSUME ReplayInv, [Next]_vars, HistoryInv' PROVE ReplayInv'
    OBVIOUS
  <2> QED BY StepWrites, WritingKeepsReplay, RestingKeepsReplay DEF ReplayInv
<1> QED BY <1>1, <1>2, HistoryInvariant, PTL DEF Spec

\* The largest element of a set, if it has one, is its Max.
LEMMA MaxIsUnique ==
    ASSUME NEW S \in SUBSET Int, NEW x, IsMax(x, S)
    PROVE  x = Max(S)
<1>1. \E y \in S : \A z \in S : y >= z
  BY DEF IsMax
<1>2. Max(S) \in S /\ \A z \in S : Max(S) >= z
  BY <1>1 DEF Max
<1>3. x \in Int /\ Max(S) \in Int /\ Max(S) <= x /\ Max(S) >= x
  BY <1>2 DEF IsMax
<1> QED BY <1>3

\* Whatever was posted, corrected, undone or voided, the collection state is the
\* one the live receipts add up to: no peso is lost or counted twice, the missed
\* streak, the last payment date and the advance coverage are those of the
\* receipts that still count, and the loan is paid exactly when nothing remains.
THEOREM StateStaysReplay == Spec => []StateIsReplayOfReceipts
<1>1. ReplayInv => StateIsReplayOfReceipts
  <2> SUFFICES ASSUME ReplayInv PROVE StateIsReplayOfReceipts
    OBVIOUS
  <2>1. receipts \in Seq(ReceiptType) /\ 0 \notin DOMAIN receipts
    <3>1. receipts \in Seq(ReceiptType)
      BY DEF ReplayInv, HistoryInv, TypeOK
    <3> QED BY <3>1, ReceiptsAreTyped
  <2>2. /\ Counting(receipts, 0) = LiveReceipts
        /\ PaidBy(receipts, 0) = Paying
    BY <2>1 DEF Counting, LiveReceipts, PaidBy, Paying
  <2>3. /\ Snapshot.balance = balance /\ Snapshot.lastPaid = lastPaid
        /\ Snapshot.advUntil = advUntil /\ Snapshot.passCount = passCount
    BY DEF Snapshot
  <2>4. Replays(receipts, covered, 0, Snapshot)
    BY DEF ReplayInv
  <2>5. balance = OpeningBalance - Applied(LiveReceipts)
    <3>1. LiveReceipts \in SUBSET DOMAIN receipts
      BY DEF LiveReceipts
    <3> QED BY <2>2, <2>3, <2>4, <3>1, AppliedNow DEF Replays
  <2>6. lastPaid = Max({0} \cup {receipts[i].date : i \in Paying})
    <3>1. PaidDates(receipts, 0) \in SUBSET Int
      <4>1. \A j \in PaidBy(receipts, 0) : receipts[j].date \in Int
        BY <2>1, ReceiptsAreTyped DEF PaidBy, Counting, Dates
      <4> QED BY <4>1 DEF PaidDates
    <3>2. lastPaid = Max(PaidDates(receipts, 0))
      BY <2>3, <2>4, <3>1, MaxIsUnique DEF Replays
    <3> QED BY <2>2, <3>2 DEF PaidDates
  <2>7. passCount = (IF Paying = {} THEN OpeningPasses ELSE 0)
                    + Cardinality({i \in LiveReceipts : \A j \in Paying : j < i})
    BY <2>2, <2>3, <2>4 DEF Replays, Missed
  <2>8. advUntil = Max({0} \cup {d \in Dates : /\ covered[d] # 0
                                               /\ receipts[covered[d]].entry = "advance"})
    <3>1. AdvanceDates(receipts, covered, 0) \in SUBSET Int
      BY DEF AdvanceDates, Dates
    <3>2. advUntil = Max(AdvanceDates(receipts, covered, 0))
      BY <2>3, <2>4, <3>1, MaxIsUnique DEF Replays
    <3>3. AdvanceDates(receipts, covered, 0)
          = {0} \cup {d \in Dates : covered[d] # 0 /\ receipts[covered[d]].entry = "advance"}
      BY DEF AdvanceDates
    <3> QED BY <3>2, <3>3
  <2> QED BY <2>5, <2>6, <2>7, <2>8 DEF StateIsReplayOfReceipts, ReplayInv
<1> QED BY <1>1, ReplayInvariant, PTL

-----------------------------------------------------------------------------
(* The schedule says what the receipts paid.                               *)

\* What the receipts but the written one say is what they said.
LEMMA OthersPaid ==
    ASSUME HistoryInv, HistoryInv', NEW i \in Nat, NEW r \in ReceiptType, Rewrites(i, r),
           NEW d
    PROVE  /\ PaidOn(receipts', i, d) = PaidOn(receipts, i, d)
           /\ PaidOn(receipts', 0, d)
              = PaidOn(receipts, i, d)
                \cup (IF ~r.voided /\ r.entry = "payment" /\ r.date = d THEN {i} ELSE {})
           /\ \A S \in SUBSET PaidOn(receipts, i, d) :
                SumOf(AppliedOf(receipts'), S) = SumOf(AppliedOf(receipts), S)
           /\ PaidBefore(i, d) \in Nat
           /\ SumOf(AppliedOf(receipts'), PaidOn(receipts', 0, d))
              = PaidBefore(i, d)
                + (IF ~r.voided /\ r.entry = "payment" /\ r.date = d THEN r.applied ELSE 0)
<1>1. receipts \in Seq(ReceiptType) /\ receipts' \in Seq(ReceiptType)
  BY DEF HistoryInv, TypeOK
<1>2. /\ 0 \notin DOMAIN receipts' /\ i # 0
      /\ DOMAIN receipts' = DOMAIN receipts \cup {i} /\ receipts'[i] = r
      /\ \A j \in DOMAIN receipts \ {i} : receipts'[j] = receipts[j]
  BY <1>1, ReceiptsAreTyped DEF Rewrites
<1>3. PaidOn(receipts', i, d) = PaidOn(receipts, i, d)
  BY <1>2 DEF PaidOn, Counting
<1>4. PaidOn(receipts', 0, d)
      = PaidOn(receipts, i, d)
        \cup (IF ~r.voided /\ r.entry = "payment" /\ r.date = d THEN {i} ELSE {})
  <2>1. PaidOn(receipts', 0, d)
        = {j \in DOMAIN receipts' : ~receipts'[j].voided /\ receipts'[j].entry = "payment"
                                    /\ receipts'[j].date = d}
    BY <1>2 DEF PaidOn, Counting
  <2>2. PaidOn(receipts, i, d)
        = {j \in DOMAIN receipts \ {i} : ~receipts[j].voided /\ receipts[j].entry = "payment"
                                         /\ receipts[j].date = d}
    BY DEF PaidOn, Counting
  <2>3. CASE ~r.voided /\ r.entry = "payment" /\ r.date = d
    BY <1>2, <2>1, <2>2, <2>3
  <2>4. CASE ~(~r.voided /\ r.entry = "payment" /\ r.date = d)
    BY <1>2, <2>1, <2>2, <2>4
  <2> QED BY <2>3, <2>4
<1>5. ASSUME NEW S \in SUBSET PaidOn(receipts, i, d)
      PROVE  SumOf(AppliedOf(receipts'), S) = SumOf(AppliedOf(receipts), S)
  <2>1. \A j \in S : AppliedOf(receipts')[j] = AppliedOf(receipts)[j]
    BY <1>2 DEF PaidOn, Counting, AppliedOf
  <2> QED BY <2>1, SumOfSame
<1>6. PaidBefore(i, d) \in Nat /\ IsFiniteSet(PaidOn(receipts, i, d))
  BY <1>1, PaidIsNat DEF PaidBefore
<1>7. SumOf(AppliedOf(receipts'), PaidOn(receipts, i, d)) = PaidBefore(i, d)
  BY <1>5 DEF PaidBefore
<1>8. SumOf(AppliedOf(receipts'), PaidOn(receipts', 0, d))
      = PaidBefore(i, d)
        + (IF ~r.voided /\ r.entry = "payment" /\ r.date = d THEN r.applied ELSE 0)
  <2>1. CASE ~r.voided /\ r.entry = "payment" /\ r.date = d
    <3>1. PaidOn(receipts', 0, d) = PaidOn(receipts, i, d) \cup {i}
      BY <1>4, <2>1
    <3>2. i \notin PaidOn(receipts, i, d)
      BY DEF PaidOn, Counting
    <3>3. \A j \in PaidOn(receipts, i, d) \cup {i} : AppliedOf(receipts')[j] \in Int
      BY <1>1, <1>2, ReceiptsAreTyped DEF PaidOn, Counting
    <3>4. AppliedOf(receipts')[i] = r.applied
      BY <1>2 DEF AppliedOf
    <3>5. SumOf(AppliedOf(receipts'), PaidOn(receipts, i, d) \cup {i})
          = SumOf(AppliedOf(receipts'), PaidOn(receipts, i, d)) + AppliedOf(receipts')[i]
      BY <1>6, <3>2, <3>3, SumWith
    <3> QED BY <1>7, <2>1, <3>1, <3>4, <3>5
  <2>2. CASE ~(~r.voided /\ r.entry = "payment" /\ r.date = d)
    <3>1. PaidOn(receipts', 0, d) = PaidOn(receipts, i, d)
      BY <1>4, <2>2
    <3> QED BY <1>6, <1>7, <2>2, <3>1
  <2> QED BY <2>1, <2>2
<1> QED BY <1>3, <1>4, <1>5, <1>6, <1>8

\* A date that is open to the written receipt was not paid in full without it.
LEMMA OpenDateIsUnpaid ==
    ASSUME ScheduleInv, HistoryInv', NEW i \in Nat, NEW r \in ReceiptType, Rewrites(i, r),
           NEW d \in Dates, covered[d] \in {0, i}
    PROVE  PaidBefore(i, d) < DailyAmount
<1>1. /\ receipts \in Seq(ReceiptType) /\ 0 \notin DOMAIN receipts /\ DailyAmount \in Nat
      /\ HistoryInv
  <2>1. receipts \in Seq(ReceiptType) /\ HistoryInv
    BY DEF ScheduleInv, HistoryInv, TypeOK
  <2> QED BY <2>1, ReceiptsAreTyped
<1>2. PaidOn(receipts, i, d) \in SUBSET PaidOn(receipts, 0, d)
  BY <1>1 DEF PaidOn, Counting
<1>3. CASE covered[d] = 0
  <2>1. /\ SumOf(AppliedOf(receipts), PaidOn(receipts, 0, d)) \in Nat
        /\ PaidBefore(i, d) \in Nat
        /\ PaidBefore(i, d) <= SumOf(AppliedOf(receipts), PaidOn(receipts, 0, d))
    BY <1>1, <1>2, PaidIsNat DEF PaidBefore
  <2>2. ~(SumOf(AppliedOf(receipts), PaidOn(receipts, 0, d)) >= DailyAmount)
    BY <1>3 DEF ScheduleInv, FullDayIsCovered
  <2> QED BY <1>1, <2>1, <2>2
<1>4. CASE covered[d] = i /\ i # 0
  <2>1. PaidBelow(receipts, d, i) < DailyAmount
    BY <1>4 DEF ScheduleInv, CoverageIsEarned
  <2>2. {j \in PaidOn(receipts, 0, d) : j < i} = PaidOn(receipts, i, d)
    <3>1. \A j \in DOMAIN receipts : j \in Nat /\ j <= i
      BY <1>1, ReceiptsAreTyped DEF Rewrites
    <3>2. \A j \in DOMAIN receipts : j < i <=> j # i
      BY <3>1
    <3> QED BY <1>1, <3>2 DEF PaidOn, Counting
  <2> QED BY <2>1, <2>2 DEF PaidBelow, PaidBefore
<1> QED BY <1>3, <1>4

\* Whichever receipt is written, a day the others left incomplete was tracked.
LEMMA OthersTracked ==
    ASSUME ScheduleInv, NEW i \in Nat, NEW r \in ReceiptType, Rewrites(i, r)
    PROVE  Tracked(i)
<1>1. receipts \in Seq(ReceiptType) /\ 0 \notin DOMAIN receipts
  <2>1. receipts \in Seq(ReceiptType)
    BY DEF ScheduleInv, HistoryInv, TypeOK
  <2> QED BY <2>1, ReceiptsAreTyped
<1>2. CASE i \in DOMAIN receipts
  BY <1>2 DEF ScheduleInv, Rewrites
<1>3. CASE i \notin DOMAIN receipts
  <2>1. Tracked(0)
    BY <1>3 DEF ScheduleInv, Rewrites
  <2>2. \A d : PaidOn(receipts, i, d) = PaidOn(receipts, 0, d)
    BY <1>1, <1>3 DEF PaidOn, Counting
  <2> QED BY <2>1, <2>2 DEF Tracked
<1> QED BY <1>2, <1>3

\* A mark of another receipt goes on being earned: only later receipts changed.
LEMMA OthersEarned ==
    ASSUME ScheduleInv, HistoryInv', NEW i \in Nat, NEW r \in ReceiptType, Writes(i, r),
           NEW d \in Dates, covered'[d] # 0, covered'[d] # i
    PROVE  /\ receipts'[covered'[d]].entry = "payment" =>
                /\ receipts'[covered'[d]].date = d
                /\ \/ PaidUpTo(receipts', d, covered'[d]) >= DailyAmount
                   \/ receipts'[covered'[d]].before.balance = receipts'[covered'[d]].applied
           /\ PaidBelow(receipts', d, covered'[d]) < DailyAmount
<1>1. /\ HistoryInv /\ receipts \in Seq(ReceiptType) /\ 0 \notin DOMAIN receipts
      /\ Rewrites(i, r)
  <2>1. HistoryInv /\ receipts \in Seq(ReceiptType) /\ Rewrites(i, r)
    BY DEF ScheduleInv, HistoryInv, TypeOK, Writes
  <2> QED BY <2>1, ReceiptsAreTyped
<1>2. PICK k : k = covered'[d]
  OBVIOUS
<1>3. covered[d] = k /\ k # 0 /\ k # i
  BY <1>2 DEF Writes, Covers
<1>4. k \in DOMAIN receipts /\ receipts'[k] = receipts[k]
  BY <1>1, <1>3 DEF ScheduleInv, CoveredByLiveReceipt, LiveReceipts, Rewrites
<1>5. /\ k \in Nat /\ k < i
      /\ \A j \in DOMAIN receipts : j \in Nat
  BY <1>1, <1>3, <1>4, ReceiptsAreTyped DEF Rewrites
<1>6. /\ PaidOn(receipts, i, d) = PaidOn(receipts, 0, d) \ {i}
      /\ \A j \in PaidOn(receipts', 0, d) : j \in PaidOn(receipts, i, d) \/ j = i
      /\ PaidOn(receipts, i, d) \subseteq PaidOn(receipts', 0, d)
  <2>1. PaidOn(receipts, i, d) = PaidOn(receipts, 0, d) \ {i}
    BY <1>1 DEF PaidOn, Counting
  <2>2. PaidOn(receipts', 0, d)
        = PaidOn(receipts, i, d)
          \cup (IF ~r.voided /\ r.entry = "payment" /\ r.date = d THEN {i} ELSE {})
    BY <1>1, OthersPaid
  <2> QED BY <2>1, <2>2
<1>7. /\ {j \in PaidOn(receipts', 0, d) : j <= k} = {j \in PaidOn(receipts, 0, d) : j <= k}
      /\ {j \in PaidOn(receipts', 0, d) : j < k} = {j \in PaidOn(receipts, 0, d) : j < k}
      /\ {j \in PaidOn(receipts, 0, d) : j <= k} \in SUBSET PaidOn(receipts, i, d)
      /\ {j \in PaidOn(receipts, 0, d) : j < k} \in SUBSET PaidOn(receipts, i, d)
  <2>1. ~(i <= k) /\ ~(i < k)
    BY <1>5
  <2> QED BY <1>6, <2>1
<1>8. /\ PaidUpTo(receipts', d, k) = PaidUpTo(receipts, d, k)
      /\ PaidBelow(receipts', d, k) = PaidBelow(receipts, d, k)
  <2>1. \A S \in SUBSET PaidOn(receipts, i, d) :
            SumOf(AppliedOf(receipts'), S) = SumOf(AppliedOf(receipts), S)
    BY <1>1, OthersPaid
  <2> QED BY <1>7, <2>1 DEF PaidUpTo, PaidBelow
<1>9. /\ receipts[k].entry = "payment" =>
            /\ receipts[k].date = d
            /\ \/ PaidUpTo(receipts, d, k) >= DailyAmount
               \/ receipts[k].before.balance = receipts[k].applied
      /\ PaidBelow(receipts, d, k) < DailyAmount
  BY <1>3 DEF ScheduleInv, CoverageIsEarned
<1> QED BY <1>2, <1>4, <1>8, <1>9

\* A mark of the written receipt is earned.
LEMMA WrittenEarned ==
    ASSUME ScheduleInv, HistoryInv', NEW i \in Nat, NEW r \in ReceiptType, Writes(i, r),
           MovesSchedule(i, r), NEW d \in Dates, covered'[d] = i
    PROVE  /\ r.entry = "payment" =>
                /\ r.date = d
                /\ PaidUpTo(receipts', d, i) >= DailyAmount \/ r.before.balance = r.applied
           /\ PaidBelow(receipts', d, i) < DailyAmount
<1>1. HistoryInv /\ Rewrites(i, r) /\ ~r.voided /\ covered[d] \in {0, i}
  BY DEF ScheduleInv, Writes, Covers
<1>2. /\ receipts' \in Seq(ReceiptType) /\ 0 \notin DOMAIN receipts' /\ i # 0
      /\ \A j \in DOMAIN receipts' : j \in Nat /\ j <= i
  <2>1. receipts' \in Seq(ReceiptType)
    BY DEF HistoryInv, TypeOK
  <2> QED BY <1>1, <2>1, ReceiptsAreTyped DEF Rewrites
<1>3. /\ PaidOn(receipts', i, d) = PaidOn(receipts, i, d)
      /\ SumOf(AppliedOf(receipts'), PaidOn(receipts, i, d)) = PaidBefore(i, d)
      /\ SumOf(AppliedOf(receipts'), PaidOn(receipts', 0, d))
         = PaidBefore(i, d)
           + (IF ~r.voided /\ r.entry = "payment" /\ r.date = d THEN r.applied ELSE 0)
  BY <1>1, OthersPaid DEF PaidBefore
<1>4. PaidBelow(receipts', d, i) < DailyAmount
  <2>1. {j \in PaidOn(receipts', 0, d) : j < i} = PaidOn(receipts', i, d)
    <3>1. \A j \in DOMAIN receipts' : j < i <=> j # i
      BY <1>2
    <3> QED BY <1>2, <3>1 DEF PaidOn, Counting
  <2>2. PaidBefore(i, d) < DailyAmount
    BY <1>1, OpenDateIsUnpaid
  <2> QED BY <1>3, <2>1, <2>2 DEF PaidBelow
<1>5. ASSUME r.entry = "payment"
      PROVE  /\ r.date = d
             /\ PaidUpTo(receipts', d, i) >= DailyAmount \/ r.before.balance = r.applied
  <2>1. /\ d = r.date
        /\ PaidBefore(i, d) + r.applied >= DailyAmount \/ r.before.balance = r.applied
    BY <1>1, <1>5 DEF MovesSchedule
  <2>2. {j \in PaidOn(receipts', 0, d) : j <= i} = PaidOn(receipts', 0, d)
    BY <1>2 DEF PaidOn, Counting
  <2> QED BY <1>1, <1>3, <1>5, <2>1, <2>2 DEF PaidUpTo
<1> QED BY <1>4, <1>5

LEMMA WritingKeepsSchedule ==
    ASSUME ScheduleInv, HistoryInv', NEW i \in Nat, NEW r \in ReceiptType, Writes(i, r),
           MovesSchedule(i, r)
    PROVE  ScheduleInv'
<1> DEFINE pays(d) == ~r.voided /\ r.entry = "payment" /\ r.date = d
<1>1. /\ HistoryInv /\ CoveredByLiveReceipt /\ Rewrites(i, r) /\ Covers(i, r)
      /\ i \in DOMAIN receipts' /\ receipts'[i] = r
      /\ owed \in [Dates -> 0..DailyAmount] /\ owed' \in [Dates -> 0..DailyAmount]
      /\ DailyAmount \in Nat
  BY DEF ScheduleInv, HistoryInv, TypeOK, Writes, Rewrites
<1>2. ASSUME NEW d
      PROVE  /\ PaidOn(receipts', i, d) = PaidOn(receipts, i, d)
             /\ PaidBefore(i, d) \in Nat
             /\ PaidOn(receipts', 0, d)
                = PaidOn(receipts, i, d) \cup (IF pays(d) THEN {i} ELSE {})
             /\ SumOf(AppliedOf(receipts'), PaidOn(receipts, i, d)) = PaidBefore(i, d)
             /\ SumOf(AppliedOf(receipts'), PaidOn(receipts', 0, d))
                = PaidBefore(i, d) + (IF pays(d) THEN r.applied ELSE 0)
  <2>1. \A S \in SUBSET PaidOn(receipts, i, d) :
            SumOf(AppliedOf(receipts'), S) = SumOf(AppliedOf(receipts), S)
    BY <1>1, OthersPaid
  <2>2. SumOf(AppliedOf(receipts'), PaidOn(receipts, i, d)) = PaidBefore(i, d)
    BY <2>1 DEF PaidBefore
  <2> QED BY <1>1, <2>2, OthersPaid
<1>3. CoveredByLiveReceipt'
  BY <1>1, WritingKeepsCoverage
<1>4. CoverageIsEarned'
  <2> SUFFICES ASSUME NEW d \in Dates, covered'[d] # 0
               PROVE  /\ receipts'[covered'[d]].entry = "payment" =>
                           /\ receipts'[covered'[d]].date = d
                           /\ \/ PaidUpTo(receipts', d, covered'[d]) >= DailyAmount
                              \/ receipts'[covered'[d]].before.balance
                                 = receipts'[covered'[d]].applied
                      /\ PaidBelow(receipts', d, covered'[d]) < DailyAmount
    BY DEF CoverageIsEarned
  <2>1. CASE covered'[d] = i
    BY <1>1, <2>1, WrittenEarned
  <2>2. CASE covered'[d] # i
    BY <2>2, OthersEarned
  <2> QED BY <2>1, <2>2
<1>5. FullDayIsCovered'
  <2> SUFFICES ASSUME NEW d \in Dates,
                      SumOf(AppliedOf(receipts'), PaidOn(receipts', 0, d)) >= DailyAmount
               PROVE  covered'[d] # 0
    BY DEF FullDayIsCovered
  <2>1. CASE pays(d)
    <3>1. PaidBefore(i, d) + r.applied >= DailyAmount
      BY <1>2, <2>1
    <3> QED BY <2>1, <3>1 DEF MovesSchedule
  <2>2. CASE ~pays(d)
    <3>1. PaidBefore(i, d) >= DailyAmount
      BY <1>2, <2>2
    <3>2. covered[d] \notin {0, i}
      BY <1>1, <1>2, <3>1, OpenDateIsUnpaid
    <3> QED BY <1>1, <3>2 DEF Covers
  <2> QED BY <2>1, <2>2
<1>6. Tracked(i)
  BY <1>1, OthersTracked
<1>7. ASSUME balance' > 0 PROVE Tracked(0)'
  <2> SUFFICES ASSUME NEW d \in Dates, PaidOn(receipts', 0, d) # {},
                      SumOf(AppliedOf(receipts'), PaidOn(receipts', 0, d)) < DailyAmount
               PROVE  owed'[d] > 0
    BY DEF Tracked
  <2>1. CASE pays(d)
    <3>1. PaidBefore(i, d) + r.applied < DailyAmount
      BY <1>2, <2>1
    <3> QED BY <1>7, <2>1, <3>1 DEF MovesSchedule
  <2>2. CASE ~pays(d)
    <3>1. PaidOn(receipts, i, d) # {} /\ PaidBefore(i, d) < DailyAmount
      BY <1>2, <2>2
    <3>2. owed[d] > 0
      BY <1>6, <3>1 DEF Tracked, PaidBefore
    <3>3. owed'[d] >= owed[d]
      BY <2>2 DEF MovesSchedule
    <3> QED BY <1>1, <3>2, <3>3
  <2> QED BY <2>1, <2>2
<1>8. ASSUME ~r.evidence PROVE Tracked(i)'
  <2> SUFFICES ASSUME NEW d \in Dates, PaidOn(receipts', i, d) # {},
                      SumOf(AppliedOf(receipts'), PaidOn(receipts', i, d)) < DailyAmount
               PROVE  owed'[d] > 0
    BY DEF Tracked
  <2>1. PaidOn(receipts, i, d) # {} /\ PaidBefore(i, d) < DailyAmount
    BY <1>2
  <2>2. owed' = owed
    BY <1>8 DEF MovesSchedule
  <2> QED BY <1>6, <2>1, <2>2 DEF Tracked, PaidBefore
<1>9. \A j \in DOMAIN receipts' : Newest(j)' /\ ~receipts'[j].evidence => Tracked(j)'
  <2> SUFFICES ASSUME NEW j \in DOMAIN receipts', Newest(j)', ~receipts'[j].evidence
               PROVE  Tracked(j)'
    OBVIOUS
  <2>1. j = i
    BY <1>1, NewestIsWritten
  <2>2. ~r.evidence
    BY <1>1, <2>1
  <2> QED BY <1>8, <2>1, <2>2
<1> QED BY <1>3, <1>4, <1>5, <1>7, <1>9 DEF ScheduleInv

LEMMA RestingKeepsSchedule ==
    ASSUME ScheduleInv, HistoryInv', Rests
    PROVE  ScheduleInv'
<1>1. /\ DOMAIN receipts' = DOMAIN receipts /\ HistoryInv
      /\ covered' = covered /\ owed' = owed /\ balance' = balance
  BY DEF Rests, ScheduleInv
<1>2. \A i, d : PaidOn(receipts', i, d) = PaidOn(receipts, i, d)
  BY DEF PaidOn, Counting, Rests
<1>3. ASSUME NEW S \in SUBSET DOMAIN receipts
      PROVE  SumOf(AppliedOf(receipts'), S) = SumOf(AppliedOf(receipts), S)
  <2>1. \A j \in S : AppliedOf(receipts')[j] = AppliedOf(receipts)[j]
    BY DEF AppliedOf, Rests
  <2> QED BY <2>1, SumOfSame
<1>4. ASSUME NEW i, NEW d
      PROVE  SumOf(AppliedOf(receipts'), PaidOn(receipts', i, d))
             = SumOf(AppliedOf(receipts), PaidOn(receipts, i, d))
  <2>1. PaidOn(receipts, i, d) \in SUBSET DOMAIN receipts
    BY DEF PaidOn, Counting
  <2> QED BY <1>2, <1>3, <2>1
<1>5. ASSUME NEW d, NEW k
      PROVE  /\ PaidUpTo(receipts', d, k) = PaidUpTo(receipts, d, k)
             /\ PaidBelow(receipts', d, k) = PaidBelow(receipts, d, k)
  <2>1. /\ {j \in PaidOn(receipts, 0, d) : j <= k} \in SUBSET DOMAIN receipts
        /\ {j \in PaidOn(receipts, 0, d) : j < k} \in SUBSET DOMAIN receipts
    BY DEF PaidOn, Counting
  <2> QED BY <1>2, <1>3, <2>1 DEF PaidUpTo, PaidBelow
<1>6. \A d \in Dates : covered[d] # 0 =>
        /\ covered[d] \in DOMAIN receipts
        /\ receipts'[covered[d]].entry = receipts[covered[d]].entry
        /\ receipts'[covered[d]].date = receipts[covered[d]].date
        /\ receipts'[covered[d]].applied = receipts[covered[d]].applied
        /\ receipts'[covered[d]].before = receipts[covered[d]].before
  BY DEF ScheduleInv, CoveredByLiveReceipt, LiveReceipts, Rests
<1>7. CoveredByLiveReceipt'
  BY <1>1, <1>6 DEF ScheduleInv, CoveredByLiveReceipt, LiveReceipts, Rests
<1>8. CoverageIsEarned'
  <2> SUFFICES ASSUME NEW d \in Dates, covered[d] # 0
               PROVE  /\ receipts'[covered[d]].entry = "payment" =>
                           /\ receipts'[covered[d]].date = d
                           /\ \/ PaidUpTo(receipts', d, covered[d]) >= DailyAmount
                              \/ receipts'[covered[d]].before.balance
                                 = receipts'[covered[d]].applied
                      /\ PaidBelow(receipts', d, covered[d]) < DailyAmount
    BY <1>1 DEF CoverageIsEarned
  <2> QED BY <1>5, <1>6 DEF ScheduleInv, CoverageIsEarned
<1>9. FullDayIsCovered'
  BY <1>1, <1>4 DEF ScheduleInv, FullDayIsCovered
<1>10. ASSUME NEW i PROVE Tracked(i) => Tracked(i)'
  BY <1>1, <1>2, <1>4 DEF Tracked
<1>11. balance' > 0 => Tracked(0)'
  BY <1>1, <1>10 DEF ScheduleInv
<1>12. \A j \in DOMAIN receipts' : Newest(j)' /\ ~receipts'[j].evidence => Tracked(j)'
  <2> SUFFICES ASSUME NEW j \in DOMAIN receipts', Newest(j)', ~receipts'[j].evidence
               PROVE  Tracked(j)'
    OBVIOUS
  <2>1. Newest(j) /\ j \in DOMAIN receipts /\ ~receipts[j].evidence
    BY <1>1, RestingNewest DEF Rests
  <2> QED BY <1>10, <2>1 DEF ScheduleInv
<1> QED BY <1>7, <1>8, <1>9, <1>11, <1>12 DEF ScheduleInv

LEMMA ScheduleInvariant == Spec => []ScheduleInv
<1>1. Init /\ HistoryInv => ScheduleInv
  <2> SUFFICES ASSUME Init, HistoryInv PROVE ScheduleInv
    OBVIOUS
  <2>1. /\ DOMAIN receipts = {} /\ \A d \in Dates : covered[d] = 0
        /\ \A i, d : PaidOn(receipts, i, d) = {}
    BY DEF Init, PaidOn, Counting
  <2>2. FullDayIsCovered
    <3>1. SumOf(AppliedOf(receipts), {}) = 0 /\ ~(0 >= DailyAmount)
      BY SumOfNone
    <3> QED BY <2>1, <3>1 DEF FullDayIsCovered
  <2> QED BY <2>1, <2>2 DEF ScheduleInv, CoveredByLiveReceipt, CoverageIsEarned, Tracked
<1>2. ScheduleInv /\ ReplayInv /\ [Next]_vars /\ HistoryInv' => ScheduleInv'
  <2> SUFFICES ASSUME ScheduleInv, ReplayInv, [Next]_vars, HistoryInv' PROVE ScheduleInv'
    OBVIOUS
  <2>1. HistoryInv /\ CoveredByLiveReceipt /\ SnapshotsInOrder /\ FullDayIsCovered
    BY DEF ScheduleInv, ReplayInv
  <2> QED BY <2>1, StepWrites, WritingKeepsSchedule, RestingKeepsSchedule
<1> QED BY <1>1, <1>2, HistoryInvariant, ReplayInvariant, PTL DEF Spec

\* The schedule of the loan says what its live receipts paid: a covered date was
\* paid in full or taken by an advance that still counts, a fully paid date is
\* covered, and a shortfall never goes unrecorded, whichever receipts of the day
\* are corrected, undone or voided afterwards.
THEOREM ScheduleStaysPaid == Spec => []ScheduleFollowsReceipts
<1>1. ScheduleInv => ScheduleFollowsReceipts
  <2> SUFFICES ASSUME ScheduleInv PROVE ScheduleFollowsReceipts
    OBVIOUS
  <2>1. TypeOK /\ receipts \in Seq(ReceiptType) /\ 0 \notin DOMAIN receipts
        /\ DailyAmount \in Nat
    <3>1. TypeOK /\ receipts \in Seq(ReceiptType)
      BY DEF ScheduleInv, HistoryInv, TypeOK
    <3> QED BY <3>1, ReceiptsAreTyped
  <2>2. ASSUME NEW d
        PROVE  /\ PaymentsOn(d) = PaidOn(receipts, 0, d)
               /\ Applied(PaymentsOn(d)) = SumOf(AppliedOf(receipts), PaidOn(receipts, 0, d))
    BY <2>1, PaidIsPaymentsOn DEF PaidBefore
  <2>3. CoveredDayIsPaid
    <3> SUFFICES ASSUME NEW d \in Dates
                 PROVE  /\ covered[d] # 0 => (receipts[covered[d]].entry = "payment" =>
                                /\ receipts[covered[d]].date = d
                                /\ \/ Applied(PaymentsOn(d)) >= DailyAmount
                                   \/ receipts[covered[d]].before.balance
                                      = receipts[covered[d]].applied)
                        /\ Applied(PaymentsOn(d)) >= DailyAmount => covered[d] # 0
      BY DEF CoveredDayIsPaid
    <3>1. Applied(PaymentsOn(d)) >= DailyAmount => covered[d] # 0
      BY <2>2 DEF ScheduleInv, FullDayIsCovered
    <3>2. ASSUME covered[d] # 0, receipts[covered[d]].entry = "payment"
          PROVE  /\ receipts[covered[d]].date = d
                 /\ \/ Applied(PaymentsOn(d)) >= DailyAmount
                    \/ receipts[covered[d]].before.balance = receipts[covered[d]].applied
      <4>1. /\ receipts[covered[d]].date = d
            /\ \/ PaidUpTo(receipts, d, covered[d]) >= DailyAmount
               \/ receipts[covered[d]].before.balance = receipts[covered[d]].applied
        BY <3>2 DEF ScheduleInv, CoverageIsEarned
      <4>2. {j \in PaidOn(receipts, 0, d) : j <= covered[d]} \in SUBSET PaidOn(receipts, 0, d)
        OBVIOUS
      <4>3. /\ PaidUpTo(receipts, d, covered[d]) \in Nat
            /\ PaidUpTo(receipts, d, covered[d])
               <= SumOf(AppliedOf(receipts), PaidOn(receipts, 0, d))
            /\ SumOf(AppliedOf(receipts), PaidOn(receipts, 0, d)) \in Nat
        BY <2>1, <4>2, PaidIsNat DEF PaidUpTo
      <4> QED BY <2>1, <2>2, <4>1, <4>3
    <3> QED BY <3>1, <3>2
  <2>4. PartialDayIsTracked
    BY <2>2 DEF ScheduleInv, Tracked, PartialDayIsTracked
  <2> QED BY <2>3, <2>4 DEF ScheduleFollowsReceipts, ScheduleInv
<1> QED BY <1>1, ScheduleInvariant, PTL
=============================================================================
