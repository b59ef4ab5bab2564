----------------------------- MODULE TreasuryProofs -----------------------------
(***************************************************************************)
(* Money that was observed is used once and whole, and what is decided on  *)
(* a claim is about the evidence it shows.                                  *)
(*                                                                         *)
(* The guards that keep two uses of a movement apart are spread over three *)
(* commands: a linked source looks at links, transfers and receipts, a     *)
(* transfer leg at links and receipts, and a receipt looks at nothing but  *)
(* whose receipt the movement is.  MoneyInv says why that is enough: only  *)
(* movements that were recorded are used, so a new receipt stands on a new *)
(* movement.  Sums are taken of functions of the tables, which makes one    *)
(* lemma serve the table before and after a step.                          *)
(*                                                                         *)
(* The statements of an account are the second part, and the postings of   *)
(* money on loans the third, each with a specification of its own,         *)
(* StatementsSpec and PostingSpec.                                         *)
(***************************************************************************)
EXTENDS Treasury, TreasuryStatements, TreasuryPosting, SequenceTheorems, Sums

-----------------------------------------------------------------------------
(* The rows of the tables.                                                 *)

ClaimStatuses == {"none", "pending_verification", "reviewed", "correction_required",
                  "rejected", "received", "partly_applied", "recorded"}

EventType == [account : Accounts, ref : Refs, dir : {"debit", "credit"},
              amount : Amounts, corrected : BOOLEAN]
ReceiptType == [client : Clients \cup {NoClient}, applied : Int, refunded : Int]
ClaimType == [client : Clients \cup {NoClient}, account : Accounts \cup {NoClient},
              version : Nat, status : ClaimStatuses, decidedOn : Nat, receipt : Nat]
ApplicationType == [receipt : EventIds, amount : Amounts, active : BOOLEAN]
SourceType == {RefundOf(r) : r \in EventIds} \cup {PaymentOf(s) : s \in Sources}
LinkType == [event : EventIds, source : SourceType, amount : Amounts]
TransferType == [from : Accounts \cup {NoClient}, to : Accounts \cup {NoClient},
                 amount : Nat, debit : Nat, credit : Nat]

Tables ==
    /\ events \in Seq(EventType) /\ Len(events) <= MaxEvents
    /\ receipts \in [EventIds -> ReceiptType]
    /\ claims \in [Claims -> ClaimType]
    /\ applications \in Seq(ApplicationType)
    /\ links \in SUBSET LinkType /\ IsFiniteSet(links)
    /\ due \in [Sources -> Nat]
    /\ transfers \in [Transfers -> TransferType]

Legs(t) == {transfers[t].debit, transfers[t].credit} \ {0}

\* Whatever refers to a movement refers to one that was recorded.
RecordedOnly ==
    /\ \A e \in EventIds \ DOMAIN events : receipts[e] = NoReceipt
    /\ \A i \in DOMAIN applications : applications[i].receipt \in DOMAIN events
    /\ \A l \in links : /\ l.event \in DOMAIN events
                        /\ l.source.kind = "refund" => l.source.id \in DOMAIN events
    /\ \A t \in Transfers : Legs(t) \subseteq DOMAIN events
    /\ \A k \in Claims : claims[k].receipt \in DOMAIN events \cup {0}

\* The uses of a movement, pair by pair.
UsedApart ==
    /\ \A l \in links : ~HasReceipt(l.event)
    /\ \A l, m \in links : l.event = m.event => l = m
    /\ \A l \in links, t \in Transfers : l.event \notin Legs(t)
    /\ \A t \in Transfers : \A e \in Legs(t) : ~HasReceipt(e)
    /\ \A t, u \in Transfers : Legs(t) \cap Legs(u) # {} => t = u

-----------------------------------------------------------------------------
(* What was applied, refunded and paid.                                    *)

Active(apps, r) == {i \in DOMAIN apps : apps[i].receipt = r /\ apps[i].active}
AmountIn(apps) == [i \in DOMAIN apps |-> apps[i].amount]
AppliedIn(apps, r) == SumOf(AmountIn(apps), Active(apps, r))

LinksFor(ls, source) == {l \in ls : l.source = source}
AmountOver(ls) == [l \in ls |-> l.amount]
LinkedIn(ls, source) == SumOf(AmountOver(ls), LinksFor(ls, source))

Totals ==
    /\ \A r \in EventIds : /\ receipts[r].applied = AppliedIn(applications, r)
                           /\ receipts[r].refunded = LinkedIn(links, RefundOf(r))
    /\ \A r \in DOMAIN events :
           receipts[r].applied + receipts[r].refunded <= events[r].amount
    /\ \A s \in Sources : due[s] + LinkedIn(links, PaymentOf(s)) = DueAmount

MoneyInv ==
    /\ Tables /\ RecordedOnly /\ UsedApart /\ Totals
    /\ CorrectedSupportsNothing /\ TransferConserves
    /\ DecisionIsOnCurrentEvidence /\ ClaimsShareBorrower

\* A fold over a set is the sum of the function it maps by.
LEMMA AppliedSum ==
    ASSUME NEW S \in SUBSET DOMAIN applications
    PROVE  MapThenSumSet(LAMBDA i : applications[i].amount, S) = SumOf(AmountIn(applications), S)
<1> DEFINE f == AmountIn(applications)
<1>1. \A s \in SUBSET S : s # {} => f[Pick(s)] = applications[Pick(s)].amount
  BY PickIsMember DEF AmountIn
<1>2. ASSUME NEW g
      PROVE  [s \in SUBSET S |-> IF s = {} THEN 0 ELSE f[Pick(s)] + g[s \ {Pick(s)}]]
             = [s \in SUBSET S |-> IF s = {} THEN 0
                                   ELSE applications[Pick(s)].amount + g[s \ {Pick(s)}]]
  BY <1>1
<1> DEFINE Eq(g) == g = [s \in SUBSET S |-> IF s = {} THEN 0
                            ELSE applications[Pick(s)].amount + g[s \ {Pick(s)}]]
<1>3. \A g : IsSum(f, g, S) <=> Eq(g)
  BY <1>2 DEF IsSum
<1>4. (CHOOSE g : IsSum(f, g, S)) = (CHOOSE g : Eq(g))
  BY <1>3
<1>5. SumOf(f, S) = (CHOOSE g : IsSum(f, g, S))[S]
  BY DEF SumOf, MapThenSumSet, MapThenFoldSet, IsSum, Pick
<1>6. MapThenSumSet(LAMBDA i : applications[i].amount, S) = (CHOOSE g : Eq(g))[S]
  BY DEF MapThenSumSet, MapThenFoldSet, Pick
<1> QED BY <1>4, <1>5, <1>6

LEMMA LinkedSum ==
    ASSUME NEW S \in SUBSET links
    PROVE  MapThenSumSet(LAMBDA l : l.amount, S) = SumOf(AmountOver(links), S)
<1> DEFINE f == AmountOver(links)
<1>1. \A s \in SUBSET S : s # {} => f[Pick(s)] = Pick(s).amount
  BY PickIsMember DEF AmountOver
<1>2. ASSUME NEW g
      PROVE  [s \in SUBSET S |-> IF s = {} THEN 0 ELSE f[Pick(s)] + g[s \ {Pick(s)}]]
             = [s \in SUBSET S |-> IF s = {} THEN 0 ELSE Pick(s).amount + g[s \ {Pick(s)}]]
  BY <1>1
<1> DEFINE Eq(g) == g = [s \in SUBSET S |-> IF s = {} THEN 0
                                           ELSE Pick(s).amount + g[s \ {Pick(s)}]]
<1>3. \A g : IsSum(f, g, S) <=> Eq(g)
  BY <1>2 DEF IsSum
<1>4. (CHOOSE g : IsSum(f, g, S)) = (CHOOSE g : Eq(g))
  BY <1>3
<1>5. SumOf(f, S) = (CHOOSE g : IsSum(f, g, S))[S]
  BY DEF SumOf, MapThenSumSet, MapThenFoldSet, IsSum, Pick
<1>6. MapThenSumSet(LAMBDA l : l.amount, S) = (CHOOSE g : Eq(g))[S]
  BY DEF MapThenSumSet, MapThenFoldSet, Pick
<1> QED BY <1>4, <1>5, <1>6

-----------------------------------------------------------------------------
(* What a step adds to the sums.                                           *)

AmountsAreNat == \A a \in Amounts : a \in Nat \ {0}

LEMMA AmountsNat ==
    ASSUME TreasuryAssumption
    PROVE  AmountsAreNat
BY DEF TreasuryAssumption, AmountsAreNat

LEMMA ApplicationsFinite ==
    ASSUME NEW apps \in Seq(ApplicationType), TreasuryAssumption
    PROVE  /\ IsFiniteSet(DOMAIN apps)
           /\ \A r : Active(apps, r) \subseteq DOMAIN apps /\ IsFiniteSet(Active(apps, r))
           /\ \A i \in DOMAIN apps : AmountIn(apps)[i] = apps[i].amount /\ apps[i].amount \in Nat
           /\ \A r : AppliedIn(apps, r) \in Nat
<1>1. DOMAIN apps = 1 .. Len(apps) /\ Len(apps) \in Nat
  BY LenProperties
<1>2. IsFiniteSet(DOMAIN apps)
  BY <1>1, FS_Interval
<1>3. \A r : Active(apps, r) \subseteq DOMAIN apps /\ IsFiniteSet(Active(apps, r))
  BY <1>2, FS_Subset DEF Active
<1>4. ASSUME NEW i \in DOMAIN apps
      PROVE  AmountIn(apps)[i] = apps[i].amount /\ apps[i].amount \in Nat
  <2>1. apps[i] \in ApplicationType
    BY ElementOfSeq
  <2> QED BY <2>1, AmountsNat DEF AmountsAreNat, AmountIn, ApplicationType
<1>5. ASSUME NEW r PROVE AppliedIn(apps, r) \in Nat
  <2>1. \A i \in Active(apps, r) : AmountIn(apps)[i] \in Nat
    BY <1>3, <1>4
  <2> QED BY <1>3, <2>1, SumIsMonotone DEF AppliedIn
<1> QED BY <1>2, <1>3, <1>4, <1>5

LEMMA LinksFinite ==
    ASSUME NEW ls \in SUBSET LinkType, IsFiniteSet(ls), TreasuryAssumption
    PROVE  /\ \A x : LinksFor(ls, x) \subseteq ls /\ IsFiniteSet(LinksFor(ls, x))
           /\ \A l \in ls : AmountOver(ls)[l] = l.amount /\ l.amount \in Nat
           /\ \A x : LinkedIn(ls, x) \in Nat
<1>1. \A x : LinksFor(ls, x) \subseteq ls /\ IsFiniteSet(LinksFor(ls, x))
  BY FS_Subset DEF LinksFor
<1>2. \A l \in ls : AmountOver(ls)[l] = l.amount /\ l.amount \in Nat
  BY AmountsNat DEF AmountsAreNat, AmountOver, LinkType
<1>3. ASSUME NEW x PROVE LinkedIn(ls, x) \in Nat
  <2>1. \A l \in LinksFor(ls, x) : AmountOver(ls)[l] \in Nat
    BY <1>1, <1>2
  <2> QED BY <1>1, <2>1, SumIsMonotone DEF LinkedIn
<1> QED BY <1>1, <1>2, <1>3

\* A new application is added to the sum of its receipt.
LEMMA AppliedAppended ==
    ASSUME TreasuryAssumption, NEW apps \in Seq(ApplicationType),
           NEW a \in ApplicationType, a.active
    PROVE  /\ Append(apps, a) \in Seq(ApplicationType)
           /\ AppliedIn(Append(apps, a), a.receipt) = AppliedIn(apps, a.receipt) + a.amount
           /\ \A r : r # a.receipt => AppliedIn(Append(apps, a), r) = AppliedIn(apps, r)
<1> DEFINE next == Append(apps, a)
           n == Len(apps) + 1
<1>1. /\ next \in Seq(ApplicationType) /\ Len(next) = n
      /\ DOMAIN next = DOMAIN apps \cup {n} /\ n \notin DOMAIN apps
      /\ next[n] = a /\ \A i \in DOMAIN apps : next[i] = apps[i]
  BY AppendProperties, LenProperties
<1>2. \A i \in DOMAIN apps : AmountIn(next)[i] = AmountIn(apps)[i]
  BY <1>1 DEF AmountIn
<1>3. \A r : SumOf(AmountIn(next), Active(apps, r)) = SumOf(AmountIn(apps), Active(apps, r))
  BY <1>2, SumOfSame, ApplicationsFinite
<1>4. ASSUME NEW r, r # a.receipt PROVE AppliedIn(next, r) = AppliedIn(apps, r)
  <2>1. Active(next, r) = Active(apps, r)
    BY <1>1, <1>4 DEF Active
  <2> QED BY <2>1, <1>3 DEF AppliedIn
<1>5. AppliedIn(next, a.receipt) = AppliedIn(apps, a.receipt) + a.amount
  <2>1. Active(next, a.receipt) = Active(apps, a.receipt) \cup {n}
    BY <1>1 DEF Active
  <2>2. n \notin Active(apps, a.receipt)
    BY <1>1 DEF Active
  <2>3. IsFiniteSet(Active(apps, a.receipt))
    BY ApplicationsFinite
  <2>4. \A i \in Active(apps, a.receipt) \cup {n} : AmountIn(next)[i] \in Int
    <3>1. \A i \in DOMAIN next : AmountIn(next)[i] \in Nat
      BY <1>1, ApplicationsFinite
    <3> QED BY <3>1, <2>1 DEF Active
  <2>5. SumOf(AmountIn(next), Active(apps, a.receipt) \cup {n})
          = SumOf(AmountIn(next), Active(apps, a.receipt)) + AmountIn(next)[n]
    BY <2>2, <2>3, <2>4, SumWith
  <2>6. AmountIn(next)[n] = a.amount
    BY <1>1 DEF AmountIn
  <2> QED BY <2>1, <2>5, <2>6, <1>3 DEF AppliedIn
<1> QED BY <1>1, <1>4, <1>5

\* An application that is reversed is taken out of the sum of its receipt.
LEMMA AppliedReversed ==
    ASSUME TreasuryAssumption, NEW apps \in Seq(ApplicationType),
           NEW i \in DOMAIN apps, apps[i].active
    PROVE  LET next == [apps EXCEPT ![i].active = FALSE] IN
           /\ next \in Seq(ApplicationType)
           /\ \A j \in DOMAIN apps : j # i => next[j] = apps[j]
           /\ DOMAIN next = DOMAIN apps /\ next[i].receipt = apps[i].receipt
           /\ ~next[i].active
           /\ AppliedIn(next, apps[i].receipt)
                = AppliedIn(apps, apps[i].receipt) - apps[i].amount
           /\ \A r : r # apps[i].receipt => AppliedIn(next, r) = AppliedIn(apps, r)
<1> DEFINE next == [apps EXCEPT ![i].active = FALSE]
           A == Active(apps, apps[i].receipt)
<1>1. apps[i] \in ApplicationType
  BY ElementOfSeq
<1>2. /\ DOMAIN next = DOMAIN apps
      /\ next[i] = [apps[i] EXCEPT !.active = FALSE]
      /\ \A j \in DOMAIN apps : j # i => next[j] = apps[j]
  OBVIOUS
<1>3. next[i] \in ApplicationType /\ next[i].receipt = apps[i].receipt
      /\ next[i].amount = apps[i].amount /\ next[i].active = FALSE
  BY <1>1, <1>2 DEF ApplicationType
<1>4. next \in Seq(ApplicationType)
  BY <1>2, <1>3, ExceptSeq
<1>5. \A j \in DOMAIN apps : AmountIn(next)[j] = AmountIn(apps)[j]
  BY <1>2, <1>3 DEF AmountIn
<1>6. ASSUME NEW r, r # apps[i].receipt PROVE AppliedIn(next, r) = AppliedIn(apps, r)
  <2>1. Active(next, r) = Active(apps, r)
    BY <1>2, <1>3, <1>6 DEF Active
  <2>2. \A j \in Active(apps, r) : AmountIn(next)[j] = AmountIn(apps)[j]
    BY <1>5 DEF Active
  <2>3. SumOf(AmountIn(next), Active(apps, r)) = SumOf(AmountIn(apps), Active(apps, r))
    <3>1. PICK f, g, T : f = AmountIn(next) /\ g = AmountIn(apps) /\ T = Active(apps, r)
      OBVIOUS
    <3>2. \A j \in T : f[j] = g[j]
      BY <2>2, <3>1
    <3>3. SumOf(f, T) = SumOf(g, T)
      BY <3>2, SumOfSame
    <3> QED BY <3>1, <3>3
  <2> QED BY <2>1, <2>3 DEF AppliedIn
<1>7. AppliedIn(next, apps[i].receipt) = AppliedIn(apps, apps[i].receipt) - apps[i].amount
  <2>1. Active(next, apps[i].receipt) = A \ {i} /\ i \in A
    BY <1>2, <1>3 DEF Active
  <2>2. /\ IsFiniteSet(A) /\ A \subseteq DOMAIN apps
        /\ \A j \in A : AmountIn(apps)[j] \in Int
    <3>1. IsFiniteSet(A) /\ A \subseteq DOMAIN apps
      BY ApplicationsFinite
    <3>2. \A j \in DOMAIN apps : AmountIn(apps)[j] \in Nat
      BY ApplicationsFinite
    <3> QED BY <3>1, <3>2
  <2>3. SumOf(AmountIn(apps), A) = AmountIn(apps)[i] + SumOf(AmountIn(apps), A \ {i})
    BY <2>1, <2>2, SumWithout
  <2>4. SumOf(AmountIn(next), A \ {i}) = SumOf(AmountIn(apps), A \ {i})
    <3>1. \A j \in A \ {i} : AmountIn(next)[j] = AmountIn(apps)[j]
      BY <1>5, <2>2
    <3> QED BY <3>1, SumOfSame
  <2>5. IsFiniteSet(A \ {i}) /\ \A j \in A \ {i} : AmountIn(apps)[j] \in Int
    BY <2>2, FS_Subset
  <2>6. SumOf(AmountIn(apps), A \ {i}) \in Int
    BY <2>5, SumIsInt
  <2>7. AmountIn(apps)[i] = apps[i].amount /\ apps[i].amount \in Nat
    BY ApplicationsFinite
  <2> DEFINE was == SumOf(AmountIn(apps), A)
             left == SumOf(AmountIn(apps), A \ {i})
  <2>8. was = apps[i].amount + left /\ left \in Int /\ apps[i].amount \in Nat
    BY <2>3, <2>6, <2>7
  <2>9. left = was - apps[i].amount
    <3> HIDE DEF was, left
    <3> QED BY <2>8
  <2>10. AppliedIn(next, apps[i].receipt) = left
    BY <2>1, <2>4 DEF AppliedIn
  <2>11. AppliedIn(apps, apps[i].receipt) = was
    BY DEF AppliedIn
  <2> QED BY <2>9, <2>10, <2>11
<1> QED BY <1>2, <1>3, <1>4, <1>6, <1>7

\* A new link is added to the sum of its source.
LEMMA LinkAdded ==
    ASSUME TreasuryAssumption, NEW ls \in SUBSET LinkType, IsFiniteSet(ls),
           NEW l \in LinkType, l \notin ls
    PROVE  /\ ls \cup {l} \in SUBSET LinkType /\ IsFiniteSet(ls \cup {l})
           /\ LinkedIn(ls \cup {l}, l.source) = LinkedIn(ls, l.source) + l.amount
           /\ \A x : x # l.source => LinkedIn(ls \cup {l}, x) = LinkedIn(ls, x)
<1> DEFINE next == ls \cup {l}
<1>1. next \in SUBSET LinkType /\ IsFiniteSet(next)
  BY FS_AddElement
<1>2. \A m \in ls : AmountOver(next)[m] = AmountOver(ls)[m]
  BY DEF AmountOver
<1>3. ASSUME NEW x
      PROVE  SumOf(AmountOver(next), LinksFor(ls, x)) = SumOf(AmountOver(ls), LinksFor(ls, x))
  <2>1. \A m \in LinksFor(ls, x) : AmountOver(next)[m] = AmountOver(ls)[m]
    BY <1>2 DEF LinksFor
  <2> QED BY <2>1, SumOfSame
<1>4. ASSUME NEW x, x # l.source PROVE LinkedIn(next, x) = LinkedIn(ls, x)
  <2>1. LinksFor(next, x) = LinksFor(ls, x)
    BY <1>4 DEF LinksFor
  <2> QED BY <2>1, <1>3 DEF LinkedIn
<1>5. LinkedIn(next, l.source) = LinkedIn(ls, l.source) + l.amount
  <2>1. LinksFor(next, l.source) = LinksFor(ls, l.source) \cup {l}
    BY DEF LinksFor
  <2>2. l \notin LinksFor(ls, l.source) /\ IsFiniteSet(LinksFor(ls, l.source))
    BY LinksFinite DEF LinksFor
  <2>3. \A m \in LinksFor(ls, l.source) \cup {l} : AmountOver(next)[m] \in Int
    BY <1>1, LinksFinite DEF LinksFor
  <2>4. SumOf(AmountOver(next), LinksFor(ls, l.source) \cup {l})
          = SumOf(AmountOver(next), LinksFor(ls, l.source)) + AmountOver(next)[l]
    BY <2>2, <2>3, SumWith
  <2>5. AmountOver(next)[l] = l.amount
    BY DEF AmountOver
  <2> QED BY <2>1, <2>4, <2>5, <1>3 DEF LinkedIn
<1> QED BY <1>1, <1>4, <1>5

-----------------------------------------------------------------------------
(* Rows, and a movement that is recorded.                                  *)

LEMMA TableRows ==
    ASSUME Tables, TreasuryAssumption
    PROVE  /\ DOMAIN events = 1 .. Len(events) /\ Len(events) \in Nat
           /\ DOMAIN events \subseteq EventIds /\ 0 \notin DOMAIN events
           /\ \A e \in DOMAIN events : events[e] \in EventType
           /\ \A i \in DOMAIN applications : applications[i] \in ApplicationType
           /\ \A l \in links : l \in LinkType
<1>1. DOMAIN events = 1 .. Len(events) /\ Len(events) \in Nat
  BY LenProperties DEF Tables
<1>2. DOMAIN events \subseteq EventIds /\ 0 \notin DOMAIN events
  <2>1. Len(events) <= MaxEvents /\ MaxEvents \in Nat
    BY DEF Tables, TreasuryAssumption
  <2> QED BY <1>1, <2>1 DEF EventIds
<1>3. \A e \in DOMAIN events : events[e] \in EventType
  BY <1>1, ElementOfSeq DEF Tables
<1>4. \A i \in DOMAIN applications : applications[i] \in ApplicationType
  <2>1. applications \in Seq(ApplicationType)
    BY DEF Tables
  <2>2. DOMAIN applications = 1 .. Len(applications)
    BY <2>1, LenProperties
  <2> QED BY <2>1, <2>2, ElementOfSeq
<1>5. \A l \in links : l \in LinkType
  BY DEF Tables
<1> QED BY <1>1, <1>2, <1>3, <1>4, <1>5

\* Recorded movements stay as they are.
Kept == /\ DOMAIN events \subseteq DOMAIN events'
        /\ \A d \in DOMAIN events : events'[d] = events[d]

\* The movement e is one of the table after the step, and stands as observed.
Observed(e, a, dir, amt) ==
    /\ events' \in Seq(EventType) /\ Len(events') <= MaxEvents
    /\ DOMAIN events' = DOMAIN events \cup {e} /\ e \in EventIds
    /\ \A d \in DOMAIN events : events'[d] = events[d]
    /\ events'[e].account = a /\ events'[e].dir = dir /\ events'[e].amount = amt
    /\ events'[e].corrected = FALSE

LEMMA MovementIsRecorded ==
    ASSUME Tables, TreasuryAssumption,
           NEW a \in Accounts, NEW ref \in Refs, NEW dir \in {"debit", "credit"},
           NEW amt \in Amounts, Verifies(a, ref, dir, amt),
           events' = EventsWith(a, ref, dir, amt)
    PROVE  Observed(EventOf(a, ref), a, dir, amt)
<1> DEFINE E == {e \in DOMAIN events : events[e].account = a /\ events[e].ref = ref}
<1>1. events \in Seq(EventType) /\ Len(events) <= MaxEvents /\ MaxEvents \in Nat
  BY DEF Tables, TreasuryAssumption
<1>2. DOMAIN events = 1 .. Len(events) /\ Len(events) \in Nat /\ DOMAIN events \subseteq EventIds
      /\ 0 \notin DOMAIN events
  BY TableRows
<1>3. CASE E = {}
  <2> DEFINE m == [account |-> a, ref |-> ref, dir |-> dir, amount |-> amt, corrected |-> FALSE]
  <2>1. Known(a, ref) = 0
    BY <1>3 DEF Known
  <2>2. events' = Append(events, m) /\ EventOf(a, ref) = Len(events) + 1
        /\ Len(events) < MaxEvents
    BY <2>1 DEF EventsWith, EventOf, Verifies
  <2>3. m \in EventType
    BY DEF EventType
  <2>4. /\ events' \in Seq(EventType) /\ Len(events') = Len(events) + 1
        /\ \A d \in 1 .. Len(events) : events'[d] = events[d]
        /\ events'[Len(events) + 1] = m
    BY <1>1, <2>2, <2>3, AppendProperties
  <2>5. DOMAIN events' = 1 .. Len(events')
    BY <2>4, LenProperties
  <2> QED BY <1>1, <1>2, <2>2, <2>4, <2>5 DEF Observed, EventIds
<1>4. CASE E # {}
  <2>1. Known(a, ref) \in E
    BY <1>4 DEF Known
  <2>2. Known(a, ref) # 0 /\ EventOf(a, ref) = Known(a, ref) /\ events' = events
    BY <2>1, <1>2 DEF EventOf, EventsWith
  <2>3. /\ events[Known(a, ref)].dir = dir /\ events[Known(a, ref)].amount = amt
        /\ ~events[Known(a, ref)].corrected
    BY <2>2 DEF Verifies
  <2>4. events[Known(a, ref)] \in EventType
    BY <2>1, TableRows
  <2> QED BY <1>1, <1>2, <2>1, <2>2, <2>3, <2>4 DEF Observed, EventType
<1> QED BY <1>3, <1>4

LEMMA ObservedIsKept ==
    ASSUME NEW e, NEW a, NEW dir, NEW amt, Observed(e, a, dir, amt)
    PROVE  /\ Kept
           /\ \A d \in DOMAIN events' : events'[d].corrected => d \in DOMAIN events
BY DEF Observed, Kept

-----------------------------------------------------------------------------
(* What a step that leaves a table alone keeps.                            *)

LEMMA TransfersStay ==
    ASSUME MoneyInv, Kept, UNCHANGED transfers
    PROVE  TransferConserves'
<1>1. ASSUME NEW t \in Transfers
      PROVE  /\ transfers[t].debit # 0 => transfers[t].debit \in DOMAIN events
             /\ transfers[t].credit # 0 => transfers[t].credit \in DOMAIN events
  BY DEF MoneyInv, RecordedOnly, Legs
<1> QED BY <1>1 DEF MoneyInv, TransferConserves, Kept

LEMMA ClaimsStay ==
    ASSUME MoneyInv, Kept, UNCHANGED claims,
           \A d \in DOMAIN events : receipts'[d].client = receipts[d].client
    PROVE  DecisionIsOnCurrentEvidence' /\ ClaimsShareBorrower'
<1>1. \A k \in Claims : claims[k].receipt # 0 => claims[k].receipt \in DOMAIN events
  BY DEF MoneyInv, RecordedOnly
<1> QED BY <1>1 DEF MoneyInv, DecisionIsOnCurrentEvidence, ClaimsShareBorrower, Kept

LEMMA SupportStays ==
    ASSUME MoneyInv, Kept, UNCHANGED <<links, applications, transfers>>,
           \A d \in DOMAIN events' : events'[d].corrected => d \in DOMAIN events
    PROVE  CorrectedSupportsNothing'
BY DEF MoneyInv, CorrectedSupportsNothing, Kept, LinksOf, ActiveApplications, InTransfer

\* Nothing but claims changes.
LEMMA ClaimStep ==
    ASSUME MoneyInv, UNCHANGED <<events, receipts, applications, links, due, transfers>>,
           claims' \in [Claims -> ClaimType],
           \A k \in Claims : claims'[k].receipt \in DOMAIN events \cup {0},
           DecisionIsOnCurrentEvidence', ClaimsShareBorrower'
    PROVE  MoneyInv'
<1>1. Tables'
  BY DEF MoneyInv, Tables
<1>2. RecordedOnly'
  BY DEF MoneyInv, RecordedOnly, Legs
<1>3. UsedApart'
  BY DEF MoneyInv, UsedApart, Legs, HasReceipt
<1>4. Totals'
  BY DEF MoneyInv, Totals
<1>5. Kept
  BY DEF Kept
<1>6. CorrectedSupportsNothing' /\ TransferConserves'
  BY <1>5, SupportStays, TransfersStay
<1> QED BY <1>1, <1>2, <1>3, <1>4, <1>6 DEF MoneyInv

-----------------------------------------------------------------------------
(* The first state.                                                        *)

LEMMA MoneyInvStarts ==
    ASSUME Init, TreasuryAssumption
    PROVE  MoneyInv
<1>1. DOMAIN events = {} /\ DOMAIN applications = {} /\ links = {}
  BY DEF Init
<1>2. Tables
  <2>1. MaxEvents \in Nat /\ DueAmount \in Nat
    BY DEF TreasuryAssumption
  <2>2. events \in Seq(EventType) /\ applications \in Seq(ApplicationType) /\ Len(events) = 0
    BY EmptySeq DEF Init
  <2>3. NoReceipt \in ReceiptType /\ NoClaim \in ClaimType /\ NoTransfer \in TransferType
    BY DEF NoReceipt, ReceiptType, NoClaim, ClaimType, ClaimStatuses, NoTransfer, TransferType
  <2> QED BY <1>1, <2>1, <2>2, <2>3, FS_EmptySet DEF Tables, Init
<1>3. \A r : AppliedIn(applications, r) = 0
  <2>1. \A r : Active(applications, r) = {}
    BY <1>1 DEF Active
  <2> QED BY <2>1, SumOfNone DEF AppliedIn
<1>4. \A x : LinkedIn(links, x) = 0
  <2>1. \A x : LinksFor(links, x) = {}
    BY <1>1 DEF LinksFor
  <2> QED BY <2>1, SumOfNone DEF LinkedIn
<1>5. \A e \in EventIds : receipts[e] = NoReceipt
  BY DEF Init
<1>6. \A t \in Transfers : transfers[t].debit = 0 /\ transfers[t].credit = 0 /\ Legs(t) = {}
  BY DEF Init, NoTransfer, Legs
<1>7. \A k \in Claims : claims[k].receipt = 0 /\ claims[k].status = "none"
  BY DEF Init, NoClaim
<1>8. RecordedOnly
  BY <1>1, <1>5, <1>6, <1>7 DEF RecordedOnly
<1>9. UsedApart
  BY <1>1, <1>6 DEF UsedApart
<1>10. Totals
  <2>1. \A r \in EventIds : receipts[r].applied = 0 /\ receipts[r].refunded = 0
    BY <1>5 DEF NoReceipt
  <2>2. \A z \in Sources : due[z] = DueAmount /\ DueAmount \in Nat
    BY DEF Init, TreasuryAssumption
  <2> QED BY <1>1, <1>3, <1>4, <2>1, <2>2 DEF Totals
<1>11. CorrectedSupportsNothing /\ TransferConserves
  BY <1>1, <1>6 DEF CorrectedSupportsNothing, TransferConserves
<1>12. DecisionIsOnCurrentEvidence /\ ClaimsShareBorrower
  BY <1>7 DEF DecisionIsOnCurrentEvidence, ClaimsShareBorrower
<1> QED BY <1>2, <1>8, <1>9, <1>10, <1>11, <1>12 DEF MoneyInv

-----------------------------------------------------------------------------
(* Claims.                                                                 *)

LEMMA SubmitKeeps ==
    ASSUME MoneyInv, TreasuryAssumption,
           NEW k \in Claims, NEW c \in Clients, NEW a \in Accounts, SubmitClaim(k, c, a)
    PROVE  MoneyInv'
<1> DEFINE n == [NoClaim EXCEPT !.client = c, !.account = a, !.version = 1,
                                !.status = "pending_verification"]
<1>1. claims \in [Claims -> ClaimType]
  BY DEF MoneyInv, Tables
<1>2. n \in ClaimType /\ n.receipt = 0 /\ n.status = "pending_verification"
  BY DEF NoClaim, ClaimType, ClaimStatuses
<1>3. /\ claims' \in [Claims -> ClaimType] /\ claims'[k] = n
      /\ \A j \in Claims \ {k} : claims'[j] = claims[j]
  BY <1>1, <1>2 DEF SubmitClaim
<1>4. UNCHANGED <<events, receipts, applications, links, due, transfers>>
  BY DEF SubmitClaim
<1>5. \A j \in Claims : claims'[j].receipt \in DOMAIN events \cup {0}
  BY <1>2, <1>3 DEF MoneyInv, RecordedOnly
<1>6. DecisionIsOnCurrentEvidence'
  BY <1>2, <1>3 DEF MoneyInv, DecisionIsOnCurrentEvidence
<1>7. ClaimsShareBorrower'
  BY <1>2, <1>3, <1>4 DEF MoneyInv, ClaimsShareBorrower
<1> QED BY <1>3, <1>4, <1>5, <1>6, <1>7, ClaimStep

LEMMA ReviseKeeps ==
    ASSUME MoneyInv, TreasuryAssumption, NEW k \in Claims, ReviseClaim(k)
    PROVE  MoneyInv'
<1>1. claims \in [Claims -> ClaimType] /\ claims[k] \in ClaimType
  BY DEF MoneyInv, Tables
<1>2. /\ claims'[k] \in ClaimType /\ claims'[k].receipt = claims[k].receipt
      /\ claims'[k].receipt = 0 /\ claims'[k].status = "pending_verification"
  <2>1. claims'[k] = [claims[k] EXCEPT !.version = claims[k].version + 1,
                                       !.status = "pending_verification"]
    BY <1>1 DEF ReviseClaim
  <2>2. claims[k].version \in Nat /\ claims[k].version + 1 \in Nat /\ claims[k].receipt = 0
    BY <1>1 DEF ClaimType, ReviseClaim
  <2> QED BY <1>1, <2>1, <2>2 DEF ClaimType, ClaimStatuses
<1>3. /\ claims' \in [Claims -> ClaimType]
      /\ \A j \in Claims \ {k} : claims'[j] = claims[j]
  BY <1>1, <1>2 DEF ReviseClaim
<1>4. UNCHANGED <<events, receipts, applications, links, due, transfers>>
  BY DEF ReviseClaim
<1>5. \A j \in Claims : claims'[j].receipt \in DOMAIN events \cup {0}
  BY <1>2, <1>3 DEF MoneyInv, RecordedOnly
<1>6. DecisionIsOnCurrentEvidence'
  BY <1>2, <1>3 DEF MoneyInv, DecisionIsOnCurrentEvidence
<1>7. ClaimsShareBorrower'
  BY <1>2, <1>3, <1>4 DEF MoneyInv, ClaimsShareBorrower
<1> QED BY <1>3, <1>4, <1>5, <1>6, <1>7, ClaimStep

LEMMA ReviewKeeps ==
    ASSUME MoneyInv, TreasuryAssumption, NEW k \in Claims, NEW v \in 1 .. MaxVersion,
           NEW decision \in {"reviewed", "correction_required", "rejected"},
           ReviewClaim(k, v, decision)
    PROVE  MoneyInv'
<1>1. claims \in [Claims -> ClaimType] /\ claims[k] \in ClaimType /\ v \in Nat
  BY DEF MoneyInv, Tables
<1>2. /\ claims'[k] \in ClaimType /\ claims'[k].receipt = 0
      /\ claims'[k].decidedOn = claims'[k].version
  BY <1>1 DEF ReviewClaim, Reviewable, ClaimType, ClaimStatuses
<1>3. /\ claims' \in [Claims -> ClaimType]
      /\ \A j \in Claims \ {k} : claims'[j] = claims[j]
  BY <1>1, <1>2 DEF ReviewClaim
<1>4. UNCHANGED <<events, receipts, applications, links, due, transfers>>
  BY DEF ReviewClaim
<1>5. \A j \in Claims : claims'[j].receipt \in DOMAIN events \cup {0}
  BY <1>2, <1>3 DEF MoneyInv, RecordedOnly
<1>6. DecisionIsOnCurrentEvidence'
  BY <1>2, <1>3 DEF MoneyInv, DecisionIsOnCurrentEvidence
<1>7. ClaimsShareBorrower'
  BY <1>2, <1>3, <1>4 DEF MoneyInv, ClaimsShareBorrower
<1> QED BY <1>3, <1>4, <1>5, <1>6, <1>7, ClaimStep
-----------------------------------------------------------------------------
(* Receipts.                                                               *)

\* A receipt stands on a new movement, or is the one its borrower has.
LEMMA ReceiptKeeps ==
    ASSUME MoneyInv, TreasuryAssumption,
           NEW a \in Accounts, NEW ref \in Refs, NEW amt \in Amounts, NEW c \in Clients,
           NEW K \in SUBSET Claims, NEW v \in Nat, VerifyReceipt(a, ref, amt, c, K, v)
    PROVE  MoneyInv'
<1> DEFINE e == EventOf(a, ref)
<1>1. Tables
  BY DEF MoneyInv
<1>2. Observed(e, a, "credit", amt)
  BY <1>1, MovementIsRecorded DEF VerifyReceipt
<1>3. Kept /\ \A d \in DOMAIN events' : events'[d].corrected => d \in DOMAIN events
  BY <1>2, ObservedIsKept
<1>4. DOMAIN events' = DOMAIN events \cup {e} /\ e \in EventIds
  BY <1>2 DEF Observed
<1>5. c # NoClient
  BY DEF TreasuryAssumption
<1>6. UNCHANGED <<applications, links, due, transfers>>
  BY DEF VerifyReceipt
<1>7. receipts \in [EventIds -> ReceiptType] /\ claims \in [Claims -> ClaimType]
  BY <1>1 DEF Tables
<1>8. DOMAIN events = 1 .. Len(events) /\ Len(events) \in Nat /\ DOMAIN events \subseteq EventIds
      /\ 0 \notin DOMAIN events
  BY <1>1, TableRows
<1>9. e \in DOMAIN events => receipts[e].client = c
  <2>1. Receivable(e, c)
    BY DEF VerifyReceipt
  <2> QED BY <1>8, <2>1 DEF Receivable
<1>10. e \notin DOMAIN events => receipts[e] = NoReceipt
  BY <1>4 DEF MoneyInv, RecordedOnly
<1>11. /\ receipts' \in [EventIds -> ReceiptType]
       /\ receipts'[e].client = c /\ receipts'[e].applied = receipts[e].applied
       /\ receipts'[e].refunded = receipts[e].refunded
       /\ \A d \in EventIds : d # e => receipts'[d] = receipts[d]
  BY <1>4, <1>7 DEF VerifyReceipt, ReceiptType
<1>12. \A d \in DOMAIN events : receipts'[d].client = receipts[d].client
  BY <1>8, <1>9, <1>11
<1>13. /\ claims' \in [Claims -> ClaimType]
       /\ \A k \in Claims \ K : claims'[k] = claims[k]
       /\ \A k \in K : /\ claims'[k].status = "received" /\ claims'[k].receipt = e
                       /\ claims'[k].client = c /\ claims'[k].account = a
  <2>1. claims' = [k \in Claims |->
               IF k \in K THEN [claims[k] EXCEPT !.status = "received", !.receipt = e]
               ELSE claims[k]]
    BY DEF VerifyReceipt
  <2>2. ASSUME NEW k \in K
        PROVE  /\ [claims[k] EXCEPT !.status = "received", !.receipt = e] \in ClaimType
               /\ claims'[k].status = "received" /\ claims'[k].receipt = e
               /\ claims'[k].client = c /\ claims'[k].account = a
    <3>1. claims[k] \in ClaimType /\ e \in Nat
      BY <1>4, <1>7 DEF EventIds
    <3>2. claims[k].client = c /\ claims[k].account = a
      BY DEF VerifyReceipt, ClaimFits
    <3> QED BY <2>1, <3>1, <3>2 DEF ClaimType, ClaimStatuses
  <2> QED BY <1>7, <2>1, <2>2
<1>14. Tables'
  BY <1>1, <1>2, <1>6, <1>11, <1>13 DEF Tables, Observed
<1>15. RecordedOnly'
  <2>1. \A d \in EventIds \ DOMAIN events' : receipts'[d] = NoReceipt
    BY <1>4, <1>11 DEF MoneyInv, RecordedOnly
  <2>2. \A i \in DOMAIN applications' : applications'[i].receipt \in DOMAIN events'
    BY <1>4, <1>6 DEF MoneyInv, RecordedOnly
  <2>3. \A l \in links' : /\ l.event \in DOMAIN events'
                          /\ l.source.kind = "refund" => l.source.id \in DOMAIN events'
    BY <1>4, <1>6 DEF MoneyInv, RecordedOnly
  <2>4. \A t \in Transfers : Legs(t)' \subseteq DOMAIN events'
    BY <1>4, <1>6 DEF MoneyInv, RecordedOnly, Legs
  <2>5. \A k \in Claims : claims'[k].receipt \in DOMAIN events' \cup {0}
    BY <1>4, <1>13 DEF MoneyInv, RecordedOnly
  <2> QED BY <2>1, <2>2, <2>3, <2>4, <2>5 DEF RecordedOnly, Legs
<1>16. UsedApart'
  <2>1. ASSUME NEW d \in DOMAIN events, receipts[d].client = NoClient
        PROVE  receipts'[d].client = NoClient
    BY <1>12, <2>1
  <2>2. \A l \in links' : ~HasReceipt(l.event)'
    BY <1>6, <2>1 DEF MoneyInv, UsedApart, RecordedOnly, HasReceipt
  <2>3. \A t \in Transfers : \A d \in Legs(t)' : ~HasReceipt(d)'
    BY <1>6, <2>1 DEF MoneyInv, UsedApart, RecordedOnly, HasReceipt, Legs
  <2>4. /\ \A l, m \in links' : l.event = m.event => l = m
        /\ \A l \in links', t \in Transfers : l.event \notin Legs(t)'
        /\ \A t, u \in Transfers : Legs(t)' \cap Legs(u)' # {} => t = u
    BY <1>6 DEF MoneyInv, UsedApart, Legs
  <2> QED BY <2>2, <2>3, <2>4 DEF UsedApart, Legs, HasReceipt
<1>17. Totals'
  <2>1. \A r \in EventIds : /\ receipts'[r].applied = receipts[r].applied
                            /\ receipts'[r].refunded = receipts[r].refunded
    BY <1>11
  <2>2. ASSUME NEW r \in DOMAIN events'
        PROVE  receipts'[r].applied + receipts'[r].refunded <= events'[r].amount
    <3>1. CASE r \in DOMAIN events
      BY <1>2, <1>8, <2>1, <3>1 DEF MoneyInv, Totals, Observed
    <3>2. CASE r \notin DOMAIN events
      <4>1. r = e /\ receipts'[r].applied = 0 /\ receipts'[r].refunded = 0
        BY <1>4, <1>10, <1>11, <3>2 DEF NoReceipt
      <4>2. events'[r].amount \in Nat
        BY <1>2, <4>1, AmountsNat DEF Observed, AmountsAreNat
      <4> QED BY <4>1, <4>2
    <3> QED BY <3>1, <3>2
  <2> QED BY <1>6, <2>1, <2>2 DEF MoneyInv, Totals
<1>18. CorrectedSupportsNothing' /\ TransferConserves'
  BY <1>3, <1>6, SupportStays, TransfersStay
<1>19. DecisionIsOnCurrentEvidence'
  BY <1>13 DEF MoneyInv, DecisionIsOnCurrentEvidence
<1>20. ClaimsShareBorrower'
  <2>1. ASSUME NEW k \in Claims, claims'[k].receipt # 0
        PROVE  /\ receipts'[claims'[k].receipt].client = claims'[k].client
               /\ events'[claims'[k].receipt].account = claims'[k].account
    <3>1. CASE k \in K
      BY <1>2, <1>11, <1>13, <3>1 DEF Observed
    <3>2. CASE k \notin K
      <4>1. claims'[k] = claims[k] /\ claims[k].receipt \in DOMAIN events
        BY <1>13, <2>1, <3>2 DEF MoneyInv, RecordedOnly
      <4> QED BY <1>3, <1>12, <4>1, <2>1 DEF MoneyInv, ClaimsShareBorrower, Kept
    <3> QED BY <3>1, <3>2
  <2> QED BY <2>1 DEF ClaimsShareBorrower
<1> QED BY <1>14, <1>15, <1>16, <1>17, <1>18, <1>19, <1>20 DEF MoneyInv

\* What an application or its reversal writes: the sums of the receipt r, its
\* claims, and nothing else of the money.
LEMMA ApplicationStep ==
    ASSUME MoneyInv, TreasuryAssumption, UNCHANGED <<events, links, due, transfers>>,
           NEW r \in DOMAIN events, NEW n \in Nat,
           applications' \in Seq(ApplicationType),
           \A i \in DOMAIN applications' : applications'[i].receipt \in DOMAIN events,
           receipts' = [receipts EXCEPT ![r].applied = n],
           n = AppliedIn(applications', r),
           \A d \in EventIds : d # r => AppliedIn(applications', d) = AppliedIn(applications, d),
           n + receipts[r].refunded <= events[r].amount,
           \A e \in DOMAIN events : events[e].corrected => Active(applications', e) = {},
           NEW applied, NEW left, claims' = ClaimsAfter(r, applied, left)
    PROVE  MoneyInv'
<1>1. Tables
  BY DEF MoneyInv
<1>2. receipts \in [EventIds -> ReceiptType] /\ claims \in [Claims -> ClaimType]
      /\ DOMAIN events \subseteq EventIds
  BY <1>1, TableRows DEF Tables
<1>3. /\ receipts' \in [EventIds -> ReceiptType]
      /\ receipts'[r].applied = n
      /\ \A d \in EventIds : d # r => receipts'[d] = receipts[d]
      /\ \A d \in EventIds : /\ receipts'[d].client = receipts[d].client
                             /\ receipts'[d].refunded = receipts[d].refunded
  BY <1>2 DEF ReceiptType
<1>4. /\ claims' \in [Claims -> ClaimType]
      /\ \A k \in Claims : /\ claims'[k].client = claims[k].client
                           /\ claims'[k].account = claims[k].account
                           /\ claims'[k].receipt = claims[k].receipt
                           /\ claims'[k] = claims[k] \/
                                claims'[k].status \in {"received", "partly_applied", "recorded"}
  <2>1. StatusFor(applied, left) \in {"received", "partly_applied", "recorded"}
    BY DEF StatusFor
  <2>2. \A k \in Claims : claims'[k] = IF claims[k].receipt = r
                      THEN [claims[k] EXCEPT !.status = StatusFor(applied, left)]
                      ELSE claims[k]
    BY DEF ClaimsAfter
  <2>3. \A k \in Claims : claims[k] \in ClaimType
    BY <1>2
  <2>4. \A k \in Claims : [claims[k] EXCEPT !.status = StatusFor(applied, left)] \in ClaimType
    BY <2>1, <2>3 DEF ClaimType, ClaimStatuses
  <2>5. claims' \in [Claims -> ClaimType]
    BY <2>2, <2>3, <2>4 DEF ClaimsAfter
  <2> QED BY <2>1, <2>2, <2>3, <2>5 DEF ClaimType
<1>5. Tables'
  BY <1>1, <1>3, <1>4 DEF Tables
<1>6. RecordedOnly'
  <2>1. \A d \in EventIds \ DOMAIN events' : receipts'[d] = NoReceipt
    BY <1>3 DEF MoneyInv, RecordedOnly
  <2> QED BY <2>1, <1>4 DEF MoneyInv, RecordedOnly, Legs
<1>7. UsedApart'
  <2>1. \A d \in DOMAIN events : HasReceipt(d)' <=> HasReceipt(d)
    BY <1>2, <1>3 DEF HasReceipt
  <2>2. \A l \in links : l.event \in DOMAIN events
    BY DEF MoneyInv, RecordedOnly
  <2>3. \A t \in Transfers : Legs(t) \subseteq DOMAIN events
    BY DEF MoneyInv, RecordedOnly
  <2>4. \A l \in links' : ~HasReceipt(l.event)'
    BY <2>1, <2>2 DEF MoneyInv, UsedApart
  <2>5. \A t \in Transfers : Legs(t)' = Legs(t)
    BY DEF Legs
  <2>6. \A t \in Transfers : \A d \in Legs(t) : ~HasReceipt(d)'
    BY <2>1, <2>3 DEF MoneyInv, UsedApart
  <2> QED BY <2>4, <2>5, <2>6 DEF MoneyInv, UsedApart, HasReceipt, Legs
<1>8. Totals'
  <2>1. \A d \in EventIds : /\ receipts'[d].applied = AppliedIn(applications', d)
                            /\ receipts'[d].refunded = LinkedIn(links', RefundOf(d))
    BY <1>3 DEF MoneyInv, Totals
  <2>2. \A d \in DOMAIN events :
            receipts'[d].applied + receipts'[d].refunded <= events[d].amount
    BY <1>2, <1>3 DEF MoneyInv, Totals
  <2> QED BY <2>1, <2>2 DEF MoneyInv, Totals
<1>9. CorrectedSupportsNothing'
  BY DEF MoneyInv, CorrectedSupportsNothing, LinksOf, ActiveApplications, Active, InTransfer
<1>10. TransferConserves'
  BY TransfersStay DEF Kept
<1>11. DecisionIsOnCurrentEvidence'
  BY <1>4 DEF MoneyInv, DecisionIsOnCurrentEvidence
<1>12. ClaimsShareBorrower'
  <2>1. \A k \in Claims : claims[k].receipt # 0 => claims[k].receipt \in EventIds
    BY <1>2 DEF MoneyInv, RecordedOnly
  <2> QED BY <1>3, <1>4, <2>1 DEF MoneyInv, ClaimsShareBorrower
<1> QED BY <1>5, <1>6, <1>7, <1>8, <1>9, <1>10, <1>11, <1>12 DEF MoneyInv

LEMMA ApplyKeeps ==
    ASSUME MoneyInv, TreasuryAssumption, NEW r \in DOMAIN events, NEW amt \in Amounts,
           ApplyReceipt(r, amt)
    PROVE  MoneyInv'
<1> DEFINE x == [receipt |-> r, amount |-> amt, active |-> TRUE]
           n == receipts[r].applied + amt
<1>1. Tables /\ DOMAIN events \subseteq EventIds
  BY TableRows DEF MoneyInv
<1>2. x \in ApplicationType
  BY <1>1 DEF ApplicationType
<1>3. applications \in Seq(ApplicationType) /\ receipts \in [EventIds -> ReceiptType]
      /\ events[r] \in EventType
  BY <1>1, TableRows DEF Tables
<1>4. /\ applications' = Append(applications, x)
      /\ receipts' = [receipts EXCEPT ![r].applied = n]
      /\ claims' = ClaimsAfter(r, n, Remaining(r) - amt)
      /\ UNCHANGED <<events, links, due, transfers>>
      /\ ~events[r].corrected /\ amt <= Remaining(r)
  BY <1>1, <1>3 DEF ApplyReceipt, Capacity
<1>5. /\ applications' \in Seq(ApplicationType)
      /\ AppliedIn(applications', r) = AppliedIn(applications, r) + amt
      /\ \A d : d # r => AppliedIn(applications', d) = AppliedIn(applications, d)
  <2>1. x.active /\ x.receipt = r /\ x.amount = amt
    OBVIOUS
  <2> HIDE DEF x
  <2> QED BY <1>2, <1>3, <1>4, <2>1, AppliedAppended
<1>6. AppliedIn(applications, r) \in Nat /\ receipts[r].applied = AppliedIn(applications, r)
      /\ amt \in Nat /\ events[r].amount \in Nat /\ receipts[r].refunded \in Int
  <2>1. AppliedIn(applications, r) \in Nat
    BY <1>3, ApplicationsFinite
  <2>2. receipts[r].applied = AppliedIn(applications, r)
    BY <1>1 DEF MoneyInv, Totals
  <2>3. amt \in Nat /\ events[r].amount \in Nat
    BY <1>3, AmountsNat DEF AmountsAreNat, EventType
  <2>4. receipts[r].refunded \in Int
    BY <1>1, <1>3 DEF ReceiptType
  <2> QED BY <2>1, <2>2, <2>3, <2>4
<1>7. n \in Nat /\ n = AppliedIn(applications', r)
  BY <1>5, <1>6
<1>8. n + receipts[r].refunded <= events[r].amount
  BY <1>4, <1>6 DEF Remaining
<1>9. /\ DOMAIN applications' = DOMAIN applications \cup {Len(applications) + 1}
      /\ applications'[Len(applications) + 1] = x
      /\ \A i \in DOMAIN applications : applications'[i] = applications[i]
  <2>1. /\ applications' \in Seq(ApplicationType) /\ Len(applications') = Len(applications) + 1
        /\ \A i \in 1 .. Len(applications) : applications'[i] = applications[i]
        /\ applications'[Len(applications) + 1] = x
    BY <1>2, <1>3, <1>4, AppendProperties
  <2>2. /\ DOMAIN applications = 1 .. Len(applications) /\ Len(applications) \in Nat
        /\ DOMAIN applications' = 1 .. Len(applications')
    BY <1>3, <2>1, LenProperties
  <2> QED BY <2>1, <2>2
<1>10. \A i \in DOMAIN applications' : applications'[i].receipt \in DOMAIN events
  BY <1>9 DEF MoneyInv, RecordedOnly
<1>11. \A e \in DOMAIN events : events[e].corrected => Active(applications', e) = {}
  BY <1>4, <1>9 DEF MoneyInv, CorrectedSupportsNothing, ActiveApplications, Active
<1> HIDE DEF n
<1> QED BY <1>4, <1>5, <1>7, <1>8, <1>10, <1>11, ApplicationStep

LEMMA ReverseKeeps ==
    ASSUME MoneyInv, TreasuryAssumption, NEW i \in DOMAIN applications, ReverseApplication(i)
    PROVE  MoneyInv'
<1> DEFINE r == applications[i].receipt
           amt == applications[i].amount
           n == receipts[r].applied - amt
<1>1. Tables /\ DOMAIN events \subseteq EventIds /\ applications[i] \in ApplicationType
      /\ r \in DOMAIN events
  BY TableRows DEF MoneyInv, RecordedOnly
<1>2. applications \in Seq(ApplicationType) /\ receipts \in [EventIds -> ReceiptType]
      /\ events[r] \in EventType
  BY <1>1, TableRows DEF Tables
<1>3. /\ applications' = [applications EXCEPT ![i].active = FALSE]
      /\ receipts' = [receipts EXCEPT ![r].applied = n]
      /\ claims' = ClaimsAfter(r, n, Remaining(r) + amt)
      /\ UNCHANGED <<events, links, due, transfers>>
      /\ applications[i].active
  BY <1>1, <1>2 DEF ReverseApplication, Reversible
<1>4. /\ applications' \in Seq(ApplicationType)
      /\ \A j \in DOMAIN applications : j # i => applications'[j] = applications[j]
      /\ DOMAIN applications' = DOMAIN applications
      /\ applications'[i].receipt = r /\ ~applications'[i].active
      /\ AppliedIn(applications', r) = AppliedIn(applications, r) - amt
      /\ \A d : d # r => AppliedIn(applications', d) = AppliedIn(applications, d)
  BY <1>2, <1>3, AppliedReversed
<1>5. /\ AppliedIn(applications, r) \in Nat /\ receipts[r].applied = AppliedIn(applications, r)
      /\ AppliedIn(applications', r) \in Nat
      /\ amt \in Nat /\ events[r].amount \in Nat /\ receipts[r].refunded \in Int
  <2>1. AppliedIn(applications, r) \in Nat /\ AppliedIn(applications', r) \in Nat
    BY <1>2, <1>4, ApplicationsFinite
  <2>2. receipts[r].applied = AppliedIn(applications, r)
    BY <1>1 DEF MoneyInv, Totals
  <2>3. amt \in Nat /\ events[r].amount \in Nat
    BY <1>1, <1>2, AmountsNat DEF AmountsAreNat, EventType, ApplicationType
  <2>4. receipts[r].refunded \in Int
    BY <1>1, <1>2 DEF ReceiptType
  <2> QED BY <2>1, <2>2, <2>3, <2>4
<1>6. n \in Nat /\ n = AppliedIn(applications', r) /\ n <= receipts[r].applied
  BY <1>4, <1>5
<1>7. n + receipts[r].refunded <= events[r].amount
  <2>1. receipts[r].applied + receipts[r].refunded <= events[r].amount
    BY <1>1 DEF MoneyInv, Totals
  <2> QED BY <1>5, <1>6, <2>1
<1>8. \A j \in DOMAIN applications' : applications'[j].receipt \in DOMAIN events
  BY <1>1, <1>4 DEF MoneyInv, RecordedOnly
<1>9. \A e \in DOMAIN events : events[e].corrected => Active(applications', e) = {}
  BY <1>4 DEF MoneyInv, CorrectedSupportsNothing, ActiveApplications, Active
<1> HIDE DEF n, r
<1> QED BY <1>1, <1>3, <1>4, <1>6, <1>7, <1>8, <1>9, ApplicationStep
-----------------------------------------------------------------------------
(* Outgoing money and generic observations.                                *)

\* A movement that nothing is built on.
LEMMA ObservationKeeps ==
    ASSUME MoneyInv, TreasuryAssumption,
           NEW e, NEW a, NEW dir, NEW amt \in Amounts, Observed(e, a, dir, amt),
           UNCHANGED <<receipts, claims, applications, links, due, transfers>>
    PROVE  MoneyInv'
<1>1. Kept /\ \A d \in DOMAIN events' : events'[d].corrected => d \in DOMAIN events
  BY ObservedIsKept
<1>2. DOMAIN events' = DOMAIN events \cup {e} /\ e \in EventIds /\ events'[e].amount = amt
      /\ \A d \in DOMAIN events : events'[d] = events[d]
  BY DEF Observed
<1>3. Tables'
  BY DEF MoneyInv, Tables, Observed
<1>4. RecordedOnly'
  BY <1>2 DEF MoneyInv, RecordedOnly, Legs
<1>5. UsedApart'
  BY DEF MoneyInv, UsedApart, Legs, HasReceipt
<1>6. Totals'
  <2>1. ASSUME NEW r \in DOMAIN events'
        PROVE  receipts[r].applied + receipts[r].refunded <= events'[r].amount
    <3>1. CASE r \in DOMAIN events
      BY <1>2, <3>1 DEF MoneyInv, Totals
    <3>2. CASE r \notin DOMAIN events
      <4>1. receipts[r] = NoReceipt /\ events'[r].amount = amt
        BY <1>2, <3>2 DEF MoneyInv, RecordedOnly
      <4>2. amt \in Nat
        BY AmountsNat DEF AmountsAreNat
      <4> QED BY <4>1, <4>2 DEF NoReceipt
    <3> QED BY <3>1, <3>2
  <2> QED BY <2>1 DEF MoneyInv, Totals
<1>7. CorrectedSupportsNothing' /\ TransferConserves'
  BY <1>1, SupportStays, TransfersStay
<1>8. DecisionIsOnCurrentEvidence' /\ ClaimsShareBorrower'
  BY <1>1, ClaimsStay
<1> QED BY <1>3, <1>4, <1>5, <1>6, <1>7, <1>8 DEF MoneyInv

\* A debit that is linked to its source is used by it alone and counted once.
LEMMA LinkKeeps ==
    ASSUME MoneyInv, TreasuryAssumption,
           NEW e, NEW a \in Accounts, NEW amt \in Amounts, Observed(e, a, "debit", amt),
           NEW source \in SourceType,
           source.kind = "refund" => source.id \in DOMAIN events,
           Linkable(e, source, a, amt), ~AlreadyLinked(e, source),
           links' = links \cup {[event |-> e, source |-> source, amount |-> amt]},
           receipts' = IF source.kind = "refund"
                       THEN [receipts EXCEPT ![source.id].refunded = @ + amt] ELSE receipts,
           due' = IF source.kind = "payment" THEN [due EXCEPT ![source.id] = @ - amt] ELSE due,
           UNCHANGED <<claims, applications, transfers>>
    PROVE  MoneyInv'
<1> DEFINE l == [event |-> e, source |-> source, amount |-> amt]
<1>1. Tables
  BY DEF MoneyInv
<1>2. Kept /\ \A d \in DOMAIN events' : events'[d].corrected => d \in DOMAIN events
  BY ObservedIsKept
<1>3. DOMAIN events' = DOMAIN events \cup {e} /\ e \in EventIds /\ events'[e].amount = amt
      /\ events'[e].corrected = FALSE /\ \A d \in DOMAIN events : events'[d] = events[d]
  BY DEF Observed
<1>4. LinksOf(e) = {} /\ ~InTransfer(e) /\ ~HasReceipt(e)
  BY DEF Linkable, FreeFor, AlreadyLinked
<1>5. l \in LinkType /\ l \notin links /\ l.event = e /\ l.source = source /\ l.amount = amt
  BY <1>3, <1>4 DEF LinkType, LinksOf
<1>6. links \in SUBSET LinkType /\ IsFiniteSet(links) /\ links' = links \cup {l}
      /\ receipts \in [EventIds -> ReceiptType] /\ due \in [Sources -> Nat]
      /\ DOMAIN events \subseteq EventIds
  BY <1>1, TableRows DEF Tables
<1>7. /\ links' \in SUBSET LinkType /\ IsFiniteSet(links')
      /\ LinkedIn(links', source) = LinkedIn(links, source) + amt
      /\ \A x : x # source => LinkedIn(links', x) = LinkedIn(links, x)
  <2>1. /\ links \cup {l} \in SUBSET LinkType /\ IsFiniteSet(links \cup {l})
        /\ LinkedIn(links \cup {l}, l.source) = LinkedIn(links, l.source) + l.amount
        /\ \A x : x # l.source => LinkedIn(links \cup {l}, x) = LinkedIn(links, x)
    <3> HIDE DEF l
    <3> QED BY <1>5, <1>6, LinkAdded
  <2>2. l.source = source /\ l.amount = amt /\ links' = links \cup {l}
    BY <1>5, <1>6
  <2> HIDE DEF l
  <2> QED BY <2>1, <2>2
<1>8. /\ \A r : LinkedIn(links, RefundOf(r)) \in Nat
      /\ \A z : LinkedIn(links, PaymentOf(z)) \in Nat
      /\ amt \in Nat
  BY <1>6, LinksFinite, AmountsNat DEF AmountsAreNat
<1>9. \/ /\ source.kind = "refund" /\ source = RefundOf(source.id)
         /\ source.id \in DOMAIN events
         /\ \A r : RefundOf(r) = source => r = source.id
         /\ \A z : PaymentOf(z) # source
      \/ /\ source.kind = "payment" /\ source = PaymentOf(source.id)
         /\ source.id \in Sources
         /\ \A z : PaymentOf(z) = source => z = source.id
         /\ \A r : RefundOf(r) # source
  BY DEF SourceType, RefundOf, PaymentOf
<1>10. /\ receipts' \in [EventIds -> ReceiptType]
       /\ \A d \in EventIds : /\ receipts'[d].client = receipts[d].client
                              /\ receipts'[d].applied = receipts[d].applied
                              /\ receipts'[d].refunded =
                                   receipts[d].refunded + (IF source = RefundOf(d) THEN amt ELSE 0)
                              /\ source # RefundOf(d) => receipts'[d] = receipts[d]
  <2>1. \A d \in EventIds : receipts[d] \in ReceiptType /\ receipts[d].refunded \in Int
    BY <1>6 DEF ReceiptType
  <2>2. CASE source.kind = "refund"
    <3>1. source = RefundOf(source.id) /\ source.id \in EventIds
          /\ \A r : RefundOf(r) = source => r = source.id
      BY <1>6, <1>9, <2>2
    <3>2. receipts' = [receipts EXCEPT ![source.id] =
                          [receipts[source.id] EXCEPT !.refunded = receipts[source.id].refunded + amt]]
      BY <2>2
    <3>3. receipts[source.id].refunded + amt \in Int
      BY <1>8, <2>1, <3>1
    <3>4. \A d \in EventIds : d # source.id => receipts'[d] = receipts[d] /\ source # RefundOf(d)
      BY <3>1, <3>2, <1>6
    <3>5. receipts'[source.id] =
             [receipts[source.id] EXCEPT !.refunded = receipts[source.id].refunded + amt]
      BY <3>1, <3>2, <1>6
    <3>6. /\ receipts'[source.id] \in ReceiptType
          /\ receipts'[source.id].client = receipts[source.id].client
          /\ receipts'[source.id].applied = receipts[source.id].applied
          /\ receipts'[source.id].refunded = receipts[source.id].refunded + amt
      BY <2>1, <3>1, <3>3, <3>5 DEF ReceiptType
    <3>7. receipts' \in [EventIds -> ReceiptType]
      BY <1>6, <3>1, <3>2, <3>5, <3>6
    <3> QED BY <2>1, <3>1, <3>4, <3>6, <3>7
  <2>3. CASE source.kind # "refund"
    <3>1. receipts' = receipts
      BY <2>3
    <3>2. \A d \in EventIds : source # RefundOf(d)
      BY <2>3 DEF RefundOf
    <3>3. \A d \in EventIds : receipts[d].refunded + 0 = receipts[d].refunded
      BY <2>1
    <3> QED BY <1>6, <3>1, <3>2, <3>3
  <2> QED BY <2>2, <2>3
<1>11. /\ due' \in [Sources -> Nat]
       /\ \A z \in Sources : due'[z] = due[z] - (IF source = PaymentOf(z) THEN amt ELSE 0)
  <2>1. CASE source.kind = "payment"
    <3>1. due[source.id] >= amt /\ source.id \in Sources
      BY <1>9, <2>1 DEF Linkable
    <3>2. \A z \in Sources : source = PaymentOf(z) <=> z = source.id
      BY <1>9, <2>1
    <3>3. due' = [due EXCEPT ![source.id] = due[source.id] - amt]
      BY <2>1
    <3>4. due[source.id] \in Nat /\ due[source.id] - amt \in Nat
      BY <1>6, <1>8, <3>1
    <3> QED BY <1>6, <3>1, <3>2, <3>3, <3>4
  <2>2. CASE source.kind # "payment"
    <3>1. due' = due
      BY <2>2
    <3>2. \A z \in Sources : source # PaymentOf(z)
      BY <2>2 DEF PaymentOf
    <3>3. \A z \in Sources : due[z] - 0 = due[z]
      BY <1>6
    <3> QED BY <1>6, <3>1, <3>2, <3>3
  <2> QED BY <2>1, <2>2
<1>12. Tables'
  BY <1>1, <1>7, <1>10, <1>11 DEF Tables, Observed
<1>13. RecordedOnly'
  <2>1. \A d \in EventIds \ DOMAIN events' : receipts'[d] = NoReceipt
    <3>1. ASSUME NEW d \in EventIds \ DOMAIN events' PROVE source # RefundOf(d)
      BY <1>3, <1>9
    <3> QED BY <1>3, <1>10, <3>1 DEF MoneyInv, RecordedOnly
  <2>2. \A m \in links' : /\ m.event \in DOMAIN events'
                          /\ m.source.kind = "refund" => m.source.id \in DOMAIN events'
    BY <1>3, <1>5, <1>6 DEF MoneyInv, RecordedOnly
  <2> QED BY <1>3, <2>1, <2>2 DEF MoneyInv, RecordedOnly, Legs
<1>14. UsedApart'
  <2>1. \A d \in EventIds : HasReceipt(d)' <=> HasReceipt(d)
    BY <1>10 DEF HasReceipt
  <2>2. \A m \in links : m.event \in EventIds /\ m.event # e
    BY <1>4, <1>6 DEF LinksOf, LinkType
  <2>3. \A t \in Transfers : e \notin Legs(t) /\ Legs(t)' = Legs(t) /\ Legs(t) \subseteq EventIds
    BY <1>4, <1>6 DEF InTransfer, Legs, MoneyInv, RecordedOnly
  <2>4. \A m \in links' : ~HasReceipt(m.event)'
    BY <1>3, <1>4, <1>5, <1>6, <2>1, <2>2 DEF MoneyInv, UsedApart
  <2>5. \A m, n \in links' : m.event = n.event => m = n
    BY <1>5, <1>6, <2>2 DEF MoneyInv, UsedApart
  <2>6. \A m \in links', t \in Transfers : m.event \notin Legs(t)'
    BY <1>5, <1>6, <2>3 DEF MoneyInv, UsedApart
  <2>7. \A t \in Transfers : \A d \in Legs(t)' : ~HasReceipt(d)'
    BY <2>1, <2>3 DEF MoneyInv, UsedApart
  <2>8. \A t, u \in Transfers : Legs(t)' \cap Legs(u)' # {} => t = u
    BY <2>3 DEF MoneyInv, UsedApart
  <2> QED BY <2>4, <2>5, <2>6, <2>7, <2>8 DEF UsedApart, Legs, HasReceipt
<1>15. Totals'
  <2>1. ASSUME NEW r \in EventIds
        PROVE  /\ receipts'[r].applied = AppliedIn(applications, r)
               /\ receipts'[r].refunded = LinkedIn(links', RefundOf(r))
    <3>1. receipts[r].applied = AppliedIn(applications, r)
          /\ receipts[r].refunded = LinkedIn(links, RefundOf(r))
      BY DEF MoneyInv, Totals
    <3>2. CASE source = RefundOf(r)
      BY <1>7, <1>10, <3>1, <3>2
    <3>3. CASE source # RefundOf(r)
      BY <1>7, <1>8, <1>10, <3>1, <3>3
    <3> QED BY <3>2, <3>3
  <2>2. ASSUME NEW r \in DOMAIN events'
        PROVE  receipts'[r].applied + receipts'[r].refunded <= events'[r].amount
    <3>1. r \in EventIds
      BY <1>3, <1>6
    <3>2. receipts[r].applied \in Int /\ receipts[r].refunded \in Int
      BY <1>6, <3>1 DEF ReceiptType
    <3>3. CASE source = RefundOf(r)
      <4>1. r = source.id /\ source.kind = "refund" /\ r \in DOMAIN events
        BY <1>9, <3>3
      <4>2. Remaining(r) >= amt /\ events[r] \in EventType
        BY <1>1, <4>1, TableRows DEF Linkable
      <4>3. events[r].amount \in Nat
        BY <4>2, AmountsNat DEF AmountsAreNat, EventType
      <4> QED BY <1>3, <1>8, <1>10, <3>1, <3>2, <3>3, <4>1, <4>2, <4>3 DEF Remaining
    <3>4. CASE source # RefundOf(r)
      <4>1. receipts'[r] = receipts[r]
        BY <1>10, <3>1, <3>4
      <4>2. CASE r \in DOMAIN events
        BY <1>3, <4>1, <4>2 DEF MoneyInv, Totals
      <4>3. CASE r \notin DOMAIN events
        <5>1. receipts[r] = NoReceipt /\ events'[r].amount = amt
          BY <1>3, <3>1, <4>3 DEF MoneyInv, RecordedOnly
        <5> QED BY <1>8, <4>1, <5>1 DEF NoReceipt
      <4> QED BY <4>2, <4>3
    <3> QED BY <3>3, <3>4
  <2>3. ASSUME NEW z \in Sources
        PROVE  due'[z] + LinkedIn(links', PaymentOf(z)) = DueAmount
    <3>1. due[z] + LinkedIn(links, PaymentOf(z)) = DueAmount /\ due[z] \in Nat
      BY <1>6 DEF MoneyInv, Totals
    <3>2. LinkedIn(links, PaymentOf(z)) \in Nat
      BY <1>8
    <3>3. CASE source = PaymentOf(z)
      <4>1. LinkedIn(links', PaymentOf(z)) = LinkedIn(links, PaymentOf(z)) + amt
        BY <1>7, <3>3
      <4>2. due'[z] = due[z] - amt
        BY <1>11, <3>3
      <4> QED BY <1>8, <3>1, <3>2, <4>1, <4>2
    <3>4. CASE source # PaymentOf(z)
      <4>1. LinkedIn(links', PaymentOf(z)) = LinkedIn(links, PaymentOf(z))
        BY <1>7, <3>4
      <4> QED BY <1>11, <3>1, <3>4, <4>1
    <3> QED BY <3>3, <3>4
  <2> QED BY <2>1, <2>2, <2>3 DEF Totals
<1>16. CorrectedSupportsNothing'
  <2>1. ASSUME NEW d \in DOMAIN events', events'[d].corrected
        PROVE  d \in DOMAIN events /\ d # e /\ events[d].corrected
    BY <1>2, <1>3, <2>1
  <2>2. ASSUME NEW d, d # e PROVE LinksOf(d)' = LinksOf(d)
    BY <1>5, <1>6, <2>2 DEF LinksOf
  <2> QED BY <2>1, <2>2 DEF MoneyInv, CorrectedSupportsNothing, ActiveApplications, InTransfer
<1>17. TransferConserves'
  BY <1>2, TransfersStay
<1>18. DecisionIsOnCurrentEvidence' /\ ClaimsShareBorrower'
  BY <1>2, <1>6, <1>10, ClaimsStay
<1> QED BY <1>12, <1>13, <1>14, <1>15, <1>16, <1>17, <1>18 DEF MoneyInv

LEMMA DebitKeeps ==
    ASSUME MoneyInv, TreasuryAssumption,
           NEW a \in Accounts, NEW ref \in Refs, NEW amt \in Amounts,
           NEW source \in SourceType \cup {NoSource},
           source.kind = "refund" => source.id \in DOMAIN events,
           RecordDebit(a, ref, amt, source)
    PROVE  MoneyInv'
<1> DEFINE e == EventOf(a, ref)
<1>1. Observed(e, a, "debit", amt)
  BY MovementIsRecorded DEF MoneyInv, RecordDebit
<1>2. UNCHANGED <<claims, applications, transfers>>
  BY DEF RecordDebit
<1>3. CASE Linkable(e, source, a, amt) /\ ~AlreadyLinked(e, source)
  <2>1. source \in SourceType
    BY <1>3 DEF Linkable
  <2>2. /\ links' = links \cup {[event |-> e, source |-> source, amount |-> amt]}
        /\ receipts' = IF source.kind = "refund"
                       THEN [receipts EXCEPT ![source.id].refunded = @ + amt] ELSE receipts
        /\ due' = IF source.kind = "payment" THEN [due EXCEPT ![source.id] = @ - amt] ELSE due
    BY <1>3 DEF RecordDebit
  <2> HIDE DEF e
  <2> QED BY <1>1, <1>2, <1>3, <2>1, <2>2, LinkKeeps
<1>4. CASE ~(Linkable(e, source, a, amt) /\ ~AlreadyLinked(e, source))
  <2>1. UNCHANGED <<links, receipts, due>>
    BY <1>4 DEF RecordDebit
  <2> HIDE DEF e
  <2> QED BY <1>1, <1>2, <2>1, ObservationKeeps
<1> QED BY <1>3, <1>4

LEMMA CreditKeeps ==
    ASSUME MoneyInv, TreasuryAssumption,
           NEW a \in Accounts, NEW ref \in Refs, NEW amt \in Amounts, RecordCredit(a, ref, amt)
    PROVE  MoneyInv'
<1>1. Observed(EventOf(a, ref), a, "credit", amt)
  BY MovementIsRecorded DEF MoneyInv, RecordCredit
<1> QED BY <1>1, ObservationKeeps DEF RecordCredit
-----------------------------------------------------------------------------
(* Transfers and corrections.                                              *)

\* What a leg changes: the transfer t has the movement e as one leg, and keeps the
\* other; what it had says the same as what is recorded now.
LEMMA LegKeeps ==
    ASSUME MoneyInv, TreasuryAssumption,
           NEW t \in Transfers, NEW leg \in {"debit", "credit"},
           NEW from \in Accounts, NEW to \in Accounts, NEW ref \in Refs, NEW amt \in Amounts,
           RecordTransferLeg(t, leg, from, to, ref, amt)
    PROVE  MoneyInv'
<1> DEFINE a == IF leg = "debit" THEN from ELSE to
           e == EventOf(a, ref)
<1>1. Tables
  BY DEF MoneyInv
<1>2. Observed(e, a, leg, amt)
  BY <1>1, MovementIsRecorded DEF RecordTransferLeg
<1>3. Kept /\ \A d \in DOMAIN events' : events'[d].corrected => d \in DOMAIN events
  BY <1>2, ObservedIsKept
<1>4. DOMAIN events' = DOMAIN events \cup {e} /\ e \in EventIds /\ e \in Nat \ {0}
      /\ events'[e].account = a /\ events'[e].dir = leg /\ events'[e].amount = amt
      /\ events'[e].corrected = FALSE
  BY <1>2 DEF Observed, EventIds
<1>5. DOMAIN events \subseteq EventIds /\ 0 \notin DOMAIN events
  BY <1>1, TableRows
<1>6. /\ TransferAgrees(t, from, to, amt) /\ LinksOf(e) = {} /\ ~HasReceipt(e)
      /\ \A u \in Transfers : e \in {transfers[u].debit, transfers[u].credit} =>
                                  u = t /\ transfers[t][leg] = e
      /\ transfers[t][leg] \in {0, e}
      /\ transfers' = [transfers EXCEPT
             ![t] = [[transfers[t] EXCEPT !.from = from, !.to = to, !.amount = amt]
                        EXCEPT ![leg] = e]]
      /\ UNCHANGED <<receipts, claims, applications, links, due>>
  BY DEF RecordTransferLeg
<1>7. transfers \in [Transfers -> TransferType] /\ transfers[t] \in TransferType
  BY <1>1 DEF Tables
<1>8. amt \in Nat /\ amt \in Amounts
  BY AmountsNat DEF AmountsAreNat
<1>9. /\ transfers' \in [Transfers -> TransferType]
      /\ \A u \in Transfers \ {t} : transfers'[u] = transfers[u]
      /\ transfers'[t].from = from /\ transfers'[t].to = to /\ transfers'[t].amount = amt
      /\ leg = "debit" => transfers'[t].debit = e /\ transfers'[t].credit = transfers[t].credit
      /\ leg = "credit" => transfers'[t].credit = e /\ transfers'[t].debit = transfers[t].debit
  <2> DEFINE old == transfers[t]
             new == [[old EXCEPT !.from = from, !.to = to, !.amount = amt] EXCEPT ![leg] = e]
  <2>1. transfers' = [transfers EXCEPT ![t] = new]
    BY <1>6
  <2>2. /\ new \in TransferType
        /\ new.from = from /\ new.to = to /\ new.amount = amt
        /\ leg = "debit" => new.debit = e /\ new.credit = old.credit
        /\ leg = "credit" => new.credit = e /\ new.debit = old.debit
    <3>1. old \in TransferType
      BY <1>7
    <3> DEFINE mid == [old EXCEPT !.from = from, !.to = to, !.amount = amt]
    <3> HIDE DEF old, e
    <3>2. /\ mid \in TransferType
          /\ mid.from = from /\ mid.to = to /\ mid.amount = amt
          /\ mid.debit = old.debit /\ mid.credit = old.credit
      BY <1>8, <3>1 DEF TransferType
    <3>3. new = [mid EXCEPT ![leg] = e] /\ e \in Nat
      BY <1>4
    <3> HIDE DEF mid, new
    <3>4. CASE leg = "debit"
      <4>1. new = [mid EXCEPT !.debit = e]
        BY <3>3, <3>4
      <4> QED BY <3>2, <3>3, <3>4, <4>1 DEF TransferType
    <3>5. CASE leg = "credit"
      <4>1. new = [mid EXCEPT !.credit = e]
        BY <3>3, <3>5
      <4> QED BY <3>2, <3>3, <3>5, <4>1 DEF TransferType
    <3> QED BY <3>4, <3>5
  <2> HIDE DEF new
  <2> QED BY <1>7, <2>1, <2>2
<1>10. \A u \in Transfers : u # t => Legs(u)' = Legs(u)
  BY <1>9 DEF Legs
<1>11. Legs(t)' = Legs(t) \cup {e}
  <2>1. CASE leg = "debit"
    <3>1. transfers[t].debit \in {0, e}
      BY <1>6, <2>1
    <3> QED BY <1>4, <1>9, <2>1, <3>1 DEF Legs
  <2>2. CASE leg = "credit"
    <3>1. transfers[t].credit \in {0, e}
      BY <1>6, <2>2
    <3> QED BY <1>4, <1>9, <2>2, <3>1 DEF Legs
  <2> QED BY <2>1, <2>2
<1>12. \A u \in Transfers : u # t => e \notin Legs(u)
  BY <1>6 DEF Legs
<1>13. \A u \in Transfers : Legs(u) \subseteq DOMAIN events
  BY DEF MoneyInv, RecordedOnly
<1>14. Tables'
  BY <1>1, <1>2, <1>6, <1>9 DEF Tables, Observed
<1>15. RecordedOnly'
  <2>1. \A u \in Transfers : Legs(u)' \subseteq DOMAIN events'
    BY <1>4, <1>10, <1>11, <1>13
  <2>2. \A d \in EventIds \ DOMAIN events' : receipts'[d] = NoReceipt
    BY <1>4, <1>6 DEF MoneyInv, RecordedOnly
  <2>3. /\ \A i \in DOMAIN applications' : applications'[i].receipt \in DOMAIN events'
        /\ \A k \in Claims : claims'[k].receipt \in DOMAIN events' \cup {0}
    BY <1>4, <1>6 DEF MoneyInv, RecordedOnly
  <2>4. \A l \in links' : /\ l.event \in DOMAIN events'
                          /\ l.source.kind = "refund" => l.source.id \in DOMAIN events'
    BY <1>4, <1>6 DEF MoneyInv, RecordedOnly
  <2> QED BY <2>1, <2>2, <2>3, <2>4 DEF RecordedOnly, Legs
<1>16. UsedApart'
  <2>1. \A d : HasReceipt(d)' <=> HasReceipt(d)
    BY <1>6 DEF HasReceipt
  <2>2. \A l \in links : l.event # e
    BY <1>6 DEF LinksOf
  <2>3. /\ \A l \in links' : ~HasReceipt(l.event)'
        /\ \A l, m \in links' : l.event = m.event => l = m
    BY <1>6, <2>1 DEF MoneyInv, UsedApart
  <2>4. \A l \in links', u \in Transfers : l.event \notin Legs(u)'
    BY <1>6, <1>10, <1>11, <2>2 DEF MoneyInv, UsedApart
  <2>5. \A u \in Transfers : \A d \in Legs(u)' : ~HasReceipt(d)'
    BY <1>6, <1>10, <1>11, <2>1 DEF MoneyInv, UsedApart
  <2>6. ASSUME NEW u \in Transfers, NEW w \in Transfers, Legs(u)' \cap Legs(w)' # {}
        PROVE  u = w
    BY <1>10, <1>11, <1>12, <2>6 DEF MoneyInv, UsedApart
  <2> QED BY <2>3, <2>4, <2>5, <2>6 DEF UsedApart, Legs, HasReceipt
<1>17. Totals'
  <2>1. ASSUME NEW r \in DOMAIN events'
        PROVE  receipts[r].applied + receipts[r].refunded <= events'[r].amount
    <3>1. CASE r \in DOMAIN events
      BY <1>2, <3>1 DEF MoneyInv, Totals, Observed
    <3>2. CASE r \notin DOMAIN events
      <4>1. receipts[r] = NoReceipt /\ events'[r].amount = amt
        BY <1>4, <3>2 DEF MoneyInv, RecordedOnly
      <4> QED BY <1>8, <4>1 DEF NoReceipt
    <3> QED BY <3>1, <3>2
  <2> QED BY <1>6, <2>1 DEF MoneyInv, Totals
<1>18. CorrectedSupportsNothing'
  <2>1. ASSUME NEW d \in DOMAIN events', events'[d].corrected
        PROVE  d \in DOMAIN events /\ d # e /\ d # 0 /\ events[d].corrected
    BY <1>3, <1>4, <1>5, <2>1 DEF Kept
  <2>2. ASSUME NEW d, d # 0 PROVE InTransfer(d) <=> \E u \in Transfers : d \in Legs(u)
    BY <2>2 DEF InTransfer, Legs
  <2>3. ASSUME NEW d, d # 0 PROVE InTransfer(d)' <=> \E u \in Transfers : d \in Legs(u)'
    BY <2>3 DEF InTransfer, Legs
  <2>4. ASSUME NEW d \in DOMAIN events', events'[d].corrected
        PROVE  LinksOf(d)' = {} /\ ActiveApplications(d)' = {} /\ ~InTransfer(d)'
    <3>1. d \in DOMAIN events /\ d # e /\ d # 0 /\ events[d].corrected
      BY <2>1, <2>4
    <3>2. LinksOf(d) = {} /\ ActiveApplications(d) = {} /\ ~InTransfer(d)
      BY <3>1 DEF MoneyInv, CorrectedSupportsNothing
    <3>3. \A u \in Transfers : d \notin Legs(u)'
      BY <1>10, <1>11, <2>2, <3>1, <3>2
    <3>4. ~InTransfer(d)'
      BY <2>3, <3>1, <3>3
    <3>5. LinksOf(d)' = {} /\ ActiveApplications(d)' = {}
      BY <1>6, <3>2 DEF LinksOf, ActiveApplications
    <3> QED BY <3>4, <3>5
  <2> QED BY <2>4 DEF CorrectedSupportsNothing
<1>19. TransferConserves'
  <2>1. ASSUME NEW u \in Transfers
        PROVE  /\ transfers[u].debit # 0 =>
                    LET d == events'[transfers[u].debit]
                    IN  /\ d.account = transfers[u].from /\ d.dir = "debit"
                        /\ d.amount = transfers[u].amount /\ ~d.corrected
               /\ transfers[u].credit # 0 =>
                    LET d == events'[transfers[u].credit]
                    IN  /\ d.account = transfers[u].to /\ d.dir = "credit"
                        /\ d.amount = transfers[u].amount /\ ~d.corrected
    <3>1. /\ transfers[u].debit # 0 => transfers[u].debit \in DOMAIN events
          /\ transfers[u].credit # 0 => transfers[u].credit \in DOMAIN events
      BY <1>13 DEF Legs
    <3> QED BY <1>3, <3>1 DEF MoneyInv, TransferConserves, Kept
  <2>2. transfers[t].debit # 0 \/ transfers[t].credit # 0 =>
          transfers[t].from = from /\ transfers[t].to = to /\ transfers[t].amount = amt
    BY <1>6 DEF TransferAgrees, NoTransfer
  <2>3. ASSUME NEW u \in Transfers
        PROVE  /\ transfers'[u].debit # 0 =>
                    LET d == events'[transfers'[u].debit]
                    IN  /\ d.account = transfers'[u].from /\ d.dir = "debit"
                        /\ d.amount = transfers'[u].amount /\ ~d.corrected
               /\ transfers'[u].credit # 0 =>
                    LET d == events'[transfers'[u].credit]
                    IN  /\ d.account = transfers'[u].to /\ d.dir = "credit"
                        /\ d.amount = transfers'[u].amount /\ ~d.corrected
    <3>1. CASE u # t
      BY <1>9, <2>1, <3>1
    <3>2. CASE u = t /\ leg = "debit"
      <4>1. a = from
        BY <3>2
      <4> HIDE DEF a, e
      <4> QED BY <1>4, <1>9, <2>1, <2>2, <3>2, <4>1
    <3>3. CASE u = t /\ leg = "credit"
      <4>1. a = to
        BY <3>3
      <4> HIDE DEF a, e
      <4> QED BY <1>4, <1>9, <2>1, <2>2, <3>3, <4>1
    <3> QED BY <3>1, <3>2, <3>3
  <2> QED BY <2>3 DEF TransferConserves
<1>20. DecisionIsOnCurrentEvidence' /\ ClaimsShareBorrower'
  BY <1>3, <1>6, ClaimsStay
<1> QED BY <1>14, <1>15, <1>16, <1>17, <1>18, <1>19, <1>20 DEF MoneyInv

LEMMA CorrectKeeps ==
    ASSUME MoneyInv, TreasuryAssumption, NEW e \in DOMAIN events, CorrectMovement(e)
    PROVE  MoneyInv'
<1>1. Tables
  BY DEF MoneyInv
<1>2. /\ events' = [events EXCEPT ![e].corrected = TRUE]
      /\ UNCHANGED <<receipts, claims, applications, links, due, transfers>>
      /\ ~InTransfer(e) /\ ActiveApplications(e) = {} /\ LinksOf(e) = {}
  BY DEF CorrectMovement, Withdrawable
<1>3. events \in Seq(EventType) /\ events[e] \in EventType /\ e \in 1 .. Len(events)
  BY <1>1, TableRows DEF Tables
<1>4. [events[e] EXCEPT !.corrected = TRUE] \in EventType
  BY <1>3 DEF EventType
<1>5. events' \in Seq(EventType) /\ Len(events') = Len(events)
  BY <1>2, <1>3, <1>4, ExceptSeq
<1>6. /\ DOMAIN events' = DOMAIN events
      /\ \A d \in DOMAIN events : /\ events'[d].account = events[d].account
                                  /\ events'[d].dir = events[d].dir
                                  /\ events'[d].amount = events[d].amount
                                  /\ d # e => events'[d] = events[d]
  BY <1>1, <1>2, TableRows DEF EventType
<1>7. Tables'
  BY <1>1, <1>2, <1>5 DEF Tables
<1>8. RecordedOnly'
  BY <1>2, <1>6 DEF MoneyInv, RecordedOnly, Legs
<1>9. UsedApart'
  BY <1>2 DEF MoneyInv, UsedApart, Legs, HasReceipt
<1>10. Totals'
  BY <1>2, <1>6 DEF MoneyInv, Totals
<1>11. CorrectedSupportsNothing'
  BY <1>2, <1>6 DEF MoneyInv, CorrectedSupportsNothing, LinksOf, ActiveApplications, InTransfer
<1>12. TransferConserves'
  <2>1. ASSUME NEW t \in Transfers
        PROVE  /\ transfers[t].debit # 0 =>
                    transfers[t].debit \in DOMAIN events /\ transfers[t].debit # e
               /\ transfers[t].credit # 0 =>
                    transfers[t].credit \in DOMAIN events /\ transfers[t].credit # e
    BY <1>2 DEF MoneyInv, RecordedOnly, Legs, InTransfer
  <2> QED BY <1>2, <1>6, <2>1 DEF MoneyInv, TransferConserves
<1>13. DecisionIsOnCurrentEvidence'
  BY <1>2 DEF MoneyInv, DecisionIsOnCurrentEvidence
<1>14. ClaimsShareBorrower'
  <2>1. \A k \in Claims : claims[k].receipt # 0 => claims[k].receipt \in DOMAIN events
    BY DEF MoneyInv, RecordedOnly
  <2> QED BY <1>2, <1>6, <2>1 DEF MoneyInv, ClaimsShareBorrower
<1> QED BY <1>7, <1>8, <1>9, <1>10, <1>11, <1>12, <1>13, <1>14 DEF MoneyInv

-----------------------------------------------------------------------------
(* Every step.                                                             *)

LEMMA MoneyStepKeeps ==
    ASSUME MoneyInv, TreasuryAssumption, Next
    PROVE  MoneyInv'
<1>1. CASE \E k \in Claims, c \in Clients, a \in Accounts : SubmitClaim(k, c, a)
  BY <1>1, SubmitKeeps
<1>2. CASE \E k \in Claims : ReviseClaim(k)
  BY <1>2, ReviseKeeps
<1>3. CASE \E k \in Claims, v \in 1..MaxVersion,
             d \in {"reviewed", "correction_required", "rejected"} : ReviewClaim(k, v, d)
  BY <1>3, ReviewKeeps
<1>4. CASE \E a \in Accounts, ref \in Refs, amt \in Amounts, c \in Clients :
             \/ VerifyReceipt(a, ref, amt, c, {}, 0)
             \/ \E k \in Claims, v \in 1..MaxVersion : VerifyReceipt(a, ref, amt, c, {k}, v)
  <2> PICK a \in Accounts, ref \in Refs, amt \in Amounts, c \in Clients :
             \/ VerifyReceipt(a, ref, amt, c, {}, 0)
             \/ \E k \in Claims, v \in 1..MaxVersion : VerifyReceipt(a, ref, amt, c, {k}, v)
    BY <1>4
  <2>1. CASE VerifyReceipt(a, ref, amt, c, {}, 0)
    BY <2>1, ReceiptKeeps
  <2>2. ASSUME NEW k \in Claims, NEW v \in 1..MaxVersion, VerifyReceipt(a, ref, amt, c, {k}, v)
        PROVE  MoneyInv'
    <3>1. v \in Nat /\ {k} \in SUBSET Claims
      OBVIOUS
    <3> QED BY <2>2, <3>1, ReceiptKeeps
  <2> QED BY <2>1, <2>2
<1>5. CASE \E r \in DOMAIN events, amt \in Amounts : ApplyReceipt(r, amt)
  BY <1>5, ApplyKeeps
<1>6. CASE \E i \in DOMAIN applications : ReverseApplication(i)
  BY <1>6, ReverseKeeps
<1>7. CASE \E a \in Accounts, ref \in Refs, amt \in Amounts :
             \/ RecordDebit(a, ref, amt, NoSource)
             \/ \E r \in DOMAIN events : RecordDebit(a, ref, amt, RefundOf(r))
             \/ \E s \in Sources : RecordDebit(a, ref, amt, PaymentOf(s))
             \/ RecordCredit(a, ref, amt)
  <2> PICK a \in Accounts, ref \in Refs, amt \in Amounts :
             \/ RecordDebit(a, ref, amt, NoSource)
             \/ \E r \in DOMAIN events : RecordDebit(a, ref, amt, RefundOf(r))
             \/ \E s \in Sources : RecordDebit(a, ref, amt, PaymentOf(s))
             \/ RecordCredit(a, ref, amt)
    BY <1>7
  <2>1. CASE RecordDebit(a, ref, amt, NoSource)
    <3>1. NoSource.kind # "refund"
      BY DEF NoSource
    <3> QED BY <2>1, <3>1, DebitKeeps
  <2>2. ASSUME NEW r \in DOMAIN events, RecordDebit(a, ref, amt, RefundOf(r)) PROVE MoneyInv'
    <3>1. DOMAIN events \subseteq EventIds
      BY TableRows DEF MoneyInv
    <3>2. RefundOf(r) \in SourceType /\ RefundOf(r).id \in DOMAIN events
      BY <3>1 DEF SourceType, RefundOf
    <3> QED BY <2>2, <3>2, DebitKeeps
  <2>3. ASSUME NEW z \in Sources, RecordDebit(a, ref, amt, PaymentOf(z)) PROVE MoneyInv'
    <3>1. PaymentOf(z) \in SourceType /\ PaymentOf(z).kind # "refund"
      BY DEF SourceType, PaymentOf
    <3> QED BY <2>3, <3>1, DebitKeeps
  <2>4. CASE RecordCredit(a, ref, amt)
    BY <2>4, CreditKeeps
  <2> QED BY <2>1, <2>2, <2>3, <2>4
<1>8. CASE \E t \in Transfers, leg \in {"debit", "credit"}, from, to \in Accounts,
             ref \in Refs, amt \in Amounts : RecordTransferLeg(t, leg, from, to, ref, amt)
  BY <1>8, LegKeeps
<1>9. CASE \E e \in DOMAIN events : CorrectMovement(e)
  BY <1>9, CorrectKeeps
<1> QED BY <1>1, <1>2, <1>3, <1>4, <1>5, <1>6, <1>7, <1>8, <1>9 DEF Next

LEMMA MoneyStutterKeeps ==
    ASSUME MoneyInv, UNCHANGED vars
    PROVE  MoneyInv'
<1>1. UNCHANGED <<events, receipts, claims, applications, links, due, transfers>>
  BY DEF vars
<1>2. claims' \in [Claims -> ClaimType]
  BY <1>1 DEF MoneyInv, Tables
<1>3. \A k \in Claims : claims'[k].receipt \in DOMAIN events \cup {0}
  BY <1>1 DEF MoneyInv, RecordedOnly
<1>4. DecisionIsOnCurrentEvidence' /\ ClaimsShareBorrower'
  BY <1>1, ClaimsStay DEF Kept
<1> QED BY <1>1, <1>2, <1>3, <1>4, ClaimStep

-----------------------------------------------------------------------------
(* What the invariant says.                                                *)

\* Uses that are apart are one.
LEMMA UsesAreOne ==
    ASSUME MoneyInv, TreasuryAssumption, NEW e \in DOMAIN events
    PROVE  Cardinality(Uses(e)) <= 1
<1> DEFINE L == {<<l.source.kind, l.source.id>> : l \in LinksOf(e)}
           T == {<<"transfer", t>> : t \in {u \in Transfers :
                                       e \in {transfers[u].debit, transfers[u].credit}}}
           R == IF HasReceipt(e) THEN {<<"receipt", e>>} ELSE {}
<1>1. e # 0
  BY TableRows DEF MoneyInv
<1>2. \A t \in Transfers : e \in {transfers[t].debit, transfers[t].credit} => e \in Legs(t)
  BY <1>1 DEF Legs
<1>3. \E x : Uses(e) \subseteq {x}
  <2>1. CASE HasReceipt(e)
    <3>1. L = {} /\ T = {}
      BY <1>2, <2>1 DEF MoneyInv, UsedApart, LinksOf
    <3> QED BY <2>1, <3>1 DEF Uses
  <2>2. CASE ~HasReceipt(e) /\ LinksOf(e) # {}
    <3>1. PICK l \in LinksOf(e) : TRUE
      BY <2>2
    <3>2. LinksOf(e) = {l} /\ T = {}
      BY <1>2, <3>1 DEF MoneyInv, UsedApart, LinksOf
    <3> QED BY <2>2, <3>2 DEF Uses
  <2>3. CASE ~HasReceipt(e) /\ LinksOf(e) = {}
    <3>1. \A t, u \in Transfers : e \in Legs(t) /\ e \in Legs(u) => t = u
      BY DEF MoneyInv, UsedApart
    <3>2. \A x, y \in T : x = y
      BY <1>2, <3>1
    <3>3. Uses(e) = T
      BY <2>3 DEF Uses
    <3> QED BY <3>2, <3>3
  <2> QED BY <2>1, <2>2, <2>3
<1>4. PICK x : Uses(e) \subseteq {x}
  BY <1>3
<1>5. IsFiniteSet({x}) /\ Cardinality({x}) = 1
  BY FS_Singleton
<1>6. Cardinality(Uses(e)) <= Cardinality({x})
  BY <1>4, <1>5, FS_Subset
<1> QED BY <1>5, <1>6

LEMMA InvIsMoney ==
    ASSUME MoneyInv, TreasuryAssumption
    PROVE  TypeOK /\ MoneyIsUsedOnce /\ ClaimsAreDecided
<1>1. Tables /\ DOMAIN events \subseteq EventIds
  BY TableRows DEF MoneyInv
<1>2. applications \in Seq(ApplicationType) /\ links \in SUBSET LinkType /\ IsFiniteSet(links)
      /\ due \in [Sources -> Nat]
  BY <1>1 DEF Tables
<1>3. \A r \in EventIds : receipts[r].applied \in Nat /\ receipts[r].refunded \in Nat
  BY <1>2, ApplicationsFinite, LinksFinite DEF MoneyInv, Totals
<1>4. TypeOK
  <2>1. \A e \in DOMAIN events : /\ events[e].account \in Accounts
                                 /\ events[e].dir \in {"debit", "credit"}
                                 /\ events[e].amount \in Amounts
    BY <1>1, TableRows DEF EventType
  <2> QED BY <1>1, <1>2, <1>3, <2>1 DEF TypeOK, MoneyInv, RecordedOnly
<1>5. ReceiptIsConserved
  <2>1. ASSUME NEW r \in DOMAIN events
        PROVE  receipts[r].applied
                 = MapThenSumSet(LAMBDA i : applications[i].amount, ActiveApplications(r))
    <3>1. ActiveApplications(r) = Active(applications, r)
          /\ Active(applications, r) \in SUBSET DOMAIN applications
      BY DEF ActiveApplications, Active
    <3>2. MapThenSumSet(LAMBDA i : applications[i].amount, Active(applications, r))
            = AppliedIn(applications, r)
      BY <3>1, AppliedSum DEF AppliedIn
    <3>3. receipts[r].applied = AppliedIn(applications, r)
      BY <1>1 DEF MoneyInv, Totals
    <3> QED BY <3>1, <3>2, <3>3
  <2>2. ASSUME NEW r \in DOMAIN events
        PROVE  receipts[r].refunded
                 = MapThenSumSet(LAMBDA l : l.amount, {l \in links : l.source = RefundOf(r)})
    <3>1. MapThenSumSet(LAMBDA l : l.amount, LinksFor(links, RefundOf(r)))
            = LinkedIn(links, RefundOf(r))
      BY LinkedSum DEF LinkedIn, LinksFor
    <3>2. receipts[r].refunded = LinkedIn(links, RefundOf(r))
      BY <1>1 DEF MoneyInv, Totals
    <3> QED BY <3>1, <3>2 DEF LinksFor
  <2> QED BY <2>1, <2>2 DEF ReceiptIsConserved, MoneyInv, Totals
<1>6. SourcePaidOnce
  <2>1. ASSUME NEW z \in Sources
        PROVE  due[z] + MapThenSumSet(LAMBDA l : l.amount,
                                      {l \in links : l.source = PaymentOf(z)}) = DueAmount
    <3>1. MapThenSumSet(LAMBDA l : l.amount, LinksFor(links, PaymentOf(z)))
            = LinkedIn(links, PaymentOf(z))
      BY LinkedSum DEF LinkedIn, LinksFor
    <3>2. due[z] + LinkedIn(links, PaymentOf(z)) = DueAmount
      BY DEF MoneyInv, Totals
    <3> QED BY <3>1, <3>2 DEF LinksFor
  <2> QED BY <2>1 DEF SourcePaidOnce
<1>7. MovementHasOneUse
  BY UsesAreOne DEF MovementHasOneUse
<1> QED BY <1>4, <1>5, <1>6, <1>7 DEF MoneyInv, MoneyIsUsedOnce, ClaimsAreDecided

LEMMA MoneyInvariant ==
    ASSUME TreasuryAssumption
    PROVE  Spec => []MoneyInv
<1>1. Init => MoneyInv
  BY MoneyInvStarts
<1>2. MoneyInv /\ [Next]_vars => MoneyInv'
  BY MoneyStepKeeps, MoneyStutterKeeps
<1> QED BY <1>1, <1>2, PTL DEF Spec

\* The rows of the money tables keep their shape: no running total is ever negative, no
\* claim names a receipt that is not there.
THEOREM MoneyIsTyped ==
    ASSUME TreasuryAssumption
    PROVE  Spec => []TypeOK
<1>1. MoneyInv => TypeOK
  BY InvIsMoney
<1> QED BY <1>1, MoneyInvariant, PTL

\* One verified movement never funds two things, receipts are not applied or refunded
\* beyond what arrived, sources are not paid beyond what was approved, transfers move one
\* amount and what was withdrawn supports nothing, in whatever order commands come
\* (consuming_source, claim_action, outgoing_action, transfer, movement_correct).
THEOREM MoneyStaysUsedOnce ==
    ASSUME TreasuryAssumption
    PROVE  Spec => []MoneyIsUsedOnce
<1>1. MoneyInv => MoneyIsUsedOnce
  BY InvIsMoney
<1> QED BY <1>1, MoneyInvariant, PTL

\* A decision on a reported payment is about the version of the evidence it shows, and a
\* receipt linked to a claim is of its borrower and its account (claim_action).
THEOREM ClaimsStayDecided ==
    ASSUME TreasuryAssumption
    PROVE  Spec => []ClaimsAreDecided
<1>1. MoneyInv => ClaimsAreDecided
  BY InvIsMoney
<1> QED BY <1>1, MoneyInvariant, PTL

-----------------------------------------------------------------------------
(***************************************************************************)
(* Statements: the invariant.  A close is made on what the account shows;  *)
(* what keeps it true is the flag alone, since nothing stops a movement    *)
(* from being recorded, or corrected, at a time that was closed before.    *)
(* StatementsInv says of the closes that stand what the preview found.     *)
(***************************************************************************)

OpeningType == [cutoff : Nat, amount : Nat, status : {"draft", "active", "superseded"},
                supersedes : Nat]
EntryType == [at : Nat, amount : Int, fee : Nat, correction : Int]
StatementRows == UNION {st.rows : st \in Statements}
MatchType == [row : StatementRows, ref : References, component : Components]
SessionType == [start : Nat, cutoff : Nat, actual : Nat, complete : BOOLEAN,
                rows : {st.rows : st \in Statements}, matches : SUBSET MatchType,
                status : Statuses, closed : BOOLEAN, review : BOOLEAN]

StatementTables ==
    /\ openings \in Seq(OpeningType)
    /\ ledger \in [References -> EntryType] /\ IsFiniteSet(Recorded)
    /\ sessions \in Seq(SessionType)

\* An opening replaces one of its own cutoff, and one at most is active.
OpeningsInOrder ==
    /\ \A i \in DOMAIN openings :
           LET k == openings[i].supersedes
           IN  /\ k < i
               /\ k # 0 => openings[k].cutoff = openings[i].cutoff
    /\ \A i, j \in DOMAIN openings :
           openings[i].status = "active" /\ openings[j].status = "active" => i = j

\* A deposit has no fee, and the lines of a corrected movement cancel out.
EntriesCancel ==
    \A r \in Recorded : /\ ledger[r].amount > 0 => ledger[r].fee = 0
                        /\ Corrected(r) => LineSum(r) = 0

SessionsShown ==
    \A i \in DOMAIN sessions :
        /\ sessions[i].closed <=> sessions[i].status \in {"reconciled", "superseded"}
        /\ sessions[i].review => sessions[i].closed
        /\ sessions[i].start <= sessions[i].cutoff

\* A match shows its component of the movement, a row is matched once and a movement whole
\* or by its components.
MatchFits(k) ==
    /\ k.row.ref = k.ref /\ k.ref \in Recorded
    /\ k.row.amount = ComponentAmount(k.ref, k.component)
    /\ k.row.amount # 0
MatchesFit ==
    \A i \in DOMAIN sessions :
        /\ \A k \in sessions[i].matches : k.row \in sessions[i].rows /\ MatchFits(k)
        /\ \A k, l \in sessions[i].matches :
               /\ k.row = l.row => k = l
               /\ k.ref = l.ref /\ k # l => k.component # l.component
                                            /\ "total" \notin {k.component, l.component}

-----------------------------------------------------------------------------
(* What the account moved between two times.                               *)

LinesIn(book) == [r \in References |-> book[r].amount - book[r].fee + book[r].correction]
Between(book, from, to) ==
    {r \in References : book[r].amount # 0 /\ from < book[r].at /\ book[r].at <= to}
Moved(book, from, to) == SumOf(LinesIn(book), Between(book, from, to))
RowAmounts == [row \in StatementRows |-> row.amount]

\* What a close that stands was found to be.
Agrees(s) ==
    /\ Available(s)
    /\ s.actual = openings[ActiveOpening].amount
                  + Moved(ledger, openings[ActiveOpening].cutoff, s.cutoff)
    /\ SumOf(RowAmounts, s.rows) = Moved(ledger, s.start, s.cutoff)
    /\ s.start = s.cutoff => s.start = openings[ActiveOpening].cutoff
ClosesAgree == \A i \in GoodCloses : Agrees(sessions[i])

StatementsInv ==
    /\ StatementTables /\ OpeningsInOrder /\ EntriesCancel /\ SessionsShown /\ MatchesFit
    /\ OneCloseAtACutoff /\ ClosesAgree /\ CoverageIsAnchored

LEMMA LinesSum ==
    ASSUME NEW S \in SUBSET References
    PROVE  MapThenSumSet(LineSum, S) = SumOf(LinesIn(ledger), S)
<1> DEFINE f == LinesIn(ledger)
<1>1. \A s \in SUBSET S : s # {} => f[Pick(s)] = LineSum(Pick(s))
  BY PickIsMember DEF LinesIn, LineSum
<1>2. ASSUME NEW g
      PROVE  [s \in SUBSET S |-> IF s = {} THEN 0 ELSE f[Pick(s)] + g[s \ {Pick(s)}]]
             = [s \in SUBSET S |-> IF s = {} THEN 0 ELSE LineSum(Pick(s)) + g[s \ {Pick(s)}]]
  BY <1>1
<1> DEFINE Eq(g) == g = [s \in SUBSET S |-> IF s = {} THEN 0
                                           ELSE LineSum(Pick(s)) + g[s \ {Pick(s)}]]
<1>3. \A g : IsSum(f, g, S) <=> Eq(g)
  BY <1>2 DEF IsSum
<1>4. (CHOOSE g : IsSum(f, g, S)) = (CHOOSE g : Eq(g))
  BY <1>3
<1>5. SumOf(f, S) = (CHOOSE g : IsSum(f, g, S))[S]
  BY DEF SumOf, MapThenSumSet, MapThenFoldSet, IsSum, Pick
<1>6. MapThenSumSet(LineSum, S) = (CHOOSE g : Eq(g))[S]
  BY DEF MapThenSumSet, MapThenFoldSet, Pick
<1> QED BY <1>4, <1>5, <1>6

LEMMA RowsSum ==
    ASSUME NEW S \in SUBSET StatementRows
    PROVE  MapThenSumSet(LAMBDA row : row.amount, S) = SumOf(RowAmounts, S)
<1> DEFINE f == RowAmounts
<1>1. \A s \in SUBSET S : s # {} => f[Pick(s)] = Pick(s).amount
  BY PickIsMember DEF RowAmounts
<1>2. ASSUME NEW g
      PROVE  [s \in SUBSET S |-> IF s = {} THEN 0 ELSE f[Pick(s)] + g[s \ {Pick(s)}]]
             = [s \in SUBSET S |-> IF s = {} THEN 0 ELSE Pick(s).amount + g[s \ {Pick(s)}]]
  BY <1>1
<1> DEFINE Eq(g) == g = [s \in SUBSET S |-> IF s = {} THEN 0
                                           ELSE Pick(s).amount + g[s \ {Pick(s)}]]
<1>3. \A g : IsSum(f, g, S) <=> Eq(g)
  BY <1>2 DEF IsSum
<1>4. (CHOOSE g : IsSum(f, g, S)) = (CHOOSE g : Eq(g))
  BY <1>3
<1>5. SumOf(f, S) = (CHOOSE g : IsSum(f, g, S))[S]
  BY DEF SumOf, MapThenSumSet, MapThenFoldSet, IsSum, Pick
<1>6. MapThenSumSet(LAMBDA row : row.amount, S) = (CHOOSE g : Eq(g))[S]
  BY DEF MapThenSumSet, MapThenFoldSet, Pick
<1> QED BY <1>4, <1>5, <1>6

\* The balance of the preview and the movement of an interval are these sums.
LEMMA MovedIsSum ==
    /\ \A c : Expected(c) = openings[ActiveOpening].amount
                            + Moved(ledger, openings[ActiveOpening].cutoff, c)
    /\ \A s : MapThenSumSet(LineSum, {r \in Recorded : InCoverage(r, s)})
              = Moved(ledger, s.start, s.cutoff)
<1>1. ASSUME NEW a, NEW c
      PROVE  MapThenSumSet(LineSum, {r \in Recorded : a < ledger[r].at /\ ledger[r].at <= c})
             = Moved(ledger, a, c)
  <2>1. {r \in Recorded : a < ledger[r].at /\ ledger[r].at <= c} = Between(ledger, a, c)
        /\ Between(ledger, a, c) \in SUBSET References
    BY DEF Recorded, Between
  <2> QED BY <2>1, LinesSum DEF Moved
<1>2. ASSUME NEW c
      PROVE  Expected(c) = openings[ActiveOpening].amount
                           + Moved(ledger, openings[ActiveOpening].cutoff, c)
  BY <1>1 DEF Expected
<1>3. ASSUME NEW s
      PROVE  MapThenSumSet(LineSum, {r \in Recorded : InCoverage(r, s)})
             = Moved(ledger, s.start, s.cutoff)
  <2>1. {r \in Recorded : InCoverage(r, s)}
        = {r \in Recorded : s.start < ledger[r].at /\ ledger[r].at <= s.cutoff}
    BY DEF InCoverage
  <2> QED BY <1>1, <2>1
<1> QED BY <1>2, <1>3

\* What is recorded or corrected after an interval leaves its sum alone.
LEMMA LaterLeavesMoved ==
    ASSUME NEW book, NEW next, NEW r, NEW at \in Int, NEW from, NEW to \in Int, to < at,
           \A x \in References \ {r} : next[x] = book[x],
           book[r].amount = 0 \/ book[r].at = at, next[r].at = at
    PROVE  Moved(next, from, to) = Moved(book, from, to)
<1>1. Between(next, from, to) = Between(book, from, to) /\ r \notin Between(book, from, to)
  BY DEF Between
<1>2. \A x \in Between(book, from, to) : LinesIn(next)[x] = LinesIn(book)[x]
  BY <1>1 DEF Between, LinesIn
<1> QED BY <1>1, <1>2, SumOfSame DEF Moved
-----------------------------------------------------------------------------
(* What a close was found to be.                                           *)

LEMMA ActiveIsOpening ==
    ASSUME StatementTables
    PROVE  /\ ActiveOpening # 0 => /\ ActiveOpening \in DOMAIN openings
                                   /\ openings[ActiveOpening].status = "active"
                                   /\ openings[ActiveOpening] \in OpeningType
           /\ \A i \in DOMAIN openings : openings[i].status = "active" => ActiveOpening # 0
<1>1. DOMAIN openings = 1 .. Len(openings) /\ Len(openings) \in Nat
  BY LenProperties DEF StatementTables
<1> DEFINE A == {i \in DOMAIN openings : openings[i].status = "active"}
<1>2. CASE A = {}
  BY <1>2 DEF ActiveOpening
<1>3. CASE A # {}
  <2>1. (CHOOSE i \in A : TRUE) \in A
    BY <1>3
  <2>2. ActiveOpening = CHOOSE i \in A : TRUE
    BY <1>3 DEF ActiveOpening
  <2>3. \A i \in DOMAIN openings : i # 0 /\ openings[i] \in OpeningType
    BY <1>1, ElementOfSeq DEF StatementTables
  <2> HIDE DEF A
  <2>4. ActiveOpening \in A
    BY <2>1, <2>2
  <2> QED BY <2>3, <2>4 DEF A
<1> QED BY <1>2, <1>3

\* The rows matched to a movement add up to its lines.
LEMMA MatchedRowsAddUp ==
    ASSUME StatementsAssumption, StatementTables, EntriesCancel, MatchesFit,
           NEW i \in DOMAIN sessions, CanClose(i), NEW r \in CurrentEvents(sessions[i])
    PROVE  SumOf(RowAmounts, {row \in sessions[i].rows : row.ref = r}) = LinesIn(ledger)[r]
<1> DEFINE s == sessions[i]
           Of == {row \in s.rows : row.ref = r}
<1>1. s \in SessionType /\ s.rows \subseteq StatementRows /\ s.matches \subseteq MatchType
  <2>1. s \in SessionType
    BY ElementOfSeq, LenProperties DEF StatementTables
  <2> QED BY <2>1 DEF SessionType, StatementRows
<1>2. /\ r \in Recorded /\ ~Corrected(r) /\ r \in References
      /\ ledger[r] \in EntryType
      /\ ledger[r].amount # 0 /\ (ledger[r].amount > 0 => ledger[r].fee = 0)
  BY DEF CurrentEvents, Recorded, EntriesCancel, StatementTables
<1>3. LinesIn(ledger)[r] = ledger[r].amount - ledger[r].fee
  BY <1>2 DEF LinesIn, Corrected, EntryType
<1>4. /\ \A k \in s.matches : k.row \in s.rows /\ MatchFits(k)
      /\ \A k, l \in s.matches :
             /\ k.row = l.row => k = l
             /\ k.ref = l.ref /\ k # l => k.component # l.component
                                          /\ "total" \notin {k.component, l.component}
  BY DEF MatchesFit
<1>5. \A row \in s.rows : \E k \in s.matches : k.row = row
  BY DEF CanClose
<1>6. \A row \in Of : \E k \in s.matches : k.row = row /\ k.ref = r
  BY <1>4, <1>5 DEF MatchFits
<1>7. \A k \in s.matches : k.ref = r => k.row \in Of
                                        /\ RowAmounts[k.row] = ComponentAmount(r, k.component)
                                        /\ ComponentAmount(r, k.component) # 0
  BY <1>1, <1>4 DEF MatchFits, RowAmounts
<1>8. /\ ComponentAmount(r, "total") = ledger[r].amount - ledger[r].fee
      /\ ComponentAmount(r, "principal") = ledger[r].amount
      /\ ComponentAmount(r, "fee") = -ledger[r].fee
  BY <1>2 DEF ComponentAmount, EntryType
<1>9. EventIsMatched(s, r)
  BY DEF CanClose
<1>10. ledger[r].amount \in Int /\ ledger[r].fee \in Nat
  BY <1>2 DEF EntryType
<1>11. CASE "total" \in ExplainedComponents(s, r)
  <2>1. PICK k \in s.matches : k.ref = r /\ k.component = "total"
    BY <1>11 DEF ExplainedComponents
  <2>2. Of = {k.row}
    <3>1. \A row \in Of : row = k.row
      BY <1>4, <1>6, <2>1
    <3> QED BY <1>7, <2>1, <3>1
  <2>3. RowAmounts[k.row] = LinesIn(ledger)[r] /\ RowAmounts[k.row] \in Int
    BY <1>3, <1>7, <1>8, <1>10, <2>1
  <2> QED BY <2>2, <2>3, SumOfFew
<1>12. CASE /\ "total" \notin ExplainedComponents(s, r)
            /\ "principal" \in ExplainedComponents(s, r)
  <2>1. PICK k \in s.matches : k.ref = r /\ k.component = "principal"
    BY <1>12 DEF ExplainedComponents
  <2>2. \A l \in s.matches : l.ref = r => l.component \in {"principal", "fee"}
    <3>1. ASSUME NEW l \in s.matches, l.ref = r PROVE l.component \in {"principal", "fee"}
      <4>1. l.component \in ExplainedComponents(s, r)
        BY <3>1 DEF ExplainedComponents
      <4>2. l.component \in Components
        BY <1>1 DEF MatchType
      <4> QED BY <1>12, <4>1, <4>2 DEF Components
    <3> QED BY <3>1
  <2>3. RowAmounts[k.row] = ledger[r].amount
    BY <1>7, <1>8, <2>1
  <2>4. CASE ledger[r].fee = 0
    <3>1. \A l \in s.matches : l.ref = r => l.component = "principal"
      BY <1>7, <1>8, <2>2, <2>4
    <3>2. \A l \in s.matches : l.ref = r => l = k
      BY <1>4, <2>1, <3>1
    <3>3. Of = {k.row}
      BY <1>6, <1>7, <2>1, <3>2
    <3>4. RowAmounts[k.row] = LinesIn(ledger)[r] /\ RowAmounts[k.row] \in Int
      BY <1>3, <1>10, <2>3, <2>4
    <3> QED BY <3>3, <3>4, SumOfFew
  <2>5. CASE ledger[r].fee # 0
    <3>1. "fee" \in ExplainedComponents(s, r)
      BY <1>9, <1>12, <2>5 DEF EventIsMatched
    <3>2. PICK l \in s.matches : l.ref = r /\ l.component = "fee"
      BY <3>1 DEF ExplainedComponents
    <3>3. \A j \in s.matches : j.ref = r => j \in {k, l}
      BY <1>4, <2>1, <2>2, <3>2
    <3>4. k.row # l.row
      BY <1>4, <2>1, <3>2
    <3>5. Of = {k.row, l.row}
      BY <1>6, <1>7, <2>1, <3>2, <3>3
    <3>6. RowAmounts[l.row] = -ledger[r].fee
      BY <1>7, <1>8, <3>2
    <3>7. SumOf(RowAmounts, {k.row, l.row}) = RowAmounts[k.row] + RowAmounts[l.row]
      <4>1. RowAmounts[k.row] \in Int /\ RowAmounts[l.row] \in Int
        BY <1>10, <2>3, <3>6
      <4> QED BY <3>4, <4>1, SumOfFew
    <3> QED BY <1>3, <1>10, <2>3, <3>5, <3>6, <3>7
  <2> QED BY <2>4, <2>5
<1> QED BY <1>9, <1>11, <1>12 DEF EventIsMatched

\* So do the rows of a statement without blocker add up to the movement of its interval.
LEMMA CloseExplains ==
    ASSUME StatementsAssumption, StatementTables, EntriesCancel, MatchesFit,
           NEW i \in DOMAIN sessions, CanClose(i)
    PROVE  SumOf(RowAmounts, sessions[i].rows)
           = Moved(ledger, sessions[i].start, sessions[i].cutoff)
<1> DEFINE s == sessions[i]
           All == Between(ledger, s.start, s.cutoff)
           Now == CurrentEvents(s)
<1>1. s \in SessionType /\ s.rows \subseteq StatementRows /\ IsFiniteSet(s.rows)
  <2>1. s \in SessionType
    BY ElementOfSeq, LenProperties DEF StatementTables
  <2> QED BY <2>1 DEF SessionType, StatementRows, StatementsAssumption
<1>2. All \subseteq Recorded /\ Now \subseteq All /\ IsFiniteSet(All) /\ IsFiniteSet(Now)
      /\ IsFiniteSet(All \ Now)
  <2>1. All \subseteq Recorded /\ Now \subseteq All
    BY DEF Between, Recorded, CurrentEvents, InCoverage
  <2> QED BY <2>1, FS_Subset DEF StatementTables
<1>3. \A r \in All : LinesIn(ledger)[r] \in Int
  BY DEF Between, LinesIn, StatementTables, EntryType
<1>4. \A r \in All \ Now : LinesIn(ledger)[r] = 0
  <2>1. ASSUME NEW r \in All \ Now PROVE LinesIn(ledger)[r] = LineSum(r) /\ Corrected(r)
    BY <2>1 DEF Between, CurrentEvents, InCoverage, LinesIn, LineSum, Recorded
  <2> QED BY <1>2, <2>1 DEF EntriesCancel
<1>5. SumOf(LinesIn(ledger), All) = SumOf(LinesIn(ledger), Now)
  <2>1. Now \cup (All \ Now) = All /\ Now \cap (All \ Now) = {}
    BY <1>2
  <2> HIDE DEF All, Now
  <2>2. SumOf(LinesIn(ledger), Now \cup (All \ Now))
        = SumOf(LinesIn(ledger), Now) + SumOf(LinesIn(ledger), All \ Now)
    BY <1>2, <1>3, <2>1, SumOfParts
  <2>3. SumOf(LinesIn(ledger), All \ Now) = 0
    BY <1>2, <1>4, SumOfZeros
  <2>4. SumOf(LinesIn(ledger), Now) \in Int
    BY <1>2, <1>3, SumIsInt
  <2> QED BY <2>1, <2>2, <2>3, <2>4
<1>6. PICK h : h = [row \in s.rows |-> row.ref]
  OBVIOUS
<1>7. \A row \in s.rows : h[row] \in Now /\ RowAmounts[row] \in Int
  <2>1. ASSUME NEW row \in s.rows PROVE h[row] \in Now /\ RowAmounts[row] \in Int
    <3>1. PICK k \in s.matches : k.row = row /\ k.ref \in Now
      BY DEF CanClose
    <3>2. MatchFits(k) /\ k \in MatchType
      BY <1>1 DEF MatchesFit, SessionType
    <3>3. ledger[k.ref] \in EntryType
      BY <3>2 DEF MatchType, StatementTables
    <3>4. ComponentAmount(k.ref, k.component) \in Int
      BY <3>2, <3>3 DEF ComponentAmount, EntryType, MatchType, Components
    <3> QED BY <1>1, <1>6, <3>1, <3>2, <3>4 DEF MatchFits, RowAmounts
  <2> QED BY <2>1
<1>8. \A r \in Now : SumOf(RowAmounts, {row \in s.rows : h[row] = r}) = LinesIn(ledger)[r]
  <2>1. ASSUME NEW r \in Now
        PROVE  SumOf(RowAmounts, {row \in s.rows : h[row] = r}) = LinesIn(ledger)[r]
    <3>1. {row \in s.rows : h[row] = r} = {row \in s.rows : row.ref = r}
      BY <1>6
    <3> QED BY <2>1, <3>1, MatchedRowsAddUp
  <2> QED BY <2>1
<1>9. SumOf(RowAmounts, s.rows) = SumOf(LinesIn(ledger), Now)
  <2>1. \A r \in Now : LinesIn(ledger)[r] \in Int
    BY <1>2, <1>3
  <2> HIDE DEF Now
  <2> QED BY <1>1, <1>2, <1>7, <1>8, <2>1, SumOfGroups
<1> QED BY <1>5, <1>9 DEF Moved
-----------------------------------------------------------------------------
(* The steps.                                                              *)

\* Flagging changes the flag alone.
LEMMA FlaggedSessions ==
    ASSUME StatementTables, SessionsShown, NEW at \in Nat, sessions' = FlagLate(sessions, at)
    PROVE  /\ sessions' \in Seq(SessionType) /\ DOMAIN sessions' = DOMAIN sessions
           /\ \A i \in DOMAIN sessions :
                  /\ sessions'[i] = [sessions[i] EXCEPT !.review = sessions'[i].review]
                  /\ sessions'[i].review <=> \/ sessions[i].review
                                             \/ sessions[i].closed /\ sessions[i].cutoff >= at
           /\ LiveCloses' = LiveCloses
           /\ GoodCloses' = {i \in GoodCloses : sessions[i].cutoff < at}
<1>1. DOMAIN sessions = 1 .. Len(sessions) /\ Len(sessions) \in Nat
      /\ \A i \in DOMAIN sessions : sessions[i] \in SessionType
  BY LenProperties, ElementOfSeq DEF StatementTables
<1>2. DOMAIN sessions' = DOMAIN sessions
  BY DEF FlagLate
<1>3. ASSUME NEW i \in DOMAIN sessions
      PROVE  /\ sessions'[i] = [sessions[i] EXCEPT !.review = sessions'[i].review]
             /\ sessions'[i].review <=> \/ sessions[i].review
                                        \/ sessions[i].closed /\ sessions[i].cutoff >= at
             /\ sessions'[i] \in SessionType
  <2>1. sessions'[i] = [sessions[i] EXCEPT
            !.review = sessions[i].review \/ (sessions[i].closed /\ sessions[i].cutoff >= at)]
    BY DEF FlagLate
  <2>2. sessions[i] \in SessionType
    BY <1>1
  <2>3. (sessions[i].review \/ (sessions[i].closed /\ sessions[i].cutoff >= at)) \in BOOLEAN
    OBVIOUS
  <2>4. sessions'[i].review
        = (sessions[i].review \/ (sessions[i].closed /\ sessions[i].cutoff >= at))
    BY <2>1, <2>2 DEF SessionType
  <2>5. sessions'[i] = [sessions[i] EXCEPT !.review = sessions'[i].review]
    BY <2>1, <2>4
  <2> HIDE <2>1
  <2>6. sessions'[i] \in SessionType
    BY <2>2, <2>3, <2>4, <2>5 DEF SessionType
  <2> QED BY <2>4, <2>5, <2>6
<1>4. sessions' \in Seq(SessionType)
  <2>1. sessions' = [i \in 1 .. Len(sessions) |-> sessions'[i]]
    BY <1>1 DEF FlagLate
  <2> QED BY <1>1, <1>3, <2>1
<1>5. \A i \in DOMAIN sessions : /\ sessions'[i].closed = sessions[i].closed
                                 /\ sessions'[i].status = sessions[i].status
                                 /\ sessions[i].cutoff \in Nat
  BY <1>1, <1>3 DEF SessionType
<1>6. LiveCloses' = LiveCloses
  BY <1>2, <1>5 DEF LiveCloses
<1>7. GoodCloses' = {i \in GoodCloses : sessions[i].cutoff < at}
  <2>1. \A i \in LiveCloses : i \in DOMAIN sessions /\ sessions[i].closed
    BY DEF LiveCloses
  <2>2. \A i \in LiveCloses : ~sessions'[i].review
                                <=> ~sessions[i].review /\ sessions[i].cutoff < at
    <3>1. ASSUME NEW i \in LiveCloses
          PROVE  ~sessions'[i].review <=> ~sessions[i].review /\ sessions[i].cutoff < at
      <4>1. sessions[i].closed /\ sessions[i].cutoff \in Nat
        BY <1>5, <2>1
      <4>2. sessions'[i].review <=> sessions[i].review \/ sessions[i].cutoff >= at
        BY <1>3, <2>1, <4>1
      <4>3. sessions[i].cutoff < at <=> ~(sessions[i].cutoff >= at)
        BY <4>1
      <4> HIDE DEF FlagLate
      <4> QED BY <4>2, <4>3
    <3> QED BY <3>1
  <2> QED BY <1>6, <2>2 DEF GoodCloses
<1> QED BY <1>2, <1>3, <1>4, <1>6, <1>7

\* What a flag leaves good is untouched by what happened at its time or later.
LEMMA FlagKeepsCloses ==
    ASSUME StatementsInv, NEW at \in Nat, sessions' = FlagLate(sessions, at),
           UNCHANGED openings,
           \A from, to \in Nat : to < at => Moved(ledger', from, to) = Moved(ledger, from, to)
    PROVE  /\ sessions' \in Seq(SessionType) /\ SessionsShown'
           /\ OneCloseAtACutoff' /\ ClosesAgree' /\ CoverageIsAnchored'
<1>1. /\ sessions' \in Seq(SessionType) /\ DOMAIN sessions' = DOMAIN sessions
      /\ LiveCloses' = LiveCloses
      /\ GoodCloses' = {i \in GoodCloses : sessions[i].cutoff < at}
      /\ \A i \in DOMAIN sessions :
             /\ sessions'[i] = [sessions[i] EXCEPT !.review = sessions'[i].review]
             /\ sessions'[i].review <=> \/ sessions[i].review
                                        \/ sessions[i].closed /\ sessions[i].cutoff >= at
  BY FlaggedSessions DEF StatementsInv
<1>2. \A i \in DOMAIN sessions : sessions[i] \in SessionType
  BY ElementOfSeq, LenProperties DEF StatementsInv, StatementTables
<1>3. \A i \in DOMAIN sessions :
          /\ sessions'[i].start = sessions[i].start /\ sessions'[i].cutoff = sessions[i].cutoff
          /\ sessions'[i].actual = sessions[i].actual /\ sessions'[i].rows = sessions[i].rows
          /\ sessions'[i].status = sessions[i].status /\ sessions'[i].closed = sessions[i].closed
          /\ sessions[i].start \in Nat /\ sessions[i].cutoff \in Nat
  BY <1>1, <1>2 DEF SessionType
<1>4. ActiveOpening' = ActiveOpening /\ openings' = openings
  BY DEF ActiveOpening
<1>5. GoodCloses \subseteq LiveCloses /\ LiveCloses \subseteq DOMAIN sessions
  BY DEF GoodCloses, LiveCloses
<1>6. SessionsShown'
  <2>1. ASSUME NEW i \in DOMAIN sessions'
        PROVE  /\ sessions'[i].closed <=> sessions'[i].status \in {"reconciled", "superseded"}
               /\ sessions'[i].review => sessions'[i].closed
               /\ sessions'[i].start <= sessions'[i].cutoff
    BY <1>1, <1>3 DEF StatementsInv, SessionsShown
  <2> QED BY <2>1 DEF SessionsShown
<1>7. OneCloseAtACutoff'
  BY <1>1, <1>3, <1>5 DEF StatementsInv, OneCloseAtACutoff
<1>8. ClosesAgree'
  <2>1. ASSUME NEW i \in GoodCloses, sessions[i].cutoff < at PROVE Agrees(sessions[i])'
    <3>1. Agrees(sessions[i]) /\ i \in DOMAIN sessions
      BY <1>5 DEF StatementsInv, ClosesAgree
    <3>2. ActiveOpening # 0 /\ openings[ActiveOpening].cutoff \in Nat
      BY <3>1, ActiveIsOpening DEF StatementsInv, Agrees, Available, OpeningType
    <3>3. /\ Moved(ledger', sessions[i].start, sessions[i].cutoff)
             = Moved(ledger, sessions[i].start, sessions[i].cutoff)
          /\ Moved(ledger', openings[ActiveOpening].cutoff, sessions[i].cutoff)
             = Moved(ledger, openings[ActiveOpening].cutoff, sessions[i].cutoff)
      BY <1>3, <2>1, <3>1, <3>2
    <3> QED BY <1>3, <1>4, <3>1, <3>3 DEF Agrees, Available
  <2> QED BY <1>1, <2>1 DEF ClosesAgree
<1>9. CoverageIsAnchored'
  <2>1. ASSUME NEW i \in GoodCloses, sessions[i].cutoff < at
        PROVE  \/ sessions'[i].start = openings'[ActiveOpening'].cutoff
               \/ \E j \in GoodCloses' \ {i} : sessions'[j].cutoff = sessions'[i].start
    <3>1. i \in DOMAIN sessions
      BY <1>5
    <3>2. CASE sessions[i].start = openings[ActiveOpening].cutoff
      BY <1>3, <1>4, <3>1, <3>2
    <3>3. CASE \E j \in GoodCloses \ {i} : sessions[j].cutoff = sessions[i].start
      <4>1. PICK j \in GoodCloses \ {i} : sessions[j].cutoff = sessions[i].start
        BY <3>3
      <4>2. j \in DOMAIN sessions
        BY <1>5
      <4>3. sessions[i].start <= sessions[i].cutoff
        BY <3>1 DEF StatementsInv, SessionsShown
      <4>4. sessions[j].cutoff < at
        BY <1>3, <2>1, <3>1, <4>1, <4>3
      <4> QED BY <1>1, <1>3, <3>1, <4>1, <4>2, <4>4
    <3> QED BY <3>2, <3>3 DEF StatementsInv, CoverageIsAnchored
  <2> QED BY <1>1, <2>1 DEF CoverageIsAnchored
<1> QED BY <1>1, <1>6, <1>7, <1>8, <1>9

\* Steps that touch neither a close nor the movements leave the closes true.
LEMMA SameCloses ==
    ASSUME StatementsInv, UNCHANGED ledger, ActiveOpening' = ActiveOpening,
           ActiveOpening # 0 => openings'[ActiveOpening] = openings[ActiveOpening],
           LiveCloses' = LiveCloses,
           \A i \in LiveCloses : sessions'[i] = sessions[i]
    PROVE  OneCloseAtACutoff' /\ ClosesAgree' /\ CoverageIsAnchored'
<1>1. GoodCloses' = GoodCloses /\ GoodCloses \subseteq LiveCloses
  BY DEF GoodCloses
<1>2. OneCloseAtACutoff'
  BY DEF StatementsInv, OneCloseAtACutoff
<1>3. ASSUME NEW i \in GoodCloses
      PROVE  /\ Agrees(sessions[i])'
             /\ \/ sessions'[i].start = openings'[ActiveOpening'].cutoff
                \/ \E j \in GoodCloses' \ {i} : sessions'[j].cutoff = sessions'[i].start
  <2>1. Agrees(sessions[i]) /\ sessions'[i] = sessions[i]
    BY <1>1 DEF StatementsInv, ClosesAgree
  <2>2. ActiveOpening # 0
    BY <2>1 DEF Agrees, Available
  <2>3. openings'[ActiveOpening'] = openings[ActiveOpening]
    BY <2>2
  <2>4. Agrees(sessions[i])'
    BY <2>1, <2>2, <2>3 DEF Agrees, Available
  <2>5. \/ sessions[i].start = openings[ActiveOpening].cutoff
        \/ \E j \in GoodCloses \ {i} : sessions[j].cutoff = sessions[i].start
    BY DEF StatementsInv, CoverageIsAnchored
  <2> QED BY <1>1, <2>1, <2>3, <2>4, <2>5
<1> QED BY <1>1, <1>2, <1>3 DEF ClosesAgree, CoverageIsAnchored

\* A session that closes, in place of the close of its interval or where none is, becomes
\* the close of its cutoff; what began where that one ended begins where this one does.
LEMMA NewCloseStands ==
    ASSUME StatementsAssumption, StatementsInv, UNCHANGED <<openings, ledger>>,
           NEW i \in DOMAIN sessions, ~sessions[i].closed, CanClose(i),
           NEW P \in SUBSET LiveCloses,
           \A p \in P : /\ sessions[p].cutoff = sessions[i].cutoff
                        /\ sessions[p].start = sessions[i].start,
           \A j \in LiveCloses \ P : sessions[j].cutoff # sessions[i].cutoff,
           LiveCloses' = (LiveCloses \ P) \cup {i},
           \A j \in LiveCloses \ P : sessions'[j] = sessions[j],
           sessions'[i].start = sessions[i].start, sessions'[i].cutoff = sessions[i].cutoff,
           sessions'[i].actual = sessions[i].actual, sessions'[i].rows = sessions[i].rows,
           sessions'[i].review = sessions[i].review
    PROVE  OneCloseAtACutoff' /\ ClosesAgree' /\ CoverageIsAnchored'
<1>1. i \notin LiveCloses /\ GoodCloses \subseteq LiveCloses /\ LiveCloses \subseteq DOMAIN sessions
  BY DEF LiveCloses, GoodCloses
<1>2. ~sessions[i].review
  BY DEF StatementsInv, SessionsShown
<1>3. GoodCloses' = (GoodCloses \ P) \cup {i}
  BY <1>1, <1>2 DEF GoodCloses
<1>4. ActiveOpening' = ActiveOpening /\ openings' = openings /\ ledger' = ledger
  BY DEF ActiveOpening
<1>5. Available(sessions[i]) /\ Balances(sessions[i]) /\ Anchored(i)
  BY DEF CanClose
<1>6. OneCloseAtACutoff'
  <2>1. \A j \in LiveCloses' : j = i \/ (j \in LiveCloses \ P /\ sessions'[j] = sessions[j])
    OBVIOUS
  <2>2. \A j, k \in LiveCloses \ P : sessions[j].cutoff = sessions[k].cutoff => j = k
    BY DEF StatementsInv, OneCloseAtACutoff
  <2>3. ASSUME NEW j \in LiveCloses', NEW k \in LiveCloses',
               sessions'[j].cutoff = sessions'[k].cutoff
        PROVE  j = k
    BY <2>1, <2>2, <2>3
  <2> QED BY <2>3 DEF OneCloseAtACutoff
\* A close of no length begins at the opening.
<1>7. ASSUME NEW j \in GoodCloses, sessions[j].start = sessions[j].cutoff
      PROVE  sessions[j].start = openings[ActiveOpening].cutoff
  BY <1>7 DEF StatementsInv, ClosesAgree, Agrees
<1>8. \A j \in DOMAIN sessions \ {i} : sessions[j].status = "reconciled" /\ ~sessions[j].review
                                       => j \in GoodCloses
  BY DEF StatementsInv, SessionsShown, GoodCloses, LiveCloses
<1>9. ASSUME sessions[i].start # openings[ActiveOpening].cutoff
      PROVE  \E j \in GoodCloses \ P : sessions[j].cutoff = sessions[i].start
  <2>1. PICK j \in DOMAIN sessions \ {i} :
            /\ sessions[j].status = "reconciled" /\ ~sessions[j].review
            /\ sessions[j].cutoff = sessions[i].start
    BY <1>5, <1>9 DEF Anchored
  <2>2. j \in GoodCloses
    BY <1>8, <2>1
  <2>3. j \notin P
    BY <1>7, <1>9, <2>1, <2>2
  <2> QED BY <2>1, <2>2, <2>3
<1>10. sessions[i].start = sessions[i].cutoff
           => sessions[i].start = openings[ActiveOpening].cutoff
  <2>1. ASSUME sessions[i].start = sessions[i].cutoff,
               sessions[i].start # openings[ActiveOpening].cutoff
        PROVE  FALSE
    BY <1>1, <1>9, <2>1
  <2> QED BY <2>1
<1>11. Agrees(sessions[i])
  <2>1. SumOf(RowAmounts, sessions[i].rows)
        = Moved(ledger, sessions[i].start, sessions[i].cutoff)
    BY CloseExplains DEF StatementsInv
  <2>2. sessions[i].actual = openings[ActiveOpening].amount
                             + Moved(ledger, openings[ActiveOpening].cutoff, sessions[i].cutoff)
    BY <1>5, MovedIsSum DEF Balances
  <2> QED BY <1>5, <1>10, <2>1, <2>2 DEF Agrees
<1>12. ClosesAgree'
  <2>1. Agrees(sessions[i])'
    BY <1>4, <1>11 DEF Agrees, Available
  <2>2. ASSUME NEW j \in GoodCloses \ P PROVE Agrees(sessions[j])'
    <3>1. Agrees(sessions[j]) /\ sessions'[j] = sessions[j]
      BY <1>1 DEF StatementsInv, ClosesAgree
    <3> QED BY <1>4, <3>1 DEF Agrees, Available
  <2>3. ASSUME NEW j \in GoodCloses' PROVE Agrees(sessions[j])'
    BY <1>3, <2>1, <2>2
  <2> QED BY <2>3 DEF ClosesAgree
<1>13. CoverageIsAnchored'
  <2>1. ASSUME NEW j \in GoodCloses'
        PROVE  \/ sessions'[j].start = openings'[ActiveOpening'].cutoff
               \/ \E k \in GoodCloses' \ {j} : sessions'[k].cutoff = sessions'[j].start
    <3>1. CASE j = i
      <4>1. CASE sessions[i].start = openings[ActiveOpening].cutoff
        BY <1>4, <3>1, <4>1
      <4>2. CASE sessions[i].start # openings[ActiveOpening].cutoff
        <5>1. PICK k \in GoodCloses \ P : sessions[k].cutoff = sessions[i].start
          BY <1>9, <4>2
        <5>2. sessions'[k] = sessions[k] /\ k \in GoodCloses' /\ k # i
          BY <1>1, <1>3, <5>1
        <5> QED BY <3>1, <5>1, <5>2
      <4> QED BY <4>1, <4>2
    <3>2. CASE j # i
      <4>1. j \in GoodCloses \ P /\ sessions'[j] = sessions[j]
        BY <1>1, <1>3, <3>2
      <4>2. CASE sessions[j].start = openings[ActiveOpening].cutoff
        BY <1>4, <4>1, <4>2
      <4>3. CASE \E k \in GoodCloses \ {j} : sessions[k].cutoff = sessions[j].start
        <5>1. PICK k \in GoodCloses \ {j} : sessions[k].cutoff = sessions[j].start
          BY <4>3
        <5>2. CASE k \in P
          <6>1. sessions'[i].cutoff = sessions'[j].start /\ i \in GoodCloses'
            BY <1>3, <4>1, <5>1, <5>2
          <6> QED BY <3>2, <6>1
        <5>3. CASE k \notin P
          <6>1. sessions'[k] = sessions[k] /\ k \in GoodCloses'
            BY <1>1, <1>3, <5>3
          <6> QED BY <4>1, <5>1, <6>1
        <5> QED BY <5>2, <5>3
      <4> QED BY <4>1, <4>2, <4>3 DEF StatementsInv, CoverageIsAnchored
    <3> QED BY <3>1, <3>2
  <2> QED BY <2>1 DEF CoverageIsAnchored
<1> QED BY <1>6, <1>12, <1>13

\* Matches stay fit while their movements keep amount and fee.
LEMMA MatchesStay ==
    ASSUME MatchesFit,
           \A r \in Recorded : /\ r \in Recorded'
                               /\ ledger'[r].amount = ledger[r].amount
                               /\ ledger'[r].fee = ledger[r].fee,
           \A i \in DOMAIN sessions' :
               \/ sessions'[i].matches = {}
               \/ /\ i \in DOMAIN sessions /\ sessions'[i].matches = sessions[i].matches
                  /\ sessions'[i].rows = sessions[i].rows
    PROVE  MatchesFit'
<1>1. ASSUME NEW k, MatchFits(k) PROVE MatchFits(k)'
  BY <1>1 DEF MatchFits, ComponentAmount
<1>2. ASSUME NEW i \in DOMAIN sessions'
      PROVE  /\ \A k \in sessions'[i].matches : k.row \in sessions'[i].rows /\ MatchFits(k)'
             /\ \A k, l \in sessions'[i].matches :
                    /\ k.row = l.row => k = l
                    /\ k.ref = l.ref /\ k # l => k.component # l.component
                                                 /\ "total" \notin {k.component, l.component}
  <2>1. CASE sessions'[i].matches = {}
    BY <2>1
  <2>2. CASE /\ i \in DOMAIN sessions /\ sessions'[i].matches = sessions[i].matches
             /\ sessions'[i].rows = sessions[i].rows
    <3>1. /\ \A k \in sessions[i].matches : k.row \in sessions[i].rows /\ MatchFits(k)
          /\ \A k, l \in sessions[i].matches :
                 /\ k.row = l.row => k = l
                 /\ k.ref = l.ref /\ k # l => k.component # l.component
                                              /\ "total" \notin {k.component, l.component}
      BY <2>2 DEF MatchesFit
    <3> QED BY <1>1, <2>2, <3>1
  <2> QED BY <2>1, <2>2
<1> QED BY <1>2 DEF MatchesFit

LEMMA StatementsStart ==
    ASSUME StatementsAssumption, StatementsInit
    PROVE  StatementsInv
<1>1. openings = <<>> /\ sessions = <<>> /\ DOMAIN openings = {} /\ DOMAIN sessions = {}
  BY DEF StatementsInit
<1>2. Recorded = {} /\ IsFiniteSet(Recorded)
  <2>1. Recorded = {}
    BY DEF StatementsInit, Recorded, NoEvent
  <2> QED BY <2>1, FS_EmptySet
<1>3. StatementTables
  <2>1. ledger \in [References -> EntryType]
    BY DEF StatementsInit, NoEvent, EntryType
  <2> QED BY <1>1, <1>2, <2>1, EmptySeq DEF StatementTables
<1>4. OpeningsInOrder /\ EntriesCancel /\ SessionsShown /\ MatchesFit
  BY <1>1, <1>2 DEF OpeningsInOrder, EntriesCancel, SessionsShown, MatchesFit
<1>5. LiveCloses = {} /\ GoodCloses = {}
  BY <1>1 DEF LiveCloses, GoodCloses
<1>6. OneCloseAtACutoff /\ ClosesAgree /\ CoverageIsAnchored
  BY <1>5 DEF OneCloseAtACutoff, ClosesAgree, CoverageIsAnchored
<1> QED BY <1>3, <1>4, <1>6 DEF StatementsInv

\* The active opening is kept when its row is.
LEMMA OpeningKeptInOrder ==
    ASSUME OpeningsInOrder',
           ActiveOpening # 0 =>
               \E i \in DOMAIN openings' : /\ openings'[i].status = "active"
                                           /\ openings'[i].cutoff = openings[ActiveOpening].cutoff
    PROVE  OpeningKept
BY DEF OpeningsInOrder, OpeningKept

LEMMA PrepareKeeps ==
    ASSUME StatementsAssumption, StatementsInv, NEW c \in Counts, PrepareOpening(c)
    PROVE  StatementsInv' /\ OpeningKept
<1> DEFINE n == Len(openings) + 1
           new == [cutoff |-> c.cutoff, amount |-> c.amount, status |-> "draft",
                   supersedes |-> ActiveOpening]
<1>1. /\ openings \in Seq(OpeningType) /\ DOMAIN openings = 1 .. Len(openings)
      /\ Len(openings) \in Nat
      /\ \A i \in DOMAIN openings : openings[i] \in OpeningType
  BY LenProperties, ElementOfSeq DEF StatementsInv, StatementTables
<1>2. ActiveOpening \in Nat /\ ActiveOpening < n
      /\ (ActiveOpening # 0 => ActiveOpening \in DOMAIN openings
                               /\ openings[ActiveOpening].status = "active"
                               /\ openings[ActiveOpening].cutoff = c.cutoff)
  BY <1>1, ActiveIsOpening DEF StatementsInv, PrepareOpening
<1>3. new \in OpeningType
  BY <1>2 DEF OpeningType, StatementsAssumption
<1>4. /\ openings' \in Seq(OpeningType) /\ Len(openings') = n
      /\ DOMAIN openings' = DOMAIN openings \cup {n} /\ n \notin DOMAIN openings
      /\ openings'[n] = new /\ \A i \in DOMAIN openings : openings'[i] = openings[i]
  <2>1. openings' = Append(openings, new)
    BY DEF PrepareOpening
  <2> HIDE DEF new
  <2> QED BY <1>1, <1>3, <2>1, AppendProperties, LenProperties
<1>5. {i \in DOMAIN openings' : openings'[i].status = "active"}
      = {i \in DOMAIN openings : openings[i].status = "active"}
  BY <1>4
<1>6. ActiveOpening' = ActiveOpening
  <2> DEFINE A == {i \in DOMAIN openings : openings[i].status = "active"}
             B == {i \in DOMAIN openings' : openings'[i].status = "active"}
  <2>1. ActiveOpening = IF A = {} THEN 0 ELSE Pick(A)
    BY DEF ActiveOpening, Pick
  <2>2. ActiveOpening' = IF B = {} THEN 0 ELSE Pick(B)
    BY DEF ActiveOpening, Pick
  <2>3. B = A
    BY <1>5
  <2> HIDE DEF A, B
  <2> QED BY <2>1, <2>2, <2>3
<1>7. UNCHANGED <<ledger, sessions>> /\ LiveCloses' = LiveCloses
  BY DEF PrepareOpening, LiveCloses
<1>8. OneCloseAtACutoff' /\ ClosesAgree' /\ CoverageIsAnchored'
  BY <1>2, <1>4, <1>6, <1>7, SameCloses
<1>9. OpeningsInOrder'
  <2>0. \A i \in DOMAIN openings : openings[i].supersedes # 0
                                   => openings[i].supersedes \in DOMAIN openings
    BY <1>1 DEF StatementsInv, OpeningsInOrder, OpeningType
  <2>1. ASSUME NEW i \in DOMAIN openings', openings'[i].supersedes # 0
        PROVE  openings'[openings'[i].supersedes].cutoff = openings'[i].cutoff
    <3>1. CASE i = n
      BY <1>2, <1>4, <2>1, <3>1
    <3>2. CASE i \in DOMAIN openings
      <4>1. openings[i].supersedes \in DOMAIN openings
        BY <1>4, <2>0, <2>1, <3>2
      <4> QED BY <1>4, <2>1, <3>2, <4>1 DEF StatementsInv, OpeningsInOrder
    <3> QED BY <1>4, <3>1, <3>2
  <2>2. \A i \in DOMAIN openings' : openings'[i].supersedes < i
    BY <1>2, <1>4 DEF StatementsInv, OpeningsInOrder
  <2>3. \A i, j \in DOMAIN openings' :
            openings'[i].status = "active" /\ openings'[j].status = "active" => i = j
    BY <1>4 DEF StatementsInv, OpeningsInOrder
  <2> QED BY <2>1, <2>2, <2>3 DEF OpeningsInOrder
<1>10. Recorded' = Recorded /\ EntriesCancel' /\ SessionsShown'
  BY <1>7 DEF StatementsInv, Recorded, EntriesCancel, Corrected, LineSum, SessionsShown
<1>11. MatchesFit'
  BY <1>7, <1>10, MatchesStay DEF StatementsInv
<1>12. StatementTables'
  BY <1>4, <1>7, <1>10 DEF StatementsInv, StatementTables
<1>13. OpeningKept
  BY <1>2, <1>4, <1>9, OpeningKeptInOrder
<1> QED BY <1>8, <1>9, <1>10, <1>11, <1>12, <1>13 DEF StatementsInv

\* The first opening finds no close, a later one flags every close that stands.
LEMMA ActivateKeeps ==
    ASSUME StatementsAssumption, StatementsInv, NEW i \in DOMAIN openings, ActivateOpening(i)
    PROVE  StatementsInv' /\ OpeningKept
<1>1. /\ openings \in Seq(OpeningType) /\ DOMAIN openings = 1 .. Len(openings)
      /\ Len(openings) \in Nat
      /\ \A j \in DOMAIN openings : openings[j] \in OpeningType
  BY LenProperties, ElementOfSeq DEF StatementsInv, StatementTables
<1>2. /\ openings[i].status = "draft" /\ openings[i].supersedes = ActiveOpening
      /\ sessions' = FlagLate(sessions, openings[i].cutoff) /\ UNCHANGED ledger
      /\ openings[i].cutoff \in Nat
  BY <1>1 DEF ActivateOpening, DraftIsReady, OpeningType
<1>3. ActiveOpening # 0 => /\ ActiveOpening \in DOMAIN openings /\ ActiveOpening # i
                           /\ openings[ActiveOpening].status = "active"
                           /\ openings[ActiveOpening].cutoff = openings[i].cutoff
  BY <1>2, ActiveIsOpening DEF StatementsInv, OpeningsInOrder
<1>4. /\ DOMAIN openings' = DOMAIN openings
      /\ \A j \in DOMAIN openings :
             openings'[j] = [openings[j] EXCEPT !.status =
                                IF j = i THEN "active"
                                ELSE IF j = ActiveOpening THEN "superseded"
                                ELSE openings[j].status]
  <2>1. openings' = [j \in DOMAIN openings |->
                        IF j = i THEN [openings[j] EXCEPT !.status = "active"]
                        ELSE IF j = ActiveOpening
                        THEN [openings[j] EXCEPT !.status = "superseded"]
                        ELSE openings[j]]
    BY DEF ActivateOpening
  <2>2. ASSUME NEW j \in DOMAIN openings
        PROVE  openings[j] = [openings[j] EXCEPT !.status = openings[j].status]
    BY <1>1 DEF OpeningType
  <2> QED BY <2>1, <2>2
<1>5. \A j \in DOMAIN openings :
          /\ openings'[j] \in OpeningType
          /\ openings'[j].cutoff = openings[j].cutoff
          /\ openings'[j].supersedes = openings[j].supersedes
          /\ openings'[j].status = IF j = i THEN "active"
                                   ELSE IF j = ActiveOpening THEN "superseded"
                                   ELSE openings[j].status
  <2>1. ASSUME NEW j \in DOMAIN openings
        PROVE  /\ openings'[j] \in OpeningType
               /\ openings'[j].cutoff = openings[j].cutoff
               /\ openings'[j].supersedes = openings[j].supersedes
               /\ openings'[j].status = IF j = i THEN "active"
                                        ELSE IF j = ActiveOpening THEN "superseded"
                                        ELSE openings[j].status
    <3>1. PICK st : st = IF j = i THEN "active"
                         ELSE IF j = ActiveOpening THEN "superseded" ELSE openings[j].status
      OBVIOUS
    <3>2. openings[j] \in OpeningType /\ st \in {"draft", "active", "superseded"}
      BY <1>1, <3>1 DEF OpeningType
    <3>3. openings'[j] = [openings[j] EXCEPT !.status = st]
      BY <1>4, <3>1
    <3>4. /\ openings'[j] \in OpeningType
          /\ openings'[j].cutoff = openings[j].cutoff
          /\ openings'[j].supersedes = openings[j].supersedes
          /\ openings'[j].status = st
      BY <3>2, <3>3 DEF OpeningType
    <3> QED BY <3>1, <3>4
  <2> QED BY <2>1
<1>6. openings' \in Seq(OpeningType)
  <2>1. openings' = [j \in 1 .. Len(openings) |-> openings'[j]]
    BY <1>1 DEF ActivateOpening
  <2> QED BY <1>1, <1>5, <2>1
<1>7. \A j \in DOMAIN openings : openings'[j].status = "active" <=> j = i
  <2>1. ASSUME NEW j \in DOMAIN openings, openings[j].status = "active"
        PROVE  j = ActiveOpening
    BY <1>3, <2>1, ActiveIsOpening DEF StatementsInv, OpeningsInOrder
  <2> QED BY <1>5, <2>1
<1>8. OpeningsInOrder'
  <2>1. \A j \in DOMAIN openings : openings[j].supersedes # 0
                                   => openings[j].supersedes \in DOMAIN openings
    BY <1>1 DEF StatementsInv, OpeningsInOrder, OpeningType
  <2>2. ASSUME NEW j \in DOMAIN openings
        PROVE  /\ openings'[j].supersedes < j
               /\ openings'[j].supersedes # 0
                      => openings'[openings'[j].supersedes].cutoff = openings'[j].cutoff
    BY <1>5, <2>1 DEF StatementsInv, OpeningsInOrder
  <2> QED BY <1>4, <1>7, <2>2 DEF OpeningsInOrder
<1>9. ASSUME NEW j \in GoodCloses
      PROVE  sessions[j].cutoff >= openings[i].cutoff
  BY <1>3 DEF StatementsInv, ClosesAgree, Agrees, Available
<1>10. /\ sessions' \in Seq(SessionType) /\ DOMAIN sessions' = DOMAIN sessions
       /\ LiveCloses' = LiveCloses
       /\ GoodCloses' = {j \in GoodCloses : sessions[j].cutoff < openings[i].cutoff}
       /\ \A j \in DOMAIN sessions :
              /\ sessions'[j] = [sessions[j] EXCEPT !.review = sessions'[j].review]
              /\ sessions'[j].review <=> \/ sessions[j].review
                                         \/ sessions[j].closed
                                            /\ sessions[j].cutoff >= openings[i].cutoff
  BY <1>2, FlaggedSessions DEF StatementsInv
<1>11. \A j \in DOMAIN sessions : sessions[j] \in SessionType
  BY LenProperties, ElementOfSeq DEF StatementsInv, StatementTables
<1>12. GoodCloses' = {}
  <2>1. \A j \in GoodCloses : j \in DOMAIN sessions /\ sessions[j].cutoff \in Nat
    BY <1>11 DEF GoodCloses, LiveCloses, SessionType
  <2> QED BY <1>2, <1>9, <1>10, <2>1
<1>13. \A j \in DOMAIN sessions :
           /\ sessions'[j].start = sessions[j].start /\ sessions'[j].cutoff = sessions[j].cutoff
           /\ sessions'[j].rows = sessions[j].rows /\ sessions'[j].matches = sessions[j].matches
           /\ sessions'[j].status = sessions[j].status /\ sessions'[j].closed = sessions[j].closed
  BY <1>10, <1>11 DEF SessionType
<1>14. OneCloseAtACutoff' /\ ClosesAgree' /\ CoverageIsAnchored'
  <2>1. LiveCloses \subseteq DOMAIN sessions
    BY DEF LiveCloses
  <2>2. OneCloseAtACutoff'
    BY <1>10, <1>13, <2>1 DEF StatementsInv, OneCloseAtACutoff
  <2> QED BY <1>12, <2>2 DEF ClosesAgree, CoverageIsAnchored
<1>15. SessionsShown'
  <2>1. ASSUME NEW j \in DOMAIN sessions'
        PROVE  /\ sessions'[j].closed <=> sessions'[j].status \in {"reconciled", "superseded"}
               /\ sessions'[j].review => sessions'[j].closed
               /\ sessions'[j].start <= sessions'[j].cutoff
    BY <1>10, <1>13 DEF StatementsInv, SessionsShown
  <2> QED BY <2>1 DEF SessionsShown
<1>16. Recorded' = Recorded /\ EntriesCancel'
  BY <1>2 DEF StatementsInv, Recorded, EntriesCancel, Corrected, LineSum
<1>17. MatchesFit'
  BY <1>2, <1>10, <1>13, <1>16, MatchesStay DEF StatementsInv
<1>18. StatementTables'
  BY <1>2, <1>6, <1>10, <1>16 DEF StatementsInv, StatementTables
<1>19. OpeningKept
  BY <1>3, <1>4, <1>5, <1>7, <1>8, OpeningKeptInOrder
<1> QED BY <1>8, <1>14, <1>15, <1>16, <1>17, <1>18, <1>19 DEF StatementsInv

LEMMA OpeningsStay ==
    ASSUME StatementsInv, UNCHANGED openings
    PROVE  OpeningsInOrder' /\ OpeningKept /\ ActiveOpening' = ActiveOpening
<1>1. OpeningsInOrder'
  BY DEF StatementsInv, OpeningsInOrder
<1>2. ActiveOpening # 0 =>
          \E i \in DOMAIN openings' : /\ openings'[i].status = "active"
                                      /\ openings'[i].cutoff = openings[ActiveOpening].cutoff
  BY ActiveIsOpening DEF StatementsInv
<1>3. ActiveOpening' = ActiveOpening
  BY DEF ActiveOpening
<1> QED BY <1>1, <1>2, <1>3, OpeningKeptInOrder

LEMMA LedgerStays ==
    ASSUME StatementsInv, UNCHANGED ledger
    PROVE  Recorded' = Recorded /\ EntriesCancel'
BY DEF StatementsInv, Recorded, EntriesCancel, Corrected, LineSum

\* A movement that is recorded or corrected flags every close it bears on.
LEMMA BookingKeeps ==
    ASSUME StatementsInv, NEW r \in References, NEW at \in Nat, NEW e \in EntryType,
           e.at = at, e.amount # 0, e.amount > 0 => e.fee = 0,
           e.correction # 0 => e.amount - e.fee + e.correction = 0,
           r \in Recorded => /\ ledger[r].at = at /\ ledger[r].amount = e.amount
                             /\ ledger[r].fee = e.fee,
           ledger' = [ledger EXCEPT ![r] = e],
           sessions' = FlagLate(sessions, at), UNCHANGED openings
    PROVE  StatementsInv' /\ OpeningKept
<1>1. ledger \in [References -> EntryType] /\ ledger' \in [References -> EntryType]
  BY DEF StatementsInv, StatementTables
<1>2. ledger'[r] = e /\ \A x \in References \ {r} : ledger'[x] = ledger[x]
  BY <1>1
<1>3. Recorded' = Recorded \cup {r}
  BY <1>2 DEF Recorded
<1>4. IsFiniteSet(Recorded')
  BY <1>3, FS_AddElement DEF StatementsInv, StatementTables
<1>5. EntriesCancel'
  <2>1. ASSUME NEW x \in Recorded'
        PROVE  /\ ledger'[x].amount > 0 => ledger'[x].fee = 0
               /\ ledger'[x].correction # 0
                      => ledger'[x].amount - ledger'[x].fee + ledger'[x].correction = 0
    <3>1. CASE x = r
      BY <1>2, <3>1
    <3>2. CASE x # r
      <4>1. x \in Recorded /\ ledger'[x] = ledger[x]
        BY <1>2, <1>3, <3>2 DEF Recorded
      <4> QED BY <4>1 DEF StatementsInv, EntriesCancel, Corrected, LineSum
    <3> QED BY <3>1, <3>2
  <2> QED BY <2>1 DEF EntriesCancel, Corrected, LineSum
<1>6. \A from, to \in Nat : to < at => Moved(ledger', from, to) = Moved(ledger, from, to)
  <2>1. ASSUME NEW from \in Nat, NEW to \in Nat, to < at
        PROVE  Moved(ledger', from, to) = Moved(ledger, from, to)
    <3>1. ledger[r].amount = 0 \/ ledger[r].at = at
      BY DEF Recorded
    <3>2. at \in Int /\ to \in Int /\ ledger'[r].at = at
          /\ \A x \in References \ {r} : ledger'[x] = ledger[x]
      BY <1>2
    <3>3. PICK book, next : book = ledger /\ next = ledger'
      OBVIOUS
    <3>4. /\ book[r].amount = 0 \/ book[r].at = at
          /\ next[r].at = at /\ \A x \in References \ {r} : next[x] = book[x]
      BY <3>1, <3>2, <3>3
    <3>5. Moved(next, from, to) = Moved(book, from, to)
      BY <2>1, <3>2, <3>4, LaterLeavesMoved
    <3> QED BY <3>3, <3>5
  <2> QED BY <2>1
<1>7. /\ sessions' \in Seq(SessionType) /\ SessionsShown'
      /\ OneCloseAtACutoff' /\ ClosesAgree' /\ CoverageIsAnchored'
  BY <1>6, FlagKeepsCloses
<1>8. MatchesFit'
  <2>1. \A x \in Recorded : /\ x \in Recorded' /\ ledger'[x].amount = ledger[x].amount
                            /\ ledger'[x].fee = ledger[x].fee
    BY <1>2, <1>3 DEF Recorded
  <2>2. /\ DOMAIN sessions' = DOMAIN sessions
        /\ \A i \in DOMAIN sessions :
               sessions'[i] = [sessions[i] EXCEPT !.review = sessions'[i].review]
    BY FlaggedSessions DEF StatementsInv
  <2>3. \A i \in DOMAIN sessions : sessions[i] \in SessionType
    BY LenProperties, ElementOfSeq DEF StatementsInv, StatementTables
  <2>4. \A i \in DOMAIN sessions' : /\ i \in DOMAIN sessions
                                    /\ sessions'[i].matches = sessions[i].matches
                                    /\ sessions'[i].rows = sessions[i].rows
    BY <2>2, <2>3 DEF SessionType
  <2> QED BY <2>1, <2>4, MatchesStay DEF StatementsInv
<1>9. StatementTables'
  BY <1>1, <1>4, <1>7 DEF StatementsInv, StatementTables
<1> QED BY <1>5, <1>7, <1>8, <1>9, OpeningsStay DEF StatementsInv

LEMMA RecordKeeps ==
    ASSUME StatementsAssumption, StatementsInv, NEW m \in Movements, RecordMovement(m)
    PROVE  StatementsInv' /\ OpeningKept
<1> DEFINE e == [at |-> m.at, amount |-> m.amount, fee |-> m.fee, correction |-> 0]
<1>1. m.at \in Nat /\ m.amount \in Int \ {0} /\ m.fee \in Nat /\ (m.amount > 0 => m.fee = 0)
  BY DEF StatementsAssumption
<1>2. e \in EntryType /\ m.ref \in References
  BY <1>1 DEF EntryType, References
<1>3. /\ m.ref \notin Recorded /\ ledger' = [ledger EXCEPT ![m.ref] = e]
      /\ sessions' = FlagLate(sessions, m.at) /\ UNCHANGED openings
  BY DEF RecordMovement
<1>4. e.at = m.at /\ e.amount = m.amount /\ e.fee = m.fee /\ e.correction = 0
  OBVIOUS
<1> HIDE DEF e
<1> QED BY <1>1, <1>2, <1>3, <1>4, BookingKeeps

LEMMA CorrectLedgerKeeps ==
    ASSUME StatementsAssumption, StatementsInv, NEW r \in References, CorrectLedger(r)
    PROVE  StatementsInv' /\ OpeningKept
<1>1. /\ r \in Recorded /\ ledger[r].correction = 0
      /\ sessions' = FlagLate(sessions, ledger[r].at) /\ UNCHANGED openings
      /\ ledger' = [ledger EXCEPT ![r].correction = CorrectionAmount(r)]
  BY DEF CorrectLedger, Corrected
<1>2. ledger[r] \in EntryType /\ ledger \in [References -> EntryType]
  BY DEF StatementsInv, StatementTables
<1>3. PICK e : e = [ledger[r] EXCEPT !.correction = CorrectionAmount(r)]
  OBVIOUS
<1>4. CorrectionAmount(r) = -(ledger[r].amount - ledger[r].fee) /\ CorrectionAmount(r) \in Int
  BY <1>1, <1>2 DEF CorrectionAmount, LineSum, EntryType
<1>5. /\ e \in EntryType /\ e.at = ledger[r].at /\ e.amount = ledger[r].amount
      /\ e.fee = ledger[r].fee /\ e.correction = CorrectionAmount(r)
  BY <1>2, <1>3, <1>4 DEF EntryType
<1>6. ledger' = [ledger EXCEPT ![r] = e]
  BY <1>1, <1>2, <1>3
<1>7. e.amount - e.fee + e.correction = 0
  BY <1>2, <1>4, <1>5 DEF EntryType
<1>8. e.amount # 0 /\ (e.amount > 0 => e.fee = 0) /\ ledger[r].at \in Nat
  BY <1>1, <1>2, <1>5 DEF StatementsInv, EntriesCancel, Recorded, EntryType
<1> QED BY <1>1, <1>5, <1>6, <1>7, <1>8, BookingKeeps

LEMMA ObserveKeeps ==
    ASSUME StatementsAssumption, StatementsInv, NEW st \in Statements, Observe(st)
    PROVE  StatementsInv' /\ OpeningKept
<1> DEFINE n == Len(sessions) + 1
           new == [start |-> st.start, cutoff |-> st.cutoff, actual |-> st.actual,
                   complete |-> st.complete, rows |-> st.rows, matches |-> {},
                   status |-> "in_progress", closed |-> FALSE, review |-> FALSE]
<1>1. sessions' = Append(sessions, new) /\ UNCHANGED <<openings, ledger>>
  BY DEF Observe
<1>2. new \in SessionType
  BY DEF SessionType, StatementsAssumption, Statuses
<1>3. /\ new.closed = FALSE /\ new.review = FALSE /\ new.status = "in_progress"
      /\ new.matches = {} /\ new.start = st.start /\ new.cutoff = st.cutoff
      /\ st.start <= st.cutoff
  BY DEF StatementsAssumption
<1> HIDE DEF new
<1>4. /\ sessions' \in Seq(SessionType) /\ DOMAIN sessions' = DOMAIN sessions \cup {n}
      /\ n \notin DOMAIN sessions
      /\ sessions'[n] = new /\ \A i \in DOMAIN sessions : sessions'[i] = sessions[i]
  BY <1>1, <1>2, AppendProperties, LenProperties DEF StatementsInv, StatementTables
<1>5. LiveCloses' = LiveCloses /\ LiveCloses \subseteq DOMAIN sessions
  BY <1>3, <1>4 DEF LiveCloses
<1>6. OneCloseAtACutoff' /\ ClosesAgree' /\ CoverageIsAnchored'
  BY <1>1, <1>4, <1>5, OpeningsStay, SameCloses
<1>7. SessionsShown'
  <2>1. ASSUME NEW i \in DOMAIN sessions'
        PROVE  /\ sessions'[i].closed <=> sessions'[i].status \in {"reconciled", "superseded"}
               /\ sessions'[i].review => sessions'[i].closed
               /\ sessions'[i].start <= sessions'[i].cutoff
    <3>1. CASE i = n
      BY <1>3, <1>4, <3>1
    <3>2. CASE i \in DOMAIN sessions
      BY <1>4, <3>2 DEF StatementsInv, SessionsShown
    <3> QED BY <1>4, <3>1, <3>2
  <2> QED BY <2>1 DEF SessionsShown
<1>8. Recorded' = Recorded /\ EntriesCancel' /\ ledger' = ledger
  BY <1>1, LedgerStays
<1>9. MatchesFit'
  <2>1. \A i \in DOMAIN sessions' :
            \/ sessions'[i].matches = {}
            \/ /\ i \in DOMAIN sessions /\ sessions'[i].matches = sessions[i].matches
               /\ sessions'[i].rows = sessions[i].rows
    BY <1>3, <1>4
  <2> QED BY <1>8, <2>1, MatchesStay DEF StatementsInv
<1>10. StatementTables'
  BY <1>1, <1>4, <1>8 DEF StatementsInv, StatementTables
<1> QED BY <1>1, <1>6, <1>7, <1>8, <1>9, <1>10, OpeningsStay DEF StatementsInv

\* A session that is not closed may change without touching a close.
LEMMA OpenSessionChanges ==
    ASSUME StatementsInv, UNCHANGED <<openings, ledger>>, NEW i \in DOMAIN sessions,
           NEW s \in SessionType, sessions' = [sessions EXCEPT ![i] = s],
           ~s.review, s.start = sessions[i].start, s.cutoff = sessions[i].cutoff,
           s.closed <=> s.status \in {"reconciled", "superseded"}
    PROVE  /\ sessions' \in Seq(SessionType) /\ DOMAIN sessions' = DOMAIN sessions
           /\ sessions'[i] = s /\ \A j \in DOMAIN sessions \ {i} : sessions'[j] = sessions[j]
           /\ StatementTables' /\ OpeningsInOrder' /\ EntriesCancel' /\ SessionsShown'
           /\ OpeningKept
           /\ ~sessions[i].closed /\ ~s.closed
                  => OneCloseAtACutoff' /\ ClosesAgree' /\ CoverageIsAnchored'
<1>1. /\ sessions' \in Seq(SessionType) /\ DOMAIN sessions' = DOMAIN sessions
      /\ sessions'[i] = s /\ \A j \in DOMAIN sessions \ {i} : sessions'[j] = sessions[j]
  BY ExceptSeq, LenProperties DEF StatementsInv, StatementTables
<1>2. SessionsShown'
  <2>1. ASSUME NEW j \in DOMAIN sessions'
        PROVE  /\ sessions'[j].closed <=> sessions'[j].status \in {"reconciled", "superseded"}
               /\ sessions'[j].review => sessions'[j].closed
               /\ sessions'[j].start <= sessions'[j].cutoff
    <3>1. CASE j = i
      BY <1>1, <3>1 DEF StatementsInv, SessionsShown
    <3>2. CASE j # i
      BY <1>1, <3>2 DEF StatementsInv, SessionsShown
    <3> QED BY <3>1, <3>2
  <2> QED BY <2>1 DEF SessionsShown
<1>3. Recorded' = Recorded /\ EntriesCancel' /\ ledger' = ledger
  BY LedgerStays
<1>4. StatementTables'
  BY <1>1, <1>3 DEF StatementsInv, StatementTables
<1>5. ASSUME ~sessions[i].closed, ~s.closed
      PROVE  OneCloseAtACutoff' /\ ClosesAgree' /\ CoverageIsAnchored'
  <2>1. LiveCloses' = LiveCloses /\ \A j \in LiveCloses : sessions'[j] = sessions[j]
    BY <1>1, <1>5 DEF LiveCloses
  <2> QED BY <1>3, <2>1, OpeningsStay, SameCloses
<1> QED BY <1>1, <1>2, <1>3, <1>4, <1>5, OpeningsStay

LEMMA SessionAt ==
    ASSUME StatementsInv, NEW i \in DOMAIN sessions
    PROVE  /\ sessions[i] \in SessionType
           /\ ~sessions[i].closed => /\ ~sessions[i].review
                                     /\ sessions[i].status \notin {"reconciled", "superseded"}
  BY LenProperties, ElementOfSeq DEF StatementsInv, StatementTables, SessionsShown

LEMMA MatchKeeps ==
    ASSUME StatementsAssumption, StatementsInv, NEW i \in DOMAIN sessions,
           NEW c \in Components, NEW row \in sessions[i].rows, Match(i, row, c)
    PROVE  StatementsInv' /\ OpeningKept
<1> DEFINE new == [row |-> row, ref |-> row.ref, component |-> c]
<1>1. /\ UNCHANGED <<openings, ledger>> /\ ~sessions[i].closed
      /\ sessions' = [sessions EXCEPT ![i].matches = @ \cup {new}]
      /\ ~\E k \in sessions[i].matches : k.row = row
      /\ row.ref \in Recorded
      /\ ComponentAmount(row.ref, c) # 0 /\ row.amount = ComponentAmount(row.ref, c)
      /\ ConsumesOnce(sessions[i], row.ref, c)
  BY DEF Match
<1>2. sessions[i] \in SessionType /\ ~sessions[i].review
      /\ sessions[i].status \notin {"reconciled", "superseded"}
  BY <1>1, SessionAt
<1>3. new \in MatchType
  BY <1>1, <1>2 DEF MatchType, SessionType, StatementRows, Recorded
<1>4. new.row = row /\ new.ref = row.ref /\ new.component = c
  OBVIOUS
<1> HIDE DEF new
<1>5. PICK s : s = [sessions[i] EXCEPT !.matches = sessions[i].matches \cup {new}]
  OBVIOUS
<1>6. /\ s \in SessionType /\ s.matches = sessions[i].matches \cup {new}
      /\ s.rows = sessions[i].rows /\ s.start = sessions[i].start
      /\ s.cutoff = sessions[i].cutoff /\ s.status = sessions[i].status
      /\ ~s.review /\ ~s.closed
  BY <1>1, <1>2, <1>3, <1>5 DEF SessionType
<1>7. sessions' = [sessions EXCEPT ![i] = s]
  BY <1>1, <1>5
<1>8. /\ DOMAIN sessions' = DOMAIN sessions
      /\ sessions'[i] = s /\ \A j \in DOMAIN sessions \ {i} : sessions'[j] = sessions[j]
      /\ StatementTables' /\ OpeningsInOrder' /\ EntriesCancel' /\ SessionsShown'
      /\ OpeningKept /\ OneCloseAtACutoff' /\ ClosesAgree' /\ CoverageIsAnchored'
  BY <1>1, <1>2, <1>6, <1>7, OpenSessionChanges
<1>9. MatchesFit'
  <2>1. \A k : MatchFits(k) => MatchFits(k)'
    <3>1. ASSUME NEW k, MatchFits(k) PROVE MatchFits(k)'
      BY <1>1, <3>1, LedgerStays DEF MatchFits, ComponentAmount
    <3> QED BY <3>1
  <2>2. MatchFits(new)
    BY <1>1, <1>4 DEF MatchFits
  <2>3. ASSUME NEW k \in s.matches, NEW l \in s.matches
        PROVE  /\ k.row \in s.rows /\ MatchFits(k)
               /\ k.row = l.row => k = l
               /\ k.ref = l.ref /\ k # l => k.component # l.component
                                            /\ "total" \notin {k.component, l.component}
    <3>1. ASSUME NEW j \in sessions[i].matches
          PROVE  /\ j.row \in s.rows /\ MatchFits(j) /\ j.row # row
                 /\ j.ref = row.ref => j.component # c /\ j.component # "total" /\ c # "total"
      <4>1. j.row \in s.rows /\ MatchFits(j) /\ j.row # row
        BY <1>1, <1>6 DEF StatementsInv, MatchesFit
      <4>2. j.ref = row.ref => ~(j.component \in {"total", c} \/ c = "total")
        BY <1>1 DEF ConsumesOnce
      <4> QED BY <4>1, <4>2
    <3>2. CASE k = new /\ l = new
      BY <1>4, <1>6, <2>2, <3>2
    <3>3. CASE k = new /\ l \in sessions[i].matches
      BY <1>4, <1>6, <2>2, <3>1, <3>3
    <3>4. CASE k \in sessions[i].matches /\ l = new
      BY <1>4, <1>6, <3>1, <3>4
    <3>5. CASE k \in sessions[i].matches /\ l \in sessions[i].matches
      BY <3>1, <3>5 DEF StatementsInv, MatchesFit
    <3> QED BY <1>6, <3>2, <3>3, <3>4, <3>5
  <2>4. ASSUME NEW j \in DOMAIN sessions'
        PROVE  /\ \A k \in sessions'[j].matches : k.row \in sessions'[j].rows /\ MatchFits(k)'
               /\ \A k, l \in sessions'[j].matches :
                      /\ k.row = l.row => k = l
                      /\ k.ref = l.ref /\ k # l
                             => k.component # l.component
                                /\ "total" \notin {k.component, l.component}
    <3>1. CASE j = i
      BY <1>8, <2>1, <2>3, <3>1
    <3>2. CASE j # i
      BY <1>8, <2>1, <3>2 DEF StatementsInv, MatchesFit
    <3> QED BY <3>1, <3>2
  <2> QED BY <2>4 DEF MatchesFit
<1> QED BY <1>8, <1>9 DEF StatementsInv

LEMMA ReviewBlockedKeeps ==
    ASSUME StatementsAssumption, StatementsInv, NEW i \in DOMAIN sessions, ReviewBlocked(i)
    PROVE  StatementsInv' /\ OpeningKept
<1>1. PICK st \in {"in_progress", "balanced_unresolved"} :
          sessions' = [sessions EXCEPT ![i].status = st]
  BY DEF ReviewBlocked
<1>2. UNCHANGED <<openings, ledger>> /\ ~sessions[i].closed
  BY DEF ReviewBlocked
<1>3. sessions[i] \in SessionType /\ ~sessions[i].review
  BY <1>2, SessionAt
<1>4. PICK s : s = [sessions[i] EXCEPT !.status = st]
  OBVIOUS
<1>5. /\ s \in SessionType /\ s.matches = sessions[i].matches
      /\ s.rows = sessions[i].rows /\ s.start = sessions[i].start
      /\ s.cutoff = sessions[i].cutoff /\ s.status = st /\ ~s.review /\ ~s.closed
  BY <1>2, <1>3, <1>4 DEF SessionType, Statuses
<1>6. sessions' = [sessions EXCEPT ![i] = s]
  BY <1>1, <1>4
<1>7. st \notin {"reconciled", "superseded"}
  BY <1>1
<1>8. /\ DOMAIN sessions' = DOMAIN sessions
      /\ sessions'[i] = s /\ \A j \in DOMAIN sessions \ {i} : sessions'[j] = sessions[j]
      /\ StatementTables' /\ OpeningsInOrder' /\ EntriesCancel' /\ SessionsShown'
      /\ OpeningKept /\ OneCloseAtACutoff' /\ ClosesAgree' /\ CoverageIsAnchored'
  BY <1>2, <1>5, <1>6, <1>7, OpenSessionChanges
<1>9. MatchesFit'
  <2>1. Recorded' = Recorded /\ ledger' = ledger
    BY <1>2, LedgerStays
  <2>2. \A j \in DOMAIN sessions' : /\ j \in DOMAIN sessions
                                    /\ sessions'[j].matches = sessions[j].matches
                                    /\ sessions'[j].rows = sessions[j].rows
    BY <1>5, <1>8
  <2> QED BY <2>1, <2>2, MatchesStay DEF StatementsInv
<1> QED BY <1>8, <1>9 DEF StatementsInv

LEMMA CloseKeeps ==
    ASSUME StatementsAssumption, StatementsInv, NEW i \in DOMAIN sessions, Close(i)
    PROVE  StatementsInv' /\ OpeningKept
<1>1. /\ UNCHANGED <<openings, ledger>> /\ ~sessions[i].closed /\ CanClose(i) /\ FreeCutoff(i)
      /\ sessions' = [sessions EXCEPT ![i].status = "reconciled", ![i].closed = TRUE]
  BY DEF Close
<1>2. sessions[i] \in SessionType /\ ~sessions[i].review
  BY <1>1, SessionAt
<1>3. PICK s : s = [sessions[i] EXCEPT !.status = "reconciled", !.closed = TRUE]
  OBVIOUS
<1>4. /\ s \in SessionType /\ s.matches = sessions[i].matches
      /\ s.rows = sessions[i].rows /\ s.start = sessions[i].start /\ s.actual = sessions[i].actual
      /\ s.cutoff = sessions[i].cutoff /\ s.status = "reconciled" /\ ~s.review /\ s.closed
      /\ s.review = sessions[i].review
  BY <1>2, <1>3 DEF SessionType, Statuses
<1>5. sessions' = [sessions EXCEPT ![i] = s]
  BY <1>1, <1>3
<1>6. /\ DOMAIN sessions' = DOMAIN sessions
      /\ sessions'[i] = s /\ \A j \in DOMAIN sessions \ {i} : sessions'[j] = sessions[j]
      /\ StatementTables' /\ OpeningsInOrder' /\ EntriesCancel' /\ SessionsShown' /\ OpeningKept
  BY <1>1, <1>4, <1>5, OpenSessionChanges
<1>7. LiveCloses' = (LiveCloses \ {}) \cup {i} /\ i \notin LiveCloses
      /\ \A j \in LiveCloses \ {} : sessions'[j] = sessions[j]
  BY <1>1, <1>4, <1>6 DEF LiveCloses
<1>8. \A j \in LiveCloses \ {} : sessions[j].cutoff # sessions[i].cutoff
  BY <1>1 DEF FreeCutoff
<1>9. OneCloseAtACutoff' /\ ClosesAgree' /\ CoverageIsAnchored'
  <2>1. PICK P : P = {}
    OBVIOUS
  <2>2. /\ P \in SUBSET LiveCloses /\ LiveCloses' = (LiveCloses \ P) \cup {i}
        /\ \A j \in LiveCloses \ P : sessions'[j] = sessions[j]
        /\ \A j \in LiveCloses \ P : sessions[j].cutoff # sessions[i].cutoff
        /\ \A j \in P : /\ sessions[j].cutoff = sessions[i].cutoff
                        /\ sessions[j].start = sessions[i].start
    BY <1>7, <1>8, <2>1
  <2>3. /\ sessions'[i].start = sessions[i].start /\ sessions'[i].cutoff = sessions[i].cutoff
        /\ sessions'[i].actual = sessions[i].actual /\ sessions'[i].rows = sessions[i].rows
        /\ sessions'[i].review = sessions[i].review
    BY <1>4, <1>6
  <2> HIDE <2>1
  <2> QED BY <1>1, <2>2, <2>3, NewCloseStands
<1>10. MatchesFit'
  <2>1. Recorded' = Recorded /\ ledger' = ledger
    BY <1>1, LedgerStays
  <2>2. \A j \in DOMAIN sessions' : /\ j \in DOMAIN sessions
                                    /\ sessions'[j].matches = sessions[j].matches
                                    /\ sessions'[j].rows = sessions[j].rows
    BY <1>4, <1>6
  <2> QED BY <2>1, <2>2, MatchesStay DEF StatementsInv
<1> QED BY <1>6, <1>9, <1>10 DEF StatementsInv

LEMMA SupersedeKeeps ==
    ASSUME StatementsAssumption, StatementsInv, NEW i \in DOMAIN sessions,
           NEW p \in DOMAIN sessions, Supersede(i, p)
    PROVE  StatementsInv' /\ OpeningKept
<1>1. /\ UNCHANGED <<openings, ledger>> /\ ~sessions[i].closed /\ CanClose(i)
      /\ p \in LiveCloses /\ sessions[p].cutoff = sessions[i].cutoff
      /\ sessions[p].start = sessions[i].start
      /\ sessions' = [sessions EXCEPT ![p].status = "superseded",
                                      ![i].status = "reconciled", ![i].closed = TRUE]
  BY DEF Supersede
<1>2. /\ sessions[i] \in SessionType /\ ~sessions[i].review
      /\ sessions[p] \in SessionType /\ sessions[p].closed /\ p # i
  BY <1>1, SessionAt DEF LiveCloses
<1>3. PICK s : s = [sessions[i] EXCEPT !.status = "reconciled", !.closed = TRUE]
  OBVIOUS
<1>4. /\ s \in SessionType /\ s.matches = sessions[i].matches
      /\ s.rows = sessions[i].rows /\ s.start = sessions[i].start /\ s.actual = sessions[i].actual
      /\ s.cutoff = sessions[i].cutoff /\ s.status = "reconciled" /\ ~s.review /\ s.closed
      /\ s.review = sessions[i].review
  BY <1>2, <1>3 DEF SessionType, Statuses
<1>5. PICK q : q = [sessions[p] EXCEPT !.status = "superseded"]
  OBVIOUS
<1>6. /\ q \in SessionType /\ q.matches = sessions[p].matches /\ q.rows = sessions[p].rows
      /\ q.start = sessions[p].start /\ q.cutoff = sessions[p].cutoff
      /\ q.status = "superseded" /\ q.closed
  BY <1>2, <1>5 DEF SessionType, Statuses
<1>7. sessions \in Seq(SessionType) /\ DOMAIN sessions = 1 .. Len(sessions)
      /\ Len(sessions) \in Nat /\ \A j \in DOMAIN sessions : sessions[j] \in SessionType
  BY LenProperties, SessionAt DEF StatementsInv, StatementTables
<1>8. sessions' = [j \in DOMAIN sessions |-> IF j = i THEN s ELSE IF j = p THEN q ELSE sessions[j]]
  BY <1>1, <1>2, <1>3, <1>5, <1>7
<1>9. /\ DOMAIN sessions' = DOMAIN sessions /\ sessions'[i] = s /\ sessions'[p] = q
      /\ \A j \in DOMAIN sessions \ {i, p} : sessions'[j] = sessions[j]
      /\ sessions' \in Seq(SessionType)
  <2>1. \A j \in 1 .. Len(sessions) :
            (IF j = i THEN s ELSE IF j = p THEN q ELSE sessions[j]) \in SessionType
    BY <1>4, <1>6, <1>7
  <2>2. [j \in 1 .. Len(sessions) |-> IF j = i THEN s ELSE IF j = p THEN q ELSE sessions[j]]
        \in Seq(SessionType)
    BY <1>7, <2>1
  <2> QED BY <1>2, <1>7, <1>8, <2>2
<1>10. LiveCloses' = (LiveCloses \ {p}) \cup {i} /\ i \notin LiveCloses
       /\ \A j \in LiveCloses \ {p} : sessions'[j] = sessions[j]
  <2>1. \A j \in DOMAIN sessions : j \in LiveCloses' <=> j = i \/ (j \in LiveCloses /\ j # p)
    BY <1>4, <1>6, <1>9 DEF LiveCloses
  <2>2. i \notin LiveCloses
    BY <1>1 DEF LiveCloses
  <2>3. LiveCloses \subseteq DOMAIN sessions /\ LiveCloses' \subseteq DOMAIN sessions
    BY <1>9 DEF LiveCloses
  <2> QED BY <1>9, <2>1, <2>2, <2>3
<1>11. \A j \in LiveCloses \ {p} : sessions[j].cutoff # sessions[i].cutoff
  BY <1>1 DEF StatementsInv, OneCloseAtACutoff
<1>12. OneCloseAtACutoff' /\ ClosesAgree' /\ CoverageIsAnchored'
  <2>1. PICK P : P = {p}
    OBVIOUS
  <2>2. /\ P \in SUBSET LiveCloses /\ LiveCloses' = (LiveCloses \ P) \cup {i}
        /\ \A j \in LiveCloses \ P : sessions'[j] = sessions[j]
        /\ \A j \in LiveCloses \ P : sessions[j].cutoff # sessions[i].cutoff
        /\ \A j \in P : /\ sessions[j].cutoff = sessions[i].cutoff
                        /\ sessions[j].start = sessions[i].start
    BY <1>1, <1>10, <1>11, <2>1
  <2>3. /\ sessions'[i].start = sessions[i].start /\ sessions'[i].cutoff = sessions[i].cutoff
        /\ sessions'[i].actual = sessions[i].actual /\ sessions'[i].rows = sessions[i].rows
        /\ sessions'[i].review = sessions[i].review
    BY <1>4, <1>9
  <2> HIDE <2>1
  <2> QED BY <1>1, <2>2, <2>3, NewCloseStands
<1>13. Recorded' = Recorded /\ EntriesCancel' /\ ledger' = ledger
  BY <1>1, LedgerStays
<1>14. \A j \in DOMAIN sessions' : /\ j \in DOMAIN sessions
                                   /\ sessions'[j].matches = sessions[j].matches
                                   /\ sessions'[j].rows = sessions[j].rows
                                   /\ sessions'[j].start = sessions[j].start
                                   /\ sessions'[j].cutoff = sessions[j].cutoff
  BY <1>4, <1>6, <1>9
<1>15. MatchesFit'
  BY <1>13, <1>14, MatchesStay DEF StatementsInv
<1>16. SessionsShown'
  <2>1. ASSUME NEW j \in DOMAIN sessions'
        PROVE  /\ sessions'[j].closed <=> sessions'[j].status \in {"reconciled", "superseded"}
               /\ sessions'[j].review => sessions'[j].closed
               /\ sessions'[j].start <= sessions'[j].cutoff
    <3>1. sessions'[j].start <= sessions'[j].cutoff
      BY <1>14 DEF StatementsInv, SessionsShown
    <3>2. CASE j \in {i, p}
      BY <1>4, <1>6, <1>9, <3>1, <3>2
    <3>3. CASE j \notin {i, p}
      BY <1>9, <3>1, <3>3 DEF StatementsInv, SessionsShown
    <3> QED BY <3>2, <3>3
  <2> QED BY <2>1 DEF SessionsShown
<1>17. StatementTables'
  BY <1>1, <1>9, <1>13 DEF StatementsInv, StatementTables
<1> QED BY <1>1, <1>12, <1>13, <1>15, <1>16, <1>17, OpeningsStay DEF StatementsInv

LEMMA StatementsStep ==
    ASSUME StatementsAssumption, StatementsInv, [StatementsNext]_statementVars
    PROVE  StatementsInv' /\ (OpeningKept \/ UNCHANGED statementVars)
<1>1. CASE UNCHANGED statementVars
  <2>1. openings' = openings /\ ledger' = ledger /\ sessions' = sessions
    BY <1>1 DEF statementVars
  <2>2. Recorded' = Recorded /\ EntriesCancel'
    BY <2>1, LedgerStays
  <2>3. StatementTables' /\ SessionsShown'
    BY <2>1, <2>2 DEF StatementsInv, StatementTables, SessionsShown
  <2>4. LiveCloses' = LiveCloses
    BY <2>1 DEF LiveCloses
  <2>5. OpeningsInOrder' /\ OneCloseAtACutoff' /\ ClosesAgree' /\ CoverageIsAnchored'
    BY <2>1, <2>4, OpeningsStay, SameCloses
  <2>6. MatchesFit'
    BY <2>1, <2>2, MatchesStay DEF StatementsInv
  <2> QED BY <1>1, <2>2, <2>3, <2>5, <2>6 DEF StatementsInv
<1>2. ASSUME NEW c \in Counts, PrepareOpening(c) PROVE StatementsInv' /\ OpeningKept
  BY <1>2, PrepareKeeps
<1>3. ASSUME NEW i \in DOMAIN openings, ActivateOpening(i) PROVE StatementsInv' /\ OpeningKept
  BY <1>3, ActivateKeeps
<1>4. ASSUME NEW m \in Movements, RecordMovement(m) PROVE StatementsInv' /\ OpeningKept
  BY <1>4, RecordKeeps
<1>5. ASSUME NEW r \in References, CorrectLedger(r) PROVE StatementsInv' /\ OpeningKept
  BY <1>5, CorrectLedgerKeeps
<1>6. ASSUME NEW st \in Statements, Observe(st) PROVE StatementsInv' /\ OpeningKept
  BY <1>6, ObserveKeeps
<1>7. ASSUME NEW i \in DOMAIN sessions, NEW c \in Components,
             NEW row \in sessions[i].rows, Match(i, row, c)
      PROVE  StatementsInv' /\ OpeningKept
  BY <1>7, MatchKeeps
<1>8. ASSUME NEW i \in DOMAIN sessions, ReviewBlocked(i) PROVE StatementsInv' /\ OpeningKept
  BY <1>8, ReviewBlockedKeeps
<1>9. ASSUME NEW i \in DOMAIN sessions, Close(i) PROVE StatementsInv' /\ OpeningKept
  BY <1>9, CloseKeeps
<1>10. ASSUME NEW i \in DOMAIN sessions, NEW p \in DOMAIN sessions, Supersede(i, p)
       PROVE  StatementsInv' /\ OpeningKept
  BY <1>10, SupersedeKeeps
<1> QED
  BY <1>1, <1>2, <1>3, <1>4, <1>5, <1>6, <1>7, <1>8, <1>9, <1>10 DEF StatementsNext

LEMMA ClosesHoldByInv ==
    ASSUME StatementsAssumption, StatementsInv
    PROVE  ClosesHold
<1>1. GoodCloses \subseteq LiveCloses /\ LiveCloses \subseteq DOMAIN sessions
  BY DEF GoodCloses, LiveCloses
<1>2. UnflaggedCloseHolds
  BY MovedIsSum DEF StatementsInv, ClosesAgree, Agrees, UnflaggedCloseHolds
<1>3. ASSUME NEW i \in GoodCloses
      PROVE  MapThenSumSet(LAMBDA row : row.amount, sessions[i].rows)
             = MapThenSumSet(LineSum, {r \in Recorded : InCoverage(r, sessions[i])})
  <2>1. sessions[i].rows \in SUBSET StatementRows
    BY <1>1, SessionAt DEF SessionType, StatementRows
  <2>2. MapThenSumSet(LAMBDA row : row.amount, sessions[i].rows)
        = SumOf(RowAmounts, sessions[i].rows)
    BY <2>1, RowsSum
  <2>3. MapThenSumSet(LineSum, {r \in Recorded : InCoverage(r, sessions[i])})
        = Moved(ledger, sessions[i].start, sessions[i].cutoff)
    BY MovedIsSum
  <2>4. SumOf(RowAmounts, sessions[i].rows)
        = Moved(ledger, sessions[i].start, sessions[i].cutoff)
    BY DEF StatementsInv, ClosesAgree, Agrees
  <2> QED BY <2>2, <2>3, <2>4
<1>4. RowsExplainMovement
  BY <1>3 DEF RowsExplainMovement
<1> QED BY <1>2, <1>4 DEF StatementsInv, ClosesHold

LEMMA StatementsStay ==
    ASSUME StatementsAssumption
    PROVE  StatementsSpec => []StatementsInv
<1>1. StatementsInit => StatementsInv
  BY StatementsStart
<1>2. StatementsInv /\ [StatementsNext]_statementVars => StatementsInv'
  BY StatementsStep
<1> QED BY <1>1, <1>2, PTL DEF StatementsSpec

\* However late a movement is recorded or corrected, an opening revised or a close
\* superseded, a close nobody flagged has the balance the ledger shows now, its rows add up
\* to what moved, it begins where the account was known, and its cutoff has no other close
\* (preview_reconciliation and flag_late).
THEOREM ClosesStayTrue ==
    ASSUME StatementsAssumption
    PROVE  StatementsSpec => []ClosesHold
<1>1. StatementsInv => ClosesHold
  BY ClosesHoldByInv
<1> QED BY <1>1, StatementsStay, PTL

\* The account never loses its opening, has one at a time, and keeps its cutoff, whatever
\* drafts were prepared before (opening_prepare, opening_activate).
THEOREM OpeningIsKept ==
    ASSUME StatementsAssumption
    PROVE  StatementsSpec => OpeningStaysAtItsCutoff
<1>1. StatementsInv /\ [StatementsNext]_statementVars => [OpeningKept]_statementVars
  BY StatementsStep
<1> QED BY <1>1, StatementsStay, PTL DEF StatementsSpec, OpeningStaysAtItsCutoff

-----------------------------------------------------------------------------
(***************************************************************************)
(* Posting: the invariant.  A void is allowed on the version of its loan,   *)
(* and inside a reversal on the void before it.  Two facts make either      *)
(* enough: the last live receipt of a version explains the balance it left, *)
(* and so does the last void.  The receipts of an application keep a chain  *)
(* on each loan, which is what a reversal walks back, and a preview fits    *)
(* the loans as long as they have the versions it read.                     *)
(***************************************************************************)

-----------------------------------------------------------------------------
(* The folds: posting part after part, voiding receipt after receipt.      *)

StepOf(kind, st, x) == IF kind = "post" THEN PostOne(st, x) ELSE VoidOne(st, x)

IsFold(kind, base, seq, g, S) ==
    g = [s \in SUBSET S |-> IF s = {} THEN base
                            ELSE StepOf(kind, g[s \ {Max(s)}], seq[Max(s)])]

LEMMA MaxIsLargest ==
    ASSUME NEW s, IsFiniteSet(s), s \subseteq Nat, s # {}
    PROVE  Max(s) \in s /\ \A x \in s : x <= Max(s)
<1>1. \E m \in s : \A x \in s : x <= m
  BY LargestExists
<1>2. \E m \in s : \A x \in s : m >= x
  BY <1>1
<1>3. Max(s) \in s /\ \A x \in s : Max(s) >= x
  BY <1>2 DEF Max
<1> QED BY <1>3

LEMMA LastOfInterval ==
    ASSUME NEW n \in Nat \ {0}
    PROVE  Max(1 .. n) = n /\ (1 .. n) \ {n} = 1 .. (n - 1)
<1>1. IsFiniteSet(1 .. n) /\ 1 .. n \subseteq Nat /\ n \in 1 .. n
  BY FS_Interval
<1>2. Max(1 .. n) \in 1 .. n /\ \A x \in 1 .. n : x <= Max(1 .. n)
  BY <1>1, MaxIsLargest
<1>3. Max(1 .. n) = n
  BY <1>1, <1>2
<1>4. \A x : x \in (1 .. n) \ {n} <=> x \in 1 .. (n - 1)
  OBVIOUS
<1> QED BY <1>3, <1>4

OfNat(S) == S \subseteq Nat

LEMMA FoldsAgree ==
    ASSUME NEW kind, NEW base, NEW seq, NEW S, NEW T, NEW g, NEW h,
           IsFiniteSet(S), OfNat(S),
           IsFold(kind, base, seq, g, S), IsFold(kind, base, seq, h, T)
    PROVE  \A s \in SUBSET (S \cap T) : g[s] = h[s]
<1> DEFINE B == {s \in SUBSET (S \cap T) : g[s] # h[s]}
<1> SUFFICES ASSUME B # {} PROVE FALSE
  OBVIOUS
<1>1. PICK s \in B : \A u \in B : u \subseteq s => u = s
  <2>1. B \subseteq SUBSET S
    OBVIOUS
  <2> HIDE DEF B
  <2> QED BY <2>1, SmallestMember
<1>2. s \in SUBSET S /\ s \in SUBSET T
  OBVIOUS
<1>3. s # {}
  BY <1>2 DEF IsFold
<1>4. Max(s) \in s
  BY <1>2, <1>3, FS_Subset, MaxIsLargest DEF OfNat
<1>5. g[s \ {Max(s)}] = h[s \ {Max(s)}]
  <2>1. s \ {Max(s)} \in SUBSET (S \cap T) /\ s \ {Max(s)} \subseteq s /\ s \ {Max(s)} # s
    BY <1>2, <1>4
  <2> QED BY <1>1, <2>1
<1>6. g[s] = StepOf(kind, g[s \ {Max(s)}], seq[Max(s)])
  BY <1>2, <1>3 DEF IsFold
<1>7. h[s] = StepOf(kind, h[s \ {Max(s)}], seq[Max(s)])
  BY <1>2, <1>3 DEF IsFold
<1> QED BY <1>5, <1>6, <1>7

LEMMA FoldExists ==
    ASSUME NEW kind, NEW base, NEW seq, NEW S, IsFiniteSet(S), OfNat(S)
    PROVE  \E g : IsFold(kind, base, seq, g, S)
<1> DEFINE B == {s \in SUBSET S : ~\E g : IsFold(kind, base, seq, g, s)}
           Fold(s) == CHOOSE g : IsFold(kind, base, seq, g, s)
<1> SUFFICES ASSUME B # {} PROVE FALSE
  OBVIOUS
<1>1. PICK T \in B : \A u \in B : u \subseteq T => u = T
  <2>1. B \subseteq SUBSET S
    OBVIOUS
  <2> HIDE DEF B
  <2> QED BY <2>1, SmallestMember
<1>2. T \in SUBSET S /\ (~\E g : IsFold(kind, base, seq, g, T)) /\ IsFiniteSet(T)
  BY FS_Subset
<1>3. \A s \in SUBSET T : s # T => IsFold(kind, base, seq, Fold(s), s)
  <2> TAKE s \in SUBSET T
  <2> HAVE s # T
  <2>1. s \notin B /\ s \in SUBSET S
    BY <1>1, <1>2
  <2> QED BY <2>1
<1>0. \A s \in SUBSET T : IsFiniteSet(s) /\ (s # {} => Max(s) \in s)
  BY <1>2, FS_Subset, MaxIsLargest DEF OfNat
<1> DEFINE Rest(s) == s \ {Max(s)}
           g == [s \in SUBSET T |-> IF s = {} THEN base
                                    ELSE StepOf(kind, Fold(Rest(s))[Rest(s)], seq[Max(s)])]
<1>4. \A s \in SUBSET T : s # {} => g[Rest(s)] = Fold(Rest(s))[Rest(s)]
  <2> SUFFICES ASSUME NEW s \in SUBSET T, s # {}
               PROVE  g[Rest(s)] = Fold(Rest(s))[Rest(s)]
    OBVIOUS
  <2> DEFINE u == Rest(s)
  <2>1. u \in SUBSET T /\ u # T
    BY <1>0
  <2>2. IsFold(kind, base, seq, Fold(u), u)
    BY <1>3, <2>1
  <2>3. CASE u = {}
    <3>1. Fold(u)[u] = base
      <4> HIDE DEF Fold
      <4> QED BY <2>2, <2>3 DEF IsFold
    <3> QED BY <2>1, <2>3, <3>1
  <2>4. CASE u # {}
    <3> DEFINE v == Rest(u)
    <3>1. v \in SUBSET T /\ v # T /\ v \subseteq u /\ Max(u) \in u
      BY <1>0, <2>1, <2>4
    <3>2. Fold(u)[u] = StepOf(kind, Fold(u)[v], seq[Max(u)])
      <4> HIDE DEF Fold
      <4> QED BY <2>2, <2>4 DEF IsFold
    <3>3. Fold(u)[v] = Fold(v)[v]
      <4>1. IsFold(kind, base, seq, Fold(v), v)
        BY <1>3, <3>1
      <4>2. IsFiniteSet(u) /\ OfNat(u)
        BY <1>0, <1>2, <2>1 DEF OfNat
      <4>3. v \in SUBSET (u \cap v)
        BY <3>1
      <4> HIDE DEF Fold, u, v
      <4> QED BY <2>2, <4>1, <4>2, <4>3, FoldsAgree
    <3>4. g[u] = StepOf(kind, Fold(v)[v], seq[Max(u)])
      BY <2>1, <2>4
    <3> HIDE DEF Fold, g
    <3> QED BY <3>2, <3>3, <3>4
  <2> QED BY <2>3, <2>4
<1>5. IsFold(kind, base, seq, g, T)
  <2>1. \A s \in SUBSET T :
          g[s] = IF s = {} THEN base ELSE StepOf(kind, g[s \ {Max(s)}], seq[Max(s)])
    <3> TAKE s \in SUBSET T
    <3>1. CASE s = {}
      BY <3>1
    <3>2. CASE s # {}
      <4>1. g[Rest(s)] = Fold(Rest(s))[Rest(s)]
        BY <1>4, <3>2
      <4>2. g[s] = StepOf(kind, Fold(Rest(s))[Rest(s)], seq[Max(s)])
        BY <3>2
      <4> HIDE DEF g, Fold
      <4> QED BY <3>2, <4>1, <4>2
    <3> QED BY <3>1, <3>2
  <2>2. g = [s \in SUBSET T |-> g[s]]
    OBVIOUS
  <2> HIDE DEF g
  <2>3. [s \in SUBSET T |-> g[s]]
        = [s \in SUBSET T |-> IF s = {} THEN base
                              ELSE StepOf(kind, g[s \ {Max(s)}], seq[Max(s)])]
    BY <2>1
  <2> QED BY <2>2, <2>3 DEF IsFold
<1> QED BY <1>2, <1>5

\* The states a fold goes through, from the first to the last.
GoesThrough(kind, base, seq, st, last) ==
    /\ st[0] = base /\ last = st[Len(seq)]
    /\ \A n \in 1 .. Len(seq) : st[n] = StepOf(kind, st[n - 1], seq[n])

FoldOf(kind, base, seq) ==
    (CHOOSE g : IsFold(kind, base, seq, g, DOMAIN seq))[DOMAIN seq]

LEMMA FoldGoesThrough ==
    ASSUME NEW kind, NEW base, NEW seq, Len(seq) \in Nat, DOMAIN seq = 1 .. Len(seq)
    PROVE  \E st : GoesThrough(kind, base, seq, st, FoldOf(kind, base, seq))
<1> DEFINE N == Len(seq)
           g == CHOOSE h : IsFold(kind, base, seq, h, DOMAIN seq)
           st == [n \in 0 .. N |-> g[1 .. n]]
<1>1. IsFold(kind, base, seq, g, 1 .. N)
  <2>1. IsFiniteSet(1 .. N) /\ OfNat(1 .. N)
    BY FS_Interval DEF OfNat
  <2>2. \E h : IsFold(kind, base, seq, h, DOMAIN seq)
    BY <2>1, FoldExists
  <2> QED BY <2>2
<1>2. FoldOf(kind, base, seq) = g[1 .. N]
  BY DEF FoldOf
<1> HIDE DEF g
<1>3. \A s \in SUBSET (1 .. N) : g[s] = IF s = {} THEN base
                                 ELSE StepOf(kind, g[s \ {Max(s)}], seq[Max(s)])
  BY <1>1 DEF IsFold
<1>4. st[0] = base
  <2>1. 1 .. 0 = {}
    OBVIOUS
  <2>2. {} \in SUBSET (1 .. N) /\ 0 \in 0 .. N
    OBVIOUS
  <2> QED BY <1>3, <2>1, <2>2
<1>5. ASSUME NEW n \in 1 .. N
      PROVE  st[n] = StepOf(kind, st[n - 1], seq[n])
  <2>1. 1 .. n \in SUBSET (1 .. N) /\ n \in 1 .. n /\ 1 .. n # {} /\ n \in 0 .. N /\ n - 1 \in 0 .. N
    <3>1. N \in Nat
      OBVIOUS
    <3> HIDE DEF N, st
    <3>2. n \in Nat \ {0} /\ n <= N /\ n \in 1 .. n
      BY <3>1
    <3>3. \A x \in 1 .. n : x \in 1 .. N
      BY <3>1, <3>2
    <3>4. n \in 0 .. N /\ n - 1 \in 0 .. N
      BY <3>1, <3>2
    <3> QED BY <3>2, <3>3, <3>4
  <2>2. Max(1 .. n) = n /\ (1 .. n) \ {n} = 1 .. (n - 1)
    BY LastOfInterval
  <2> QED BY <1>3, <2>1, <2>2
<1>6. st[N] = g[1 .. N]
  OBVIOUS
<1> HIDE DEF st
<1>7. GoesThrough(kind, base, seq, st, FoldOf(kind, base, seq))
  BY <1>2, <1>4, <1>5, <1>6 DEF GoesThrough
<1> QED BY <1>7

LEMMA PostAllFold ==
    ASSUME NEW parts, NEW fund
    PROVE  PostAll(parts, fund)
           = FoldOf("post", [loans |-> loans, rs |-> collected, fund |-> fund], parts)
<1> DEFINE base == [loans |-> loans, rs |-> collected, fund |-> fund]
<1> HIDE DEF base
<1> DEFINE D == DOMAIN parts
           Eq(g) == g = [s \in SUBSET D |-> IF s = {} THEN base
                                            ELSE PostOne(g[s \ {Max(s)}], parts[Max(s)])]
<1>1. ASSUME NEW g PROVE IsFold("post", base, parts, g, D) <=> Eq(g)
  <2>1. [s \in SUBSET D |-> IF s = {} THEN base
                            ELSE PostOne(g[s \ {Max(s)}], parts[Max(s)])]
        = [s \in SUBSET D |-> IF s = {} THEN base
                              ELSE StepOf("post", g[s \ {Max(s)}], parts[Max(s)])]
    BY DEF StepOf
  <2> QED BY <2>1 DEF IsFold
<1>2. (CHOOSE g : IsFold("post", base, parts, g, D)) = (CHOOSE g : Eq(g))
  BY <1>1
<1>3. FoldLeft(PostOne, base, parts) = (CHOOSE g : Eq(g))[D]
  BY DEF FoldLeft, MapThenFoldSet
<1>4. FoldLeft(PostOne, base, parts) = FoldOf("post", base, parts)
  BY <1>2, <1>3 DEF FoldOf
<1> QED BY <1>4 DEF PostAll, base

LEMMA ReversedFold ==
    ASSUME NEW a
    PROVE  Reversed(a) = FoldOf("void", NoVoids, ReversalOrder(allocations[a].ids))
<1> DEFINE ids == ReversalOrder(allocations[a].ids)
<1> HIDE DEF ids
<1> DEFINE D == DOMAIN ids
           Eq(g) == g = [s \in SUBSET D |-> IF s = {} THEN NoVoids
                                            ELSE VoidOne(g[s \ {Max(s)}], ids[Max(s)])]
<1>1. ASSUME NEW g PROVE IsFold("void", NoVoids, ids, g, D) <=> Eq(g)
  <2>1. [s \in SUBSET D |-> IF s = {} THEN NoVoids
                            ELSE VoidOne(g[s \ {Max(s)}], ids[Max(s)])]
        = [s \in SUBSET D |-> IF s = {} THEN NoVoids
                              ELSE StepOf("void", g[s \ {Max(s)}], ids[Max(s)])]
    BY DEF StepOf
  <2> QED BY <2>1 DEF IsFold
<1>2. (CHOOSE g : IsFold("void", NoVoids, ids, g, D)) = (CHOOSE g : Eq(g))
  BY <1>1
<1>3. FoldLeft(VoidOne, NoVoids, ids) = (CHOOSE g : Eq(g))[D]
  BY DEF FoldLeft, MapThenFoldSet
<1>4. FoldLeft(VoidOne, NoVoids, ids) = FoldOf("void", NoVoids, ids)
  BY <1>2, <1>3 DEF FoldOf
<1> QED BY <1>4 DEF Reversed, ids

\* Of the numbers up to N that lack something, one is the first.
LEMMA FirstOf ==
    ASSUME NEW N \in Nat, NEW B, B \subseteq 0 .. N, B # {}
    PROVE  \E n \in B : \A m \in B : n <= m
<1> DEFINE C == {x \in 0 .. N : N - x \in B}
<1>1. IsFiniteSet(C) /\ C \subseteq Nat
  <2>1. IsFiniteSet(0 .. N) /\ C \subseteq 0 .. N
    BY FS_Interval
  <2> QED BY <2>1, FS_Subset
<1>2. C # {}
  <2>1. PICK m \in B : TRUE
    OBVIOUS
  <2>2. N - m \in 0 .. N /\ N - (N - m) = m
    BY <2>1
  <2>3. N - m \in C
    BY <2>1, <2>2
  <2> QED BY <2>3
<1>3. PICK x \in C : \A y \in C : y <= x
  <2> HIDE DEF C
  <2> QED BY <1>1, <1>2, LargestExists
<1>4. \A m \in B : N - x <= m
  <2> TAKE m \in B
  <2>1. N - m \in C
    <3>1. N - m \in 0 .. N /\ N - (N - m) = m
      OBVIOUS
    <3> QED BY <3>1
  <2> QED BY <1>3, <2>1
<1> QED BY <1>3, <1>4
-----------------------------------------------------------------------------
(* The books: loans and receipts, one receipt posted or voided.            *)

State == [balance : Nat, version : Nat \ {0}]
Entry == [loan : Loans, day : Nat, fund : Funds \cup {Cash}, amount : Nat, before : State,
          live : BOOLEAN, voided : State \cup {NotVoided},
          undo : [rev : Nat, reason : Reasons \cup {"none"}]]

AmountsOf(rs) == [i \in DOMAIN rs |-> rs[i].amount]
Standing(rs, l) == {i \in DOMAIN rs : rs[i].live /\ rs[i].loan = l}

BooksTyped(ls, rs) == ls \in [Loans -> State] /\ rs \in Seq(Entry)

\* A loan owes what its live receipts leave.
BalancesFit(ls, rs) ==
    \A l \in Loans : ls[l].balance = Opening[l] - SumOf(AmountsOf(rs), Standing(rs, l))

\* A live receipt after which its loan did not change explains the balance of the loan.
LatestFits(ls, rs) ==
    \A i \in DOMAIN rs :
        /\ rs[i].before.version < ls[rs[i].loan].version
        /\ rs[i].live /\ rs[i].before.version + 1 = ls[rs[i].loan].version =>
              ls[rs[i].loan].balance = rs[i].before.balance - rs[i].amount

\* A void after which its loan did not change left the loan as it is.
VoidsFit(ls, rs) ==
    \A i \in DOMAIN rs :
        /\ rs[i].live => rs[i].voided = NotVoided
        /\ ~rs[i].live => /\ rs[i].voided \in State
                          /\ rs[i].voided.version <= ls[rs[i].loan].version
                          /\ rs[i].voided.version = ls[rs[i].loan].version =>
                                ls[rs[i].loan] = rs[i].voided

BooksFit(ls, rs) ==
    BooksTyped(ls, rs) /\ BalancesFit(ls, rs) /\ LatestFits(ls, rs) /\ VoidsFit(ls, rs)

\* A total of receipts is the sum of their amounts.
LEMMA TotalIsSum ==
    ASSUME NEW rs, NEW S \in SUBSET DOMAIN rs
    PROVE  Total(rs, S) = SumOf(AmountsOf(rs), S)
<1> DEFINE f == AmountsOf(rs)
<1>1. \A s \in SUBSET S : s # {} => f[Pick(s)] = rs[Pick(s)].amount
  BY PickIsMember DEF AmountsOf
<1>2. ASSUME NEW g
      PROVE  [s \in SUBSET S |-> IF s = {} THEN 0 ELSE f[Pick(s)] + g[s \ {Pick(s)}]]
             = [s \in SUBSET S |-> IF s = {} THEN 0 ELSE rs[Pick(s)].amount + g[s \ {Pick(s)}]]
  BY <1>1
<1> DEFINE Eq(g) == g = [s \in SUBSET S |-> IF s = {} THEN 0
                                           ELSE rs[Pick(s)].amount + g[s \ {Pick(s)}]]
<1>3. \A g : IsSum(f, g, S) <=> Eq(g)
  BY <1>2 DEF IsSum
<1>4. (CHOOSE g : IsSum(f, g, S)) = (CHOOSE g : Eq(g))
  BY <1>3
<1>5. SumOf(f, S) = (CHOOSE g : IsSum(f, g, S))[S]
  BY DEF SumOf, MapThenSumSet, MapThenFoldSet, IsSum, Pick
<1>6. Total(rs, S) = (CHOOSE g : Eq(g))[S]
  BY DEF Total, MapThenSumSet, MapThenFoldSet, Pick
<1> QED BY <1>4, <1>5, <1>6

LEMMA EntriesAre ==
    ASSUME NEW rs \in Seq(Entry)
    PROVE  /\ DOMAIN rs = 1 .. Len(rs) /\ Len(rs) \in Nat /\ IsFiniteSet(DOMAIN rs)
           /\ \A i \in DOMAIN rs :
                 /\ rs[i] \in Entry /\ rs[i].loan \in Loans /\ rs[i].amount \in Nat
                 /\ rs[i].before \in State /\ rs[i].live \in BOOLEAN
                 /\ rs[i].before.balance \in Nat /\ rs[i].before.version \in Nat \ {0}
                 /\ rs[i].fund \in Funds \cup {Cash} /\ AmountsOf(rs)[i] = rs[i].amount
<1>1. DOMAIN rs = 1 .. Len(rs) /\ Len(rs) \in Nat
  BY LenProperties
<1>2. IsFiniteSet(DOMAIN rs)
  BY <1>1, FS_Interval
<1>3. \A i \in DOMAIN rs : rs[i] \in Entry
  BY <1>1, ElementOfSeq
<1> QED BY <1>1, <1>2, <1>3 DEF Entry, State, AmountsOf

LEMMA StandingSum ==
    ASSUME NEW rs \in Seq(Entry), NEW S \in SUBSET DOMAIN rs
    PROVE  SumOf(AmountsOf(rs), S) \in Nat /\ IsFiniteSet(S)
<1>1. IsFiniteSet(DOMAIN rs) /\ \A i \in DOMAIN rs : AmountsOf(rs)[i] \in Nat
  BY EntriesAre
<1>2. IsFiniteSet(S)
  BY <1>1, FS_Subset
<1>3. (\A i \in S : AmountsOf(rs)[i] \in Nat) /\ S \in SUBSET S
  BY <1>1
<1> QED BY <1>2, <1>3, SumIsMonotone

\* One receipt more.
LEMMA BooksGrow ==
    ASSUME NEW ls, NEW rs, BooksFit(ls, rs), Opening \in [Loans -> Nat],
           NEW e \in Entry, e.live, e.voided = NotVoided, e.before = ls[e.loan],
           e.amount <= ls[e.loan].balance,
           NEW ms, ms = [ls EXCEPT ![e.loan] = [balance |-> @.balance - e.amount,
                                               version |-> @.version + 1]]
    PROVE  BooksFit(ms, Append(rs, e))
<1> DEFINE ps == Append(rs, e)
           k == Len(rs) + 1
<1>1. /\ ls \in [Loans -> State] /\ rs \in Seq(Entry) /\ e.loan \in Loans /\ e.amount \in Nat
      /\ e.live \in BOOLEAN
  BY DEF BooksFit, BooksTyped, Entry
<1>2. /\ ps \in Seq(Entry) /\ Len(ps) = k /\ k \in Nat /\ ps[k] = e
      /\ DOMAIN ps = DOMAIN rs \cup {k} /\ k \notin DOMAIN rs
      /\ \A i \in DOMAIN rs : ps[i] = rs[i]
  <2>1. /\ ps \in Seq(Entry) /\ Len(ps) = Len(rs) + 1 /\ ps[Len(rs) + 1] = e
        /\ \A i \in 1 .. Len(rs) : ps[i] = rs[i]
    BY <1>1, AppendProperties
  <2>2. DOMAIN ps = 1 .. Len(ps) /\ DOMAIN rs = 1 .. Len(rs) /\ Len(rs) \in Nat
    BY <1>1, <2>1, LenProperties
  <2> HIDE DEF ps
  <2>3. 1 .. (Len(rs) + 1) = 1 .. Len(rs) \cup {Len(rs) + 1}
    BY <2>2
  <2> QED BY <2>1, <2>2, <2>3
<1> HIDE DEF ps, k
<1>3. /\ ms \in [Loans -> State]
      /\ ms[e.loan].balance = ls[e.loan].balance - e.amount
      /\ ms[e.loan].version = ls[e.loan].version + 1
      /\ \A l \in Loans : l # e.loan => ms[l] = ls[l]
  BY <1>1 DEF State
<1>4. BooksTyped(ms, ps)
  BY <1>2, <1>3 DEF BooksTyped
<1>5. BalancesFit(ms, ps)
  <2> SUFFICES ASSUME NEW l \in Loans
               PROVE  ms[l].balance = Opening[l] - SumOf(AmountsOf(ps), Standing(ps, l))
    BY DEF BalancesFit
  <2> DEFINE S == Standing(rs, l)
             T == Standing(ps, l)
  <2>1. ls[l].balance = Opening[l] - SumOf(AmountsOf(rs), S)
    BY DEF BooksFit, BalancesFit
  <2>2. S \subseteq DOMAIN rs /\ T \subseteq DOMAIN ps
    BY DEF Standing
  <2>3. SumOf(AmountsOf(rs), S) \in Nat /\ IsFiniteSet(S)
    BY <1>1, <2>2, StandingSum
  <2>4. SumOf(AmountsOf(ps), S) = SumOf(AmountsOf(rs), S)
    <3>1. \A i \in S : AmountsOf(ps)[i] = AmountsOf(rs)[i]
      BY <1>2, <2>2 DEF AmountsOf
    <3> QED BY <3>1, SumOfSame
  <2>5. T = IF l = e.loan THEN S \cup {k} ELSE S
    BY <1>2 DEF Standing
  <2>6. \A i \in DOMAIN ps : AmountsOf(ps)[i] \in Nat
    BY <1>2, EntriesAre
  <2>7. AmountsOf(ps)[k] = e.amount
    BY <1>2 DEF AmountsOf
  <2>8. k \notin S /\ Opening[l] \in Nat
    BY <1>2, <2>2
  <2> HIDE DEF S, T
  <2>9. CASE l = e.loan
    <3>1. SumOf(AmountsOf(ps), S \cup {k}) = SumOf(AmountsOf(ps), S) + AmountsOf(ps)[k]
      <4>1. \A i \in S \cup {k} : AmountsOf(ps)[i] \in Int
        BY <1>2, <2>2, <2>6
      <4> QED BY <2>3, <2>8, <4>1, SumWith
    <3>2. SumOf(AmountsOf(ps), T) = SumOf(AmountsOf(rs), S) + e.amount
      BY <2>4, <2>5, <2>7, <2>9, <3>1
    <3>3. ms[l].balance = ls[l].balance - e.amount
      BY <1>3, <2>9
    <3> QED BY <1>1, <2>1, <2>3, <2>8, <3>2, <3>3 DEF T
  <2>10. CASE l # e.loan
    <3>1. ms[l].balance = ls[l].balance /\ T = S
      BY <1>3, <2>5, <2>10
    <3> QED BY <2>1, <2>4, <3>1 DEF S, T
  <2> QED BY <2>9, <2>10
<1>6. \A l \in Loans : ls[l] \in State /\ ls[l].version \in Nat /\ ls[l].balance \in Nat
  BY <1>1 DEF State
<1>7. LatestFits(ms, ps)
  <2> SUFFICES ASSUME NEW i \in DOMAIN ps
               PROVE  /\ ps[i].before.version < ms[ps[i].loan].version
                      /\ ps[i].live /\ ps[i].before.version + 1 = ms[ps[i].loan].version =>
                            ms[ps[i].loan].balance = ps[i].before.balance - ps[i].amount
    BY DEF LatestFits
  <2>1. CASE i = k
    BY <1>1, <1>2, <1>3, <1>6, <2>1
  <2>2. CASE i \in DOMAIN rs
    <3>1. ps[i] = rs[i] /\ rs[i].loan \in Loans /\ rs[i].before.version \in Nat
      BY <1>1, <1>2, <2>2, EntriesAre
    <3>2. /\ rs[i].before.version < ls[rs[i].loan].version
          /\ rs[i].live /\ rs[i].before.version + 1 = ls[rs[i].loan].version =>
                ls[rs[i].loan].balance = rs[i].before.balance - rs[i].amount
      BY <2>2 DEF BooksFit, LatestFits
    <3>3. CASE rs[i].loan = e.loan
      BY <1>3, <1>6, <3>1, <3>2, <3>3
    <3>4. CASE rs[i].loan # e.loan
      BY <1>3, <3>1, <3>2, <3>4
    <3> QED BY <3>3, <3>4
  <2> QED BY <1>2, <2>1, <2>2
<1>8. VoidsFit(ms, ps)
  <2> SUFFICES ASSUME NEW i \in DOMAIN ps
               PROVE  /\ ps[i].live => ps[i].voided = NotVoided
                      /\ ~ps[i].live => /\ ps[i].voided \in State
                                        /\ ps[i].voided.version <= ms[ps[i].loan].version
                                        /\ ps[i].voided.version = ms[ps[i].loan].version =>
                                              ms[ps[i].loan] = ps[i].voided
    BY DEF VoidsFit
  <2>1. CASE i = k
    BY <1>2, <2>1
  <2>2. CASE i \in DOMAIN rs
    <3>1. ps[i] = rs[i] /\ rs[i].loan \in Loans
      BY <1>1, <1>2, <2>2, EntriesAre
    <3>2. /\ rs[i].live => rs[i].voided = NotVoided
          /\ ~rs[i].live => /\ rs[i].voided \in State
                            /\ rs[i].voided.version <= ls[rs[i].loan].version
                            /\ rs[i].voided.version = ls[rs[i].loan].version =>
                                  ls[rs[i].loan] = rs[i].voided
      BY <2>2 DEF BooksFit, VoidsFit
    <3>3. rs[i].voided \in State => rs[i].voided.version \in Nat
      BY DEF State
    <3>4. CASE rs[i].loan = e.loan
      BY <1>3, <1>6, <3>1, <3>2, <3>3, <3>4
    <3>5. CASE rs[i].loan # e.loan
      BY <1>3, <3>1, <3>2, <3>5
    <3> QED BY <3>4, <3>5
  <2> QED BY <1>2, <2>1, <2>2
<1> QED BY <1>4, <1>5, <1>7, <1>8 DEF BooksFit, ps

\* One receipt less.
VoidedAt(rs, i, after) == [rs EXCEPT ![i].live = FALSE, ![i].voided = after]

RowVoided(rs, i, after, ps) ==
    /\ ps \in Seq(Entry) /\ DOMAIN ps = DOMAIN rs /\ Len(ps) = Len(rs)
    /\ \A j \in DOMAIN rs : j # i => ps[j] = rs[j]
    /\ ~ps[i].live /\ ps[i].voided = after
    /\ \A j \in DOMAIN rs :
          /\ ps[j].loan = rs[j].loan /\ ps[j].amount = rs[j].amount
          /\ ps[j].fund = rs[j].fund /\ ps[j].before = rs[j].before
          /\ ps[j].undo = rs[j].undo /\ ps[j].day = rs[j].day

LEMMA VoidedRows ==
    ASSUME NEW rs \in Seq(Entry), NEW i \in DOMAIN rs, NEW after \in State
    PROVE  RowVoided(rs, i, after, VoidedAt(rs, i, after))
<1> DEFINE ps == VoidedAt(rs, i, after)
<1>1. rs[i] \in Entry /\ DOMAIN rs = 1 .. Len(rs) /\ Len(rs) \in Nat
  BY EntriesAre
<1>2. [rs[i] EXCEPT !.live = FALSE, !.voided = after] \in Entry
  BY <1>1 DEF Entry
<1>3. ps = [rs EXCEPT ![i] = [rs[i] EXCEPT !.live = FALSE, !.voided = after]]
  BY <1>1 DEF VoidedAt, Entry
<1>4. ps \in Seq(Entry) /\ Len(ps) = Len(rs)
  BY <1>1, <1>2, <1>3, ExceptSeq
<1>5. DOMAIN ps = DOMAIN rs /\ (\A j \in DOMAIN rs : j # i => ps[j] = rs[j])
      /\ ps[i] = [rs[i] EXCEPT !.live = FALSE, !.voided = after]
  BY <1>3
<1> HIDE DEF ps
<1>6. /\ ~ps[i].live /\ ps[i].voided = after
      /\ ps[i].loan = rs[i].loan /\ ps[i].amount = rs[i].amount
      /\ ps[i].fund = rs[i].fund /\ ps[i].before = rs[i].before
      /\ ps[i].undo = rs[i].undo /\ ps[i].day = rs[i].day
  BY <1>1, <1>5 DEF Entry
<1> QED BY <1>4, <1>5, <1>6 DEF ps, RowVoided

RestoredBy(ls, rs, i, after) ==
    after = [balance |-> rs[i].before.balance, version |-> ls[rs[i].loan].version + 1]

LEMMA BooksVoided ==
    ASSUME NEW ls, NEW rs, BooksFit(ls, rs), Opening \in [Loans -> Nat],
           NEW i \in DOMAIN rs, rs[i].live,
           ls[rs[i].loan].balance = rs[i].before.balance - rs[i].amount,
           NEW after, RestoredBy(ls, rs, i, after)
    PROVE  after \in State /\ BooksFit([ls EXCEPT ![rs[i].loan] = after], VoidedAt(rs, i, after))
<1> DEFINE c == rs[i].loan
           ps == VoidedAt(rs, i, after)
           ms == [ls EXCEPT ![rs[i].loan] = after]
<1>1. /\ ls \in [Loans -> State] /\ rs \in Seq(Entry) /\ c \in Loans
      /\ rs[i].amount \in Nat /\ rs[i].before.balance \in Nat
  BY EntriesAre DEF BooksFit, BooksTyped
<1>2. after \in State
  BY <1>1 DEF State, RestoredBy
<1>3. /\ ps \in Seq(Entry) /\ DOMAIN ps = DOMAIN rs /\ Len(ps) = Len(rs)
      /\ \A j \in DOMAIN rs : j # i => ps[j] = rs[j]
      /\ ~ps[i].live /\ ps[i].voided = after
      /\ \A j \in DOMAIN rs :
            /\ ps[j].loan = rs[j].loan /\ ps[j].amount = rs[j].amount
            /\ ps[j].fund = rs[j].fund /\ ps[j].before = rs[j].before
  <2>1. RowVoided(rs, i, after, ps)
    BY <1>1, <1>2, VoidedRows
  <2> HIDE DEF ps
  <2> QED BY <2>1 DEF RowVoided
<1>4. /\ ms \in [Loans -> State] /\ ms[c] = after
      /\ ms[c].balance = ls[c].balance + rs[i].amount /\ ms[c].version = ls[c].version + 1
      /\ \A l \in Loans : l # c => ms[l] = ls[l]
  BY <1>1, <1>2 DEF State, RestoredBy
<1> HIDE DEF ps, ms, c
<1>5. BooksTyped(ms, ps)
  BY <1>3, <1>4 DEF BooksTyped
<1>6. BalancesFit(ms, ps)
  <2> SUFFICES ASSUME NEW l \in Loans
               PROVE  ms[l].balance = Opening[l] - SumOf(AmountsOf(ps), Standing(ps, l))
    BY DEF BalancesFit
  <2> DEFINE S == Standing(rs, l)
             T == Standing(ps, l)
  <2>1. ls[l].balance = Opening[l] - SumOf(AmountsOf(rs), S)
    BY DEF BooksFit, BalancesFit
  <2>2. S \subseteq DOMAIN rs /\ T \subseteq DOMAIN rs /\ T = S \ {i} /\ (i \in S <=> l = c)
    BY <1>3 DEF Standing, c
  <2>3. SumOf(AmountsOf(rs), S) \in Nat /\ IsFiniteSet(S) /\ SumOf(AmountsOf(rs), T) \in Nat
    BY <1>1, <2>2, StandingSum
  <2>4. SumOf(AmountsOf(ps), T) = SumOf(AmountsOf(rs), T)
    <3>1. \A j \in T : AmountsOf(ps)[j] = AmountsOf(rs)[j]
      BY <1>3, <2>2 DEF AmountsOf
    <3> QED BY <3>1, SumOfSame
  <2>5. Opening[l] \in Nat /\ AmountsOf(rs)[i] = rs[i].amount
    BY DEF AmountsOf
  <2>6. \A j \in S : AmountsOf(rs)[j] \in Int
    <3>1. \A j \in DOMAIN rs : AmountsOf(rs)[j] \in Nat
      BY <1>1, EntriesAre
    <3> QED BY <2>2, <3>1
  <2> HIDE DEF S, T
  <2>7. CASE l = c
    <3>1. SumOf(AmountsOf(rs), S) = AmountsOf(rs)[i] + SumOf(AmountsOf(rs), S \ {i})
      BY <2>2, <2>3, <2>6, <2>7, SumWithout
    <3>2. SumOf(AmountsOf(rs), S) = rs[i].amount + SumOf(AmountsOf(ps), T)
      BY <2>2, <2>4, <2>5, <3>1
    <3>3. ms[l].balance = ls[l].balance + rs[i].amount
      BY <1>4, <2>7
    <3> QED BY <1>1, <2>1, <2>3, <2>4, <2>5, <3>2, <3>3 DEF T
  <2>8. CASE l # c
    <3>1. ms[l].balance = ls[l].balance /\ T = S
      BY <1>4, <2>2, <2>8
    <3> QED BY <2>1, <2>4, <3>1 DEF S, T
  <2> QED BY <2>7, <2>8
<1>7. \A l \in Loans : ls[l] \in State /\ ls[l].version \in Nat /\ ls[l].balance \in Nat
  BY <1>1 DEF State
<1>8. LatestFits(ms, ps)
  <2> SUFFICES ASSUME NEW j \in DOMAIN rs
               PROVE  /\ ps[j].before.version < ms[ps[j].loan].version
                      /\ ps[j].live /\ ps[j].before.version + 1 = ms[ps[j].loan].version =>
                            ms[ps[j].loan].balance = ps[j].before.balance - ps[j].amount
    BY <1>3 DEF LatestFits
  <2>1. /\ rs[j].before.version < ls[rs[j].loan].version
        /\ rs[j].live /\ rs[j].before.version + 1 = ls[rs[j].loan].version =>
              ls[rs[j].loan].balance = rs[j].before.balance - rs[j].amount
    BY DEF BooksFit, LatestFits
  <2>2. /\ ps[j].loan = rs[j].loan /\ ps[j].amount = rs[j].amount /\ ps[j].before = rs[j].before
        /\ rs[j].loan \in Loans /\ rs[j].before.version \in Nat
    BY <1>1, <1>3, EntriesAre
  <2>3. CASE rs[j].loan = c
    BY <1>4, <1>7, <2>1, <2>2, <2>3
  <2>4. CASE rs[j].loan # c
    <3>1. j # i
      BY <2>4 DEF c
    <3> QED BY <1>3, <1>4, <2>1, <2>2, <2>4, <3>1
  <2> QED BY <2>3, <2>4
<1>9. VoidsFit(ms, ps)
  <2> SUFFICES ASSUME NEW j \in DOMAIN rs
               PROVE  /\ ps[j].live => ps[j].voided = NotVoided
                      /\ ~ps[j].live => /\ ps[j].voided \in State
                                        /\ ps[j].voided.version <= ms[ps[j].loan].version
                                        /\ ps[j].voided.version = ms[ps[j].loan].version =>
                                              ms[ps[j].loan] = ps[j].voided
    BY <1>3 DEF VoidsFit
  <2>1. CASE j = i
    <3>1. ps[j].voided = after /\ ~ps[j].live /\ ps[j].loan = c /\ after.version \in Nat
      BY <1>2, <1>3, <2>1 DEF c, State
    <3> QED BY <1>2, <1>4, <3>1
  <2>2. CASE j # i
    <3>1. ps[j] = rs[j] /\ rs[j].loan \in Loans
      BY <1>1, <1>3, <2>2, EntriesAre
    <3>2. /\ rs[j].live => rs[j].voided = NotVoided
          /\ ~rs[j].live => /\ rs[j].voided \in State
                            /\ rs[j].voided.version <= ls[rs[j].loan].version
                            /\ rs[j].voided.version = ls[rs[j].loan].version =>
                                  ls[rs[j].loan] = rs[j].voided
      BY DEF BooksFit, VoidsFit
    <3>3. rs[j].voided \in State => rs[j].voided.version \in Nat
      BY DEF State
    <3>4. CASE rs[j].loan = c
      BY <1>4, <1>7, <3>1, <3>2, <3>3, <3>4
    <3>5. CASE rs[j].loan # c
      BY <1>4, <3>1, <3>2, <3>5
    <3> QED BY <3>4, <3>5
  <2> QED BY <2>1, <2>2
<1> QED BY <1>2, <1>5, <1>6, <1>8, <1>9 DEF BooksFit, ps, ms

\* What is voided explains the balance, alone or after the void before it.
LEMMA ChainExplains ==
    ASSUME NEW st, BooksFit(st.loans, st.rs), NEW i \in DOMAIN st.rs, st.rs[i].live,
           NEW prev \in DOMAIN st.rs \cup {0}, Latest(st, st.rs[i], prev)
    PROVE  st.loans[st.rs[i].loan].balance = st.rs[i].before.balance - st.rs[i].amount
<1> DEFINE r == st.rs[i]
<1>1. CASE r.before.version + 1 = st.loans[r.loan].version
  BY <1>1 DEF BooksFit, LatestFits
<1>2. CASE r.before.version + 1 # st.loans[r.loan].version
  <2>1. /\ prev # 0 /\ st.rs[prev].loan = r.loan
        /\ st.rs[prev].voided = [balance |-> r.before.balance - r.amount,
                                 version |-> st.loans[r.loan].version]
    BY <1>2 DEF Latest
  <2>2. prev \in DOMAIN st.rs /\ st.rs[prev].voided.version = st.loans[r.loan].version
        /\ st.rs[prev].voided.balance = r.before.balance - r.amount
    BY <2>1
  <2>3. st.loans[r.loan].version # 0
    <3>1. st.loans \in [Loans -> State] /\ r.loan \in Loans
      BY EntriesAre DEF BooksFit, BooksTyped
    <3> QED BY <3>1 DEF State
  <2>4. ~st.rs[prev].live
    <3>1. st.rs[prev].live => st.rs[prev].voided = NotVoided
      BY <2>2 DEF BooksFit, VoidsFit
    <3> QED BY <2>2, <2>3, <3>1 DEF NotVoided
  <2>5. st.loans[r.loan] = st.rs[prev].voided
    BY <2>1, <2>2, <2>4 DEF BooksFit, VoidsFit
  <2> QED BY <2>2, <2>5
<1> QED BY <1>1, <1>2
-----------------------------------------------------------------------------
(* Posting the parts of an amount.                                         *)

Part == [loan : Loans, amount : Nat]
SharesOf(parts, l) == [k \in DOMAIN parts |-> IF parts[k].loan = l THEN parts[k].amount ELSE 0]

\* j is the next receipt of S on the loan of i; it found what i left.
NextOnLoan(rs, S, i, j) ==
    /\ i < j /\ rs[i].loan = rs[j].loan
    /\ \A n \in S : ~(i < n /\ n < j /\ rs[n].loan = rs[i].loan)
LeftBy(r) == [balance |-> r.before.balance - r.amount, version |-> r.before.version + 1]
ChainFits(rs, S) == \A i, j \in S : NextOnLoan(rs, S, i, j) => rs[j].before = LeftBy(rs[i])

\* The last receipt of S on a loan left the loan as it is.
LastOnLoan(rs, S, i) == \A n \in S : i < n => rs[n].loan # rs[i].loan
TipsFit(ls, rs, S) == \A i \in S : LastOnLoan(rs, S, i) => ls[rs[i].loan] = LeftBy(rs[i])

\* Where a loan has its version it has not changed.
LoansMoved(ls, ms) ==
    \A l \in Loans : /\ ls[l].version <= ms[l].version
                     /\ ls[l].version = ms[l].version => ms[l] = ls[l]

\* After the first n parts.
NewRows(rs, n) == {Len(rs) + k : k \in 1 .. n}
PostedTo(parts, fund, st, n) ==
    /\ st.fund = fund /\ BooksFit(st.loans, st.rs)
    /\ Len(st.rs) = Len(collected) + n
    /\ \A j \in DOMAIN collected : st.rs[j] = collected[j]
    /\ \A k \in 1 .. n : LET e == st.rs[Len(collected) + k] IN
          /\ e.loan = parts[k].loan /\ e.amount = parts[k].amount
          /\ e.fund = fund /\ e.live
    /\ \A l \in Loans : st.loans[l].balance = loans[l].balance - SumOf(SharesOf(parts, l), 1 .. n)
    /\ LoansMoved(loans, st.loans)
    /\ ChainFits(st.rs, NewRows(collected, n)) /\ TipsFit(st.loans, st.rs, NewRows(collected, n))

LEMMA SumUpTo ==
    ASSUME NEW f, NEW N \in Nat, \A k \in 1 .. N : f[k] \in Nat, NEW n \in 1 .. N
    PROVE  /\ SumOf(f, 1 .. n) = SumOf(f, 1 .. (n - 1)) + f[n]
           /\ SumOf(f, 1 .. n) \in Nat /\ SumOf(f, 1 .. (n - 1)) \in Nat
           /\ SumOf(f, 1 .. n) <= SumOf(f, 1 .. N) /\ SumOf(f, 1 .. N) \in Nat
<1>1. PICK T : T = 1 .. N
  OBVIOUS
<1>2. PICK U : U = 1 .. n
  OBVIOUS
<1>3. PICK S : S = 1 .. (n - 1)
  OBVIOUS
<1>4. U = S \cup {n} /\ n \notin S
  <2>1. \A x : x \in 1 .. n <=> x \in 1 .. (n - 1) \/ x = n
    OBVIOUS
  <2>2. n \notin 1 .. (n - 1)
    OBVIOUS
  <2> QED BY <1>2, <1>3, <2>1, <2>2
<1>5. U \in SUBSET T /\ S \in SUBSET T /\ T \in SUBSET T /\ n \in T
  <2>1. \A x : (x \in 1 .. n => x \in 1 .. N) /\ (x \in 1 .. (n - 1) => x \in 1 .. N)
    OBVIOUS
  <2> QED BY <1>1, <1>2, <1>3, <2>1
<1>6. IsFiniteSet(T) /\ IsFiniteSet(S) /\ \A k \in T : f[k] \in Nat
  <2>1. IsFiniteSet(1 .. N) /\ IsFiniteSet(1 .. (n - 1))
    BY FS_Interval
  <2> QED BY <1>1, <1>3, <2>1
<1>7. /\ SumOf(f, U) \in Nat /\ SumOf(f, S) \in Nat /\ SumOf(f, T) \in Nat
      /\ SumOf(f, U) <= SumOf(f, T)
  BY <1>5, <1>6, SumIsMonotone
<1>8. SumOf(f, S \cup {n}) = SumOf(f, S) + f[n]
  <2>1. \A y \in S \cup {n} : f[y] \in Int
    BY <1>5, <1>6
  <2> QED BY <1>4, <1>6, <2>1, SumWith
<1> QED BY <1>1, <1>2, <1>3, <1>4, <1>7, <1>8

\* What fits the loans.
PartsFit(parts) ==
    /\ parts \in Seq(Part)
    /\ \A l \in Loans : SumOf(SharesOf(parts, l), DOMAIN parts) <= loans[l].balance

NewEntry(st, part) ==
    [loan |-> part.loan, day |-> day, fund |-> st.fund, amount |-> part.amount,
     before |-> st.loans[part.loan], live |-> TRUE, voided |-> NotVoided, undo |-> NoUndo]

LEMMA PartsAre ==
    ASSUME NEW parts \in Seq(Part)
    PROVE  /\ DOMAIN parts = 1 .. Len(parts) /\ Len(parts) \in Nat /\ IsFiniteSet(DOMAIN parts)
           /\ \A k \in DOMAIN parts : /\ parts[k] \in Part /\ parts[k].loan \in Loans
                                      /\ parts[k].amount \in Nat
           /\ \A l \in Loans : \A k \in DOMAIN parts : SharesOf(parts, l)[k] \in Nat
<1>1. DOMAIN parts = 1 .. Len(parts) /\ Len(parts) \in Nat
  BY LenProperties
<1>2. IsFiniteSet(DOMAIN parts)
  BY <1>1, FS_Interval
<1>3. \A k \in DOMAIN parts : parts[k] \in Part
  BY <1>1, ElementOfSeq
<1> QED BY <1>1, <1>2, <1>3 DEF Part, SharesOf

\* The chain goes on.
LEMMA ChainGrows ==
    ASSUME NEW ls, NEW ms, NEW rs \in Seq(Entry), NEW ps \in Seq(Entry),
           ls \in [Loans -> State], ms \in [Loans -> State],
           NEW S \in SUBSET DOMAIN rs, NEW k \in Nat, k = Len(rs) + 1,
           Len(ps) = k, \A j \in DOMAIN rs : ps[j] = rs[j],
           ps[k].before = ls[ps[k].loan], ms[ps[k].loan] = LeftBy(ps[k]),
           \A l \in Loans : l # ps[k].loan => ms[l] = ls[l],
           ChainFits(rs, S), TipsFit(ls, rs, S)
    PROVE  ChainFits(ps, S \cup {k}) /\ TipsFit(ms, ps, S \cup {k})
<1>1. /\ \A j \in S : j \in Nat /\ j < k /\ ps[j] = rs[j] /\ rs[j].loan \in Loans
      /\ ps[k].loan \in Loans
  <2>1. DOMAIN rs = 1 .. Len(rs) /\ Len(rs) \in Nat /\ DOMAIN ps = 1 .. Len(ps)
    BY LenProperties
  <2>2. \A j \in S : j \in Nat /\ j < k /\ ps[j] = rs[j]
    BY <2>1
  <2>3. k \in DOMAIN ps
    BY <2>1
  <2>4. (\A j \in DOMAIN rs : rs[j].loan \in Loans) /\ (\A j \in DOMAIN ps : ps[j].loan \in Loans)
    BY EntriesAre
  <2> QED BY <2>2, <2>3, <2>4
<1>2. ASSUME NEW i \in S \cup {k}, NEW j \in S \cup {k}, NextOnLoan(ps, S \cup {k}, i, j)
      PROVE  ps[j].before = LeftBy(ps[i])
  <2>1. i \in S /\ i < j
    BY <1>1, <1>2 DEF NextOnLoan
  <2>2. CASE j \in S
    <3>1. NextOnLoan(rs, S, i, j)
      BY <1>1, <1>2, <2>1, <2>2 DEF NextOnLoan
    <3>2. rs[j].before = LeftBy(rs[i])
      BY <2>1, <2>2, <3>1 DEF ChainFits
    <3> QED BY <1>1, <2>1, <2>2, <3>2
  <2>3. CASE j = k
    <3>1. LastOnLoan(rs, S, i) /\ rs[i].loan = ps[k].loan
      BY <1>1, <1>2, <2>1, <2>3 DEF NextOnLoan, LastOnLoan
    <3>2. ls[rs[i].loan] = LeftBy(rs[i])
      BY <2>1, <3>1 DEF TipsFit
    <3> QED BY <1>1, <2>1, <2>3, <3>1, <3>2
  <2> QED BY <2>2, <2>3
<1>3. ASSUME NEW i \in S \cup {k}, LastOnLoan(ps, S \cup {k}, i)
      PROVE  ms[ps[i].loan] = LeftBy(ps[i])
  <2>1. CASE i = k
    BY <2>1
  <2>2. CASE i \in S
    <3>1. ps[k].loan # rs[i].loan /\ LastOnLoan(rs, S, i)
      BY <1>1, <1>3, <2>2 DEF LastOnLoan
    <3>2. ls[rs[i].loan] = LeftBy(rs[i])
      BY <2>2, <3>1 DEF TipsFit
    <3> QED BY <1>1, <2>2, <3>1, <3>2
  <2> QED BY <2>1, <2>2
<1> QED BY <1>2, <1>3 DEF ChainFits, TipsFit

\* One part.
LEMMA PostOneGoesOn ==
    ASSUME Opening \in [Loans -> Nat], day \in Nat, loans \in [Loans -> State],
           collected \in Seq(Entry), NEW parts, PartsFit(parts),
           NEW fund \in Funds \cup {Cash}, NEW n \in 1 .. Len(parts), NEW st,
           PostedTo(parts, fund, st, n - 1)
    PROVE  PostedTo(parts, fund, PostOne(st, parts[n]), n)
<1> DEFINE p == parts[n]
           e == NewEntry(st, p)
           nx == PostOne(st, p)
           l0 == p.loan
<1>0. /\ n \in Nat \ {0} /\ n - 1 \in Nat /\ n \in DOMAIN parts /\ p \in Part /\ l0 \in Loans
      /\ p.amount \in Nat
  BY PartsAre DEF PartsFit
<1>1. /\ st.fund = fund /\ BooksFit(st.loans, st.rs) /\ Len(st.rs) = Len(collected) + (n - 1)
      /\ \A j \in DOMAIN collected : st.rs[j] = collected[j]
      /\ LoansMoved(loans, st.loans)
  BY DEF PostedTo
<1>2. st.loans \in [Loans -> State] /\ st.rs \in Seq(Entry)
  BY <1>1 DEF BooksFit, BooksTyped
<1>3. /\ nx.fund = fund /\ nx.rs = Append(st.rs, e)
      /\ nx.loans = [st.loans EXCEPT ![l0] = [balance |-> @.balance - p.amount,
                                             version |-> @.version + 1]]
  BY <1>1 DEF PostOne, NewEntry
<1>4. /\ e \in Entry /\ e.live /\ e.voided = NotVoided /\ e.before = st.loans[e.loan]
      /\ e.loan = l0 /\ e.amount = p.amount /\ e.fund = fund
  <2>1. NoUndo \in [rev : Nat, reason : Reasons \cup {"none"}] /\ st.loans[l0] \in State
    BY <1>0, <1>2 DEF NoUndo
  <2> QED BY <1>0, <1>1, <2>1 DEF NewEntry, Entry
<1> HIDE DEF e, nx
<1>5. \A l \in Loans :
        SumOf(SharesOf(parts, l), 1 .. n) = SumOf(SharesOf(parts, l), 1 .. (n - 1))
                                            + (IF l = l0 THEN p.amount ELSE 0)
        /\ SumOf(SharesOf(parts, l), 1 .. n) <= loans[l].balance
        /\ SumOf(SharesOf(parts, l), 1 .. (n - 1)) \in Nat
        /\ SumOf(SharesOf(parts, l), 1 .. n) \in Nat
  <2> SUFFICES ASSUME NEW l \in Loans
               PROVE  /\ SumOf(SharesOf(parts, l), 1 .. n)
                         = SumOf(SharesOf(parts, l), 1 .. (n - 1)) + (IF l = l0 THEN p.amount ELSE 0)
                      /\ SumOf(SharesOf(parts, l), 1 .. n) <= loans[l].balance
                      /\ SumOf(SharesOf(parts, l), 1 .. (n - 1)) \in Nat
                      /\ SumOf(SharesOf(parts, l), 1 .. n) \in Nat
    OBVIOUS
  <2> DEFINE f == SharesOf(parts, l)
             N == Len(parts)
  <2>1. /\ DOMAIN parts = 1 .. N /\ N \in Nat /\ IsFiniteSet(1 .. N)
        /\ \A k \in 1 .. N : f[k] \in Nat
    <3>1. parts \in Seq(Part)
      BY DEF PartsFit
    <3> QED BY <3>1, PartsAre
  <2>2. f[n] = IF l = l0 THEN p.amount ELSE 0
    BY <1>0 DEF SharesOf
  <2>3. SumOf(f, 1 .. N) <= loans[l].balance /\ loans[l].balance \in Nat
    <3>1. loans[l].balance \in Nat
      BY DEF State
    <3> QED BY <2>1, <3>1 DEF PartsFit
  <2> HIDE DEF f
  <2>4. n \in 1 .. N
    OBVIOUS
  <2> HIDE DEF N
  <2>5. /\ SumOf(f, 1 .. n) = SumOf(f, 1 .. (n - 1)) + f[n]
        /\ SumOf(f, 1 .. n) \in Nat /\ SumOf(f, 1 .. (n - 1)) \in Nat
        /\ SumOf(f, 1 .. n) <= SumOf(f, 1 .. N) /\ SumOf(f, 1 .. N) \in Nat
    BY <2>1, <2>4, SumUpTo
  <2> QED BY <2>2, <2>3, <2>5 DEF f
<1>6. \A l \in Loans : st.loans[l].balance
                       = loans[l].balance - SumOf(SharesOf(parts, l), 1 .. (n - 1))
  BY DEF PostedTo
<1>7. \A l \in Loans : /\ st.loans[l].balance \in Nat /\ st.loans[l].version \in Nat
                       /\ loans[l].balance \in Nat /\ loans[l].version \in Nat
  BY <1>2 DEF State
<1>8. e.amount <= st.loans[e.loan].balance
  <2> DEFINE a == SumOf(SharesOf(parts, l0), 1 .. (n - 1))
             b == SumOf(SharesOf(parts, l0), 1 .. n)
  <2>1. a \in Nat /\ b = a + p.amount /\ b <= loans[l0].balance
    BY <1>0, <1>5
  <2>2. st.loans[l0].balance = loans[l0].balance - a /\ loans[l0].balance \in Nat
    BY <1>0, <1>6, <1>7
  <2> HIDE DEF a, b
  <2>3. p.amount <= st.loans[l0].balance
    BY <1>0, <2>1, <2>2
  <2> QED BY <1>4, <2>3
<1>9. BooksFit(nx.loans, nx.rs)
  <2>1. BooksFit(st.loans, st.rs) /\ e.before = st.loans[e.loan]
    BY <1>1, <1>4
  <2>2. nx.loans = [st.loans EXCEPT ![e.loan] = [balance |-> @.balance - e.amount,
                                                version |-> @.version + 1]]
    BY <1>3, <1>4
  <2>3. BooksFit(nx.loans, Append(st.rs, e))
    BY <1>4, <1>8, <2>1, <2>2, BooksGrow
  <2> QED BY <1>3, <2>3
<1>10. /\ nx.rs \in Seq(Entry) /\ Len(nx.rs) = Len(st.rs) + 1 /\ nx.rs[Len(st.rs) + 1] = e
       /\ \A j \in DOMAIN st.rs : nx.rs[j] = st.rs[j]
       /\ DOMAIN st.rs = 1 .. Len(st.rs) /\ DOMAIN collected = 1 .. Len(collected)
       /\ Len(collected) \in Nat
  BY <1>2, <1>3, <1>4, AppendProperties, LenProperties
<1>11. Len(nx.rs) = Len(collected) + n
  BY <1>0, <1>1, <1>10
<1>12. Len(collected) + n = Len(st.rs) + 1
  BY <1>0, <1>1, <1>10
<1>13. \A j \in DOMAIN collected : nx.rs[j] = collected[j]
  <2> TAKE j \in DOMAIN collected
  <2>1. j \in DOMAIN st.rs
    BY <1>0, <1>1, <1>10
  <2> QED BY <1>1, <1>10, <2>1
<1>14. \A k \in 1 .. n : LET r == nx.rs[Len(collected) + k] IN
          r.loan = parts[k].loan /\ r.amount = parts[k].amount /\ r.fund = fund /\ r.live
  <2> SUFFICES ASSUME NEW k \in 1 .. n
               PROVE  LET r == nx.rs[Len(collected) + k] IN
                      /\ r.loan = parts[k].loan /\ r.amount = parts[k].amount
                      /\ r.fund = fund /\ r.live
    OBVIOUS
  <2>1. CASE k = n
    BY <1>4, <1>10, <1>12, <2>1
  <2>2. CASE k # n
    <3>1. k \in 1 .. (n - 1)
      BY <1>0, <2>2
    <3>2. Len(collected) + k \in DOMAIN st.rs
      BY <1>0, <1>1, <1>10, <3>1
    <3>3. nx.rs[Len(collected) + k] = st.rs[Len(collected) + k]
      BY <1>10, <3>2
    <3>4. LET r == st.rs[Len(collected) + k] IN
          r.loan = parts[k].loan /\ r.amount = parts[k].amount /\ r.fund = fund /\ r.live
      BY <3>1 DEF PostedTo
    <3> QED BY <3>3, <3>4
  <2> QED BY <2>1, <2>2
<1>15. /\ nx.loans \in [Loans -> State]
       /\ nx.loans[l0].balance = st.loans[l0].balance - p.amount
       /\ nx.loans[l0].version = st.loans[l0].version + 1
       /\ nx.loans[l0] = [balance |-> st.loans[l0].balance - p.amount,
                          version |-> st.loans[l0].version + 1]
       /\ \A l \in Loans : l # l0 => nx.loans[l] = st.loans[l]
  <2>1. nx.loans \in [Loans -> State]
    BY <1>9 DEF BooksFit, BooksTyped
  <2> QED BY <1>0, <1>2, <1>3, <2>1
<1> HIDE DEF l0, p
<1>16. \A l \in Loans : nx.loans[l].balance = loans[l].balance - SumOf(SharesOf(parts, l), 1 .. n)
  <2> TAKE l \in Loans
  <2>1. CASE l = l0
    <3> DEFINE a == SumOf(SharesOf(parts, l), 1 .. (n - 1))
               b == SumOf(SharesOf(parts, l), 1 .. n)
    <3>1. a \in Nat /\ b = a + p.amount
      BY <1>5, <2>1
    <3>2. st.loans[l].balance = loans[l].balance - a /\ loans[l].balance \in Nat
      BY <1>6, <1>7
    <3>3. nx.loans[l].balance = st.loans[l].balance - p.amount
      BY <1>15, <2>1
    <3> HIDE DEF a, b
    <3>4. nx.loans[l].balance = loans[l].balance - b
      BY <1>0, <3>1, <3>2, <3>3
    <3> QED BY <3>4 DEF b
  <2>2. CASE l # l0
    <3>1. SumOf(SharesOf(parts, l), 1 .. n) = SumOf(SharesOf(parts, l), 1 .. (n - 1))
      BY <1>5, <2>2
    <3> QED BY <1>6, <1>15, <2>2, <3>1
  <2> QED BY <2>1, <2>2
<1>17. LoansMoved(loans, nx.loans)
  <2> SUFFICES ASSUME NEW l \in Loans
               PROVE  /\ loans[l].version <= nx.loans[l].version
                      /\ loans[l].version = nx.loans[l].version => nx.loans[l] = loans[l]
    BY DEF LoansMoved
  <2>1. /\ loans[l].version <= st.loans[l].version
        /\ loans[l].version = st.loans[l].version => st.loans[l] = loans[l]
    BY <1>1 DEF LoansMoved
  <2>2. CASE l = l0
    BY <1>7, <1>15, <2>1, <2>2
  <2>3. CASE l # l0
    BY <1>15, <2>1, <2>3
  <2> QED BY <2>2, <2>3
<1>18. /\ ChainFits(nx.rs, NewRows(collected, n))
       /\ TipsFit(nx.loans, nx.rs, NewRows(collected, n))
  <2> DEFINE S == NewRows(collected, n - 1)
             k == Len(collected) + n
  <2>1. ChainFits(st.rs, S) /\ TipsFit(st.loans, st.rs, S)
    BY DEF PostedTo
  <2>2. S \subseteq DOMAIN st.rs
    <3>1. PICK m \in Nat : m = Len(collected)
      BY <1>10
    <3>2. DOMAIN st.rs = 1 .. (m + (n - 1))
      BY <1>1, <1>10, <3>1
    <3>3. \A j \in 1 .. (n - 1) : m + j \in 1 .. (m + (n - 1))
      BY <1>0
    <3> QED BY <3>1, <3>2, <3>3 DEF NewRows
  <2>3. NewRows(collected, n) = S \cup {k}
    <3>1. \A x \in 1 .. n : x \in 1 .. (n - 1) \/ x = n
      BY <1>0
    <3>2. \A x \in 1 .. (n - 1) : x \in 1 .. n
      BY <1>0
    <3>3. n \in 1 .. n
      BY <1>0
    <3> QED BY <3>1, <3>2, <3>3 DEF NewRows
  <2>4. /\ k \in Nat /\ k = Len(st.rs) + 1 /\ Len(nx.rs) = k /\ nx.rs[k] = e
    BY <1>0, <1>10, <1>11, <1>12
  <2>5. nx.loans[e.loan] = LeftBy(e)
    <3>1. e.before = st.loans[l0] /\ e.amount = p.amount /\ e.loan = l0
      BY <1>4
    <3> QED BY <1>15, <3>1 DEF LeftBy
  <2> HIDE DEF S, k
  <2>6. ChainFits(nx.rs, S \cup {k}) /\ TipsFit(nx.loans, nx.rs, S \cup {k})
    <3>1. nx.rs[k].before = st.loans[nx.rs[k].loan] /\ nx.rs[k].loan = l0
          /\ nx.loans[nx.rs[k].loan] = LeftBy(nx.rs[k])
      BY <1>4, <2>4, <2>5
    <3>2. \A l \in Loans : l # nx.rs[k].loan => nx.loans[l] = st.loans[l]
      BY <1>15, <3>1
    <3>3. nx.loans \in [Loans -> State] /\ nx.rs \in Seq(Entry)
          /\ \A j \in DOMAIN st.rs : nx.rs[j] = st.rs[j]
      BY <1>10, <1>15
    <3> HIDE DEF nx
    <3> QED BY <1>2, <2>1, <2>2, <2>4, <3>1, <3>2, <3>3, ChainGrows
  <2> QED BY <2>3, <2>6
<1>19. PostedTo(parts, fund, nx, n)
  BY <1>3, <1>9, <1>11, <1>13, <1>14, <1>16, <1>17, <1>18 DEF PostedTo
<1> QED BY <1>19 DEF nx, p

\* All parts.
LEMMA PostAllGoes ==
    ASSUME Opening \in [Loans -> Nat], day \in Nat, BooksFit(loans, collected),
           NEW parts, PartsFit(parts), NEW fund \in Funds \cup {Cash}
    PROVE  PostedTo(parts, fund, PostAll(parts, fund), Len(parts))
<1> DEFINE base == [loans |-> loans, rs |-> collected, fund |-> fund]
           N == Len(parts)
<1>1. DOMAIN parts = 1 .. N /\ N \in Nat
  BY PartsAre DEF PartsFit
<1>2. loans \in [Loans -> State] /\ collected \in Seq(Entry)
  BY DEF BooksFit, BooksTyped
<1>3. PICK st : GoesThrough("post", base, parts, st, PostAll(parts, fund))
  <2>1. PostAll(parts, fund) = FoldOf("post", base, parts)
    BY PostAllFold
  <2> HIDE DEF base
  <2>2. \E st : GoesThrough("post", base, parts, st, FoldOf("post", base, parts))
    BY <1>1, FoldGoesThrough
  <2> QED BY <2>1, <2>2
<1>4. PostedTo(parts, fund, st[0], 0)
  <2>1. st[0] = base
    BY <1>3 DEF GoesThrough
  <2>2. 1 .. 0 = {} /\ NewRows(collected, 0) = {}
    BY DEF NewRows
  <2>3. \A l \in Loans : SumOf(SharesOf(parts, l), {}) = 0 /\ loans[l].balance \in Nat
    BY <1>2, SumOfNone DEF State
  <2>4. LoansMoved(loans, loans)
    BY <1>2 DEF LoansMoved, State
  <2>5. Len(collected) \in Nat
    BY <1>2, LenProperties
  <2>6. base.fund = fund /\ base.loans = loans /\ base.rs = collected
    OBVIOUS
  <2> HIDE DEF base
  <2>7. ChainFits(collected, {}) /\ TipsFit(loans, collected, {})
    BY DEF ChainFits, TipsFit
  <2>8. \A l \in Loans : loans[l].balance = loans[l].balance - SumOf(SharesOf(parts, l), 1 .. 0)
    BY <2>2, <2>3
  <2>9. Len(collected) = Len(collected) + 0
    BY <2>5
  <2> QED BY <2>1, <2>2, <2>4, <2>6, <2>7, <2>8, <2>9 DEF PostedTo
<1> DEFINE B == {n \in 0 .. N : ~PostedTo(parts, fund, st[n], n)}
<1>5. B = {}
  <2> SUFFICES ASSUME B # {} PROVE FALSE
    OBVIOUS
  <2>1. PICK n \in B : \A m \in B : n <= m
    <3>1. B \subseteq 0 .. N
      OBVIOUS
    <3> HIDE DEF B
    <3> QED BY <1>1, <3>1, FirstOf
  <2>2. n # 0
    BY <1>4, <2>1
  <2>3. n \in 1 .. N /\ n - 1 \in 0 .. N /\ ~(n <= n - 1)
    BY <1>1, <2>1, <2>2
  <2>4. PostedTo(parts, fund, st[n - 1], n - 1)
    BY <2>1, <2>3
  <2>5. st[n] = PostOne(st[n - 1], parts[n])
    <3>1. st[n] = StepOf("post", st[n - 1], parts[n])
      BY <1>3, <2>3 DEF GoesThrough
    <3> QED BY <3>1 DEF StepOf
  <2>6. PostedTo(parts, fund, st[n], n)
    BY <1>2, <2>3, <2>4, <2>5, PostOneGoesOn
  <2> QED BY <2>1, <2>6
<1>6. PostedTo(parts, fund, st[N], N)
  BY <1>1, <1>5
<1>7. PostAll(parts, fund) = st[N]
  BY <1>3 DEF GoesThrough
<1> QED BY <1>6, <1>7
-----------------------------------------------------------------------------
(* The parts of an amount.                                                 *)

LEMMA LeastIs ==
    ASSUME NEW x \in Int, NEW y \in Int
    PROVE  /\ Least(x, y) = IF x <= y THEN x ELSE y
           /\ AtLeast0(x) = IF x <= 0 THEN 0 ELSE x
<1>1. Least(x, y) \in {x, y} /\ \A z \in {x, y} : Least(x, y) <= z
  <2>1. \E m \in {x, y} : \A z \in {x, y} : m <= z
    OBVIOUS
  <2>2. Least(x, y) = CHOOSE m \in {x, y} : \A z \in {x, y} : m <= z
    BY DEF Least, Min
  <2> QED BY <2>1, <2>2
<1>2. AtLeast0(x) \in {0, x} /\ \A z \in {0, x} : AtLeast0(x) >= z
  <2>1. \E m \in {0, x} : \A z \in {0, x} : m >= z
    OBVIOUS
  <2>2. AtLeast0(x) = CHOOSE m \in {0, x} : \A z \in {0, x} : m >= z
    BY DEF AtLeast0, Max
  <2> QED BY <2>1, <2>2
<1> QED BY <1>1, <1>2

CashOf(parts) == [k \in DOMAIN parts |-> parts[k].amount]
AmountOf(parts) == SumOf(CashOf(parts), DOMAIN parts)

\* A share that is nothing is no part.
Share(l, share) == IF share > 0 THEN <<[loan |-> l, amount |-> share]>> ELSE <<>>

\* Parts of an amount for the loans of L.
SplitOf(s, L, amount) ==
    s \in Seq(Part) /\ AmountOf(s) = amount /\ \A k \in DOMAIN s : s[k].loan \in L

LEMMA ShareAdds ==
    ASSUME NEW s, NEW L \in SUBSET Loans, NEW amount \in Nat, SplitOf(s, L, amount),
           NEW l, NEW share \in Nat, share > 0 => l \in L
    PROVE  SplitOf(s \o Share(l, share), L, amount + share)
<1>s. s \in Seq(Part) /\ AmountOf(s) = amount /\ \A k \in DOMAIN s : s[k].loan \in L
  BY DEF SplitOf
<1>1. CASE share = 0
  <2>1. Share(l, share) = <<>>
    BY <1>1 DEF Share
  <2>2. s \o <<>> = s
    BY <1>s, ConcatEmptySeq
  <2>3. s \o Share(l, share) = s
    BY <2>1, <2>2
  <2>4. amount + share = amount
    BY <1>1
  <2> QED BY <2>3, <2>4
<1>2. CASE share # 0
  <2> DEFINE p == [loan |-> l, amount |-> share]
             t == s \o <<p>>
             k == Len(s) + 1
  <2>1. Share(l, share) = <<p>> /\ p \in Part /\ p.loan \in L /\ p.amount = share
    BY <1>2 DEF Share, Part
  <2>2. /\ t \in Seq(Part) /\ Len(t) = k /\ t[k] = p
        /\ \A j \in 1 .. Len(s) : t[j] = s[j]
    <3>1. <<p>> \in Seq(Part) /\ Len(<<p>>) = 1 /\ <<p>>[1] = p
      BY <2>1
    <3> HIDE DEF p
    <3>2. /\ t \in Seq(Part) /\ Len(t) = Len(s) + Len(<<p>>)
          /\ \A j \in 1 .. Len(s) + Len(<<p>>) :
                t[j] = IF j <= Len(s) THEN s[j] ELSE <<p>>[j - Len(s)]
      BY <1>s, <3>1, ConcatProperties
    <3>3. Len(s) \in Nat
      BY <1>s, LenProperties
    <3> HIDE DEF t
    <3>4. Len(t) = k
      BY <3>1, <3>2
    <3>5. t[k] = <<p>>[k - Len(s)] /\ k - Len(s) = 1
      BY <3>1, <3>2, <3>3
    <3>6. \A j \in 1 .. Len(s) : t[j] = s[j]
      BY <3>1, <3>2, <3>3
    <3> QED BY <3>1, <3>2, <3>4, <3>5, <3>6
  <2>3. Len(s) \in Nat /\ DOMAIN s = 1 .. Len(s) /\ IsFiniteSet(DOMAIN s)
    BY <1>s, PartsAre
  <2> HIDE DEF t, p
  <2>4. DOMAIN t = DOMAIN s \cup {k} /\ k \notin DOMAIN s
    <3>1. DOMAIN t = 1 .. k
      BY <2>2, LenProperties
    <3>2. 1 .. (Len(s) + 1) = 1 .. Len(s) \cup {Len(s) + 1}
      BY <2>3
    <3> QED BY <2>3, <3>1, <3>2
  <2> HIDE DEF k
  <2>5. \A j \in DOMAIN t : t[j].loan \in L
    BY <1>s, <2>1, <2>2, <2>3, <2>4
  <2>6. AmountOf(t) = AmountOf(s) + share
    <3>1. \A j \in DOMAIN s : CashOf(t)[j] = CashOf(s)[j]
      BY <2>2, <2>3, <2>4 DEF CashOf
    <3>2. SumOf(CashOf(t), DOMAIN s) = AmountOf(s)
      BY <3>1, SumOfSame DEF AmountOf
    <3>3. \A j \in DOMAIN s \cup {k} : CashOf(t)[j] \in Int
      BY <2>2, <2>4, PartsAre DEF CashOf
    <3>4. SumOf(CashOf(t), DOMAIN s \cup {k}) = SumOf(CashOf(t), DOMAIN s) + CashOf(t)[k]
      BY <2>3, <2>4, <3>3, SumWith
    <3>5. CashOf(t)[k] = share
      BY <2>1, <2>2, <2>4 DEF CashOf
    <3> QED BY <2>4, <3>2, <3>4, <3>5 DEF AmountOf
  <2>7. SplitOf(t, L, amount + share)
    BY <1>s, <2>2, <2>5, <2>6 DEF SplitOf
  <2> QED BY <2>1, <2>7 DEF t
<1> QED BY <1>1, <1>2

LEMMA DueIsNat ==
    ASSUME BooksFit(loans, collected), Daily \in [Loans -> Nat \ {0}], NEW l \in Loans
    PROVE  Due(l) \in Nat
<1> DEFINE S == {i \in DOMAIN collected : collected[i].live /\ collected[i].loan = l
                                          /\ collected[i].day = day}
<1>1. collected \in Seq(Entry) /\ loans[l].balance \in Nat
  BY DEF BooksFit, BooksTyped, State
<1>2. Total(collected, S) \in Nat
  <2>1. S \in SUBSET DOMAIN collected
    OBVIOUS
  <2> HIDE DEF S
  <2>2. SumOf(AmountsOf(collected), S) \in Nat
    BY <1>1, <2>1, StandingSum
  <2> QED BY <2>1, <2>2, TotalIsSum
<1> DEFINE x == Daily[l] - Total(collected, S)
<1>3. x \in Int
  <2> HIDE DEF S
  <2> QED BY <1>2
<1>4. Due(l) = AtLeast0(Least(loans[l].balance, x))
  BY DEF Due, PaidToday
<1> HIDE DEF x
<1>5. Least(loans[l].balance, x) \in Int
  BY <1>1, <1>3, LeastIs
<1> QED BY <1>4, <1>5, LeastIs

\* Whatever the dues, the parts add up to the amount and are for the selected loans.
LEMMA PartsSplit ==
    ASSUME BooksFit(loans, collected), Daily \in [Loans -> Nat \ {0}],
           NEW selected \in SUBSET Loans, selected # {},
           \A l, k \in selected \ {1} : l = k, NEW amount \in Nat
    PROVE  SplitOf(Parts(selected, amount), selected, amount)
<1> DEFINE seven == IF 1 \in selected THEN Least(amount, Due(1)) ELSE 0
           regular == CHOOSE l \in selected \ {1} : TRUE
           rest == CASE selected = {1} -> 0
                     [] 1 \notin selected -> amount
                     [] OTHER -> Least(amount - seven, Due(regular))
           extra == amount - seven - rest
<1>1. Parts(selected, amount) = (Share(1, seven) \o Share(regular, rest)) \o Share(1, extra)
  BY DEF Parts, Share
<1>2. seven \in Nat /\ seven <= amount /\ (seven > 0 => 1 \in selected)
  <2>1. CASE 1 \in selected
    <3>1. Due(1) \in Nat
      BY <2>1, DueIsNat
    <3> QED BY <2>1, <3>1, LeastIs
  <2>2. CASE 1 \notin selected
    BY <2>2
  <2> QED BY <2>1, <2>2
<1>3. rest \in Nat /\ rest <= amount - seven /\ (rest > 0 => regular \in selected)
      /\ (1 \notin selected => rest = amount /\ seven = 0)
  <2>1. CASE selected = {1}
    BY <1>2, <2>1
  <2>2. CASE 1 \notin selected
    BY <2>2
  <2>3. CASE selected # {1} /\ 1 \in selected
    <3>1. regular \in selected \ {1}
      BY <2>3
    <3>2. Due(regular) \in Nat
      BY <3>1, DueIsNat
    <3> DEFINE x == amount - seven
    <3>3. x \in Nat
      BY <1>2
    <3>4. rest = Least(x, Due(regular))
      BY <2>3
    <3> HIDE DEF x, regular, rest, seven
    <3>5. rest \in Nat /\ rest <= x
      BY <3>2, <3>3, <3>4, LeastIs
    <3> QED BY <2>3, <3>1, <3>5 DEF x
  <2> QED BY <2>1, <2>2, <2>3
<1>4. extra \in Nat /\ (extra > 0 => 1 \in selected) /\ seven + rest + extra = amount
  <2> HIDE DEF seven, rest
  <2> QED BY <1>2, <1>3
<1> HIDE DEF seven, rest, extra, regular
<1>5. SplitOf(<<>>, selected, 0)
  <2>1. <<>> \in Seq(Part) /\ DOMAIN <<>> = {}
    OBVIOUS
  <2>2. AmountOf(<<>>) = 0
    BY <2>1, SumOfNone DEF AmountOf
  <2> QED BY <2>1, <2>2 DEF SplitOf
<1>6. SplitOf(Share(1, seven), selected, seven)
  <2>1. SplitOf(<<>> \o Share(1, seven), selected, 0 + seven)
    BY <1>2, <1>5, ShareAdds
  <2>2. <<>> \o Share(1, seven) = Share(1, seven) /\ 0 + seven = seven
    BY <1>2, ConcatEmptySeq DEF Share
  <2> QED BY <2>1, <2>2
<1>7. SplitOf(Share(1, seven) \o Share(regular, rest), selected, seven + rest)
  BY <1>2, <1>3, <1>6, ShareAdds
<1>8. SplitOf(Parts(selected, amount), selected, seven + rest + extra)
  <2>1. seven + rest \in Nat
    BY <1>2, <1>3
  <2> QED BY <1>1, <1>4, <1>7, <2>1, ShareAdds
<1> QED BY <1>4, <1>8

\* The shares that Within adds up.
LEMMA SharesAreSum ==
    ASSUME NEW parts, NEW l
    PROVE  MapThenSumSet(LAMBDA i : IF parts[i].loan = l THEN parts[i].amount ELSE 0, DOMAIN parts)
           = SumOf(SharesOf(parts, l), DOMAIN parts)
<1> DEFINE S == DOMAIN parts
           f == SharesOf(parts, l)
           term(i) == IF parts[i].loan = l THEN parts[i].amount ELSE 0
<1>1. \A s \in SUBSET S : s # {} => f[Pick(s)] = term(Pick(s))
  BY PickIsMember DEF SharesOf
<1>2. ASSUME NEW g
      PROVE  [s \in SUBSET S |-> IF s = {} THEN 0 ELSE f[Pick(s)] + g[s \ {Pick(s)}]]
             = [s \in SUBSET S |-> IF s = {} THEN 0 ELSE term(Pick(s)) + g[s \ {Pick(s)}]]
  BY <1>1
<1> DEFINE Eq(g) == g = [s \in SUBSET S |-> IF s = {} THEN 0 ELSE term(Pick(s)) + g[s \ {Pick(s)}]]
<1>3. \A g : IsSum(f, g, S) <=> Eq(g)
  BY <1>2 DEF IsSum
<1>4. (CHOOSE g : IsSum(f, g, S)) = (CHOOSE g : Eq(g))
  BY <1>3
<1>5. SumOf(f, S) = (CHOOSE g : IsSum(f, g, S))[S]
  BY DEF SumOf, MapThenSumSet, MapThenFoldSet, IsSum, Pick
<1>6. MapThenSumSet(LAMBDA i : IF parts[i].loan = l THEN parts[i].amount ELSE 0, S)
      = (CHOOSE g : Eq(g))[S]
  BY DEF MapThenSumSet, MapThenFoldSet, Pick
<1> QED BY <1>4, <1>5, <1>6

\* A loan that has no part has no share.
LEMMA NoShare ==
    ASSUME NEW parts \in Seq(Part), NEW l, \A k \in DOMAIN parts : parts[k].loan # l
    PROVE  SumOf(SharesOf(parts, l), DOMAIN parts) = 0
<1>1. IsFiniteSet(DOMAIN parts)
  BY PartsAre
<1>2. \A k \in DOMAIN parts : SharesOf(parts, l)[k] = 0
  BY DEF SharesOf
<1> QED BY <1>1, <1>2, SumOfZeros

-----------------------------------------------------------------------------
(* Voiding receipt after receipt.                                          *)

\* The receipts of ids, and no others, were taken back.
TakenBack(rs, ps, ids) ==
    /\ ps \in Seq(Entry) /\ DOMAIN ps = DOMAIN rs /\ Len(ps) = Len(rs)
    /\ \A i \in DOMAIN rs : i \notin ids => ps[i] = rs[i]
    /\ \A i \in DOMAIN rs : i \in ids => rs[i].live /\ ~ps[i].live
    /\ \A i \in DOMAIN rs :
          /\ ps[i].loan = rs[i].loan /\ ps[i].amount = rs[i].amount
          /\ ps[i].fund = rs[i].fund /\ ps[i].before = rs[i].before
          /\ ps[i].undo = rs[i].undo /\ ps[i].day = rs[i].day

RunFits(st, ids) ==
    /\ BooksFit(st.loans, st.rs) /\ TakenBack(collected, st.rs, ids)
    /\ LoansMoved(loans, st.loans)
    /\ st.prev \in [Loans -> DOMAIN collected \cup {0}]
    /\ ids \cap Protected = {}

VoidedTo(st, ids) == "ok" \in DOMAIN st /\ (st.ok => RunFits(st, ids))

\* The state a void leaves its loan in.
AfterVoid(st, i) ==
    [balance |-> st.rs[i].before.balance, version |-> st.loans[st.rs[i].loan].version + 1]

\* What a void that is possible leaves.
VoidDone(st, i, nx) ==
    /\ nx.ok /\ nx.prev = [st.prev EXCEPT ![st.rs[i].loan] = i]
    /\ nx.loans = [st.loans EXCEPT ![st.rs[i].loan] = AfterVoid(st, i)]
    /\ nx.rs = VoidedAt(st.rs, i, AfterVoid(st, i))

LEMMA VoidIsPossible ==
    ASSUME NEW st, NEW i
    PROVE  /\ "ok" \in DOMAIN st =>
                /\ "ok" \in DOMAIN VoidOne(st, i)
                /\ VoidOne(st, i).ok =>
                     /\ st.ok /\ st.rs[i].live /\ i \notin Protected
                     /\ Latest(st, st.rs[i], st.prev[st.rs[i].loan])
           /\ st.ok /\ st.rs[i].live /\ i \notin Protected
              /\ Latest(st, st.rs[i], st.prev[st.rs[i].loan]) =>
                "ok" \in DOMAIN VoidOne(st, i) /\ VoidDone(st, i, VoidOne(st, i))
<1> DEFINE can == st.ok /\ st.rs[i].live /\ i \notin Protected /\ Latest(st, st.rs[i], st.prev[st.rs[i].loan])
           done == [ok |-> TRUE, prev |-> [st.prev EXCEPT ![st.rs[i].loan] = i],
                    loans |-> [st.loans EXCEPT ![st.rs[i].loan] = AfterVoid(st, i)],
                    rs |-> VoidedAt(st.rs, i, AfterVoid(st, i))]
<1>1. VoidOne(st, i) = IF ~can THEN [st EXCEPT !.ok = FALSE] ELSE done
  BY DEF VoidOne, AfterVoid, VoidedAt
<1>2. can => "ok" \in DOMAIN VoidOne(st, i) /\ VoidDone(st, i, VoidOne(st, i))
  <2>1. "ok" \in DOMAIN done /\ VoidDone(st, i, done)
    BY DEF VoidDone
  <2> HIDE DEF can, done
  <2> QED BY <1>1, <2>1
<1>3. ~can /\ "ok" \in DOMAIN st => "ok" \in DOMAIN VoidOne(st, i) /\ ~VoidOne(st, i).ok
  <2> DEFINE bad == [st EXCEPT !.ok = FALSE]
  <2>1. "ok" \in DOMAIN st => "ok" \in DOMAIN bad /\ bad.ok = FALSE
    OBVIOUS
  <2> HIDE DEF can, done, bad
  <2> QED BY <1>1, <2>1 DEF bad
<1> QED BY <1>2, <1>3

LEMMA TakenOneMore ==
    ASSUME NEW rs \in Seq(Entry), NEW ps, NEW ids, TakenBack(rs, ps, ids),
           NEW i \in DOMAIN rs, ps[i].live, NEW after, NEW qs, RowVoided(ps, i, after, qs)
    PROVE  TakenBack(rs, qs, ids \cup {i})
<1>1. /\ qs \in Seq(Entry) /\ DOMAIN qs = DOMAIN rs /\ Len(qs) = Len(rs)
  BY DEF TakenBack, RowVoided
<1>2. i \notin ids /\ rs[i].live
  BY DEF TakenBack
<1>3. ASSUME NEW j \in DOMAIN rs, j \notin ids \cup {i} PROVE qs[j] = rs[j]
  BY <1>3 DEF TakenBack, RowVoided
<1>4. ASSUME NEW j \in DOMAIN rs, j \in ids \cup {i} PROVE rs[j].live /\ ~qs[j].live
  BY <1>2, <1>4 DEF TakenBack, RowVoided
<1>5. ASSUME NEW j \in DOMAIN rs
      PROVE  /\ qs[j].loan = rs[j].loan /\ qs[j].amount = rs[j].amount
             /\ qs[j].fund = rs[j].fund /\ qs[j].before = rs[j].before
             /\ qs[j].undo = rs[j].undo /\ qs[j].day = rs[j].day
  BY DEF TakenBack, RowVoided
<1> QED BY <1>1, <1>3, <1>4, <1>5 DEF TakenBack

\* One void.
LEMMA VoidGoesOn ==
    ASSUME Opening \in [Loans -> Nat], loans \in [Loans -> State], collected \in Seq(Entry),
           NEW st, NEW ids, VoidedTo(st, ids), NEW i \in DOMAIN collected
    PROVE  VoidedTo(VoidOne(st, i), ids \cup {i})
<1> DEFINE nx == VoidOne(st, i)
           c == st.rs[i].loan
           after == AfterVoid(st, i)
<1>1. "ok" \in DOMAIN nx
  BY VoidIsPossible DEF VoidedTo
<1> SUFFICES ASSUME nx.ok PROVE RunFits(nx, ids \cup {i})
  BY <1>1 DEF VoidedTo
<1>2. st.ok /\ st.rs[i].live /\ i \notin Protected /\ Latest(st, st.rs[i], st.prev[c])
  BY VoidIsPossible DEF VoidedTo
<1>3. VoidDone(st, i, nx)
  BY <1>2, VoidIsPossible
<1>4. RunFits(st, ids)
  BY <1>2 DEF VoidedTo
<1>5. /\ BooksFit(st.loans, st.rs) /\ st.loans \in [Loans -> State] /\ st.rs \in Seq(Entry)
      /\ DOMAIN st.rs = DOMAIN collected /\ c \in Loans
      /\ st.prev[c] \in DOMAIN st.rs \cup {0}
  <2>1. /\ BooksFit(st.loans, st.rs) /\ st.loans \in [Loans -> State] /\ st.rs \in Seq(Entry)
        /\ DOMAIN st.rs = DOMAIN collected
    BY <1>4 DEF RunFits, TakenBack, BooksFit, BooksTyped
  <2>2. c \in Loans
    BY <2>1, EntriesAre
  <2> QED BY <1>4, <2>1, <2>2 DEF RunFits
<1> HIDE DEF nx
<1>6. st.loans[c].balance = st.rs[i].before.balance - st.rs[i].amount
  BY <1>2, <1>5, ChainExplains
<1>7. RestoredBy(st.loans, st.rs, i, after)
  BY DEF RestoredBy, AfterVoid
<1> HIDE DEF after
<1>8. after \in State /\ BooksFit([st.loans EXCEPT ![c] = after], VoidedAt(st.rs, i, after))
  BY <1>2, <1>5, <1>6, <1>7, BooksVoided
<1>9. BooksFit(nx.loans, nx.rs)
  BY <1>3, <1>8 DEF VoidDone, after
<1>10. TakenBack(collected, nx.rs, ids \cup {i})
  <2>1. RowVoided(st.rs, i, after, VoidedAt(st.rs, i, after))
    BY <1>5, <1>8, VoidedRows
  <2>2. nx.rs = VoidedAt(st.rs, i, after)
    BY <1>3 DEF VoidDone, after
  <2>3. TakenBack(collected, st.rs, ids)
    BY <1>4 DEF RunFits
  <2> QED BY <1>2, <2>1, <2>2, <2>3, TakenOneMore
<1>11. LoansMoved(loans, nx.loans)
  <2>1. nx.loans = [st.loans EXCEPT ![c] = after] /\ after.version = st.loans[c].version + 1
    BY <1>3 DEF VoidDone, after, AfterVoid
  <2>2. \A l \in Loans : loans[l].version \in Nat /\ st.loans[l].version \in Nat
    BY <1>5 DEF State
  <2> SUFFICES ASSUME NEW l \in Loans
               PROVE  /\ loans[l].version <= nx.loans[l].version
                      /\ loans[l].version = nx.loans[l].version => nx.loans[l] = loans[l]
    BY DEF LoansMoved
  <2>3. /\ loans[l].version <= st.loans[l].version
        /\ loans[l].version = st.loans[l].version => st.loans[l] = loans[l]
    BY <1>4 DEF RunFits, LoansMoved
  <2>4. CASE l = c
    <3>1. nx.loans[l].version = st.loans[l].version + 1
      BY <1>5, <2>1, <2>4
    <3>2. loans[l].version \in Nat /\ st.loans[l].version \in Nat
      BY <2>2
    <3>3. loans[l].version < nx.loans[l].version
      BY <2>3, <3>1, <3>2
    <3> QED BY <3>1, <3>2, <3>3
  <2>5. CASE l # c
    <3>1. nx.loans[l] = st.loans[l]
      BY <1>5, <2>1, <2>5
    <3> QED BY <2>3, <3>1
  <2> QED BY <2>4, <2>5
<1>12. nx.prev \in [Loans -> DOMAIN collected \cup {0}]
  BY <1>3, <1>4 DEF VoidDone, RunFits
<1>13. (ids \cup {i}) \cap Protected = {}
  BY <1>2, <1>4 DEF RunFits
<1> QED BY <1>9, <1>10, <1>11, <1>12, <1>13 DEF RunFits

LEMMA NothingVoided ==
    ASSUME BooksFit(loans, collected)
    PROVE  RunFits(NoVoids, {}) /\ VoidedTo(NoVoids, {}) /\ NoVoids.ok
<1>1. loans \in [Loans -> State] /\ collected \in Seq(Entry)
  BY DEF BooksFit, BooksTyped
<1>2. NoVoids.ok /\ NoVoids.loans = loans /\ NoVoids.rs = collected /\ "ok" \in DOMAIN NoVoids
      /\ NoVoids.prev = [l \in Loans |-> 0]
  BY DEF NoVoids
<1>3. TakenBack(collected, collected, {})
  BY <1>1 DEF TakenBack
<1>4. LoansMoved(loans, loans)
  BY <1>1 DEF LoansMoved, State
<1>5. RunFits(NoVoids, {})
  BY <1>2, <1>3, <1>4 DEF RunFits
<1> QED BY <1>2, <1>5 DEF VoidedTo

\* One receipt by itself.
LEMMA VoidAlone ==
    ASSUME Opening \in [Loans -> Nat], BooksFit(loans, collected),
           NEW i \in DOMAIN collected, VoidOne(NoVoids, i).ok
    PROVE  RunFits(VoidOne(NoVoids, i), {i})
<1>1. loans \in [Loans -> State] /\ collected \in Seq(Entry)
  BY DEF BooksFit, BooksTyped
<1>2. VoidedTo(NoVoids, {})
  BY NothingVoided
<1>3. VoidedTo(VoidOne(NoVoids, i), {} \cup {i})
  BY <1>1, <1>2, VoidGoesOn
<1>4. {} \cup {i} = {i}
  OBVIOUS
<1> QED BY <1>3, <1>4 DEF VoidedTo

\* The first n of the receipts in the order they are voided.
FirstIds(seq, n) == {seq[k] : k \in 1 .. n}

LEMMA OneIdMore ==
    ASSUME NEW seq, NEW n \in Nat \ {0}
    PROVE  FirstIds(seq, n) = FirstIds(seq, n - 1) \cup {seq[n]} /\ FirstIds(seq, 0) = {}
<1>1. \A k : k \in 1 .. n <=> k \in 1 .. (n - 1) \/ k = n
  OBVIOUS
<1>2. 1 .. 0 = {}
  OBVIOUS
<1> QED BY <1>1, <1>2 DEF FirstIds

Allocation == [fund : Funds, active : BOOLEAN, accounted : BOOLEAN, ids : Seq(Nat)]

LEMMA OrderReverses ==
    ASSUME NEW ids \in Seq(Nat)
    PROVE  /\ Len(ReversalOrder(ids)) = Len(ids) /\ Len(ids) \in Nat
           /\ DOMAIN ReversalOrder(ids) = 1 .. Len(ids) /\ DOMAIN ids = 1 .. Len(ids)
           /\ \A k \in 1 .. Len(ids) : /\ ReversalOrder(ids)[k] = ids[Len(ids) - k + 1]
                                       /\ ReversalOrder(ids)[k] \in ToSet(ids)
           /\ FirstIds(ReversalOrder(ids), Len(ids)) = ToSet(ids)
<1> DEFINE N == Len(ids)
           seq == ReversalOrder(ids)
<1>1. N \in Nat /\ DOMAIN ids = 1 .. N
  BY LenProperties
<1>2. seq = [k \in 1 .. N |-> ids[(N - k) + 1]]
  BY DEF ReversalOrder, Reverse
<1> HIDE DEF N
<1>3. \A k \in 1 .. N : N - k + 1 \in 1 .. N /\ N - (N - k + 1) + 1 = k
  BY <1>1
<1>4. DOMAIN seq = 1 .. N /\ \A k \in 1 .. N : seq[k] = ids[N - k + 1]
  BY <1>2
<1>5. Len(seq) = N
  <2>1. \A k \in 1 .. N : ids[(N - k) + 1] \in Nat
    BY <1>1, <1>3, ElementOfSeq DEF N
  <2>2. seq \in [1 .. N -> Nat]
    BY <1>2, <2>1
  <2>3. seq \in Seq(Nat)
    BY <1>1, <2>2, SeqDef
  <2>4. DOMAIN seq = 1 .. Len(seq) /\ Len(seq) \in Nat
    BY <2>3, LenProperties
  <2> HIDE DEF seq
  <2> QED BY <1>1, <1>4, <2>4
<1> HIDE DEF seq
<1>6. \A k \in 1 .. N : seq[k] \in ToSet(ids)
  BY <1>1, <1>3, <1>4 DEF ToSet
<1>7. \A i \in ToSet(ids) : i \in FirstIds(seq, N)
  <2> SUFFICES ASSUME NEW k \in 1 .. N PROVE ids[k] \in FirstIds(seq, N)
    BY <1>1 DEF ToSet
  <2> DEFINE m == N - k + 1
  <2>1. m \in 1 .. N /\ N - m + 1 = k
    BY <1>3
  <2> HIDE DEF m
  <2>2. seq[m] = ids[k]
    BY <1>4, <2>1
  <2> QED BY <2>1, <2>2 DEF FirstIds
<1>8. \A i \in FirstIds(seq, N) : i \in ToSet(ids)
  BY <1>6 DEF FirstIds
<1> QED BY <1>1, <1>4, <1>5, <1>6, <1>7, <1>8 DEF seq, N

\* All receipts of an allocation.
LEMMA VoidAll ==
    ASSUME Opening \in [Loans -> Nat], BooksFit(loans, collected), NEW a,
           allocations[a].ids \in Seq(Nat),
           ToSet(allocations[a].ids) \subseteq DOMAIN collected, Reversed(a).ok
    PROVE  RunFits(Reversed(a), ToSet(allocations[a].ids))
<1> DEFINE ids == allocations[a].ids
           seq == ReversalOrder(ids)
           N == Len(ids)
<1>1. /\ Len(seq) = N /\ N \in Nat /\ DOMAIN seq = 1 .. N /\ FirstIds(seq, N) = ToSet(ids)
      /\ \A k \in 1 .. N : seq[k] \in DOMAIN collected
  <2>1. /\ Len(seq) = N /\ N \in Nat /\ DOMAIN seq = 1 .. N /\ FirstIds(seq, N) = ToSet(ids)
        /\ \A k \in 1 .. N : seq[k] \in ToSet(ids)
    BY OrderReverses
  <2> QED BY <2>1
<1>2. loans \in [Loans -> State] /\ collected \in Seq(Entry)
  BY DEF BooksFit, BooksTyped
<1> HIDE DEF seq, N
<1>3. PICK st : GoesThrough("void", NoVoids, seq, st, Reversed(a))
  <2>1. Reversed(a) = FoldOf("void", NoVoids, seq)
    BY ReversedFold DEF seq
  <2>2. \E st : GoesThrough("void", NoVoids, seq, st, FoldOf("void", NoVoids, seq))
    BY <1>1, FoldGoesThrough
  <2> QED BY <2>1, <2>2
<1> DEFINE B == {n \in 0 .. N : ~VoidedTo(st[n], FirstIds(seq, n))}
<1>4. B = {}
  <2> SUFFICES ASSUME B # {} PROVE FALSE
    OBVIOUS
  <2>1. PICK n \in B : \A m \in B : n <= m
    <3>1. B \subseteq 0 .. N
      OBVIOUS
    <3> HIDE DEF B
    <3> QED BY <1>1, <3>1, FirstOf
  <2>2. n # 0
    <3>1. st[0] = NoVoids /\ FirstIds(seq, 0) = {}
      BY <1>3 DEF GoesThrough, FirstIds
    <3> QED BY <2>1, <3>1, NothingVoided
  <2>3. n \in 1 .. N /\ n - 1 \in 0 .. N /\ ~(n <= n - 1)
    BY <1>1, <2>1, <2>2
  <2>4. VoidedTo(st[n - 1], FirstIds(seq, n - 1))
    BY <2>1, <2>3
  <2>5. st[n] = VoidOne(st[n - 1], seq[n])
    <3>1. st[n] = StepOf("void", st[n - 1], seq[n])
      BY <1>1, <1>3, <2>3 DEF GoesThrough
    <3> QED BY <3>1 DEF StepOf
  <2>6. VoidedTo(st[n], FirstIds(seq, n - 1) \cup {seq[n]})
    BY <1>1, <1>2, <2>3, <2>4, <2>5, VoidGoesOn
  <2>7. VoidedTo(st[n], FirstIds(seq, n))
    <3>1. n \in Nat \ {0}
      BY <1>1, <2>3
    <3>2. FirstIds(seq, n) = FirstIds(seq, n - 1) \cup {seq[n]}
      BY <3>1, OneIdMore
    <3> QED BY <2>6, <3>2
  <2> QED BY <2>1, <2>7
<1>5. VoidedTo(st[N], FirstIds(seq, N))
  BY <1>1, <1>4
<1>6. Reversed(a) = st[N]
  BY <1>1, <1>3 DEF GoesThrough
<1> QED BY <1>1, <1>5, <1>6 DEF VoidedTo

-----------------------------------------------------------------------------
(* A reversal of what nothing came after.                                  *)

AllocationFits(rs, a) ==
    /\ \A k \in DOMAIN a.ids : /\ a.ids[k] \in DOMAIN rs /\ rs[a.ids[k]].fund = a.fund
                               /\ rs[a.ids[k]].live = a.active
    /\ \A k, m \in DOMAIN a.ids : k < m => a.ids[k] < a.ids[m]
    /\ ChainFits(rs, ToSet(a.ids))

\* No loan changed after its last receipt of S.
Untouched(S) ==
    \A i \in S : LastOnLoan(collected, S, i) =>
        collected[i].before.version + 1 = loans[collected[i].loan].version

FirstOnLoan(V, i) == \A j \in V : j < i => collected[j].loan # collected[i].loan

\* The loan is as the void of i left it, and i found.
BackAt(st, i) ==
    LET l == collected[i].loan
    IN  /\ st.prev[l] = i /\ st.rs[i].voided = st.loans[l]
        /\ st.loans[l].balance = collected[i].before.balance

FreshTo(st, V) ==
    /\ VoidedTo(st, V) /\ st.ok
    /\ \A l \in Loans : (\A i \in V : collected[i].loan # l) => st.loans[l] = loans[l]
    /\ \A i \in V : FirstOnLoan(V, i) => BackAt(st, i)

\* A void in the order of the reversal is possible.
LEMMA FreshIsLatest ==
    ASSUME BooksFit(loans, collected),
           NEW S \in SUBSET DOMAIN collected, NEW V \in SUBSET S, NEW i \in S, i \notin V,
           \A j \in V : i < j, \A j \in S : i < j => j \in V,
           \A j \in S : collected[j].live /\ collected[j].fund = collected[i].fund,
           collected[i].fund # Cash, Untouched(S), ChainFits(collected, S),
           NEW st, FreshTo(st, V)
    PROVE  /\ st.rs[i] = collected[i] /\ st.rs[i].live
           /\ Latest(st, st.rs[i], st.prev[st.rs[i].loan])
<1> DEFINE r == collected[i]
           c == r.loan
<1>1. loans \in [Loans -> State] /\ collected \in Seq(Entry)
  BY DEF BooksFit, BooksTyped
<1>2. RunFits(st, V)
  BY DEF FreshTo, VoidedTo
<1>3. st.rs[i] = r /\ r.live /\ c \in Loans
  BY <1>1, <1>2, EntriesAre DEF RunFits, TakenBack
<1>4. CASE \A j \in V : collected[j].loan # c
  <2>1. LastOnLoan(collected, S, i)
    BY <1>4 DEF LastOnLoan
  <2>2. r.before.version + 1 = loans[c].version
    BY <2>1 DEF Untouched
  <2>3. st.loans[c] = loans[c]
    BY <1>3, <1>4 DEF FreshTo
  <2> QED BY <1>3, <2>2, <2>3 DEF Latest
<1>5. CASE ~\A j \in V : collected[j].loan # c
  <2> DEFINE B == {j \in V : collected[j].loan = c}
  <2>1. PICK m \in B : \A j \in B : m <= j
    <3>1. B \subseteq 0 .. Len(collected) /\ Len(collected) \in Nat
      BY <1>1, EntriesAre
    <3>2. B # {}
      BY <1>5
    <3> HIDE DEF B
    <3> QED BY <3>1, <3>2, FirstOf
  <2>2. m \in V /\ m \in S /\ collected[m].loan = c /\ i < m
    BY <2>1
  <2>3. \A j \in S : i \in Nat /\ j \in Nat
    BY <1>1, EntriesAre
  <2>4. \A j \in V : j < m => collected[j].loan # c
    <3> SUFFICES ASSUME NEW j \in V, j < m, collected[j].loan = c PROVE FALSE
      OBVIOUS
    <3>1. m <= j /\ j \in Nat /\ m \in Nat
      BY <2>1, <2>2, <2>3
    <3> QED BY <3>1
  <2>5. NextOnLoan(collected, S, i, m)
    BY <2>2, <2>4 DEF NextOnLoan
  <2>6. collected[m].before = LeftBy(r)
    BY <2>2, <2>5 DEF ChainFits
  <2>7. BackAt(st, m)
    <3>1. FirstOnLoan(V, m)
      BY <2>2, <2>4 DEF FirstOnLoan
    <3> QED BY <2>2, <3>1 DEF FreshTo
  <2>8. /\ st.rs[m].loan = c /\ st.rs[m].fund = r.fund /\ st.rs[m].before = collected[m].before
    BY <1>2, <2>2 DEF RunFits, TakenBack
  <2>9. st.prev[c] = m /\ st.rs[m].voided = st.loans[c]
        /\ st.loans[c].balance = r.before.balance - r.amount
        /\ st.rs[m].before.version = r.before.version + 1
    BY <2>2, <2>6, <2>7, <2>8 DEF BackAt, LeftBy
  <2>10. st.loans[c] = [balance |-> st.loans[c].balance, version |-> st.loans[c].version]
    <3>1. st.loans \in [Loans -> State]
      BY <1>2 DEF RunFits, BooksFit, BooksTyped
    <3> QED BY <1>3, <3>1 DEF State
  <2>11. st.rs[m].voided = [balance |-> r.before.balance - r.amount,
                            version |-> st.loans[c].version]
    BY <2>9, <2>10
  <2>12. m # 0
    BY <2>2, <2>3
  <2> QED BY <1>3, <2>8, <2>9, <2>11, <2>12 DEF Latest
<1> QED BY <1>3, <1>4, <1>5

LEMMA FreshGoesOn ==
    ASSUME BooksFit(loans, collected), Opening \in [Loans -> Nat],
           NEW S \in SUBSET DOMAIN collected, NEW V \in SUBSET S, NEW i \in S, i \notin V,
           \A j \in V : i < j, \A j \in S : i < j => j \in V,
           \A j \in S : collected[j].live /\ collected[j].fund = collected[i].fund,
           collected[i].fund # Cash, Untouched(S), ChainFits(collected, S),
           S \cap Protected = {}, NEW st, FreshTo(st, V)
    PROVE  FreshTo(VoidOne(st, i), V \cup {i})
<1> DEFINE nx == VoidOne(st, i)
           c == collected[i].loan
           after == AfterVoid(st, i)
<1>1. loans \in [Loans -> State] /\ collected \in Seq(Entry) /\ i \in DOMAIN collected
  BY DEF BooksFit, BooksTyped
<1>2. st.rs[i] = collected[i] /\ st.rs[i].live /\ Latest(st, st.rs[i], st.prev[st.rs[i].loan])
  BY FreshIsLatest
<1>3. VoidedTo(st, V) /\ st.ok /\ RunFits(st, V) /\ i \notin Protected
  BY DEF FreshTo, VoidedTo
<1>4. VoidDone(st, i, nx)
  BY <1>2, <1>3, VoidIsPossible
<1>5. VoidedTo(nx, V \cup {i})
  BY <1>1, <1>3, VoidGoesOn
<1> HIDE DEF nx
<1>6. /\ nx.ok /\ nx.prev = [st.prev EXCEPT ![c] = i]
      /\ nx.loans = [st.loans EXCEPT ![c] = after]
      /\ nx.rs = VoidedAt(st.rs, i, after)
      /\ after.balance = collected[i].before.balance
  BY <1>2, <1>4 DEF VoidDone, AfterVoid
<1> HIDE DEF after
<1>7. /\ st.loans \in [Loans -> State] /\ st.rs \in Seq(Entry) /\ DOMAIN st.rs = DOMAIN collected
      /\ st.prev \in [Loans -> DOMAIN collected \cup {0}]
      /\ \A j \in DOMAIN collected : collected[j].loan \in Loans
  BY <1>1, <1>3, EntriesAre DEF RunFits, BooksFit, BooksTyped, TakenBack
<1>8. \A j \in DOMAIN collected : j # i => nx.rs[j] = st.rs[j]
  BY <1>6, <1>7 DEF VoidedAt
<1>9. nx.rs[i].voided = after
  <2>1. st.rs[i] \in Entry
    BY <1>1, <1>7, EntriesAre
  <2> QED BY <1>1, <1>6, <1>7, <2>1 DEF VoidedAt, Entry
<1>10. ASSUME NEW l \in Loans, \A j \in V \cup {i} : collected[j].loan # l
       PROVE  nx.loans[l] = loans[l]
  <2>1. st.loans[l] = loans[l] /\ l # c
    BY <1>10 DEF FreshTo
  <2> QED BY <1>6, <1>7, <2>1
<1>11. ASSUME NEW j \in V \cup {i}, FirstOnLoan(V \cup {i}, j)
       PROVE  BackAt(nx, j)
  <2>1. CASE j = i
    BY <1>1, <1>6, <1>7, <1>9, <2>1 DEF BackAt
  <2>2. CASE j # i
    <3>1. j \in V /\ i < j /\ collected[j].loan # c /\ j \in DOMAIN collected
      BY <1>11, <2>2 DEF FirstOnLoan
    <3>2. FirstOnLoan(V, j)
      BY <1>11 DEF FirstOnLoan
    <3>3. BackAt(st, j)
      BY <3>1, <3>2 DEF FreshTo
    <3>4. nx.rs[j] = st.rs[j] /\ nx.loans[collected[j].loan] = st.loans[collected[j].loan]
          /\ nx.prev[collected[j].loan] = st.prev[collected[j].loan]
      BY <1>6, <1>7, <1>8, <2>2, <3>1
    <3> QED BY <3>3, <3>4 DEF BackAt
  <2> QED BY <2>1, <2>2
<1>12. FreshTo(nx, V \cup {i})
  BY <1>5, <1>6, <1>10, <1>11 DEF FreshTo
<1> QED BY <1>12 DEF nx

\* All of them, last first.
LEMMA FreshAll ==
    ASSUME BooksFit(loans, collected), Opening \in [Loans -> Nat], Cash \notin Funds,
           NEW a, allocations[a] \in Allocation, allocations[a].active,
           AllocationFits(collected, allocations[a]), Untouched(ToSet(allocations[a].ids)),
           ToSet(allocations[a].ids) \cap Protected = {}
    PROVE  FreshTo(Reversed(a), ToSet(allocations[a].ids))
<1> DEFINE ids == allocations[a].ids
           seq == ReversalOrder(ids)
           N == Len(ids)
           S == ToSet(ids)
<1>0. ids \in Seq(Nat) /\ allocations[a].fund \in Funds
  BY DEF Allocation
<1>1. /\ Len(seq) = N /\ N \in Nat /\ DOMAIN seq = 1 .. N /\ DOMAIN ids = 1 .. N
      /\ FirstIds(seq, N) = S
      /\ \A k \in 1 .. N : seq[k] = ids[N - k + 1] /\ seq[k] \in S
  BY <1>0, OrderReverses
<1>2. /\ S \subseteq DOMAIN collected
      /\ \A j \in S : collected[j].live /\ collected[j].fund = allocations[a].fund
      /\ ChainFits(collected, S)
  BY DEF AllocationFits, ToSet
<1>3. \A k, m \in 1 .. N : k < m => seq[m] < seq[k]
  <2> SUFFICES ASSUME NEW k \in 1 .. N, NEW m \in 1 .. N, k < m PROVE seq[m] < seq[k]
    OBVIOUS
  <2> DEFINE x == N - k + 1
             y == N - m + 1
  <2>1. x \in 1 .. N /\ y \in 1 .. N /\ y < x
    BY <1>1
  <2>2. seq[k] = ids[x] /\ seq[m] = ids[y]
    BY <1>1
  <2> HIDE DEF x, y, seq
  <2>3. ids[y] < ids[x]
    BY <1>1, <2>1 DEF AllocationFits
  <2> QED BY <2>2, <2>3
<1>4. Untouched(S) /\ S \cap Protected = {}
  OBVIOUS
<1> HIDE DEF seq, N, S
<1>5. PICK st : GoesThrough("void", NoVoids, seq, st, Reversed(a))
  <2>1. Reversed(a) = FoldOf("void", NoVoids, seq)
    BY ReversedFold DEF seq
  <2>2. \E st : GoesThrough("void", NoVoids, seq, st, FoldOf("void", NoVoids, seq))
    BY <1>1, FoldGoesThrough
  <2> QED BY <2>1, <2>2
<1> DEFINE B == {n \in 0 .. N : ~FreshTo(st[n], FirstIds(seq, n))}
<1>6. B = {}
  <2> SUFFICES ASSUME B # {} PROVE FALSE
    OBVIOUS
  <2>1. PICK n \in B : \A m \in B : n <= m
    <3>1. B \subseteq 0 .. N
      OBVIOUS
    <3> HIDE DEF B
    <3> QED BY <1>1, <3>1, FirstOf
  <2>2. n # 0
    <3>1. st[0] = NoVoids /\ FirstIds(seq, 0) = {} /\ NoVoids.loans = loans
      BY <1>5 DEF GoesThrough, FirstIds, NoVoids
    <3>2. FreshTo(NoVoids, {})
      BY <3>1, NothingVoided DEF FreshTo
    <3> QED BY <2>1, <3>1, <3>2
  <2>3. n \in 1 .. N /\ n - 1 \in 0 .. N /\ ~(n <= n - 1) /\ n \in Nat \ {0}
    BY <1>1, <2>1, <2>2
  <2> DEFINE V == FirstIds(seq, n - 1)
             i == seq[n]
  <2>4. FreshTo(st[n - 1], V)
    BY <2>1, <2>3
  <2>5. st[n] = VoidOne(st[n - 1], i)
    <3>1. st[n] = StepOf("void", st[n - 1], seq[n])
      BY <1>1, <1>5, <2>3 DEF GoesThrough
    <3> QED BY <3>1 DEF StepOf
  <2>6. \A k \in 1 .. (n - 1) : k \in 1 .. N /\ k < n
    BY <1>1, <2>3
  <2>7. V \in SUBSET S /\ i \in S /\ \A j \in V : i < j
    <3>1. \A k \in 1 .. (n - 1) : seq[k] \in S /\ seq[n] < seq[k]
      BY <1>1, <1>3, <2>3, <2>6
    <3> HIDE DEF i
    <3>2. \A k \in 1 .. (n - 1) : seq[k] \in S /\ i < seq[k]
      BY <3>1 DEF i
    <3>3. i \in S
      BY <1>1, <2>3 DEF i
    <3> QED BY <3>2, <3>3 DEF FirstIds
  <2>8. \A j \in S : j \in Nat
    <3>1. DOMAIN collected = 1 .. Len(collected)
      BY EntriesAre DEF BooksFit, BooksTyped
    <3> QED BY <1>2, <3>1
  <2>9. \A j \in S : i < j => j \in V
    <3> SUFFICES ASSUME NEW j \in S, i < j PROVE j \in V
      OBVIOUS
    <3>1. PICK k \in 1 .. N : j = seq[k]
      BY <1>1 DEF FirstIds
    <3>2. k # n /\ ~(n < k)
      <4>1. n < k => seq[k] < seq[n]
        BY <1>3, <2>3
      <4> QED BY <2>7, <2>8, <3>1, <4>1
    <3>3. k \in 1 .. (n - 1)
      BY <1>1, <2>3, <3>2
    <3> QED BY <3>1, <3>3 DEF FirstIds
  <2>10. i \notin V
    BY <2>7, <2>8
  <2>11. collected[i].fund # Cash
         /\ \A j \in S : collected[j].live /\ collected[j].fund = collected[i].fund
    BY <1>0, <1>2, <2>7
  <2> HIDE DEF V, i
  <2>12. FreshTo(VoidOne(st[n - 1], i), V \cup {i})
    BY <1>2, <1>4, <2>4, <2>7, <2>9, <2>10, <2>11, FreshGoesOn
  <2>13. FirstIds(seq, n) = V \cup {i}
    BY <2>3, OneIdMore DEF V, i
  <2> QED BY <2>1, <2>5, <2>12, <2>13
<1>7. FreshTo(st[N], FirstIds(seq, N))
  BY <1>1, <1>6
<1>8. Reversed(a) = st[N]
  BY <1>1, <1>5 DEF GoesThrough
<1> QED BY <1>1, <1>7, <1>8 DEF S

LEMMA ExtremesAre ==
    ASSUME NEW S, \A j \in S : j \in Nat, NEW i \in S
    PROVE  /\ (\A j \in S : j <= i) => Max(S) = i
           /\ (\A j \in S : i <= j) => Min(S) = i
<1>1. ASSUME \A j \in S : j <= i PROVE Max(S) = i
  <2>1. \A y \in S : i >= y
    BY <1>1
  <2>2. Max(S) \in S /\ \A y \in S : Max(S) >= y
    BY <2>1 DEF Max
  <2>3. Max(S) \in Nat /\ i \in Nat /\ Max(S) >= i /\ Max(S) <= i
    BY <1>1, <2>2
  <2> QED BY <2>3
<1>2. ASSUME \A j \in S : i <= j PROVE Min(S) = i
  <2>1. Min(S) \in S /\ \A y \in S : Min(S) <= y
    BY <1>2 DEF Min
  <2>2. Min(S) \in Nat /\ i \in Nat /\ Min(S) <= i /\ i <= Min(S)
    BY <1>2, <2>1
  <2> QED BY <2>2
<1> QED BY <1>1, <1>2

LEMMA FreshComesBack ==
    ASSUME BooksFit(loans, collected), Opening \in [Loans -> Nat], Cash \notin Funds,
           \A a \in DOMAIN allocations : allocations[a] \in Allocation
                                         /\ AllocationFits(collected, allocations[a])
    PROVE  FreshIsReversible
<1> SUFFICES ASSUME NEW a \in DOMAIN allocations, allocations[a].active,
                    \A l \in Loans :
                      LET last == {i \in ToSet(allocations[a].ids) : collected[i].loan = l}
                      IN  last # {} => collected[Max(last)].before.version + 1 = loans[l].version
             PROVE  /\ Reversed(a).ok <=> ToSet(allocations[a].ids) \cap Protected = {}
                    /\ Reversed(a).ok => \A l \in Loans :
                         LET last == {i \in ToSet(allocations[a].ids) : collected[i].loan = l}
                         IN  last # {} =>
                               Reversed(a).loans[l].balance = collected[Min(last)].before.balance
  BY DEF FreshIsReversible
<1> DEFINE S == ToSet(allocations[a].ids)
           OnLoan(l) == {i \in S : collected[i].loan = l}
<1>1. S \subseteq DOMAIN collected
  BY DEF AllocationFits, ToSet
<1>2. DOMAIN collected = 1 .. Len(collected) /\ Len(collected) \in Nat
      /\ \A i \in DOMAIN collected : collected[i].loan \in Loans
  BY EntriesAre DEF BooksFit, BooksTyped
<1>3. \A l \in Loans : OnLoan(l) # {} => collected[Max(OnLoan(l))].before.version + 1 = loans[l].version
  OBVIOUS
<1> HIDE DEF S
<1>4. Untouched(S)
  <2> SUFFICES ASSUME NEW i \in S, LastOnLoan(collected, S, i)
               PROVE  collected[i].before.version + 1 = loans[collected[i].loan].version
    BY DEF Untouched
  <2> DEFINE c == collected[i].loan
  <2>1. c \in Loans /\ i \in OnLoan(c) /\ (\A j \in OnLoan(c) : j \in Nat)
    BY <1>1, <1>2
  <2>2. \A j \in OnLoan(c) : j <= i
    BY <2>1 DEF LastOnLoan
  <2>3. Max(OnLoan(c)) = i
    <3> HIDE DEF OnLoan
    <3> QED BY <2>1, <2>2, ExtremesAre
  <2> QED BY <1>3, <2>1, <2>3
<1>5. ASSUME S \cap Protected = {} PROVE FreshTo(Reversed(a), S)
  BY <1>4, <1>5, FreshAll DEF S
<1>6. ASSUME S \cap Protected = {}, NEW l \in Loans, OnLoan(l) # {}
      PROVE  Reversed(a).loans[l].balance = collected[Min(OnLoan(l))].before.balance
  <2>1. OnLoan(l) \subseteq 0 .. Len(collected) /\ \A j \in OnLoan(l) : j \in Nat
    BY <1>1, <1>2
  <2>2. PICK i \in OnLoan(l) : \A j \in OnLoan(l) : i <= j
    <3> HIDE DEF OnLoan
    <3> QED BY <1>2, <1>6, <2>1, FirstOf
  <2>3. Min(OnLoan(l)) = i
    <3> HIDE DEF OnLoan
    <3> QED BY <2>1, <2>2, ExtremesAre
  <2>4. i \in S /\ collected[i].loan = l
    BY <2>2
  <2>5. FirstOnLoan(S, i)
    <3> SUFFICES ASSUME NEW j \in S, j < i, collected[j].loan = collected[i].loan PROVE FALSE
      BY DEF FirstOnLoan
    <3>1. j \in OnLoan(l)
      BY <2>4
    <3> QED BY <2>1, <2>2, <3>1
  <2>6. BackAt(Reversed(a), i)
    BY <1>5, <1>6, <2>4, <2>5 DEF FreshTo
  <2> QED BY <2>3, <2>4, <2>6 DEF BackAt
<1>7. ASSUME Reversed(a).ok PROVE S \cap Protected = {}
  <2>1. allocations[a].ids \in Seq(Nat)
    BY DEF Allocation
  <2>2. RunFits(Reversed(a), S)
    BY <1>1, <1>7, <2>1, VoidAll DEF S
  <2> QED BY <2>2 DEF RunFits
<1>8. Reversed(a).ok <=> S \cap Protected = {}
  BY <1>5, <1>7 DEF FreshTo
<1> QED BY <1>6, <1>7, <1>8 DEF S

-----------------------------------------------------------------------------
(* The inductive invariant.                                                *)

UndoMark == [rev : Nat, reason : Reasons \cup {"none"}]
Fund == [applied : Nat, refunded : Nat, version : Nat]

AllocationsFit(rs, as) ==
    /\ as \in Seq(Allocation)
    /\ \A a \in DOMAIN as : AllocationFits(rs, as[a])
    /\ \A a, b \in DOMAIN as : a # b => ToSet(as[a].ids) \cap ToSet(as[b].ids) = {}

FundsFit(rs, fs) ==
    /\ fs \in [Funds -> Fund]
    /\ \A f \in Funds : /\ fs[f].applied = SumOf(AmountsOf(rs), LiveOf(rs, f))
                        /\ fs[f].applied + fs[f].refunded <= FundAmount

\* While a previewed loan has the version that was read, its parts fit it.
ReviewFits(ls, rv) ==
    rv # NoReview =>
        /\ rv.fund \in Funds /\ rv.amount \in Payments
        /\ rv.loans \in SUBSET Loans /\ rv.loans # {} /\ \A l, k \in rv.loans \ {1} : l = k
        /\ \A l \in rv.loans :
              /\ rv.versions[l] <= ls[l].version /\ rv.versions[l] \in Nat
              /\ rv.versions[l] = ls[l].version =>
                    SumOf(SharesOf(rv.parts, l), DOMAIN rv.parts) <= ls[l].balance

WireFits(rs, ws) == \A q \in ws : q.id \in DOMAIN rs /\ q.rev \in Nat /\ q.reason \in Reasons

AnswersFit(rs, ts) ==
    \A t \in ts : t.answer # NotVoided =>
        /\ t.request.id \in DOMAIN rs /\ ~rs[t.request.id].live
        /\ rs[t.request.id].undo = [rev |-> t.request.rev, reason |-> t.request.reason]
        /\ t.answer = rs[t.request.id].voided

PostingInv ==
    /\ day \in 1 .. LastDay /\ BooksFit(loans, collected)
    /\ AllocationsFit(collected, allocations) /\ FundsFit(collected, funds)
    /\ ReviewFits(loans, review) /\ WireFits(collected, wire) /\ AnswersFit(collected, told)

\* The marks are of receipts within the bound.
MarksFit == linked \cup principal \subseteq 1 .. MaxReceipts /\ released \subseteq principal

\* Receipts that were taken back stay as they are.
RowsKept(rs, ps) ==
    DOMAIN rs \subseteq DOMAIN ps /\ \A i \in DOMAIN rs : ~rs[i].live => ps[i] = rs[i]

LEMMA RequestsStay ==
    ASSUME NEW rs, NEW ps, RowsKept(rs, ps), NEW ws, NEW ts
    PROVE  /\ WireFits(rs, ws) => WireFits(ps, ws)
           /\ AnswersFit(rs, ts) => AnswersFit(ps, ts)
<1>1. WireFits(rs, ws) => WireFits(ps, ws)
  BY DEF RowsKept, WireFits
<1>2. ASSUME AnswersFit(rs, ts), NEW t \in ts, t.answer # NotVoided
      PROVE  /\ t.request.id \in DOMAIN ps /\ ~ps[t.request.id].live
             /\ ps[t.request.id].undo = [rev |-> t.request.rev, reason |-> t.request.reason]
             /\ t.answer = ps[t.request.id].voided
  <2>1. /\ t.request.id \in DOMAIN rs /\ ~rs[t.request.id].live
        /\ rs[t.request.id].undo = [rev |-> t.request.rev, reason |-> t.request.reason]
        /\ t.answer = rs[t.request.id].voided
    BY <1>2 DEF AnswersFit
  <2>2. t.request.id \in DOMAIN ps /\ ps[t.request.id] = rs[t.request.id]
    BY <2>1 DEF RowsKept
  <2> QED BY <2>1, <2>2
<1> QED BY <1>1, <1>2 DEF AnswersFit

LEMMA ReviewStays ==
    ASSUME NEW ls \in [Loans -> State], NEW ms \in [Loans -> State], LoansMoved(ls, ms),
           NEW rv, ReviewFits(ls, rv)
    PROVE  ReviewFits(ms, rv)
<1> SUFFICES ASSUME rv # NoReview, NEW l \in rv.loans
             PROVE  /\ rv.versions[l] <= ms[l].version
                    /\ rv.versions[l] = ms[l].version =>
                         SumOf(SharesOf(rv.parts, l), DOMAIN rv.parts) <= ms[l].balance
  BY DEF ReviewFits
<1>1. /\ l \in Loans /\ rv.versions[l] <= ls[l].version /\ rv.versions[l] \in Nat
      /\ rv.versions[l] = ls[l].version =>
           SumOf(SharesOf(rv.parts, l), DOMAIN rv.parts) <= ls[l].balance
  BY DEF ReviewFits
<1>2. ls[l].version \in Nat /\ ms[l].version \in Nat
  BY <1>1 DEF State
<1>3. ls[l].version <= ms[l].version /\ (ls[l].version = ms[l].version => ms[l] = ls[l])
  BY <1>1 DEF LoansMoved
<1>4. rv.versions[l] = ms[l].version => ls[l].version = ms[l].version
  BY <1>1, <1>2, <1>3
<1> QED BY <1>1, <1>2, <1>3, <1>4

LEMMA AllocationStays ==
    ASSUME NEW rs, NEW ps, NEW a, AllocationFits(rs, a),
           \A i \in ToSet(a.ids) : /\ i \in DOMAIN ps /\ ps[i].loan = rs[i].loan
                                   /\ ps[i].fund = rs[i].fund /\ ps[i].amount = rs[i].amount
                                   /\ ps[i].before = rs[i].before,
           NEW b, b.ids = a.ids, b.fund = a.fund,
           \A i \in ToSet(a.ids) : ps[i].live = b.active
    PROVE  AllocationFits(ps, b)
<1>1. \A k \in DOMAIN a.ids : a.ids[k] \in ToSet(a.ids)
  BY DEF ToSet
<1>2. \A k \in DOMAIN a.ids : /\ a.ids[k] \in DOMAIN ps /\ ps[a.ids[k]].fund = a.fund
                              /\ ps[a.ids[k]].live = b.active
  BY <1>1 DEF AllocationFits
<1>3. ChainFits(ps, ToSet(a.ids))
  <2> SUFFICES ASSUME NEW i \in ToSet(a.ids), NEW j \in ToSet(a.ids),
                      NextOnLoan(ps, ToSet(a.ids), i, j)
               PROVE  ps[j].before = LeftBy(ps[i])
    BY DEF ChainFits
  <2>1. NextOnLoan(rs, ToSet(a.ids), i, j)
    BY DEF NextOnLoan
  <2>2. rs[j].before = LeftBy(rs[i])
    BY <2>1 DEF AllocationFits, ChainFits
  <2> QED BY <2>2 DEF LeftBy
<1> QED BY <1>2, <1>3 DEF AllocationFits

\* The receipts of what is active are live and of its fund.
LEMMA IdsAre ==
    ASSUME NEW rs, NEW a, AllocationFits(rs, a)
    PROVE  \A i \in ToSet(a.ids) : i \in DOMAIN rs /\ rs[i].fund = a.fund /\ rs[i].live = a.active
BY DEF AllocationFits, ToSet

\* Marking a receipt changes nothing the books speak of.
LEMMA MarkedRow ==
    ASSUME NEW ls, NEW ps, BooksFit(ls, ps), NEW i \in DOMAIN ps, NEW u \in UndoMark,
           NEW qs, qs = [ps EXCEPT ![i].undo = u]
    PROVE  /\ BooksFit(ls, qs) /\ DOMAIN qs = DOMAIN ps /\ qs[i].undo = u
           /\ \A j \in DOMAIN ps : j # i => qs[j] = ps[j]
           /\ \A j \in DOMAIN ps :
                 /\ qs[j].loan = ps[j].loan /\ qs[j].amount = ps[j].amount
                 /\ qs[j].fund = ps[j].fund /\ qs[j].before = ps[j].before
                 /\ qs[j].live = ps[j].live /\ qs[j].voided = ps[j].voided
<1>1. ls \in [Loans -> State] /\ ps \in Seq(Entry)
  BY DEF BooksFit, BooksTyped
<1>2. ps[i] \in Entry /\ DOMAIN ps = 1 .. Len(ps) /\ Len(ps) \in Nat
  BY <1>1, EntriesAre
<1> DEFINE e == [ps[i] EXCEPT !.undo = u]
<1>3. e \in Entry /\ e.undo = u /\ e.loan = ps[i].loan /\ e.amount = ps[i].amount
      /\ e.fund = ps[i].fund /\ e.before = ps[i].before /\ e.live = ps[i].live
      /\ e.voided = ps[i].voided
  BY <1>2 DEF Entry, UndoMark
<1>4. qs = [ps EXCEPT ![i] = e]
  BY <1>2 DEF Entry
<1> HIDE DEF e
<1>5. qs \in Seq(Entry)
  BY <1>1, <1>2, <1>3, <1>4, ExceptSeq
<1>6. DOMAIN qs = DOMAIN ps /\ qs[i] = e /\ \A j \in DOMAIN ps : j # i => qs[j] = ps[j]
  BY <1>4
<1>7. \A j \in DOMAIN ps :
         /\ qs[j].loan = ps[j].loan /\ qs[j].amount = ps[j].amount
         /\ qs[j].fund = ps[j].fund /\ qs[j].before = ps[j].before
         /\ qs[j].live = ps[j].live /\ qs[j].voided = ps[j].voided
  BY <1>3, <1>6
<1>8. qs[i].undo = u
  BY <1>3, <1>6
<1>9. BalancesFit(ls, qs)
  <2> SUFFICES ASSUME NEW l \in Loans
               PROVE  ls[l].balance = Opening[l] - SumOf(AmountsOf(qs), Standing(qs, l))
    BY DEF BalancesFit
  <2>1. Standing(qs, l) = Standing(ps, l) /\ Standing(ps, l) \subseteq DOMAIN ps
    BY <1>6, <1>7 DEF Standing
  <2>2. \A j \in Standing(ps, l) : AmountsOf(qs)[j] = AmountsOf(ps)[j]
    BY <1>6, <1>7, <2>1 DEF AmountsOf
  <2>3. SumOf(AmountsOf(qs), Standing(ps, l)) = SumOf(AmountsOf(ps), Standing(ps, l))
    <3> DEFINE f == AmountsOf(qs)
               h == AmountsOf(ps)
               S == Standing(ps, l)
    <3>1. \A j \in S : f[j] = h[j]
      BY <2>2
    <3> HIDE DEF f, h, S
    <3>2. SumOf(f, S) = SumOf(h, S)
      BY <3>1, SumOfSame
    <3> QED BY <3>2 DEF f, h, S
  <2>4. ls[l].balance = Opening[l] - SumOf(AmountsOf(ps), Standing(ps, l))
    BY DEF BooksFit, BalancesFit
  <2> QED BY <2>1, <2>3, <2>4
<1>10. LatestFits(ls, qs)
  BY <1>6, <1>7 DEF BooksFit, LatestFits
<1>11. VoidsFit(ls, qs)
  BY <1>6, <1>7 DEF BooksFit, VoidsFit
<1> QED BY <1>1, <1>5, <1>6, <1>7, <1>8, <1>9, <1>10, <1>11 DEF BooksFit, BooksTyped

\* Funds whose live receipts are the same.
LEMMA FundsStay ==
    ASSUME NEW rs, NEW ps, NEW fs, FundsFit(rs, fs),
           \A f \in Funds : LiveOf(ps, f) = LiveOf(rs, f),
           DOMAIN rs \subseteq DOMAIN ps, \A i \in DOMAIN rs : ps[i].amount = rs[i].amount
    PROVE  FundsFit(ps, fs)
<1> SUFFICES ASSUME NEW f \in Funds
             PROVE  SumOf(AmountsOf(ps), LiveOf(rs, f)) = SumOf(AmountsOf(rs), LiveOf(rs, f))
  BY DEF FundsFit
<1>1. \A i \in LiveOf(rs, f) : AmountsOf(ps)[i] = AmountsOf(rs)[i]
  BY DEF LiveOf, AmountsOf
<1> QED BY <1>1, SumOfSame

-----------------------------------------------------------------------------
(* The actions that post and take back nothing.                            *)

LEMMA PostingStart ==
    ASSUME PostingAssumption, PostingInit
    PROVE  PostingInv
<1>1. Opening \in [Loans -> Nat] /\ 1 \in 1 .. LastDay /\ FundAmount \in Nat
  BY DEF PostingAssumption
<1>2. day = 1 /\ loans = [l \in Loans |-> [balance |-> Opening[l], version |-> 1]]
      /\ collected = <<>> /\ allocations = <<>> /\ review = NoReview /\ wire = {} /\ told = {}
      /\ funds = [f \in Funds |-> [applied |-> 0, refunded |-> 0, version |-> 1]]
  BY DEF PostingInit
<1>3. loans \in [Loans -> State] /\ \A l \in Loans : loans[l].balance = Opening[l]
  BY <1>1, <1>2 DEF State
<1>4. collected \in Seq(Entry) /\ DOMAIN collected = {}
  BY <1>2
<1>5. BalancesFit(loans, collected)
  <2>1. \A l \in Loans : Standing(collected, l) = {}
    BY <1>4 DEF Standing
  <2> QED BY <1>1, <1>3, <2>1, SumOfNone DEF BalancesFit
<1>6. BooksFit(loans, collected)
  BY <1>3, <1>4, <1>5 DEF BooksFit, BooksTyped, LatestFits, VoidsFit
<1>7. FundsFit(collected, funds)
  <2>1. \A f \in Funds : LiveOf(collected, f) = {}
    BY <1>4 DEF LiveOf
  <2>2. \A f \in Funds : SumOf(AmountsOf(collected), LiveOf(collected, f)) = 0
    BY <2>1, SumOfNone
  <2>3. funds \in [Funds -> Fund] /\ \A f \in Funds : funds[f].applied = 0 /\ funds[f].refunded = 0
    BY <1>2 DEF Fund
  <2> QED BY <1>1, <2>2, <2>3 DEF FundsFit
<1>8. AllocationsFit(collected, allocations)
  <2>1. allocations \in Seq(Allocation) /\ DOMAIN allocations = {}
    BY <1>2
  <2> QED BY <2>1 DEF AllocationsFit
<1>9. ReviewFits(loans, review) /\ WireFits(collected, wire) /\ AnswersFit(collected, told)
  BY <1>2 DEF ReviewFits, WireFits, AnswersFit
<1> QED BY <1>1, <1>2, <1>6, <1>7, <1>8, <1>9 DEF PostingInv

LEMMA StillKeeps ==
    ASSUME PostingInv, UNCHANGED postingVars
    PROVE  PostingInv'
<1>1. /\ day' = day /\ loans' = loans /\ collected' = collected /\ funds' = funds
      /\ allocations' = allocations /\ review' = review /\ wire' = wire /\ told' = told
  BY DEF postingVars
<1> QED BY <1>1 DEF PostingInv, BooksFit, BooksTyped, BalancesFit, LatestFits, VoidsFit,
                   AllocationsFit, FundsFit, ReviewFits, WireFits, AnswersFit

LEMMA MidnightKeeps ==
    ASSUME PostingAssumption, PostingInv, Midnight
    PROVE  PostingInv'
<1>1. /\ loans' = loans /\ collected' = collected /\ funds' = funds
      /\ allocations' = allocations /\ review' = review /\ wire' = wire /\ told' = told
  BY DEF Midnight
<1>2. day' \in 1 .. LastDay
  BY DEF Midnight, PostingInv, PostingAssumption
<1> QED BY <1>1, <1>2 DEF PostingInv

LEMMA RefundKeeps ==
    ASSUME PostingAssumption, PostingInv, NEW f \in Funds, NEW amount \in Payments,
           Refund(f, amount)
    PROVE  PostingInv'
<1>1. /\ day' = day /\ loans' = loans /\ collected' = collected
      /\ allocations' = allocations /\ review' = review /\ wire' = wire /\ told' = told
      /\ amount <= Unspent(f)
      /\ funds' = [funds EXCEPT ![f].refunded = @ + amount, ![f].version = @ + 1]
  BY DEF Refund
<1>2. funds \in [Funds -> Fund] /\ amount \in Nat /\ FundAmount \in Nat
  BY DEF PostingInv, FundsFit, PostingAssumption
<1>3. /\ funds[f].applied \in Nat /\ funds[f].refunded \in Nat /\ funds[f].version \in Nat
  BY <1>2 DEF Fund
<1>4. /\ funds' \in [Funds -> Fund] /\ funds'[f].applied = funds[f].applied
      /\ funds'[f].refunded = funds[f].refunded + amount
      /\ \A g \in Funds : g # f => funds'[g] = funds[g]
  BY <1>1, <1>2, <1>3 DEF Fund
<1>5. FundsFit(collected, funds')
  <2> SUFFICES ASSUME NEW g \in Funds
               PROVE  /\ funds'[g].applied = SumOf(AmountsOf(collected), LiveOf(collected, g))
                      /\ funds'[g].applied + funds'[g].refunded <= FundAmount
    BY <1>4 DEF FundsFit
  <2>1. /\ funds[g].applied = SumOf(AmountsOf(collected), LiveOf(collected, g))
        /\ funds[g].applied + funds[g].refunded <= FundAmount
    BY DEF PostingInv, FundsFit
  <2>2. CASE g # f
    BY <1>4, <2>1, <2>2
  <2>3. CASE g = f
    <3>1. amount <= FundAmount - funds[f].applied - funds[f].refunded
      BY <1>1 DEF Unspent
    <3>2. funds[f].applied + (funds[f].refunded + amount) <= FundAmount
      BY <1>2, <1>3, <3>1
    <3>3. funds'[g].applied = funds[g].applied
      BY <1>4, <2>3
    <3> QED BY <1>4, <2>1, <2>3, <3>2, <3>3
  <2> QED BY <2>2, <2>3
<1> QED BY <1>1, <1>5 DEF PostingInv

LEMMA PreviewKeeps ==
    ASSUME PostingAssumption, PostingInv, NEW f \in Funds, NEW selected \in SUBSET Loans,
           NEW amount \in Payments, Preview(f, selected, amount)
    PROVE  PostingInv'
<1>1. /\ day' = day /\ loans' = loans /\ collected' = collected /\ funds' = funds
      /\ allocations' = allocations /\ wire' = wire /\ told' = told
      /\ review' = Digest(f, selected, amount) /\ selected # {}
      /\ \A l, k \in selected \ {1} : l = k
      /\ Within(Parts(selected, amount))
  BY DEF Preview
<1>2. loans \in [Loans -> State]
  BY DEF PostingInv, BooksFit, BooksTyped
<1>3. ReviewFits(loans, review')
  <2> DEFINE rv == Digest(f, selected, amount)
  <2>1. /\ rv.fund = f /\ rv.loans = selected /\ rv.amount = amount
        /\ rv.versions = [l \in selected |-> loans[l].version]
        /\ rv.parts = Parts(selected, amount)
    BY DEF Digest
  <2> HIDE DEF rv
  <2>2. ASSUME NEW l \in selected
        PROVE  /\ rv.versions[l] <= loans[l].version /\ rv.versions[l] \in Nat
               /\ SumOf(SharesOf(rv.parts, l), DOMAIN rv.parts) <= loans[l].balance
    <3>1. loans[l].version \in Nat /\ rv.versions[l] = loans[l].version
      BY <1>2, <2>1 DEF State
    <3>2. MapThenSumSet(LAMBDA i : IF rv.parts[i].loan = l THEN rv.parts[i].amount ELSE 0,
                        DOMAIN rv.parts) <= loans[l].balance
      <4>1. Within(rv.parts) /\ l \in Loans
        BY <1>1, <2>1
      <4> QED BY <4>1 DEF Within
    <3>3. SumOf(SharesOf(rv.parts, l), DOMAIN rv.parts) <= loans[l].balance
      BY <3>2, SharesAreSum
    <3> QED BY <3>1, <3>3
  <2>3. ReviewFits(loans, rv)
    BY <1>1, <2>1, <2>2 DEF ReviewFits
  <2> QED BY <1>1, <2>3 DEF rv
<1> QED BY <1>1, <1>3 DEF PostingInv

LEMMA AccountKeeps ==
    ASSUME PostingInv, NEW a \in DOMAIN allocations, Account(a)
    PROVE  PostingInv'
<1>1. /\ day' = day /\ loans' = loans /\ collected' = collected /\ funds' = funds
      /\ review' = review /\ wire' = wire /\ told' = told
      /\ allocations' = [allocations EXCEPT ![a].accounted = TRUE]
  BY DEF Account
<1>2. allocations \in Seq(Allocation) /\ allocations[a] \in Allocation
  BY ElementOfSeq, LenProperties DEF PostingInv, AllocationsFit
<1> DEFINE n == [allocations[a] EXCEPT !.accounted = TRUE]
<1>3. /\ n \in Allocation /\ n.ids = allocations[a].ids /\ n.fund = allocations[a].fund
      /\ n.active = allocations[a].active
  BY <1>2 DEF Allocation
<1>4. allocations' = [allocations EXCEPT ![a] = n]
  BY <1>1, <1>2 DEF Allocation
<1> HIDE DEF n
<1>5. allocations' \in Seq(Allocation)
  <2>1. a \in 1 .. Len(allocations)
    BY <1>2, LenProperties
  <2> QED BY <1>2, <1>3, <1>4, <2>1, ExceptSeq
<1>6. /\ DOMAIN allocations' = DOMAIN allocations /\ allocations'[a] = n
      /\ \A b \in DOMAIN allocations : b # a => allocations'[b] = allocations[b]
      /\ \A b \in DOMAIN allocations : allocations'[b].ids = allocations[b].ids
  BY <1>3, <1>4
<1>7. \A b \in DOMAIN allocations : AllocationFits(collected, allocations'[b])
  <2> TAKE b \in DOMAIN allocations
  <2>1. AllocationFits(collected, allocations[b])
    BY DEF PostingInv, AllocationsFit
  <2>2. CASE b # a
    BY <1>6, <2>1, <2>2
  <2>3. CASE b = a
    <3>1. \A i \in ToSet(allocations[a].ids) :
             i \in DOMAIN collected /\ collected[i].live = n.active
      BY <1>3, <2>1, <2>3, IdsAre
    <3>2. AllocationFits(collected, n)
      BY <1>3, <2>1, <2>3, <3>1, AllocationStays
    <3> QED BY <1>6, <2>3, <3>2
  <2> QED BY <2>2, <2>3
<1>8. AllocationsFit(collected, allocations')
  BY <1>5, <1>6, <1>7 DEF PostingInv, AllocationsFit
<1> QED BY <1>1, <1>8 DEF PostingInv

LEMMA AskKeeps ==
    ASSUME PostingInv, NEW i \in DOMAIN collected, NEW reason \in Reasons, AskUndo(i, reason)
    PROVE  PostingInv'
<1>1. /\ day' = day /\ loans' = loans /\ collected' = collected /\ funds' = funds
      /\ allocations' = allocations /\ review' = review /\ told' = told
      /\ wire' = wire \cup {[id |-> i, rev |-> loans[collected[i].loan].version,
                             reason |-> reason]}
  BY DEF AskUndo
<1>2. loans[collected[i].loan].version \in Nat
  <2>1. loans \in [Loans -> State] /\ collected[i].loan \in Loans
    BY EntriesAre DEF PostingInv, BooksFit, BooksTyped
  <2> QED BY <2>1 DEF State
<1>3. WireFits(collected, wire')
  BY <1>1, <1>2 DEF PostingInv, WireFits
<1> QED BY <1>1, <1>3 DEF PostingInv

-----------------------------------------------------------------------------
(* The actions that post.                                                  *)

\* What posting does to the rows.
RowsPosted(parts, fund, ps) ==
    LET new == NewRows(collected, Len(parts)) IN
    /\ DOMAIN ps = DOMAIN collected \cup new /\ DOMAIN collected \cap new = {}
    /\ \A i \in DOMAIN collected : ps[i] = collected[i]
    /\ \A i \in new : ps[i].fund = fund /\ ps[i].live
    /\ SumOf(AmountsOf(ps), new) = AmountOf(parts) /\ IsFiniteSet(new)
    /\ ChainFits(ps, new)

LEMMA SumRenamed ==
    ASSUME NEW f, NEW g, NEW S, NEW T, IsFiniteSet(S), IsFiniteSet(T), NEW h, NEW z,
           \A x \in S : f[x] \in Int /\ h[x] \in T /\ z[h[x]] = x,
           \A t \in T : z[t] \in S /\ h[z[t]] = t /\ g[t] = f[z[t]]
    PROVE  SumOf(f, S) = SumOf(g, T)
<1>1. ASSUME NEW t \in T PROVE SumOf(f, {x \in S : h[x] = t}) = g[t] /\ g[t] \in Int
  <2>1. PICK y : y = z[t]
    OBVIOUS
  <2>2. {x \in S : h[x] = t} = {y}
    BY <2>1
  <2>3. f[y] \in Int /\ g[t] = f[y]
    BY <2>1
  <2>4. SumOf(f, {y}) = f[y]
    BY <2>3, SumOfFew
  <2> QED BY <2>2, <2>3, <2>4
<1>2. (\A x \in S : f[x] \in Int) /\ (\A x \in S : h[x] \in T)
      /\ (\A t \in T : g[t] \in Int) /\ \A t \in T : SumOf(f, {x \in S : h[x] = t}) = g[t]
  BY <1>1
<1> QED BY <1>2, SumOfGroups

Shifted(new, m, n) == new = {m + k : k \in 1 .. n}

LEMMA NewRowsSum ==
    ASSUME NEW parts \in Seq(Part), NEW m \in Nat, NEW ps, NEW new, Shifted(new, m, Len(parts)),
           \A k \in 1 .. Len(parts) : ps[m + k].amount = parts[k].amount,
           new \subseteq DOMAIN ps, IsFiniteSet(DOMAIN ps)
    PROVE  SumOf(AmountsOf(ps), new) = AmountOf(parts) /\ IsFiniteSet(new)
<1> DEFINE N == Len(parts)
           f == AmountsOf(ps)
           g == CashOf(parts)
           h == [x \in new |-> x - m]
<1>1. N \in Nat /\ DOMAIN parts = 1 .. N /\ \A k \in 1 .. N : parts[k].amount \in Nat
  BY PartsAre
<1>2. IsFiniteSet(1 .. N)
  <2>1. IsFiniteSet(DOMAIN parts)
    BY PartsAre
  <2> QED BY <1>1, <2>1
<1>3. IsFiniteSet(new)
  BY FS_Subset
<1> HIDE DEF N
<1>4. \A x \in new : h[x] \in 1 .. N /\ x = m + h[x]
  BY <1>1 DEF N, Shifted
<1>5. \A x \in new : f[x] \in Nat
  <2> TAKE x \in new
  <2>1. h[x] \in 1 .. N /\ x = m + h[x]
    BY <1>4
  <2>2. ps[x].amount \in Nat
    <3> DEFINE k == h[x]
    <3>1. k \in 1 .. N /\ x = m + k
      BY <2>1
    <3> HIDE DEF k, h
    <3>2. ps[m + k].amount = parts[k].amount
      BY <3>1 DEF N
    <3> QED BY <1>1, <3>1, <3>2
  <2> QED BY <2>2 DEF AmountsOf
<1> DEFINE z == [t \in 1 .. N |-> m + t]
<1>6. \A t \in 1 .. N : z[t] \in new /\ h[z[t]] = t /\ g[t] = f[z[t]]
  <2> TAKE t \in 1 .. N
  <2>1. t \in Nat /\ z[t] = m + t
    BY <1>1
  <2>2. z[t] \in new
    BY <2>1 DEF N, Shifted
  <2>3. h[z[t]] = t
    BY <2>1, <2>2
  <2>4. g[t] = parts[t].amount /\ f[z[t]] = ps[z[t]].amount
    BY <1>1, <2>2 DEF CashOf, AmountsOf
  <2>5. ps[m + t].amount = parts[t].amount
    BY DEF N
  <2> QED BY <2>1, <2>2, <2>3, <2>4, <2>5
<1>7. \A x \in new : f[x] \in Int /\ h[x] \in 1 .. N /\ z[h[x]] = x
  BY <1>4, <1>5
<1>8. SumOf(f, new) = SumOf(g, 1 .. N)
  <2>1. PICK T : T = 1 .. N
    OBVIOUS
  <2> HIDE DEF f, g, h, z
  <2>2. /\ IsFiniteSet(T) /\ (\A x \in new : f[x] \in Int /\ h[x] \in T /\ z[h[x]] = x)
        /\ \A t \in T : z[t] \in new /\ h[z[t]] = t /\ g[t] = f[z[t]]
    BY <1>2, <1>6, <1>7, <2>1
  <2>3. SumOf(f, new) = SumOf(g, T)
    BY <1>3, <2>2, SumRenamed
  <2> QED BY <2>1, <2>3
<1> QED BY <1>1, <1>3, <1>8 DEF f, g, N, AmountOf

LEMMA PostedRows ==
    ASSUME PostingAssumption, PostingInv, NEW parts, PartsFit(parts),
           NEW fund \in Funds \cup {Cash}, Posted(parts, fund)
    PROVE  /\ BooksFit(loans', collected') /\ LoansMoved(loans, loans')
           /\ RowsPosted(parts, fund, collected')
<1> DEFINE st == PostAll(parts, fund)
           N == Len(parts)
           M == Len(collected)
           new == NewRows(collected, N)
<1>1. Opening \in [Loans -> Nat] /\ day \in Nat /\ BooksFit(loans, collected)
  BY DEF PostingAssumption, PostingInv
<1>2. PostedTo(parts, fund, st, N)
  BY <1>1, PostAllGoes
<1>3. loans' = st.loans /\ collected' = st.rs
  BY DEF Posted
<1> HIDE DEF st
<1>4. /\ N \in Nat /\ parts \in Seq(Part) /\ DOMAIN parts = 1 .. N
  BY PartsAre DEF PartsFit
<1>5. /\ collected \in Seq(Entry) /\ collected' \in Seq(Entry) /\ M \in Nat
      /\ DOMAIN collected = 1 .. M /\ DOMAIN collected' = 1 .. (M + N)
  <2>1. collected \in Seq(Entry) /\ collected' \in Seq(Entry) /\ Len(collected') = M + N
    BY <1>1, <1>2, <1>3 DEF PostedTo, BooksFit, BooksTyped
  <2> QED BY <2>1, LenProperties
<1>6. BooksFit(loans', collected') /\ LoansMoved(loans, loans')
      /\ (\A i \in DOMAIN collected : collected'[i] = collected[i])
      /\ ChainFits(collected', new)
  BY <1>2, <1>3 DEF PostedTo
<1>7. \A k \in 1 .. N : /\ collected'[M + k].amount = parts[k].amount
                        /\ collected'[M + k].fund = fund /\ collected'[M + k].live
  BY <1>2, <1>3 DEF PostedTo
<1>8. new = {M + k : k \in 1 .. N}
  BY DEF NewRows
<1> HIDE DEF N, M, new
<1>9. DOMAIN collected' = DOMAIN collected \cup new /\ DOMAIN collected \cap new = {}
  <2>1. \A x \in 1 .. (M + N) : x \in 1 .. M \/ (x - M \in 1 .. N /\ x = M + (x - M))
    BY <1>4, <1>5
  <2>2. \A k \in 1 .. N : M + k \in 1 .. (M + N) /\ M + k \notin 1 .. M
    BY <1>4, <1>5
  <2>3. \A x \in 1 .. M : x \in 1 .. (M + N)
    BY <1>4, <1>5
  <2>4. \A x \in 1 .. (M + N) : x \in 1 .. M \/ x \in new
    BY <1>8, <2>1
  <2>5. \A x \in new : x \in 1 .. (M + N) /\ x \notin 1 .. M
    BY <1>8, <2>2
  <2> QED BY <1>5, <2>3, <2>4, <2>5
<1>10. \A i \in new : collected'[i].fund = fund /\ collected'[i].live
  BY <1>7, <1>8
<1>11. SumOf(AmountsOf(collected'), new) = AmountOf(parts) /\ IsFiniteSet(new)
  <2>1. PICK ps : ps = collected'
    OBVIOUS
  <2>2. new \subseteq DOMAIN ps /\ \A k \in 1 .. N : ps[M + k].amount = parts[k].amount
    BY <1>7, <1>9, <2>1
  <2>3. SumOf(AmountsOf(ps), new) = AmountOf(parts) /\ IsFiniteSet(new)
    <3>1. Shifted(new, M, Len(parts)) /\ IsFiniteSet(DOMAIN ps)
      BY <1>5, <1>8, <2>1, EntriesAre DEF N, Shifted
    <3> QED BY <1>4, <1>5, <2>2, <3>1, NewRowsSum DEF N
  <2> QED BY <2>1, <2>3
<1> QED BY <1>6, <1>9, <1>10, <1>11 DEF RowsPosted, new, N

\* What posting leaves fitting.
LEMMA PostedKeeps ==
    ASSUME PostingAssumption, PostingInv, NEW parts, NEW fund \in Funds \cup {Cash}, NEW ps,
           RowsPosted(parts, fund, ps)
    PROVE  /\ RowsKept(collected, ps)
           /\ \A a \in DOMAIN allocations : AllocationFits(ps, allocations[a])
           /\ \A f \in Funds \ {fund} : LiveOf(ps, f) = LiveOf(collected, f)
           /\ fund \in Funds => LiveOf(ps, fund) = LiveOf(collected, fund) \cup NewRows(collected, Len(parts))
<1> DEFINE new == NewRows(collected, Len(parts))
<1>1. /\ DOMAIN ps = DOMAIN collected \cup new /\ DOMAIN collected \cap new = {}
      /\ \A i \in DOMAIN collected : ps[i] = collected[i]
      /\ \A i \in new : ps[i].fund = fund /\ ps[i].live
  BY DEF RowsPosted
<1> HIDE DEF new
<1>2. RowsKept(collected, ps)
  BY <1>1 DEF RowsKept
<1>3. ASSUME NEW a \in DOMAIN allocations PROVE AllocationFits(ps, allocations[a])
  <2>1. AllocationFits(collected, allocations[a])
    BY DEF PostingInv, AllocationsFit
  <2>2. \A i \in ToSet(allocations[a].ids) :
           i \in DOMAIN collected /\ collected[i].live = allocations[a].active
    BY <2>1, IdsAre
  <2>3. \A i \in ToSet(allocations[a].ids) : i \in DOMAIN ps /\ ps[i] = collected[i]
    BY <1>1, <2>2
  <2> QED BY <2>1, <2>2, <2>3, AllocationStays
<1>4. ASSUME NEW f \in Funds, f # fund PROVE LiveOf(ps, f) = LiveOf(collected, f)
  BY <1>1, <1>4 DEF LiveOf
<1>5. LiveOf(ps, fund) = LiveOf(collected, fund) \cup new
  BY <1>1 DEF LiveOf
<1> QED BY <1>2, <1>3, <1>4, <1>5 DEF new

LEMMA OnePart ==
    ASSUME NEW l \in Loans, NEW amount \in Nat, loans \in [Loans -> State],
           amount <= loans[l].balance
    PROVE  PartsFit(<<[loan |-> l, amount |-> amount]>>)
<1> DEFINE p == [loan |-> l, amount |-> amount]
           parts == <<p>>
<1>1. p \in Part /\ p.loan = l /\ p.amount = amount
  BY DEF Part
<1> HIDE DEF p
<1>2. parts \in Seq(Part) /\ DOMAIN parts = {1} /\ parts[1] = p
  BY <1>1
<1> HIDE DEF parts
<1>3. ASSUME NEW k \in Loans
      PROVE  SumOf(SharesOf(parts, k), DOMAIN parts) <= loans[k].balance
  <2> DEFINE f == SharesOf(parts, k)
  <2>1. f[1] = IF k = l THEN amount ELSE 0
    BY <1>1, <1>2 DEF SharesOf
  <2>2. f[1] \in Int
    BY <2>1
  <2>3. loans[k].balance \in Nat
    BY DEF State
  <2> HIDE DEF f
  <2>4. SumOf(f, {1}) = f[1]
    BY <2>2, SumOfFew
  <2>5. SumOf(f, DOMAIN parts) <= loans[k].balance
    BY <1>2, <2>1, <2>3, <2>4
  <2> QED BY <2>5 DEF f
<1>4. PartsFit(parts)
  BY <1>2, <1>3 DEF PartsFit
<1> QED BY <1>4 DEF parts, p

LEMMA CollectKeeps ==
    ASSUME PostingAssumption, PostingInv, NEW l \in Loans, NEW amount \in Payments,
           Collect(l, amount)
    PROVE  PostingInv'
<1> DEFINE parts == <<[loan |-> l, amount |-> amount]>>
<1>1. /\ day' = day /\ funds' = funds /\ allocations' = allocations /\ review' = review
      /\ wire' = wire /\ told' = told /\ Posted(parts, Cash) /\ amount <= loans[l].balance
  BY DEF Collect
<1>2. loans \in [Loans -> State] /\ amount \in Nat /\ Cash \notin Funds
  BY DEF PostingInv, BooksFit, BooksTyped, PostingAssumption
<1>3. PartsFit(parts)
  BY <1>1, <1>2, OnePart
<1> HIDE DEF parts
<1>4. /\ BooksFit(loans', collected') /\ LoansMoved(loans, loans')
      /\ RowsPosted(parts, Cash, collected')
  BY <1>1, <1>3, PostedRows
<1>5. PICK ps : ps = collected'
  OBVIOUS
<1>6. /\ RowsKept(collected, ps)
      /\ \A a \in DOMAIN allocations : AllocationFits(ps, allocations[a])
      /\ \A f \in Funds \ {Cash} : LiveOf(ps, f) = LiveOf(collected, f)
  <2>1. RowsPosted(parts, Cash, ps) /\ Cash \in Funds \cup {Cash}
    BY <1>4, <1>5
  <2> QED BY <2>1, PostedKeeps
<1>7. FundsFit(ps, funds)
  <2>1. DOMAIN collected \subseteq DOMAIN ps /\ \A i \in DOMAIN collected : ps[i] = collected[i]
    BY <1>4, <1>5 DEF RowsPosted
  <2>2. \A f \in Funds : LiveOf(ps, f) = LiveOf(collected, f)
    BY <1>2, <1>6
  <2>3. FundsFit(collected, funds)
    BY DEF PostingInv
  <2> QED BY <2>1, <2>2, <2>3, FundsStay
<1>8. AllocationsFit(ps, allocations)
  BY <1>6 DEF PostingInv, AllocationsFit
<1>9. WireFits(ps, wire) /\ AnswersFit(ps, told)
  BY <1>6, RequestsStay DEF PostingInv
<1>10. ReviewFits(loans', review)
  <2>1. loans' \in [Loans -> State]
    BY <1>4 DEF BooksFit, BooksTyped
  <2>2. ReviewFits(loans, review)
    BY DEF PostingInv
  <2> QED BY <1>2, <1>4, <2>1, <2>2, ReviewStays
<1> QED BY <1>1, <1>4, <1>5, <1>7, <1>8, <1>9, <1>10 DEF PostingInv

\* A preview that is current fits the loans.
LEMMA CurrentFits ==
    ASSUME PostingAssumption, PostingInv, review # NoReview, Current(review)
    PROVE  /\ PartsFit(review.parts) /\ AmountOf(review.parts) = review.amount
           /\ review.fund \in Funds /\ review.amount \in Nat
<1> DEFINE S == review.loans
           parts == review.parts
<1>1. /\ review.fund \in Funds /\ review.amount \in Nat /\ S \in SUBSET Loans /\ S # {}
      /\ \A l, k \in S \ {1} : l = k
      /\ \A l \in S : review.versions[l] = loans[l].version =>
            SumOf(SharesOf(parts, l), DOMAIN parts) <= loans[l].balance
  BY DEF PostingInv, ReviewFits, PostingAssumption
<1>2. parts = Parts(S, review.amount) /\ review.versions = [l \in S |-> loans[l].version]
  <2> DEFINE d == Digest(review.fund, S, review.amount)
  <2>1. review = d
    BY DEF Current
  <2>2. d.parts = Parts(S, review.amount) /\ d.versions = [l \in S |-> loans[l].version]
    BY DEF Digest
  <2> HIDE DEF d
  <2> QED BY <2>1, <2>2
<1> HIDE DEF S, parts
<1>3. BooksFit(loans, collected) /\ Daily \in [Loans -> Nat \ {0}] /\ loans \in [Loans -> State]
  BY DEF PostingInv, PostingAssumption, BooksFit, BooksTyped
<1>4. SplitOf(parts, S, review.amount)
  BY <1>1, <1>2, <1>3, PartsSplit
<1>5. parts \in Seq(Part) /\ AmountOf(parts) = review.amount /\ \A k \in DOMAIN parts : parts[k].loan \in S
  BY <1>4 DEF SplitOf
<1>6. ASSUME NEW l \in Loans
      PROVE  SumOf(SharesOf(parts, l), DOMAIN parts) <= loans[l].balance
  <2>1. CASE l \in S
    BY <1>1, <1>2, <2>1
  <2>2. CASE l \notin S
    <3>1. SumOf(SharesOf(parts, l), DOMAIN parts) = 0
      BY <1>5, <2>2, NoShare
    <3>2. loans[l].balance \in Nat
      BY <1>3 DEF State
    <3> QED BY <3>1, <3>2
  <2> QED BY <2>1, <2>2
<1> QED BY <1>1, <1>5, <1>6 DEF PartsFit, parts

LEMMA LiveSum ==
    ASSUME NEW ls, NEW rs, BooksFit(ls, rs), NEW f
    PROVE  /\ SumOf(AmountsOf(rs), LiveOf(rs, f)) \in Nat /\ IsFiniteSet(LiveOf(rs, f))
           /\ LiveOf(rs, f) \in SUBSET DOMAIN rs
           /\ \A i \in DOMAIN rs : AmountsOf(rs)[i] \in Nat
<1>1. rs \in Seq(Entry) /\ LiveOf(rs, f) \in SUBSET DOMAIN rs
  BY DEF BooksFit, BooksTyped, LiveOf
<1> QED BY <1>1, StandingSum, EntriesAre

LEMMA AppliedKeeps ==
    ASSUME PostingAssumption, PostingInv, Apply
    PROVE  PostingInv'
<1> DEFINE parts == review.parts
           F == review.fund
           N == Len(parts)
           n == [fund |-> F, active |-> TRUE, accounted |-> FALSE,
                 ids |-> [i \in 1 .. N |-> Len(collected) + i]]
           new == NewRows(collected, N)
<1>1. /\ day' = day /\ review' = NoReview /\ wire' = wire /\ told' = told
      /\ Posted(parts, F) /\ review # NoReview /\ Current(review)
      /\ review.amount <= Unspent(F) /\ allocations' = Append(allocations, n)
      /\ funds' = [funds EXCEPT ![F].applied = @ + review.amount, ![F].version = @ + 1]
  BY DEF Apply
<1>2. /\ PartsFit(parts) /\ AmountOf(parts) = review.amount
      /\ F \in Funds /\ review.amount \in Nat
  BY <1>1, CurrentFits
<1>3. /\ BooksFit(loans', collected') /\ LoansMoved(loans, loans')
      /\ RowsPosted(parts, F, collected')
  BY <1>1, <1>2, PostedRows
<1>4. PICK ps : ps = collected'
  OBVIOUS
<1>5. RowsPosted(parts, F, ps) /\ BooksFit(loans', ps)
  BY <1>3, <1>4
<1>6. /\ RowsKept(collected, ps)
      /\ \A a \in DOMAIN allocations : AllocationFits(ps, allocations[a])
      /\ \A f \in Funds \ {F} : LiveOf(ps, f) = LiveOf(collected, f)
      /\ LiveOf(ps, F) = LiveOf(collected, F) \cup new
  BY <1>2, <1>5, PostedKeeps
<1>7. /\ DOMAIN ps = DOMAIN collected \cup new /\ DOMAIN collected \cap new = {}
      /\ \A i \in DOMAIN collected : ps[i] = collected[i]
      /\ \A i \in new : ps[i].fund = F /\ ps[i].live
      /\ SumOf(AmountsOf(ps), new) = AmountOf(parts) /\ IsFiniteSet(new)
      /\ ChainFits(ps, new)
  BY <1>5 DEF RowsPosted
<1>8. N \in Nat /\ Len(collected) \in Nat
  BY <1>2, PartsAre, LenProperties DEF PartsFit, PostingInv, BooksFit, BooksTyped
<1>9. /\ n \in Allocation /\ n.fund = F /\ n.active = TRUE
      /\ n.ids = [i \in 1 .. N |-> Len(collected) + i]
  <2>1. n.ids \in [1 .. N -> Nat]
    <3> HIDE DEF N
    <3> QED BY <1>8
  <2>2. n.ids \in Seq(Nat)
    <3> HIDE DEF n
    <3> QED BY <1>8, <2>1, SeqDef
  <2> QED BY <1>2, <2>2 DEF Allocation
<1> HIDE DEF n, N, parts, F
<1>10. ToSet(n.ids) = new
  BY <1>9 DEF ToSet, NewRows
<1> HIDE DEF new
<1>11. AllocationFits(ps, n)
  <2>1. \A k \in DOMAIN n.ids : n.ids[k] \in new
    BY <1>10 DEF ToSet
  <2>2. \A k \in DOMAIN n.ids : n.ids[k] \in DOMAIN ps /\ ps[n.ids[k]].fund = n.fund
                                /\ ps[n.ids[k]].live = n.active
    <3>1. \A i \in new : ps[i].live = TRUE
      <4>1. ps \in Seq(Entry)
        BY <1>5 DEF BooksFit, BooksTyped
      <4>2. \A i \in DOMAIN ps : ps[i].live \in BOOLEAN
        BY <4>1, EntriesAre
      <4> QED BY <1>7, <4>2
    <3> QED BY <1>7, <1>9, <2>1, <3>1
  <2>3. \A k, m \in DOMAIN n.ids : k < m => n.ids[k] < n.ids[m]
    BY <1>8, <1>9
  <2> QED BY <1>7, <1>10, <2>2, <2>3 DEF AllocationFits
<1>12. AllocationsFit(ps, allocations')
  <2> DEFINE K == Len(allocations) + 1
  <2>1. allocations \in Seq(Allocation)
    BY DEF PostingInv, AllocationsFit
  <2>2. /\ allocations' \in Seq(Allocation) /\ Len(allocations') = K /\ allocations'[K] = n
        /\ \A b \in 1 .. Len(allocations) : allocations'[b] = allocations[b]
    BY <1>1, <1>9, <2>1, AppendProperties
  <2>3. DOMAIN allocations = 1 .. Len(allocations) /\ DOMAIN allocations' = 1 .. K
        /\ Len(allocations) \in Nat
    BY <2>1, <2>2, LenProperties
  <2> HIDE DEF K
  <2>4. \A b \in DOMAIN allocations' : b \in DOMAIN allocations \/ b = K
    BY <2>3 DEF K
  <2>5. \A b \in DOMAIN allocations : allocations'[b] = allocations[b]
                                      /\ ToSet(allocations[b].ids) \subseteq DOMAIN collected
    <3> TAKE b \in DOMAIN allocations
    <3>1. AllocationFits(collected, allocations[b])
      BY DEF PostingInv, AllocationsFit
    <3> QED BY <2>2, <2>3, <3>1, IdsAre
  <2>6. \A b \in DOMAIN allocations' : AllocationFits(ps, allocations'[b])
    BY <1>6, <1>11, <2>2, <2>4, <2>5
  <2>7. ASSUME NEW b \in DOMAIN allocations', NEW d \in DOMAIN allocations', b # d
        PROVE  ToSet(allocations'[b].ids) \cap ToSet(allocations'[d].ids) = {}
    <3>1. CASE b \in DOMAIN allocations /\ d \in DOMAIN allocations
      <4>1. ToSet(allocations[b].ids) \cap ToSet(allocations[d].ids) = {}
        BY <2>7, <3>1 DEF PostingInv, AllocationsFit
      <4> QED BY <2>5, <3>1, <4>1
    <3>2. CASE b \in DOMAIN allocations /\ d = K
      BY <1>7, <1>10, <2>2, <2>5, <3>2
    <3>3. CASE b = K /\ d \in DOMAIN allocations
      BY <1>7, <1>10, <2>2, <2>5, <3>3
    <3> QED BY <2>4, <2>7, <3>1, <3>2, <3>3
  <2> QED BY <2>2, <2>6, <2>7 DEF AllocationsFit
<1>13. FundsFit(ps, funds')
  <2>1. funds \in [Funds -> Fund] /\ FundAmount \in Nat
    BY DEF PostingInv, FundsFit, PostingAssumption
  <2>2. funds[F].applied \in Nat /\ funds[F].refunded \in Nat /\ funds[F].version \in Nat
    BY <1>2, <2>1 DEF Fund
  <2>3. /\ funds' \in [Funds -> Fund] /\ funds'[F].refunded = funds[F].refunded
        /\ funds'[F].applied = funds[F].applied + review.amount
        /\ \A g \in Funds : g # F => funds'[g] = funds[g]
    <3> DEFINE x == review.amount
    <3>1. x \in Nat /\ funds' = [funds EXCEPT ![F].applied = @ + x, ![F].version = @ + 1]
      BY <1>1, <1>2
    <3> HIDE DEF x
    <3>2. /\ funds' \in [Funds -> Fund] /\ funds'[F].refunded = funds[F].refunded
          /\ funds'[F].applied = funds[F].applied + x
          /\ \A g \in Funds : g # F => funds'[g] = funds[g]
      BY <1>2, <2>1, <2>2, <3>1 DEF Fund
    <3> QED BY <3>2 DEF x
  <2>4. ASSUME NEW g \in Funds
        PROVE  /\ SumOf(AmountsOf(ps), LiveOf(collected, g))
                  = SumOf(AmountsOf(collected), LiveOf(collected, g))
               /\ IsFiniteSet(LiveOf(collected, g)) /\ LiveOf(collected, g) \subseteq DOMAIN collected
    <3>1. IsFiniteSet(LiveOf(collected, g)) /\ LiveOf(collected, g) \subseteq DOMAIN collected
      BY LiveSum DEF PostingInv
    <3>2. \A i \in LiveOf(collected, g) : AmountsOf(ps)[i] = AmountsOf(collected)[i]
      BY <1>7, <3>1 DEF AmountsOf
    <3>3. SumOf(AmountsOf(ps), LiveOf(collected, g))
          = SumOf(AmountsOf(collected), LiveOf(collected, g))
      BY <3>2, SumOfSame
    <3> QED BY <3>1, <3>3
  <2> SUFFICES ASSUME NEW g \in Funds
               PROVE  /\ funds'[g].applied = SumOf(AmountsOf(ps), LiveOf(ps, g))
                      /\ funds'[g].applied + funds'[g].refunded <= FundAmount
    BY <2>3 DEF FundsFit
  <2>5. /\ funds[g].applied = SumOf(AmountsOf(collected), LiveOf(collected, g))
        /\ funds[g].applied + funds[g].refunded <= FundAmount
    BY DEF PostingInv, FundsFit
  <2>6. CASE g # F
    <3>1. LiveOf(ps, g) = LiveOf(collected, g) /\ funds'[g] = funds[g]
      BY <1>6, <2>3, <2>6
    <3> QED BY <2>4, <2>5, <3>1
  <2>7. CASE g = F
    <3>1. SumOf(AmountsOf(ps), LiveOf(collected, g) \cup new)
          = SumOf(AmountsOf(ps), LiveOf(collected, g)) + SumOf(AmountsOf(ps), new)
      <4>1. \A i \in DOMAIN ps : AmountsOf(ps)[i] \in Nat
        BY <1>5, LiveSum
      <4>2. PICK S : S = LiveOf(collected, g)
        OBVIOUS
      <4>3. IsFiniteSet(S) /\ S \cap new = {} /\ \A i \in S \cup new : AmountsOf(ps)[i] \in Int
        BY <1>7, <2>4, <4>1, <4>2
      <4>4. SumOf(AmountsOf(ps), S \cup new) = SumOf(AmountsOf(ps), S) + SumOf(AmountsOf(ps), new)
        BY <1>7, <4>3, SumOfParts
      <4> QED BY <4>2, <4>4
    <3>2. SumOf(AmountsOf(ps), LiveOf(ps, g)) = funds[g].applied + review.amount
      BY <1>2, <1>6, <1>7, <2>4, <2>5, <2>7, <3>1
    <3>3. funds'[g].applied = funds[g].applied + review.amount
          /\ funds'[g].refunded = funds[g].refunded
      BY <2>3, <2>7
    <3>4. review.amount <= FundAmount - funds[g].applied - funds[g].refunded
      BY <1>1, <2>7 DEF Unspent
    <3>5. (funds[g].applied + review.amount) + funds[g].refunded <= FundAmount
      BY <1>2, <2>1, <2>2, <2>7, <3>4
    <3> QED BY <3>2, <3>3, <3>5
  <2> QED BY <2>6, <2>7
<1>14. WireFits(ps, wire) /\ AnswersFit(ps, told)
  BY <1>6, RequestsStay DEF PostingInv
<1>15. ReviewFits(loans', review')
  BY <1>1 DEF ReviewFits
<1>16. day' \in 1 .. LastDay
  BY <1>1 DEF PostingInv
<1> QED BY <1>1, <1>3, <1>4, <1>12, <1>13, <1>14, <1>15, <1>16 DEF PostingInv

-----------------------------------------------------------------------------
(* The actions that take receipts back.                                    *)

RowsTaken(rs, ps, ids) ==
    /\ DOMAIN ps = DOMAIN rs
    /\ \A i \in DOMAIN rs : i \notin ids => ps[i] = rs[i]
    /\ \A i \in DOMAIN rs : i \in ids => rs[i].live /\ ~ps[i].live
    /\ \A i \in DOMAIN rs :
          /\ ps[i].loan = rs[i].loan /\ ps[i].amount = rs[i].amount
          /\ ps[i].fund = rs[i].fund /\ ps[i].before = rs[i].before

LEMMA TakenKeeps ==
    ASSUME NEW rs, NEW ps, NEW ids, RowsTaken(rs, ps, ids)
    PROVE  /\ RowsKept(rs, ps)
           /\ \A a : AllocationFits(rs, a) /\ ToSet(a.ids) \cap ids = {} => AllocationFits(ps, a)
           /\ \A f : LiveOf(ps, f) = LiveOf(rs, f) \ ids
<1>1. RowsKept(rs, ps)
  BY DEF RowsKept, RowsTaken
<1>2. ASSUME NEW a, AllocationFits(rs, a), ToSet(a.ids) \cap ids = {}
      PROVE  AllocationFits(ps, a)
  <2>1. \A i \in ToSet(a.ids) : i \in DOMAIN rs /\ rs[i].live = a.active
    BY <1>2, IdsAre
  <2>2. \A i \in ToSet(a.ids) : i \in DOMAIN ps /\ ps[i] = rs[i]
    BY <1>2, <2>1 DEF RowsTaken
  <2> QED BY <1>2, <2>1, <2>2, AllocationStays
<1>3. ASSUME NEW f PROVE LiveOf(ps, f) = LiveOf(rs, f) \ ids
  BY DEF RowsTaken, LiveOf
<1> QED BY <1>1, <1>2, <1>3

LEMMA AloneKeeps ==
    ASSUME PostingAssumption, PostingInv, NEW i \in DOMAIN collected, NEW u \in UndoMark,
           Voidable(i), VoidedAlone(i, u)
    PROVE  /\ BooksFit(loans', collected') /\ LoansMoved(loans, loans')
           /\ ReviewFits(loans', review)
           /\ AllocationsFit(collected', allocations) /\ FundsFit(collected', funds)
           /\ RowsKept(collected, collected')
           /\ i \in DOMAIN collected' /\ ~collected'[i].live /\ collected'[i].undo = u
           /\ collected'[i].voided = VoidOne(NoVoids, i).rs[i].voided
<1> DEFINE st == VoidOne(NoVoids, i)
<1>1. /\ Opening \in [Loans -> Nat] /\ Cash \notin Funds /\ BooksFit(loans, collected)
      /\ loans \in [Loans -> State] /\ collected \in Seq(Entry)
  BY DEF PostingAssumption, PostingInv, BooksFit, BooksTyped
<1>2. RunFits(st, {i}) /\ collected[i].fund = Cash
  BY <1>1, VoidAlone DEF Voidable
<1>3. loans' = st.loans /\ collected' = [st.rs EXCEPT ![i].undo = u]
  BY DEF VoidedAlone
<1> HIDE DEF st
<1>4. /\ BooksFit(st.loans, st.rs) /\ TakenBack(collected, st.rs, {i})
      /\ LoansMoved(loans, st.loans) /\ i \in DOMAIN st.rs
  BY <1>2 DEF RunFits, TakenBack
<1>5. PICK ps : ps = collected'
  OBVIOUS
<1>6. /\ BooksFit(st.loans, ps) /\ DOMAIN ps = DOMAIN st.rs /\ ps[i].undo = u
      /\ \A j \in DOMAIN st.rs : j # i => ps[j] = st.rs[j]
      /\ \A j \in DOMAIN st.rs :
            /\ ps[j].loan = st.rs[j].loan /\ ps[j].amount = st.rs[j].amount
            /\ ps[j].fund = st.rs[j].fund /\ ps[j].before = st.rs[j].before
            /\ ps[j].live = st.rs[j].live /\ ps[j].voided = st.rs[j].voided
  <2>1. ps = [st.rs EXCEPT ![i].undo = u]
    BY <1>3, <1>5
  <2> QED BY <1>4, <2>1, MarkedRow
<1>7. RowsTaken(collected, ps, {i})
  BY <1>4, <1>6 DEF TakenBack, RowsTaken
<1>8. /\ RowsKept(collected, ps)
      /\ \A a : AllocationFits(collected, a) /\ ToSet(a.ids) \cap {i} = {} => AllocationFits(ps, a)
      /\ \A f : LiveOf(ps, f) = LiveOf(collected, f) \ {i}
  BY <1>7, TakenKeeps
<1>9. AllocationsFit(ps, allocations)
  <2>1. ASSUME NEW a \in DOMAIN allocations PROVE AllocationFits(ps, allocations[a])
    <3>1. AllocationFits(collected, allocations[a]) /\ allocations[a] \in Allocation
      BY ElementOfSeq, LenProperties DEF PostingInv, AllocationsFit
    <3>2. \A j \in ToSet(allocations[a].ids) : collected[j].fund \in Funds
      BY <3>1, IdsAre DEF Allocation
    <3>3. ToSet(allocations[a].ids) \cap {i} = {}
      BY <1>1, <1>2, <3>2
    <3> QED BY <1>8, <3>1, <3>3
  <2> QED BY <2>1 DEF PostingInv, AllocationsFit
<1>10. FundsFit(ps, funds)
  <2>1. \A f \in Funds : LiveOf(ps, f) = LiveOf(collected, f)
    <3>1. \A f \in Funds : i \notin LiveOf(collected, f)
      BY <1>1, <1>2 DEF LiveOf
    <3> QED BY <1>8, <3>1
  <2>2. FundsFit(collected, funds)
    BY DEF PostingInv
  <2>3. DOMAIN collected \subseteq DOMAIN ps /\ \A j \in DOMAIN collected : ps[j].amount = collected[j].amount
    BY <1>7 DEF RowsTaken
  <2> QED BY <2>1, <2>2, <2>3, FundsStay
<1>11. ReviewFits(st.loans, review)
  <2>1. st.loans \in [Loans -> State]
    BY <1>4 DEF BooksFit, BooksTyped
  <2>2. ReviewFits(loans, review)
    BY DEF PostingInv
  <2> QED BY <1>1, <1>4, <2>1, <2>2, ReviewStays
<1>12. i \in DOMAIN ps /\ ~ps[i].live /\ ps[i].undo = u /\ ps[i].voided = st.rs[i].voided
  BY <1>4, <1>6, <1>7 DEF RowsTaken
<1> QED BY <1>3, <1>4, <1>5, <1>6, <1>8, <1>9, <1>10, <1>11, <1>12 DEF st

LEMMA ManagementVoidKeeps ==
    ASSUME PostingAssumption, PostingInv, NEW i \in DOMAIN collected, ManagementVoid(i)
    PROVE  PostingInv'
<1>1. /\ day' = day /\ funds' = funds /\ allocations' = allocations /\ review' = review
      /\ wire' = wire /\ told' = told /\ Voidable(i) /\ VoidedAlone(i, NoUndo)
  BY DEF ManagementVoid
<1>2. NoUndo \in UndoMark
  BY DEF NoUndo, UndoMark
<1>3. /\ BooksFit(loans', collected') /\ ReviewFits(loans', review)
      /\ AllocationsFit(collected', allocations) /\ FundsFit(collected', funds)
      /\ RowsKept(collected, collected')
  BY <1>1, <1>2, AloneKeeps
<1>4. WireFits(collected', wire) /\ AnswersFit(collected', told)
  <2>1. PICK ps : ps = collected'
    OBVIOUS
  <2>2. RowsKept(collected, ps)
    BY <1>3, <2>1
  <2>3. WireFits(ps, wire) /\ AnswersFit(ps, told)
    BY <2>2, RequestsStay DEF PostingInv
  <2> QED BY <2>1, <2>3
<1> QED BY <1>1, <1>3, <1>4 DEF PostingInv

LEMMA UndoKeeps ==
    ASSUME PostingAssumption, PostingInv, NEW q \in wire, NEW again \in BOOLEAN, Undo(q, again)
    PROVE  PostingInv'
<1>1. /\ day' = day /\ funds' = funds /\ allocations' = allocations /\ review' = review
  BY DEF Undo
<1>2. q.id \in DOMAIN collected /\ q.rev \in Nat /\ q.reason \in Reasons
  BY DEF PostingInv, WireFits
<1>3. wire' \in SUBSET wire
  BY DEF Undo, Tell
<1>4. CASE Undoable(q)
  <2> DEFINE u == [rev |-> q.rev, reason |-> q.reason]
             answer == VoidOne(NoVoids, q.id).rs[q.id].voided
  <2>1. VoidedAlone(q.id, u) /\ Voidable(q.id)
        /\ told' = told \cup {[request |-> q, answer |-> answer]}
    BY <1>4 DEF Undo, Undoable, Tell
  <2>2. u \in UndoMark
    BY <1>2 DEF UndoMark
  <2>3. /\ BooksFit(loans', collected') /\ ReviewFits(loans', review)
        /\ AllocationsFit(collected', allocations) /\ FundsFit(collected', funds)
        /\ RowsKept(collected, collected')
        /\ q.id \in DOMAIN collected' /\ ~collected'[q.id].live /\ collected'[q.id].undo = u
        /\ collected'[q.id].voided = answer
    <3> HIDE DEF u
    <3> QED BY <1>2, <2>1, <2>2, AloneKeeps
  <2> HIDE DEF answer
  <2>4. PICK ps : ps = collected'
    OBVIOUS
  <2>5. WireFits(ps, wire) /\ AnswersFit(ps, told)
    <3>1. RowsKept(collected, ps)
      BY <2>3, <2>4
    <3> QED BY <3>1, RequestsStay DEF PostingInv
  <2>6. WireFits(ps, wire')
    BY <1>3, <2>5 DEF WireFits
  <2>7. AnswersFit(ps, told')
    <3> SUFFICES ASSUME NEW t \in told', t.answer # NotVoided
                 PROVE  /\ t.request.id \in DOMAIN ps /\ ~ps[t.request.id].live
                        /\ ps[t.request.id].undo = [rev |-> t.request.rev, reason |-> t.request.reason]
                        /\ t.answer = ps[t.request.id].voided
      BY DEF AnswersFit
    <3>1. CASE t \in told
      BY <2>5, <3>1 DEF AnswersFit
    <3>2. CASE t = [request |-> q, answer |-> answer]
      <4>1. t.request = q /\ t.answer = answer
        BY <3>2
      <4> QED BY <2>3, <2>4, <4>1
    <3> QED BY <2>1, <3>1, <3>2
  <2> QED BY <1>1, <2>3, <2>4, <2>5, <2>6, <2>7 DEF PostingInv
<1>5. CASE ~Undoable(q)
  <2> DEFINE answer == IF UndoneBefore(q) THEN collected[q.id].voided ELSE NotVoided
  <2>1. loans' = loans /\ collected' = collected
        /\ told' = told \cup {[request |-> q, answer |-> answer]}
    BY <1>5 DEF Undo, Tell
  <2>2. WireFits(collected, wire')
    BY <1>3 DEF PostingInv, WireFits
  <2>3. AnswersFit(collected, told')
    <3> SUFFICES ASSUME NEW t \in told', t.answer # NotVoided
                 PROVE  /\ t.request.id \in DOMAIN collected /\ ~collected[t.request.id].live
                        /\ collected[t.request.id].undo
                           = [rev |-> t.request.rev, reason |-> t.request.reason]
                        /\ t.answer = collected[t.request.id].voided
      BY DEF AnswersFit
    <3>1. CASE t \in told
      BY <3>1 DEF PostingInv, AnswersFit
    <3>2. CASE t = [request |-> q, answer |-> answer]
      <4>1. t.request = q /\ t.answer = answer
        BY <3>2
      <4>2. UndoneBefore(q) /\ t.answer = collected[q.id].voided
        BY <4>1
      <4> QED BY <1>2, <4>1, <4>2 DEF UndoneBefore
    <3> QED BY <2>1, <3>1, <3>2
  <2> QED BY <1>1, <2>1, <2>2, <2>3 DEF PostingInv
<1> QED BY <1>4, <1>5

LEMMA ReversedKeeps ==
    ASSUME PostingAssumption, PostingInv, NEW a \in DOMAIN allocations, ReversePosted(a)
    PROVE  PostingInv'
<1> DEFINE st == Reversed(a)
           S == ToSet(allocations[a].ids)
           F == allocations[a].fund
           n == [allocations[a] EXCEPT !.active = FALSE]
<1>1. /\ day' = day /\ review' = review /\ wire' = wire /\ told' = told
      /\ allocations[a].active /\ st.ok /\ loans' = st.loans /\ collected' = st.rs
      /\ allocations' = [allocations EXCEPT ![a].active = FALSE]
      /\ funds' = [funds EXCEPT ![F].applied = @ - Total(collected, S), ![F].version = @ + 1]
  BY DEF ReversePosted
<1>2. /\ Opening \in [Loans -> Nat] /\ BooksFit(loans, collected) /\ loans \in [Loans -> State]
      /\ collected \in Seq(Entry) /\ allocations \in Seq(Allocation)
  BY DEF PostingAssumption, PostingInv, BooksFit, BooksTyped, AllocationsFit
<1>3. /\ allocations[a] \in Allocation /\ AllocationFits(collected, allocations[a])
      /\ F \in Funds /\ allocations[a].ids \in Seq(Nat)
  <2>1. allocations[a] \in Allocation /\ AllocationFits(collected, allocations[a])
    BY <1>2, ElementOfSeq, LenProperties DEF PostingInv, AllocationsFit
  <2> QED BY <2>1 DEF Allocation
<1>4. \A i \in S : i \in DOMAIN collected /\ collected[i].fund = F /\ collected[i].live
  BY <1>1, <1>3, IdsAre
<1>5. RunFits(st, S)
  BY <1>1, <1>2, <1>3, <1>4, VoidAll
<1> HIDE DEF st
<1>6. PICK ps : ps = st.rs
  OBVIOUS
<1>7. /\ BooksFit(loans', ps) /\ LoansMoved(loans, loans') /\ collected' = ps
      /\ RowsTaken(collected, ps, S)
  BY <1>1, <1>5, <1>6 DEF RunFits, TakenBack, RowsTaken
<1>8. /\ RowsKept(collected, ps)
      /\ \A b : AllocationFits(collected, b) /\ ToSet(b.ids) \cap S = {} => AllocationFits(ps, b)
      /\ \A f : LiveOf(ps, f) = LiveOf(collected, f) \ S
  BY <1>7, TakenKeeps
<1>9. /\ n \in Allocation /\ n.ids = allocations[a].ids /\ n.fund = F /\ n.active = FALSE
  BY <1>3 DEF Allocation
<1>10. allocations' = [allocations EXCEPT ![a] = n]
  BY <1>1, <1>3 DEF Allocation
<1> HIDE DEF n, S, F
<1>11. AllocationsFit(ps, allocations')
  <2>1. allocations' \in Seq(Allocation)
    <3>1. a \in 1 .. Len(allocations)
      BY <1>2, LenProperties
    <3> QED BY <1>2, <1>9, <1>10, <3>1, ExceptSeq
  <2>2. /\ DOMAIN allocations' = DOMAIN allocations /\ allocations'[a] = n
        /\ \A b \in DOMAIN allocations : b # a => allocations'[b] = allocations[b]
        /\ \A b \in DOMAIN allocations : allocations'[b].ids = allocations[b].ids
    BY <1>9, <1>10
  <2>3. ASSUME NEW b \in DOMAIN allocations PROVE AllocationFits(ps, allocations'[b])
    <3>1. CASE b # a
      <4>1. AllocationFits(collected, allocations[b])
            /\ ToSet(allocations[b].ids) \cap S = {}
        BY <3>1 DEF PostingInv, AllocationsFit, S
      <4> QED BY <1>8, <2>2, <3>1, <4>1
    <3>2. CASE b = a
      <4>1. \A i \in ToSet(allocations[a].ids) :
              /\ i \in DOMAIN ps /\ ps[i].loan = collected[i].loan
              /\ ps[i].fund = collected[i].fund /\ ps[i].amount = collected[i].amount
              /\ ps[i].before = collected[i].before
        BY <1>4, <1>7 DEF RowsTaken, S
      <4>2. \A i \in ToSet(allocations[a].ids) : ps[i].live = n.active
        <5>1. \A i \in S : ~ps[i].live /\ i \in DOMAIN ps
          BY <1>4, <1>7 DEF RowsTaken
        <5>2. \A i \in DOMAIN ps : ps[i].live \in BOOLEAN
          <6>1. ps \in Seq(Entry)
            BY <1>7 DEF BooksFit, BooksTyped
          <6> QED BY <6>1, EntriesAre
        <5>3. \A i \in S : ps[i].live = FALSE
          BY <5>1, <5>2
        <5> QED BY <1>9, <5>3 DEF S
      <4>3. n.ids = allocations[a].ids /\ n.fund = allocations[a].fund
        BY <1>9 DEF F
      <4>4. AllocationFits(ps, n)
        BY <1>3, <4>1, <4>2, <4>3, AllocationStays
      <4> QED BY <2>2, <3>2, <4>4
    <3> QED BY <3>1, <3>2
  <2> QED BY <2>1, <2>2, <2>3 DEF PostingInv, AllocationsFit
<1>12. FundsFit(ps, funds')
  <2> DEFINE f == AmountsOf(collected)
             L == LiveOf(collected, F)
  <2>1. funds \in [Funds -> Fund] /\ funds[F].applied = SumOf(f, L)
        /\ funds[F].applied + funds[F].refunded <= FundAmount /\ FundAmount \in Nat
    BY <1>3 DEF PostingInv, FundsFit, PostingAssumption, F
  <2>2. funds[F].applied \in Nat /\ funds[F].refunded \in Nat /\ funds[F].version \in Nat
    BY <1>3, <2>1 DEF Fund, F
  <2>3. IsFiniteSet(L) /\ L \subseteq DOMAIN collected /\ (\A i \in DOMAIN collected : f[i] \in Nat)
    BY <1>2, LiveSum
  <2>4. S \subseteq L
    BY <1>4 DEF LiveOf
  <2> HIDE DEF f, L
  <2>5. SumOf(f, L) = SumOf(f, L \ S) + SumOf(f, S) /\ SumOf(f, S) \in Nat
        /\ SumOf(f, L \ S) \in Nat
    <3>1. IsFiniteSet(S) /\ IsFiniteSet(L \ S) /\ (L \ S) \cap S = {} /\ (L \ S) \cup S = L
      BY <2>3, <2>4, FS_Subset
    <3>2. \A i \in L : f[i] \in Nat
      BY <2>3
    <3>3. \A i \in (L \ S) \cup S : f[i] \in Int
      BY <3>1, <3>2
    <3>4. SumOf(f, (L \ S) \cup S) = SumOf(f, L \ S) + SumOf(f, S)
      BY <3>1, <3>3, SumOfParts
    <3>5. SumOf(f, S) \in Nat /\ SumOf(f, L \ S) \in Nat
      <4>1. S \in SUBSET L /\ L \ S \in SUBSET L
        BY <2>4
      <4> QED BY <2>3, <3>2, <4>1, SumIsMonotone
    <3> QED BY <3>1, <3>4, <3>5
  <2>6. Total(collected, S) = SumOf(f, S)
    <3>1. S \in SUBSET DOMAIN collected
      BY <1>4
    <3> QED BY <3>1, TotalIsSum DEF f
  <2>7. /\ funds' \in [Funds -> Fund] /\ funds'[F].refunded = funds[F].refunded
        /\ funds'[F].applied = SumOf(f, L \ S)
        /\ \A g \in Funds : g # F => funds'[g] = funds[g]
    <3> DEFINE x == SumOf(f, S)
    <3>1. /\ funds' = [funds EXCEPT ![F].applied = @ - x, ![F].version = @ + 1]
          /\ x \in Nat /\ funds[F].applied - x = SumOf(f, L \ S)
          /\ SumOf(f, L \ S) \in Nat /\ F \in Funds
      BY <1>1, <1>3, <2>1, <2>5, <2>6 DEF F, S
    <3> HIDE DEF x
    <3> QED BY <2>1, <2>2, <3>1 DEF Fund
  <2>8. ASSUME NEW g \in Funds
        PROVE  /\ SumOf(AmountsOf(ps), LiveOf(ps, g)) = SumOf(f, LiveOf(ps, g))
    <3>1. \A i \in LiveOf(ps, g) : AmountsOf(ps)[i] = f[i]
      BY <1>7 DEF RowsTaken, LiveOf, AmountsOf, f
    <3> QED BY <3>1, SumOfSame
  <2>9. ASSUME NEW g \in Funds
        PROVE  /\ funds'[g].applied = SumOf(AmountsOf(ps), LiveOf(ps, g))
               /\ funds'[g].applied + funds'[g].refunded <= FundAmount
    <3>1. CASE g = F
      <4>1. LiveOf(ps, g) = L \ S
        BY <1>8, <3>1 DEF L
      <4>2. funds'[g].applied = SumOf(AmountsOf(ps), LiveOf(ps, g))
        BY <2>7, <2>8, <3>1, <4>1
      <4>3. SumOf(f, L \ S) + funds[F].refunded <= FundAmount
        BY <2>1, <2>2, <2>5
      <4> QED BY <2>7, <3>1, <4>2, <4>3
    <3>2. CASE g # F
      <4>1. LiveOf(ps, g) = LiveOf(collected, g)
        <5>1. \A i \in S : i \notin LiveOf(collected, g)
          BY <1>4, <3>2 DEF LiveOf
        <5> QED BY <1>8, <5>1
      <4>2. /\ funds[g].applied = SumOf(f, LiveOf(collected, g))
            /\ funds[g].applied + funds[g].refunded <= FundAmount
        BY DEF PostingInv, FundsFit, f
      <4> QED BY <2>7, <2>8, <3>2, <4>1, <4>2
    <3> QED BY <3>1, <3>2
  <2> QED BY <2>7, <2>9 DEF FundsFit
<1>13. ReviewFits(loans', review)
  <2>1. loans' \in [Loans -> State]
    BY <1>7 DEF BooksFit, BooksTyped
  <2>2. ReviewFits(loans, review)
    BY DEF PostingInv
  <2> QED BY <1>2, <1>7, <2>1, <2>2, ReviewStays
<1>14. WireFits(ps, wire) /\ AnswersFit(ps, told)
  BY <1>8, RequestsStay DEF PostingInv
<1> QED BY <1>1, <1>7, <1>11, <1>12, <1>13, <1>14 DEF PostingInv

LEMMA ReleaseKeeps ==
    ASSUME PostingInv, NEW i \in DOMAIN collected, ReleaseRefund(i)
    PROVE  PostingInv'
<1>1. /\ day' = day /\ loans' = loans /\ collected' = collected /\ funds' = funds
      /\ allocations' = allocations /\ review' = review /\ wire' = wire /\ told' = told
  BY DEF ReleaseRefund
<1> QED BY <1>1 DEF PostingInv

\* What a posting marks are the receipts it posts.
LEMMA MarkedFit ==
    ASSUME MarksFit, MaxReceipts \in Nat, collected \in Seq(Entry),
           NEW parts, PartsFit(parts), NEW fund, Posted(parts, fund), Marked(parts)
    PROVE  MarksFit'
<1>1. /\ Len(collected) \in Nat /\ Len(parts) \in Nat /\ DOMAIN parts = 1 .. Len(parts)
      /\ Len(collected) + Len(parts) <= MaxReceipts
  BY PartsAre, LenProperties DEF Posted, PartsFit
<1>2. \A i \in DOMAIN parts : Len(collected) + i \in 1 .. MaxReceipts
  BY <1>1
<1>3. /\ linked' \subseteq linked \cup {Len(collected) + i : i \in DOMAIN parts}
      /\ principal' \subseteq principal \cup {Len(collected) + i : i \in DOMAIN parts}
      /\ principal \subseteq principal' /\ released' = released
  BY DEF Marked
<1> QED BY <1>2, <1>3 DEF MarksFit

LEMMA MarksStep ==
    ASSUME PostingAssumption, PostingInv, MarksFit, [PostingNext]_postingVars
    PROVE  MarksFit'
<1>1. MaxReceipts \in Nat /\ collected \in Seq(Entry) /\ loans \in [Loans -> State]
  BY DEF PostingAssumption, PostingInv, BooksFit, BooksTyped
<1>2. CASE Apply
  <2>1. Posted(review.parts, review.fund) /\ Marked(review.parts)
    BY <1>2 DEF Apply
  <2>2. PartsFit(review.parts)
    BY <1>2, CurrentFits DEF Apply
  <2> QED BY <1>1, <2>1, <2>2, MarkedFit
<1>3. ASSUME NEW l \in Loans, NEW amount \in Payments, Collect(l, amount) PROVE MarksFit'
  <2> DEFINE parts == <<[loan |-> l, amount |-> amount]>>
  <2>1. Posted(parts, Cash) /\ Marked(parts) /\ amount <= loans[l].balance
    BY <1>3 DEF Collect
  <2>2. PartsFit(parts)
    BY <1>1, <2>1, OnePart DEF PostingAssumption
  <2> HIDE DEF parts
  <2> QED BY <1>1, <2>1, <2>2, MarkedFit
<1>4. ASSUME NEW i \in DOMAIN collected, ReleaseRefund(i) PROVE MarksFit'
  BY <1>4 DEF ReleaseRefund, MarksFit
<1>5. ASSUME UNCHANGED marks PROVE MarksFit'
  BY <1>5 DEF marks, MarksFit
<1> QED BY <1>2, <1>3, <1>4, <1>5
        DEF PostingNext, Midnight, Refund, Preview, Account, ReversePosted, ManagementVoid,
            AskUndo, Undo, postingVars

LEMMA PostingStep ==
    ASSUME PostingAssumption, PostingInv, [PostingNext]_postingVars
    PROVE  PostingInv'
<1>1. CASE Apply
  BY <1>1, AppliedKeeps
<1>2. CASE Midnight
  BY <1>2, MidnightKeeps
<1>3. ASSUME NEW l \in Loans, NEW amount \in Payments, Collect(l, amount) PROVE PostingInv'
  BY <1>3, CollectKeeps
<1>4. ASSUME NEW f \in Funds, NEW amount \in Payments, Refund(f, amount) PROVE PostingInv'
  BY <1>4, RefundKeeps
<1>5. ASSUME NEW f \in Funds, NEW amount \in Payments, NEW selected \in SUBSET Loans,
             Preview(f, selected, amount)
      PROVE  PostingInv'
  BY <1>5, PreviewKeeps
<1>6. ASSUME NEW a \in DOMAIN allocations, Account(a) PROVE PostingInv'
  BY <1>6, AccountKeeps
<1>7. ASSUME NEW a \in DOMAIN allocations, ReversePosted(a) PROVE PostingInv'
  BY <1>7, ReversedKeeps
<1>8. ASSUME NEW i \in DOMAIN collected, ManagementVoid(i) PROVE PostingInv'
  BY <1>8, ManagementVoidKeeps
<1>12. ASSUME NEW i \in DOMAIN collected, ReleaseRefund(i) PROVE PostingInv'
  BY <1>12, ReleaseKeeps
<1>9. ASSUME NEW i \in DOMAIN collected, NEW reason \in Reasons, AskUndo(i, reason)
      PROVE  PostingInv'
  BY <1>9, AskKeeps
<1>10. ASSUME NEW q \in wire, NEW again \in BOOLEAN, Undo(q, again) PROVE PostingInv'
  BY <1>10, UndoKeeps
<1>11. CASE UNCHANGED postingVars
  BY <1>11, StillKeeps
<1> QED BY <1>1, <1>2, <1>3, <1>4, <1>5, <1>6, <1>7, <1>8, <1>9, <1>10, <1>11, <1>12
        DEF PostingNext

\* What the invariant says of the properties.
LEMMA PostingImplies ==
    ASSUME PostingAssumption, PostingInv, MarksFit
    PROVE  PostingTypeOK /\ LoansFollowReceipts /\ UndoAnswersHold
<1>1. /\ loans \in [Loans -> State] /\ collected \in Seq(Entry) /\ funds \in [Funds -> Fund]
      /\ allocations \in Seq(Allocation) /\ BooksFit(loans, collected)
  BY DEF PostingInv, BooksFit, BooksTyped, FundsFit, AllocationsFit
<1>2. PostingTypeOK
  <2>1. \A i \in DOMAIN collected : collected[i].loan \in Loans /\ collected[i].live \in BOOLEAN
    BY <1>1, EntriesAre
  <2>2. \A l \in Loans : loans[l].balance \in Nat /\ loans[l].version \in Nat \ {0}
    BY <1>1 DEF State
  <2>3. \A f \in Funds : funds[f].applied \in Nat /\ funds[f].refunded \in Nat
    BY <1>1 DEF Fund
  <2> QED BY <2>1, <2>2, <2>3 DEF PostingInv, MarksFit, PostingTypeOK
<1>3. BalanceIsReplay
  <2> SUFFICES ASSUME NEW l \in Loans
               PROVE  loans[l].balance = Opening[l] -
                        Total(collected, {i \in DOMAIN collected : collected[i].live
                                                                   /\ collected[i].loan = l})
    BY DEF BalanceIsReplay
  <2>1. loans[l].balance = Opening[l] - SumOf(AmountsOf(collected), Standing(collected, l))
    BY <1>1 DEF BooksFit, BalancesFit
  <2>2. Standing(collected, l) \in SUBSET DOMAIN collected
    BY DEF Standing
  <2>3. Total(collected, Standing(collected, l))
        = SumOf(AmountsOf(collected), Standing(collected, l))
    BY <2>2, TotalIsSum
  <2>4. loans[l].balance = Opening[l] - Total(collected, Standing(collected, l))
    BY <2>1, <2>3
  <2> QED BY <2>4 DEF Standing
<1>4. FundsMatch
  <2> SUFFICES ASSUME NEW f \in Funds
               PROVE  /\ funds[f].applied = Total(collected, LiveOf(collected, f))
                      /\ funds[f].applied + funds[f].refunded <= FundAmount
    BY DEF FundsMatch
  <2>1. /\ funds[f].applied = SumOf(AmountsOf(collected), LiveOf(collected, f))
        /\ funds[f].applied + funds[f].refunded <= FundAmount
    BY DEF PostingInv, FundsFit
  <2>2. LiveOf(collected, f) \in SUBSET DOMAIN collected
    BY DEF LiveOf
  <2> QED BY <2>1, <2>2, TotalIsSum
<1>5. \A a \in DOMAIN allocations : allocations[a] \in Allocation
                                    /\ AllocationFits(collected, allocations[a])
  BY <1>1, ElementOfSeq, LenProperties DEF PostingInv, AllocationsFit
<1>6. ApplicationIsWhole
  BY <1>5 DEF ApplicationIsWhole, AllocationFits
<1>7. FreshIsReversible
  BY <1>1, <1>5, FreshComesBack DEF PostingAssumption
<1>8. UndoAnswersHold
  BY DEF PostingInv, AnswersFit, UndoAnswersHold
<1> QED BY <1>2, <1>3, <1>4, <1>6, <1>7, <1>8 DEF LoansFollowReceipts

LEMMA PostingInvariant ==
    ASSUME PostingAssumption
    PROVE  PostingSpec => [](PostingInv /\ MarksFit)
<1>1. PostingInit => PostingInv /\ MarksFit
  BY PostingStart DEF PostingInit, MarksFit
<1>2. PostingInv /\ MarksFit /\ [PostingNext]_postingVars => PostingInv' /\ MarksFit'
  BY PostingStep, MarksStep
<1> QED BY <1>1, <1>2, PTL DEF PostingSpec

\* Receipts, loans and funds keep their shape, and the day stays in its bounds.
THEOREM PostingIsTyped ==
    ASSUME PostingAssumption
    PROVE  PostingSpec => []PostingTypeOK
<1>1. PostingInv /\ MarksFit => PostingTypeOK
  BY PostingImplies
<1> QED BY <1>1, PostingInvariant, PTL

\* However receipts are posted, voided one by one or reversed in a chain, with
\* refunds and previews in between: a loan owes what its live receipts leave,
\* the funds of a treasury receipt are spent once, an application stands or
\* falls as a whole, and one after which no loan changed is taken back to the
\* balances it found unless a receipt of it changed Past Due or promise records
\* or its refund was released, and then it is refused (apply_funds,
\* reverse_application, void_unremitted).
THEOREM LoansStayWithReceipts ==
    ASSUME PostingAssumption
    PROVE  PostingSpec => []LoansFollowReceipts
<1>1. PostingInv /\ MarksFit => LoansFollowReceipts
  BY PostingImplies
<1> QED BY <1>1, PostingInvariant, PTL

\* An undo that is answered as done was done for that request, and every answer
\* of it, the repeated ones too, shows the state the void left
\* (_collector_undo_replay).
THEOREM UndoAnswersStay ==
    ASSUME PostingAssumption
    PROVE  PostingSpec => []UndoAnswersHold
<1>1. PostingInv /\ MarksFit => UndoAnswersHold
  BY PostingImplies
<1> QED BY <1>1, PostingInvariant, PTL
=============================================================================
