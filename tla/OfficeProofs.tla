----------------------------- MODULE OfficeProofs ------------------------------
(***************************************************************************)
(* The books and the areas of the office.                                  *)
(*                                                                         *)
(* Periods: a closed period has no income or expense left, and what is     *)
(* posted, prepared or closed stays.  The guard of the close compares the  *)
(* entries with the preparation; that nothing else can come up after a     *)
(* review is because a period under review takes no entry but the one of   *)
(* its close.  JournalInv ties the entry to the preparation, and both to   *)
(* what is posted in the period.  It speaks of the entries as a parameter  *)
(* of the sums, so that one lemma serves the journal before and after a    *)
(* step.                                                                   *)
(*                                                                         *)
(* Areas: the records follow the tree with any number of sessions          *)
(* (RecordsInv), and the tree is whole when no session writes between the  *)
(* select of another and its locks (SerialInv).                            *)
(***************************************************************************)
EXTENDS PeriodClose, AreaTree, Sums, SequenceTheorems

-----------------------------------------------------------------------------
(* The ledger of a sequence of entries.                                    *)

EntryType ==
    [period : Periods, source : {"manual", "reversal", "period_close"}, of : Nat,
     lines : [Accounts -> Int], status : {"draft", "posted", "gone"}, number : Nat]

PostedIn(es) == {i \in DOMAIN es : es[i].status = "posted"}
OrdinaryIn(es, p) ==
    {i \in PostedIn(es) : es[i].period = p /\ es[i].source # "period_close"}

LinesOf(es, a) == [i \in DOMAIN es |-> es[i].lines[a]]
BalanceIn(es, S, a) == SumOf(LinesOf(es, a), S)
BalancesIn(es, S) ==
    [a \in {b \in Temporary : BalanceIn(es, S, b) # 0} |-> BalanceIn(es, S, a)]
IncomeOf(es, S) == [a \in Temporary |-> BalanceIn(es, S, a)]
NetIncomeIn(es, S) == -SumOf(IncomeOf(es, S), Temporary)
CloseLinesIn(es, p) ==
    [a \in Accounts |-> IF a \in Temporary THEN -BalanceIn(es, OrdinaryIn(es, p), a)
                        ELSE IF a = Retained THEN -NetIncomeIn(es, OrdinaryIn(es, p)) ELSE 0]

\* A fold over a set is the sum of the function it maps by.
LEMMA LinesSum ==
    ASSUME NEW es, NEW S \in SUBSET DOMAIN es, NEW a
    PROVE  MapThenSumSet(LAMBDA i : es[i].lines[a], S) = BalanceIn(es, S, a)
<1> DEFINE f == LinesOf(es, a)
<1>1. \A s \in SUBSET S : s # {} => f[Pick(s)] = es[Pick(s)].lines[a]
  BY PickIsMember DEF LinesOf
<1>2. ASSUME NEW g
      PROVE  [s \in SUBSET S |-> IF s = {} THEN 0 ELSE f[Pick(s)] + g[s \ {Pick(s)}]]
             = [s \in SUBSET S |-> IF s = {} THEN 0 ELSE es[Pick(s)].lines[a] + g[s \ {Pick(s)}]]
  BY <1>1
<1> DEFINE Eq(g) == g = [s \in SUBSET S |-> IF s = {} THEN 0
                                           ELSE es[Pick(s)].lines[a] + g[s \ {Pick(s)}]]
<1>3. \A g : IsSum(f, g, S) <=> Eq(g)
  BY <1>2 DEF IsSum
<1>4. (CHOOSE g : IsSum(f, g, S)) = (CHOOSE g : Eq(g))
  BY <1>3
<1>5. SumOf(f, S) = (CHOOSE g : IsSum(f, g, S))[S]
  BY DEF SumOf, MapThenSumSet, MapThenFoldSet, IsSum, Pick
<1>6. MapThenSumSet(LAMBDA i : es[i].lines[a], S) = (CHOOSE g : Eq(g))[S]
  BY DEF MapThenSumSet, MapThenFoldSet, Pick
<1> QED BY <1>4, <1>5, <1>6 DEF BalanceIn

LEMMA BalanceNow ==
    ASSUME NEW S \in SUBSET DOMAIN entries, NEW a
    PROVE  Balance(S, a) = BalanceIn(entries, S, a)
<1>1. MapThenSumSet(LAMBDA i : entries[i].lines[a], S) = BalanceIn(entries, S, a)
  BY LinesSum
<1> QED BY <1>1 DEF Balance, MapThenSumSet, MapThenFoldSet

LEMMA NetIncomeNow ==
    ASSUME NEW S \in SUBSET DOMAIN entries
    PROVE  NetIncome(S) = NetIncomeIn(entries, S)
<1> DEFINE f == IncomeOf(entries, S)
<1>1. \A s \in SUBSET Temporary : s # {} => f[Pick(s)] = Balance(S, Pick(s))
  BY PickIsMember, BalanceNow DEF IncomeOf
<1>2. ASSUME NEW g
      PROVE  [s \in SUBSET Temporary |->
                 IF s = {} THEN 0 ELSE f[Pick(s)] + g[s \ {Pick(s)}]]
             = [s \in SUBSET Temporary |->
                 IF s = {} THEN 0 ELSE Balance(S, Pick(s)) + g[s \ {Pick(s)}]]
  BY <1>1
<1> DEFINE Eq(g) == g = [s \in SUBSET Temporary |-> IF s = {} THEN 0
                                           ELSE Balance(S, Pick(s)) + g[s \ {Pick(s)}]]
<1>3. \A g : IsSum(f, g, Temporary) <=> Eq(g)
  BY <1>2 DEF IsSum
<1>4. (CHOOSE g : IsSum(f, g, Temporary)) = (CHOOSE g : Eq(g))
  BY <1>3
<1>5. SumOf(f, Temporary) = (CHOOSE g : IsSum(f, g, Temporary))[Temporary]
  BY DEF SumOf, MapThenSumSet, MapThenFoldSet, IsSum, Pick
<1>6. MapThenSumSet(LAMBDA a : Balance(S, a), Temporary) = (CHOOSE g : Eq(g))[Temporary]
  BY DEF MapThenSumSet, MapThenFoldSet, Pick
<1>7. NetIncome(S) = -((CHOOSE g : Eq(g))[Temporary])
  BY <1>6 DEF NetIncome, MapThenSumSet, MapThenFoldSet
<1> QED BY <1>4, <1>5, <1>7 DEF NetIncomeIn

LEMMA LedgerNow ==
    ASSUME NEW p
    PROVE  /\ Posted = PostedIn(entries) /\ Ordinary(p) = OrdinaryIn(entries, p)
           /\ Balances(Ordinary(p)) = BalancesIn(entries, Ordinary(p))
           /\ NetIncome(Ordinary(p)) = NetIncomeIn(entries, Ordinary(p))
           /\ CloseLines(p) = CloseLinesIn(entries, p)
<1>1. Posted = PostedIn(entries) /\ Ordinary(p) = OrdinaryIn(entries, p)
  BY DEF Posted, PostedIn, Ordinary, OrdinaryIn
<1>2. Ordinary(p) \in SUBSET DOMAIN entries
  BY DEF Posted, Ordinary
<1>3. Balances(Ordinary(p)) = BalancesIn(entries, Ordinary(p))
  BY <1>2, BalanceNow DEF Balances, BalancesIn
<1>4. NetIncome(Ordinary(p)) = NetIncomeIn(entries, Ordinary(p))
  BY <1>2, NetIncomeNow
<1>5. CloseLines(p) = CloseLinesIn(entries, p)
  BY <1>1, <1>2, <1>4, BalanceNow DEF CloseLines, CloseLinesIn
<1> QED BY <1>1, <1>3, <1>4, <1>5

\* Sums over the entries are integers.
LEMMA BalanceIsInt ==
    ASSUME NEW es \in Seq(EntryType), NEW S \in SUBSET DOMAIN es
    PROVE  /\ IsFiniteSet(S)
           /\ \A a \in Accounts : BalanceIn(es, S, a) \in Int
<1>1. IsFiniteSet(S)
  <2>1. IsFiniteSet(1 .. Len(es))
    BY FS_Interval
  <2> QED BY <2>1, FS_Subset
<1>2. ASSUME NEW a \in Accounts PROVE BalanceIn(es, S, a) \in Int
  <2>1. \A i \in S : LinesOf(es, a)[i] \in Int
    <3>1. \A i \in S : es[i] \in EntryType
      OBVIOUS
    <3> QED BY <3>1 DEF LinesOf, EntryType
  <2> QED BY <1>1, <2>1, SumIsInt DEF BalanceIn
<1> QED BY <1>1, <1>2

LEMMA NetIncomeIsInt ==
    ASSUME PeriodCloseAssumption, NEW es \in Seq(EntryType), NEW S \in SUBSET DOMAIN es
    PROVE  NetIncomeIn(es, S) \in Int
<1>1. IsFiniteSet(Temporary) /\ Temporary \subseteq Accounts
  BY FS_Subset DEF PeriodCloseAssumption
<1>2. \A a \in Temporary : IncomeOf(es, S)[a] \in Int
  BY <1>1, BalanceIsInt DEF IncomeOf
<1>3. SumOf(IncomeOf(es, S), Temporary) \in Int
  BY <1>1, <1>2, SumIsInt
<1> QED BY <1>3 DEF NetIncomeIn

\* Entries of the same lines have the same sums.
LEMMA SameLines ==
    ASSUME NEW es, NEW fs, NEW S, S \subseteq DOMAIN es, S \subseteq DOMAIN fs,
           \A i \in S : fs[i].lines = es[i].lines
    PROVE  /\ \A a : BalanceIn(fs, S, a) = BalanceIn(es, S, a)
           /\ BalancesIn(fs, S) = BalancesIn(es, S)
           /\ NetIncomeIn(fs, S) = NetIncomeIn(es, S)
<1>1. ASSUME NEW a PROVE BalanceIn(fs, S, a) = BalanceIn(es, S, a)
  <2>1. \A i \in S : LinesOf(fs, a)[i] = LinesOf(es, a)[i]
    BY DEF LinesOf
  <2> QED BY <2>1, SumOfSame DEF BalanceIn
<1>2. IncomeOf(fs, S) = IncomeOf(es, S)
  BY <1>1 DEF IncomeOf
<1> QED BY <1>1, <1>2 DEF BalancesIn, NetIncomeIn

\* Where nothing is to be closed the profit is nothing.
LEMMA NothingIsNothing ==
    ASSUME PeriodCloseAssumption, NEW es, NEW S, \A a \in Temporary : BalanceIn(es, S, a) = 0
    PROVE  NetIncomeIn(es, S) = 0
<1> DEFINE f == IncomeOf(es, S)
           B == {s \in SUBSET Temporary : SumOf(f, s) # 0}
<1>1. IsFiniteSet(Temporary) /\ \A a \in Temporary : f[a] = 0
  BY FS_Subset DEF PeriodCloseAssumption, IncomeOf
<1>2. B = {}
  <2> SUFFICES ASSUME B # {} PROVE FALSE
    OBVIOUS
  <2>1. PICK s \in B : \A u \in B : u \subseteq s => u = s
    <3>1. B \subseteq SUBSET Temporary
      OBVIOUS
    <3> HIDE DEF B
    <3> QED BY <1>1, <3>1, SmallestMember
  <2>2. PICK x \in s : TRUE
    <3>1. s # {}
      BY <2>1, SumOfNone
    <3> QED BY <3>1
  <2>3. SumOf(f, s \ {x}) = 0
    BY <2>1, <2>2
  <2>4. SumOf(f, s) = f[x] + SumOf(f, s \ {x})
    <3>1. IsFiniteSet(s) /\ \A y \in s : f[y] \in Int
      BY <1>1, <2>1, FS_Subset
    <3> QED BY <3>1, SumWithout
  <2>5. f[x] = 0
    BY <1>1, <2>1
  <2> QED BY <2>1, <2>3, <2>4, <2>5
<1>3. SumOf(f, Temporary) = 0
  BY <1>2
<1>4. SumOf(f, Temporary) \in Int
  BY <1>3
<1>5. -SumOf(f, Temporary) = 0 - SumOf(f, Temporary)
  BY <1>4
<1>6. 0 - SumOf(f, Temporary) = 0
  BY <1>3
<1> QED BY <1>5, <1>6 DEF NetIncomeIn

-----------------------------------------------------------------------------
(* The invariant.                                                          *)

Rows ==
    /\ entries \in Seq(EntryType)
    /\ periods \in [Periods -> {"none", "open", "review", "closed"}]
    /\ DOMAIN manifests = Periods /\ DOMAIN preparations = Periods /\ DOMAIN closings = Periods
    /\ \A p \in Periods : manifests[p] \subseteq DOMAIN entries
    /\ numbered \in Nat

\* A row of the journal.
EntryHolds(i) ==
    LET e == entries[i] IN
    /\ IF e.status = "posted" THEN e.number \in 1 .. numbered ELSE e.number = 0
    /\ e.source = "period_close" =>
         preparations[e.period] # NoPreparation /\ preparations[e.period].entry = i
    /\ e.status = "draft" /\ periods[e.period] \in {"review", "closed"} => e.source = "period_close"

\* A reversal, which is never cancelled.
ReversalHolds(j) ==
    LET r == entries[j] IN
    r.of # 0 =>
        /\ r.of \in PostedIn(entries) /\ r.source = "reversal" /\ r.status # "gone"
        /\ entries[r.of].source = "manual"
        /\ \A a \in Accounts : r.lines[a] = -entries[r.of].lines[a]

ReversedOnce ==
    \A j, k \in DOMAIN entries :
        entries[j].of # 0 /\ entries[j].of = entries[k].of => j = k

\* The entry a preparation drafted, or none when there is nothing to close.
CloseEntryHolds(p) ==
    LET q == preparations[p] IN
    IF q.entry = 0 THEN \A a \in Temporary : BalanceIn(entries, OrdinaryIn(entries, p), a) = 0
    ELSE /\ q.entry \in DOMAIN entries
         /\ entries[q.entry].source = "period_close" /\ entries[q.entry].period = p
         /\ entries[q.entry].lines = CloseLinesIn(entries, p)
         /\ entries[q.entry].status = IF periods[p] = "closed" THEN "posted" ELSE "draft"

\* What was prepared is what is posted.
PreparationHolds(p) ==
    LET q == preparations[p] IN
    q # NoPreparation =>
        /\ periods[p] \in {"review", "closed"}
        /\ q.count = Cardinality(OrdinaryIn(entries, p))
        /\ q.balances = BalancesIn(entries, OrdinaryIn(entries, p))
        /\ q.net = NetIncomeIn(entries, OrdinaryIn(entries, p))
        /\ CloseEntryHolds(p)
        /\ manifests[p] \subseteq PostedIn(entries)
        /\ q.before = -BalanceIn(entries, manifests[p], Retained)

\* The entries a close stood on, by their numbers.
UpTo(es, p, last) == {i \in PostedIn(es) : es[i].period <= p /\ es[i].number <= last}

ClosingHolds(p) ==
    /\ periods[p] = "closed" => preparations[p] # NoPreparation
    /\ closings[p] # NoClosing =>
         /\ periods[p] = "closed" /\ closings[p].last \in 0 .. numbered
         /\ closings[p].after = -BalanceIn(entries, UpTo(entries, p, closings[p].last), Retained)

JournalInv ==
    /\ Rows /\ ReversedOnce
    /\ \A i \in DOMAIN entries : EntryHolds(i) /\ ReversalHolds(i)
    /\ \A p \in Periods : PreparationHolds(p) /\ ClosingHolds(p)

-----------------------------------------------------------------------------
(* What every step does: it alters or adds at most one row, not a posted   *)
(* one, and leaves what is prepared and closed.                            *)

Alters(X) ==
    /\ entries' \in Seq(EntryType) /\ DOMAIN entries' = DOMAIN entries \cup X
    /\ X \cap PostedIn(entries) = {} /\ \A x, y \in X : x = y
    /\ \A i \in DOMAIN entries \ X : entries'[i] = entries[i]

\* The row that is altered or added.
RowFits(x) ==
    /\ EntryHolds(x)'
    /\ entries'[x].status = "posted" => entries'[x].number > numbered
    /\ \/ entries'[x].of = 0
       \/ /\ ReversalHolds(x)'
          /\ IF x \in DOMAIN entries THEN entries'[x].of = entries[x].of
             ELSE \A j \in DOMAIN entries : entries[j].of # entries'[x].of

PeriodFits(X, p) ==
    /\ preparations[p] # NoPreparation =>
         preparations'[p] = preparations[p] /\ periods'[p] \in {periods[p], "closed"}
    /\ closings[p] # NoClosing => closings'[p] = closings[p]
    /\ periods'[p] \in {"review", "closed"} =>
         periods[p] \in {"review", "closed"} \/ Drafts(p) = {}
    /\ periods[p] \in {"review", "closed"} => \A x \in X : x \notin OrdinaryIn(entries', p)

\* A period the step is not about.
PeriodStays(X, p) ==
    /\ preparations'[p] = preparations[p] /\ closings'[p] = closings[p]
    /\ periods'[p] = "closed" <=> periods[p] = "closed"
    /\ preparations[p] # NoPreparation =>
         /\ periods'[p] = periods[p] /\ manifests'[p] = manifests[p]
         /\ preparations[p].entry \notin X

LEMMA AltersFacts ==
    ASSUME Rows, NEW X, Alters(X)
    PROVE  /\ \A i \in PostedIn(entries) : i \in DOMAIN entries' /\ i \in DOMAIN entries
                    /\ entries'[i] = entries[i] /\ i \in PostedIn(entries')
           /\ PostedIn(entries') \subseteq PostedIn(entries) \cup X
           /\ \A p : (\A x \in X : x \notin OrdinaryIn(entries', p)) =>
                OrdinaryIn(entries', p) = OrdinaryIn(entries, p)
<1>1. \A i \in PostedIn(entries) : i \in DOMAIN entries \ X
  BY DEF Alters, PostedIn
<1>2. \A i \in PostedIn(entries) : i \in DOMAIN entries' /\ i \in DOMAIN entries
                    /\ entries'[i] = entries[i] /\ i \in PostedIn(entries')
  BY <1>1 DEF Alters, PostedIn
<1>3. PostedIn(entries') \subseteq PostedIn(entries) \cup X
  BY DEF Alters, PostedIn
<1>4. ASSUME NEW p, \A x \in X : x \notin OrdinaryIn(entries', p)
      PROVE  OrdinaryIn(entries', p) = OrdinaryIn(entries, p)
  BY <1>2, <1>3, <1>4 DEF OrdinaryIn
<1> QED BY <1>2, <1>3, <1>4

LEMMA ClosingStays ==
    ASSUME PeriodCloseAssumption, JournalInv, Rows', NEW X, Alters(X), numbered' >= numbered,
           \A x \in X : RowFits(x), NEW p \in Periods, PeriodStays(X, p)
    PROVE  ClosingHolds(p)'
<1>1. ClosingHolds(p) /\ Rows
  BY DEF JournalInv
<1>2. CASE closings[p] = NoClosing
  BY <1>1, <1>2 DEF ClosingHolds, PeriodStays
<1>3. CASE closings[p] # NoClosing
  <2> DEFINE last == closings[p].last
             U == UpTo(entries, p, last)
  <2>1. /\ last \in 0 .. numbered /\ closings'[p] = closings[p]
        /\ closings[p].after = -BalanceIn(entries, U, Retained)
        /\ numbered \in Nat /\ numbered' \in Nat
    BY <1>1, <1>3 DEF ClosingHolds, PeriodStays, Rows
  <2>2. \A x \in X : x \in PostedIn(entries') => ~(entries'[x].number <= last)
    <3> SUFFICES ASSUME NEW x \in X, x \in PostedIn(entries') PROVE ~(entries'[x].number <= last)
      OBVIOUS
    <3>1. entries'[x].number > numbered
      BY DEF RowFits, PostedIn
    <3>2. entries'[x].number \in Nat
      <4>1. entries'[x] \in EntryType
        BY DEF Alters
      <4> QED BY <4>1 DEF EntryType
    <3> QED BY <2>1, <3>1, <3>2
  <2>3. UpTo(entries', p, last) = U
    BY <1>1, <2>2, AltersFacts DEF UpTo
  <2>4. BalanceIn(entries', U, Retained) = BalanceIn(entries, U, Retained)
    <3>1. U \subseteq DOMAIN entries /\ U \subseteq DOMAIN entries'
          /\ \A i \in U : entries'[i].lines = entries[i].lines
      BY <1>1, AltersFacts DEF UpTo
    <3>2. PICK fs, S : fs = entries' /\ S = U
      OBVIOUS
    <3>3. /\ S \subseteq DOMAIN entries /\ S \subseteq DOMAIN fs
          /\ \A i \in S : fs[i].lines = entries[i].lines
      BY <3>1, <3>2
    <3>4. \A a : BalanceIn(fs, S, a) = BalanceIn(entries, S, a)
      BY <3>3, SameLines
    <3> QED BY <3>2, <3>4
  <2>5. ClosingHolds(p)'
    BY <1>1, <1>3, <2>1, <2>3, <2>4 DEF ClosingHolds, PeriodStays
  <2> QED BY <2>5
<1> QED BY <1>2, <1>3

\* What was prepared stays what is posted.
LEMMA PreparedSame ==
    ASSUME PeriodCloseAssumption, JournalInv, NEW X, Alters(X), NEW p \in Periods,
           PeriodFits(X, p), preparations[p] # NoPreparation
    PROVE  LET O == OrdinaryIn(entries, p) IN
           /\ OrdinaryIn(entries', p) = O
           /\ \A a : BalanceIn(entries', O, a) = BalanceIn(entries, O, a)
           /\ BalancesIn(entries', O) = BalancesIn(entries, O)
           /\ NetIncomeIn(entries', O) = NetIncomeIn(entries, O)
           /\ BalanceIn(entries', manifests[p], Retained) = BalanceIn(entries, manifests[p], Retained)
           /\ CloseLinesIn(entries', p) = CloseLinesIn(entries, p)
           /\ manifests[p] \subseteq PostedIn(entries')
<1> DEFINE O == OrdinaryIn(entries, p)
<1>1. PreparationHolds(p) /\ Rows /\ periods[p] \in {"review", "closed"}
  BY DEF JournalInv, PreparationHolds
<1>2. OrdinaryIn(entries', p) = O
  BY <1>1, AltersFacts DEF PeriodFits
<1>3. O \subseteq PostedIn(entries) /\ manifests[p] \subseteq PostedIn(entries)
  BY <1>1 DEF OrdinaryIn, PreparationHolds
<1>4. \A S \in SUBSET PostedIn(entries) :
         /\ \A a : BalanceIn(entries', S, a) = BalanceIn(entries, S, a)
         /\ BalancesIn(entries', S) = BalancesIn(entries, S)
         /\ NetIncomeIn(entries', S) = NetIncomeIn(entries, S)
  <2> TAKE S \in SUBSET PostedIn(entries)
  <2>1. S \subseteq DOMAIN entries /\ S \subseteq DOMAIN entries'
        /\ \A i \in S : entries'[i].lines = entries[i].lines
    BY <1>1, AltersFacts
  <2> QED BY <2>1, SameLines
<1>5. CloseLinesIn(entries', p) = CloseLinesIn(entries, p)
  BY <1>2, <1>3, <1>4 DEF CloseLinesIn
<1>6. manifests[p] \subseteq PostedIn(entries')
  BY <1>1, <1>3, AltersFacts
<1> QED BY <1>2, <1>3, <1>4, <1>5, <1>6

LEMMA PreparationStays ==
    ASSUME PeriodCloseAssumption, JournalInv, NEW X, Alters(X),
           NEW p \in Periods, PeriodStays(X, p), PeriodFits(X, p)
    PROVE  PreparationHolds(p)'
<1>1. CASE preparations[p] = NoPreparation
  BY <1>1 DEF PreparationHolds, PeriodStays
<1>2. CASE preparations[p] # NoPreparation
  <2>1. /\ PreparationHolds(p) /\ Rows /\ periods[p] \in {"review", "closed"}
        /\ preparations'[p] = preparations[p] /\ periods'[p] = periods[p]
        /\ manifests'[p] = manifests[p] /\ preparations[p].entry \notin X
    BY <1>2 DEF JournalInv, PreparationHolds, PeriodStays
  <2>2. CloseEntryHolds(p)'
    BY <1>2, <2>1, PreparedSame DEF CloseEntryHolds, PreparationHolds, Alters
  <2> QED BY <1>2, <2>1, <2>2, PreparedSame DEF PreparationHolds
<1> QED BY <1>1, <1>2

\* A step that alters one row at most keeps the invariant and what is posted, where the
\* row fits and the periods it is about hold afterwards.
LEMMA StepKeeps ==
    ASSUME PeriodCloseAssumption, JournalInv, Rows', NEW X, Alters(X), numbered' >= numbered,
           \A x \in X : RowFits(x),
           \A p \in Periods : PeriodFits(X, p),
           \A p \in Periods : PeriodStays(X, p) \/ (PreparationHolds(p)' /\ ClosingHolds(p)')
    PROVE  JournalInv' /\ PostedStays
<1>1. Rows /\ ReversedOnce
  BY DEF JournalInv
<1>2. ASSUME NEW i \in DOMAIN entries'
      PROVE  EntryHolds(i)' /\ ReversalHolds(i)'
  <2>1. CASE i \in X
    <3>1. RowFits(i)
      BY <2>1
    <3> QED BY <3>1 DEF RowFits, ReversalHolds
  <2>2. CASE i \notin X
    <3>1. i \in DOMAIN entries /\ entries'[i] = entries[i] /\ entries[i] \in EntryType
      BY <1>1, <2>2 DEF Alters, Rows
    <3>2. EntryHolds(i) /\ ReversalHolds(i)
      BY <3>1 DEF JournalInv
    <3>3. entries[i].period \in Periods /\ entries[i].number \in Nat /\ numbered \in Nat /\ numbered' \in Nat
      BY <3>1, <1>1 DEF EntryType, Rows
    <3>4. PeriodFits(X, entries[i].period)
      BY <3>3
    <3>5. EntryHolds(i)'
      <4>1. IF entries'[i].status = "posted" THEN entries'[i].number \in 1 .. numbered'
            ELSE entries'[i].number = 0
        BY <3>1, <3>2, <3>3 DEF EntryHolds
      <4>2. entries'[i].source = "period_close" =>
              preparations'[entries'[i].period] # NoPreparation /\ preparations'[entries'[i].period].entry = i
        BY <3>1, <3>2, <3>4 DEF EntryHolds, PeriodFits
      <4>3. entries'[i].status = "draft" /\ periods'[entries'[i].period] \in {"review", "closed"} =>
              entries'[i].source = "period_close"
        BY <3>1, <3>2, <3>4 DEF EntryHolds, PeriodFits, Drafts
      <4> QED BY <4>1, <4>2, <4>3 DEF EntryHolds
    <3>6. ReversalHolds(i)'
      <4>1. CASE entries[i].of = 0
        BY <3>1, <4>1 DEF ReversalHolds
      <4>2. CASE entries[i].of # 0
        <5>1. entries[i].of \in PostedIn(entries)
          BY <3>2, <4>2 DEF ReversalHolds
        <5>2. entries'[entries[i].of] = entries[entries[i].of] /\ entries[i].of \in PostedIn(entries')
          BY <1>1, <5>1, AltersFacts
        <5> QED BY <3>1, <3>2, <4>2, <5>2 DEF ReversalHolds
      <4> QED BY <4>1, <4>2
    <3> QED BY <3>5, <3>6
  <2> QED BY <2>1, <2>2
<1>3. ReversedOnce'
  <2> SUFFICES ASSUME NEW j \in DOMAIN entries', NEW k \in DOMAIN entries',
                      entries'[j].of # 0, entries'[j].of = entries'[k].of
               PROVE  j = k
    BY DEF ReversedOnce
  <2>1. \A i \in DOMAIN entries' \ X : i \in DOMAIN entries /\ entries'[i] = entries[i]
    BY DEF Alters
  <2>2. ASSUME NEW x \in X, NEW i \in DOMAIN entries' \ X, entries'[x].of # 0
        PROVE  entries'[x].of # entries'[i].of
    BY <1>1, <2>1, <2>2 DEF RowFits, ReversedOnce
  <2>3. CASE j \in X /\ k \in X
    BY <2>3 DEF Alters
  <2>4. CASE j \notin X /\ k \notin X
    BY <1>1, <2>1, <2>4 DEF ReversedOnce
  <2> QED BY <2>2, <2>3, <2>4
<1>4. \A p \in Periods : PreparationHolds(p)' /\ ClosingHolds(p)'
  BY <1>1, PreparationStays, ClosingStays
<1>5. PostedStays
  <2>1. \A i \in Posted : entries'[i] = entries[i]
    BY <1>1, AltersFacts, LedgerNow
  <2>2. ASSUME NEW p \in Periods
        PROVE  /\ preparations[p] # NoPreparation =>
                   preparations'[p] = preparations[p] /\ periods'[p] \in {periods[p], "closed"}
               /\ closings[p] # NoClosing => closings'[p] = closings[p]
               /\ periods[p] \in {"review", "closed"} => Ordinary(p)' = Ordinary(p)
    <3>1. PeriodFits(X, p)
      OBVIOUS
    <3>2. Ordinary(p) = OrdinaryIn(entries, p) /\ Ordinary(p)' = OrdinaryIn(entries', p)
      BY DEF Posted, PostedIn, Ordinary, OrdinaryIn
    <3>3. (\A x \in X : x \notin OrdinaryIn(entries', p)) =>
            OrdinaryIn(entries', p) = OrdinaryIn(entries, p)
      BY <1>1, AltersFacts
    <3> QED BY <3>1, <3>2, <3>3 DEF PeriodFits
  <2> QED BY <2>1, <2>2 DEF PostedStays
<1> QED BY <1>2, <1>3, <1>4, <1>5 DEF JournalInv

-----------------------------------------------------------------------------
(* One lemma per operation.                                                *)

\* The status of a period changes.
LEMMA StatusKeeps ==
    ASSUME PeriodCloseAssumption, JournalInv, NEW p \in Periods,
           CreatePeriod(p) \/ Freeze(p) \/ Reopen(p)
    PROVE  JournalInv' /\ PostedStays
<1>1. /\ Rows /\ entries' = entries /\ preparations' = preparations /\ closings' = closings
      /\ numbered' = numbered /\ periods[p] # "closed" /\ preparations[p] = NoPreparation
  <2>1. Rows /\ PreparationHolds(p)
    BY DEF JournalInv
  <2> QED BY <2>1 DEF CreatePeriod, Freeze, Reopen, PreparationHolds
<1>2. \A q \in Periods : q # p => periods'[q] = periods[q] /\ manifests'[q] = manifests[q]
  BY <1>1 DEF CreatePeriod, Freeze, Reopen, Rows
<1>3. periods'[p] \in {"open", "review"} /\ (periods'[p] = "review" => Drafts(p) = {})
  BY <1>1 DEF CreatePeriod, Freeze, Reopen, Rows
<1>4. Rows'
  <2>1. periods' \in [Periods -> {"none", "open", "review", "closed"}]
    BY <1>1 DEF CreatePeriod, Freeze, Reopen, Rows
  <2>2. DOMAIN manifests' = Periods /\ manifests'[p] \subseteq DOMAIN entries
    BY <1>1 DEF CreatePeriod, Freeze, Reopen, Rows, Ledger, Posted
  <2> QED BY <1>1, <1>2, <2>1, <2>2 DEF Rows
<1>5. Alters({})
  BY <1>1 DEF Alters, Rows
<1>6. \A q \in Periods : PeriodFits({}, q)
  BY <1>1, <1>2, <1>3 DEF PeriodFits
<1>7. \A q \in Periods : PeriodStays({}, q)
  BY <1>1, <1>2, <1>3 DEF PeriodStays
<1>8. numbered' >= numbered
  BY <1>1 DEF Rows
<1> QED BY <1>4, <1>5, <1>6, <1>7, <1>8, StepKeeps

\* A row that is neither posted nor the entry of a close is written, changed, cancelled
\* or posted.
LEMMA RowKeeps ==
    ASSUME PeriodCloseAssumption, JournalInv, NEW x, Alters({x}),
           periods' = periods, manifests' = manifests, preparations' = preparations,
           closings' = closings, numbered' \in Nat, numbered' >= numbered, RowFits(x),
           entries'[x].source # "period_close",
           x \in DOMAIN entries => entries[x].source # "period_close",
           entries'[x].status = "posted" => periods[entries'[x].period] = "open"
    PROVE  JournalInv' /\ PostedStays
<1>1. Rows
  BY DEF JournalInv
<1>2. Rows'
  BY <1>1 DEF Rows, Alters
<1>3. \A q \in Periods : PeriodFits({x}, q)
  BY <1>1 DEF PeriodFits, OrdinaryIn, PostedIn
<1>4. ASSUME NEW q \in Periods, preparations[q] # NoPreparation PROVE preparations[q].entry # x
  <2>1. preparations[q].entry # 0 =>
          /\ preparations[q].entry \in DOMAIN entries
          /\ entries[preparations[q].entry].source = "period_close"
    BY <1>4 DEF JournalInv, PreparationHolds, CloseEntryHolds
  <2>2. x # 0
    <3>1. x \in DOMAIN entries'
      BY DEF Alters
    <3>2. entries' \in Seq(EntryType)
      BY DEF Alters
    <3> QED BY <3>1, <3>2
  <2> QED BY <2>1, <2>2
<1>5. \A q \in Periods : PeriodStays({x}, q)
  BY <1>4 DEF PeriodStays
<1> QED BY <1>2, <1>3, <1>5, StepKeeps

\* A new row of the journal.
LEMMA WriteKeeps ==
    ASSUME PeriodCloseAssumption, JournalInv, NEW p \in Periods, NEW source, NEW of, NEW lines,
           Write(Row(p, source, of, lines)),
           source \in {"manual", "reversal"}, of \in Nat, lines \in [Accounts -> Int],
           \/ of = 0
           \/ /\ of \in PostedIn(entries) /\ source = "reversal" /\ entries[of].source = "manual"
              /\ \A a \in Accounts : lines[a] = -entries[of].lines[a]
              /\ \A j \in DOMAIN entries : entries[j].of # of
    PROVE  JournalInv' /\ PostedStays
<1> DEFINE r == Row(p, source, of, lines)
<1>0. PICK x : x = Len(entries) + 1
  OBVIOUS
<1>1. Rows
  BY DEF JournalInv
<1>2. r \in EntryType
  BY DEF Row, EntryType
<1>3. /\ entries' = Append(entries, r) /\ periods[p] = "open" /\ periods' = periods
      /\ manifests' = manifests /\ preparations' = preparations /\ closings' = closings
      /\ numbered' = numbered
  BY DEF Write, Row
<1>4. /\ entries' \in Seq(EntryType) /\ DOMAIN entries' = DOMAIN entries \cup {x}
      /\ x \notin DOMAIN entries /\ entries'[x] = r
      /\ \A i \in DOMAIN entries : entries'[i] = entries[i]
  <2>1. entries \in Seq(EntryType)
    BY <1>1 DEF Rows
  <2> HIDE DEF r
  <2> QED BY <1>0, <1>2, <1>3, <2>1
<1>5. Alters({x})
  BY <1>4 DEF Alters, PostedIn
<1>6. /\ entries'[x].status = "draft" /\ entries'[x].number = 0 /\ entries'[x].period = p
      /\ entries'[x].source = source /\ entries'[x].of = of /\ entries'[x].lines = lines
  BY <1>4 DEF Row
<1>7. RowFits(x)
  <2>1. EntryHolds(x)'
    BY <1>3, <1>6 DEF EntryHolds
  <2>2. CASE of = 0
    BY <1>6, <2>1, <2>2 DEF RowFits
  <2>3. CASE of # 0
    <3>1. of \in PostedIn(entries') /\ entries'[of] = entries[of]
      BY <1>4, <2>3 DEF PostedIn
    <3>2. ReversalHolds(x)'
      BY <1>6, <2>3, <3>1 DEF ReversalHolds
    <3> QED BY <1>4, <1>6, <2>1, <2>3, <3>2 DEF RowFits
  <2> QED BY <2>2, <2>3
<1>8. numbered' \in Nat /\ numbered' >= numbered
  BY <1>1, <1>3 DEF Rows
<1> HIDE DEF r
<1> QED BY <1>3, <1>4, <1>5, <1>6, <1>7, <1>8, RowKeeps

LEMMA WriteNewKeeps ==
    ASSUME PeriodCloseAssumption, JournalInv, NEW p \in Periods, NEW v \in Postings, WriteNew(p, v)
    PROVE  JournalInv' /\ PostedStays
<1>1. v \in [Accounts -> Int]
  BY DEF PeriodCloseAssumption
<1> QED BY <1>1, WriteKeeps DEF WriteNew

LEMMA WriteReversalKeeps ==
    ASSUME PeriodCloseAssumption, JournalInv, NEW i \in DOMAIN entries, NEW p \in Periods,
           WriteReversal(i, p)
    PROVE  JournalInv' /\ PostedStays
<1> DEFINE v == [a \in Accounts |-> -entries[i].lines[a]]
<1>1. i \in PostedIn(entries) /\ entries[i].source = "manual" /\ Reversals(i) = {}
  BY DEF WriteReversal, Reversible, PostedIn
<1>2. i \in Nat /\ i # 0 /\ entries[i] \in EntryType
  BY DEF JournalInv, Rows
<1>3. v \in [Accounts -> Int]
  BY <1>2 DEF EntryType
<1>4. \A j \in DOMAIN entries : entries[j].of # i
  <2> SUFFICES ASSUME NEW j \in DOMAIN entries, entries[j].of = i PROVE FALSE
    OBVIOUS
  <2>1. ReversalHolds(j)
    BY DEF JournalInv
  <2> QED BY <1>1, <1>2, <2>1 DEF ReversalHolds, Reversals
<1>5. Write(Row(p, "reversal", i, v)) /\ \A a \in Accounts : v[a] = -entries[i].lines[a]
  BY DEF WriteReversal
<1> HIDE DEF v
<1> QED BY <1>1, <1>2, <1>3, <1>4, <1>5, WriteKeeps

\* A draft that is changed, cancelled or posted.
LEMMA DraftKeeps ==
    ASSUME PeriodCloseAssumption, JournalInv, NEW i \in DOMAIN entries, NEW r \in EntryType,
           entries[i].status = "draft", entries' = [entries EXCEPT ![i] = r],
           periods' = periods, manifests' = manifests, preparations' = preparations,
           closings' = closings, numbered' \in Nat, numbered' >= numbered,
           entries[i].source # "period_close", r.source # "period_close",
           IF r.status = "posted" THEN r.number \in numbered + 1 .. numbered' ELSE r.number = 0,
           r.status # "gone" => periods[r.period] = "open",
           \/ r.of = 0
           \/ /\ r.of = entries[i].of /\ r.source = entries[i].source
              /\ r.lines = entries[i].lines /\ r.status # "gone"
    PROVE  JournalInv' /\ PostedStays
<1>1. Rows /\ entries \in Seq(EntryType) /\ numbered \in Nat
  BY DEF JournalInv, Rows
<1>2. /\ entries' \in Seq(EntryType) /\ DOMAIN entries' = DOMAIN entries /\ entries'[i] = r
      /\ \A j \in DOMAIN entries \ {i} : entries'[j] = entries[j]
  BY <1>1
<1>3. Alters({i})
  BY <1>2 DEF Alters, PostedIn
<1>4. r.number \in Nat /\ r.period \in Periods
  BY DEF EntryType
<1>5. RowFits(i)
  <2>1. EntryHolds(i)'
    <3>1. r.status = "posted" => r.number \in 1 .. numbered'
      BY <1>1, <1>4
    <3> QED BY <1>2, <3>1 DEF EntryHolds
  <2>2. r.status = "posted" => r.number > numbered
    BY <1>1, <1>4
  <2>3. CASE r.of = 0
    BY <1>2, <2>1, <2>2, <2>3 DEF RowFits
  <2>4. CASE r.of # 0
    <3>1. ReversalHolds(i) /\ entries[i].of # 0 /\ entries[i].of = r.of
      BY <2>4 DEF JournalInv
    <3>2. r.of \in PostedIn(entries) /\ r.of # i
      BY <3>1 DEF ReversalHolds, PostedIn
    <3>3. r.of \in PostedIn(entries') /\ entries'[r.of] = entries[r.of]
      BY <1>2, <3>2 DEF PostedIn
    <3>4. ReversalHolds(i)'
      BY <1>2, <2>4, <3>1, <3>3 DEF ReversalHolds
    <3> QED BY <1>2, <2>1, <2>2, <2>4, <3>1, <3>4 DEF RowFits
  <2> QED BY <2>3, <2>4
<1>6. entries'[i].status = "posted" => periods[entries'[i].period] = "open"
  BY <1>2
<1> QED BY <1>1, <1>2, <1>3, <1>5, <1>6, RowKeeps

LEMMA WriteAgainKeeps ==
    ASSUME PeriodCloseAssumption, JournalInv, NEW i \in DOMAIN entries, NEW p \in Periods,
           NEW v \in Postings, WriteAgain(i, p, v)
    PROVE  JournalInv' /\ PostedStays
<1> DEFINE r == Row(p, "manual", 0, v)
<1>1. v \in [Accounts -> Int] /\ numbered \in Nat
  BY DEF PeriodCloseAssumption, JournalInv, Rows
<1>2. r \in EntryType
  BY <1>1 DEF Row, EntryType
<1>3. r.status = "draft" /\ r.number = 0 /\ r.of = 0 /\ r.source = "manual" /\ r.period = p
  BY DEF Row
<1>4. /\ entries' = [entries EXCEPT ![i] = r] /\ periods[p] = "open" /\ periods' = periods
      /\ manifests' = manifests /\ preparations' = preparations /\ closings' = closings
      /\ numbered' = numbered /\ entries[i].status = "draft" /\ entries[i].source = "manual"
  BY DEF WriteAgain, Editable
<1>5. numbered' \in Nat /\ numbered' >= numbered
  BY <1>1, <1>4
<1> HIDE DEF r
<1> QED BY <1>2, <1>3, <1>4, <1>5, DraftKeeps

LEMMA CancelDraftKeeps ==
    ASSUME PeriodCloseAssumption, JournalInv, NEW i \in DOMAIN entries, CancelDraft(i)
    PROVE  JournalInv' /\ PostedStays
<1>1. PICK e : e = entries[i]
  OBVIOUS
<1> DEFINE r == [e EXCEPT !.status = "gone", !.lines = [a \in Accounts |-> 0]]
<1>2. e \in EntryType /\ numbered \in Nat /\ EntryHolds(i) /\ ReversalHolds(i)
  BY <1>1 DEF JournalInv, Rows
<1>3. /\ entries' = [entries EXCEPT ![i] = r] /\ periods' = periods
      /\ manifests' = manifests /\ preparations' = preparations /\ closings' = closings
      /\ numbered' = numbered /\ e.status = "draft" /\ e.source = "manual"
  BY <1>1 DEF CancelDraft, Editable
<1>4. r \in EntryType /\ r.status = "gone" /\ r.number = e.number /\ r.of = e.of /\ r.source = "manual"
  <2>1. [a \in Accounts |-> 0] \in [Accounts -> Int]
    OBVIOUS
  <2> QED BY <1>2, <1>3, <2>1 DEF EntryType
<1>5. e.of = 0 /\ e.number = 0
  BY <1>1, <1>2, <1>3 DEF ReversalHolds, EntryHolds
<1>6. numbered' \in Nat /\ numbered' >= numbered
  BY <1>2, <1>3
<1> HIDE DEF r
<1> QED BY <1>1, <1>3, <1>4, <1>5, <1>6, DraftKeeps

LEMMA PostKeeps ==
    ASSUME PeriodCloseAssumption, JournalInv, NEW i \in DOMAIN entries, Post(i)
    PROVE  JournalInv' /\ PostedStays
<1>1. PICK e : e = entries[i]
  OBVIOUS
<1>2. PICK n : n = numbered + 1
  OBVIOUS
<1> DEFINE r == [e EXCEPT !.status = "posted", !.number = n]
<1>3. e \in EntryType /\ numbered \in Nat /\ n \in Nat
  BY <1>1, <1>2 DEF JournalInv, Rows
<1>4. /\ entries' = [entries EXCEPT ![i] = r] /\ periods' = periods
      /\ manifests' = manifests /\ preparations' = preparations /\ closings' = closings
      /\ numbered' = n /\ e.status = "draft" /\ e.source \in {"manual", "reversal"}
      /\ periods[e.period] = "open"
  BY <1>1, <1>2 DEF Post, Accepts
<1>5. /\ r \in EntryType /\ r.status = "posted" /\ r.number = n /\ r.of = e.of /\ r.source = e.source
      /\ r.lines = e.lines /\ r.period = e.period
  BY <1>3, <1>4 DEF EntryType
<1>6. numbered' \in Nat /\ numbered' >= numbered /\ r.number \in numbered + 1 .. numbered'
  BY <1>2, <1>3, <1>4, <1>5
<1> HIDE DEF r
<1> QED BY <1>1, <1>4, <1>5, <1>6, DraftKeeps

\* The balance of 3100 up to the end of a period, before a step and after it.
LEMMA BalanceRetained ==
    ASSUME NEW p
    PROVE  RetainedAt(p) = -BalanceIn(entries, {i \in PostedIn(entries) : entries[i].period <= p}, Retained)
<1> DEFINE U == {i \in PostedIn(entries) : entries[i].period <= p}
<1>1. U = {i \in Posted : entries[i].period <= p} /\ U \in SUBSET DOMAIN entries
  BY DEF Posted, PostedIn
<1>2. Balance(U, Retained) = BalanceIn(entries, U, Retained)
  BY <1>1, BalanceNow
<1> QED BY <1>1, <1>2 DEF RetainedAt

LEMMA RetainedNext ==
    ASSUME NEW p
    PROVE  RetainedAt(p)'
           = -BalanceIn(entries', {i \in PostedIn(entries') : entries'[i].period <= p}, Retained)
<1>1. PICK es : es = entries'
  OBVIOUS
<1>2. PICK U : U = {i \in PostedIn(entries') : entries'[i].period <= p}
  OBVIOUS
<1>3. U \in SUBSET DOMAIN es
  BY <1>1, <1>2 DEF PostedIn
<1>4. MapThenSumSet(LAMBDA i : es[i].lines[Retained], U) = BalanceIn(es, U, Retained)
  BY <1>3, LinesSum
<1>5. {i \in Posted : entries[i].period <= p}' = U
  BY <1>2 DEF Posted, PostedIn
<1>6. RetainedAt(p)' = -MapThenSumSet(LAMBDA i : es[i].lines[Retained], U)
  BY <1>1, <1>5 DEF RetainedAt, Balance, MapThenSumSet, MapThenFoldSet
<1> QED BY <1>1, <1>2, <1>4, <1>6

\* Before its close is posted, the entries a review covers are all of them.
LEMMA LedgerIsAll ==
    ASSUME JournalInv, NEW p \in Periods, periods[p] # "closed"
    PROVE  Ledger(p) = {i \in PostedIn(entries) : entries[i].period <= p}
<1> SUFFICES ASSUME NEW i \in PostedIn(entries), entries[i].source = "period_close",
                    entries[i].period = p
             PROVE  FALSE
  BY DEF Ledger, Posted, PostedIn
<1>1. i \in DOMAIN entries /\ entries[i].status = "posted" /\ i # 0
  BY DEF PostedIn, JournalInv, Rows
<1>2. preparations[p] # NoPreparation /\ preparations[p].entry = i
  BY <1>1 DEF JournalInv, EntryHolds
<1>3. CloseEntryHolds(p)
  BY <1>2 DEF JournalInv, PreparationHolds
<1> QED BY <1>1, <1>2, <1>3 DEF CloseEntryHolds

LEMMA PrepareKeeps ==
    ASSUME PeriodCloseAssumption, JournalInv, NEW p \in Periods, Prepare(p)
    PROVE  JournalInv' /\ PostedStays
<1>1. Rows /\ entries \in Seq(EntryType) /\ Len(entries) \in Nat
  BY DEF JournalInv, Rows
<1>2. PICK O : O = OrdinaryIn(entries, p)
  OBVIOUS
<1>3. PICK n : n = IF DOMAIN BalancesIn(entries, O) = {} THEN 0 ELSE Len(entries) + 1
  OBVIOUS
<1>4. PICK q : q = [entry |-> n, count |-> Cardinality(O), balances |-> BalancesIn(entries, O),
                    net |-> NetIncomeIn(entries, O), before |-> RetainedAt(p)]
  OBVIOUS
<1>5. PICK r : r = Row(p, "period_close", 0, CloseLinesIn(entries, p))
  OBVIOUS
<1>6. /\ preparations' = [preparations EXCEPT ![p] = q]
      /\ entries' = IF n = 0 THEN entries ELSE Append(entries, r)
      /\ periods' = periods /\ manifests' = manifests /\ closings' = closings /\ numbered' = numbered
      /\ periods[p] = "review" /\ preparations[p] = NoPreparation /\ Drafts(p) = {}
      /\ manifests[p] = Ledger(p)
  <2>1. /\ Ordinary(p) = O /\ Balances(Ordinary(p)) = BalancesIn(entries, O)
        /\ NetIncome(Ordinary(p)) = NetIncomeIn(entries, O)
        /\ CloseLines(p) = CloseLinesIn(entries, p)
    BY <1>2, LedgerNow
  <2>2. r = Row(p, "period_close", 0, CloseLines(p))
    BY <1>5, <2>1
  <2>3. n = IF DOMAIN Balances(Ordinary(p)) = {} THEN 0 ELSE Len(entries) + 1
    BY <1>3, <2>1
  <2>4. q = [entry |-> n, count |-> Cardinality(Ordinary(p)), balances |-> Balances(Ordinary(p)),
             net |-> NetIncome(Ordinary(p)), before |-> RetainedAt(p)]
    BY <1>4, <2>1
  <2>5. preparations' = [preparations EXCEPT ![p] = q]
    BY <2>3, <2>4 DEF Prepare
  <2>6. entries' = IF n = 0 THEN entries ELSE Append(entries, r)
    BY <2>2, <2>3 DEF Prepare
  <2> QED BY <2>5, <2>6 DEF Prepare
<1>7. /\ q.entry = n /\ q.count = Cardinality(O) /\ q.balances = BalancesIn(entries, O)
      /\ q.net = NetIncomeIn(entries, O) /\ q.before = RetainedAt(p) /\ q # NoPreparation
  BY <1>4 DEF NoPreparation
<1>8. r \in EntryType /\ r.status = "draft" /\ r.number = 0 /\ r.of = 0 /\ r.period = p
      /\ r.source = "period_close" /\ r.lines = CloseLinesIn(entries, p)
  <2>1. O \in SUBSET DOMAIN entries
    BY <1>2 DEF OrdinaryIn, PostedIn
  <2>2. NetIncomeIn(entries, O) \in Int /\ \A a \in Accounts : BalanceIn(entries, O, a) \in Int
    BY <1>1, <2>1, NetIncomeIsInt, BalanceIsInt
  <2>3. CloseLinesIn(entries, p) \in [Accounts -> Int]
    BY <1>2, <2>2 DEF CloseLinesIn, PeriodCloseAssumption
  <2> QED BY <1>5, <2>3 DEF Row, EntryType
<1>9. PICK X : X = IF n = 0 THEN {} ELSE {n}
  OBVIOUS
<1>10. /\ entries' \in Seq(EntryType) /\ DOMAIN entries' = DOMAIN entries \cup X
       /\ X \cap DOMAIN entries = {} /\ (n # 0 => entries'[n] = r)
       /\ \A i \in DOMAIN entries : entries'[i] = entries[i]
  <2>1. CASE n = 0
    BY <1>1, <1>6, <1>9, <2>1
  <2>2. CASE n # 0
    <3>1. n = Len(entries) + 1
      BY <1>3, <2>2
    <3> QED BY <1>1, <1>6, <1>8, <1>9, <2>2, <3>1
  <2> QED BY <2>1, <2>2
<1>11. Alters(X)
  BY <1>9, <1>10 DEF Alters, PostedIn
<1>12. preparations'[p] = q /\ \A s \in Periods : s # p => preparations'[s] = preparations[s]
  BY <1>1, <1>6 DEF Rows
<1>13. \A x \in X : RowFits(x)
  <2> SUFFICES ASSUME NEW x \in X PROVE RowFits(x)
    OBVIOUS
  <2>1. x = n /\ n # 0 /\ entries'[x] = r
    BY <1>9, <1>10
  <2>2. EntryHolds(x)'
    BY <1>7, <1>8, <1>12, <2>1 DEF EntryHolds
  <2> QED BY <1>8, <2>1, <2>2 DEF RowFits
<1>14. \A s \in Periods : PeriodFits(X, s)
  <2> TAKE s \in Periods
  <2>1. \A x \in X : x \notin OrdinaryIn(entries', s)
    BY <1>8, <1>9, <1>10 DEF OrdinaryIn
  <2>2. preparations[s] # NoPreparation => preparations'[s] = preparations[s]
    BY <1>6, <1>12
  <2> QED BY <1>1, <1>6, <2>1, <2>2 DEF PeriodFits, Rows
<1>15. \A s \in Periods : s # p => PeriodStays(X, s)
  <2> SUFFICES ASSUME NEW s \in Periods, s # p, preparations[s] # NoPreparation
               PROVE  preparations[s].entry \notin X
    BY <1>6, <1>12 DEF PeriodStays
  <2>1. preparations[s].entry # 0 => preparations[s].entry \in DOMAIN entries
    BY DEF JournalInv, PreparationHolds, CloseEntryHolds
  <2> QED BY <1>9, <1>10, <2>1
<1>16. PreparationHolds(p)'
  <2>1. OrdinaryIn(entries', p) = O /\ O \subseteq DOMAIN entries /\ O \subseteq DOMAIN entries'
        /\ \A i \in O : entries'[i].lines = entries[i].lines
    <3>1. \A x \in X : x \notin OrdinaryIn(entries', p)
      BY <1>8, <1>9, <1>10 DEF OrdinaryIn
    <3>2. OrdinaryIn(entries', p) = O
      BY <1>1, <1>2, <1>11, <3>1, AltersFacts
    <3> QED BY <1>2, <1>10, <3>2 DEF OrdinaryIn, PostedIn
  <2>2. /\ \A a : BalanceIn(entries', O, a) = BalanceIn(entries, O, a)
        /\ BalancesIn(entries', O) = BalancesIn(entries, O)
        /\ NetIncomeIn(entries', O) = NetIncomeIn(entries, O)
    BY <2>1, SameLines
  <2>3. CloseLinesIn(entries', p) = CloseLinesIn(entries, p)
    BY <1>2, <2>1, <2>2 DEF CloseLinesIn
  <2>4. CloseEntryHolds(p)'
    <3>1. CASE n = 0
      <4>1. DOMAIN BalancesIn(entries, O) = {}
        BY <1>1, <1>3, <3>1
      <4>2. \A a \in Temporary : BalanceIn(entries, O, a) = 0
        BY <4>1 DEF BalancesIn
      <4> QED BY <1>7, <1>12, <2>1, <2>2, <3>1, <4>2 DEF CloseEntryHolds
    <3>2. CASE n # 0
      <4>1. n \in DOMAIN entries' /\ entries'[n] = r /\ periods'[p] = "review"
        BY <1>6, <1>9, <1>10, <3>2
      <4> QED BY <1>7, <1>8, <1>12, <2>3, <3>2, <4>1 DEF CloseEntryHolds
    <3> QED BY <3>1, <3>2
  <2>5. manifests[p] = {i \in PostedIn(entries) : entries[i].period <= p}
    BY <1>6, LedgerIsAll
  <2>6. manifests[p] \subseteq DOMAIN entries /\ manifests[p] \subseteq DOMAIN entries'
        /\ manifests[p] \subseteq PostedIn(entries')
        /\ \A i \in manifests[p] : entries'[i].lines = entries[i].lines
    BY <1>10, <2>5 DEF PostedIn
  <2>7. BalanceIn(entries', manifests[p], Retained) = BalanceIn(entries, manifests[p], Retained)
    <3>1. PICK M : M = manifests[p]
      OBVIOUS
    <3>2. M \subseteq DOMAIN entries /\ M \subseteq DOMAIN entries'
          /\ \A i \in M : entries'[i].lines = entries[i].lines
      BY <2>6, <3>1
    <3>3. BalanceIn(entries', M, Retained) = BalanceIn(entries, M, Retained)
      BY <3>2, SameLines
    <3> QED BY <3>1, <3>3
  <2>8. q.before = -BalanceIn(entries', manifests[p], Retained)
    BY <1>7, <2>5, <2>7, BalanceRetained
  <2>9. periods'[p] \in {"review", "closed"} /\ manifests'[p] = manifests[p]
    BY <1>6
  <2> QED BY <1>7, <1>12, <2>1, <2>2, <2>4, <2>6, <2>8, <2>9 DEF PreparationHolds
<1>17. ClosingHolds(p)'
  <2>1. closings[p] = NoClosing
    BY <1>6 DEF JournalInv, ClosingHolds
  <2> QED BY <1>6, <2>1 DEF ClosingHolds
<1>18. Rows'
  <2>1. \A s \in Periods : manifests'[s] \subseteq DOMAIN entries'
    BY <1>1, <1>6, <1>10 DEF Rows
  <2>2. DOMAIN preparations' = Periods
    BY <1>1, <1>6 DEF Rows
  <2> QED BY <1>1, <1>6, <1>10, <2>1, <2>2 DEF Rows
<1>19. numbered' >= numbered
  BY <1>1, <1>6 DEF Rows
<1> QED BY <1>11, <1>13, <1>14, <1>15, <1>16, <1>17, <1>18, <1>19, StepKeeps

LEMMA PostCloseKeeps ==
    ASSUME PeriodCloseAssumption, JournalInv, NEW p \in Periods, PostClose(p)
    PROVE  JournalInv' /\ PostedStays
<1>1. PICK q : q = preparations[p]
  OBVIOUS
<1>2. PICK n : n = q.entry
  OBVIOUS
<1>3. PICK last : last = IF n = 0 THEN numbered ELSE numbered + 1
  OBVIOUS
<1>4. PICK e : e = entries[n]
  OBVIOUS
<1>5. PICK r : r = [e EXCEPT !.status = "posted", !.number = last]
  OBVIOUS
<1>6. /\ q # NoPreparation /\ periods[p] = "review"
      /\ entries' = IF n = 0 THEN entries ELSE [entries EXCEPT ![n] = r]
      /\ numbered' = last /\ RetainedAt(p)' = q.before + q.net
      /\ periods' = [periods EXCEPT ![p] = "closed"]
      /\ closings' = [closings EXCEPT ![p] = [after |-> q.before + q.net, last |-> last]]
      /\ manifests' = manifests /\ preparations' = preparations
  BY <1>1, <1>2, <1>3, <1>4, <1>5 DEF PostClose
<1>7. /\ Rows /\ entries \in Seq(EntryType) /\ numbered \in Nat
      /\ PreparationHolds(p) /\ CloseEntryHolds(p) /\ ClosingHolds(p)
  BY <1>1, <1>6 DEF JournalInv, Rows, PreparationHolds
<1>8. n # 0 => /\ n \in DOMAIN entries /\ e \in EntryType /\ e.source = "period_close" /\ e.period = p
               /\ e.lines = CloseLinesIn(entries, p) /\ e.status = "draft"
  BY <1>1, <1>2, <1>4, <1>6, <1>7 DEF CloseEntryHolds
<1>9. last \in Nat /\ last >= numbered /\ (n # 0 => last = numbered + 1 /\ last \in 1 .. last)
  BY <1>3, <1>7
<1>10. n # 0 => /\ r \in EntryType /\ r.status = "posted" /\ r.number = last /\ r.of = e.of
                /\ r.source = "period_close" /\ r.period = p /\ r.lines = CloseLinesIn(entries, p)
  BY <1>5, <1>8, <1>9 DEF EntryType
<1>11. n # 0 => e.of = 0
  <2>1. n # 0 => ReversalHolds(n)
    BY <1>8 DEF JournalInv
  <2> QED BY <1>4, <1>8, <2>1 DEF ReversalHolds
<1>12. PICK X : X = IF n = 0 THEN {} ELSE {n}
  OBVIOUS
<1>13. /\ entries' \in Seq(EntryType) /\ DOMAIN entries' = DOMAIN entries /\ X \subseteq DOMAIN entries
       /\ (n # 0 => entries'[n] = r) /\ \A i \in DOMAIN entries \ X : entries'[i] = entries[i]
  BY <1>6, <1>7, <1>8, <1>10, <1>12
<1>14. Alters(X)
  BY <1>4, <1>8, <1>12, <1>13 DEF Alters, PostedIn
<1>15. periods'[p] = "closed" /\ \A s \in Periods : s # p => periods'[s] = periods[s]
  BY <1>6, <1>7 DEF Rows
<1>16. closings'[p] = [after |-> q.before + q.net, last |-> last]
       /\ \A s \in Periods : s # p => closings'[s] = closings[s]
  BY <1>6, <1>7 DEF Rows
<1>17. \A x \in X : RowFits(x)
  <2> SUFFICES ASSUME NEW x \in X PROVE RowFits(x)
    OBVIOUS
  <2>1. x = n /\ n # 0 /\ entries'[x] = r
    BY <1>12, <1>13
  <2>2. EntryHolds(x)'
    BY <1>1, <1>2, <1>6, <1>9, <1>10, <2>1 DEF EntryHolds
  <2> QED BY <1>7, <1>9, <1>10, <1>11, <2>1, <2>2 DEF RowFits
<1>18. \A s \in Periods : PeriodFits(X, s)
  <2> TAKE s \in Periods
  <2>1. \A x \in X : x \notin OrdinaryIn(entries', s)
    BY <1>10, <1>12, <1>13 DEF OrdinaryIn
  <2>2. closings[s] # NoClosing => closings'[s] = closings[s]
    BY <1>6, <1>7, <1>16 DEF ClosingHolds
  <2>3. preparations[s] # NoPreparation =>
          preparations'[s] = preparations[s] /\ periods'[s] \in {periods[s], "closed"}
    BY <1>6, <1>15
  <2>4. periods'[s] \in {"review", "closed"} => periods[s] \in {"review", "closed"}
    BY <1>6, <1>15
  <2> QED BY <2>1, <2>2, <2>3, <2>4 DEF PeriodFits
<1>19. \A s \in Periods : s # p => PeriodStays(X, s)
  <2> SUFFICES ASSUME NEW s \in Periods, s # p, preparations[s] # NoPreparation
               PROVE  preparations[s].entry \notin X
    BY <1>6, <1>15, <1>16 DEF PeriodStays
  <2>1. preparations[s].entry # 0 => entries[preparations[s].entry].period = s
    BY DEF JournalInv, PreparationHolds, CloseEntryHolds
  <2> QED BY <1>4, <1>8, <1>12, <2>1
<1>20. PreparationHolds(p)'
  <2>1. PeriodFits(X, p) /\ preparations[p] # NoPreparation
    BY <1>1, <1>6, <1>18
  <2>2. preparations'[p] = preparations[p] /\ manifests'[p] = manifests[p]
    BY <1>6
  <2>3. CloseEntryHolds(p)'
    <3>1. CASE n = 0
      BY <1>1, <1>2, <1>7, <1>14, <2>1, <2>2, <3>1, PreparedSame DEF CloseEntryHolds
    <3>2. CASE n # 0
      <4>1. CloseLinesIn(entries', p) = CloseLinesIn(entries, p)
        BY <1>14, <2>1, PreparedSame
      <4> QED BY <1>1, <1>2, <1>8, <1>10, <1>13, <1>15, <2>2, <3>2, <4>1 DEF CloseEntryHolds
    <3> QED BY <3>1, <3>2
  <2> QED BY <1>7, <1>14, <1>15, <2>1, <2>2, <2>3, PreparedSame DEF PreparationHolds
<1>21. ClosingHolds(p)'
  <2>1. \A i \in PostedIn(entries') : entries'[i].number <= last
    <3> TAKE i \in PostedIn(entries')
    <3>1. CASE i \in X
      BY <1>9, <1>10, <1>12, <1>13, <3>1 DEF PostedIn
    <3>2. CASE i \notin X
      <4>1. i \in DOMAIN entries /\ entries'[i] = entries[i] /\ entries[i].status = "posted"
        BY <1>13, <3>2 DEF PostedIn
      <4>2. entries[i].number \in 1 .. numbered
        BY <4>1 DEF JournalInv, EntryHolds
      <4> QED BY <1>7, <1>9, <4>1, <4>2
    <3> QED BY <3>1, <3>2
  <2>2. UpTo(entries', p, last) = {i \in PostedIn(entries') : entries'[i].period <= p}
    BY <2>1 DEF UpTo
  <2>3. q.before + q.net = -BalanceIn(entries', UpTo(entries', p, last), Retained)
    BY <1>6, <2>2, RetainedNext
  <2>4. closings'[p].after = q.before + q.net /\ closings'[p].last = last /\ last \in 0 .. numbered'
    BY <1>6, <1>9, <1>16
  <2>5. preparations'[p] # NoPreparation
    BY <1>1, <1>6
  <2> QED BY <1>15, <2>3, <2>4, <2>5 DEF ClosingHolds
<1>22. Rows'
  <2>1. DOMAIN closings' = Periods /\ periods' \in [Periods -> {"none", "open", "review", "closed"}]
    BY <1>6, <1>7 DEF Rows
  <2> QED BY <1>6, <1>7, <1>9, <1>13, <2>1 DEF Rows
<1>23. numbered' >= numbered
  BY <1>6, <1>9
<1> QED BY <1>14, <1>17, <1>18, <1>19, <1>20, <1>21, <1>22, <1>23, StepKeeps

-----------------------------------------------------------------------------
(* The properties.                                                         *)

LEMMA InitHolds ==
    ASSUME PeriodCloseAssumption, Init
    PROVE  JournalInv
<1>1. entries = <<>> /\ DOMAIN entries = {} /\ numbered = 0
  BY DEF Init
<1>2. \A p \in Periods : periods[p] = "none" /\ manifests[p] = {} /\ preparations[p] = NoPreparation
                         /\ closings[p] = NoClosing
  BY DEF Init
<1>3. Rows
  <2>1. entries \in Seq(EntryType)
    BY <1>1
  <2>2. periods \in [Periods -> {"none", "open", "review", "closed"}]
    BY DEF Init
  <2> QED BY <1>1, <1>2, <2>1, <2>2 DEF Init, Rows
<1>4. ReversedOnce
  BY <1>1 DEF ReversedOnce
<1>5. \A p \in Periods : PreparationHolds(p) /\ ClosingHolds(p)
  BY <1>2 DEF PreparationHolds, ClosingHolds
<1> QED BY <1>1, <1>3, <1>4, <1>5 DEF JournalInv

LEMMA NextKeeps ==
    ASSUME PeriodCloseAssumption, JournalInv, [Next]_vars
    PROVE  JournalInv' /\ [PostedStays]_vars
<1>1. CASE UNCHANGED vars
  <2>1. JournalInv'
    BY <1>1 DEF vars, JournalInv, Rows, ReversedOnce, EntryHolds, ReversalHolds, PreparationHolds,
             CloseEntryHolds, ClosingHolds
  <2> QED BY <1>1, <2>1
<1>2. CASE Next
  <2>1. ASSUME NEW p \in Periods, CreatePeriod(p) \/ Freeze(p) \/ Reopen(p)
        PROVE  JournalInv' /\ PostedStays
    BY <2>1, StatusKeeps
  <2>2. ASSUME NEW p \in Periods, Prepare(p) PROVE JournalInv' /\ PostedStays
    BY <2>2, PrepareKeeps
  <2>3. ASSUME NEW p \in Periods, PostClose(p) PROVE JournalInv' /\ PostedStays
    BY <2>3, PostCloseKeeps
  <2>4. ASSUME NEW p \in Periods, NEW v \in Postings, WriteNew(p, v) PROVE JournalInv' /\ PostedStays
    BY <2>4, WriteNewKeeps
  <2>5. ASSUME NEW i \in DOMAIN entries, NEW p \in Periods, WriteReversal(i, p)
        PROVE  JournalInv' /\ PostedStays
    BY <2>5, WriteReversalKeeps
  <2>6. ASSUME NEW i \in DOMAIN entries, NEW p \in Periods, NEW v \in Postings, WriteAgain(i, p, v)
        PROVE  JournalInv' /\ PostedStays
    BY <2>6, WriteAgainKeeps
  <2>7. ASSUME NEW i \in DOMAIN entries, CancelDraft(i) PROVE JournalInv' /\ PostedStays
    BY <2>7, CancelDraftKeeps
  <2>8. ASSUME NEW i \in DOMAIN entries, Post(i) PROVE JournalInv' /\ PostedStays
    BY <2>8, PostKeeps
  <2>9. JournalInv' /\ PostedStays
    BY <1>2, <2>1, <2>2, <2>3, <2>4, <2>5, <2>6, <2>7, <2>8 DEF Next
  <2> QED BY <2>9
<1> QED BY <1>1, <1>2

\* The entry of a close brings every temporary account to nothing.
LEMMA CloseZeroes ==
    ASSUME PeriodCloseAssumption, JournalInv, NEW p \in Periods, periods[p] = "closed"
    PROVE  LET all == {i \in Posted : entries[i].period = p}  closing == all \ Ordinary(p) IN
           /\ \A a \in Temporary : Balance(all, a) = 0
           /\ -Balance(closing, Retained) = NetIncome(Ordinary(p))
<1> DEFINE all == {i \in PostedIn(entries) : entries[i].period = p}
           O == OrdinaryIn(entries, p)
           n == preparations[p].entry
           B(S, a) == BalanceIn(entries, S, a)
<1>1. /\ entries \in Seq(EntryType) /\ preparations[p] # NoPreparation /\ PreparationHolds(p)
  BY DEF JournalInv, Rows, ClosingHolds
<1>2. CloseEntryHolds(p)
  BY <1>1 DEF PreparationHolds
<1>3. O \subseteq all /\ all \in SUBSET DOMAIN entries /\ IsFiniteSet(O) /\ O \in SUBSET DOMAIN entries
  <2>1. O \subseteq all /\ all \in SUBSET DOMAIN entries
    BY DEF OrdinaryIn, PostedIn
  <2> QED BY <1>1, <2>1, BalanceIsInt
<1>4. /\ \A a \in Accounts : B(O, a) \in Int
      /\ NetIncomeIn(entries, O) \in Int
  BY <1>1, <1>3, BalanceIsInt, NetIncomeIsInt
<1>5. ASSUME NEW i \in all \ O PROVE i = n
  <2>1. i \in DOMAIN entries /\ entries[i].source = "period_close" /\ entries[i].period = p
    BY <1>5 DEF OrdinaryIn, PostedIn
  <2>2. EntryHolds(i)
    BY <2>1 DEF JournalInv
  <2> QED BY <2>1, <2>2 DEF EntryHolds
<1>6. Temporary \subseteq Accounts /\ Retained \in Accounts /\ Retained \notin Temporary
  BY DEF PeriodCloseAssumption
<1>7. /\ \A a \in Temporary : B(all, a) = 0
      /\ -B(all \ O, Retained) = NetIncomeIn(entries, O)
  <2>1. CASE n = 0
    <3>1. all = O /\ all \ O = {}
      <4>1. 0 \notin all
        BY <1>1, <1>3
      <4> QED BY <1>3, <1>5, <2>1, <4>1
    <3>2. \A a \in Temporary : B(O, a) = 0
      BY <1>2, <2>1 DEF CloseEntryHolds
    <3>3. NetIncomeIn(entries, O) = 0
      BY <3>2, NothingIsNothing
    <3>4. B({}, Retained) = 0
      BY SumOfNone DEF BalanceIn
    <3>5. -B({}, Retained) = 0 - B({}, Retained)
      BY <3>4
    <3> HIDE DEF all, O, B
    <3>6. -B(all \ O, Retained) = 0
      BY <3>1, <3>4, <3>5
    <3> QED BY <3>1, <3>2, <3>3, <3>6
  <2>2. CASE n # 0
    <3>1. /\ n \in DOMAIN entries /\ entries[n].source = "period_close" /\ entries[n].period = p
          /\ entries[n].lines = CloseLinesIn(entries, p) /\ entries[n].status = "posted"
      BY <1>2, <2>2 DEF CloseEntryHolds
    <3>2. all = O \cup {n} /\ n \notin O /\ all \ O = {n}
      BY <1>3, <1>5, <3>1 DEF OrdinaryIn, PostedIn
    <3>3. ASSUME NEW a \in Accounts
          PROVE  /\ B(all, a) = B(O, a) + CloseLinesIn(entries, p)[a]
                 /\ B({n}, a) = CloseLinesIn(entries, p)[a]
      <4>1. LinesOf(entries, a)[n] = CloseLinesIn(entries, p)[a]
        BY <3>1 DEF LinesOf
      <4>2. \A i \in DOMAIN entries : LinesOf(entries, a)[i] \in Int
        <5>1. \A i \in DOMAIN entries : entries[i] \in EntryType
          BY <1>1
        <5> QED BY <5>1 DEF LinesOf, EntryType
      <4>3. SumOf(LinesOf(entries, a), O \cup {n}) = SumOf(LinesOf(entries, a), O) + LinesOf(entries, a)[n]
        BY <1>3, <3>1, <3>2, <4>2, SumWith
      <4>4. SumOf(LinesOf(entries, a), {} \cup {n}) = SumOf(LinesOf(entries, a), {}) + LinesOf(entries, a)[n]
        <5>1. IsFiniteSet({}) /\ n \notin {} /\ \A y \in {} \cup {n} : LinesOf(entries, a)[y] \in Int
          BY <3>1, <4>2, FS_EmptySet
        <5> QED BY <5>1, SumWith
      <4>5. SumOf(LinesOf(entries, a), {}) = 0 /\ {} \cup {n} = {n}
        BY SumOfNone
      <4>6. LinesOf(entries, a)[n] \in Int
        BY <3>1, <4>2
      <4>7. SumOf(LinesOf(entries, a), {n}) = LinesOf(entries, a)[n]
        BY <4>4, <4>5, <4>6
      <4> HIDE DEF O, n
      <4> QED BY <3>2, <4>1, <4>3, <4>7 DEF BalanceIn
    <3>4. ASSUME NEW a \in Temporary PROVE B(all, a) = 0
      <4>1. CloseLinesIn(entries, p)[a] = -B(O, a)
        BY <1>6 DEF CloseLinesIn
      <4>2. B(O, a) \in Int /\ B(all, a) = B(O, a) + CloseLinesIn(entries, p)[a]
        BY <1>4, <1>6, <3>3
      <4> HIDE DEF B, O, all
      <4> QED BY <4>1, <4>2
    <3>5. CloseLinesIn(entries, p)[Retained] = -NetIncomeIn(entries, O)
      BY <1>6 DEF CloseLinesIn
    <3>6. B(all \ O, Retained) = -NetIncomeIn(entries, O)
      BY <1>6, <3>2, <3>3, <3>5
    <3> HIDE DEF B, O, all
    <3> QED BY <1>4, <3>4, <3>6
  <2> QED BY <2>1, <2>2
<1>8. Posted = PostedIn(entries) /\ Ordinary(p) = O /\ NetIncome(Ordinary(p)) = NetIncomeIn(entries, O)
  BY LedgerNow
<1>9. /\ \A a \in Temporary : Balance(all, a) = B(all, a)
      /\ Balance(all \ O, Retained) = B(all \ O, Retained)
  BY <1>3, BalanceNow
<1> HIDE DEF B, O
<1> QED BY <1>7, <1>8, <1>9

\* An entry has one reversal at most, of a manual entry, with its lines negated.
LEMMA OneReversal ==
    ASSUME JournalInv
    PROVE  ReversalsNegate
<1> SUFFICES ASSUME NEW i \in Posted
             PROVE  /\ Cardinality(Reversals(i)) <= 1
                    /\ \A j \in Reversals(i) :
                         /\ entries[i].source = "manual"
                         /\ \A a \in Accounts : entries[j].lines[a] = -entries[i].lines[a]
  BY DEF ReversalsNegate
<1>1. i # 0
  BY DEF Posted, JournalInv, Rows
<1>2. \A j \in Reversals(i) : j \in DOMAIN entries /\ entries[j].of = i /\ ReversalHolds(j)
  BY DEF Reversals, JournalInv
<1>3. Cardinality(Reversals(i)) <= 1
  <2>1. CASE Reversals(i) = {}
    BY <2>1, FS_EmptySet
  <2>2. CASE Reversals(i) # {}
    <3>1. PICK j \in Reversals(i) : TRUE
      BY <2>2
    <3>2. Reversals(i) = {j}
      BY <1>1, <1>2, <3>1 DEF JournalInv, ReversedOnce
    <3>3. Cardinality({j}) = 1
      BY FS_Singleton
    <3> QED BY <3>2, <3>3
  <2> QED BY <2>1, <2>2
<1>4. \A j \in Reversals(i) : entries[i].source = "manual"
                           /\ \A a \in Accounts : entries[j].lines[a] = -entries[i].lines[a]
  BY <1>1, <1>2 DEF ReversalHolds
<1> QED BY <1>3, <1>4

LEMMA BooksFollow ==
    ASSUME PeriodCloseAssumption, JournalInv
    PROVE  BooksHold
<1>1. ClosedIsZero
  BY CloseZeroes DEF ClosedIsZero
<1>2. PreparedIsFrozen
  BY LedgerNow DEF JournalInv, PreparationHolds, PreparedIsFrozen
<1>3. RetainedIsReplay
  <2> SUFFICES ASSUME NEW p \in Periods, closings[p] # NoClosing
               PROVE  closings[p].after = -Balance({i \in Posted :
                        entries[i].period <= p /\ entries[i].number <= closings[p].last}, Retained)
    BY DEF RetainedIsReplay
  <2>1. PICK U : U = UpTo(entries, p, closings[p].last)
    OBVIOUS
  <2>2. U = {i \in Posted : entries[i].period <= p /\ entries[i].number <= closings[p].last}
        /\ U \in SUBSET DOMAIN entries
    BY <2>1 DEF UpTo, Posted, PostedIn
  <2>3. Balance(U, Retained) = BalanceIn(entries, U, Retained)
    BY <2>2, BalanceNow
  <2>4. closings[p].after = -BalanceIn(entries, U, Retained)
    BY <2>1 DEF JournalInv, ClosingHolds
  <2> QED BY <2>2, <2>3, <2>4
<1>4. \A p \in Periods : \A i \in Drafts(p) : periods[p] \in {"review", "closed"} =>
        periods[p] = "review" /\ preparations[p] # NoPreparation /\ preparations[p].entry = i
  <2> SUFFICES ASSUME NEW p \in Periods, NEW i \in Drafts(p), periods[p] \in {"review", "closed"}
               PROVE  periods[p] = "review" /\ preparations[p] # NoPreparation
                      /\ preparations[p].entry = i
    OBVIOUS
  <2>1. /\ i \in DOMAIN entries /\ entries[i].status = "draft" /\ entries[i].period = p
        /\ EntryHolds(i) /\ i # 0
    BY DEF Drafts, JournalInv, Rows
  <2>2. preparations[p] # NoPreparation /\ preparations[p].entry = i
    BY <2>1 DEF EntryHolds
  <2>3. CloseEntryHolds(p)
    BY <2>2 DEF JournalInv, PreparationHolds
  <2> QED BY <2>1, <2>2, <2>3 DEF CloseEntryHolds
<1>5. ReviewTakesNoDraft
  BY <1>4 DEF ReviewTakesNoDraft
<1>6. PreparedCanClose
  <2> SUFFICES ASSUME NEW p \in Periods, periods[p] = "review", preparations[p] # NoPreparation,
                      manifests[p] = Ledger(p)
               PROVE  Unchanged(p)
    BY DEF PreparedCanClose
  <2>1. PreparationHolds(p)
    BY DEF JournalInv
  <2>2. preparations[p].before = RetainedAt(p)
    <3>1. manifests[p] = {i \in PostedIn(entries) : entries[i].period <= p}
      BY LedgerIsAll
    <3> QED BY <2>1, <3>1, BalanceRetained DEF PreparationHolds
  <2>3. Drafts(p) \subseteq {preparations[p].entry}
    BY <1>4
  <2> QED BY <2>1, <2>2, <2>3, LedgerNow DEF PreparationHolds, Unchanged
<1> QED BY <1>1, <1>2, <1>3, <1>5, <1>6, OneReversal DEF BooksHold

LEMMA BooksTyped ==
    ASSUME JournalInv
    PROVE  TypeOK
<1>1. \A i \in DOMAIN entries :
         /\ entries[i].period \in Periods /\ entries[i].lines \in [Accounts -> Int]
         /\ entries[i].status \in {"draft", "posted", "gone"}
         /\ entries[i].number # 0 <=> entries[i].status = "posted"
         /\ entries[i].number \in 0 .. numbered
  <2> TAKE i \in DOMAIN entries
  <2>1. entries[i] \in EntryType /\ EntryHolds(i) /\ numbered \in Nat
    BY DEF JournalInv, Rows
  <2>2. /\ entries[i].period \in Periods /\ entries[i].lines \in [Accounts -> Int]
        /\ entries[i].status \in {"draft", "posted", "gone"}
    BY <2>1 DEF EntryType
  <2>3. entries[i].number # 0 <=> entries[i].status = "posted"
    BY <2>1 DEF EntryHolds
  <2>4. entries[i].number \in 0 .. numbered
    BY <2>1 DEF EntryHolds
  <2> QED BY <2>2, <2>3, <2>4
<1> QED BY <1>1 DEF JournalInv, Rows, TypeOK

LEMMA JournalStays ==
    ASSUME PeriodCloseAssumption
    PROVE  Spec => []JournalInv
<1>1. Init => JournalInv
  BY InitHolds
<1>2. JournalInv /\ [Next]_vars => JournalInv'
  BY NextKeeps
<1> QED BY <1>1, <1>2, PTL DEF Spec

\* A closed period has no income or expense left and its profit is in retained earnings
\* once; a review freezes what is prepared and takes no draft but that of its close, so
\* that only an entry posted to an earlier date can keep a prepared period from closing;
\* the balance a close recorded is that of its entries; an entry is reversed once
\* (prepare_period_close, post_period_close, create_reversal), for every set of accounts
\* and periods and however many entries are written.
THEOREM BooksStayBalanced ==
    ASSUME PeriodCloseAssumption
    PROVE  Spec => [](TypeOK /\ BooksHold)
<1>1. JournalInv => TypeOK /\ BooksHold
  BY BooksFollow, BooksTyped
<1> QED BY <1>1, JournalStays, PTL

\* What is posted, prepared or closed is never changed, and nothing more is posted in a
\* period under review (post_journal_entry, update_draft, cancel_draft, reopen).
THEOREM PostedNeverChanges ==
    ASSUME PeriodCloseAssumption
    PROVE  Spec => BooksStay
<1>1. JournalInv /\ [Next]_vars => [PostedStays]_vars
  BY NextKeeps
<1> QED BY <1>1, JournalStays, PTL DEF Spec, BooksStay

-----------------------------------------------------------------------------
(* Paths.                                                                  *)

\* A path q under p, with p replaced by r.
Replaced(p, q, r) == r \o SubSeq(q, Len(p) + 1, Len(q))

\* It begins with r and goes on as q does.
Continues(v, p, q, r) ==
    /\ Len(p) <= Len(q) /\ Len(v) = Len(r) + (Len(q) - Len(p))
    /\ \A i \in 1 .. Len(p) : q[i] = p[i]
    /\ \A i \in 1 .. Len(r) : v[i] = r[i]
    /\ \A i \in Len(p) + 1 .. Len(q) : v[Len(r) + (i - Len(p))] = q[i]

LEMMA ReplacedPrefix ==
    ASSUME NEW S, NEW p \in Seq(S), NEW q \in Seq(S), NEW r \in Seq(S), IsPrefix(p, q)
    PROVE  Replaced(p, q, r) \in Seq(S) /\ Continues(Replaced(p, q, r), p, q, r)
<1> DEFINE w == SubSeq(q, Len(p) + 1, Len(q))
           v == Replaced(p, q, r)
<1>1. Len(p) \in Nat /\ Len(q) \in Nat /\ Len(r) \in Nat /\ Len(p) <= Len(q)
  BY LenProperties DEF IsPrefix
<1>2. \A i \in 1 .. Len(q) : q[i] \in S
  BY ElementOfSeq
<1>3. /\ w \in Seq(S) /\ Len(w) = Len(q) - Len(p)
      /\ \A i \in 1 .. Len(q) - Len(p) : w[i] = q[Len(p) + i]
  <2>1. \A i \in Len(p) + 1 .. Len(q) : q[i] \in S
    BY <1>1, <1>2
  <2>2. /\ w \in Seq(S)
        /\ Len(w) = IF Len(p) + 1 <= Len(q) THEN Len(q) - (Len(p) + 1) + 1 ELSE 0
        /\ \A i \in 1 .. Len(q) - (Len(p) + 1) + 1 : w[i] = q[Len(p) + 1 + i - 1]
    BY <1>1, <2>1, SubSeqProperties
  <2>3. Len(q) - (Len(p) + 1) + 1 = Len(q) - Len(p)
    BY <1>1
  <2>4. ASSUME NEW i \in 1 .. Len(q) - Len(p)
        PROVE  w[i] = q[Len(p) + i]
    <3>1. Len(p) + 1 + i - 1 = Len(p) + i
      BY <1>1
    <3> HIDE DEF w
    <3> QED BY <2>2, <2>3, <3>1
  <2>5. Len(w) = Len(q) - Len(p)
    BY <1>1, <2>2, <2>3
  <2> HIDE DEF w
  <2> QED BY <2>2, <2>4, <2>5
<1>4. /\ v \in Seq(S) /\ Len(v) = Len(r) + Len(w)
      /\ \A i \in 1 .. Len(r) + Len(w) : v[i] = IF i <= Len(r) THEN r[i] ELSE w[i - Len(r)]
  BY <1>3, ConcatProperties DEF Replaced
<1>5. \A i \in 1 .. Len(p) : q[i] = p[i]
  <2> TAKE i \in 1 .. Len(p)
  <2>1. SubSeq(p, 1, Len(p)) = p
    BY SubSeqFull
  <2>2. SubSeq(q, 1, Len(p))[i] = q[i]
    <3>1. \A j \in 1 .. Len(p) : q[j] \in S
      BY <1>1, <1>2
    <3>2. \A j \in 1 .. Len(p) - 1 + 1 : SubSeq(q, 1, Len(p))[j] = q[1 + j - 1]
      BY <1>1, <3>1, SubSeqProperties
    <3>3. Len(p) - 1 + 1 = Len(p) /\ 1 + i - 1 = i
      BY <1>1
    <3> QED BY <3>2, <3>3
  <2> QED BY <2>1, <2>2 DEF IsPrefix
<1> HIDE DEF w, v
<1>6. \A i \in 1 .. Len(r) : v[i] = r[i]
  BY <1>1, <1>3, <1>4
<1>7. ASSUME NEW i \in Len(p) + 1 .. Len(q)
      PROVE  v[Len(r) + (i - Len(p))] = q[i]
  <2>1. i - Len(p) \in 1 .. Len(q) - Len(p) /\ Len(p) + (i - Len(p)) = i
    BY <1>1
  <2>2. w[i - Len(p)] = q[i]
    BY <1>3, <2>1
  <2>3. /\ Len(r) + (i - Len(p)) \in 1 .. Len(r) + Len(w)
        /\ ~(Len(r) + (i - Len(p)) <= Len(r))
        /\ Len(r) + (i - Len(p)) - Len(r) = i - Len(p)
    BY <1>1, <1>3, <2>1
  <2> QED BY <1>4, <2>2, <2>3
<1>8. Len(v) = Len(r) + (Len(q) - Len(p))
  BY <1>3, <1>4
<1>9. v \in Seq(S) /\ Continues(v, p, q, r)
  BY <1>1, <1>4, <1>5, <1>6, <1>7, <1>8 DEF Continues
<1> QED BY <1>9 DEF v

\* Different paths stay different.
LEMMA ReplacedPrefixes ==
    ASSUME NEW S, NEW p \in Seq(S), NEW q \in Seq(S), NEW s \in Seq(S), NEW r \in Seq(S),
           IsPrefix(p, q), IsPrefix(p, s)
    PROVE  Replaced(p, q, r) = Replaced(p, s, r) => q = s
<1>0. PICK v, w : v = Replaced(p, q, r) /\ w = Replaced(p, s, r)
  OBVIOUS
<1>1. v \in Seq(S) /\ Continues(v, p, q, r)
  BY <1>0, ReplacedPrefix
<1>2. w \in Seq(S) /\ Continues(w, p, s, r)
  BY <1>0, ReplacedPrefix
<1>3. Len(p) \in Nat /\ Len(q) \in Nat /\ Len(r) \in Nat /\ Len(s) \in Nat
  BY LenProperties
<1>4. ASSUME v = w
      PROVE  q = s
  <2>1. Len(q) = Len(s)
    BY <1>1, <1>2, <1>3, <1>4 DEF Continues
  <2>2. ASSUME NEW i \in 1 .. Len(q)
        PROVE  q[i] = s[i]
    <3>1. CASE i \in 1 .. Len(p)
      BY <1>1, <1>2, <3>1 DEF Continues
    <3>2. CASE i \in Len(p) + 1 .. Len(q)
      BY <1>1, <1>2, <1>4, <2>1, <3>2 DEF Continues
    <3> QED BY <1>1, <1>3, <3>1, <3>2 DEF Continues
  <2> QED BY <2>1, <2>2, SeqEqual
<1> QED BY <1>0, <1>4

\* A path one name below another stays so.
Grown(q, s, n) == s = Append(q, n)

LEMMA ReplacedGrows ==
    ASSUME NEW S, NEW p \in Seq(S), NEW q \in Seq(S), NEW s \in Seq(S), NEW r \in Seq(S), NEW n \in S,
           IsPrefix(p, q), IsPrefix(p, s), Grown(q, s, n)
    PROVE  Grown(Replaced(p, q, r), Replaced(p, s, r), n)
<1>6. s = Append(q, n)
  BY DEF Grown
<1>0. PICK v, w : v = Replaced(p, q, r) /\ w = Replaced(p, s, r)
  OBVIOUS
<1>1. v \in Seq(S) /\ Continues(v, p, q, r)
  BY <1>0, ReplacedPrefix
<1>2. w \in Seq(S) /\ Continues(w, p, s, r)
  BY <1>0, ReplacedPrefix
<1>3. Len(p) \in Nat /\ Len(q) \in Nat /\ Len(r) \in Nat /\ Len(s) \in Nat
  BY LenProperties
<1>5. w = Append(v, n)
  <2>1. /\ Len(s) = Len(q) + 1 /\ s[Len(q) + 1] = n
        /\ \A i \in 1 .. Len(q) : s[i] = q[i]
    BY <1>3, <1>6
  <2>2. /\ Append(v, n) \in Seq(S) /\ Len(v) \in Nat /\ Len(Append(v, n)) = Len(v) + 1
        /\ Append(v, n)[Len(v) + 1] = n /\ \A i \in 1 .. Len(v) : Append(v, n)[i] = v[i]
    BY <1>1, LenProperties, AppendProperties
  <2>3. Len(w) = Len(v) + 1
    BY <1>1, <1>2, <1>3, <2>1 DEF Continues
  <2>4. ASSUME NEW j \in 1 .. Len(w)
        PROVE  w[j] = Append(v, n)[j]
    <3>1. CASE j \in 1 .. Len(r)
      <4>1. j \in 1 .. Len(v)
        BY <1>1, <1>3, <3>1 DEF Continues
      <4> QED BY <1>1, <1>2, <3>1, <4>1 DEF Continues
    <3>2. CASE j \in Len(r) + 1 .. Len(v)
      <4>1. PICK i \in Len(p) + 1 .. Len(q) : j = Len(r) + (i - Len(p))
        <5>1. /\ j - Len(r) + Len(p) \in Len(p) + 1 .. Len(q)
              /\ j = Len(r) + ((j - Len(r) + Len(p)) - Len(p))
          BY <1>1, <1>3, <3>2 DEF Continues
        <5> QED BY <5>1
      <4>2. i \in Len(p) + 1 .. Len(s) /\ i \in 1 .. Len(q) /\ j \in 1 .. Len(v)
        BY <1>1, <1>3, <2>1, <3>2, <4>1 DEF Continues
      <4>3. w[j] = s[i] /\ v[j] = q[i]
        BY <1>1, <1>2, <4>1, <4>2 DEF Continues
      <4> QED BY <1>1, <2>1, <4>2, <4>3 DEF Continues
    <3>3. CASE j = Len(v) + 1
      <4>1. Len(s) \in Len(p) + 1 .. Len(s) /\ Len(r) + (Len(s) - Len(p)) = j
        BY <1>1, <1>2, <1>3, <2>1, <2>3, <3>3 DEF Continues
      <4>2. w[j] = s[Len(s)]
        BY <1>2, <4>1 DEF Continues
      <4>3. Len(q) + 1 = Len(s)
        BY <2>1
      <4> QED BY <2>1, <2>2, <3>3, <4>2, <4>3
    <3>4. Len(r) <= Len(v)
      BY <1>1, <1>3 DEF Continues
    <3> QED BY <1>3, <2>2, <2>3, <3>1, <3>2, <3>3, <3>4
  <2> QED BY <1>2, <2>2, <2>3, <2>4, SeqEqual DEF Continues
<1> QED BY <1>0, <1>5 DEF Grown

-----------------------------------------------------------------------------
(* The rows of the areas.                                                  *)

Node == [parent : Areas \cup {None}, name : Names, path : Seq(Names), active : BOOLEAN]
Owned == [by : Collectors, text : Seq(Names)]
Place == [area : Areas \cup {None}, text : Seq(Names)]
Transfer == [client : Clients, from : Areas \cup {None}, to : Areas, text : Seq(Names),
             due : Nat, status : {"open", "applied", "cancelled"}]
Trip == [from : Areas \cup {None}, to : Areas]

\* A path ends with the name of its area, and no two areas have one path.
NodesHold ==
    /\ nodes \in [Areas -> Node \cup {NoNode}]
    /\ \A a \in Existing : /\ nodes[a].parent \in Existing \cup {None}
                           /\ nodes[a].path # <<>>
                           /\ nodes[a].name = nodes[a].path[Len(nodes[a].path)]
    /\ \A a, b \in Existing : nodes[a].path = nodes[b].path => a = b

\* A session waits for rows that are there, the one it changes among them.
SelectsHold ==
    /\ open \in [Sessions -> [area : Areas \cup {None}, ids : SUBSET Areas]]
    /\ \A s \in Sessions : /\ open[s].ids \subseteq Existing
                           /\ open[s].area # None => open[s].area \in open[s].ids

PeopleHold ==
    /\ owner \in [Areas -> Owned \cup {NoOwner}]
    /\ \A a \in Areas : owner[a] # NoOwner => a \in Existing
    /\ clients \in [Clients -> Place]
    /\ \A c \in Clients : clients[c].area \in Existing \cup {None}
    /\ \A c \in Clients : history[c] = <<>> => clients[c].area = None
    /\ pending \in Seq(Transfer)
    /\ \A i \in DOMAIN pending : pending[i].to \in Existing /\ pending[i].due \in 2 .. LastDay
    /\ history \in [Clients -> Seq(Trip)]
    /\ day \in 1 .. LastDay /\ collected \subseteq Clients

RowsHold == NodesHold /\ SelectsHold /\ PeopleHold

LEMMA NodeFacts ==
    ASSUME AreaAssumption, NodesHold
    PROVE  /\ None \notin Areas /\ None \notin Names /\ None \notin Collectors
           /\ NoNode \notin Node
           /\ \A a \in Areas : nodes[a].path \in Seq(Names)
           /\ \A a \in Existing : nodes[a] \in Node /\ a \in Areas
<1>1. None \notin Areas /\ None \notin Names /\ None \notin Collectors
  BY DEF AreaAssumption, None
<1>2. NoNode \notin Node
  BY <1>1 DEF NoNode, Node
<1>3. \A a \in Existing : nodes[a] \in Node /\ a \in Areas
  BY DEF NodesHold, Existing
<1>4. \A a \in Areas : nodes[a].path \in Seq(Names)
  <2> TAKE a \in Areas
  <2>1. CASE nodes[a] \in Node
    BY <2>1 DEF Node
  <2>2. CASE nodes[a] = NoNode
    BY <2>2 DEF NoNode
  <2> QED BY <2>1, <2>2 DEF NodesHold
<1> QED BY <1>1, <1>2, <1>3, <1>4

\* The row of a has a new parent, name and path, those below it a new path.
Repathed(a, ids, prefix, parent, name) ==
    /\ \A b \in ids : nodes'[b].path = NewPath(a, b, prefix) /\ nodes'[b].path \in Seq(Names)
    /\ \A b \in ids \ {a} : nodes'[b].parent = nodes[b].parent /\ nodes'[b].name = nodes[b].name
    /\ nodes'[a].parent = parent /\ nodes'[a].name = name /\ nodes'[a].path = prefix

\* What a new prefix does to the rows under an area.
LEMMA RepathRows ==
    ASSUME AreaAssumption, NodesHold, NEW ids \in SUBSET Existing, NEW a \in ids,
           NEW prefix \in Seq(Names), prefix # <<>>, NEW parent \in Existing \cup {None},
           NEW name \in Names, name = prefix[Len(prefix)],
           Repath(a, ids, prefix, parent, name)
    PROVE  /\ NodesHold' /\ Existing' = Existing
           /\ \A b \in Areas : nodes'[b].active = nodes[b].active
           /\ \A b \in Areas \ ids : nodes'[b] = nodes[b]
           /\ Repathed(a, ids, prefix, parent, name)
<1>1. \A b \in ids : b \in Areas /\ nodes[b] \in Node /\ nodes[b] # NoNode /\ nodes[b].path \in Seq(Names)
  BY NodeFacts DEF Existing
<1>2. \A b \in ids : IsPrefix(nodes[a].path, nodes[b].path)
  BY DEF Repath, Consistent
<1>3. PICK path : path = [b \in ids |-> NewPath(a, b, prefix)]
  OBVIOUS
<1>4. \A b \in ids : path[b] = Replaced(nodes[a].path, nodes[b].path, prefix)
  BY <1>3 DEF NewPath, Replaced
<1>5. \A b \in ids : /\ path[b] \in Seq(Names)
                     /\ Continues(path[b], nodes[a].path, nodes[b].path, prefix)
  BY <1>1, <1>2, <1>4, ReplacedPrefix
<1>6. nodes' = [b \in Areas |->
         CASE b = a -> [nodes[b] EXCEPT !.path = path[b], !.parent = parent, !.name = name]
           [] b \in ids \ {a} -> [nodes[b] EXCEPT !.path = path[b]]
           [] OTHER -> nodes[b]]
  BY <1>3 DEF Repath
<1>7. nodes'[a] = [nodes[a] EXCEPT !.path = path[a], !.parent = parent, !.name = name]
  BY <1>1, <1>6
<1>22. nodes'[a].path = path[a] /\ nodes'[a].parent = parent /\ nodes'[a].name = name
  <2>1. nodes[a] \in Node
    BY <1>1
  <2> QED BY <1>7, <2>1 DEF Node
<1>8. \A b \in ids \ {a} : nodes'[b] = [nodes[b] EXCEPT !.path = path[b]]
  BY <1>1, <1>6
<1>9. \A b \in Areas \ ids : nodes'[b] = nodes[b]
  BY <1>6
<1>10. \A b \in ids : nodes'[b] \in Node /\ nodes'[b].path = path[b]
                      /\ nodes'[b].active = nodes[b].active
  <2>1. parent \in Areas \cup {None}
    BY DEF Existing
  <2>2. nodes'[a] \in Node /\ nodes'[a].path = path[a] /\ nodes'[a].active = nodes[a].active
    BY <1>1, <1>5, <1>7, <2>1 DEF Node
  <2>3. ASSUME NEW b \in ids \ {a}
        PROVE  nodes'[b] \in Node /\ nodes'[b].path = path[b] /\ nodes'[b].active = nodes[b].active
    BY <1>1, <1>5, <1>8 DEF Node
  <2> QED BY <2>2, <2>3
<1>11. Existing' = Existing
  <2>1. \A b \in Areas : nodes'[b] # NoNode <=> nodes[b] # NoNode
    BY <1>1, <1>9, <1>10, NodeFacts
  <2> QED BY <2>1 DEF Existing
<1>12. Len(prefix) \in Nat \ {0} /\ \A b \in ids : Len(nodes[b].path) \in Nat
  BY <1>1, EmptySeq, LenProperties
<1>13. path[a] = prefix
  <2>1. SubSeq(nodes[a].path, Len(nodes[a].path) + 1, Len(nodes[a].path)) = <<>>
    <3>1. Len(nodes[a].path) \in Int /\ Len(nodes[a].path) + 1 \in Int
      BY <1>12
    <3> QED BY <3>1, SubSeqEmpty
  <2>2. path[a] = prefix \o <<>>
    BY <1>4, <2>1 DEF Replaced
  <2> QED BY <2>2, ConcatEmptySeq
<1>14. ASSUME NEW b \in ids \ {a}
       PROVE  /\ path[b] # <<>> /\ Len(nodes[b].path) > Len(nodes[a].path)
              /\ path[b][Len(path[b])] = nodes[b].path[Len(nodes[b].path)]
  <2>1. Len(nodes[a].path) <= Len(nodes[b].path)
    BY <1>5 DEF Continues
  <2>2. Len(nodes[a].path) # Len(nodes[b].path)
    <3> SUFFICES ASSUME Len(nodes[a].path) = Len(nodes[b].path)
                 PROVE  FALSE
      OBVIOUS
    <3>1. nodes[a].path = nodes[b].path
      BY <1>1, <1>5, SeqEqual DEF Continues
    <3> QED BY <3>1 DEF NodesHold
  <2>3. Len(nodes[b].path) \in Len(nodes[a].path) + 1 .. Len(nodes[b].path)
    BY <1>1, <1>12, <2>1, <2>2
  <2>4. path[b][Len(prefix) + (Len(nodes[b].path) - Len(nodes[a].path))]
          = nodes[b].path[Len(nodes[b].path)]
    BY <1>5, <2>3 DEF Continues
  <2>5. Len(path[b]) = Len(prefix) + (Len(nodes[b].path) - Len(nodes[a].path))
    BY <1>5 DEF Continues
  <2>6. Len(path[b]) # 0
    BY <1>1, <1>12, <2>1, <2>5
  <2>7. path[b] # <<>>
    BY <2>6, EmptySeq
  <2>8. Len(nodes[b].path) > Len(nodes[a].path)
    BY <1>12, <2>1, <2>2
  <2> QED BY <2>4, <2>5, <2>7, <2>8
<1>15. ASSUME NEW b \in Existing
       PROVE  /\ nodes'[b].parent \in Existing \cup {None} /\ nodes'[b].path # <<>>
              /\ nodes'[b].name = nodes'[b].path[Len(nodes'[b].path)]
  <2>1. CASE b = a
    BY <1>13, <1>22, <2>1
  <2>2. CASE b \in ids \ {a}
    <3>1. nodes'[b].parent = nodes[b].parent /\ nodes'[b].name = nodes[b].name
      BY <1>1, <1>8, <2>2 DEF Node
    <3> QED BY <1>10, <1>14, <2>2, <3>1 DEF NodesHold
  <2>3. CASE b \notin ids
    BY <1>9, <2>3 DEF NodesHold, Existing
  <2> QED BY <2>1, <2>2, <2>3
<1>16. ASSUME NEW b \in Existing, NEW c \in Existing, nodes'[b].path = nodes'[c].path
       PROVE  b = c
  <2>1. CASE b \in ids /\ c \in ids
    <3>1. path[b] = path[c]
      BY <1>10, <1>16, <2>1
    <3>2. nodes[b].path = nodes[c].path
      BY <1>1, <1>2, <1>4, <2>1, <3>1, ReplacedPrefixes
    <3> QED BY <3>2 DEF NodesHold
  <2>2. \A d \in ids, e \in Existing \ ids : nodes'[d].path # nodes'[e].path
    <3> TAKE d \in ids, e \in Existing \ ids
    <3>1. nodes[e].path \notin {NewPath(a, x, prefix) : x \in ids}
      BY DEF Repath, Free
    <3>2. nodes'[d].path \in {NewPath(a, x, prefix) : x \in ids}
      BY <1>3, <1>10
    <3>3. nodes'[e] = nodes[e]
      BY <1>9 DEF Existing
    <3> QED BY <3>1, <3>2, <3>3
  <2>3. CASE b \notin ids /\ c \notin ids
    <3>1. nodes'[b] = nodes[b] /\ nodes'[c] = nodes[c]
      BY <1>9, <2>3 DEF Existing
    <3> QED BY <1>16, <3>1 DEF NodesHold
  <2> QED BY <1>16, <2>1, <2>2, <2>3
<1>17. nodes' \in [Areas -> Node \cup {NoNode}]
  <2>1. \A b \in Areas : nodes'[b] \in Node \cup {NoNode}
    BY <1>9, <1>10 DEF NodesHold
  <2>2. nodes' = [b \in Areas |-> nodes'[b]]
    BY <1>6
  <2> QED BY <2>1, <2>2
<1>18. NodesHold'
  BY <1>11, <1>15, <1>16, <1>17 DEF NodesHold
<1>19. \A b \in Areas : nodes'[b].active = nodes[b].active
  BY <1>9, <1>10
<1>20. \A b \in ids : nodes'[b].path = NewPath(a, b, prefix) /\ nodes'[b].path \in Seq(Names)
  BY <1>3, <1>5, <1>10
<1>21. /\ \A b \in ids \ {a} : nodes'[b].parent = nodes[b].parent /\ nodes'[b].name = nodes[b].name
       /\ nodes'[a].parent = parent /\ nodes'[a].name = name /\ nodes'[a].path = prefix
  BY <1>1, <1>8, <1>13, <1>22 DEF Node
<1>23. Repathed(a, ids, prefix, parent, name)
  BY <1>20, <1>21 DEF Repathed
<1> QED BY <1>9, <1>11, <1>18, <1>19, <1>23

LEMMA PathUnderFacts ==
    ASSUME AreaAssumption, NodesHold, NEW p \in Existing \cup {None}, NEW name \in Names
    PROVE  LET q == PathUnder(p, name)
           IN  /\ q \in Seq(Names) /\ q # <<>> /\ q[Len(q)] = name
               /\ p # None => q = Append(nodes[p].path, name)
<1>1. CASE p = None
  <2>1. PathUnder(p, name) = <<name>>
    BY <1>1 DEF PathUnder
  <2> QED BY <1>1, <2>1
<1>2. CASE p # None
  <2>1. nodes[p].path \in Seq(Names)
    BY <1>2, NodeFacts DEF Existing
  <2>2. PathUnder(p, name) = Append(nodes[p].path, name)
    BY <1>2 DEF PathUnder
  <2> QED BY <2>1, <2>2, AppendProperties
<1> QED BY <1>1, <1>2

RecordsInv == RowsHold /\ RecordsFollowTree

\* What does not read the texts of records stays with the rest of them.
LEMMA RecordsStay ==
    ASSUME RecordsFollowTree, Existing' = Existing,
           \A b \in Existing : nodes'[b].active = nodes[b].active,
           \A b \in Areas : owner'[b] = NoOwner <=> owner[b] = NoOwner,
           \A c \in Clients : clients'[c].area = clients[c].area,
           pending \in Seq(Transfer), DOMAIN pending' = DOMAIN pending,
           \A i \in DOMAIN pending : /\ pending'[i].client = pending[i].client
                                     /\ pending'[i].from = pending[i].from
                                     /\ pending'[i].to = pending[i].to
                                     /\ pending'[i].due = pending[i].due
                                     /\ pending'[i].status = pending[i].status,
           history' = history, day' = day, collected' = collected
    PROVE  RetiredHoldsNothing' /\ PendingIsCurrent' /\ CollectedWhereDue' /\ HistoryIsChain'
<1>1. \A S : OpenTo(S)' = OpenTo(S)
  BY DEF OpenTo
<1>2. \A i \in DOMAIN pending : pending[i].client \in Clients
  <2> TAKE i \in DOMAIN pending
  <2>1. pending[i] \in Transfer
    BY LenProperties, ElementOfSeq
  <2> QED BY <2>1 DEF Transfer
<1>3. RetiredHoldsNothing'
  BY <1>1 DEF RecordsFollowTree, RetiredHoldsNothing, Existing
<1>4. PendingIsCurrent' /\ CollectedWhereDue'
  BY <1>1, <1>2 DEF RecordsFollowTree, PendingIsCurrent, CollectedWhereDue, OpenTo
<1>5. HistoryIsChain'
  BY DEF RecordsFollowTree, HistoryIsChain
<1> QED BY <1>3, <1>4, <1>5

-----------------------------------------------------------------------------
(* Structural changes.                                                     *)

LEMMA RepathKeeps ==
    ASSUME AreaAssumption, RecordsInv, NEW ids \in SUBSET Existing, NEW a \in ids,
           NEW prefix \in Seq(Names), prefix # <<>>, NEW parent \in Existing \cup {None},
           NEW name \in Names, name = prefix[Len(prefix)],
           Repath(a, ids, prefix, parent, name)
    PROVE  NodesHold' /\ PeopleHold' /\ RecordsFollowTree' /\ Existing' = Existing
<1> USE DEF RecordsInv, RowsHold
<1>1. /\ NodesHold' /\ Existing' = Existing
      /\ \A b \in Areas : nodes'[b].active = nodes[b].active
      /\ \A b \in ids : nodes'[b].path = NewPath(a, b, prefix) /\ nodes'[b].path \in Seq(Names)
      /\ \A b \in Areas \ ids : nodes'[b] = nodes[b]
  BY RepathRows DEF Repathed
<1>2. ids \subseteq Areas
  BY DEF Existing
<1>3. PICK path : path = [b \in ids |-> NewPath(a, b, prefix)]
  OBVIOUS
<1>4. \A b \in ids : path[b] \in Seq(Names) /\ nodes'[b].path = path[b]
  BY <1>1, <1>3
<1>5. owner' = [b \in Areas |-> IF b \in ids /\ owner[b] # NoOwner
                                THEN [owner[b] EXCEPT !.text = path[b]] ELSE owner[b]]
  BY <1>3 DEF Repath
<1>6. clients' = [c \in Clients |-> IF clients[c].area \in ids
                                    THEN [clients[c] EXCEPT !.text = path[clients[c].area]]
                                    ELSE clients[c]]
  BY <1>3 DEF Repath
<1>7. pending' = [i \in DOMAIN pending |->
          IF pending[i].status = "open" /\ pending[i].to \in ids
          THEN [pending[i] EXCEPT !.text = path[pending[i].to]] ELSE pending[i]]
  BY <1>3 DEF Repath
<1>8. history' = history /\ day' = day /\ collected' = collected
  BY DEF Repath
<1>9. \A b \in Areas : /\ owner'[b] \in Owned \cup {NoOwner}
                       /\ owner'[b] = NoOwner <=> owner[b] = NoOwner
                       /\ b \in ids /\ owner[b] # NoOwner => owner'[b].text = path[b]
                       /\ b \notin ids => owner'[b] = owner[b]
  <2> TAKE b \in Areas
  <2>1. CASE b \in ids /\ owner[b] # NoOwner
    <3>1. owner[b] \in Owned
      BY <2>1 DEF PeopleHold
    <3>2. owner'[b] = [owner[b] EXCEPT !.text = path[b]]
      BY <1>5, <2>1
    <3>3. owner'[b] \in Owned /\ owner'[b].text = path[b]
      BY <1>4, <2>1, <3>1, <3>2 DEF Owned
    <3>4. NoOwner \notin Owned
      BY NodeFacts DEF NoOwner, Owned
    <3> QED BY <2>1, <3>3, <3>4
  <2>2. CASE ~(b \in ids /\ owner[b] # NoOwner)
    <3>1. owner'[b] = owner[b]
      BY <1>5, <2>2
    <3> QED BY <2>2, <3>1 DEF PeopleHold
  <2> QED BY <2>1, <2>2
<1>10. \A c \in Clients : /\ clients'[c] \in Place /\ clients'[c].area = clients[c].area
                          /\ clients[c].area \in ids => clients'[c].text = path[clients[c].area]
                          /\ clients[c].area \notin ids => clients'[c] = clients[c]
  BY <1>4, <1>6 DEF PeopleHold, Place
<1>11. \A i \in DOMAIN pending : pending[i] \in Transfer
  BY LenProperties, ElementOfSeq DEF PeopleHold
<1>12. DOMAIN pending' = DOMAIN pending
  BY <1>7
<1>13. ASSUME NEW i \in DOMAIN pending
       PROVE  /\ pending'[i] \in Transfer
              /\ pending'[i].client = pending[i].client /\ pending'[i].from = pending[i].from
              /\ pending'[i].to = pending[i].to /\ pending'[i].due = pending[i].due
              /\ pending'[i].status = pending[i].status
              /\ pending[i].status = "open" =>
                   \/ pending[i].to \in ids /\ pending'[i].text = path[pending[i].to]
                   \/ pending[i].to \notin ids /\ pending'[i].text = pending[i].text
  <2>1. pending[i] \in Transfer
    BY <1>11
  <2>2. CASE pending[i].status = "open" /\ pending[i].to \in ids
    <3>1. pending'[i] = [pending[i] EXCEPT !.text = path[pending[i].to]]
      BY <1>7, <2>2
    <3> QED BY <1>4, <2>1, <2>2, <3>1 DEF Transfer
  <2>3. CASE ~(pending[i].status = "open" /\ pending[i].to \in ids)
    <3>1. pending'[i] = pending[i]
      BY <1>7, <2>3
    <3> QED BY <2>1, <2>3, <3>1
  <2> QED BY <2>2, <2>3
<1>14. PeopleHold'
  <2>1. owner' \in [Areas -> Owned \cup {NoOwner}] /\ \A b \in Areas : owner'[b] # NoOwner => b \in Existing'
    BY <1>1, <1>5, <1>9 DEF PeopleHold
  <2>2. /\ clients' \in [Clients -> Place]
        /\ \A c \in Clients : clients'[c].area \in Existing' \cup {None}
        /\ \A c \in Clients : history'[c] = <<>> => clients'[c].area = None
    BY <1>1, <1>6, <1>8, <1>10 DEF PeopleHold
  <2>3. pending' \in Seq(Transfer)
    <3>1. pending \in Seq(Transfer)
      BY DEF PeopleHold
    <3>2. DOMAIN pending = 1 .. Len(pending) /\ Len(pending) \in Nat
      BY <3>1, LenProperties
    <3>3. pending' = [i \in 1 .. Len(pending) |-> pending'[i]]
      BY <1>7, <3>2
    <3> QED BY <1>13, <3>2, <3>3
  <2>4. \A i \in DOMAIN pending' : pending'[i].to \in Existing' /\ pending'[i].due \in 2 .. LastDay
    BY <1>1, <1>12, <1>13 DEF PeopleHold
  <2>5. history' \in [Clients -> Seq(Trip)] /\ day' \in 1 .. LastDay /\ collected' \subseteq Clients
    BY <1>8 DEF PeopleHold
  <2> QED BY <2>1, <2>2, <2>3, <2>4, <2>5 DEF PeopleHold
<1>15. RetiredHoldsNothing' /\ PendingIsCurrent' /\ CollectedWhereDue' /\ HistoryIsChain'
  <2>1. pending \in Seq(Transfer)
    BY DEF PeopleHold
  <2>2. \A b \in Existing : nodes'[b].active = nodes[b].active
    BY <1>1 DEF Existing
  <2> QED BY <1>1, <1>8, <1>9, <1>10, <1>12, <1>13, <2>1, <2>2, RecordsStay
<1>16. TextsFollowNodes'
  <2>1. ASSUME NEW b \in Areas, owner'[b] # NoOwner
        PROVE  owner'[b].text = nodes'[b].path
    BY <1>1, <1>4, <1>9, <2>1 DEF RecordsFollowTree, TextsFollowNodes
  <2>2. ASSUME NEW c \in Clients, clients'[c].area # None
        PROVE  clients'[c].text = nodes'[clients'[c].area].path
    <3>1. clients[c].area \in Areas
      BY <1>10, <2>2 DEF PeopleHold, Existing
    <3> QED BY <1>1, <1>4, <1>10, <2>2, <3>1 DEF RecordsFollowTree, TextsFollowNodes
  <2>3. ASSUME NEW i \in DOMAIN pending, pending[i].status = "open"
        PROVE  pending'[i].text = nodes'[pending'[i].to].path
    <3>1. pending[i].to \in Areas
      BY DEF PeopleHold, Existing
    <3>2. i \in OpenTo(Areas)
      BY <2>3, <3>1 DEF OpenTo
    <3>3. pending[i].text = nodes[pending[i].to].path
      BY <3>2 DEF RecordsFollowTree, TextsFollowNodes
    <3>4. CASE pending[i].to \in ids
      BY <1>4, <1>13, <2>3, <3>4
    <3>5. CASE pending[i].to \notin ids
      BY <1>1, <1>13, <2>3, <3>1, <3>3, <3>5
    <3> QED BY <3>4, <3>5
  <2>4. \A i \in OpenTo(Areas)' : i \in DOMAIN pending /\ pending[i].status = "open"
    BY <1>12, <1>13 DEF OpenTo
  <2> QED BY <2>1, <2>2, <2>3, <2>4 DEF TextsFollowNodes
<1> QED BY <1>1, <1>14, <1>15, <1>16 DEF RecordsFollowTree

\* A session ends its change: the others wait for rows that are still there.
LEMMA CommitKeeps ==
    ASSUME SelectsHold, NEW s \in Sessions, Commit(s), Existing \subseteq Existing'
    PROVE  SelectsHold'
<1>1. \A t \in Sessions : open'[t] = IF t = s THEN NoSelect ELSE open[t]
  BY DEF Commit, SelectsHold
<1>2. NoSelect \in [area : Areas \cup {None}, ids : SUBSET Areas]
  BY DEF NoSelect
<1>3. open' \in [Sessions -> [area : Areas \cup {None}, ids : SUBSET Areas]]
  BY <1>2 DEF Commit, SelectsHold
<1>4. ASSUME NEW t \in Sessions
      PROVE  open'[t].ids \subseteq Existing' /\ (open'[t].area # None => open'[t].area \in open'[t].ids)
  <2>1. CASE t = s
    BY <1>1, <2>1 DEF NoSelect
  <2>2. CASE t # s
    BY <1>1, <2>2 DEF SelectsHold
  <2> QED BY <2>1, <2>2
<1> QED BY <1>3, <1>4 DEF SelectsHold

LEMMA SelectsStay ==
    ASSUME SelectsHold, UNCHANGED open, Existing \subseteq Existing'
    PROVE  SelectsHold'
  BY DEF SelectsHold

LEMMA PeopleStay ==
    ASSUME PeopleHold, UNCHANGED <<people, day, collected>>, Existing \subseteq Existing'
    PROVE  PeopleHold'
  BY DEF PeopleHold, people

LEMMA CreateKeeps ==
    ASSUME AreaAssumption, RecordsInv, NEW a \in Areas, NEW p \in Areas \cup {None},
           NEW name \in Names, Create(a, p, name)
    PROVE  RecordsInv'
<1> USE DEF RecordsInv, RowsHold
<1> DEFINE q == PathUnder(p, name)
           new == [parent |-> p, name |-> name, path |-> q, active |-> TRUE]
<1>1. /\ a \notin Existing /\ p \in Existing \cup {None}
      /\ \A b \in Existing : nodes[b].path # q
  BY DEF Create, Free
<1>2. q \in Seq(Names) /\ q # <<>> /\ q[Len(q)] = name
  BY <1>1, PathUnderFacts
<1> HIDE DEF q
<1>3. nodes' = [nodes EXCEPT ![a] = new]
  BY DEF Create, q
<1>4. nodes'[a] = new /\ \A b \in Areas \ {a} : nodes'[b] = nodes[b]
  BY <1>3 DEF NodesHold
<1>5. new \in Node /\ new # NoNode
  <2>1. new \in Node
    BY <1>2 DEF Node
  <2> QED BY <2>1, NodeFacts
<1>6. Existing' = Existing \cup {a}
  BY <1>4, <1>5 DEF Existing
<1>7. NodesHold'
  <2>1. nodes' \in [Areas -> Node \cup {NoNode}]
    BY <1>3, <1>5 DEF NodesHold
  <2>2. \A b \in Existing' : b = a \/ (b \in Existing /\ b # a /\ b \in Areas)
    BY <1>1, <1>6 DEF Existing
  <2>3. ASSUME NEW b \in Existing'
        PROVE  /\ nodes'[b].parent \in Existing' \cup {None} /\ nodes'[b].path # <<>>
               /\ nodes'[b].name = nodes'[b].path[Len(nodes'[b].path)]
    <3>1. CASE b = a
      BY <1>1, <1>2, <1>4, <1>6, <3>1
    <3>2. CASE b \in Existing /\ b # a /\ b \in Areas
      BY <1>4, <1>6, <3>2 DEF NodesHold
    <3> QED BY <2>2, <3>1, <3>2
  <2>4. ASSUME NEW b \in Existing', NEW c \in Existing', nodes'[b].path = nodes'[c].path
        PROVE  b = c
    BY <1>1, <1>4, <2>2, <2>4 DEF NodesHold
  <2> QED BY <2>1, <2>3, <2>4 DEF NodesHold
<1>8. SelectsHold' /\ PeopleHold'
  BY <1>6, SelectsStay, PeopleStay DEF Create
<1>9. UNCHANGED <<people, day, collected>>
  BY DEF Create
<1>10. \A S : OpenTo(S)' = OpenTo(S)
  BY <1>9 DEF OpenTo, people
<1>11. TextsFollowNodes'
  <2>1. \A b \in Existing : b # a /\ nodes'[b] = nodes[b]
    BY <1>1, <1>4 DEF Existing
  <2>2. \A i \in OpenTo(Areas) : pending[i].to \in Existing
    BY DEF PeopleHold, OpenTo
  <2> QED BY <1>9, <1>10, <2>1, <2>2 DEF TextsFollowNodes, RecordsFollowTree, PeopleHold, people
<1>12. RetiredHoldsNothing'
  <2>1. \A b \in Existing' : ~nodes'[b].active => b \in Existing /\ ~nodes[b].active
    BY <1>1, <1>4, <1>6 DEF Existing
  <2> QED BY <1>9, <1>10, <2>1 DEF RetiredHoldsNothing, RecordsFollowTree, people
<1>13. PendingIsCurrent' /\ CollectedWhereDue' /\ HistoryIsChain'
  BY <1>9, <1>10 DEF RecordsFollowTree, PendingIsCurrent, CollectedWhereDue, HistoryIsChain, people
<1> QED BY <1>7, <1>8, <1>11, <1>12, <1>13 DEF RecordsFollowTree

\* Selecting rows and giving up change no row.
LEMMA WaitKeeps ==
    ASSUME AreaAssumption, RecordsInv, NEW s \in Sessions,
           Abandon(s) \/ \E a \in Areas : Select(s, a)
    PROVE  RecordsInv'
<1> USE DEF RecordsInv, RowsHold
<1>1. UNCHANGED <<nodes, people, day, collected>>
  BY DEF Abandon, Select
<1>2. Existing' = Existing
  BY <1>1 DEF Existing
<1>3. SelectsHold'
  <2>1. CASE Abandon(s)
    BY <1>2, <2>1, CommitKeeps DEF Abandon
  <2>2. ASSUME NEW a \in Areas, Select(s, a)
        PROVE  SelectsHold'
    <3>1. open' = [open EXCEPT ![s] = [area |-> a, ids |-> Below(a)]] /\ a \in Existing
      BY <2>2 DEF Select
    <3>2. Below(a) \subseteq Existing /\ a \in Below(a) /\ Below(a) \in SUBSET Areas
      BY <3>1 DEF Below, Existing
    <3> QED BY <1>2, <3>1, <3>2 DEF SelectsHold
  <2> QED BY <2>1, <2>2
<1>4. NodesHold'
  BY <1>1, <1>2 DEF NodesHold
<1>5. PeopleHold'
  BY <1>1, <1>2, PeopleStay
<1>6. \A S : OpenTo(S)' = OpenTo(S)
  BY <1>1 DEF OpenTo, people
<1>7. RecordsFollowTree'
  BY <1>1, <1>2, <1>6 DEF RecordsFollowTree, TextsFollowNodes, RetiredHoldsNothing, PendingIsCurrent,
     CollectedWhereDue, HistoryIsChain, people
<1> QED BY <1>3, <1>4, <1>5, <1>7

LEMMA RenameKeeps ==
    ASSUME AreaAssumption, RecordsInv, NEW s \in Sessions, NEW name \in Names, Rename(s, name)
    PROVE  RecordsInv' /\ Existing' = Existing
<1> USE DEF RecordsInv, RowsHold
<1> DEFINE a == open[s].area
           ids == open[s].ids
           prefix == PathUnder(nodes[a].parent, name)
<1>1. /\ a # None /\ Commit(s)
      /\ Repath(a, ids, prefix, nodes[a].parent, name)
  BY DEF Rename
<1>2. ids \in SUBSET Existing /\ a \in ids
  BY <1>1 DEF SelectsHold
<1>3. nodes[a].parent \in Existing \cup {None}
  BY <1>2 DEF NodesHold
<1>4. prefix \in Seq(Names) /\ prefix # <<>> /\ prefix[Len(prefix)] = name
  BY <1>3, PathUnderFacts
<1> HIDE DEF a, ids, prefix
<1>5. NodesHold' /\ PeopleHold' /\ RecordsFollowTree' /\ Existing' = Existing
  BY <1>1, <1>2, <1>3, <1>4, RepathKeeps
<1>6. SelectsHold'
  BY <1>1, <1>5, CommitKeeps
<1> QED BY <1>5, <1>6

LEMMA MoveKeeps ==
    ASSUME AreaAssumption, RecordsInv, NEW s \in Sessions, NEW p \in Areas \cup {None}, Move(s, p)
    PROVE  RecordsInv' /\ Existing' = Existing
<1> USE DEF RecordsInv, RowsHold
<1> DEFINE a == open[s].area
           ids == open[s].ids
           prefix == PathUnder(p, nodes[a].name)
<1>1. /\ a # None /\ Commit(s) /\ p \in Existing \cup {None}
      /\ Repath(a, ids, prefix, p, nodes[a].name)
  BY DEF Move
<1>2. ids \in SUBSET Existing /\ a \in ids
  BY <1>1 DEF SelectsHold
<1>3. nodes[a].name \in Names
  <2>1. nodes[a] \in Node
    BY <1>2, NodeFacts
  <2> QED BY <2>1 DEF Node
<1>4. prefix \in Seq(Names) /\ prefix # <<>> /\ prefix[Len(prefix)] = nodes[a].name
  BY <1>1, <1>3, PathUnderFacts
<1> HIDE DEF a, ids, prefix
<1>5. NodesHold' /\ PeopleHold' /\ RecordsFollowTree' /\ Existing' = Existing
  BY <1>1, <1>2, <1>3, <1>4, RepathKeeps
<1>6. SelectsHold'
  BY <1>1, <1>5, CommitKeeps
<1> QED BY <1>5, <1>6

\* An area becomes active or retired.
LEMMA ActiveKeeps ==
    ASSUME AreaAssumption, RecordsInv, NEW a \in Existing, NEW on \in BOOLEAN,
           nodes' = [nodes EXCEPT ![a].active = on],
           UNCHANGED <<people, day, collected>>,
           ~on => owner[a] = NoOwner /\ OpenTo({a}) = {} /\ \A c \in Clients : clients[c].area # a
    PROVE  /\ NodesHold' /\ PeopleHold' /\ RecordsFollowTree' /\ Existing' = Existing
           /\ \A b \in Areas : nodes'[b].path = nodes[b].path
                               /\ nodes'[b].parent = nodes[b].parent /\ nodes'[b].name = nodes[b].name
           /\ \A b \in Areas \ {a} : nodes'[b] = nodes[b]
<1> USE DEF RecordsInv, RowsHold
<1>1. nodes[a] \in Node /\ a \in Areas /\ nodes \in [Areas -> Node \cup {NoNode}] /\ NoNode \notin Node
  BY NodeFacts DEF NodesHold
<1>2. nodes'[a] = [nodes[a] EXCEPT !.active = on] /\ \A b \in Areas \ {a} : nodes'[b] = nodes[b]
  BY <1>1
<1>3. /\ nodes'[a] \in Node /\ nodes'[a].active = on /\ nodes'[a].path = nodes[a].path
      /\ nodes'[a].parent = nodes[a].parent /\ nodes'[a].name = nodes[a].name
  BY <1>1, <1>2 DEF Node
<1>4. Existing' = Existing
  BY <1>1, <1>2, <1>3 DEF Existing
<1>5. \A b \in Areas : nodes'[b].path = nodes[b].path
                       /\ nodes'[b].parent = nodes[b].parent /\ nodes'[b].name = nodes[b].name
  BY <1>2, <1>3
<1>6. NodesHold'
  <2>1. nodes' \in [Areas -> Node \cup {NoNode}]
    BY <1>1, <1>3
  <2> QED BY <1>4, <1>5, <2>1 DEF NodesHold, Existing
<1>7. PeopleHold'
  BY <1>4, PeopleStay
<1>8. \A S : OpenTo(S)' = OpenTo(S)
  BY DEF OpenTo, people
<1>9. TextsFollowNodes'
  <2>1. \A i \in OpenTo(Areas) : pending[i].to \in Areas
    BY DEF OpenTo
  <2>2. \A c \in Clients : clients[c].area # None => clients[c].area \in Areas
    BY DEF PeopleHold, Existing
  <2> QED BY <1>5, <1>8, <2>1, <2>2 DEF TextsFollowNodes, RecordsFollowTree, people
<1>10. RetiredHoldsNothing'
  <2> SUFFICES ASSUME NEW b \in Existing, ~nodes'[b].active
               PROVE  owner[b] = NoOwner /\ OpenTo({b}) = {} /\ \A c \in Clients : clients[c].area # b
    BY <1>4, <1>8 DEF RetiredHoldsNothing, people
  <2>1. CASE b = a
    BY <1>3, <2>1
  <2>2. CASE b # a
    BY <1>2, <2>2 DEF RetiredHoldsNothing, RecordsFollowTree, Existing
  <2> QED BY <2>1, <2>2
<1>11. PendingIsCurrent' /\ CollectedWhereDue' /\ HistoryIsChain'
  BY <1>8 DEF RecordsFollowTree, PendingIsCurrent, CollectedWhereDue, HistoryIsChain, people
<1> QED BY <1>2, <1>4, <1>5, <1>6, <1>7, <1>9, <1>10, <1>11 DEF RecordsFollowTree

LEMMA RetireKeeps ==
    ASSUME AreaAssumption, RecordsInv, NEW s \in Sessions, Retire(s)
    PROVE  RecordsInv'
<1> USE DEF RecordsInv, RowsHold
<1> DEFINE a == open[s].area
           ids == open[s].ids
<1>1. /\ a # None /\ Commit(s) /\ UNCHANGED <<people, day, collected>>
      /\ \A c \in Clients : clients[c].area \notin ids
      /\ \A b \in ids : owner[b] = NoOwner
      /\ OpenTo(ids) = {}
      /\ nodes' = [nodes EXCEPT ![a].active = FALSE]
  BY DEF Retire
<1>2. ids \in SUBSET Existing /\ a \in ids
  BY <1>1 DEF SelectsHold
<1> HIDE DEF a, ids
<1>3. owner[a] = NoOwner /\ OpenTo({a}) = {} /\ \A c \in Clients : clients[c].area # a
  BY <1>1, <1>2 DEF OpenTo
<1>4. NodesHold' /\ PeopleHold' /\ RecordsFollowTree' /\ Existing' = Existing
  BY <1>1, <1>2, <1>3, ActiveKeeps
<1>5. SelectsHold'
  BY <1>1, <1>4, CommitKeeps
<1> QED BY <1>4, <1>5

LEMMA ReactivateKeeps ==
    ASSUME AreaAssumption, RecordsInv, NEW a \in Areas, Reactivate(a)
    PROVE  RecordsInv'
<1> USE DEF RecordsInv, RowsHold
<1>1. /\ a \in Existing /\ nodes' = [nodes EXCEPT ![a].active = TRUE]
      /\ UNCHANGED open /\ UNCHANGED <<people, day, collected>>
  BY DEF Reactivate
<1>2. NodesHold' /\ PeopleHold' /\ RecordsFollowTree' /\ Existing' = Existing
  BY <1>1, ActiveKeeps
<1>3. SelectsHold'
  BY <1>1, <1>2, SelectsStay
<1> QED BY <1>2, <1>3

-----------------------------------------------------------------------------
(* Collectors, clients and transfers.                                      *)

\* The areas stay while their records change.
LEMMA TreeStays ==
    ASSUME NodesHold, SelectsHold, UNCHANGED tree
    PROVE  NodesHold' /\ SelectsHold' /\ Existing' = Existing
<1>1. Existing' = Existing
  BY DEF Existing, tree
<1> QED BY <1>1 DEF NodesHold, SelectsHold, tree

LEMMA PendingFacts ==
    ASSUME PeopleHold
    PROVE  /\ \A i \in DOMAIN pending : pending[i] \in Transfer /\ pending[i].client \in Clients
           /\ \A S : S \subseteq Areas => OpenTo(S) \subseteq OpenTo(Areas)
           /\ OpenTo(Areas) = {i \in DOMAIN pending : pending[i].status = "open"}
<1>1. \A i \in DOMAIN pending : pending[i] \in Transfer
  BY LenProperties, ElementOfSeq DEF PeopleHold
<1> QED BY <1>1 DEF OpenTo, Transfer

LEMMA AssignKeeps ==
    ASSUME AreaAssumption, RecordsInv, NEW a \in Areas,
           RemoveCollector(a) \/ \E k \in Collectors : AssignCollector(a, k)
    PROVE  RecordsInv'
<1> USE DEF RecordsInv, RowsHold
<1>1. /\ a \in Existing /\ nodes[a].active
      /\ UNCHANGED <<tree, clients, pending, history, day, collected>>
  BY DEF RemoveCollector, AssignCollector
<1>2. NodesHold' /\ SelectsHold' /\ Existing' = Existing
  BY <1>1, TreeStays
<1>3. PICK new : /\ owner' = [owner EXCEPT ![a] = new]
                 /\ new = NoOwner \/ (new \in Owned /\ new.text = nodes[a].path)
  <2>1. CASE RemoveCollector(a)
    BY <2>1 DEF RemoveCollector
  <2>2. ASSUME NEW k \in Collectors, AssignCollector(a, k)
        PROVE  \E new : /\ owner' = [owner EXCEPT ![a] = new]
                        /\ new \in Owned /\ new.text = nodes[a].path
    <3>1. PICK new : new = [by |-> k, text |-> nodes[a].path]
      OBVIOUS
    <3>2. new \in Owned /\ new.text = nodes[a].path
      BY <3>1, NodeFacts DEF Owned
    <3>3. owner' = [owner EXCEPT ![a] = new]
      BY <2>2, <3>1 DEF AssignCollector
    <3> QED BY <3>2, <3>3
  <2> QED BY <2>1, <2>2
<1>4. owner'[a] = new /\ \A b \in Areas \ {a} : owner'[b] = owner[b]
  BY <1>3 DEF PeopleHold
<1>5. PeopleHold'
  <2>1. owner' \in [Areas -> Owned \cup {NoOwner}]
    BY <1>3 DEF PeopleHold
  <2>2. \A b \in Areas : owner'[b] # NoOwner => b \in Existing
    BY <1>1, <1>4 DEF PeopleHold
  <2> QED BY <1>1, <1>2, <2>1, <2>2 DEF PeopleHold
<1>6. \A S : OpenTo(S)' = OpenTo(S)
  BY <1>1 DEF OpenTo
<1>7. TextsFollowNodes'
  <2>1. \A b \in Areas : owner'[b] # NoOwner => owner'[b].text = nodes[b].path
    BY <1>3, <1>4 DEF TextsFollowNodes, RecordsFollowTree
  <2> QED BY <1>1, <1>6, <2>1 DEF TextsFollowNodes, RecordsFollowTree, tree
<1>8. RetiredHoldsNothing'
  BY <1>1, <1>2, <1>4, <1>6 DEF RetiredHoldsNothing, RecordsFollowTree, tree, Existing
<1>9. PendingIsCurrent' /\ CollectedWhereDue' /\ HistoryIsChain'
  BY <1>1, <1>6 DEF RecordsFollowTree, PendingIsCurrent, CollectedWhereDue, HistoryIsChain
<1> QED BY <1>2, <1>5, <1>7, <1>8, <1>9 DEF RecordsFollowTree

\* What the cancellation of an open transfer leaves.
LEMMA CancelledFacts ==
    ASSUME PeopleHold, NEW c \in Clients
    PROVE  LET p == Cancelled(c)
           IN  /\ p \in Seq(Transfer) /\ DOMAIN p = DOMAIN pending /\ Len(p) = Len(pending)
               /\ \A i \in DOMAIN pending :
                    /\ p[i].client = pending[i].client /\ p[i].from = pending[i].from
                    /\ p[i].to = pending[i].to /\ p[i].due = pending[i].due
                    /\ p[i].text = pending[i].text
                    /\ p[i].status = "open" <=> pending[i].status = "open" /\ pending[i].client # c
<1> DEFINE p == Cancelled(c)
<1>1. DOMAIN p = DOMAIN pending
  BY DEF Cancelled
<1>2. ASSUME NEW i \in DOMAIN pending
      PROVE  /\ p[i] \in Transfer
             /\ p[i].client = pending[i].client /\ p[i].from = pending[i].from
             /\ p[i].to = pending[i].to /\ p[i].due = pending[i].due
             /\ p[i].text = pending[i].text
             /\ p[i].status = "open" <=> pending[i].status = "open" /\ pending[i].client # c
  <2>1. pending[i] \in Transfer
    BY PendingFacts
  <2>2. CASE pending[i].status = "open" /\ pending[i].client = c
    <3>1. p[i] = [pending[i] EXCEPT !.status = "cancelled"]
      BY <2>2 DEF Cancelled
    <3> QED BY <2>1, <2>2, <3>1 DEF Transfer
  <2>3. CASE ~(pending[i].status = "open" /\ pending[i].client = c)
    <3>1. p[i] = pending[i]
      BY <2>3 DEF Cancelled
    <3> QED BY <2>1, <2>3, <3>1
  <2> QED BY <2>2, <2>3
<1>3. p \in Seq(Transfer) /\ Len(p) = Len(pending)
  <2>1. DOMAIN pending = 1 .. Len(pending) /\ Len(pending) \in Nat
    BY LenProperties DEF PeopleHold
  <2>2. p = [i \in 1 .. Len(pending) |-> p[i]]
    BY <2>1 DEF Cancelled
  <2> HIDE DEF p
  <2> QED BY <1>2, <2>1, <2>2
<1> HIDE DEF p
<1> QED BY <1>1, <1>2, <1>3 DEF p

\* The history of a client goes on where the client is.
ArrivedAt(h, from, to) == Append(h, [from |-> from, to |-> to])
ChainTo(h, area) ==
    /\ h # <<>> => h[1].from = None /\ h[Len(h)].to = area
    /\ \A i \in 1 .. Len(h) - 1 : h[i].to = h[i + 1].from

LEMMA ChainGrows ==
    ASSUME NEW h \in Seq(Trip), NEW from \in Areas \cup {None}, NEW to \in Areas,
           ChainTo(h, from), h = <<>> => from = None
    PROVE  /\ ArrivedAt(h, from, to) \in Seq(Trip) /\ ArrivedAt(h, from, to) # <<>>
           /\ ChainTo(ArrivedAt(h, from, to), to)
<1>1. PICK t : t = [from |-> from, to |-> to]
  OBVIOUS
<1>2. t \in Trip /\ t.from = from /\ t.to = to
  BY <1>1 DEF Trip
<1>3. PICK g : g = Append(h, t)
  OBVIOUS
<1>4. Len(h) \in Nat /\ (h = <<>> <=> Len(h) = 0)
  BY LenProperties, EmptySeq
<1>5. /\ g \in Seq(Trip) /\ g # <<>> /\ Len(g) = Len(h) + 1
      /\ \A i \in 1 .. Len(h) : g[i] = h[i]
      /\ g[Len(h) + 1] = t
  BY <1>2, <1>3, AppendProperties
<1>6. g[1].from = None /\ g[Len(g)].to = to
  <2>1. CASE h = <<>>
    BY <1>2, <1>4, <1>5, <2>1
  <2>2. CASE h # <<>>
    <3>1. g[1] = h[1]
      BY <1>4, <1>5, <2>2
    <3> QED BY <1>2, <1>5, <2>2, <3>1 DEF ChainTo
  <2> QED BY <2>1, <2>2
<1>7. ASSUME NEW i \in 1 .. Len(g) - 1
      PROVE  g[i].to = g[i + 1].from
  <2>1. CASE i = Len(h)
    <3>1. h # <<>> /\ g[i] = h[i] /\ g[i + 1] = t
      BY <1>4, <1>5, <2>1
    <3> QED BY <1>2, <2>1, <3>1 DEF ChainTo
  <2>2. CASE i # Len(h)
    <3>1. i \in 1 .. Len(h) - 1 /\ g[i] = h[i] /\ g[i + 1] = h[i + 1]
      BY <1>4, <1>5, <2>2
    <3> QED BY <3>1 DEF ChainTo
  <2> QED BY <2>1, <2>2
<1>8. g = ArrivedAt(h, from, to)
  BY <1>1, <1>3 DEF ArrivedAt
<1> QED BY <1>5, <1>6, <1>7, <1>8 DEF ChainTo


\* Clients who move to areas leave no open transfer behind; to[c] is None for one who stays.
LEMMA MovedKeeps ==
    ASSUME AreaAssumption, RecordsInv, NEW to \in [Clients -> Areas \cup {None}],
           UNCHANGED <<tree, owner, day>>,
           \A c \in Clients : to[c] # None =>
               /\ to[c] \in Existing /\ nodes[to[c]].active
               /\ \A i \in DOMAIN pending : pending'[i].status = "open" => pending[i].client # c,
           clients' = [c \in Clients |-> IF to[c] = None THEN clients[c]
                                         ELSE [area |-> to[c], text |-> nodes[to[c]].path]],
           history' = [c \in Clients |-> IF to[c] = None THEN history[c]
                                         ELSE ArrivedAt(history[c], clients[c].area, to[c])],
           pending' \in Seq(Transfer), DOMAIN pending' = DOMAIN pending,
           \A i \in DOMAIN pending :
               /\ pending'[i].client = pending[i].client /\ pending'[i].from = pending[i].from
               /\ pending'[i].to = pending[i].to /\ pending'[i].due = pending[i].due
               /\ pending'[i].text = pending[i].text
               /\ pending'[i].status = "open" => pending[i].status = "open",
           collected' \subseteq Clients, CollectedWhereDue'
    PROVE  RecordsInv'
<1> USE DEF RecordsInv, RowsHold
<1>1. NodesHold' /\ SelectsHold' /\ Existing' = Existing
  BY TreeStays
<1>2. /\ None \notin Areas /\ Existing \subseteq Areas
      /\ \A a \in Areas : nodes[a].path \in Seq(Names)
  BY NodeFacts DEF Existing
<1>3. \A c \in Clients :
        /\ to[c] = None => clients'[c] = clients[c] /\ history'[c] = history[c]
        /\ to[c] # None => /\ clients'[c] = [area |-> to[c], text |-> nodes[to[c]].path]
                           /\ history'[c] = ArrivedAt(history[c], clients[c].area, to[c])
  OBVIOUS
<1>4. ASSUME NEW c \in Clients, to[c] # None
      PROVE  /\ clients'[c] \in Place /\ clients'[c].area = to[c]
             /\ clients'[c].text = nodes[to[c]].path
             /\ history'[c] \in Seq(Trip) /\ history'[c] # <<>> /\ ChainTo(history'[c], to[c])
  <2>1. to[c] \in Areas /\ clients[c].area \in Areas \cup {None} /\ history[c] \in Seq(Trip)
    BY <1>2, <1>4 DEF PeopleHold
  <2>2. ChainTo(history[c], clients[c].area) /\ (history[c] = <<>> => clients[c].area = None)
    BY DEF RecordsFollowTree, HistoryIsChain, ChainTo, PeopleHold
  <2>3. history'[c] \in Seq(Trip) /\ history'[c] # <<>> /\ ChainTo(history'[c], to[c])
    BY <1>3, <1>4, <2>1, <2>2, ChainGrows
  <2>4. clients'[c] \in Place /\ clients'[c].area = to[c] /\ clients'[c].text = nodes[to[c]].path
    BY <1>2, <1>3, <1>4, <2>1 DEF Place
  <2> QED BY <2>3, <2>4
<1>5. PeopleHold'
  <2>1. clients' \in [Clients -> Place] /\ history' \in [Clients -> Seq(Trip)]
    BY <1>3, <1>4 DEF PeopleHold
  <2>2. /\ \A c \in Clients : clients'[c].area \in Existing \cup {None}
        /\ \A c \in Clients : history'[c] = <<>> => clients'[c].area = None
    BY <1>3, <1>4 DEF PeopleHold
  <2>3. \A i \in DOMAIN pending' : pending'[i].to \in Existing /\ pending'[i].due \in 2 .. LastDay
    BY DEF PeopleHold
  <2> QED BY <1>1, <2>1, <2>2, <2>3 DEF PeopleHold
<1>6. \A S : OpenTo(S)' \subseteq OpenTo(S)
  BY DEF OpenTo
<1>7. OpenTo(Areas)' \subseteq {i \in DOMAIN pending : pending'[i].status = "open"}
  BY DEF OpenTo
<1>8. TextsFollowNodes'
  <2>1. \A c \in Clients : clients'[c].area # None => clients'[c].text = nodes[clients'[c].area].path
    BY <1>3, <1>4 DEF TextsFollowNodes, RecordsFollowTree
  <2>2. \A i \in OpenTo(Areas)' : pending'[i].text = nodes[pending'[i].to].path
    BY <1>6, <1>7 DEF TextsFollowNodes, RecordsFollowTree
  <2> QED BY <2>1, <2>2 DEF TextsFollowNodes, RecordsFollowTree, tree
<1>9. RetiredHoldsNothing'
  <2> SUFFICES ASSUME NEW b \in Existing, ~nodes[b].active
               PROVE  owner[b] = NoOwner /\ OpenTo({b})' = {} /\ \A c \in Clients : clients'[c].area # b
    BY <1>1 DEF RetiredHoldsNothing, tree
  <2>1. owner[b] = NoOwner /\ OpenTo({b}) = {} /\ \A c \in Clients : clients[c].area # b
    BY DEF RetiredHoldsNothing, RecordsFollowTree
  <2>2. \A c \in Clients : clients'[c].area # b
    BY <1>3, <1>4, <2>1
  <2> QED BY <1>6, <2>1, <2>2
<1>10. PendingIsCurrent'
  <2>1. \A i \in OpenTo(Areas)' : /\ i \in OpenTo(Areas) /\ pending[i].client \in Clients
                                  /\ to[pending[i].client] = None
    BY <1>6, <1>7, PendingFacts DEF OpenTo
  <2>2. \A i \in OpenTo(Areas)' : clients'[pending'[i].client].area = pending'[i].from
    BY <1>3, <1>7, <2>1 DEF PendingIsCurrent, RecordsFollowTree
  <2>3. \A i, j \in OpenTo(Areas)' : pending'[i].client = pending'[j].client => i = j
    BY <1>7, <2>1 DEF PendingIsCurrent, RecordsFollowTree
  <2> QED BY <2>2, <2>3 DEF PendingIsCurrent
<1>11. HistoryIsChain'
  <2>1. \A c \in Clients : ChainTo(history'[c], clients'[c].area)
    <3> TAKE c \in Clients
    <3>1. ChainTo(history[c], clients[c].area)
      BY DEF RecordsFollowTree, HistoryIsChain, ChainTo
    <3> QED BY <1>3, <1>4, <3>1
  <2> QED BY <2>1 DEF HistoryIsChain, ChainTo
<1> QED BY <1>1, <1>5, <1>8, <1>9, <1>10, <1>11 DEF RecordsFollowTree

LEMMA TransferNowKeeps ==
    ASSUME AreaAssumption, RecordsInv, NEW c \in Clients, NEW a \in Areas, TransferNow(c, a)
    PROVE  RecordsInv'
<1> USE DEF RecordsInv, RowsHold
<1>1. PICK to : to = [d \in Clients |-> IF d = c THEN a ELSE None]
  OBVIOUS
<1>2. None \notin Areas
  BY NodeFacts
<1>3. /\ a \in Existing /\ nodes[a].active /\ pending' = Cancelled(c)
      /\ clients' = [clients EXCEPT ![c] = [area |-> a, text |-> nodes[a].path]]
      /\ history' = [history EXCEPT ![c] = ArrivedAt(@, clients[c].area, a)]
      /\ UNCHANGED <<tree, owner, day>> /\ collected' = collected
  BY DEF TransferNow, Transferable, Arrived, ArrivedAt
<1>4. /\ pending' \in Seq(Transfer) /\ DOMAIN pending' = DOMAIN pending
      /\ \A i \in DOMAIN pending :
           /\ pending'[i].client = pending[i].client /\ pending'[i].from = pending[i].from
           /\ pending'[i].to = pending[i].to /\ pending'[i].due = pending[i].due
           /\ pending'[i].text = pending[i].text
           /\ pending'[i].status = "open" <=> pending[i].status = "open" /\ pending[i].client # c
  BY <1>3, CancelledFacts
<1>5. clients' = [d \in Clients |-> IF to[d] = None THEN clients[d]
                                    ELSE [area |-> to[d], text |-> nodes[to[d]].path]]
  BY <1>1, <1>2, <1>3 DEF PeopleHold
<1>6. history' = [d \in Clients |-> IF to[d] = None THEN history[d]
                                    ELSE ArrivedAt(history[d], clients[d].area, to[d])]
  BY <1>1, <1>2, <1>3 DEF PeopleHold
<1>7. CollectedWhereDue'
  BY <1>3, <1>4 DEF CollectedWhereDue, RecordsFollowTree, OpenTo
<1>8. \A d \in Clients : to[d] # None =>
        /\ to[d] \in Existing /\ nodes[to[d]].active
        /\ \A i \in DOMAIN pending : pending'[i].status = "open" => pending[i].client # d
  BY <1>1, <1>3, <1>4
<1>9. to \in [Clients -> Areas \cup {None}] /\ collected' \subseteq Clients
  BY <1>1, <1>3 DEF PeopleHold
<1> QED BY <1>3, <1>4, <1>5, <1>6, <1>7, <1>8, <1>9, MovedKeeps

\* A route is loaded, or a receipt of a client posted: then the clients collected are
\* those before, and clients who have no due transfer left.
LEMMA ApplyDueKeeps ==
    ASSUME AreaAssumption, RecordsInv, NEW cs \in SUBSET Clients, ApplyDue(cs),
           collected' \subseteq collected \cup cs
    PROVE  RecordsInv'
<1> USE DEF RecordsInv, RowsHold
<1> DEFINE At(c) == {i \in Due(cs) : pending[i].client = c}
           One(c) == CHOOSE i \in At(c) : TRUE
<1>1. PICK to : to = [c \in Clients |-> IF At(c) = {} THEN None ELSE pending[One(c)].to]
  OBVIOUS
<1>2. /\ \A i \in Due(cs) : /\ i \in DOMAIN pending /\ pending[i].status = "open"
                            /\ pending[i].due <= day /\ pending[i].client \in cs
                            /\ Applicable(i) /\ pending[i].to \in Existing
  BY DEF Due, ApplyDue, PeopleHold
<1>3. \A c \in Clients : At(c) # {} =>
        One(c) \in Due(cs) /\ pending[One(c)].client = c
  OBVIOUS
<1>4. None \notin Areas /\ Existing \subseteq Areas
  BY NodeFacts DEF Existing
<1>5. \A c \in Clients : to[c] = None <=> At(c) = {}
  BY <1>1, <1>2, <1>3, <1>4
<1>6. clients' = [c \in Clients |-> IF At(c) = {} THEN clients[c]
                     ELSE [area |-> pending[One(c)].to, text |-> nodes[pending[One(c)].to].path]]
  BY DEF ApplyDue
<1>7. history' = [c \in Clients |-> IF At(c) = {} THEN history[c]
                     ELSE ArrivedAt(history[c], pending[One(c)].from, pending[One(c)].to)]
  BY DEF ApplyDue, ArrivedAt
<1>8. pending' = [i \in DOMAIN pending |->
          IF i \in Due(cs) THEN [pending[i] EXCEPT !.status = "applied"] ELSE pending[i]]
  BY DEF ApplyDue
<1>9. UNCHANGED <<tree, owner, day>>
  BY DEF ApplyDue
<1> HIDE DEF One, At
<1>10. clients' = [c \in Clients |-> IF to[c] = None THEN clients[c]
                                     ELSE [area |-> to[c], text |-> nodes[to[c]].path]]
  BY <1>1, <1>5, <1>6
<1>11. history' = [c \in Clients |-> IF to[c] = None THEN history[c]
                                     ELSE ArrivedAt(history[c], clients[c].area, to[c])]
  <2>1. \A c \in Clients : to[c] # None => /\ pending[One(c)].from = clients[c].area
                                           /\ pending[One(c)].to = to[c]
    BY <1>1, <1>2, <1>3, <1>5 DEF Applicable
  <2> QED BY <1>5, <1>7, <2>1
<1>12. DOMAIN pending' = DOMAIN pending
  BY <1>8
<1>13. ASSUME NEW i \in DOMAIN pending
       PROVE  /\ pending'[i] \in Transfer
              /\ pending'[i].client = pending[i].client /\ pending'[i].from = pending[i].from
              /\ pending'[i].to = pending[i].to /\ pending'[i].due = pending[i].due
              /\ pending'[i].text = pending[i].text
              /\ pending'[i].status = "open" <=> pending[i].status = "open" /\ i \notin Due(cs)
  <2>1. pending[i] \in Transfer
    BY PendingFacts
  <2>2. CASE i \in Due(cs)
    <3>1. pending'[i] = [pending[i] EXCEPT !.status = "applied"]
      BY <1>8, <2>2
    <3> QED BY <2>1, <2>2, <3>1 DEF Transfer
  <2>3. CASE i \notin Due(cs)
    <3>1. pending'[i] = pending[i]
      BY <1>8, <2>3
    <3> QED BY <2>1, <2>3, <3>1
  <2> QED BY <2>2, <2>3
<1>14. pending' \in Seq(Transfer)
  <2>1. DOMAIN pending = 1 .. Len(pending) /\ Len(pending) \in Nat
    BY LenProperties DEF PeopleHold
  <2>2. pending' = [i \in 1 .. Len(pending) |-> pending'[i]]
    BY <1>8, <2>1
  <2> QED BY <1>13, <2>1, <2>2
<1>15. \A c \in Clients : to[c] # None =>
         /\ to[c] \in Existing /\ nodes[to[c]].active
         /\ \A i \in DOMAIN pending : pending'[i].status = "open" => pending[i].client # c
  <2> SUFFICES ASSUME NEW c \in Clients, to[c] # None
               PROVE  /\ to[c] \in Existing /\ nodes[to[c]].active
                      /\ \A i \in DOMAIN pending : pending'[i].status = "open" => pending[i].client # c
    OBVIOUS
  <2>1. /\ One(c) \in Due(cs) /\ pending[One(c)].client = c /\ to[c] = pending[One(c)].to
    BY <1>1, <1>3, <1>5
  <2>2. to[c] \in Existing /\ nodes[to[c]].active
    BY <1>2, <2>1 DEF Applicable
  <2>3. ASSUME NEW i \in DOMAIN pending, pending'[i].status = "open", pending[i].client = c
        PROVE  FALSE
    <3>1. i \notin Due(cs) /\ pending[i].status = "open"
      BY <1>13, <2>3
    <3>2. i \in OpenTo(Areas) /\ One(c) \in OpenTo(Areas)
      BY <1>2, <2>1, <3>1, PendingFacts
    <3>3. i = One(c)
      BY <2>1, <2>3, <3>2 DEF PendingIsCurrent, RecordsFollowTree
    <3> QED BY <2>1, <3>1, <3>3
  <2> QED BY <2>2, <2>3
<1>16. CollectedWhereDue'
  <2> SUFFICES ASSUME NEW i \in OpenTo(Areas)', pending'[i].due <= day
               PROVE  pending'[i].client \notin collected'
    BY <1>9 DEF CollectedWhereDue
  <2>1. /\ i \in DOMAIN pending /\ pending[i].status = "open" /\ i \notin Due(cs)
        /\ i \in OpenTo(Areas)
    BY <1>12, <1>13, PendingFacts DEF OpenTo
  <2>2. pending[i].client \notin cs
    BY <1>13, <2>1 DEF Due
  <2>3. pending[i].client \notin collected
    BY <1>13, <2>1 DEF CollectedWhereDue, RecordsFollowTree
  <2> QED BY <1>13, <2>1, <2>2, <2>3
<1>17. to \in [Clients -> Areas \cup {None}] /\ collected' \subseteq Clients
  BY <1>1, <1>4, <1>5, <1>15 DEF PeopleHold
<1> QED BY <1>9, <1>10, <1>11, <1>12, <1>13, <1>14, <1>15, <1>16, <1>17, MovedKeeps

LEMMA TransferLaterKeeps ==
    ASSUME AreaAssumption, RecordsInv, NEW c \in Clients, NEW a \in Areas,
           NEW due \in 1 .. LastDay, TransferLater(c, a, due)
    PROVE  RecordsInv'
<1> USE DEF RecordsInv, RowsHold
<1>1. PICK new : new = [client |-> c, from |-> clients[c].area, to |-> a,
                        text |-> nodes[a].path, due |-> due, status |-> "open"]
  OBVIOUS
<1>2. PICK p : p = Cancelled(c)
  OBVIOUS
<1>3. /\ a \in Existing /\ nodes[a].active /\ due > day
      /\ pending' = Append(p, new)
      /\ UNCHANGED <<tree, owner, clients, history, day, collected>>
  BY <1>1, <1>2 DEF TransferLater, Transferable
<1>4. /\ p \in Seq(Transfer) /\ DOMAIN p = DOMAIN pending /\ Len(p) = Len(pending)
      /\ \A i \in DOMAIN pending :
           /\ p[i].client = pending[i].client /\ p[i].from = pending[i].from
           /\ p[i].to = pending[i].to /\ p[i].due = pending[i].due
           /\ p[i].text = pending[i].text
           /\ p[i].status = "open" <=> pending[i].status = "open" /\ pending[i].client # c
  BY <1>2, CancelledFacts
<1>5. /\ new \in Transfer /\ new.client = c /\ new.from = clients[c].area /\ new.to = a
      /\ new.text = nodes[a].path /\ new.due = due /\ new.status = "open"
  <2>1. clients[c].area \in Areas \cup {None} /\ nodes[a].path \in Seq(Names)
    BY NodeFacts DEF PeopleHold, Place
  <2> QED BY <1>1, <2>1 DEF Transfer
<1>6. Len(p) \in Nat /\ DOMAIN p = 1 .. Len(p)
  BY <1>4, LenProperties
<1>7. /\ pending' \in Seq(Transfer) /\ Len(pending') = Len(p) + 1
      /\ \A i \in DOMAIN p : pending'[i] = p[i]
      /\ pending'[Len(p) + 1] = new
  BY <1>3, <1>4, <1>5, <1>6, AppendProperties
<1>8. \A i \in DOMAIN pending' : i \in DOMAIN pending \/ i = Len(p) + 1
  <2>1. DOMAIN pending' = 1 .. Len(p) + 1
    BY <1>7, LenProperties
  <2> QED BY <1>4, <1>6, <2>1
<1>9. NodesHold' /\ SelectsHold' /\ Existing' = Existing
  BY <1>3, TreeStays
<1>10. PeopleHold'
  <2>1. \A i \in DOMAIN pending' : pending'[i].to \in Existing /\ pending'[i].due \in 2 .. LastDay
    <3>1. \A i \in DOMAIN pending : pending'[i].to \in Existing /\ pending'[i].due \in 2 .. LastDay
      BY <1>4, <1>7 DEF PeopleHold
    <3>2. due \in 2 .. LastDay
      BY <1>3 DEF PeopleHold, AreaAssumption
    <3> QED BY <1>3, <1>5, <1>7, <1>8, <3>1, <3>2
  <2> QED BY <1>3, <1>7, <1>9, <2>1 DEF PeopleHold
<1>11. \A S : \A i \in OpenTo(S)' :
         \/ i = Len(p) + 1 /\ a \in S /\ pending'[i] = new
         \/ /\ i \in OpenTo(S) /\ i \in DOMAIN pending /\ pending[i].client # c
            /\ pending'[i].client = pending[i].client /\ pending'[i].from = pending[i].from
            /\ pending'[i].to = pending[i].to /\ pending'[i].due = pending[i].due
            /\ pending'[i].text = pending[i].text
  <2> TAKE S
  <2> TAKE i \in OpenTo(S)'
  <2>1. i \in DOMAIN pending' /\ pending'[i].status = "open" /\ pending'[i].to \in S
    BY DEF OpenTo
  <2>2. CASE i = Len(p) + 1
    BY <1>5, <1>7, <2>1, <2>2
  <2>3. CASE i \in DOMAIN pending
    BY <1>4, <1>7, <2>1, <2>3 DEF OpenTo
  <2> QED BY <1>8, <2>1, <2>2, <2>3
<1>12. TextsFollowNodes'
  <2>1. \A i \in OpenTo(Areas)' : pending'[i].text = nodes[pending'[i].to].path
    BY <1>5, <1>11 DEF TextsFollowNodes, RecordsFollowTree
  <2> QED BY <1>3, <2>1 DEF TextsFollowNodes, RecordsFollowTree, tree
<1>13. RetiredHoldsNothing'
  <2> SUFFICES ASSUME NEW b \in Existing, ~nodes[b].active
               PROVE  owner[b] = NoOwner /\ OpenTo({b})' = {} /\ \A d \in Clients : clients[d].area # b
    BY <1>3, <1>9 DEF RetiredHoldsNothing, tree
  <2>1. owner[b] = NoOwner /\ OpenTo({b}) = {} /\ \A d \in Clients : clients[d].area # b
    BY DEF RetiredHoldsNothing, RecordsFollowTree
  <2> QED BY <1>3, <1>11, <2>1
<1>14. PendingIsCurrent'
  <2>1. \A i \in OpenTo(Areas)' : clients[pending'[i].client].area = pending'[i].from
    BY <1>5, <1>11 DEF PendingIsCurrent, RecordsFollowTree
  <2>2. \A i, j \in OpenTo(Areas)' : pending'[i].client = pending'[j].client => i = j
    BY <1>5, <1>11 DEF PendingIsCurrent, RecordsFollowTree
  <2> QED BY <1>3, <2>1, <2>2 DEF PendingIsCurrent
<1>15. CollectedWhereDue'
  <2>1. \A i \in OpenTo(Areas)' : pending'[i].due <= day => pending'[i].client \notin collected
    <3>1. day \in Nat /\ due \in Nat
      BY DEF PeopleHold
    <3>2. ~(due <= day)
      BY <1>3, <3>1
    <3> QED BY <1>5, <1>11, <3>2 DEF CollectedWhereDue, RecordsFollowTree
  <2> QED BY <1>3, <2>1 DEF CollectedWhereDue
<1>16. HistoryIsChain'
  BY <1>3 DEF HistoryIsChain, RecordsFollowTree
<1> QED BY <1>9, <1>10, <1>12, <1>13, <1>14, <1>15, <1>16 DEF RecordsFollowTree

LEMMA NextDayKeeps ==
    ASSUME AreaAssumption, RecordsInv, NextDay
    PROVE  RecordsInv'
<1> USE DEF RecordsInv, RowsHold
<1>1. UNCHANGED <<tree, people>> /\ day < LastDay /\ day' = day + 1 /\ collected' = {}
  BY DEF NextDay
<1>2. NodesHold' /\ SelectsHold' /\ Existing' = Existing
  BY <1>1, TreeStays
<1>3. PeopleHold'
  <2>1. day' \in 1 .. LastDay
    BY <1>1 DEF PeopleHold, AreaAssumption
  <2> QED BY <1>1, <1>2, <2>1 DEF PeopleHold, people
<1>4. \A S : OpenTo(S)' = OpenTo(S)
  BY <1>1 DEF OpenTo, people
<1>5. RecordsFollowTree'
  BY <1>1, <1>2, <1>4 DEF RecordsFollowTree, TextsFollowNodes, RetiredHoldsNothing, PendingIsCurrent,
     CollectedWhereDue, HistoryIsChain, people, tree
<1> QED BY <1>2, <1>3, <1>5

LEMMA AreasInitHolds ==
    ASSUME AreaAssumption, AreasInit
    PROVE  RecordsInv
<1>1. /\ None \notin Areas /\ None \notin Names /\ Roots \subseteq Areas
      /\ \A r \in Roots : RootName[r] \in Names
      /\ \A r, q \in Roots : RootName[r] = RootName[q] => r = q
  BY DEF AreaAssumption, None
<1>2. \A a \in Roots : nodes[a] = [parent |-> None, name |-> RootName[a],
                                  path |-> <<RootName[a]>>, active |-> TRUE]
  BY <1>1 DEF AreasInit
<1>3. \A a \in Areas \ Roots : nodes[a] = NoNode
  BY DEF AreasInit
<1>4. \A a \in Roots : /\ nodes[a] \in Node /\ nodes[a].parent = None /\ nodes[a].active
                       /\ nodes[a].path = <<RootName[a]>> /\ nodes[a].name = RootName[a]
  <2> TAKE a \in Roots
  <2>1. PICK name \in Names : name = RootName[a]
    BY <1>1
  <2>2. nodes[a] = [parent |-> None, name |-> name, path |-> <<name>>, active |-> TRUE]
    BY <1>2, <2>1
  <2>3. <<name>> \in Seq(Names)
    OBVIOUS
  <2>4. nodes[a] \in Node
    BY <2>2, <2>3 DEF Node
  <2> QED BY <2>1, <2>2, <2>4
<1>5. NoNode \notin Node
  BY <1>1 DEF NoNode, Node
<1>6. Existing = Roots
  BY <1>1, <1>3, <1>4, <1>5 DEF Existing
<1>7. NodesHold
  <2>1. nodes \in [Areas -> Node \cup {NoNode}]
    <3>1. \A a \in Areas : nodes[a] \in Node \cup {NoNode}
      BY <1>3, <1>4
    <3>2. nodes = [a \in Areas |-> nodes[a]]
      BY DEF AreasInit
    <3> QED BY <3>1, <3>2
  <2>2. \A a \in Roots : /\ <<RootName[a]>> # <<>>
                         /\ <<RootName[a]>>[Len(<<RootName[a]>>)] = RootName[a]
    OBVIOUS
  <2>3. \A a, b \in Roots : <<RootName[a]>> = <<RootName[b]>> => a = b
    BY <1>1
  <2> QED BY <1>4, <1>6, <2>1, <2>2, <2>3 DEF NodesHold
<1>8. SelectsHold
  BY DEF AreasInit, SelectsHold, NoSelect
<1>9. PeopleHold
  <2>1. owner \in [Areas -> Owned \cup {NoOwner}] /\ \A a \in Areas : owner[a] = NoOwner
    BY DEF AreasInit
  <2>2. clients \in [Clients -> Place] /\ \A c \in Clients : clients[c].area = None
    BY DEF AreasInit, Place
  <2>3. pending \in Seq(Transfer) /\ DOMAIN pending = {}
    BY DEF AreasInit
  <2>4. history \in [Clients -> Seq(Trip)]
    BY DEF AreasInit
  <2>5. day \in 1 .. LastDay /\ collected \subseteq Clients
    BY DEF AreasInit, AreaAssumption
  <2> QED BY <2>1, <2>2, <2>3, <2>4, <2>5 DEF PeopleHold
<1>10. \A S : OpenTo(S) = {}
  BY DEF OpenTo, AreasInit
<1>11. TextsFollowNodes
  BY <1>10 DEF TextsFollowNodes, AreasInit
<1>12. RetiredHoldsNothing
  BY <1>4, <1>6 DEF RetiredHoldsNothing
<1>13. PendingIsCurrent /\ CollectedWhereDue
  BY <1>10 DEF PendingIsCurrent, CollectedWhereDue
<1>14. HistoryIsChain
  BY DEF HistoryIsChain, AreasInit
<1> QED BY <1>7, <1>8, <1>9, <1>11, <1>12, <1>13, <1>14 DEF RecordsInv, RowsHold, RecordsFollowTree

LEMMA AreasNextKeeps ==
    ASSUME AreaAssumption, RecordsInv, [AreasNext]_areaVars
    PROVE  RecordsInv'
<1>1. ASSUME NEW a \in Areas, NEW p \in Areas \cup {None}, NEW name \in Names, Create(a, p, name)
      PROVE  RecordsInv'
  BY <1>1, CreateKeeps
<1>2. ASSUME NEW s \in Sessions, Abandon(s) \/ \E a \in Areas : Select(s, a)
      PROVE  RecordsInv'
  BY <1>2, WaitKeeps
<1>3. ASSUME NEW s \in Sessions, NEW name \in Names, Rename(s, name)
      PROVE  RecordsInv'
  BY <1>3, RenameKeeps
<1>4. ASSUME NEW s \in Sessions, NEW p \in Areas \cup {None}, Move(s, p)
      PROVE  RecordsInv'
  BY <1>4, MoveKeeps
<1>5. ASSUME NEW s \in Sessions, Retire(s)
      PROVE  RecordsInv'
  BY <1>5, RetireKeeps
<1>6. ASSUME NEW a \in Areas, Reactivate(a)
      PROVE  RecordsInv'
  BY <1>6, ReactivateKeeps
<1>7. ASSUME NEW a \in Areas, RemoveCollector(a) \/ \E k \in Collectors : AssignCollector(a, k)
      PROVE  RecordsInv'
  BY <1>7, AssignKeeps
<1>8. ASSUME NEW c \in Clients, NEW a \in Areas, TransferNow(c, a)
      PROVE  RecordsInv'
  BY <1>8, TransferNowKeeps
<1>9. ASSUME NEW c \in Clients, NEW a \in Areas, NEW due \in 1 .. LastDay, TransferLater(c, a, due)
      PROVE  RecordsInv'
  BY <1>9, TransferLaterKeeps
<1>10. CASE LoadRoute
  <2>1. ApplyDue(Clients) /\ collected' = collected
    BY <1>10 DEF LoadRoute
  <2> QED BY <2>1, ApplyDueKeeps
<1>11. ASSUME NEW c \in Clients, Collect(c)
       PROVE  RecordsInv'
  <2>1. ApplyDue({c}) /\ collected' = collected \cup {c}
    BY <1>11 DEF Collect
  <2> QED BY <2>1, ApplyDueKeeps
<1>12. CASE NextDay
  BY <1>12, NextDayKeeps
<1>13. CASE UNCHANGED areaVars
  <2>1. /\ nodes' = nodes /\ open' = open /\ owner' = owner /\ clients' = clients
        /\ pending' = pending /\ history' = history /\ day' = day /\ collected' = collected
    BY <1>13 DEF areaVars, tree, people
  <2>2. Existing' = Existing /\ \A S : OpenTo(S)' = OpenTo(S)
    BY <2>1 DEF Existing, OpenTo
  <2>3. NodesHold' /\ SelectsHold' /\ PeopleHold'
    BY <2>1, <2>2 DEF RecordsInv, RowsHold, NodesHold, SelectsHold, PeopleHold
  <2>4. RecordsFollowTree'
    BY <2>1, <2>2 DEF RecordsInv, RecordsFollowTree, TextsFollowNodes, RetiredHoldsNothing,
       PendingIsCurrent, CollectedWhereDue, HistoryIsChain
  <2> QED BY <2>3, <2>4 DEF RecordsInv, RowsHold
<1> QED BY <1>1, <1>2, <1>3, <1>4, <1>5, <1>6, <1>7, <1>8, <1>9, <1>10, <1>11, <1>12, <1>13
        DEF AreasNext, TreeStep, PeopleStep

LEMMA AreasTyped ==
    ASSUME AreaAssumption, RecordsInv
    PROVE  AreasTypeOK
<1>1. \A a \in Existing : /\ nodes[a].parent \in Areas \cup {None}
                          /\ nodes[a].name = nodes[a].path[Len(nodes[a].path)]
  BY DEF RecordsInv, RowsHold, NodesHold, Existing
<1>2. \A a \in Areas : owner[a].by \in Collectors \cup {None}
  BY DEF RecordsInv, RowsHold, PeopleHold, Owned, NoOwner
<1> QED BY <1>1, <1>2 DEF AreasTypeOK, RecordsInv, RowsHold, SelectsHold, PeopleHold

\* Whatever sessions rename, move and retire, also at once, clients, collectors and open
\* transfers show the path their area has, a retired area holds nobody, a transfer starts
\* where its client is and takes effect before the client is collected, and the history of
\* a client is a chain (_sync_current_area_paths, _retire_preflight, transfer_client,
\* apply_due_client_area_transfers), for every set of areas, clients and sessions.
THEOREM RecordsStayWithTheTree ==
    ASSUME AreaAssumption
    PROVE  AreasSpec => [](AreasTypeOK /\ RecordsFollowTree)
<1>1. AreasInit => RecordsInv
  BY AreasInitHolds
<1>2. RecordsInv /\ [AreasNext]_areaVars => RecordsInv'
  BY AreasNextKeeps
<1>3. RecordsInv => AreasTypeOK /\ RecordsFollowTree
  BY AreasTyped DEF RecordsInv
<1> QED BY <1>1, <1>2, <1>3, PTL DEF AreasSpec

-----------------------------------------------------------------------------
(* One change after another.                                               *)

\* Every path is the way down to its area, and what is above an active area is active.
PathsHold ==
    \A a \in Existing :
        /\ nodes[a].path = PathUnder(nodes[a].parent, nodes[a].name)
        /\ nodes[a].active /\ nodes[a].parent # None => nodes[nodes[a].parent].active

\* What a session waits for is still the subtree of its area.
SelectsCurrent == \A s \in Sessions : open[s] # NoSelect => open[s].ids = Below(open[s].area)

SerialInv == RowsHold /\ PathsHold /\ SelectsCurrent

LEMMA PathLength ==
    ASSUME AreaAssumption, NodesHold, PathsHold, NEW a \in Existing, nodes[a].parent # None
    PROVE  /\ nodes[a].parent \in Existing
           /\ nodes[a].path = Append(nodes[nodes[a].parent].path, nodes[a].name)
           /\ Len(nodes[nodes[a].parent].path) \in Nat
           /\ Len(nodes[a].path) = Len(nodes[nodes[a].parent].path) + 1
<1>1. nodes[a].parent \in Existing /\ nodes[a].name \in Names
  BY NodeFacts DEF NodesHold, Node
<1>2. nodes[nodes[a].parent].path \in Seq(Names)
  BY <1>1, NodeFacts
<1>3. nodes[a].path = Append(nodes[nodes[a].parent].path, nodes[a].name)
  BY DEF PathsHold, PathUnder
<1> QED BY <1>1, <1>2, <1>3, AppendProperties, LenProperties

\* What is below an area: itself, with every area the ones under it, and nothing else.
Subtree(a, ids) ==
    /\ a \in ids /\ ids \subseteq Existing
    /\ \A b \in Existing : nodes[b].parent \in ids => b \in ids
    /\ \A b \in ids \ {a} : nodes[b].parent \in ids
WayDown(q, p, name) == q = PathUnder(p, name)

LEMMA BelowFacts ==
    ASSUME AreaAssumption, NodesHold, NEW a \in Existing
    PROVE  Subtree(a, Below(a))
<1>1. a \in Below(a) /\ Below(a) \subseteq Existing
  BY DEF Below
<1>2. ASSUME NEW b \in Existing, nodes[b].parent \in Below(a)
      PROVE  b \in Below(a)
  BY <1>2 DEF Below, WithChildren
<1>3. ASSUME NEW b \in Below(a) \ {a}, nodes[b].parent \notin Below(a)
      PROVE  FALSE
  <2>1. PICK S : S = Below(a) \ {b}
    OBVIOUS
  <2>2. S \in SUBSET Existing /\ a \in S
    BY <1>1, <1>3, <2>1
  <2>3. WithChildren(S)
    BY <1>2, <1>3, <2>1 DEF WithChildren
  <2>4. b \in S
    BY <2>2, <2>3 DEF Below
  <2> QED BY <2>1, <2>4
<1> QED BY <1>1, <1>2, <1>3 DEF Subtree

LEMMA NothingLoops ==
    ASSUME AreaAssumption, NodesHold, PathsHold, NEW a \in Existing
    PROVE  ~Looped(a)
<1> SUFFICES ASSUME nodes[a].parent \in Below(a) PROVE FALSE
  BY DEF Looped
<1>1. nodes[a].parent \in Existing /\ nodes[a].parent # None
  BY NodeFacts DEF Below, Existing
<1>2. PICK S : S = {b \in Existing : Len(nodes[b].path) >= Len(nodes[a].path)}
  OBVIOUS
<1>3. \A b \in Existing : Len(nodes[b].path) \in Nat
  <2> TAKE b \in Existing
  <2>1. nodes[b].path \in Seq(Names)
    BY NodeFacts
  <2> QED BY <2>1, LenProperties
<1>4. WithChildren(S)
  <2> SUFFICES ASSUME NEW b \in Existing, nodes[b].parent \in S
               PROVE  b \in S
    BY DEF WithChildren
  <2>1. nodes[b].parent \in Existing /\ nodes[b].parent # None
    BY <1>2, NodeFacts DEF Existing
  <2>2. Len(nodes[b].path) = Len(nodes[nodes[b].parent].path) + 1
    BY <2>1, PathLength
  <2> QED BY <1>2, <1>3, <2>1, <2>2
<1>5. S \in SUBSET Existing /\ a \in S
  BY <1>2, <1>3
<1>6. nodes[a].parent \in S
  BY <1>4, <1>5 DEF Below
<1>7. Len(nodes[a].path) = Len(nodes[nodes[a].parent].path) + 1
  BY <1>1, PathLength
<1> QED BY <1>1, <1>2, <1>3, <1>6, <1>7

\* A subtree moves as a whole.
LEMMA RepathKeepsPaths ==
    ASSUME AreaAssumption, NodesHold, PathsHold, NEW ids \in SUBSET Existing, NEW a \in ids,
           Subtree(a, ids), NEW parent \in Existing \cup {None}, parent \notin ids,
           NEW name \in Names, parent # None /\ nodes[a].active => nodes[parent].active,
           NEW prefix \in Seq(Names), WayDown(prefix, parent, name), prefix # <<>>,
           name = prefix[Len(prefix)], Repath(a, ids, prefix, parent, name)
    PROVE  PathsHold'
<1>4. /\ \A b \in Existing : nodes[b].parent \in ids => b \in ids
      /\ \A b \in ids \ {a} : nodes[b].parent \in ids
  BY DEF Subtree
<1>6. /\ NodesHold' /\ Existing' = Existing
      /\ \A b \in Areas : nodes'[b].active = nodes[b].active
      /\ \A b \in ids : nodes'[b].path = NewPath(a, b, prefix)
      /\ \A b \in Areas \ ids : nodes'[b] = nodes[b]
      /\ \A b \in ids \ {a} : nodes'[b].parent = nodes[b].parent /\ nodes'[b].name = nodes[b].name
      /\ nodes'[a].parent = parent /\ nodes'[a].name = name /\ nodes'[a].path = prefix
  <2>1. /\ NodesHold' /\ Existing' = Existing
        /\ \A b \in Areas : nodes'[b].active = nodes[b].active
        /\ \A b \in Areas \ ids : nodes'[b] = nodes[b]
        /\ Repathed(a, ids, prefix, parent, name)
    BY RepathRows
  <2> QED BY <2>1 DEF Repathed
<1>7. \A b \in ids : IsPrefix(nodes[a].path, nodes[b].path)
  BY DEF Repath, Consistent
<1>8. None \notin Existing /\ Existing \subseteq Areas
  BY NodeFacts DEF Existing
<1>9. ASSUME NEW b \in Existing
      PROVE  (nodes[b].path = PathUnder(nodes[b].parent, nodes[b].name))'
  <2>1. CASE b = a
    <3>1. parent # None => nodes'[parent] = nodes[parent]
      BY <1>6, <1>8
    <3> QED BY <1>6, <2>1, <3>1 DEF PathUnder, WayDown
  <2>2. CASE b \in ids \ {a}
    <3> DEFINE p == nodes[b].parent
    <3>1. p \in ids /\ p # None /\ p \in Existing
      BY <1>4, <1>8, <2>2
    <3>2. nodes[b].path = Append(nodes[p].path, nodes[b].name)
      BY <3>1, PathLength
    <3>3. /\ nodes[a].path \in Seq(Names) /\ nodes[b].path \in Seq(Names)
          /\ nodes[p].path \in Seq(Names) /\ nodes[b].name \in Names
      <4>1. nodes[b] \in Node
        BY NodeFacts
      <4> QED BY <3>1, <4>1, NodeFacts DEF Node
    <3>4. /\ IsPrefix(nodes[a].path, nodes[p].path) /\ IsPrefix(nodes[a].path, nodes[b].path)
      BY <1>7, <2>2, <3>1
    <3>5. Replaced(nodes[a].path, nodes[b].path, prefix)
            = Append(Replaced(nodes[a].path, nodes[p].path, prefix), nodes[b].name)
      <4>1. PICK q \in Seq(Names), t \in Seq(Names), u \in Seq(Names) :
               q = nodes[p].path /\ t = nodes[b].path /\ u = nodes[a].path
        BY <3>3
      <4>2. IsPrefix(u, q) /\ IsPrefix(u, t)
        BY <3>4, <4>1
      <4>3. PICK n \in Names : n = nodes[b].name
        BY <3>3
      <4>4. Grown(q, t, n)
        BY <3>2, <4>1, <4>3 DEF Grown
      <4>5. Grown(Replaced(u, q, prefix), Replaced(u, t, prefix), n)
        BY <4>2, <4>4, ReplacedGrows
      <4>6. Replaced(u, t, prefix) = Append(Replaced(u, q, prefix), nodes[b].name)
        BY <4>3, <4>5 DEF Grown
      <4> QED BY <4>1, <4>6
    <3>6. nodes'[b].path = Append(nodes'[p].path, nodes[b].name)
      BY <1>6, <2>2, <3>1, <3>5 DEF NewPath, Replaced
    <3>7. nodes'[b].parent = p /\ nodes'[b].name = nodes[b].name
      BY <1>6, <2>2
    <3> HIDE DEF p
    <3> QED BY <3>1, <3>6, <3>7 DEF PathUnder
  <2>3. CASE b \notin ids
    <3>1. nodes'[b] = nodes[b] /\ nodes[b].parent \notin ids
      BY <1>4, <1>6, <1>8, <2>3
    <3>2. nodes[b].parent # None => nodes'[nodes[b].parent] = nodes[nodes[b].parent]
      BY <1>6, <1>8, <3>1 DEF NodesHold
    <3> QED BY <3>1, <3>2 DEF PathsHold, PathUnder
  <2> QED BY <2>1, <2>2, <2>3
<1>10. ASSUME NEW b \in Existing, nodes'[b].active, nodes'[b].parent # None
       PROVE  nodes'[nodes'[b].parent].active
  <2>1. nodes[b].active
    BY <1>6, <1>8, <1>10
  <2>2. CASE b = a
    BY <1>6, <1>8, <1>10, <2>1, <2>2
  <2>3. CASE b # a
    <3>1. nodes'[b].parent = nodes[b].parent
      BY <1>6, <1>8, <2>3
    <3>2. nodes[b].parent \in Areas /\ nodes[nodes[b].parent].active
      BY <1>8, <1>10, <2>1, <3>1 DEF PathsHold, NodesHold
    <3> QED BY <1>6, <3>1, <3>2
  <2> QED BY <2>2, <2>3
<1> QED BY <1>6, <1>9, <1>10 DEF PathsHold

LEMMA CreateKeepsPaths ==
    ASSUME AreaAssumption, RowsHold, PathsHold, NEW a \in Areas, NEW p \in Areas \cup {None},
           NEW name \in Names, Create(a, p, name)
    PROVE  PathsHold' /\ Existing' = Existing \cup {a} /\ \A b \in Existing : nodes'[b] = nodes[b]
<1> USE DEF RowsHold
<1>1. PICK q : q = PathUnder(p, name)
  OBVIOUS
<1>2. PICK new : new = [parent |-> p, name |-> name, path |-> q, active |-> TRUE]
  OBVIOUS
<1>3. /\ a \notin Existing /\ (p # None => p \in Existing /\ nodes[p].active)
      /\ nodes' = [nodes EXCEPT ![a] = new]
  BY <1>1, <1>2 DEF Create
<1>4. nodes'[a] = new /\ \A b \in Existing : nodes'[b] = nodes[b] /\ b # a
  BY <1>3 DEF NodesHold, Existing
<1>5. Existing' = Existing \cup {a}
  <2>1. new.name = name /\ NoNode.name = None
    BY <1>2 DEF NoNode
  <2>2. new # NoNode
    BY <2>1, NodeFacts
  <2> QED BY <1>3, <1>4, <2>2 DEF Existing, NodesHold
<1>6. new.parent = p /\ new.name = name /\ new.path = q
  BY <1>2
<1>7. (nodes[a].path = PathUnder(nodes[a].parent, nodes[a].name))'
  BY <1>1, <1>3, <1>4, <1>6 DEF PathUnder
<1>8. None \notin Existing
  BY NodeFacts DEF Existing
<1>9. \A b \in Existing : nodes[b].parent = None \/ nodes[b].parent \in Existing
  BY DEF NodesHold
<1>10. ASSUME NEW b \in Existing
       PROVE  /\ (nodes[b].path = PathUnder(nodes[b].parent, nodes[b].name))'
              /\ nodes'[b].active /\ nodes'[b].parent # None => nodes'[nodes'[b].parent].active
  BY <1>4, <1>9 DEF PathsHold, PathUnder
<1>11. nodes'[a].parent # None => nodes'[nodes'[a].parent].active
  BY <1>3, <1>4, <1>6
<1> QED BY <1>4, <1>5, <1>7, <1>10, <1>11 DEF PathsHold

LEMMA RetireKeepsPaths ==
    ASSUME AreaAssumption, RecordsInv, SerialInv, NEW s \in Sessions, Retire(s)
    PROVE  PathsHold'
<1> USE DEF RecordsInv, RowsHold, SerialInv
<1>1. PICK a : a = open[s].area
  OBVIOUS
<1>2. /\ a # None /\ UNCHANGED <<people, day, collected>>
      /\ \A c \in Clients : clients[c].area \notin open[s].ids
      /\ \A b \in open[s].ids : owner[b] = NoOwner /\ (b # a => ~nodes[b].active)
      /\ OpenTo(open[s].ids) = {}
      /\ nodes' = [nodes EXCEPT ![a].active = FALSE]
  BY <1>1 DEF Retire
<1>3. a \in Existing /\ a \in open[s].ids /\ open[s].ids = Below(a)
  BY <1>1, <1>2 DEF SelectsHold, SelectsCurrent, NoSelect
<1>4. owner[a] = NoOwner /\ OpenTo({a}) = {} /\ \A c \in Clients : clients[c].area # a
  BY <1>2, <1>3 DEF OpenTo
<1>5. /\ Existing' = Existing
      /\ \A b \in Areas : nodes'[b].path = nodes[b].path
                          /\ nodes'[b].parent = nodes[b].parent /\ nodes'[b].name = nodes[b].name
      /\ \A b \in Areas \ {a} : nodes'[b] = nodes[b]
  BY <1>2, <1>3, <1>4, ActiveKeeps
<1>6. Existing \subseteq Areas /\ nodes \in [Areas -> Node \cup {NoNode}]
  BY DEF Existing, NodesHold
<1>7. ~nodes'[a].active
  <2>1. nodes[a] \in Node
    BY <1>3, NodeFacts
  <2>2. nodes'[a] = [nodes[a] EXCEPT !.active = FALSE]
    BY <1>2, <1>3, <1>6
  <2> QED BY <2>1, <2>2 DEF Node
<1>8. ASSUME NEW b \in Existing, nodes'[b].active, nodes'[b].parent # None
      PROVE  nodes'[nodes'[b].parent].active
  <2>1. b # a /\ nodes'[b] = nodes[b] /\ nodes[b].parent \in Existing /\ nodes[nodes[b].parent].active
    BY <1>5, <1>6, <1>7, <1>8 DEF NodesHold, PathsHold
  <2>2. nodes[b].parent # a
    <3> SUFFICES ASSUME nodes[b].parent = a PROVE FALSE
      OBVIOUS
    <3>1. b \in Below(a)
      BY <1>3, BelowFacts DEF Subtree
    <3>2. ~nodes[b].active
      BY <1>2, <1>3, <2>1, <3>1
    <3> QED BY <1>8, <2>1, <3>2
  <2> QED BY <1>5, <1>6, <2>1, <2>2
<1>9. ASSUME NEW b \in Existing
      PROVE  (nodes[b].path = PathUnder(nodes[b].parent, nodes[b].name))'
  <2>1. nodes[b].parent # None => nodes[b].parent \in Areas
    BY <1>6 DEF NodesHold
  <2> QED BY <1>5, <1>6, <2>1 DEF PathsHold, PathUnder
<1> QED BY <1>5, <1>8, <1>9 DEF PathsHold

LEMMA ReactivateKeepsPaths ==
    ASSUME AreaAssumption, RecordsInv, PathsHold, NEW a \in Areas, Reactivate(a)
    PROVE  PathsHold'
<1> USE DEF RecordsInv, RowsHold
<1>1. /\ a \in Existing /\ nodes' = [nodes EXCEPT ![a].active = TRUE]
      /\ UNCHANGED <<people, day, collected>>
      /\ nodes[a].parent # None => nodes[nodes[a].parent].active
  BY DEF Reactivate
<1>2. /\ Existing' = Existing
      /\ \A b \in Areas : nodes'[b].path = nodes[b].path
                          /\ nodes'[b].parent = nodes[b].parent /\ nodes'[b].name = nodes[b].name
      /\ \A b \in Areas \ {a} : nodes'[b] = nodes[b]
  BY <1>1, ActiveKeeps
<1>3. Existing \subseteq Areas /\ nodes \in [Areas -> Node \cup {NoNode}]
  BY DEF Existing, NodesHold
<1>4. nodes'[a].active
  <2>1. nodes[a] \in Node
    BY <1>1, NodeFacts
  <2>2. nodes'[a] = [nodes[a] EXCEPT !.active = TRUE]
    BY <1>1, <1>3
  <2> QED BY <2>1, <2>2 DEF Node
<1>5. ASSUME NEW b \in Existing, nodes'[b].active, nodes'[b].parent # None
      PROVE  nodes'[nodes'[b].parent].active
  <2>1. nodes'[b].parent = nodes[b].parent /\ nodes[b].parent \in Areas
    BY <1>2, <1>3, <1>5 DEF NodesHold
  <2>2. nodes[nodes[b].parent].active
    BY <1>1, <1>2, <1>3, <1>5, <2>1 DEF PathsHold
  <2> QED BY <1>2, <1>4, <2>1, <2>2
<1>6. ASSUME NEW b \in Existing
      PROVE  (nodes[b].path = PathUnder(nodes[b].parent, nodes[b].name))'
  <2>1. nodes[b].parent # None => nodes[b].parent \in Areas
    BY <1>3 DEF NodesHold
  <2> QED BY <1>2, <1>3, <2>1 DEF PathsHold, PathUnder
<1> QED BY <1>2, <1>5, <1>6 DEF PathsHold

\* A step that leaves the rows leaves what a session waits for; one that changes them
\* meets no session that waits.
LEMMA SelectsStayCurrent ==
    ASSUME SerialNext \/ UNCHANGED areaVars, SelectsCurrent, SelectsHold
    PROVE  SelectsCurrent'
<1>1. CASE nodes' = nodes
  <2>1. \A x : Below(x)' = Below(x)
    BY <1>1 DEF Below, WithChildren, Existing
  <2>2. ASSUME NEW s \in Sessions, open'[s] # NoSelect
        PROVE  open'[s] = open[s] \/ open'[s].ids = Below(open'[s].area)
    <3>1. CASE UNCHANGED areaVars
      BY <3>1 DEF areaVars, tree
    <3>2. CASE UNCHANGED open
      BY <3>2
    <3>3. ASSUME NEW t \in Sessions, Commit(t)
          PROVE  open'[s] = open[s]
      BY <2>2, <3>3 DEF Commit, SelectsHold
    <3>4. ASSUME NEW t \in Sessions, NEW a \in Areas, Select(t, a)
          PROVE  open'[s] = open[s] \/ open'[s].ids = Below(open'[s].area)
      BY <3>4 DEF Select, SelectsHold
    <3>5. CASE TreeStep
      BY <3>2, <3>3, <3>4, <3>5 DEF TreeStep, Create, Rename, Move, Retire, Abandon, Reactivate
    <3>6. CASE PeopleStep
      BY <3>2, <3>6 DEF PeopleStep, RemoveCollector, AssignCollector, TransferNow, TransferLater,
         LoadRoute, Collect, ApplyDue, NextDay, tree
    <3> QED BY <3>1, <3>5, <3>6 DEF SerialNext, AreasNext
  <2> QED BY <2>1, <2>2 DEF SelectsCurrent
<1>2. CASE nodes' # nodes
  <2>1. \A s \in Sessions : open[s] = NoSelect \/ open'[s] = NoSelect
    BY <1>2 DEF SerialNext, areaVars, tree
  <2>2. ASSUME NEW s \in Sessions, open'[s] # NoSelect
        PROVE  open'[s] = open[s]
    <3>1. CASE UNCHANGED open
      BY <3>1
    <3>2. ASSUME NEW t \in Sessions, Commit(t)
          PROVE  open'[s] = open[s]
      BY <2>2, <3>2 DEF Commit, SelectsHold
    <3>3. CASE TreeStep
      BY <1>2, <3>1, <3>2, <3>3
         DEF TreeStep, Create, Select, Rename, Move, Retire, Abandon, Reactivate
    <3>4. CASE PeopleStep
      BY <1>2, <3>4 DEF PeopleStep, RemoveCollector, AssignCollector, TransferNow, TransferLater,
         LoadRoute, Collect, ApplyDue, NextDay, tree
    <3> QED BY <1>2, <3>3, <3>4 DEF SerialNext, AreasNext, areaVars, tree
  <2> QED BY <2>1, <2>2 DEF SelectsCurrent
<1> QED BY <1>1, <1>2

LEMMA RenameKeepsPaths ==
    ASSUME AreaAssumption, RowsHold, PathsHold, SelectsCurrent,
           NEW s \in Sessions, NEW name \in Names, Rename(s, name)
    PROVE  PathsHold'
<1> USE DEF RowsHold
<1>1. PICK a, ids, parent, prefix :
         /\ a = open[s].area /\ ids = open[s].ids /\ parent = nodes[a].parent
         /\ prefix = PathUnder(parent, name)
  OBVIOUS
<1>2. a # None /\ Repath(a, ids, prefix, parent, name) /\ nodes[a].active
  BY <1>1 DEF Rename
<1>3. ids \in SUBSET Existing /\ a \in ids /\ a \in Existing /\ ids = Below(a)
  BY <1>1, <1>2 DEF SelectsHold, SelectsCurrent, NoSelect
<1>4. parent \in Existing \cup {None} /\ parent \notin ids
  BY <1>1, <1>3, NothingLoops DEF NodesHold, Looped
<1>5. prefix \in Seq(Names) /\ prefix # <<>> /\ name = prefix[Len(prefix)]
  BY <1>1, <1>4, PathUnderFacts
<1>6. Subtree(a, ids) /\ WayDown(prefix, parent, name)
  BY <1>1, <1>3, BelowFacts DEF WayDown
<1>7. parent # None /\ nodes[a].active => nodes[parent].active
  BY <1>1, <1>3 DEF PathsHold
<1> QED BY <1>2, <1>3, <1>4, <1>5, <1>6, <1>7, RepathKeepsPaths

LEMMA MoveKeepsPaths ==
    ASSUME AreaAssumption, RowsHold, PathsHold, SelectsCurrent,
           NEW s \in Sessions, NEW p \in Areas \cup {None}, Move(s, p)
    PROVE  PathsHold'
<1> USE DEF RowsHold
<1>1. PICK a, ids, name, prefix :
         /\ a = open[s].area /\ ids = open[s].ids /\ name = nodes[a].name
         /\ prefix = PathUnder(p, name)
  OBVIOUS
<1>2. /\ a # None /\ Repath(a, ids, prefix, p, name) /\ p \notin ids
      /\ p \in Existing \cup {None} /\ (p # None => nodes[p].active)
  BY <1>1 DEF Move
<1>3. ids \in SUBSET Existing /\ a \in ids /\ a \in Existing /\ ids = Below(a)
  BY <1>1, <1>2 DEF SelectsHold, SelectsCurrent, NoSelect
<1>4. name \in Names
  <2>1. nodes[a] \in Node
    BY <1>3, NodeFacts
  <2> QED BY <1>1, <2>1 DEF Node
<1>5. prefix \in Seq(Names) /\ prefix # <<>> /\ name = prefix[Len(prefix)]
  BY <1>1, <1>2, <1>4, PathUnderFacts
<1>6. Subtree(a, ids) /\ WayDown(prefix, p, name)
  BY <1>1, <1>3, BelowFacts DEF WayDown
<1> QED BY <1>2, <1>3, <1>4, <1>5, <1>6, RepathKeepsPaths

LEMMA PathsStay ==
    ASSUME NodesHold, PathsHold, UNCHANGED nodes
    PROVE  PathsHold'
  BY DEF PathsHold, PathUnder, Existing

LEMMA SerialKeeps ==
    ASSUME AreaAssumption, RecordsInv, SerialInv, [SerialNext]_areaVars
    PROVE  SerialInv'
<1> USE DEF SerialInv
<1>1. RowsHold'
  <2>1. RecordsInv'
    BY AreasNextKeeps DEF SerialNext
  <2> QED BY <2>1 DEF RecordsInv
<1>2. SelectsCurrent'
  BY SelectsStayCurrent DEF RowsHold
<1>3. CASE UNCHANGED nodes
  BY <1>1, <1>2, <1>3, PathsStay DEF RowsHold
<1>4. ASSUME NEW a \in Areas, NEW p \in Areas \cup {None}, NEW name \in Names, Create(a, p, name)
      PROVE  PathsHold'
  BY <1>4, CreateKeepsPaths
<1>5. ASSUME NEW s \in Sessions, NEW name \in Names, Rename(s, name)
      PROVE  PathsHold'
  BY <1>5, RenameKeepsPaths
<1>6. ASSUME NEW s \in Sessions, NEW p \in Areas \cup {None}, Move(s, p)
      PROVE  PathsHold'
  BY <1>6, MoveKeepsPaths
<1>7. ASSUME NEW s \in Sessions, Retire(s)
      PROVE  PathsHold'
  BY <1>7, RetireKeepsPaths
<1>8. ASSUME NEW a \in Areas, Reactivate(a)
      PROVE  PathsHold'
  BY <1>8, ReactivateKeepsPaths
<1>9. CASE TreeStep
  <2>1. ASSUME NEW s \in Sessions, Abandon(s) \/ \E a \in Areas : Select(s, a)
        PROVE  UNCHANGED nodes
    BY <2>1 DEF Abandon, Select
  <2> QED BY <1>1, <1>2, <1>3, <1>4, <1>5, <1>6, <1>7, <1>8, <1>9, <2>1 DEF TreeStep
<1>10. CASE PeopleStep
  <2>1. UNCHANGED nodes
    BY <1>10 DEF PeopleStep, RemoveCollector, AssignCollector, TransferNow, TransferLater,
       LoadRoute, Collect, ApplyDue, NextDay, tree
  <2> QED BY <1>3, <2>1
<1>11. CASE UNCHANGED areaVars
  BY <1>3, <1>11 DEF areaVars, tree
<1> QED BY <1>9, <1>10, <1>11 DEF SerialNext, AreasNext

LEMMA SerialInitHolds ==
    ASSUME AreaAssumption, AreasInit
    PROVE  SerialInv
<1>1. RowsHold
  BY AreasInitHolds DEF RecordsInv
<1>2. SelectsCurrent
  BY DEF SelectsCurrent, AreasInit
<1>3. None \notin Areas /\ None \notin Names /\ Roots \subseteq Areas /\ \A r \in Roots : RootName[r] \in Names
  BY DEF AreaAssumption, None
<1>4. ASSUME NEW a \in Existing
      PROVE  /\ nodes[a].parent = None /\ nodes[a].name = RootName[a] /\ nodes[a].path = <<RootName[a]>>
  <2>1. a \in Roots
    BY DEF Existing, AreasInit
  <2> QED BY <1>3, <2>1 DEF AreasInit
<1>5. PathsHold
  BY <1>4 DEF PathsHold, PathUnder
<1> QED BY <1>1, <1>2, <1>5 DEF SerialInv

\* As long as no structural change commits between the select of a session and its own
\* commit, the areas are a forest, every path is the way down to its area, and what is
\* above an active area is active (create_area, rename_area, move_area, retire_area,
\* reactivate_area); that they may overlap is what leads to an area under itself.
THEOREM TreeStaysWhole ==
    ASSUME AreaAssumption
    PROVE  SerialSpec => []TreeIsWhole
<1>1. AreasInit => RecordsInv /\ SerialInv
  BY AreasInitHolds, SerialInitHolds
<1>2. RecordsInv /\ SerialInv /\ [SerialNext]_areaVars => RecordsInv' /\ SerialInv'
  BY SerialKeeps, AreasNextKeeps DEF SerialNext
<1>3. SerialInv => TreeIsWhole
  BY NothingLoops DEF SerialInv, RowsHold, PathsHold, TreeIsWhole
<1> QED BY <1>1, <1>2, <1>3, PTL DEF SerialSpec
================================================================================
