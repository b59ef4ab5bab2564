------------------------------- MODULE AreaTree -------------------------------
(***************************************************************************)
(* The areas of the office (area_management_repository.py): a tree of      *)
(* named nodes, the collector who owns each, and the clients in them, with *)
(* transfers that wait for the next collection day.                        *)
(*                                                                         *)
(* Rename, move and retirement of an area first select its subtree and     *)
(* then wait for the locks of its rows: the set of rows is the one of the  *)
(* select, their contents are those of the lock.  Between the two other    *)
(* sessions commit.  From the last lock to the commit nothing else writes  *)
(* these rows, so the rest of each operation is one step.                  *)
(***************************************************************************)
EXTENDS Integers, Sequences, FiniteSets, SequencesExt

CONSTANTS
    Areas, Roots,      \* area_uid values; the flat areas imported at first
    RootName,          \* their names
    Names, Clients, Collectors,
    Sessions,          \* connections of the office
    LastDay, MaxTransfers   \* bounds

None == 0
NoNode == [parent |-> None, name |-> None, path |-> <<>>, active |-> FALSE]

\* What the constants must be; a module that gives them values assumes it.
AreaAssumption ==
    /\ Areas \subseteq Nat \ {0} /\ Roots \subseteq Areas /\ None \notin Names \cup Collectors
    /\ \A r \in Roots : RootName[r] \in Names
    /\ \A r, q \in Roots : RootName[r] = RootName[q] => r = q
    /\ LastDay \in Nat \ {0} /\ MaxTransfers \in Nat

VARIABLES
    nodes,       \* area_nodes
    open,        \* the subtree a session selected and waits to lock, or NoSelect
    owner,       \* the active assignment of each area: collector and path text
    clients,     \* area and path text of each client
    pending,     \* client_area_pending_transfers, in order
    history,     \* client_area_transfer_history of each client
    day, collected   \* business date; clients with a receipt of it

tree == <<nodes, open>>
people == <<owner, clients, pending, history>>
areaVars == <<tree, people, day, collected>>

NoSelect == [area |-> None, ids |-> {}]
NoOwner == [by |-> None, text |-> <<>>]

-----------------------------------------------------------------------------
(* The tree.                                                               *)

Existing == {a \in Areas : nodes[a] # NoNode}

\* The recursive select of _subtree_rows: a, and with every row the rows under it.
WithChildren(S) == \A b \in Existing : nodes[b].parent \in S => b \in S
Below(a) == {b \in Existing : \A S \in SUBSET Existing : a \in S /\ WithChildren(S) => b \in S}

\* An area under itself; the select of a subtree with one does not end.
Looped(a) == nodes[a].parent \in Below(a)

PathUnder(p, name) == IF p = None THEN <<name>> ELSE Append(nodes[p].path, name)

\* _planned_subtree_paths refuses a path that does not start with the old one.
Consistent(a, ids) == \A b \in ids : IsPrefix(nodes[a].path, nodes[b].path)

NewPath(a, b, prefix) == prefix \o SubSeq(nodes[b].path, Len(nodes[a].path) + 1, Len(nodes[b].path))

\* _assert_path_available and the unique index on the path.
Free(ids, paths) == \A b \in Existing \ ids : nodes[b].path \notin paths

\* The subtree ids of a gets a new prefix, and with _sync_current_area_paths the
\* texts that clients, assignments and open transfers show.
Repath(a, ids, prefix, parent, name) ==
    LET path(b) == NewPath(a, b, prefix) IN
    /\ Consistent(a, ids) /\ Free(ids, {path(b) : b \in ids})
    /\ nodes' = [b \in Areas |->
          CASE b = a -> [nodes[b] EXCEPT !.path = path(b), !.parent = parent, !.name = name]
            [] b \in ids \ {a} -> [nodes[b] EXCEPT !.path = path(b)]
            [] OTHER -> nodes[b]]
    /\ owner' = [b \in Areas |-> IF b \in ids /\ owner[b] # NoOwner
                                 THEN [owner[b] EXCEPT !.text = path(b)] ELSE owner[b]]
    /\ clients' = [c \in Clients |-> IF clients[c].area \in ids
                                     THEN [clients[c] EXCEPT !.text = path(clients[c].area)]
                                     ELSE clients[c]]
    /\ pending' = [i \in DOMAIN pending |->
          IF pending[i].status = "open" /\ pending[i].to \in ids
          THEN [pending[i] EXCEPT !.text = path(pending[i].to)] ELSE pending[i]]
    /\ UNCHANGED <<history, day, collected>>

Create(a, p, name) ==
    /\ a \notin Existing /\ (p # None => p \in Existing /\ nodes[p].active)
    /\ Free({}, {PathUnder(p, name)})
    /\ nodes' = [nodes EXCEPT ![a] =
          [parent |-> p, name |-> name, path |-> PathUnder(p, name), active |-> TRUE]]
    /\ UNCHANGED <<open, people, day, collected>>

\* _subtree_rows for update, up to its wait.
Select(s, a) ==
    /\ open[s] = NoSelect /\ a \in Existing /\ \A b \in Below(a) : ~Looped(b)
    /\ open' = [open EXCEPT ![s] = [area |-> a, ids |-> Below(a)]]
    /\ UNCHANGED <<nodes, people, day, collected>>

Commit(s) == open' = [open EXCEPT ![s] = NoSelect]

Rename(s, name) ==
    LET a == open[s].area IN
    /\ a # None /\ nodes[a].active /\ Commit(s)
    /\ Repath(a, open[s].ids, PathUnder(nodes[a].parent, name), nodes[a].parent, name)

Move(s, p) ==
    LET a == open[s].area IN
    /\ a # None /\ nodes[a].active /\ Commit(s)
    /\ p \notin open[s].ids /\ p # nodes[a].parent
    /\ p # None => p \in Existing /\ nodes[p].active
    /\ Repath(a, open[s].ids, PathUnder(p, nodes[a].name), p, nodes[a].name)

OpenTo(ids) == {i \in DOMAIN pending : pending[i].status = "open" /\ pending[i].to \in ids}

Retire(s) ==
    LET a == open[s].area  ids == open[s].ids IN
    /\ a # None /\ nodes[a].active /\ Commit(s)
    /\ \A c \in Clients : clients[c].area \notin ids
    /\ \A b \in ids : owner[b] = NoOwner /\ (b # a => ~nodes[b].active)
    /\ OpenTo(ids) = {}
    /\ nodes' = [nodes EXCEPT ![a].active = FALSE]
    /\ UNCHANGED <<people, day, collected>>

\* The operation is refused, or its connection ends.
Abandon(s) == open[s] # NoSelect /\ Commit(s) /\ UNCHANGED <<nodes, people, day, collected>>

Reactivate(a) ==
    /\ a \in Existing /\ ~nodes[a].active
    /\ nodes[a].parent # None => nodes[nodes[a].parent].active
    /\ nodes' = [nodes EXCEPT ![a].active = TRUE]
    /\ UNCHANGED <<open, people, day, collected>>

-----------------------------------------------------------------------------
(* Collectors and clients.                                                 *)

\* collector_area_owner: the most specific active assignment.
OwnerOf(path) ==
    LET over == {a \in Areas : owner[a] # NoOwner /\ IsPrefix(owner[a].text, path)}
        best == {a \in over : \A b \in over : Len(owner[b].text) <= Len(owner[a].text)}
        by == {owner[a].by : a \in best}
    IN  IF Cardinality(by) = 1 THEN CHOOSE k \in by : TRUE ELSE None

AssignCollector(a, k) ==
    /\ a \in Existing /\ nodes[a].active /\ owner[a].by # k
    /\ owner' = [owner EXCEPT ![a] = [by |-> k, text |-> nodes[a].path]]
    /\ UNCHANGED <<tree, clients, pending, history, day, collected>>

RemoveCollector(a) ==
    /\ a \in Existing /\ nodes[a].active /\ owner[a] # NoOwner
    /\ owner' = [owner EXCEPT ![a] = NoOwner]
    /\ UNCHANGED <<tree, clients, pending, history, day, collected>>

Arrived(c, a) == [history EXCEPT ![c] = Append(@, [from |-> clients[c].area, to |-> a])]

\* Mutant: the pending transfer before is kept.
CancelledNone(c) == pending

\* A newer request replaces the open transfer of the client.
Cancelled(c) == [i \in DOMAIN pending |->
    IF pending[i].status = "open" /\ pending[i].client = c
    THEN [pending[i] EXCEPT !.status = "cancelled"] ELSE pending[i]]

\* _client_transfer_decision.
Transferable(c, a) ==
    /\ a \in Existing /\ nodes[a].active /\ clients[c].area # a
    /\ OwnerOf(nodes[a].path) # None

TransferNow(c, a) ==
    /\ Transferable(c, a) /\ c \notin collected /\ Len(history[c]) < MaxTransfers
    /\ pending' = Cancelled(c) /\ history' = Arrived(c, a)
    /\ clients' = [clients EXCEPT ![c] = [area |-> a, text |-> nodes[a].path]]
    /\ UNCHANGED <<tree, owner, day, collected>>

\* The client was collected today: the transfer waits for the next installment.
TransferLater(c, a, due) ==
    /\ Transferable(c, a) /\ c \in collected /\ due > day /\ Len(pending) < MaxTransfers
    /\ pending' = Append(Cancelled(c), [client |-> c, from |-> clients[c].area, to |-> a,
                                        text |-> nodes[a].path, due |-> due, status |-> "open"])
    /\ UNCHANGED <<tree, owner, clients, history, day, collected>>

\* The transfers apply_due_client_area_transfers applies for clients cs.
Due(cs) == {i \in DOMAIN pending :
    pending[i].status = "open" /\ pending[i].due <= day /\ pending[i].client \in cs}

\* They are applied all or none.
Applicable(i) ==
    LET p == pending[i] IN
    /\ clients[p.client].area = p.from /\ nodes[p.to].active
    /\ OwnerOf(nodes[p.to].path) # None

ApplyDue(cs) ==
    LET at(c) == {i \in Due(cs) : pending[i].client = c} IN
    /\ \A i \in Due(cs) : Applicable(i)
    /\ clients' = [c \in Clients |-> IF at(c) = {} THEN clients[c] ELSE
          LET i == CHOOSE i \in at(c) : TRUE
          IN  [area |-> pending[i].to, text |-> nodes[pending[i].to].path]]
    /\ history' = [c \in Clients |-> IF at(c) = {} THEN history[c] ELSE
          Append(history[c], LET i == CHOOSE i \in at(c) : TRUE
                             IN  [from |-> pending[i].from, to |-> pending[i].to])]
    /\ pending' = [i \in DOMAIN pending |->
          IF i \in Due(cs) THEN [pending[i] EXCEPT !.status = "applied"] ELSE pending[i]]
    /\ UNCHANGED <<tree, owner, day>>

\* A route or schedule is loaded.
LoadRoute == Due(Clients) # {} /\ ApplyDue(Clients) /\ UNCHANGED collected

\* A receipt is posted; its transaction applies the transfer of the client first.
Collect(c) == c \notin collected /\ ApplyDue({c}) /\ collected' = collected \cup {c}

NextDay == day < LastDay /\ day' = day + 1 /\ collected' = {} /\ UNCHANGED <<tree, people>>

-----------------------------------------------------------------------------
\* The flat areas of the import; a new client is in none.
AreasInit ==
    /\ nodes = [a \in Areas |-> IF a \in Roots
          THEN [parent |-> None, name |-> RootName[a], path |-> <<RootName[a]>>, active |-> TRUE]
          ELSE NoNode]
    /\ open = [s \in Sessions |-> NoSelect]
    /\ owner = [a \in Areas |-> NoOwner]
    /\ clients = [c \in Clients |-> [area |-> None, text |-> <<>>]]
    /\ pending = <<>> /\ history = [c \in Clients |-> <<>>]
    /\ day = 1 /\ collected = {}

TreeStep ==
    \/ \E a \in Areas, p \in Areas \cup {None}, name \in Names : Create(a, p, name)
    \/ \E s \in Sessions :
         \/ \E a \in Areas : Select(s, a)
         \/ \E name \in Names : Rename(s, name)
         \/ \E p \in Areas \cup {None} : Move(s, p)
         \/ Retire(s) \/ Abandon(s)
    \/ \E a \in Areas : Reactivate(a)

PeopleStep ==
    \/ \E a \in Areas : RemoveCollector(a) \/ \E k \in Collectors : AssignCollector(a, k)
    \/ \E c \in Clients, a \in Areas :
         TransferNow(c, a) \/ \E due \in 1 .. LastDay : TransferLater(c, a, due)
    \/ LoadRoute \/ NextDay \/ \E c \in Clients : Collect(c)

AreasNext == TreeStep \/ PeopleStep

AreasSpec == AreasInit /\ [][AreasNext]_areaVars

\* The office at work one structural change after another: none commits between the
\* select of a session and its own commit.
SerialNext ==
    AreasNext /\ (nodes' # nodes => \A s \in Sessions : open[s] = NoSelect \/ open'[s] = NoSelect)

SerialSpec == AreasInit /\ [][SerialNext]_areaVars

-----------------------------------------------------------------------------
(* Properties.                                                             *)

\* The types of the variables.
AreasTypeOK ==
    /\ \A a \in Existing : /\ nodes[a].parent \in Areas \cup {None}
                           /\ nodes[a].name = nodes[a].path[Len(nodes[a].path)]
    /\ \A s \in Sessions : open[s].ids \subseteq Existing
    /\ \A a \in Areas : owner[a].by \in Collectors \cup {None}
    /\ day \in 1 .. LastDay /\ collected \subseteq Clients
    /\ \A i \in DOMAIN pending : pending[i].due \in 2 .. LastDay

\* Clients, assignments and open transfers show the path their area has now,
\* whatever sessions renamed and moved it ("renaming an Area updates current records").
TextsFollowNodes ==
    /\ \A a \in Areas : owner[a] # NoOwner => owner[a].text = nodes[a].path
    /\ \A c \in Clients : clients[c].area # None => clients[c].text = nodes[clients[c].area].path
    /\ \A i \in OpenTo(Areas) : pending[i].text = nodes[pending[i].to].path

\* A retired area has no client, no collector and no transfer on its way to it, also
\* when they came while the retirement waited for its locks.
RetiredHoldsNothing ==
    \A a \in Existing : ~nodes[a].active =>
        /\ owner[a] = NoOwner /\ OpenTo({a}) = {} /\ \A c \in Clients : clients[c].area # a

\* The open transfer of a client is one, and starts where the client is: the refusal
\* client_transfer_current_area_changed stops no route.
PendingIsCurrent ==
    /\ \A i \in OpenTo(Areas) : clients[pending[i].client].area = pending[i].from
    /\ \A i, j \in OpenTo(Areas) : pending[i].client = pending[j].client => i = j

\* On the day a transfer takes effect the client is collected where the transfer
\* leads, not in the area before.
CollectedWhereDue == \A i \in OpenTo(Areas) : pending[i].due <= day => pending[i].client \notin collected

\* The transfers of a client follow one another without a gap up to its area.
HistoryIsChain ==
    \A c \in Clients : LET h == history[c] IN
        /\ h # <<>> => h[1].from = None /\ h[Len(h)].to = clients[c].area
        /\ \A i \in 1 .. Len(h) - 1 : h[i].to = h[i + 1].from

RecordsFollowTree ==
    /\ TextsFollowNodes /\ RetiredHoldsNothing
    /\ PendingIsCurrent /\ CollectedWhereDue /\ HistoryIsChain

\* One structural change after another (SerialNext) the areas are a forest, every path is the way down to its
\* area, and what is above an active area is active.
TreeIsWhole ==
    \A a \in Existing :
        /\ ~Looped(a)
        /\ nodes[a].path = PathUnder(nodes[a].parent, nodes[a].name)
        /\ nodes[a].active /\ nodes[a].parent # None => nodes[nodes[a].parent].active

\* docs/superpowers/specs/2026-09-06-area-management-design.md: a node cannot become
\* a descendant of itself.
NoAreaUnderItself == \A a \in Existing : ~Looped(a)
=============================================================================
