------------------------------ MODULE ChildPool ------------------------------
(***************************************************************************)
(* Pools made with PoolOptions::parent() (sqlx-core/src/pool/inner.rs): a  *)
(* child starts with no permits, steals them from its parent one at a time *)
(* and keeps them in its own semaphore until it is dropped.  Pool.tla has  *)
(* the steps of a single pool and the fair queue of its semaphore; here a  *)
(* connection is a number and a waiter is granted in any order.            *)
(*                                                                         *)
(* The parent is the test harness's MASTER_POOL: its after_release callback *)
(* closes every connection that is given back.                             *)
(***************************************************************************)
EXTENDS Naturals, FiniteSets, FiniteSetsExt

CONSTANTS
    Children,        \* child pools
    Clients,         \* tasks that acquire connections
    ParentMax,       \* max_connections of the parent
    ChildMax         \* max_connections of a child

ASSUME ChildPoolAssumption ==
    /\ ParentMax \in Nat /\ ChildMax \in 1 .. ParentMax   \* asserted by new_arc()
    /\ "parent" \notin Children

VARIABLES
    stock,       \* pool -> permits in its semaphore
    grown,       \* pool -> its size
    parked,      \* pool -> length of its idle queue
    shut,        \* pools marked closed
    alive,       \* pools not dropped yet
    client,      \* task -> where its acquire() is, on which pool, whose permit it has
    drained      \* idle connections closed by close() so far

child_vars == <<stock, grown, parked, shut, alive, client, drained>>

Pools == Children \cup {"parent"}
MaxOf(p) == IF p = "parent" THEN ParentMax ELSE ChildMax
AtRest == [at |-> "idle", pool |-> "parent", from |-> "parent", steal |-> FALSE]

\* new_arc() for the parent and the children.
ChildInit ==
    /\ stock = [p \in Pools |-> IF p = "parent" THEN ParentMax ELSE 0]
    /\ grown = [p \in Pools |-> 0]
    /\ parked = [p \in Pools |-> 0]
    /\ shut = {} /\ alive = Pools
    /\ client = [t \in Clients |-> AtRest]
    /\ drained = 0

ClientAt(t, stage) == client[t].at = stage
ClientEnds(t) == client' = [client EXCEPT ![t] = AtRest]
Uses(t, p) == ~ClientAt(t, "idle") /\ client[t].pool = p

\* acquire(): acquire_permit() decides here whether the parent may be asked.
AcquireBegin(t, p) ==
    /\ ClientAt(t, "idle") /\ p \in alive \ shut
    /\ client' = [client EXCEPT ![t] = [at |-> "waiting", pool |-> p, from |-> p,
                                        steal |-> p # "parent" /\ grown[p] < MaxOf(p)]]
    /\ UNCHANGED <<stock, grown, parked, shut, alive, drained>>

\* The polling order of acquire_permit(): own close event, the parent's close
\* event, the own semaphore, the parent's semaphore.
WaitClosed(t) ==
    /\ ClientAt(t, "waiting")
    /\ \/ client[t].pool \in shut /\ UNCHANGED shut
       \/ /\ client[t].pool \notin shut /\ client[t].steal /\ "parent" \in shut
          /\ shut' = shut \cup {client[t].pool}
    /\ ClientEnds(t)
    /\ UNCHANGED <<stock, grown, parked, alive, drained>>

TakePermit(t, p) ==
    /\ ClientAt(t, "waiting") /\ client[t].pool \notin shut
    /\ client[t].steal => "parent" \notin shut
    /\ \/ p = client[t].pool
       \/ p = "parent" /\ client[t].steal /\ stock[client[t].pool] = 0
    /\ stock[p] > 0
    /\ stock' = [stock EXCEPT ![p] = @ - 1]
    /\ client' = [client EXCEPT ![t].at = "permit", ![t].from = p]
    /\ UNCHANGED <<grown, parked, shut, alive, drained>>

\* pop_idle(): the permit is disarmed and its guard will release into the
\* pool of the connection.
PopParked(t) ==
    /\ ClientAt(t, "permit") /\ parked[client[t].pool] > 0
    /\ parked' = [parked EXCEPT ![client[t].pool] = @ - 1]
    /\ client' = [client EXCEPT ![t].at = "using"]
    /\ UNCHANGED <<stock, grown, shut, alive, drained>>

\* try_increment_size(), or the retry that drops the permit where it came from.
Grow(t) ==
    LET p == client[t].pool IN
    /\ ClientAt(t, "permit") /\ parked[p] = 0
    /\ IF p \notin shut /\ grown[p] < MaxOf(p)
       THEN /\ grown' = [grown EXCEPT ![p] = @ + 1]
            /\ client' = [client EXCEPT ![t].at = "using"]
            /\ UNCHANGED stock
       ELSE /\ stock' = [stock EXCEPT ![client[t].from] = @ + 1]
            /\ client' = [client EXCEPT ![t].at = "waiting",
                                        ![t].steal = p # "parent" /\ grown[p] < MaxOf(p)]
            /\ UNCHANGED grown
    /\ UNCHANGED <<parked, shut, alive, drained>>

\* acquire() times out or is cancelled while it waits.
GiveUp(t) ==
    /\ ClientAt(t, "waiting") /\ ClientEnds(t)
    /\ UNCHANGED <<stock, grown, parked, shut, alive, drained>>

\* DecrementSizeGuard::drop(): connecting failed or was cancelled, or the
\* connection was closed instead of being kept.
GuardDrops(t) ==
    LET p == client[t].pool IN
    /\ ClientAt(t, "using")
    /\ grown' = [grown EXCEPT ![p] = @ - 1]
    /\ stock' = [stock EXCEPT ![p] = @ + 1]
    /\ ClientEnds(t)
    /\ UNCHANGED <<parked, shut, alive, drained>>

\* release(): only a child keeps the connection, and only while it is open.
KeepIdle(t) ==
    LET p == client[t].pool IN
    /\ ClientAt(t, "using") /\ p \in Children \ shut
    /\ parked' = [parked EXCEPT ![p] = @ + 1]
    /\ stock' = [stock EXCEPT ![p] = @ + 1]
    /\ ClientEnds(t)
    /\ UNCHANGED <<grown, shut, alive, drained>>

\* The maintenance task closes an idle connection under a permit of its own.
ReapIdle(p) ==
    /\ p \in alive \ shut /\ stock[p] > 0 /\ parked[p] > 0
    /\ parked' = [parked EXCEPT ![p] = @ - 1]
    /\ grown' = [grown EXCEPT ![p] = @ - 1]
    /\ UNCHANGED <<stock, shut, alive, client, drained>>

MarkClosed(p) ==
    /\ p \in alive \ shut /\ shut' = shut \cup {p}
    /\ UNCHANGED <<stock, grown, parked, alive, client, drained>>

\* close() floats an idle connection; dropping the guard releases one permit
\* more than the connection had taken.
DrainIdle(p) ==
    /\ p \in alive \cap shut /\ parked[p] > 0
    /\ parked' = [parked EXCEPT ![p] = @ - 1]
    /\ grown' = [grown EXCEPT ![p] = @ - 1]
    /\ stock' = [stock EXCEPT ![p] = @ + 1]
    /\ drained' = drained + 1
    /\ UNCHANGED <<shut, alive, client>>

\* PoolInner::drop() of a child, once nothing holds its Arc.
PoolDropped(c) ==
    /\ c \in alive \cap Children /\ ~\E t \in Clients : Uses(t, c)
    /\ alive' = alive \ {c} /\ shut' = shut \cup {c}
    /\ stock' = [stock EXCEPT !["parent"] = @ + stock[c], ![c] = 0]
    /\ parked' = [parked EXCEPT ![c] = 0]
    /\ grown' = [grown EXCEPT ![c] = 0]
    /\ UNCHANGED <<client, drained>>

ChildNext ==
    \/ \E t \in Clients :
        \/ \E p \in Pools : AcquireBegin(t, p) \/ TakePermit(t, p)
        \/ WaitClosed(t) \/ PopParked(t) \/ Grow(t) \/ GiveUp(t)
        \/ GuardDrops(t) \/ KeepIdle(t)
    \/ \E p \in Pools : ReapIdle(p) \/ MarkClosed(p) \/ DrainIdle(p)
    \/ \E c \in Children : PoolDropped(c)

ChildSpec == ChildInit /\ [][ChildNext]_child_vars

-----------------------------------------------------------------------------
InFlight == {t \in Clients : client[t].at \in {"permit", "using"}}
InUseBy(p) == Cardinality({t \in Clients : ClientAt(t, "using") /\ client[t].pool = p})
Connections == MapThenSumSet(LAMBDA p : parked[p] + InUseBy(p), Pools)

\* Stolen permits are neither lost nor forged: however children steal, retry,
\* time out, close and are dropped, parent and children together have the
\* parent's permits, and one more for each idle connection close() drained.
PermitsAccounted ==
    MapThenSumSet(LAMBDA p : stock[p], Pools) + Cardinality(InFlight) = ParentMax + drained

\* All the pools together have no more connections than the parent's max_connections and the
\* permits that close() forged.  The limit itself holds only until a pool with an idle
\* connection is closed, as a test's is at its end (run_test_with_pool()): the permit of each
\* drained connection reaches the parent and stays there.
LimitShared == Connections <= ParentMax + drained

=============================================================================
