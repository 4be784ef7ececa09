----------------------------- MODULE MCPoolLive -----------------------------
(***************************************************************************)
(* What the pool must eventually do: two tasks and close() on a pool of    *)
(* one connection, without its maintenance task and with it.               *)
(***************************************************************************)
EXTENDS Sequences, Integers

VARIABLES
    scene,    \* "pool" without and "reaper" with the maintenance task
    is_closed, armed, permits, waiters, idle, num_idle, size, leaked, pc, role, left, round

pool_vars == <<is_closed, armed, permits, waiters, idle, num_idle, size, leaked, pc, role, left, round>>
live_vars == <<scene, pool_vars>>

P == INSTANCE Pool WITH
       Tasks <- {"t1", "t2"}, Reaper <- "reaper", Closers <- {"c1"}, HasReaper <- FALSE,
       MaxConnections <- 1, MinConnections <- 0, MaxLeaks <- 0, WrapCount <- 3
R == INSTANCE Pool WITH
       Tasks <- {"t1", "t2"}, Reaper <- "reaper", Closers <- {"c1"}, HasReaper <- TRUE,
       MaxConnections <- 1, MinConnections <- 1, MaxLeaks <- 0, WrapCount <- 3

LiveInit == (scene = "pool" /\ P!Init) \/ (scene = "reaper" /\ R!Init)

\* With the maintenance task, one task of the application is enough.
LiveNext ==
    /\ scene' = scene
    /\ \/ scene = "pool" /\ P!Next
       \/ scene = "reaper" /\ R!Next /\ pc'["t2"] = pc["t2"]

\* Pool!Fairness, with the scene's pool.
PoolFairness ==
    /\ \A t \in {"t1", "t2"} :
         /\ WF_live_vars(scene = "pool" /\ P!TaskStep(t) /\ UNCHANGED scene)
         /\ WF_live_vars(scene = "pool" /\ P!GiveBack(t) /\ UNCHANGED scene)
    /\ \A p \in {"t1", "t2", "reaper"} :
         /\ WF_live_vars(scene = "pool" /\ P!SharedStep(p) /\ UNCHANGED scene)
         /\ SF_live_vars(scene = "pool" /\ P!DialFail(p) /\ UNCHANGED scene)
    /\ \A p \in {"t1", "t2", "reaper", "c1"} : WF_live_vars(scene = "pool" /\ P!GuardStep(p) /\ UNCHANGED scene)
    /\ WF_live_vars(scene = "pool" /\ P!CloserStep("c1") /\ UNCHANGED scene)

ReaperFairness ==
    /\ WF_live_vars(scene = "reaper" /\ R!TaskStep("t1") /\ UNCHANGED scene)
    /\ WF_live_vars(scene = "reaper" /\ R!GiveBack("t1") /\ UNCHANGED scene)
    /\ \A p \in {"t1", "reaper"} :
         /\ WF_live_vars(scene = "reaper" /\ R!SharedStep(p) /\ UNCHANGED scene)
         /\ SF_live_vars(scene = "reaper" /\ R!DialFail(p) /\ UNCHANGED scene)
    /\ \A p \in {"t1", "reaper", "c1"} : WF_live_vars(scene = "reaper" /\ R!GuardStep(p) /\ UNCHANGED scene)
    /\ WF_live_vars(scene = "reaper" /\ R!ReaperStep /\ UNCHANGED scene)
    /\ WF_live_vars(scene = "reaper" /\ R!CloserStep("c1") /\ UNCHANGED scene)

LiveSpec == LiveInit /\ [][LiveNext]_live_vars /\ PoolFairness /\ ReaperFairness

-----------------------------------------------------------------------------
(* Properties.                                                             *)

\* A future waiting in acquire() does not wait for ever: the connection or the
\* permit that another one gives up, in whatever way, reaches it.
AcquireServed == scene = "pool" => P!WaiterServed

\* close() returns once the application has given its connections back, and no
\* waiter or guard keeps the permits it collects.
CloseReturns == P!CloseCompletes

\* The maintenance task does not survive close(), whatever it was doing.
MaintenanceStops == scene = "reaper" => R!ReaperStops
=============================================================================
