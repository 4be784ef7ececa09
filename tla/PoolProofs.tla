----------------------------- MODULE PoolProofs -----------------------------
(***************************************************************************)
(* Safety of Pool for every number of tasks, closers and connections.      *)
(***************************************************************************)
EXTENDS Pool, FiniteSetTheorems, SequenceTheorems, TLAPS

-----------------------------------------------------------------------------
(* Counting the processes at a set of labels.                              *)

\* There are finitely many processes.
LEMMA ProcsFinite == IsFiniteSet(Procs)
BY ProcsAssumption, FS_Union, FS_Singleton DEF Procs

\* The number of processes of Q at labels L.
At(Q, L) == Cardinality({q \in Q : pc[q] \in L})

\* A step in which no process but p moves.
Moves(p) == /\ p \in Procs
            /\ \A q \in Procs \ {p} : pc'[q] = pc[q]

\* A step of p changes a count by the labels p leaves and enters.
LEMMA CountStep ==
    ASSUME NEW Q, Q \subseteq Procs, NEW L, NEW p, Moves(p)
    PROVE  /\ At(Q, L) \in Nat /\ At(Q, L)' \in Nat
           /\ At(Q, L)' = At(Q, L) + (IF p \in Q /\ pc'[p] \in L THEN 1 ELSE 0)
                                   - (IF p \in Q /\ pc[p] \in L THEN 1 ELSE 0)
<1>0. PICK A, B : A = {q \in Q : pc[q] \in L} /\ B = {q \in Q : pc'[q] \in L}
  OBVIOUS
<1>1. A \subseteq Procs /\ B \subseteq Procs
  BY <1>0
<1>2. PICK C : C = A \ {p}
  OBVIOUS
<1>3. C = B \ {p}
  BY <1>0, <1>1, <1>2 DEF Moves
<1>4. IsFiniteSet(A) /\ IsFiniteSet(B) /\ IsFiniteSet(C)
  BY <1>1, <1>2, FS_Subset, ProcsFinite
<1>5. Cardinality(A) \in Nat /\ Cardinality(B) \in Nat /\ Cardinality(C) \in Nat
  BY <1>4, FS_CardinalityType
<1>6. Cardinality(C) = IF p \in A THEN Cardinality(A) - 1 ELSE Cardinality(A)
  BY <1>2, <1>4, FS_RemoveElement
<1>7. Cardinality(C) = IF p \in B THEN Cardinality(B) - 1 ELSE Cardinality(B)
  BY <1>3, <1>4, FS_RemoveElement
<1>8. (p \in A <=> p \in Q /\ pc[p] \in L) /\ (p \in B <=> p \in Q /\ pc'[p] \in L)
  BY <1>0
<1>9. Cardinality(B) = Cardinality(A) + (IF p \in Q /\ pc'[p] \in L THEN 1 ELSE 0)
                                      - (IF p \in Q /\ pc[p] \in L THEN 1 ELSE 0)
  BY <1>5, <1>6, <1>7, <1>8
<1> QED BY <1>0, <1>5, <1>9 DEF At

-----------------------------------------------------------------------------
(* What every action does to the counters.                                 *)

\* TypeOK without the claim that size does not underflow, which follows from
\* the accounting.
CoreType ==
    /\ is_closed \in BOOLEAN
    /\ armed \subseteq Procs
    /\ permits \in Nat
    /\ waiters \in Seq(Procs)
    /\ idle \in Nat /\ num_idle \in Int /\ size \in Int /\ leaked \in Nat
    /\ pc \in [Procs -> Labels]
    /\ role \in [Procs -> Roles]
    /\ left \in Nat
    /\ round \in [Closers -> 1..MaxConnections]

\* No closer has started while the pool is open.
ClosersReady == ~is_closed => \A c \in Closers : pc[c] = "ready"

Core == CoreType /\ ClosersReady

Gain(p, L) == (IF pc'[p] \in L THEN 1 ELSE 0) - (IF pc[p] \in L THEN 1 ELSE 0)

\* What one step of process p means for the connections: nothing, a new one is
\* opened within max_connections, one is closed, taken from the idle queue, put
\* back or leaked.
Entry(p) ==
    \/ UNCHANGED <<idle, leaked>> /\ Gain(p, Guarded) = 0
    \/ /\ is_closed' = is_closed
       /\ \/ UNCHANGED <<idle, leaked>> /\ Gain(p, Guarded) = 1 /\ size < MaxConnections
          \/ UNCHANGED <<idle, leaked>> /\ Gain(p, Guarded) = -1
          \/ idle' = idle - 1 /\ leaked' = leaked /\ Gain(p, Guarded) = 1
          \/ idle' = idle + 1 /\ leaked' = leaked /\ Gain(p, Guarded) = -1
          \/ idle' = idle /\ leaked' = leaked + 1 /\ Gain(p, Guarded) = -1

\* The double-entry book of one step of process p: what the shared counters
\* lose, p's label gains.
Ledger(p) ==
    /\ Moves(p)
    /\ Entry(p)
    /\ size' - idle' - leaked' = size - idle - leaked + Gain(p, Guarded)
    /\ size' <= size \/ size' <= MaxConnections
    /\ is_closed => is_closed'
    /\ p \in Closers => is_closed'
    /\ pc'[p] = "min_permit" => size < MinConnections
    /\ p \notin Closers =>
         /\ permits' + leaked' = permits + leaked - Gain(p, Guarded \cup PermitOnly)
         /\ num_idle' - idle' = num_idle - idle + Gain(p, {"popped"})
                                                - Gain(p, {"pushed", "unpermit"})
         /\ \/ pc[p] = "min_permit" \/ idle' = 0
            \/ idle' - permits' - Gain(p, {"permit", "pushed"}) <= idle - permits

\* The waiter list stays a sequence of processes.
LEMMA DequeueType ==
    ASSUME NEW q \in Seq(Procs), NEW p
    PROVE  Dequeue(q, p) \in Seq(Procs)
<1>1. CASE \E i \in 1..Len(q) : q[i] = p
  <2> DEFINE k == CHOOSE i \in 1..Len(q) : q[i] = p
  <2>1. Len(q) \in Nat /\ Len(q) > 0 /\ \A i \in 1..Len(q) : q[i] \in Procs
    BY <1>1
  <2>2. Dequeue(q, p) = [i \in 1..(Len(q) - 1) |-> IF i < k THEN q[i] ELSE q[i + 1]]
    BY <1>1 DEF Dequeue
  <2>3. \A i \in 1..(Len(q) - 1) : (IF i < k THEN q[i] ELSE q[i + 1]) \in Procs
    BY <2>1
  <2> HIDE DEF k
  <2>4. Len(q) - 1 \in Nat
    BY <2>1
  <2> QED BY <2>2, <2>3, <2>4
<1>2. CASE ~\E i \in 1..Len(q) : q[i] = p
  BY <1>2 DEF Dequeue
<1> QED BY <1>1, <1>2

\* ... also when a process joins it.
LEMMA EnqueueType ==
    ASSUME NEW q \in Seq(Procs), NEW p \in Procs
    PROVE  Enqueue(q, p) \in Seq(Procs)
BY DEF Enqueue

\* Acquire keeps the books.
LEMMA AcquireLedger ==
    ASSUME Core, NEW t \in Tasks, Acquire(t)
    PROVE  CoreType' /\ Ledger(t)
<1>0. t \in Procs
  BY ProcsAssumption DEF Procs
<1>1. /\ pc[t] = "out" /\ pc'[t] = "call"
      /\ is_closed' = is_closed
      /\ t \in Closers => is_closed'
  BY <1>0, ProcsAssumption DEF Core, CoreType, ClosersReady, Acquire, Step, StepAs, closing, counters, sem
<1>2. Moves(t)
  BY <1>0 DEF Core, CoreType, Moves, Acquire, Step, StepAs, closing, counters, sem
<1>3. CoreType'
  BY <1>0, OptionsAssumption, SMTT(60) DEF Core, CoreType, Labels, Guarded, PermitOnly, Free, Roles, Acquire, Step, StepAs, closing, counters, sem
<1>4. /\ pc[t] = "out" /\ pc'[t] = "call"
      /\ UNCHANGED <<size, idle, num_idle, leaked, permits>>
  BY <1>0, OptionsAssumption, SMTT(60) DEF Core, CoreType, Acquire, Step, StepAs, closing, counters, sem
<1>5. /\ Gain(t, Guarded) = 0 /\ Gain(t, Guarded \cup PermitOnly) = 0
      /\ Gain(t, {"popped"}) = 0 /\ Gain(t, {"pushed", "unpermit"}) = 0
      /\ Gain(t, {"permit", "pushed"}) = 0
  BY <1>4 DEF Gain, Guarded, PermitOnly
<1> QED BY <1>1, <1>2, <1>3, <1>4, <1>5, OptionsAssumption DEF Core, CoreType, Ledger, Entry

\* AwaitCloseEvent keeps the books.
LEMMA AwaitCloseEventLedger ==
    ASSUME Core, NEW t \in Tasks, AwaitCloseEvent(t)
    PROVE  CoreType' /\ Ledger(t)
<1>0. t \in Procs
  BY ProcsAssumption DEF Procs
<1>1. /\ pc[t] = "out" /\ pc'[t] = "call"
      /\ is_closed' = is_closed
      /\ t \in Closers => is_closed'
  BY <1>0, ProcsAssumption DEF Core, CoreType, ClosersReady, AwaitCloseEvent, Step, StepAs, closing, counters, sem
<1>2. Moves(t)
  BY <1>0 DEF Core, CoreType, Moves, AwaitCloseEvent, Step, StepAs, closing, counters, sem
<1>3. CoreType'
  BY <1>0, OptionsAssumption, SMTT(60) DEF Core, CoreType, Labels, Guarded, PermitOnly, Free, Roles, AwaitCloseEvent, Step, StepAs, closing, counters, sem
<1>4. /\ pc[t] = "out" /\ pc'[t] = "call"
      /\ UNCHANGED <<size, idle, num_idle, leaked, permits>>
  BY <1>0, OptionsAssumption, SMTT(60) DEF Core, CoreType, AwaitCloseEvent, Step, StepAs, closing, counters, sem
<1>5. /\ Gain(t, Guarded) = 0 /\ Gain(t, Guarded \cup PermitOnly) = 0
      /\ Gain(t, {"popped"}) = 0 /\ Gain(t, {"pushed", "unpermit"}) = 0
      /\ Gain(t, {"permit", "pushed"}) = 0
  BY <1>4 DEF Gain, Guarded, PermitOnly
<1> QED BY <1>1, <1>2, <1>3, <1>4, <1>5, OptionsAssumption DEF Core, CoreType, Ledger, Entry

\* CloseEventCheck keeps the books.
LEMMA CloseEventCheckLedger ==
    ASSUME Core, NEW t \in Tasks, CloseEventCheck(t)
    PROVE  CoreType' /\ Ledger(t)
<1>0. t \in Procs
  BY ProcsAssumption DEF Procs
<1>1. /\ pc[t] = "call" /\ pc'[t] \in {"listen", "out"}
      /\ is_closed' = is_closed
      /\ t \in Closers => is_closed'
  BY <1>0, ProcsAssumption DEF Core, CoreType, ClosersReady, CloseEventCheck, Step, StepAs, closing, counters, sem
<1>2. Moves(t)
  BY <1>0 DEF Core, CoreType, Moves, CloseEventCheck, Step, StepAs, closing, counters, sem
<1>3. CoreType'
  BY <1>0, OptionsAssumption, SMTT(60) DEF Core, CoreType, Labels, Guarded, PermitOnly, Free, Roles, CloseEventCheck, Step, StepAs, closing, counters, sem
<1>4. /\ pc[t] = "call" /\ pc'[t] \in {"out", "listen"}
      /\ UNCHANGED <<size, idle, num_idle, leaked, permits>>
  BY <1>0, OptionsAssumption, SMTT(60) DEF Core, CoreType, CloseEventCheck, Step, StepAs, closing, counters, sem
<1>5. /\ Gain(t, Guarded) = 0 /\ Gain(t, Guarded \cup PermitOnly) = 0
      /\ Gain(t, {"popped"}) = 0 /\ Gain(t, {"pushed", "unpermit"}) = 0
      /\ Gain(t, {"permit", "pushed"}) = 0
  BY <1>4 DEF Gain, Guarded, PermitOnly
<1> QED BY <1>1, <1>2, <1>3, <1>4, <1>5, OptionsAssumption DEF Core, CoreType, Ledger, Entry

\* CloseEventListen keeps the books.
LEMMA CloseEventListenLedger ==
    ASSUME Core, NEW t \in Tasks, CloseEventListen(t)
    PROVE  CoreType' /\ Ledger(t)
<1>0. t \in Procs
  BY ProcsAssumption DEF Procs
<1>1. /\ pc[t] = "listen" /\ pc'[t] \in {"event", "polling"}
      /\ is_closed' = is_closed
      /\ t \in Closers => is_closed'
  BY <1>0, ProcsAssumption DEF Core, CoreType, ClosersReady, CloseEventListen, Step, StepAs, closing, counters, sem
<1>2. Moves(t)
  BY <1>0 DEF Core, CoreType, Moves, CloseEventListen, Step, StepAs, closing, counters, sem
<1>3. CoreType'
  BY <1>0, OptionsAssumption, SMTT(60) DEF Core, CoreType, Labels, Guarded, PermitOnly, Free, Roles, CloseEventListen, Step, StepAs, closing, counters, sem
<1>4. /\ pc[t] = "listen" /\ pc'[t] \in {"event", "polling"}
      /\ UNCHANGED <<size, idle, num_idle, leaked, permits>>
  BY <1>0, OptionsAssumption, SMTT(60) DEF Core, CoreType, CloseEventListen, Step, StepAs, closing, counters, sem
<1>5. /\ Gain(t, Guarded) = 0 /\ Gain(t, Guarded \cup PermitOnly) = 0
      /\ Gain(t, {"popped"}) = 0 /\ Gain(t, {"pushed", "unpermit"}) = 0
      /\ Gain(t, {"permit", "pushed"}) = 0
  BY <1>4 DEF Gain, Guarded, PermitOnly
<1> QED BY <1>1, <1>2, <1>3, <1>4, <1>5, OptionsAssumption DEF Core, CoreType, Ledger, Entry

\* CloseEventFires keeps the books.
LEMMA CloseEventFiresLedger ==
    ASSUME Core, NEW t \in Tasks, CloseEventFires(t)
    PROVE  CoreType' /\ Ledger(t)
<1>0. t \in Procs
  BY ProcsAssumption DEF Procs
<1>1. /\ pc[t] = "event" /\ pc'[t] = "out"
      /\ is_closed' = is_closed
      /\ t \in Closers => is_closed'
  BY <1>0, ProcsAssumption DEF Core, CoreType, ClosersReady, CloseEventFires, Step, StepAs, closing, counters, sem
<1>2. Moves(t)
  BY <1>0 DEF Core, CoreType, Moves, CloseEventFires, Step, StepAs, closing, counters, sem
<1>3. CoreType'
  BY <1>0, OptionsAssumption, SMTT(60) DEF Core, CoreType, Labels, Guarded, PermitOnly, Free, Roles, CloseEventFires, Step, StepAs, closing, counters, sem
<1>4. /\ pc[t] = "event" /\ pc'[t] = "out"
      /\ UNCHANGED <<size, idle, num_idle, leaked, permits>>
  BY <1>0, OptionsAssumption, SMTT(60) DEF Core, CoreType, CloseEventFires, Step, StepAs, closing, counters, sem
<1>5. /\ Gain(t, Guarded) = 0 /\ Gain(t, Guarded \cup PermitOnly) = 0
      /\ Gain(t, {"popped"}) = 0 /\ Gain(t, {"pushed", "unpermit"}) = 0
      /\ Gain(t, {"permit", "pushed"}) = 0
  BY <1>4 DEF Gain, Guarded, PermitOnly
<1> QED BY <1>1, <1>2, <1>3, <1>4, <1>5, OptionsAssumption DEF Core, CoreType, Ledger, Entry

\* PollSemaphore keeps the books.
LEMMA PollSemaphoreLedger ==
    ASSUME Core, NEW t \in Tasks, PollSemaphore(t)
    PROVE  CoreType' /\ Ledger(t)
<1>0. t \in Procs
  BY ProcsAssumption DEF Procs
<1>1. /\ pc[t] = "wait" /\ pc'[t] \in {"permit", "polling"}
      /\ is_closed' = is_closed
      /\ t \in Closers => is_closed'
  BY <1>0, ProcsAssumption DEF Core, CoreType, ClosersReady, PollSemaphore, Step, StepAs, closing, counters, sem, Grantable
<1>2. Moves(t)
  BY <1>0 DEF Core, CoreType, Moves, PollSemaphore, Step, StepAs, closing, counters, sem, Grantable
<1>3. CASE Grantable(t, 1)
  <2>w. waiters' \in Seq(Procs)
    BY <1>0, <1>3, DequeueType, EnqueueType, AppendProperties, SMTT(30) DEF Core, CoreType, PollSemaphore, Step, StepAs, closing, counters, sem, Grantable
  <2>p. pc' \in [Procs -> Labels] /\ role' \in [Procs -> Roles]
    BY <1>0, <1>3 DEF Core, CoreType, Labels, Guarded, PermitOnly, Free, Roles, PollSemaphore, Step, StepAs, closing, counters, sem, Grantable
  <2>o. /\ permits' \in Nat /\ armed' \subseteq Procs /\ is_closed' \in BOOLEAN
        /\ UNCHANGED <<idle, num_idle, size, leaked, left, round>>
    BY <1>0, <1>3 DEF Core, CoreType, PollSemaphore, Step, StepAs, closing, counters, sem, Grantable
  <2>1. CoreType'
    BY <2>w, <2>p, <2>o DEF Core, CoreType
  <2>2. /\ pc[t] = "wait" /\ pc'[t] = "permit"
        /\ UNCHANGED <<size, idle, num_idle, leaked>> /\ permits' = permits - 1
    BY <1>0, <1>3, OptionsAssumption, SMTT(60) DEF Core, CoreType, PollSemaphore, Step, StepAs, closing, counters, sem, Grantable
  <2>3. /\ Gain(t, Guarded) = 0 /\ Gain(t, Guarded \cup PermitOnly) = 1
        /\ Gain(t, {"popped"}) = 0 /\ Gain(t, {"pushed", "unpermit"}) = 0
        /\ Gain(t, {"permit", "pushed"}) = 1
    BY <2>2 DEF Gain, Guarded, PermitOnly
  <2> QED BY <1>1, <1>2, <2>1, <2>2, <2>3, <1>3, OptionsAssumption DEF Core, CoreType, Ledger, Entry
<1>4. CASE ~Grantable(t, 1)
  <2>w. waiters' \in Seq(Procs)
    BY <1>0, <1>4, DequeueType, EnqueueType, AppendProperties, SMTT(30) DEF Core, CoreType, PollSemaphore, Step, StepAs, closing, counters, sem
  <2>p. pc' \in [Procs -> Labels] /\ role' \in [Procs -> Roles]
    BY <1>0, <1>4 DEF Core, CoreType, Labels, Guarded, PermitOnly, Free, Roles, PollSemaphore, Step, StepAs, closing, counters, sem, Grantable
  <2>o. /\ permits' \in Nat /\ armed' \subseteq Procs /\ is_closed' \in BOOLEAN
        /\ UNCHANGED <<idle, num_idle, size, leaked, left, round>>
    BY <1>0, <1>4 DEF Core, CoreType, PollSemaphore, Step, StepAs, closing, counters, sem, Grantable
  <2>1. CoreType'
    BY <2>w, <2>p, <2>o DEF Core, CoreType
  <2>2. /\ pc[t] = "wait" /\ pc'[t] = "polling"
        /\ UNCHANGED <<size, idle, num_idle, leaked, permits>>
    BY <1>0, <1>4, OptionsAssumption, SMTT(60) DEF Core, CoreType, PollSemaphore, Step, StepAs, closing, counters, sem, Grantable
  <2>3. /\ Gain(t, Guarded) = 0 /\ Gain(t, Guarded \cup PermitOnly) = 0
        /\ Gain(t, {"popped"}) = 0 /\ Gain(t, {"pushed", "unpermit"}) = 0
        /\ Gain(t, {"permit", "pushed"}) = 0
    BY <2>2 DEF Gain, Guarded, PermitOnly
  <2> QED BY <1>1, <1>2, <2>1, <2>2, <2>3, <1>4, OptionsAssumption DEF Core, CoreType, Ledger, Entry
<1> QED BY <1>3, <1>4, OptionsAssumption DEF Core, CoreType

\* PollCloseEvent keeps the books.
LEMMA PollCloseEventLedger ==
    ASSUME Core, NEW t \in Tasks, PollCloseEvent(t)
    PROVE  CoreType' /\ Ledger(t)
<1>0. t \in Procs
  BY ProcsAssumption DEF Procs
<1>1. /\ pc[t] = "polling" /\ pc'[t] \in {"out", "wait"}
      /\ is_closed' = is_closed
      /\ t \in Closers => is_closed'
  BY <1>0, ProcsAssumption DEF Core, CoreType, ClosersReady, PollCloseEvent, Step, StepAs, closing, counters, sem
<1>2. Moves(t)
  BY <1>0 DEF Core, CoreType, Moves, PollCloseEvent, Step, StepAs, closing, counters, sem
<1>w. waiters' \in Seq(Procs)
  BY <1>0, DequeueType, EnqueueType, AppendProperties, SMTT(30) DEF Core, CoreType, PollCloseEvent, Step, StepAs, closing, counters, sem
<1>p. pc' \in [Procs -> Labels] /\ role' \in [Procs -> Roles]
  BY <1>0 DEF Core, CoreType, Labels, Guarded, PermitOnly, Free, Roles, PollCloseEvent, Step, StepAs, closing, counters, sem
<1>o. /\ permits' \in Nat /\ armed' \subseteq Procs /\ is_closed' \in BOOLEAN
      /\ UNCHANGED <<idle, num_idle, size, leaked, left, round>>
  BY <1>0 DEF Core, CoreType, PollCloseEvent, Step, StepAs, closing, counters, sem
<1>3. CoreType'
  BY <1>w, <1>p, <1>o DEF Core, CoreType
<1>4. /\ pc[t] = "polling" /\ pc'[t] \in {"wait", "out"}
      /\ UNCHANGED <<size, idle, num_idle, leaked, permits>>
  BY <1>0, OptionsAssumption, SMTT(60) DEF Core, CoreType, PollCloseEvent, Step, StepAs, closing, counters, sem
<1>5. /\ Gain(t, Guarded) = 0 /\ Gain(t, Guarded \cup PermitOnly) = 0
      /\ Gain(t, {"popped"}) = 0 /\ Gain(t, {"pushed", "unpermit"}) = 0
      /\ Gain(t, {"permit", "pushed"}) = 0
  BY <1>4 DEF Gain, Guarded, PermitOnly
<1> QED BY <1>1, <1>2, <1>3, <1>4, <1>5, OptionsAssumption DEF Core, CoreType, Ledger, Entry

\* TryAcquire keeps the books.
LEMMA TryAcquireLedger ==
    ASSUME Core, NEW t \in Tasks, TryAcquire(t)
    PROVE  CoreType' /\ Ledger(t)
<1>0. t \in Procs
  BY ProcsAssumption DEF Procs
<1>1. /\ pc[t] = "out" /\ pc'[t] = "try"
      /\ is_closed' = is_closed
      /\ t \in Closers => is_closed'
  BY <1>0, ProcsAssumption DEF Core, CoreType, ClosersReady, TryAcquire, Step, StepAs, closing, counters, sem
<1>2. Moves(t)
  BY <1>0 DEF Core, CoreType, Moves, TryAcquire, Step, StepAs, closing, counters, sem
<1>3. CoreType'
  BY <1>0, OptionsAssumption, SMTT(60) DEF Core, CoreType, Labels, Guarded, PermitOnly, Free, Roles, TryAcquire, Step, StepAs, closing, counters, sem
<1>4. /\ pc[t] = "out" /\ pc'[t] = "try"
      /\ UNCHANGED <<size, idle, num_idle, leaked, permits>>
  BY <1>0, OptionsAssumption, SMTT(60) DEF Core, CoreType, TryAcquire, Step, StepAs, closing, counters, sem
<1>5. /\ Gain(t, Guarded) = 0 /\ Gain(t, Guarded \cup PermitOnly) = 0
      /\ Gain(t, {"popped"}) = 0 /\ Gain(t, {"pushed", "unpermit"}) = 0
      /\ Gain(t, {"permit", "pushed"}) = 0
  BY <1>4 DEF Gain, Guarded, PermitOnly
<1> QED BY <1>1, <1>2, <1>3, <1>4, <1>5, OptionsAssumption DEF Core, CoreType, Ledger, Entry

\* TryPermit keeps the books.
LEMMA TryPermitLedger ==
    ASSUME Core, NEW p \in Tasks \cup {Reaper}, TryPermit(p)
    PROVE  CoreType' /\ Ledger(p)
<1>0. p \in Procs
  BY ProcsAssumption DEF Procs
<1>1. /\ pc[p] = "try" /\ pc'[p] \in {"dead", "out", "permit", "reap"}
      /\ is_closed' = is_closed
      /\ p \in Closers => is_closed'
  BY <1>0, ProcsAssumption DEF Core, CoreType, ClosersReady, TryPermit, Step, StepAs, closing, counters, sem, TryGrantable, Finished
<1>2. Moves(p)
  BY <1>0 DEF Core, CoreType, Moves, TryPermit, Step, StepAs, closing, counters, sem, TryGrantable, Finished
<1>3. CASE TryGrantable
  <2>1. CoreType'
    BY <1>0, <1>3, OptionsAssumption, SMTT(60) DEF Core, CoreType, Labels, Guarded, PermitOnly, Free, Roles, TryPermit, Step, StepAs, closing, counters, sem, TryGrantable, Finished
  <2>2. /\ pc[p] = "try" /\ pc'[p] = "permit"
        /\ UNCHANGED <<size, idle, num_idle, leaked>> /\ permits' = permits - 1
    BY <1>0, <1>3, OptionsAssumption, SMTT(60) DEF Core, CoreType, TryPermit, Step, StepAs, closing, counters, sem, TryGrantable, Finished
  <2>3. /\ Gain(p, Guarded) = 0 /\ Gain(p, Guarded \cup PermitOnly) = 1
        /\ Gain(p, {"popped"}) = 0 /\ Gain(p, {"pushed", "unpermit"}) = 0
        /\ Gain(p, {"permit", "pushed"}) = 1
    BY <2>2 DEF Gain, Guarded, PermitOnly
  <2> QED BY <1>1, <1>2, <2>1, <2>2, <2>3, <1>3, OptionsAssumption DEF Core, CoreType, Ledger, Entry
<1>4. CASE ~TryGrantable
  <2>1. CoreType'
    BY <1>0, <1>4, OptionsAssumption, SMTT(60) DEF Core, CoreType, Labels, Guarded, PermitOnly, Free, Roles, TryPermit, Step, StepAs, closing, counters, sem, TryGrantable, Finished
  <2>2. /\ pc[p] = "try" /\ pc'[p] \in {"out", "reap", "dead"}
        /\ UNCHANGED <<size, idle, num_idle, leaked, permits>>
    BY <1>0, <1>4, OptionsAssumption, SMTT(60) DEF Core, CoreType, TryPermit, Step, StepAs, closing, counters, sem, TryGrantable, Finished
  <2>3. /\ Gain(p, Guarded) = 0 /\ Gain(p, Guarded \cup PermitOnly) = 0
        /\ Gain(p, {"popped"}) = 0 /\ Gain(p, {"pushed", "unpermit"}) = 0
        /\ Gain(p, {"permit", "pushed"}) = 0
    BY <2>2 DEF Gain, Guarded, PermitOnly
  <2> QED BY <1>1, <1>2, <2>1, <2>2, <2>3, <1>4, OptionsAssumption DEF Core, CoreType, Ledger, Entry
<1> QED BY <1>3, <1>4, OptionsAssumption DEF Core, CoreType

\* PopIdle keeps the books.
LEMMA PopIdleLedger ==
    ASSUME Core, NEW p \in Tasks \cup {Reaper}, PopIdle(p)
    PROVE  CoreType' /\ Ledger(p)
<1>0. p \in Procs
  BY ProcsAssumption DEF Procs
<1>1. /\ pc[p] = "permit" /\ pc'[p] \in {"drop_permit", "nopop", "popped"}
      /\ is_closed' = is_closed
      /\ p \in Closers => is_closed'
  BY <1>0, ProcsAssumption DEF Core, CoreType, ClosersReady, PopIdle, Step, StepAs, closing, counters, sem
<1>2. Moves(p)
  BY <1>0 DEF Core, CoreType, Moves, PopIdle, Step, StepAs, closing, counters, sem
<1>3. CASE idle > 0
  <2>1. CoreType'
    BY <1>0, <1>3, OptionsAssumption, SMTT(60) DEF Core, CoreType, Labels, Guarded, PermitOnly, Free, Roles, PopIdle, Step, StepAs, closing, counters, sem
  <2>2. /\ pc[p] = "permit" /\ pc'[p] = "popped"
        /\ UNCHANGED <<size, num_idle, leaked, permits>> /\ idle' = idle - 1
    BY <1>0, <1>3, OptionsAssumption, SMTT(60) DEF Core, CoreType, PopIdle, Step, StepAs, closing, counters, sem
  <2>3. /\ Gain(p, Guarded) = 1 /\ Gain(p, Guarded \cup PermitOnly) = 0
        /\ Gain(p, {"popped"}) = 1 /\ Gain(p, {"pushed", "unpermit"}) = 0
        /\ Gain(p, {"permit", "pushed"}) = -1
    BY <2>2 DEF Gain, Guarded, PermitOnly
  <2> QED BY <1>1, <1>2, <2>1, <2>2, <2>3, <1>3, OptionsAssumption DEF Core, CoreType, Ledger, Entry
<1>4. CASE idle = 0
  <2>1. CoreType'
    BY <1>0, <1>4, OptionsAssumption, SMTT(60) DEF Core, CoreType, Labels, Guarded, PermitOnly, Free, Roles, PopIdle, Step, StepAs, closing, counters, sem
  <2>2. /\ pc[p] = "permit" /\ pc'[p] \in {"nopop", "drop_permit"}
        /\ UNCHANGED <<size, idle, num_idle, leaked, permits>>
    BY <1>0, <1>4, OptionsAssumption, SMTT(60) DEF Core, CoreType, PopIdle, Step, StepAs, closing, counters, sem
  <2>3. /\ Gain(p, Guarded) = 0 /\ Gain(p, Guarded \cup PermitOnly) = 0
        /\ Gain(p, {"popped"}) = 0 /\ Gain(p, {"pushed", "unpermit"}) = 0
        /\ Gain(p, {"permit", "pushed"}) = -1
    BY <2>2 DEF Gain, Guarded, PermitOnly
  <2> QED BY <1>1, <1>2, <2>1, <2>2, <2>3, <1>4, OptionsAssumption DEF Core, CoreType, Ledger, Entry
<1> QED BY <1>3, <1>4, OptionsAssumption DEF Core, CoreType

\* DecNumIdle keeps the books.
LEMMA DecNumIdleLedger ==
    ASSUME Core, NEW p \in Tasks \cup {Reaper}, DecNumIdle(p)
    PROVE  CoreType' /\ Ledger(p)
<1>0. p \in Procs
  BY ProcsAssumption DEF Procs
<1>1. /\ pc[p] = "popped" /\ pc'[p] \in {"check", "held", "inspect"}
      /\ is_closed' = is_closed
      /\ p \in Closers => is_closed'
  BY <1>0, ProcsAssumption DEF Core, CoreType, ClosersReady, DecNumIdle, Step, StepAs, closing, counters, sem
<1>2. Moves(p)
  BY <1>0 DEF Core, CoreType, Moves, DecNumIdle, Step, StepAs, closing, counters, sem
<1>3. CoreType'
  BY <1>0, OptionsAssumption, SMTT(60) DEF Core, CoreType, Labels, Guarded, PermitOnly, Free, Roles, DecNumIdle, Step, StepAs, closing, counters, sem
<1>4. /\ pc[p] = "popped" /\ pc'[p] \in {"check", "inspect", "held"}
      /\ UNCHANGED <<size, idle, leaked, permits>> /\ num_idle' = num_idle - 1
  BY <1>0, OptionsAssumption, SMTT(60) DEF Core, CoreType, DecNumIdle, Step, StepAs, closing, counters, sem
<1>5. /\ Gain(p, Guarded) = 0 /\ Gain(p, Guarded \cup PermitOnly) = 0
      /\ Gain(p, {"popped"}) = -1 /\ Gain(p, {"pushed", "unpermit"}) = 0
      /\ Gain(p, {"permit", "pushed"}) = 0
  BY <1>4 DEF Gain, Guarded, PermitOnly
<1> QED BY <1>1, <1>2, <1>3, <1>4, <1>5, OptionsAssumption DEF Core, CoreType, Ledger, Entry

\* CheckIdleConn keeps the books.
LEMMA CheckIdleConnLedger ==
    ASSUME Core, NEW t \in Tasks, CheckIdleConn(t)
    PROVE  CoreType' /\ Ledger(t)
<1>0. t \in Procs
  BY ProcsAssumption DEF Procs
<1>1. /\ pc[t] = "check" /\ pc'[t] \in {"discard", "held"}
      /\ is_closed' = is_closed
      /\ t \in Closers => is_closed'
  BY <1>0, ProcsAssumption DEF Core, CoreType, ClosersReady, CheckIdleConn, Step, StepAs, closing, counters, sem
<1>2. Moves(t)
  BY <1>0 DEF Core, CoreType, Moves, CheckIdleConn, Step, StepAs, closing, counters, sem
<1>3. CoreType'
  BY <1>0, OptionsAssumption, SMTT(60) DEF Core, CoreType, Labels, Guarded, PermitOnly, Free, Roles, CheckIdleConn, Step, StepAs, closing, counters, sem
<1>4. /\ pc[t] = "check" /\ pc'[t] \in {"held", "discard"}
      /\ UNCHANGED <<size, idle, num_idle, leaked, permits>>
  BY <1>0, OptionsAssumption, SMTT(60) DEF Core, CoreType, CheckIdleConn, Step, StepAs, closing, counters, sem
<1>5. /\ Gain(t, Guarded) = 0 /\ Gain(t, Guarded \cup PermitOnly) = 0
      /\ Gain(t, {"popped"}) = 0 /\ Gain(t, {"pushed", "unpermit"}) = 0
      /\ Gain(t, {"permit", "pushed"}) = 0
  BY <1>4 DEF Gain, Guarded, PermitOnly
<1> QED BY <1>1, <1>2, <1>3, <1>4, <1>5, OptionsAssumption DEF Core, CoreType, Ledger, Entry

\* Discarded keeps the books.
LEMMA DiscardedLedger ==
    ASSUME Core, NEW t \in Tasks, Discarded(t)
    PROVE  CoreType' /\ Ledger(t)
<1>0. t \in Procs
  BY ProcsAssumption DEF Procs
<1>1. /\ pc[t] = "discard" /\ pc'[t] = "connect"
      /\ is_closed' = is_closed
      /\ t \in Closers => is_closed'
  BY <1>0, ProcsAssumption DEF Core, CoreType, ClosersReady, Discarded, Step, StepAs, closing, counters, sem
<1>2. Moves(t)
  BY <1>0 DEF Core, CoreType, Moves, Discarded, Step, StepAs, closing, counters, sem
<1>3. CoreType'
  BY <1>0, OptionsAssumption, SMTT(60) DEF Core, CoreType, Labels, Guarded, PermitOnly, Free, Roles, Discarded, Step, StepAs, closing, counters, sem
<1>4. /\ pc[t] = "discard" /\ pc'[t] = "connect"
      /\ UNCHANGED <<size, idle, num_idle, leaked, permits>>
  BY <1>0, OptionsAssumption, SMTT(60) DEF Core, CoreType, Discarded, Step, StepAs, closing, counters, sem
<1>5. /\ Gain(t, Guarded) = 0 /\ Gain(t, Guarded \cup PermitOnly) = 0
      /\ Gain(t, {"popped"}) = 0 /\ Gain(t, {"pushed", "unpermit"}) = 0
      /\ Gain(t, {"permit", "pushed"}) = 0
  BY <1>4 DEF Gain, Guarded, PermitOnly
<1> QED BY <1>1, <1>2, <1>3, <1>4, <1>5, OptionsAssumption DEF Core, CoreType, Ledger, Entry

\* TryIncrementCheck keeps the books.
LEMMA TryIncrementCheckLedger ==
    ASSUME Core, NEW p \in Tasks \cup {Reaper}, TryIncrementCheck(p)
    PROVE  CoreType' /\ Ledger(p)
<1>0. p \in Procs
  BY ProcsAssumption DEF Procs
<1>1. /\ pc[p] = "nopop" /\ pc'[p] \in {"drop_permit", "inc", "retry"}
      /\ is_closed' = is_closed
      /\ p \in Closers => is_closed'
  BY <1>0, ProcsAssumption DEF Core, CoreType, ClosersReady, TryIncrementCheck, Step, StepAs, closing, counters, sem, NoIncrement
<1>2. Moves(p)
  BY <1>0 DEF Core, CoreType, Moves, TryIncrementCheck, Step, StepAs, closing, counters, sem, NoIncrement
<1>3. CoreType'
  BY <1>0, OptionsAssumption, SMTT(60) DEF Core, CoreType, Labels, Guarded, PermitOnly, Free, Roles, TryIncrementCheck, Step, StepAs, closing, counters, sem, NoIncrement
<1>4. /\ pc[p] = "nopop" /\ pc'[p] \in {"retry", "drop_permit", "inc"}
      /\ UNCHANGED <<size, idle, num_idle, leaked, permits>>
  BY <1>0, OptionsAssumption, SMTT(60) DEF Core, CoreType, TryIncrementCheck, Step, StepAs, closing, counters, sem, NoIncrement
<1>5. /\ Gain(p, Guarded) = 0 /\ Gain(p, Guarded \cup PermitOnly) = 0
      /\ Gain(p, {"popped"}) = 0 /\ Gain(p, {"pushed", "unpermit"}) = 0
      /\ Gain(p, {"permit", "pushed"}) = 0
  BY <1>4 DEF Gain, Guarded, PermitOnly
<1> QED BY <1>1, <1>2, <1>3, <1>4, <1>5, OptionsAssumption DEF Core, CoreType, Ledger, Entry

\* TryIncrementSize keeps the books.
LEMMA TryIncrementSizeLedger ==
    ASSUME Core, NEW p \in Tasks \cup {Reaper}, TryIncrementSize(p)
    PROVE  CoreType' /\ Ledger(p)
<1>0. p \in Procs
  BY ProcsAssumption DEF Procs
<1>1. /\ pc[p] = "inc" /\ pc'[p] \in {"connect", "drop_permit", "retry"}
      /\ is_closed' = is_closed
      /\ p \in Closers => is_closed'
  BY <1>0, ProcsAssumption DEF Core, CoreType, ClosersReady, TryIncrementSize, Step, StepAs, closing, counters, sem, NoIncrement
<1>2. Moves(p)
  BY <1>0 DEF Core, CoreType, Moves, TryIncrementSize, Step, StepAs, closing, counters, sem, NoIncrement
<1>3. CASE size < MaxConnections
  <2>1. CoreType'
    BY <1>0, <1>3, OptionsAssumption, SMTT(60) DEF Core, CoreType, Labels, Guarded, PermitOnly, Free, Roles, TryIncrementSize, Step, StepAs, closing, counters, sem, NoIncrement
  <2>2. /\ pc[p] = "inc" /\ pc'[p] = "connect"
        /\ UNCHANGED <<idle, num_idle, leaked, permits>> /\ size' = size + 1
    BY <1>0, <1>3, OptionsAssumption, SMTT(60) DEF Core, CoreType, TryIncrementSize, Step, StepAs, closing, counters, sem, NoIncrement
  <2>3. /\ Gain(p, Guarded) = 1 /\ Gain(p, Guarded \cup PermitOnly) = 0
        /\ Gain(p, {"popped"}) = 0 /\ Gain(p, {"pushed", "unpermit"}) = 0
        /\ Gain(p, {"permit", "pushed"}) = 0
    BY <2>2 DEF Gain, Guarded, PermitOnly
  <2> QED BY <1>1, <1>2, <2>1, <2>2, <2>3, <1>3, OptionsAssumption DEF Core, CoreType, Ledger, Entry
<1>4. CASE size >= MaxConnections
  <2>1. CoreType'
    BY <1>0, <1>4, OptionsAssumption, SMTT(60) DEF Core, CoreType, Labels, Guarded, PermitOnly, Free, Roles, TryIncrementSize, Step, StepAs, closing, counters, sem, NoIncrement
  <2>2. /\ pc[p] = "inc" /\ pc'[p] \in {"retry", "drop_permit"}
        /\ UNCHANGED <<size, idle, num_idle, leaked, permits>>
    BY <1>0, <1>4, OptionsAssumption, SMTT(60) DEF Core, CoreType, TryIncrementSize, Step, StepAs, closing, counters, sem, NoIncrement
  <2>3. /\ Gain(p, Guarded) = 0 /\ Gain(p, Guarded \cup PermitOnly) = 0
        /\ Gain(p, {"popped"}) = 0 /\ Gain(p, {"pushed", "unpermit"}) = 0
        /\ Gain(p, {"permit", "pushed"}) = 0
    BY <2>2 DEF Gain, Guarded, PermitOnly
  <2> QED BY <1>1, <1>2, <2>1, <2>2, <2>3, <1>4, OptionsAssumption DEF Core, CoreType, Ledger, Entry
<1> QED BY <1>3, <1>4, OptionsAssumption DEF Core, CoreType

\* Retry keeps the books.
LEMMA RetryLedger ==
    ASSUME Core, NEW t \in Tasks, Retry(t)
    PROVE  CoreType' /\ Ledger(t)
<1>0. t \in Procs
  BY ProcsAssumption DEF Procs
<1>1. /\ pc[t] = "retry" /\ pc'[t] = "call"
      /\ is_closed' = is_closed
      /\ t \in Closers => is_closed'
  BY <1>0, ProcsAssumption DEF Core, CoreType, ClosersReady, Retry, Step, StepAs, closing, counters, sem
<1>2. Moves(t)
  BY <1>0 DEF Core, CoreType, Moves, Retry, Step, StepAs, closing, counters, sem
<1>3. CoreType'
  BY <1>0, OptionsAssumption, SMTT(60) DEF Core, CoreType, Labels, Guarded, PermitOnly, Free, Roles, Retry, Step, StepAs, closing, counters, sem
<1>4. /\ pc[t] = "retry" /\ pc'[t] = "call"
      /\ UNCHANGED <<size, idle, num_idle, leaked>> /\ permits' = permits + 1
  BY <1>0, OptionsAssumption, SMTT(60) DEF Core, CoreType, Retry, Step, StepAs, closing, counters, sem
<1>5. /\ Gain(t, Guarded) = 0 /\ Gain(t, Guarded \cup PermitOnly) = -1
      /\ Gain(t, {"popped"}) = 0 /\ Gain(t, {"pushed", "unpermit"}) = 0
      /\ Gain(t, {"permit", "pushed"}) = 0
  BY <1>4 DEF Gain, Guarded, PermitOnly
<1> QED BY <1>1, <1>2, <1>3, <1>4, <1>5, OptionsAssumption DEF Core, CoreType, Ledger, Entry

\* DropPermit keeps the books.
LEMMA DropPermitLedger ==
    ASSUME Core, NEW p \in Tasks \cup {Reaper}, DropPermit(p)
    PROVE  CoreType' /\ Ledger(p)
<1>0. p \in Procs
  BY ProcsAssumption DEF Procs
<1>1. /\ pc[p] = "drop_permit" /\ pc'[p] \in {"dead", "out", "reap"}
      /\ is_closed' = is_closed
      /\ p \in Closers => is_closed'
  BY <1>0, ProcsAssumption DEF Core, CoreType, ClosersReady, DropPermit, Step, StepAs, closing, counters, sem, Finished
<1>2. Moves(p)
  BY <1>0 DEF Core, CoreType, Moves, DropPermit, Step, StepAs, closing, counters, sem, Finished
<1>3. CoreType'
  BY <1>0, OptionsAssumption, SMTT(60) DEF Core, CoreType, Labels, Guarded, PermitOnly, Free, Roles, DropPermit, Step, StepAs, closing, counters, sem, Finished
<1>4. /\ pc[p] = "drop_permit" /\ pc'[p] \in {"out", "reap", "dead"}
      /\ UNCHANGED <<size, idle, num_idle, leaked>> /\ permits' = permits + 1
  BY <1>0, OptionsAssumption, SMTT(60) DEF Core, CoreType, DropPermit, Step, StepAs, closing, counters, sem, Finished
<1>5. /\ Gain(p, Guarded) = 0 /\ Gain(p, Guarded \cup PermitOnly) = -1
      /\ Gain(p, {"popped"}) = 0 /\ Gain(p, {"pushed", "unpermit"}) = 0
      /\ Gain(p, {"permit", "pushed"}) = 0
  BY <1>4 DEF Gain, Guarded, PermitOnly
<1> QED BY <1>1, <1>2, <1>3, <1>4, <1>5, OptionsAssumption DEF Core, CoreType, Ledger, Entry

\* ConnectCheck keeps the books.
LEMMA ConnectCheckLedger ==
    ASSUME Core, NEW p \in Tasks \cup {Reaper}, ConnectCheck(p)
    PROVE  CoreType' /\ Ledger(p)
<1>0. p \in Procs
  BY ProcsAssumption DEF Procs
<1>1. /\ pc[p] = "connect" /\ pc'[p] \in {"dec", "dial"}
      /\ is_closed' = is_closed
      /\ p \in Closers => is_closed'
  BY <1>0, ProcsAssumption DEF Core, CoreType, ClosersReady, ConnectCheck, Step, StepAs, closing, counters, sem
<1>2. Moves(p)
  BY <1>0 DEF Core, CoreType, Moves, ConnectCheck, Step, StepAs, closing, counters, sem
<1>3. CoreType'
  BY <1>0, OptionsAssumption, SMTT(60) DEF Core, CoreType, Labels, Guarded, PermitOnly, Free, Roles, ConnectCheck, Step, StepAs, closing, counters, sem
<1>4. /\ pc[p] = "connect" /\ pc'[p] \in {"dec", "dial"}
      /\ UNCHANGED <<size, idle, num_idle, leaked, permits>>
  BY <1>0, OptionsAssumption, SMTT(60) DEF Core, CoreType, ConnectCheck, Step, StepAs, closing, counters, sem
<1>5. /\ Gain(p, Guarded) = 0 /\ Gain(p, Guarded \cup PermitOnly) = 0
      /\ Gain(p, {"popped"}) = 0 /\ Gain(p, {"pushed", "unpermit"}) = 0
      /\ Gain(p, {"permit", "pushed"}) = 0
  BY <1>4 DEF Gain, Guarded, PermitOnly
<1> QED BY <1>1, <1>2, <1>3, <1>4, <1>5, OptionsAssumption DEF Core, CoreType, Ledger, Entry

\* DialOk keeps the books.
LEMMA DialOkLedger ==
    ASSUME Core, NEW p \in Tasks \cup {Reaper}, DialOk(p)
    PROVE  CoreType' /\ Ledger(p)
<1>0. p \in Procs
  BY ProcsAssumption DEF Procs
<1>1. /\ pc[p] = "dial" /\ pc'[p] = "hook"
      /\ is_closed' = is_closed
      /\ p \in Closers => is_closed'
  BY <1>0, ProcsAssumption DEF Core, CoreType, ClosersReady, DialOk, Step, StepAs, closing, counters, sem
<1>2. Moves(p)
  BY <1>0 DEF Core, CoreType, Moves, DialOk, Step, StepAs, closing, counters, sem
<1>3. CoreType'
  BY <1>0, OptionsAssumption, SMTT(60) DEF Core, CoreType, Labels, Guarded, PermitOnly, Free, Roles, DialOk, Step, StepAs, closing, counters, sem
<1>4. /\ pc[p] = "dial" /\ pc'[p] = "hook"
      /\ UNCHANGED <<size, idle, num_idle, leaked, permits>>
  BY <1>0, OptionsAssumption, SMTT(60) DEF Core, CoreType, DialOk, Step, StepAs, closing, counters, sem
<1>5. /\ Gain(p, Guarded) = 0 /\ Gain(p, Guarded \cup PermitOnly) = 0
      /\ Gain(p, {"popped"}) = 0 /\ Gain(p, {"pushed", "unpermit"}) = 0
      /\ Gain(p, {"permit", "pushed"}) = 0
  BY <1>4 DEF Gain, Guarded, PermitOnly
<1> QED BY <1>1, <1>2, <1>3, <1>4, <1>5, OptionsAssumption DEF Core, CoreType, Ledger, Entry

\* DialFail keeps the books.
LEMMA DialFailLedger ==
    ASSUME Core, NEW p \in Tasks \cup {Reaper}, DialFail(p)
    PROVE  CoreType' /\ Ledger(p)
<1>0. p \in Procs
  BY ProcsAssumption DEF Procs
<1>1. /\ pc[p] = "dial" /\ pc'[p] = "dec"
      /\ is_closed' = is_closed
      /\ p \in Closers => is_closed'
  BY <1>0, ProcsAssumption DEF Core, CoreType, ClosersReady, DialFail, Step, StepAs, closing, counters, sem
<1>2. Moves(p)
  BY <1>0 DEF Core, CoreType, Moves, DialFail, Step, StepAs, closing, counters, sem
<1>3. CoreType'
  BY <1>0, OptionsAssumption, SMTT(60) DEF Core, CoreType, Labels, Guarded, PermitOnly, Free, Roles, DialFail, Step, StepAs, closing, counters, sem
<1>4. /\ pc[p] = "dial" /\ pc'[p] = "dec"
      /\ UNCHANGED <<size, idle, num_idle, leaked, permits>>
  BY <1>0, OptionsAssumption, SMTT(60) DEF Core, CoreType, DialFail, Step, StepAs, closing, counters, sem
<1>5. /\ Gain(p, Guarded) = 0 /\ Gain(p, Guarded \cup PermitOnly) = 0
      /\ Gain(p, {"popped"}) = 0 /\ Gain(p, {"pushed", "unpermit"}) = 0
      /\ Gain(p, {"permit", "pushed"}) = 0
  BY <1>4 DEF Gain, Guarded, PermitOnly
<1> QED BY <1>1, <1>2, <1>3, <1>4, <1>5, OptionsAssumption DEF Core, CoreType, Ledger, Entry

\* AfterConnect keeps the books.
LEMMA AfterConnectLedger ==
    ASSUME Core, NEW p \in Tasks \cup {Reaper}, AfterConnect(p)
    PROVE  CoreType' /\ Ledger(p)
<1>0. p \in Procs
  BY ProcsAssumption DEF Procs
<1>1. /\ pc[p] = "hook" /\ pc'[p] \in {"dial", "held", "push"}
      /\ is_closed' = is_closed
      /\ p \in Closers => is_closed'
  BY <1>0, ProcsAssumption DEF Core, CoreType, ClosersReady, AfterConnect, Step, StepAs, closing, counters, sem
<1>2. Moves(p)
  BY <1>0 DEF Core, CoreType, Moves, AfterConnect, Step, StepAs, closing, counters, sem
<1>3. CoreType'
  BY <1>0, OptionsAssumption, SMTT(60) DEF Core, CoreType, Labels, Guarded, PermitOnly, Free, Roles, AfterConnect, Step, StepAs, closing, counters, sem
<1>4. /\ pc[p] = "hook" /\ pc'[p] \in {"held", "push", "dial"}
      /\ UNCHANGED <<size, idle, num_idle, leaked, permits>>
  BY <1>0, OptionsAssumption, SMTT(60) DEF Core, CoreType, AfterConnect, Step, StepAs, closing, counters, sem
<1>5. /\ Gain(p, Guarded) = 0 /\ Gain(p, Guarded \cup PermitOnly) = 0
      /\ Gain(p, {"popped"}) = 0 /\ Gain(p, {"pushed", "unpermit"}) = 0
      /\ Gain(p, {"permit", "pushed"}) = 0
  BY <1>4 DEF Gain, Guarded, PermitOnly
<1> QED BY <1>1, <1>2, <1>3, <1>4, <1>5, OptionsAssumption DEF Core, CoreType, Ledger, Entry

\* DropConnection keeps the books.
LEMMA DropConnectionLedger ==
    ASSUME Core, NEW t \in Tasks, DropConnection(t)
    PROVE  CoreType' /\ Ledger(t)
<1>0. t \in Procs
  BY ProcsAssumption DEF Procs
<1>1. /\ pc[t] = "held" /\ pc'[t] = "ret"
      /\ is_closed' = is_closed
      /\ t \in Closers => is_closed'
  BY <1>0, ProcsAssumption DEF Core, CoreType, ClosersReady, DropConnection, Step, StepAs, closing, counters, sem
<1>2. Moves(t)
  BY <1>0 DEF Core, CoreType, Moves, DropConnection, Step, StepAs, closing, counters, sem
<1>3. CoreType'
  BY <1>0, OptionsAssumption, SMTT(60) DEF Core, CoreType, Labels, Guarded, PermitOnly, Free, Roles, DropConnection, Step, StepAs, closing, counters, sem
<1>4. /\ pc[t] = "held" /\ pc'[t] = "ret"
      /\ UNCHANGED <<size, idle, num_idle, leaked, permits>>
  BY <1>0, OptionsAssumption, SMTT(60) DEF Core, CoreType, DropConnection, Step, StepAs, closing, counters, sem
<1>5. /\ Gain(t, Guarded) = 0 /\ Gain(t, Guarded \cup PermitOnly) = 0
      /\ Gain(t, {"popped"}) = 0 /\ Gain(t, {"pushed", "unpermit"}) = 0
      /\ Gain(t, {"permit", "pushed"}) = 0
  BY <1>4 DEF Gain, Guarded, PermitOnly
<1> QED BY <1>1, <1>2, <1>3, <1>4, <1>5, OptionsAssumption DEF Core, CoreType, Ledger, Entry

\* CloseConnection keeps the books.
LEMMA CloseConnectionLedger ==
    ASSUME Core, NEW t \in Tasks, CloseConnection(t)
    PROVE  CoreType' /\ Ledger(t)
<1>0. t \in Procs
  BY ProcsAssumption DEF Procs
<1>1. /\ pc[t] = "held" /\ pc'[t] = "closing"
      /\ is_closed' = is_closed
      /\ t \in Closers => is_closed'
  BY <1>0, ProcsAssumption DEF Core, CoreType, ClosersReady, CloseConnection, Step, StepAs, closing, counters, sem
<1>2. Moves(t)
  BY <1>0 DEF Core, CoreType, Moves, CloseConnection, Step, StepAs, closing, counters, sem
<1>3. CoreType'
  BY <1>0, OptionsAssumption, SMTT(60) DEF Core, CoreType, Labels, Guarded, PermitOnly, Free, Roles, CloseConnection, Step, StepAs, closing, counters, sem
<1>4. /\ pc[t] = "held" /\ pc'[t] = "closing"
      /\ UNCHANGED <<size, idle, num_idle, leaked, permits>>
  BY <1>0, OptionsAssumption, SMTT(60) DEF Core, CoreType, CloseConnection, Step, StepAs, closing, counters, sem
<1>5. /\ Gain(t, Guarded) = 0 /\ Gain(t, Guarded \cup PermitOnly) = 0
      /\ Gain(t, {"popped"}) = 0 /\ Gain(t, {"pushed", "unpermit"}) = 0
      /\ Gain(t, {"permit", "pushed"}) = 0
  BY <1>4 DEF Gain, Guarded, PermitOnly
<1> QED BY <1>1, <1>2, <1>3, <1>4, <1>5, OptionsAssumption DEF Core, CoreType, Ledger, Entry

\* Detach keeps the books.
LEMMA DetachLedger ==
    ASSUME Core, NEW t \in Tasks, Detach(t)
    PROVE  CoreType' /\ Ledger(t)
<1>0. t \in Procs
  BY ProcsAssumption DEF Procs
<1>1. /\ pc[t] = "held" /\ pc'[t] = "dec"
      /\ is_closed' = is_closed
      /\ t \in Closers => is_closed'
  BY <1>0, ProcsAssumption DEF Core, CoreType, ClosersReady, Detach, Step, StepAs, closing, counters, sem
<1>2. Moves(t)
  BY <1>0 DEF Core, CoreType, Moves, Detach, Step, StepAs, closing, counters, sem
<1>3. CoreType'
  BY <1>0, OptionsAssumption, SMTT(60) DEF Core, CoreType, Labels, Guarded, PermitOnly, Free, Roles, Detach, Step, StepAs, closing, counters, sem
<1>4. /\ pc[t] = "held" /\ pc'[t] = "dec"
      /\ UNCHANGED <<size, idle, num_idle, leaked, permits>>
  BY <1>0, OptionsAssumption, SMTT(60) DEF Core, CoreType, Detach, Step, StepAs, closing, counters, sem
<1>5. /\ Gain(t, Guarded) = 0 /\ Gain(t, Guarded \cup PermitOnly) = 0
      /\ Gain(t, {"popped"}) = 0 /\ Gain(t, {"pushed", "unpermit"}) = 0
      /\ Gain(t, {"permit", "pushed"}) = 0
  BY <1>4 DEF Gain, Guarded, PermitOnly
<1> QED BY <1>1, <1>2, <1>3, <1>4, <1>5, OptionsAssumption DEF Core, CoreType, Ledger, Entry

\* Leak keeps the books.
LEMMA LeakLedger ==
    ASSUME Core, NEW t \in Tasks, Leak(t)
    PROVE  CoreType' /\ Ledger(t)
<1>0. t \in Procs
  BY ProcsAssumption DEF Procs
<1>1. /\ pc[t] = "held" /\ pc'[t] = "min"
      /\ is_closed' = is_closed
      /\ t \in Closers => is_closed'
  BY <1>0, ProcsAssumption DEF Core, CoreType, ClosersReady, Leak, Step, StepAs, closing, counters, sem
<1>2. Moves(t)
  BY <1>0 DEF Core, CoreType, Moves, Leak, Step, StepAs, closing, counters, sem
<1>3. CoreType'
  BY <1>0, OptionsAssumption, SMTT(60) DEF Core, CoreType, Labels, Guarded, PermitOnly, Free, Roles, Leak, Step, StepAs, closing, counters, sem
<1>4. /\ pc[t] = "held" /\ pc'[t] = "min"
      /\ UNCHANGED <<size, idle, num_idle, permits>> /\ leaked' = leaked + 1
  BY <1>0, OptionsAssumption, SMTT(60) DEF Core, CoreType, Leak, Step, StepAs, closing, counters, sem
<1>5. /\ Gain(t, Guarded) = -1 /\ Gain(t, Guarded \cup PermitOnly) = -1
      /\ Gain(t, {"popped"}) = 0 /\ Gain(t, {"pushed", "unpermit"}) = 0
      /\ Gain(t, {"permit", "pushed"}) = 0
  BY <1>4 DEF Gain, Guarded, PermitOnly
<1> QED BY <1>1, <1>2, <1>3, <1>4, <1>5, OptionsAssumption DEF Core, CoreType, Ledger, Entry

\* ReturnCheck keeps the books.
LEMMA ReturnCheckLedger ==
    ASSUME Core, NEW t \in Tasks, ReturnCheck(t)
    PROVE  CoreType' /\ Ledger(t)
<1>0. t \in Procs
  BY ProcsAssumption DEF Procs
<1>1. /\ pc[t] = "ret" /\ pc'[t] \in {"closing", "test"}
      /\ is_closed' = is_closed
      /\ t \in Closers => is_closed'
  BY <1>0, ProcsAssumption DEF Core, CoreType, ClosersReady, ReturnCheck, Step, StepAs, closing, counters, sem
<1>2. Moves(t)
  BY <1>0 DEF Core, CoreType, Moves, ReturnCheck, Step, StepAs, closing, counters, sem
<1>3. CoreType'
  BY <1>0, OptionsAssumption, SMTT(60) DEF Core, CoreType, Labels, Guarded, PermitOnly, Free, Roles, ReturnCheck, Step, StepAs, closing, counters, sem
<1>4. /\ pc[t] = "ret" /\ pc'[t] \in {"closing", "test"}
      /\ UNCHANGED <<size, idle, num_idle, leaked, permits>>
  BY <1>0, OptionsAssumption, SMTT(60) DEF Core, CoreType, ReturnCheck, Step, StepAs, closing, counters, sem
<1>5. /\ Gain(t, Guarded) = 0 /\ Gain(t, Guarded \cup PermitOnly) = 0
      /\ Gain(t, {"popped"}) = 0 /\ Gain(t, {"pushed", "unpermit"}) = 0
      /\ Gain(t, {"permit", "pushed"}) = 0
  BY <1>4 DEF Gain, Guarded, PermitOnly
<1> QED BY <1>1, <1>2, <1>3, <1>4, <1>5, OptionsAssumption DEF Core, CoreType, Ledger, Entry

\* ReturnTest keeps the books.
LEMMA ReturnTestLedger ==
    ASSUME Core, NEW t \in Tasks, ReturnTest(t)
    PROVE  CoreType' /\ Ledger(t)
<1>0. t \in Procs
  BY ProcsAssumption DEF Procs
<1>1. /\ pc[t] = "test" /\ pc'[t] \in {"closing", "push"}
      /\ is_closed' = is_closed
      /\ t \in Closers => is_closed'
  BY <1>0, ProcsAssumption DEF Core, CoreType, ClosersReady, ReturnTest, Step, StepAs, closing, counters, sem
<1>2. Moves(t)
  BY <1>0 DEF Core, CoreType, Moves, ReturnTest, Step, StepAs, closing, counters, sem
<1>3. CoreType'
  BY <1>0, OptionsAssumption, SMTT(60) DEF Core, CoreType, Labels, Guarded, PermitOnly, Free, Roles, ReturnTest, Step, StepAs, closing, counters, sem
<1>4. /\ pc[t] = "test" /\ pc'[t] \in {"push", "closing"}
      /\ UNCHANGED <<size, idle, num_idle, leaked, permits>>
  BY <1>0, OptionsAssumption, SMTT(60) DEF Core, CoreType, ReturnTest, Step, StepAs, closing, counters, sem
<1>5. /\ Gain(t, Guarded) = 0 /\ Gain(t, Guarded \cup PermitOnly) = 0
      /\ Gain(t, {"popped"}) = 0 /\ Gain(t, {"pushed", "unpermit"}) = 0
      /\ Gain(t, {"permit", "pushed"}) = 0
  BY <1>4 DEF Gain, Guarded, PermitOnly
<1> QED BY <1>1, <1>2, <1>3, <1>4, <1>5, OptionsAssumption DEF Core, CoreType, Ledger, Entry

\* ConnectionClosed keeps the books.
LEMMA ConnectionClosedLedger ==
    ASSUME Core, NEW p \in Procs, ConnectionClosed(p)
    PROVE  CoreType' /\ Ledger(p)
<1>0. p \in Procs
  BY ProcsAssumption DEF Procs
<1>1. /\ pc[p] = "closing" /\ pc'[p] = "dec"
      /\ is_closed' = is_closed
      /\ p \in Closers => is_closed'
  BY <1>0, ProcsAssumption DEF Core, CoreType, ClosersReady, ConnectionClosed, Step, StepAs, closing, counters, sem
<1>2. Moves(p)
  BY <1>0 DEF Core, CoreType, Moves, ConnectionClosed, Step, StepAs, closing, counters, sem
<1>3. CoreType'
  BY <1>0, OptionsAssumption, SMTT(60) DEF Core, CoreType, Labels, Guarded, PermitOnly, Free, Roles, ConnectionClosed, Step, StepAs, closing, counters, sem
<1>4. /\ pc[p] = "closing" /\ pc'[p] = "dec"
      /\ UNCHANGED <<size, idle, num_idle, leaked, permits>>
  BY <1>0, OptionsAssumption, SMTT(60) DEF Core, CoreType, ConnectionClosed, Step, StepAs, closing, counters, sem
<1>5. /\ Gain(p, Guarded) = 0 /\ Gain(p, Guarded \cup PermitOnly) = 0
      /\ Gain(p, {"popped"}) = 0 /\ Gain(p, {"pushed", "unpermit"}) = 0
      /\ Gain(p, {"permit", "pushed"}) = 0
  BY <1>4 DEF Gain, Guarded, PermitOnly
<1> QED BY <1>1, <1>2, <1>3, <1>4, <1>5, OptionsAssumption DEF Core, CoreType, Ledger, Entry

\* PushIdle keeps the books.
LEMMA PushIdleLedger ==
    ASSUME Core, NEW p \in Tasks \cup {Reaper}, PushIdle(p)
    PROVE  CoreType' /\ Ledger(p)
<1>0. p \in Procs
  BY ProcsAssumption DEF Procs
<1>1. /\ pc[p] = "push" /\ pc'[p] = "pushed"
      /\ is_closed' = is_closed
      /\ p \in Closers => is_closed'
  BY <1>0, ProcsAssumption DEF Core, CoreType, ClosersReady, PushIdle, Step, StepAs, closing, counters, sem
<1>2. Moves(p)
  BY <1>0 DEF Core, CoreType, Moves, PushIdle, Step, StepAs, closing, counters, sem
<1>3. CoreType'
  BY <1>0, OptionsAssumption, SMTT(60) DEF Core, CoreType, Labels, Guarded, PermitOnly, Free, Roles, PushIdle, Step, StepAs, closing, counters, sem
<1>4. /\ pc[p] = "push" /\ pc'[p] = "pushed"
      /\ UNCHANGED <<size, num_idle, leaked, permits>> /\ idle' = idle + 1
  BY <1>0, OptionsAssumption, SMTT(60) DEF Core, CoreType, PushIdle, Step, StepAs, closing, counters, sem
<1>5. /\ Gain(p, Guarded) = -1 /\ Gain(p, Guarded \cup PermitOnly) = 0
      /\ Gain(p, {"popped"}) = 0 /\ Gain(p, {"pushed", "unpermit"}) = 1
      /\ Gain(p, {"permit", "pushed"}) = 1
  BY <1>4 DEF Gain, Guarded, PermitOnly
<1> QED BY <1>1, <1>2, <1>3, <1>4, <1>5, OptionsAssumption DEF Core, CoreType, Ledger, Entry

\* ReleasePermit keeps the books.
LEMMA ReleasePermitLedger ==
    ASSUME Core, NEW p \in Tasks \cup {Reaper}, ReleasePermit(p)
    PROVE  CoreType' /\ Ledger(p)
<1>0. p \in Procs
  BY ProcsAssumption DEF Procs
<1>1. /\ pc[p] = "pushed" /\ pc'[p] = "unpermit"
      /\ is_closed' = is_closed
      /\ p \in Closers => is_closed'
  BY <1>0, ProcsAssumption DEF Core, CoreType, ClosersReady, ReleasePermit, Step, StepAs, closing, counters, sem
<1>2. Moves(p)
  BY <1>0 DEF Core, CoreType, Moves, ReleasePermit, Step, StepAs, closing, counters, sem
<1>3. CoreType'
  BY <1>0, OptionsAssumption, SMTT(60) DEF Core, CoreType, Labels, Guarded, PermitOnly, Free, Roles, ReleasePermit, Step, StepAs, closing, counters, sem
<1>4. /\ pc[p] = "pushed" /\ pc'[p] = "unpermit"
      /\ UNCHANGED <<size, idle, num_idle, leaked>> /\ permits' = permits + 1
  BY <1>0, OptionsAssumption, SMTT(60) DEF Core, CoreType, ReleasePermit, Step, StepAs, closing, counters, sem
<1>5. /\ Gain(p, Guarded) = 0 /\ Gain(p, Guarded \cup PermitOnly) = -1
      /\ Gain(p, {"popped"}) = 0 /\ Gain(p, {"pushed", "unpermit"}) = 0
      /\ Gain(p, {"permit", "pushed"}) = -1
  BY <1>4 DEF Gain, Guarded, PermitOnly
<1> QED BY <1>1, <1>2, <1>3, <1>4, <1>5, OptionsAssumption DEF Core, CoreType, Ledger, Entry

\* IncNumIdle keeps the books.
LEMMA IncNumIdleLedger ==
    ASSUME Core, NEW p \in Tasks \cup {Reaper}, IncNumIdle(p)
    PROVE  CoreType' /\ Ledger(p)
<1>0. p \in Procs
  BY ProcsAssumption DEF Procs
<1>1. /\ pc[p] = "unpermit" /\ pc'[p] \in {"dead", "min", "out", "reap"}
      /\ is_closed' = is_closed
      /\ p \in Closers => is_closed'
  BY <1>0, ProcsAssumption DEF Core, CoreType, ClosersReady, IncNumIdle, Step, StepAs, closing, counters, sem, Finished
<1>2. Moves(p)
  BY <1>0 DEF Core, CoreType, Moves, IncNumIdle, Step, StepAs, closing, counters, sem, Finished
<1>3. CoreType'
  BY <1>0, OptionsAssumption, SMTT(60) DEF Core, CoreType, Labels, Guarded, PermitOnly, Free, Roles, IncNumIdle, Step, StepAs, closing, counters, sem, Finished
<1>4. /\ pc[p] = "unpermit" /\ pc'[p] \in {"min", "out", "reap", "dead"}
      /\ UNCHANGED <<size, idle, leaked, permits>> /\ num_idle' = num_idle + 1
  BY <1>0, OptionsAssumption, SMTT(60) DEF Core, CoreType, IncNumIdle, Step, StepAs, closing, counters, sem, Finished
<1>5. /\ Gain(p, Guarded) = 0 /\ Gain(p, Guarded \cup PermitOnly) = 0
      /\ Gain(p, {"popped"}) = 0 /\ Gain(p, {"pushed", "unpermit"}) = -1
      /\ Gain(p, {"permit", "pushed"}) = 0
  BY <1>4 DEF Gain, Guarded, PermitOnly
<1> QED BY <1>1, <1>2, <1>3, <1>4, <1>5, OptionsAssumption DEF Core, CoreType, Ledger, Entry

\* DecSize keeps the books.
LEMMA DecSizeLedger ==
    ASSUME Core, NEW p \in Procs, DecSize(p)
    PROVE  CoreType' /\ Ledger(p)
<1>0. p \in Procs
  BY ProcsAssumption DEF Procs
<1>1. /\ pc[p] = "dec" /\ pc'[p] = "dec2"
      /\ is_closed' = is_closed
      /\ p \in Closers => is_closed'
  BY <1>0, ProcsAssumption DEF Core, CoreType, ClosersReady, DecSize, Step, StepAs, closing, counters, sem
<1>2. Moves(p)
  BY <1>0 DEF Core, CoreType, Moves, DecSize, Step, StepAs, closing, counters, sem
<1>3. CoreType'
  BY <1>0, OptionsAssumption, SMTT(60) DEF Core, CoreType, Labels, Guarded, PermitOnly, Free, Roles, DecSize, Step, StepAs, closing, counters, sem
<1>4. /\ pc[p] = "dec" /\ pc'[p] = "dec2"
      /\ UNCHANGED <<idle, num_idle, leaked, permits>> /\ size' = size - 1
  BY <1>0, OptionsAssumption, SMTT(60) DEF Core, CoreType, DecSize, Step, StepAs, closing, counters, sem
<1>5. /\ Gain(p, Guarded) = -1 /\ Gain(p, Guarded \cup PermitOnly) = 0
      /\ Gain(p, {"popped"}) = 0 /\ Gain(p, {"pushed", "unpermit"}) = 0
      /\ Gain(p, {"permit", "pushed"}) = 0
  BY <1>4 DEF Gain, Guarded, PermitOnly
<1> QED BY <1>1, <1>2, <1>3, <1>4, <1>5, OptionsAssumption DEF Core, CoreType, Ledger, Entry

\* DecRelease keeps the books.
LEMMA DecReleaseLedger ==
    ASSUME Core, NEW p \in Procs, DecRelease(p)
    PROVE  CoreType' /\ Ledger(p)
<1>0. p \in Procs
  BY ProcsAssumption DEF Procs
<1>1. /\ pc[p] = "dec2" /\ pc'[p] \in {"dead", "drain", "min", "out", "reap"}
      /\ is_closed' = is_closed
      /\ p \in Closers => is_closed'
  BY <1>0, ProcsAssumption DEF Core, CoreType, ClosersReady, DecRelease, Step, StepAs, closing, counters, sem, AfterDrop, RoleAfterDrop, Finished
<1>2. Moves(p)
  BY <1>0 DEF Core, CoreType, Moves, DecRelease, Step, StepAs, closing, counters, sem, AfterDrop, RoleAfterDrop, Finished
<1>3. CoreType'
  BY <1>0, OptionsAssumption, SMTT(60) DEF Core, CoreType, Labels, Guarded, PermitOnly, Free, Roles, DecRelease, Step, StepAs, closing, counters, sem, AfterDrop, RoleAfterDrop, Finished
<1>4. /\ pc[p] = "dec2" /\ pc'[p] \in {"min", "drain", "out", "dead", "reap"}
      /\ UNCHANGED <<size, idle, num_idle, leaked>> /\ permits' = permits + 1
  BY <1>0, OptionsAssumption, SMTT(60) DEF Core, CoreType, DecRelease, Step, StepAs, closing, counters, sem, AfterDrop, RoleAfterDrop, Finished
<1>5. /\ Gain(p, Guarded) = 0 /\ Gain(p, Guarded \cup PermitOnly) = -1
      /\ Gain(p, {"popped"}) = 0 /\ Gain(p, {"pushed", "unpermit"}) = 0
      /\ Gain(p, {"permit", "pushed"}) = 0
  BY <1>4 DEF Gain, Guarded, PermitOnly
<1> QED BY <1>1, <1>2, <1>3, <1>4, <1>5, OptionsAssumption DEF Core, CoreType, Ledger, Entry

\* MinCheck keeps the books.
LEMMA MinCheckLedger ==
    ASSUME Core, NEW p \in Tasks \cup {Reaper}, MinCheck(p)
    PROVE  CoreType' /\ Ledger(p)
<1>0. p \in Procs
  BY ProcsAssumption DEF Procs
<1>1. /\ pc[p] = "min" /\ pc'[p] \in {"dead", "min_permit", "out", "reap"}
      /\ is_closed' = is_closed
      /\ p \in Closers => is_closed'
  BY <1>0, ProcsAssumption DEF Core, CoreType, ClosersReady, MinCheck, Step, StepAs, closing, counters, sem, Finished
<1>2. Moves(p)
  BY <1>0 DEF Core, CoreType, Moves, MinCheck, Step, StepAs, closing, counters, sem, Finished
<1>3. CASE size < MinConnections
  <2>1. CoreType'
    BY <1>0, <1>3, OptionsAssumption, SMTT(60) DEF Core, CoreType, Labels, Guarded, PermitOnly, Free, Roles, MinCheck, Step, StepAs, closing, counters, sem, Finished
  <2>2. /\ pc[p] = "min" /\ pc'[p] = "min_permit"
        /\ UNCHANGED <<size, idle, num_idle, leaked, permits>>
    BY <1>0, <1>3, OptionsAssumption, SMTT(60) DEF Core, CoreType, MinCheck, Step, StepAs, closing, counters, sem, Finished
  <2>3. /\ Gain(p, Guarded) = 0 /\ Gain(p, Guarded \cup PermitOnly) = 0
        /\ Gain(p, {"popped"}) = 0 /\ Gain(p, {"pushed", "unpermit"}) = 0
        /\ Gain(p, {"permit", "pushed"}) = 0
    BY <2>2 DEF Gain, Guarded, PermitOnly
  <2> QED BY <1>1, <1>2, <2>1, <2>2, <2>3, <1>3, OptionsAssumption DEF Core, CoreType, Ledger, Entry
<1>4. CASE size >= MinConnections
  <2>1. CoreType'
    BY <1>0, <1>4, OptionsAssumption, SMTT(60) DEF Core, CoreType, Labels, Guarded, PermitOnly, Free, Roles, MinCheck, Step, StepAs, closing, counters, sem, Finished
  <2>2. /\ pc[p] = "min" /\ pc'[p] \in {"out", "reap", "dead"}
        /\ UNCHANGED <<size, idle, num_idle, leaked, permits>>
    BY <1>0, <1>4, OptionsAssumption, SMTT(60) DEF Core, CoreType, MinCheck, Step, StepAs, closing, counters, sem, Finished
  <2>3. /\ Gain(p, Guarded) = 0 /\ Gain(p, Guarded \cup PermitOnly) = 0
        /\ Gain(p, {"popped"}) = 0 /\ Gain(p, {"pushed", "unpermit"}) = 0
        /\ Gain(p, {"permit", "pushed"}) = 0
    BY <2>2 DEF Gain, Guarded, PermitOnly
  <2> QED BY <1>1, <1>2, <2>1, <2>2, <2>3, <1>4, OptionsAssumption DEF Core, CoreType, Ledger, Entry
<1> QED BY <1>3, <1>4, OptionsAssumption DEF Core, CoreType

\* MinPermit keeps the books.
LEMMA MinPermitLedger ==
    ASSUME Core, NEW p \in Tasks \cup {Reaper}, MinPermit(p)
    PROVE  CoreType' /\ Ledger(p)
<1>0. p \in Procs
  BY ProcsAssumption DEF Procs
<1>1. /\ pc[p] = "min_permit" /\ pc'[p] \in {"dead", "nopop", "out", "reap"}
      /\ is_closed' = is_closed
      /\ p \in Closers => is_closed'
  BY <1>0, ProcsAssumption DEF Core, CoreType, ClosersReady, MinPermit, Step, StepAs, closing, counters, sem, TryGrantable, Finished
<1>2. Moves(p)
  BY <1>0 DEF Core, CoreType, Moves, MinPermit, Step, StepAs, closing, counters, sem, TryGrantable, Finished
<1>3. CASE TryGrantable
  <2>1. CoreType'
    BY <1>0, <1>3, OptionsAssumption, SMTT(60) DEF Core, CoreType, Labels, Guarded, PermitOnly, Free, Roles, MinPermit, Step, StepAs, closing, counters, sem, TryGrantable, Finished
  <2>2. /\ pc[p] = "min_permit" /\ pc'[p] = "nopop"
        /\ UNCHANGED <<size, idle, num_idle, leaked>> /\ permits' = permits - 1
    BY <1>0, <1>3, OptionsAssumption, SMTT(60) DEF Core, CoreType, MinPermit, Step, StepAs, closing, counters, sem, TryGrantable, Finished
  <2>3. /\ Gain(p, Guarded) = 0 /\ Gain(p, Guarded \cup PermitOnly) = 1
        /\ Gain(p, {"popped"}) = 0 /\ Gain(p, {"pushed", "unpermit"}) = 0
        /\ Gain(p, {"permit", "pushed"}) = 0
    BY <2>2 DEF Gain, Guarded, PermitOnly
  <2> QED BY <1>1, <1>2, <2>1, <2>2, <2>3, <1>3, OptionsAssumption DEF Core, CoreType, Ledger, Entry
<1>4. CASE ~TryGrantable
  <2>1. CoreType'
    BY <1>0, <1>4, OptionsAssumption, SMTT(60) DEF Core, CoreType, Labels, Guarded, PermitOnly, Free, Roles, MinPermit, Step, StepAs, closing, counters, sem, TryGrantable, Finished
  <2>2. /\ pc[p] = "min_permit" /\ pc'[p] \in {"out", "reap", "dead"}
        /\ UNCHANGED <<size, idle, num_idle, leaked, permits>>
    BY <1>0, <1>4, OptionsAssumption, SMTT(60) DEF Core, CoreType, MinPermit, Step, StepAs, closing, counters, sem, TryGrantable, Finished
  <2>3. /\ Gain(p, Guarded) = 0 /\ Gain(p, Guarded \cup PermitOnly) = 0
        /\ Gain(p, {"popped"}) = 0 /\ Gain(p, {"pushed", "unpermit"}) = 0
        /\ Gain(p, {"permit", "pushed"}) = 0
    BY <2>2 DEF Gain, Guarded, PermitOnly
  <2> QED BY <1>1, <1>2, <2>1, <2>2, <2>3, <1>4, OptionsAssumption DEF Core, CoreType, Ledger, Entry
<1> QED BY <1>3, <1>4, OptionsAssumption DEF Core, CoreType

\* ReapStart keeps the books.
LEMMA ReapStartLedger ==
    ASSUME Core, ReapStart
    PROVE  CoreType' /\ Ledger(Reaper)
<1>0. Reaper \in Procs
  BY ProcsAssumption DEF Procs
<1>1. /\ pc[Reaper] = "sleep" /\ pc'[Reaper] \in {"dead", "reap"}
      /\ is_closed' = is_closed
      /\ Reaper \in Closers => is_closed'
  BY <1>0, ProcsAssumption DEF Core, CoreType, ClosersReady, ReapStart, Step, StepAs, closing, counters, sem
<1>2. Moves(Reaper)
  BY <1>0 DEF Core, CoreType, Moves, ReapStart, Step, StepAs, closing, counters, sem
<1>3. CoreType'
  BY <1>0, OptionsAssumption, SMTT(60) DEF Core, CoreType, Labels, Guarded, PermitOnly, Free, Roles, ReapStart, Step, StepAs, closing, counters, sem
<1>4. /\ pc[Reaper] = "sleep" /\ pc'[Reaper] \in {"dead", "reap"}
      /\ UNCHANGED <<size, idle, num_idle, leaked, permits>>
  BY <1>0, OptionsAssumption, SMTT(60) DEF Core, CoreType, ReapStart, Step, StepAs, closing, counters, sem
<1>5. /\ Gain(Reaper, Guarded) = 0 /\ Gain(Reaper, Guarded \cup PermitOnly) = 0
      /\ Gain(Reaper, {"popped"}) = 0 /\ Gain(Reaper, {"pushed", "unpermit"}) = 0
      /\ Gain(Reaper, {"permit", "pushed"}) = 0
  BY <1>4 DEF Gain, Guarded, PermitOnly
<1> QED BY <1>1, <1>2, <1>3, <1>4, <1>5, OptionsAssumption DEF Core, CoreType, Ledger, Entry

\* ReapNext keeps the books.
LEMMA ReapNextLedger ==
    ASSUME Core, ReapNext
    PROVE  CoreType' /\ Ledger(Reaper)
<1>0. Reaper \in Procs
  BY ProcsAssumption DEF Procs
<1>1. /\ pc[Reaper] = "reap" /\ pc'[Reaper] \in {"reap", "sleep", "try"}
      /\ is_closed' = is_closed
      /\ Reaper \in Closers => is_closed'
  BY <1>0, ProcsAssumption DEF Core, CoreType, ClosersReady, ReapNext, Step, StepAs, closing, counters, sem
<1>2. Moves(Reaper)
  BY <1>0 DEF Core, CoreType, Moves, ReapNext, Step, StepAs, closing, counters, sem
<1>3. CoreType'
  BY <1>0, OptionsAssumption, SMTT(60) DEF Core, CoreType, Labels, Guarded, PermitOnly, Free, Roles, ReapNext, Step, StepAs, closing, counters, sem
<1>4. /\ pc[Reaper] = "reap" /\ pc'[Reaper] \in {"sleep", "reap", "try"}
      /\ UNCHANGED <<size, idle, num_idle, leaked, permits>>
  BY <1>0, OptionsAssumption, SMTT(60) DEF Core, CoreType, ReapNext, Step, StepAs, closing, counters, sem
<1>5. /\ Gain(Reaper, Guarded) = 0 /\ Gain(Reaper, Guarded \cup PermitOnly) = 0
      /\ Gain(Reaper, {"popped"}) = 0 /\ Gain(Reaper, {"pushed", "unpermit"}) = 0
      /\ Gain(Reaper, {"permit", "pushed"}) = 0
  BY <1>4 DEF Gain, Guarded, PermitOnly
<1> QED BY <1>1, <1>2, <1>3, <1>4, <1>5, OptionsAssumption DEF Core, CoreType, Ledger, Entry

\* ReapInspect keeps the books.
LEMMA ReapInspectLedger ==
    ASSUME Core, ReapInspect
    PROVE  CoreType' /\ Ledger(Reaper)
<1>0. Reaper \in Procs
  BY ProcsAssumption DEF Procs
<1>1. /\ pc[Reaper] = "inspect" /\ pc'[Reaper] \in {"closing", "push"}
      /\ is_closed' = is_closed
      /\ Reaper \in Closers => is_closed'
  BY <1>0, ProcsAssumption DEF Core, CoreType, ClosersReady, ReapInspect, Step, StepAs, closing, counters, sem
<1>2. Moves(Reaper)
  BY <1>0 DEF Core, CoreType, Moves, ReapInspect, Step, StepAs, closing, counters, sem
<1>3. CoreType'
  BY <1>0, OptionsAssumption, SMTT(60) DEF Core, CoreType, Labels, Guarded, PermitOnly, Free, Roles, ReapInspect, Step, StepAs, closing, counters, sem
<1>4. /\ pc[Reaper] = "inspect" /\ pc'[Reaper] \in {"closing", "push"}
      /\ UNCHANGED <<size, idle, num_idle, leaked, permits>>
  BY <1>0, OptionsAssumption, SMTT(60) DEF Core, CoreType, ReapInspect, Step, StepAs, closing, counters, sem
<1>5. /\ Gain(Reaper, Guarded) = 0 /\ Gain(Reaper, Guarded \cup PermitOnly) = 0
      /\ Gain(Reaper, {"popped"}) = 0 /\ Gain(Reaper, {"pushed", "unpermit"}) = 0
      /\ Gain(Reaper, {"permit", "pushed"}) = 0
  BY <1>4 DEF Gain, Guarded, PermitOnly
<1> QED BY <1>1, <1>2, <1>3, <1>4, <1>5, OptionsAssumption DEF Core, CoreType, Ledger, Entry

\* ReaperCancelled keeps the books.
LEMMA ReaperCancelledLedger ==
    ASSUME Core, ReaperCancelled
    PROVE  CoreType' /\ Ledger(Reaper)
<1>0. Reaper \in Procs
  BY ProcsAssumption DEF Procs
<1>1. /\ pc[Reaper] \in {"check", "closing", "dial", "discard", "hook", "ret", "sleep", "test"} /\ pc'[Reaper] \in {"dead", "dec"}
      /\ is_closed' = is_closed
      /\ Reaper \in Closers => is_closed'
  BY <1>0, ProcsAssumption DEF Core, CoreType, ClosersReady, ReaperCancelled, Step, StepAs, closing, counters, sem, GuardedAwaits
<1>2. Moves(Reaper)
  BY <1>0 DEF Core, CoreType, Moves, ReaperCancelled, Step, StepAs, closing, counters, sem, GuardedAwaits
<1>3. CASE pc[Reaper] = "sleep"
  <2>1. CoreType'
    BY <1>0, <1>3, OptionsAssumption, SMTT(60) DEF Core, CoreType, Labels, Guarded, PermitOnly, Free, Roles, ReaperCancelled, Step, StepAs, closing, counters, sem, GuardedAwaits
  <2>2. /\ pc[Reaper] = "sleep" /\ pc'[Reaper] = "dead"
        /\ UNCHANGED <<size, idle, num_idle, leaked, permits>>
    BY <1>0, <1>3, OptionsAssumption, SMTT(60) DEF Core, CoreType, ReaperCancelled, Step, StepAs, closing, counters, sem, GuardedAwaits
  <2>3. /\ Gain(Reaper, Guarded) = 0 /\ Gain(Reaper, Guarded \cup PermitOnly) = 0
        /\ Gain(Reaper, {"popped"}) = 0 /\ Gain(Reaper, {"pushed", "unpermit"}) = 0
        /\ Gain(Reaper, {"permit", "pushed"}) = 0
    BY <2>2 DEF Gain, Guarded, PermitOnly
  <2> QED BY <1>1, <1>2, <2>1, <2>2, <2>3, <1>3, OptionsAssumption DEF Core, CoreType, Ledger, Entry
<1>4. CASE pc[Reaper] # "sleep"
  <2>1. CoreType'
    BY <1>0, <1>4, OptionsAssumption, SMTT(60) DEF Core, CoreType, Labels, Guarded, PermitOnly, Free, Roles, ReaperCancelled, Step, StepAs, closing, counters, sem, GuardedAwaits
  <2>2. /\ pc[Reaper] \in {"check", "discard", "dial", "hook", "ret", "test", "closing"} /\ pc'[Reaper] = "dec"
        /\ UNCHANGED <<size, idle, num_idle, leaked, permits>>
    BY <1>0, <1>4, OptionsAssumption, SMTT(60) DEF Core, CoreType, ReaperCancelled, Step, StepAs, closing, counters, sem, GuardedAwaits
  <2>3. /\ Gain(Reaper, Guarded) = 0 /\ Gain(Reaper, Guarded \cup PermitOnly) = 0
        /\ Gain(Reaper, {"popped"}) = 0 /\ Gain(Reaper, {"pushed", "unpermit"}) = 0
        /\ Gain(Reaper, {"permit", "pushed"}) = 0
    BY <2>2 DEF Gain, Guarded, PermitOnly
  <2> QED BY <1>1, <1>2, <2>1, <2>2, <2>3, <1>4, OptionsAssumption DEF Core, CoreType, Ledger, Entry
<1> QED BY <1>3, <1>4, OptionsAssumption DEF Core, CoreType

\* CancelGuarded keeps the books.
LEMMA CancelGuardedLedger ==
    ASSUME Core, NEW t \in Tasks, CancelGuarded(t)
    PROVE  CoreType' /\ Ledger(t)
<1>0. t \in Procs
  BY ProcsAssumption DEF Procs
<1>1. /\ pc[t] \in {"check", "closing", "dial", "discard", "hook", "ret", "test"} /\ pc'[t] = "dec"
      /\ is_closed' = is_closed
      /\ t \in Closers => is_closed'
  BY <1>0, ProcsAssumption DEF Core, CoreType, ClosersReady, CancelGuarded, Step, StepAs, closing, counters, sem, GuardedAwaits
<1>2. Moves(t)
  BY <1>0 DEF Core, CoreType, Moves, CancelGuarded, Step, StepAs, closing, counters, sem, GuardedAwaits
<1>3. CoreType'
  BY <1>0, OptionsAssumption, SMTT(60) DEF Core, CoreType, Labels, Guarded, PermitOnly, Free, Roles, CancelGuarded, Step, StepAs, closing, counters, sem, GuardedAwaits
<1>4. /\ pc[t] \in {"check", "discard", "dial", "hook", "ret", "test", "closing"} /\ pc'[t] = "dec"
      /\ UNCHANGED <<size, idle, num_idle, leaked, permits>>
  BY <1>0, OptionsAssumption, SMTT(60) DEF Core, CoreType, CancelGuarded, Step, StepAs, closing, counters, sem, GuardedAwaits
<1>5. /\ Gain(t, Guarded) = 0 /\ Gain(t, Guarded \cup PermitOnly) = 0
      /\ Gain(t, {"popped"}) = 0 /\ Gain(t, {"pushed", "unpermit"}) = 0
      /\ Gain(t, {"permit", "pushed"}) = 0
  BY <1>4 DEF Gain, Guarded, PermitOnly
<1> QED BY <1>1, <1>2, <1>3, <1>4, <1>5, OptionsAssumption DEF Core, CoreType, Ledger, Entry

\* CancelWait keeps the books.
LEMMA CancelWaitLedger ==
    ASSUME Core, NEW t \in Tasks, CancelWait(t)
    PROVE  CoreType' /\ Ledger(t)
<1>0. t \in Procs
  BY ProcsAssumption DEF Procs
<1>1. /\ pc[t] \in {"event", "wait"} /\ pc'[t] = "out"
      /\ is_closed' = is_closed
      /\ t \in Closers => is_closed'
  BY <1>0, ProcsAssumption DEF Core, CoreType, ClosersReady, CancelWait, Step, StepAs, closing, counters, sem
<1>2. Moves(t)
  BY <1>0 DEF Core, CoreType, Moves, CancelWait, Step, StepAs, closing, counters, sem
<1>w. waiters' \in Seq(Procs)
  BY <1>0, DequeueType, EnqueueType, AppendProperties, SMTT(30) DEF Core, CoreType, CancelWait, Step, StepAs, closing, counters, sem
<1>p. pc' \in [Procs -> Labels] /\ role' \in [Procs -> Roles]
  BY <1>0 DEF Core, CoreType, Labels, Guarded, PermitOnly, Free, Roles, CancelWait, Step, StepAs, closing, counters, sem
<1>o. /\ permits' \in Nat /\ armed' \subseteq Procs /\ is_closed' \in BOOLEAN
      /\ UNCHANGED <<idle, num_idle, size, leaked, left, round>>
  BY <1>0 DEF Core, CoreType, CancelWait, Step, StepAs, closing, counters, sem
<1>3. CoreType'
  BY <1>w, <1>p, <1>o DEF Core, CoreType
<1>4. /\ pc[t] \in {"wait", "event"} /\ pc'[t] = "out"
      /\ UNCHANGED <<size, idle, num_idle, leaked, permits>>
  BY <1>0, OptionsAssumption, SMTT(60) DEF Core, CoreType, CancelWait, Step, StepAs, closing, counters, sem
<1>5. /\ Gain(t, Guarded) = 0 /\ Gain(t, Guarded \cup PermitOnly) = 0
      /\ Gain(t, {"popped"}) = 0 /\ Gain(t, {"pushed", "unpermit"}) = 0
      /\ Gain(t, {"permit", "pushed"}) = 0
  BY <1>4 DEF Gain, Guarded, PermitOnly
<1> QED BY <1>1, <1>2, <1>3, <1>4, <1>5, OptionsAssumption DEF Core, CoreType, Ledger, Entry

\* CancelRetry keeps the books.
LEMMA CancelRetryLedger ==
    ASSUME Core, NEW t \in Tasks, CancelRetry(t)
    PROVE  CoreType' /\ Ledger(t)
<1>0. t \in Procs
  BY ProcsAssumption DEF Procs
<1>1. /\ pc[t] = "retry" /\ pc'[t] = "drop_permit"
      /\ is_closed' = is_closed
      /\ t \in Closers => is_closed'
  BY <1>0, ProcsAssumption DEF Core, CoreType, ClosersReady, CancelRetry, Step, StepAs, closing, counters, sem
<1>2. Moves(t)
  BY <1>0 DEF Core, CoreType, Moves, CancelRetry, Step, StepAs, closing, counters, sem
<1>3. CoreType'
  BY <1>0, OptionsAssumption, SMTT(60) DEF Core, CoreType, Labels, Guarded, PermitOnly, Free, Roles, CancelRetry, Step, StepAs, closing, counters, sem
<1>4. /\ pc[t] = "retry" /\ pc'[t] = "drop_permit"
      /\ UNCHANGED <<size, idle, num_idle, leaked, permits>>
  BY <1>0, OptionsAssumption, SMTT(60) DEF Core, CoreType, CancelRetry, Step, StepAs, closing, counters, sem
<1>5. /\ Gain(t, Guarded) = 0 /\ Gain(t, Guarded \cup PermitOnly) = 0
      /\ Gain(t, {"popped"}) = 0 /\ Gain(t, {"pushed", "unpermit"}) = 0
      /\ Gain(t, {"permit", "pushed"}) = 0
  BY <1>4 DEF Gain, Guarded, PermitOnly
<1> QED BY <1>1, <1>2, <1>3, <1>4, <1>5, OptionsAssumption DEF Core, CoreType, Ledger, Entry

\* MarkClosed keeps the books.
LEMMA MarkClosedLedger ==
    ASSUME Core, NEW c \in Closers, MarkClosed(c)
    PROVE  CoreType' /\ Ledger(c)
<1>0. c \in Procs
  BY ProcsAssumption DEF Procs
<1>1. /\ pc[c] = "ready" /\ pc'[c] = "notify"
      /\ is_closed => is_closed'
      /\ c \in Closers => is_closed'
  BY <1>0, ProcsAssumption DEF Core, CoreType, ClosersReady, MarkClosed, Step, StepAs, closing, counters, sem
<1>2. Moves(c)
  BY <1>0 DEF Core, CoreType, Moves, MarkClosed, Step, StepAs, closing, counters, sem
<1>3. CoreType'
  BY <1>0, OptionsAssumption, SMTT(60) DEF Core, CoreType, Labels, Guarded, PermitOnly, Free, Roles, MarkClosed, Step, StepAs, closing, counters, sem
<1>4. /\ pc[c] = "ready" /\ pc'[c] = "notify"
      /\ UNCHANGED <<size, idle, leaked>>
  BY <1>0, OptionsAssumption, SMTT(60) DEF Core, CoreType, MarkClosed, Step, StepAs, closing, counters, sem
<1>5. /\ Gain(c, Guarded) = 0 /\ Gain(c, Guarded \cup PermitOnly) = 0
      /\ Gain(c, {"popped"}) = 0 /\ Gain(c, {"pushed", "unpermit"}) = 0
      /\ Gain(c, {"permit", "pushed"}) = 0
  BY <1>4 DEF Gain, Guarded, PermitOnly
<1>6. size' - idle' - leaked' = size - idle - leaked + Gain(c, Guarded) /\ size' <= size
  BY <1>3, <1>4, <1>5 DEF Core, CoreType
<1> QED BY <1>1, <1>2, <1>3, <1>4, <1>5, <1>6 DEF Ledger, Entry

\* NotifyClosed keeps the books.
LEMMA NotifyClosedLedger ==
    ASSUME Core, NEW c \in Closers, NotifyClosed(c)
    PROVE  CoreType' /\ Ledger(c)
<1>0. c \in Procs
  BY ProcsAssumption DEF Procs
<1>1. /\ pc[c] = "notify" /\ pc'[c] = "drain"
      /\ is_closed' = is_closed
      /\ c \in Closers => is_closed'
  BY <1>0, ProcsAssumption DEF Core, CoreType, ClosersReady, NotifyClosed, Step, StepAs, closing, counters, sem
<1>2. Moves(c)
  BY <1>0 DEF Core, CoreType, Moves, NotifyClosed, Step, StepAs, closing, counters, sem
<1>3. CoreType'
  BY <1>0, OptionsAssumption, SMTT(60) DEF Core, CoreType, Labels, Guarded, PermitOnly, Free, Roles, NotifyClosed, Step, StepAs, closing, counters, sem
<1>4. /\ pc[c] = "notify" /\ pc'[c] = "drain"
      /\ UNCHANGED <<size, idle, leaked>>
  BY <1>0, OptionsAssumption, SMTT(60) DEF Core, CoreType, NotifyClosed, Step, StepAs, closing, counters, sem
<1>5. /\ Gain(c, Guarded) = 0 /\ Gain(c, Guarded \cup PermitOnly) = 0
      /\ Gain(c, {"popped"}) = 0 /\ Gain(c, {"pushed", "unpermit"}) = 0
      /\ Gain(c, {"permit", "pushed"}) = 0
  BY <1>4 DEF Gain, Guarded, PermitOnly
<1>6. size' - idle' - leaked' = size - idle - leaked + Gain(c, Guarded) /\ size' <= size
  BY <1>3, <1>4, <1>5 DEF Core, CoreType
<1> QED BY <1>1, <1>2, <1>3, <1>4, <1>5, <1>6 DEF Ledger, Entry

\* Drain keeps the books.
LEMMA DrainLedger ==
    ASSUME Core, NEW c \in Closers, Drain(c)
    PROVE  CoreType' /\ Ledger(c)
<1>0. c \in Procs
  BY ProcsAssumption DEF Procs
<1>1. /\ pc[c] = "drain" /\ pc'[c] \in {"c_size", "closing"}
      /\ is_closed' = is_closed
      /\ c \in Closers => is_closed'
  BY <1>0, ProcsAssumption DEF Core, CoreType, ClosersReady, Drain, Step, StepAs, closing, counters, sem
<1>2. Moves(c)
  BY <1>0 DEF Core, CoreType, Moves, Drain, Step, StepAs, closing, counters, sem
<1>3. CASE idle > 0
  <2>1. CoreType'
    BY <1>0, <1>3, OptionsAssumption, SMTT(60) DEF Core, CoreType, Labels, Guarded, PermitOnly, Free, Roles, Drain, Step, StepAs, closing, counters, sem
  <2>2. /\ pc[c] = "drain" /\ pc'[c] = "closing"
        /\ UNCHANGED <<size, leaked>> /\ idle' = idle - 1
    BY <1>0, <1>3, OptionsAssumption, SMTT(60) DEF Core, CoreType, Drain, Step, StepAs, closing, counters, sem
  <2>3. /\ Gain(c, Guarded) = 1 /\ Gain(c, Guarded \cup PermitOnly) = 1
        /\ Gain(c, {"popped"}) = 0 /\ Gain(c, {"pushed", "unpermit"}) = 0
        /\ Gain(c, {"permit", "pushed"}) = 0
    BY <2>2 DEF Gain, Guarded, PermitOnly
  <2>4. size' - idle' - leaked' = size - idle - leaked + Gain(c, Guarded) /\ size' <= size
    BY <2>1, <2>2, <2>3 DEF Core, CoreType
  <2> QED BY <1>1, <1>2, <2>1, <2>2, <2>3, <2>4 DEF Ledger, Entry
<1>4. CASE idle = 0
  <2>1. CoreType'
    BY <1>0, <1>4, OptionsAssumption, SMTT(60) DEF Core, CoreType, Labels, Guarded, PermitOnly, Free, Roles, Drain, Step, StepAs, closing, counters, sem
  <2>2. /\ pc[c] = "drain" /\ pc'[c] = "c_size"
        /\ UNCHANGED <<size, idle, leaked>>
    BY <1>0, <1>4, OptionsAssumption, SMTT(60) DEF Core, CoreType, Drain, Step, StepAs, closing, counters, sem
  <2>3. /\ Gain(c, Guarded) = 0 /\ Gain(c, Guarded \cup PermitOnly) = 0
        /\ Gain(c, {"popped"}) = 0 /\ Gain(c, {"pushed", "unpermit"}) = 0
        /\ Gain(c, {"permit", "pushed"}) = 0
    BY <2>2 DEF Gain, Guarded, PermitOnly
  <2>4. size' - idle' - leaked' = size - idle - leaked + Gain(c, Guarded) /\ size' <= size
    BY <2>1, <2>2, <2>3 DEF Core, CoreType
  <2> QED BY <1>1, <1>2, <2>1, <2>2, <2>3, <2>4 DEF Ledger, Entry
<1> QED BY <1>3, <1>4, OptionsAssumption DEF Core, CoreType

\* CloseCheckSize keeps the books.
LEMMA CloseCheckSizeLedger ==
    ASSUME Core, NEW c \in Closers, CloseCheckSize(c)
    PROVE  CoreType' /\ Ledger(c)
<1>0. c \in Procs
  BY ProcsAssumption DEF Procs
<1>1. /\ pc[c] = "c_size" /\ pc'[c] \in {"c_wait", "done"}
      /\ is_closed' = is_closed
      /\ c \in Closers => is_closed'
  BY <1>0, ProcsAssumption DEF Core, CoreType, ClosersReady, CloseCheckSize, Step, StepAs, closing, counters, sem
<1>2. Moves(c)
  BY <1>0 DEF Core, CoreType, Moves, CloseCheckSize, Step, StepAs, closing, counters, sem
<1>3. CoreType'
  BY <1>0, OptionsAssumption, SMTT(60) DEF Core, CoreType, Labels, Guarded, PermitOnly, Free, Roles, CloseCheckSize, Step, StepAs, closing, counters, sem
<1>4. /\ pc[c] = "c_size" /\ pc'[c] \in {"done", "c_wait"}
      /\ UNCHANGED <<size, idle, leaked>>
  BY <1>0, OptionsAssumption, SMTT(60) DEF Core, CoreType, CloseCheckSize, Step, StepAs, closing, counters, sem
<1>5. /\ Gain(c, Guarded) = 0 /\ Gain(c, Guarded \cup PermitOnly) = 0
      /\ Gain(c, {"popped"}) = 0 /\ Gain(c, {"pushed", "unpermit"}) = 0
      /\ Gain(c, {"permit", "pushed"}) = 0
  BY <1>4 DEF Gain, Guarded, PermitOnly
<1>6. size' - idle' - leaked' = size - idle - leaked + Gain(c, Guarded) /\ size' <= size
  BY <1>3, <1>4, <1>5 DEF Core, CoreType
<1> QED BY <1>1, <1>2, <1>3, <1>4, <1>5, <1>6 DEF Ledger, Entry

\* CloseAcquire keeps the books.
LEMMA CloseAcquireLedger ==
    ASSUME Core, NEW c \in Closers, CloseAcquire(c)
    PROVE  CoreType' /\ Ledger(c)
<1>0. c \in Procs
  BY ProcsAssumption DEF Procs
<1>1. /\ pc[c] = "c_wait" /\ pc'[c] \in {"c_rel", "c_wait"}
      /\ is_closed' = is_closed
      /\ c \in Closers => is_closed'
  BY <1>0, ProcsAssumption DEF Core, CoreType, ClosersReady, CloseAcquire, Step, StepAs, closing, counters, sem, Grantable
<1>2. Moves(c)
  BY <1>0 DEF Core, CoreType, Moves, CloseAcquire, Step, StepAs, closing, counters, sem, Grantable
<1>3. CASE Grantable(c, round[c])
  <2>w. waiters' \in Seq(Procs)
    BY <1>0, <1>3, DequeueType, EnqueueType, AppendProperties, SMTT(30) DEF Core, CoreType, CloseAcquire, Step, StepAs, closing, counters, sem, Grantable
  <2>p. pc' \in [Procs -> Labels] /\ role' \in [Procs -> Roles]
    BY <1>0, <1>3 DEF Core, CoreType, Labels, Guarded, PermitOnly, Free, Roles, CloseAcquire, Step, StepAs, closing, counters, sem, Grantable
  <2>o. /\ permits' \in Nat /\ armed' \subseteq Procs /\ is_closed' \in BOOLEAN
        /\ UNCHANGED <<idle, num_idle, size, leaked, left, round>>
    BY <1>0, <1>3 DEF Core, CoreType, CloseAcquire, Step, StepAs, closing, counters, sem, Grantable
  <2>1. CoreType'
    BY <2>w, <2>p, <2>o DEF Core, CoreType
  <2>2. /\ pc[c] = "c_wait" /\ pc'[c] = "c_rel"
        /\ UNCHANGED <<size, idle, leaked>>
    BY <1>0, <1>3, OptionsAssumption, SMTT(60) DEF Core, CoreType, CloseAcquire, Step, StepAs, closing, counters, sem, Grantable
  <2>3. /\ Gain(c, Guarded) = 0 /\ Gain(c, Guarded \cup PermitOnly) = 0
        /\ Gain(c, {"popped"}) = 0 /\ Gain(c, {"pushed", "unpermit"}) = 0
        /\ Gain(c, {"permit", "pushed"}) = 0
    BY <2>2 DEF Gain, Guarded, PermitOnly
  <2>4. size' - idle' - leaked' = size - idle - leaked + Gain(c, Guarded) /\ size' <= size
    BY <2>1, <2>2, <2>3 DEF Core, CoreType
  <2> QED BY <1>1, <1>2, <2>1, <2>2, <2>3, <2>4 DEF Ledger, Entry
<1>4. CASE ~Grantable(c, round[c])
  <2>w. waiters' \in Seq(Procs)
    <3>1. waiters \in Seq(Procs)
      BY DEF Core, CoreType
    <3>2. waiters' = Append(waiters, c)
      BY <1>4 DEF CloseAcquire
    <3> QED BY <1>0, <3>1, <3>2, AppendProperties
  <2>p. pc' \in [Procs -> Labels] /\ role' \in [Procs -> Roles]
    BY <1>0, <1>4 DEF Core, CoreType, Labels, Guarded, PermitOnly, Free, Roles, CloseAcquire, Step, StepAs, closing, counters, sem, Grantable
  <2>o. /\ permits' \in Nat /\ armed' \subseteq Procs /\ is_closed' \in BOOLEAN
        /\ UNCHANGED <<idle, num_idle, size, leaked, left, round>>
    BY <1>0, <1>4 DEF Core, CoreType, CloseAcquire, Step, StepAs, closing, counters, sem, Grantable
  <2>1. CoreType'
    BY <2>w, <2>p, <2>o DEF Core, CoreType
  <2>2. /\ pc[c] = "c_wait" /\ pc'[c] = "c_wait"
        /\ UNCHANGED <<size, idle, leaked>>
    BY <1>0, <1>4, OptionsAssumption, SMTT(60) DEF Core, CoreType, CloseAcquire, Step, StepAs, closing, counters, sem, Grantable
  <2>3. /\ Gain(c, Guarded) = 0 /\ Gain(c, Guarded \cup PermitOnly) = 0
        /\ Gain(c, {"popped"}) = 0 /\ Gain(c, {"pushed", "unpermit"}) = 0
        /\ Gain(c, {"permit", "pushed"}) = 0
    BY <2>2 DEF Gain, Guarded, PermitOnly
  <2>4. size' - idle' - leaked' = size - idle - leaked + Gain(c, Guarded) /\ size' <= size
    BY <2>1, <2>2, <2>3 DEF Core, CoreType
  <2> QED BY <1>1, <1>2, <2>1, <2>2, <2>3, <2>4 DEF Ledger, Entry
<1> QED BY <1>3, <1>4, OptionsAssumption DEF Core, CoreType

\* CloseRelease keeps the books.
LEMMA CloseReleaseLedger ==
    ASSUME Core, NEW c \in Closers, CloseRelease(c)
    PROVE  CoreType' /\ Ledger(c)
<1>0. c \in Procs
  BY ProcsAssumption DEF Procs
<1>1. /\ pc[c] = "c_rel" /\ pc'[c] \in {"done", "drain"}
      /\ is_closed' = is_closed
      /\ c \in Closers => is_closed'
  BY <1>0, ProcsAssumption DEF Core, CoreType, ClosersReady, CloseRelease, Step, StepAs, closing, counters, sem
<1>2. Moves(c)
  BY <1>0 DEF Core, CoreType, Moves, CloseRelease, Step, StepAs, closing, counters, sem
<1>3. CoreType'
  BY <1>0, OptionsAssumption, SMTT(60) DEF Core, CoreType, Labels, Guarded, PermitOnly, Free, Roles, CloseRelease, Step, StepAs, closing, counters, sem
<1>4. /\ pc[c] = "c_rel" /\ pc'[c] \in {"done", "drain"}
      /\ UNCHANGED <<size, idle, leaked>>
  BY <1>0, OptionsAssumption, SMTT(60) DEF Core, CoreType, CloseRelease, Step, StepAs, closing, counters, sem
<1>5. /\ Gain(c, Guarded) = 0 /\ Gain(c, Guarded \cup PermitOnly) = 0
      /\ Gain(c, {"popped"}) = 0 /\ Gain(c, {"pushed", "unpermit"}) = 0
      /\ Gain(c, {"permit", "pushed"}) = 0
  BY <1>4 DEF Gain, Guarded, PermitOnly
<1>6. size' - idle' - leaked' = size - idle - leaked + Gain(c, Guarded) /\ size' <= size
  BY <1>3, <1>4, <1>5 DEF Core, CoreType
<1> QED BY <1>1, <1>2, <1>3, <1>4, <1>5, <1>6 DEF Ledger, Entry

\* CancelClose keeps the books.
LEMMA CancelCloseLedger ==
    ASSUME Core, NEW c \in Closers, CancelClose(c)
    PROVE  CoreType' /\ Ledger(c)
<1>0. c \in Procs
  BY ProcsAssumption DEF Procs
<1>1. /\ pc[c] \in {"c_wait", "closing"} /\ pc'[c] \in {"dead", "dec"}
      /\ is_closed' = is_closed
      /\ c \in Closers => is_closed'
  BY <1>0, ProcsAssumption DEF Core, CoreType, ClosersReady, CancelClose, Step, StepAs, closing, counters, sem
<1>2. Moves(c)
  BY <1>0 DEF Core, CoreType, Moves, CancelClose, Step, StepAs, closing, counters, sem
<1>3. CASE pc[c] = "closing"
  <2>w. waiters' \in Seq(Procs)
    BY <1>0, <1>3, DequeueType, EnqueueType, AppendProperties, SMTT(30) DEF Core, CoreType, CancelClose, Step, StepAs, closing, counters, sem
  <2>p. pc' \in [Procs -> Labels] /\ role' \in [Procs -> Roles]
    BY <1>0, <1>3 DEF Core, CoreType, Labels, Guarded, PermitOnly, Free, Roles, CancelClose, Step, StepAs, closing, counters, sem
  <2>o. /\ permits' \in Nat /\ armed' \subseteq Procs /\ is_closed' \in BOOLEAN
        /\ UNCHANGED <<idle, num_idle, size, leaked, left, round>>
    BY <1>0, <1>3 DEF Core, CoreType, CancelClose, Step, StepAs, closing, counters, sem
  <2>1. CoreType'
    BY <2>w, <2>p, <2>o DEF Core, CoreType
  <2>2. /\ pc[c] = "closing" /\ pc'[c] = "dec"
        /\ UNCHANGED <<size, idle, leaked>>
    BY <1>0, <1>3, OptionsAssumption, SMTT(60) DEF Core, CoreType, CancelClose, Step, StepAs, closing, counters, sem
  <2>3. /\ Gain(c, Guarded) = 0 /\ Gain(c, Guarded \cup PermitOnly) = 0
        /\ Gain(c, {"popped"}) = 0 /\ Gain(c, {"pushed", "unpermit"}) = 0
        /\ Gain(c, {"permit", "pushed"}) = 0
    BY <2>2 DEF Gain, Guarded, PermitOnly
  <2>4. size' - idle' - leaked' = size - idle - leaked + Gain(c, Guarded) /\ size' <= size
    BY <2>1, <2>2, <2>3 DEF Core, CoreType
  <2> QED BY <1>1, <1>2, <2>1, <2>2, <2>3, <2>4 DEF Ledger, Entry
<1>4. CASE pc[c] # "closing"
  <2>w. waiters' \in Seq(Procs)
    BY <1>0, <1>4, DequeueType, EnqueueType, AppendProperties, SMTT(30) DEF Core, CoreType, CancelClose, Step, StepAs, closing, counters, sem
  <2>p. pc' \in [Procs -> Labels] /\ role' \in [Procs -> Roles]
    BY <1>0, <1>4 DEF Core, CoreType, Labels, Guarded, PermitOnly, Free, Roles, CancelClose, Step, StepAs, closing, counters, sem
  <2>o. /\ permits' \in Nat /\ armed' \subseteq Procs /\ is_closed' \in BOOLEAN
        /\ UNCHANGED <<idle, num_idle, size, leaked, left, round>>
    BY <1>0, <1>4 DEF Core, CoreType, CancelClose, Step, StepAs, closing, counters, sem
  <2>1. CoreType'
    BY <2>w, <2>p, <2>o DEF Core, CoreType
  <2>2. /\ pc[c] = "c_wait" /\ pc'[c] = "dead"
        /\ UNCHANGED <<size, idle, leaked>>
    BY <1>0, <1>4, OptionsAssumption, SMTT(60) DEF Core, CoreType, CancelClose, Step, StepAs, closing, counters, sem
  <2>3. /\ Gain(c, Guarded) = 0 /\ Gain(c, Guarded \cup PermitOnly) = 0
        /\ Gain(c, {"popped"}) = 0 /\ Gain(c, {"pushed", "unpermit"}) = 0
        /\ Gain(c, {"permit", "pushed"}) = 0
    BY <2>2 DEF Gain, Guarded, PermitOnly
  <2>4. size' - idle' - leaked' = size - idle - leaked + Gain(c, Guarded) /\ size' <= size
    BY <2>1, <2>2, <2>3 DEF Core, CoreType
  <2> QED BY <1>1, <1>2, <2>1, <2>2, <2>3, <2>4 DEF Ledger, Entry
<1> QED BY <1>3, <1>4, OptionsAssumption DEF Core, CoreType

-----------------------------------------------------------------------------
(* Every step keeps the books.                                             *)

\* A step of a task keeps the books.
LEMMA TaskLedger ==
    ASSUME Core, NEW t \in Tasks,
           Call(t) \/ GiveBack(t) \/ Detach(t) \/ Leak(t) \/ Cancel(t) \/ TaskStep(t)
    PROVE  CoreType' /\ Ledger(t)
<1>1. CASE Call(t)
  BY <1>1, AcquireLedger, AwaitCloseEventLedger, TryAcquireLedger DEF Call
<1>2. CASE GiveBack(t)
  BY <1>2, DropConnectionLedger, CloseConnectionLedger DEF GiveBack
<1>3. CASE Detach(t) \/ Leak(t)
  BY <1>3, DetachLedger, LeakLedger
<1>4. CASE Cancel(t)
  BY <1>4, CancelGuardedLedger, CancelWaitLedger, CancelRetryLedger DEF Cancel
<1>5. CASE TaskStep(t)
  BY <1>5, CloseEventCheckLedger, CloseEventListenLedger, CloseEventFiresLedger,
     PollCloseEventLedger, PollSemaphoreLedger, CheckIdleConnLedger, DiscardedLedger,
     RetryLedger, ReturnCheckLedger, ReturnTestLedger DEF TaskStep
<1> QED BY <1>1, <1>2, <1>3, <1>4, <1>5

\* A step that tasks and the reaper share keeps the books.
LEMMA SharedLedger ==
    ASSUME Core, NEW p \in Tasks \cup {Reaper}, SharedStep(p)
    PROVE  CoreType' /\ Ledger(p)
<1>1. CASE TryPermit(p) \/ PopIdle(p) \/ DecNumIdle(p) \/ MinCheck(p) \/ MinPermit(p)
  BY <1>1, TryPermitLedger, PopIdleLedger, DecNumIdleLedger, MinCheckLedger, MinPermitLedger
<1>2. CASE TryIncrementCheck(p) \/ TryIncrementSize(p) \/ DropPermit(p)
  BY <1>2, TryIncrementCheckLedger, TryIncrementSizeLedger, DropPermitLedger
<1>3. CASE ConnectCheck(p) \/ DialOk(p) \/ DialFail(p) \/ AfterConnect(p)
  BY <1>3, ConnectCheckLedger, DialOkLedger, DialFailLedger, AfterConnectLedger
<1>4. CASE PushIdle(p) \/ ReleasePermit(p) \/ IncNumIdle(p)
  BY <1>4, PushIdleLedger, ReleasePermitLedger, IncNumIdleLedger
<1> QED BY <1>1, <1>2, <1>3, <1>4 DEF SharedStep

\* A step of close() keeps the books.
LEMMA CloserLedger ==
    ASSUME Core, NEW c \in Closers, MarkClosed(c) \/ CloserStep(c) \/ CancelClose(c)
    PROVE  CoreType' /\ Ledger(c)
BY MarkClosedLedger, NotifyClosedLedger, DrainLedger, CloseCheckSizeLedger,
   CloseAcquireLedger, CloseReleaseLedger, CancelCloseLedger DEF CloserStep

\* So does every step of the pool.
LEMMA NextLedger ==
    ASSUME Core, Next
    PROVE  CoreType' /\ \E p \in Procs : Ledger(p)
<1>1. CASE \E t \in Tasks : \/ Call(t) \/ GiveBack(t) \/ Detach(t) \/ Leak(t) \/ Cancel(t)
                            \/ TaskStep(t)
  BY <1>1, TaskLedger DEF Procs
<1>2. CASE \E p \in Tasks \cup {Reaper} : SharedStep(p)
  BY <1>2, SharedLedger DEF Procs
<1>3. CASE \E p \in Procs : GuardStep(p)
  BY <1>3, ConnectionClosedLedger, DecSizeLedger, DecReleaseLedger DEF GuardStep
<1>4. CASE ReaperStep
  BY <1>4, ReapStartLedger, ReapNextLedger, ReapInspectLedger, ReaperCancelledLedger
     DEF ReaperStep, Procs
<1>5. CASE \E c \in Closers : MarkClosed(c) \/ CloserStep(c) \/ CancelClose(c)
  BY <1>5, CloserLedger DEF Procs
<1> QED BY <1>1, <1>2, <1>3, <1>4, <1>5 DEF Next

-----------------------------------------------------------------------------
(* The inductive invariant.                                                *)

\* The sets of holders of the accounting properties, as counts.
LEMMA HolderCounts ==
    /\ Cardinality(SizeHolders) = At(Procs, Guarded)
    /\ Cardinality(PermitHolders) = At(Procs \ Closers, Guarded \cup PermitOnly)
    /\ Cardinality(Popped) = At(Procs, {"popped"})
    /\ Cardinality(Pushed) = At(Procs, {"pushed", "unpermit"})
<1>1. Popped = {q \in Procs : pc[q] \in {"popped"}}
  BY DEF Popped
<1> QED BY <1>1 DEF At, SizeHolders, PermitHolders, Pushed

\* ... in the next state too.
LEMMA HolderCountsNext ==
    /\ Cardinality(SizeHolders)' = At(Procs, Guarded)'
    /\ Cardinality(PermitHolders)' = At(Procs \ Closers, Guarded \cup PermitOnly)'
    /\ Cardinality(Popped)' = At(Procs, {"popped"})'
    /\ Cardinality(Pushed)' = At(Procs, {"pushed", "unpermit"})'
<1>1. Popped' = {q \in Procs : pc'[q] \in {"popped"}}
  BY DEF Popped
<1> QED BY <1>1 DEF At, SizeHolders, PermitHolders, Pushed

\* A pool without min_connections never asks for a permit without trying the
\* idle queue first ...
NoMinimum == MinConnections = 0 => \A p \in Procs : pc[p] # "min_permit"

\* ... so that, while it is open, every idle connection has a permit: a free one,
\* one that is about to be released, or one whose holder is about to pop.
IdleBacked ==
    (MinConnections = 0 /\ ~is_closed) => idle <= permits + At(Procs, {"permit", "pushed"})

\* The accounting of size alone is not inductive: that a push cannot overflow
\* needs the bound, the bound needs nothing but try_increment_size(), and the
\* books of the permits hold only while no closer floats a connection.
IndInv ==
    /\ TypeOK /\ ClosersReady
    /\ SizeAccounting /\ SizeBounded
    /\ PermitConservation /\ NumIdleAccounting
    /\ NoMinimum /\ IdleBacked

\* The pool starts with its books balanced.
LEMMA InitIndInv == Init => IndInv
<1> SUFFICES ASSUME Init PROVE IndInv
  OBVIOUS
<1>1. \A p \in Procs : pc[p] \in {"out", "ready", "sleep", "min"}
  BY ProcsAssumption DEF Init, Procs
<1>2. SizeHolders = {} /\ PermitHolders = {} /\ Popped = {} /\ Pushed = {}
  BY <1>1 DEF SizeHolders, PermitHolders, Popped, Pushed, Guarded, PermitOnly
<1>3. Cardinality({}) = 0
  BY FS_EmptySet
<1>4. pc \in [Procs -> Labels]
  BY <1>1 DEF Init, Labels, Free
<1>5. role \in [Procs -> Roles]
  BY ProcsAssumption DEF Init, Procs, Roles
<1>6. TypeOK
  <2>1. round \in [Closers -> 1..MaxConnections]
    BY OptionsAssumption DEF Init
  <2>2. armed \subseteq Procs
    <3>1. Reaper \in Procs
      BY DEF Procs
    <3> QED BY <3>1 DEF Init
  <2>3. waiters \in Seq(Procs)
    BY EmptySeq DEF Init
  <2>4. permits \in Nat
    BY OptionsAssumption DEF Init
  <2>5. is_closed \in BOOLEAN
    BY DEF Init
  <2>6. idle \in Nat /\ num_idle \in Int /\ size \in Nat /\ leaked \in Nat /\ left \in Nat
    BY DEF Init
  <2> QED BY <1>4, <1>5, <2>1, <2>2, <2>3, <2>4, <2>5, <2>6 DEF TypeOK
<1>7. ClosersReady
  BY ProcsAssumption DEF Init, ClosersReady, Procs
<1>8. NoMinimum
  BY <1>1 DEF NoMinimum
<1>9. IdleBacked
  <2>1. {q \in Procs : pc[q] \in {"permit", "pushed"}} = {}
    BY <1>1
  <2>2. At(Procs, {"permit", "pushed"}) = 0
    BY <2>1, <1>3 DEF At
  <2> QED BY <2>2, OptionsAssumption DEF IdleBacked, Init
<1> QED BY <1>2, <1>3, <1>6, <1>7, <1>8, <1>9, OptionsAssumption
        DEF IndInv, Init, SizeAccounting, SizeBounded, PermitConservation, NumIdleAccounting

\* A step that keeps the books keeps the invariant.
LEMMA LedgerIndInv ==
    ASSUME IndInv, CoreType', NEW p \in Procs, Ledger(p)
    PROVE  IndInv'
<1>0. /\ idle \in Nat /\ leaked \in Nat /\ permits \in Nat /\ size \in Int /\ num_idle \in Int
      /\ idle' \in Nat /\ leaked' \in Nat /\ permits' \in Nat /\ size' \in Int /\ num_idle' \in Int
  BY DEF IndInv, TypeOK, CoreType
<1>1. Moves(p)
  BY DEF Ledger
<1>2. /\ At(Procs, Guarded) \in Nat /\ At(Procs, Guarded)' \in Nat
      /\ At(Procs, Guarded)' = At(Procs, Guarded) + Gain(p, Guarded)
  BY <1>1, CountStep DEF Gain
<1>3. Gain(p, Guarded) \in Int
  BY DEF Gain
<1>4. SizeAccounting'
  <2>1. size = idle + At(Procs, Guarded) + leaked
    BY HolderCounts DEF IndInv, SizeAccounting
  <2>2. size' - idle' - leaked' = size - idle - leaked + Gain(p, Guarded)
    BY DEF Ledger
  <2>3. size' = idle' + At(Procs, Guarded)' + leaked'
    BY <1>0, <1>2, <1>3, <2>1, <2>2
  <2> QED BY <2>3, HolderCountsNext DEF SizeAccounting
<1>5. TypeOK'
  <2>1. size' = idle' + At(Procs, Guarded)' + leaked'
    BY <1>4, HolderCountsNext DEF SizeAccounting
  <2>2. size' \in Nat
    BY <2>1, <1>2 DEF CoreType
  <2> QED BY <2>2 DEF CoreType, TypeOK
<1>6. SizeBounded'
  BY <1>5, OptionsAssumption DEF IndInv, TypeOK, SizeBounded, Ledger
<1>7. ClosersReady'
  <2> SUFFICES ASSUME ~is_closed', NEW c \in Closers PROVE pc'[c] = "ready"
    BY DEF ClosersReady
  <2>1. ~is_closed /\ p \notin Closers
    BY DEF Ledger
  <2>2. c \in Procs \ {p}
    BY <2>1 DEF Procs
  <2>3. pc[c] = "ready"
    BY <2>1 DEF IndInv, ClosersReady
  <2> QED BY <1>1, <2>2, <2>3 DEF Moves
<1>m. NoMinimum'
  <2> SUFFICES ASSUME MinConnections = 0, NEW q \in Procs PROVE pc'[q] # "min_permit"
    BY DEF NoMinimum
  <2>1. CASE q = p
    BY SMTT(30), <2>1, <1>0 DEF Ledger, IndInv, TypeOK
  <2>2. CASE q # p
    BY <2>2, <1>1 DEF Moves, IndInv, NoMinimum
  <2> QED BY <2>1, <2>2
<1>8. CASE is_closed'
  BY <1>4, <1>5, <1>6, <1>7, <1>m, <1>8
     DEF IndInv, PermitConservation, NumIdleAccounting, IdleBacked
<1>9. CASE ~is_closed'
  <2>1. ~is_closed /\ p \notin Closers
    BY <1>9 DEF Ledger
  <2>2. /\ At(Procs \ Closers, Guarded \cup PermitOnly) \in Nat
        /\ At(Procs \ Closers, Guarded \cup PermitOnly)' \in Nat
        /\ At(Procs \ Closers, Guarded \cup PermitOnly)'
             = At(Procs \ Closers, Guarded \cup PermitOnly) + Gain(p, Guarded \cup PermitOnly)
    <3>1. p \in Procs \ Closers /\ Procs \ Closers \subseteq Procs
      BY <2>1
    <3> QED BY <1>1, <3>1, CountStep DEF Gain
  <2>3. /\ At(Procs, {"popped"}) \in Nat /\ At(Procs, {"popped"})' \in Nat
        /\ At(Procs, {"popped"})' = At(Procs, {"popped"}) + Gain(p, {"popped"})
    BY <1>1, CountStep DEF Gain
  <2>4. /\ At(Procs, {"pushed", "unpermit"}) \in Nat
        /\ At(Procs, {"pushed", "unpermit"})' \in Nat
        /\ At(Procs, {"pushed", "unpermit"})'
             = At(Procs, {"pushed", "unpermit"}) + Gain(p, {"pushed", "unpermit"})
    BY <1>1, CountStep DEF Gain
  <2>5. /\ Gain(p, Guarded \cup PermitOnly) \in Int
        /\ Gain(p, {"popped"}) \in Int /\ Gain(p, {"pushed", "unpermit"}) \in Int
    BY DEF Gain
  <2>6. /\ permits + At(Procs \ Closers, Guarded \cup PermitOnly) + leaked = MaxConnections
        /\ num_idle = idle + At(Procs, {"popped"}) - At(Procs, {"pushed", "unpermit"})
    BY <2>1, HolderCounts DEF IndInv, PermitConservation, NumIdleAccounting
  <2>7. permits' + At(Procs \ Closers, Guarded \cup PermitOnly)' + leaked' = MaxConnections
    <3>1. permits' + leaked' = permits + leaked - Gain(p, Guarded \cup PermitOnly)
      BY <2>1 DEF Ledger
    <3> QED BY <1>0, <2>2, <2>5, <2>6, <3>1, OptionsAssumption
  <2>8. num_idle' = idle' + At(Procs, {"popped"})' - At(Procs, {"pushed", "unpermit"})'
    <3>1. num_idle' - idle' = num_idle - idle + Gain(p, {"popped"})
                                              - Gain(p, {"pushed", "unpermit"})
      BY <2>1 DEF Ledger
    <3> QED BY <1>0, <2>3, <2>4, <2>5, <2>6, <3>1
  <2>9. PermitConservation' /\ NumIdleAccounting'
    BY <2>7, <2>8, HolderCountsNext DEF PermitConservation, NumIdleAccounting
  <2>10. IdleBacked'
    <3> SUFFICES ASSUME MinConnections = 0
                 PROVE  idle' <= permits' + At(Procs, {"permit", "pushed"})'
      BY DEF IdleBacked
    <3>1. /\ At(Procs, {"permit", "pushed"}) \in Nat
          /\ At(Procs, {"permit", "pushed"})' \in Nat
          /\ At(Procs, {"permit", "pushed"})'
               = At(Procs, {"permit", "pushed"}) + Gain(p, {"permit", "pushed"})
      BY <1>1, CountStep DEF Gain
    <3>2. Gain(p, {"permit", "pushed"}) \in Int
      BY DEF Gain
    <3>3. idle <= permits + At(Procs, {"permit", "pushed"})
      BY <2>1 DEF IndInv, IdleBacked
    <3>4. pc[p] # "min_permit"
      BY DEF IndInv, NoMinimum
    <3>5. \/ idle' = 0
          \/ idle' - permits' - Gain(p, {"permit", "pushed"}) <= idle - permits
      BY <2>1, <3>4 DEF Ledger
    <3> QED BY <1>0, <3>1, <3>2, <3>3, <3>5
  <2> QED BY <1>4, <1>5, <1>6, <1>7, <1>m, <2>9, <2>10 DEF IndInv
<1> QED BY <1>8, <1>9

\* Every step keeps the invariant.
LEMMA NextIndInv == IndInv /\ [Next]_vars => IndInv'
<1> SUFFICES ASSUME IndInv, [Next]_vars PROVE IndInv'
  OBVIOUS
<1>1. CASE Next
  <2>1. Core
    BY DEF IndInv, TypeOK, Core, CoreType
  <2>2. CoreType' /\ \E p \in Procs : Ledger(p)
    BY <1>1, <2>1, NextLedger
  <2> QED BY <2>2, LedgerIndInv
<1>2. CASE UNCHANGED vars
  BY <1>2 DEF vars, IndInv, TypeOK, ClosersReady, SizeAccounting, SizeBounded,
     PermitConservation, NumIdleAccounting, SizeHolders, PermitHolders, Popped, Pushed,
     NoMinimum, IdleBacked, At
<1> QED BY <1>1, <1>2

\* A connection about to be pushed is counted in size, so the queue has room.
LEMMA IndInvQueue == IndInv => QueueNeverOverflows
<1> SUFFICES ASSUME IndInv, NEW p \in Procs, pc[p] = "push" PROVE idle < MaxConnections
  BY DEF QueueNeverOverflows
<1>1. p \in SizeHolders
  BY DEF SizeHolders, Guarded
<1>2. IsFiniteSet(SizeHolders)
  BY ProcsFinite, FS_Subset DEF SizeHolders
<1>3. Cardinality(SizeHolders) \in Nat /\ Cardinality(SizeHolders) # 0
  BY <1>1, <1>2, FS_CardinalityType, FS_EmptySet
<1> QED BY <1>3, OptionsAssumption DEF IndInv, TypeOK, SizeAccounting, SizeBounded

\* The invariant holds of every behaviour of the pool.
LEMMA Invariance == Spec => []IndInv
BY InitIndInv, NextIndInv, PTL DEF Spec

-----------------------------------------------------------------------------
(* The theorems.                                                           *)

\* Type correctness, with no underflow of the permits or of the AtomicU32.
THEOREM TypeCorrect == Spec => []TypeOK
<1>1. IndInv => TypeOK
  BY DEF IndInv
<1> QED BY <1>1, Invariance, PTL

\* size is exactly the idle, owned and leaked connections, whatever is
\* cancelled, fails or is closed, for any number of tasks and closers.
THEOREM SizeIsExact == Spec => []SizeAccounting
<1>1. IndInv => SizeAccounting
  BY DEF IndInv
<1> QED BY <1>1, Invariance, PTL

\* The pool never holds more than max_connections connections.
THEOREM NeverAboveMax == Spec => []SizeBounded
<1>1. IndInv => SizeBounded
  BY DEF IndInv
<1> QED BY <1>1, Invariance, PTL

\* release() never panics: the bounded queue has room for every connection.
THEOREM PushNeverPanics == Spec => []QueueNeverOverflows
BY Invariance, IndInvQueue, PTL

\* While the pool is open, no permit is lost or duplicated.
THEOREM PermitsConserved == Spec => []PermitConservation
<1>1. IndInv => PermitConservation
  BY DEF IndInv
<1> QED BY <1>1, Invariance, PTL

\* While the pool is open, num_idle deviates from the length of the idle queue
\* only by the pops and pushes in flight.
THEOREM NumIdleExact == Spec => []NumIdleAccounting
<1>1. IndInv => NumIdleAccounting
  BY DEF IndInv
<1> QED BY <1>1, Invariance, PTL

\* The counters together: size in every state, permits and num_idle until close(),
\* for any number of tasks, closers and connections.
THEOREM AccountingExact == Spec => []PoolAccounting
<1>1. IndInv => PoolAccounting
  BY DEF IndInv, PoolAccounting
<1> QED BY <1>1, Invariance, PTL

\* Neither try_increment_size() nor release() ever oversteps max_connections.
THEOREM BoundsKept == Spec => []PoolBounds
<1>1. IndInv => PoolBounds
  BY IndInvQueue DEF IndInv, PoolBounds
<1> QED BY <1>1, Invariance, PTL

-----------------------------------------------------------------------------
(* The retry branch of acquire().                                          *)

\* A future that found the idle queue empty can open a connection: it has a permit
\* of its own beside those of the guards and those that back idle connections.
LEMMA IndInvRetry == IndInv => NoSpuriousRetry
<1> SUFFICES ASSUME IndInv, MinConnections = 0, ~is_closed, NEW p \in Procs, pc[p] = "inc"
             PROVE  size < MaxConnections
  BY DEF NoSpuriousRetry
<1>1. PICK B, H : B = {q \in Procs : pc[q] \in {"permit", "pushed"}} /\ H = SizeHolders
  OBVIOUS
<1>2. \A q \in Closers : pc[q] = "ready"
  BY DEF IndInv, ClosersReady
<1>3. /\ B \subseteq PermitHolders /\ H \subseteq PermitHolders /\ p \in PermitHolders
  BY <1>1, <1>2 DEF PermitHolders, SizeHolders, Guarded, PermitOnly
<1>4. B \cap H = {} /\ p \notin B /\ p \notin H
  BY <1>1 DEF SizeHolders, Guarded
<1>5. IsFiniteSet(PermitHolders)
  BY ProcsFinite, FS_Subset DEF PermitHolders
<1>6. IsFiniteSet(B) /\ IsFiniteSet(H) /\ IsFiniteSet(B \cup H)
  BY <1>3, <1>5, FS_Subset, FS_Union
<1>7. Cardinality(B \cup H) = Cardinality(B) + Cardinality(H)
  <2>1. Cardinality(B \cup H) = Cardinality(B) + Cardinality(H) - Cardinality(B \cap H)
    BY <1>6, FS_Union
  <2>2. Cardinality(B \cap H) = 0
    BY <1>4, FS_EmptySet
  <2>3. Cardinality(B) \in Nat /\ Cardinality(H) \in Nat
    BY <1>6, FS_CardinalityType
  <2> QED BY <2>1, <2>2, <2>3
<1>8. Cardinality((B \cup H) \cup {p}) = Cardinality(B \cup H) + 1
  BY <1>4, <1>6, FS_AddElement
<1>9. Cardinality((B \cup H) \cup {p}) <= Cardinality(PermitHolders)
  BY <1>3, <1>5, FS_Subset
<1>10. /\ Cardinality(B) \in Nat /\ Cardinality(H) \in Nat
       /\ Cardinality(PermitHolders) \in Nat
  BY <1>5, <1>6, FS_CardinalityType
<1>11. /\ idle <= permits + Cardinality(B)
       /\ size = idle + Cardinality(H) + leaked
       /\ permits + Cardinality(PermitHolders) + leaked = MaxConnections
  BY <1>1 DEF IndInv, IdleBacked, At, SizeAccounting, PermitConservation
<1> QED BY SMTT(30), <1>7, <1>8, <1>9, <1>10, <1>11, OptionsAssumption DEF IndInv, TypeOK

\* acquire()'s comment on its retry branch, for any number of tasks and connections: in
\* an open pool without min_connections a future that found no idle connection never
\* finds the pool full.
THEOREM RetryNeverSpurious == Spec => []NoSpuriousRetry
BY Invariance, IndInvRetry, PTL

-----------------------------------------------------------------------------
(* The pool implements ConnectionBudget.                                   *)

\* Who has a connection after a step of p.
LEMMA HoldersStep ==
    ASSUME NEW p \in Procs, Moves(p)
    PROVE  /\ Gain(p, Guarded) = 0 => SizeHolders' = SizeHolders
           /\ Gain(p, Guarded) = 1 => p \notin SizeHolders /\ SizeHolders' = SizeHolders \cup {p}
           /\ Gain(p, Guarded) = -1 => p \in SizeHolders /\ SizeHolders' = SizeHolders \ {p}
<1>1. \A q \in Procs \ {p} : q \in SizeHolders' <=> q \in SizeHolders
  BY DEF Moves, SizeHolders
<1>2. SizeHolders \subseteq Procs /\ SizeHolders' \subseteq Procs
  BY DEF SizeHolders
<1>3. (p \in SizeHolders <=> pc[p] \in Guarded) /\ (p \in SizeHolders' <=> pc'[p] \in Guarded)
  BY DEF SizeHolders
<1>4. Gain(p, Guarded) = 0 => (p \in SizeHolders' <=> p \in SizeHolders)
  BY <1>3 DEF Gain
<1>5. Gain(p, Guarded) = 1 => p \notin SizeHolders /\ p \in SizeHolders'
  BY <1>3 DEF Gain
<1>6. Gain(p, Guarded) = -1 => p \in SizeHolders /\ p \notin SizeHolders'
  BY <1>3 DEF Gain
<1> QED BY <1>1, <1>2, <1>4, <1>5, <1>6

\* A step of the pool is a step of the budget, or leaves it alone.
LEMMA LedgerMove ==
    ASSUME IndInv, CoreType', NEW p \in Procs, Ledger(p)
    PROVE  [Budget!Move]_(Budget!budget)
<1>0. /\ idle \in Nat /\ leaked \in Nat /\ size \in Int /\ is_closed \in BOOLEAN
      /\ idle' \in Nat /\ leaked' \in Nat /\ size' \in Int /\ is_closed' \in BOOLEAN
  BY DEF IndInv, TypeOK, CoreType
<1>1. Moves(p) /\ Entry(p) /\ (is_closed => is_closed')
  BY DEF Ledger
<1>2. /\ Gain(p, Guarded) = 0 => SizeHolders' = SizeHolders
      /\ Gain(p, Guarded) = 1 => p \notin SizeHolders /\ SizeHolders' = SizeHolders \cup {p}
      /\ Gain(p, Guarded) = -1 => p \in SizeHolders /\ SizeHolders' = SizeHolders \ {p}
  BY <1>1, HoldersStep
<1>3. CASE UNCHANGED <<idle, leaked>> /\ Gain(p, Guarded) = 0
  <2>1. SizeHolders' = SizeHolders
    BY <1>2, <1>3
  <2>2. CASE is_closed' = is_closed
    BY <1>3, <2>1, <2>2 DEF Budget!budget
  <2>3. CASE is_closed' = TRUE
    BY <1>3, <2>1, <2>3 DEF Budget!Move, Budget!Shut
  <2> QED BY <1>0, <1>1, <2>2, <2>3
<1>4. CASE /\ is_closed' = is_closed /\ UNCHANGED <<idle, leaked>>
           /\ Gain(p, Guarded) = 1 /\ size < MaxConnections
  <2>0. Budget!Cardinality(SizeHolders) = Cardinality(SizeHolders)
    BY DEF Budget!Cardinality, Cardinality
  <2>1. Budget!Spent < MaxConnections
    BY <1>4, <2>0 DEF Budget!Spent, IndInv, SizeAccounting
  <2>2. Budget!Open(p)
    BY <1>2, <1>4, <2>1 DEF Budget!Open
  <2> QED BY <2>2 DEF Budget!Move
<1>5. CASE /\ is_closed' = is_closed /\ UNCHANGED <<idle, leaked>> /\ Gain(p, Guarded) = -1
  <2>1. Budget!Discard(p)
    BY <1>2, <1>5 DEF Budget!Discard
  <2> QED BY <2>1 DEF Budget!Move
<1>6. CASE /\ is_closed' = is_closed /\ idle' = idle - 1 /\ leaked' = leaked
           /\ Gain(p, Guarded) = 1
  <2>1. idle > 0
    BY <1>0, <1>6
  <2>2. Budget!Take(p)
    BY <1>2, <1>6, <2>1 DEF Budget!Take
  <2> QED BY <2>2 DEF Budget!Move
<1>7. CASE /\ is_closed' = is_closed /\ idle' = idle + 1 /\ leaked' = leaked
           /\ Gain(p, Guarded) = -1
  <2>1. Budget!PutBack(p)
    BY <1>2, <1>7 DEF Budget!PutBack
  <2> QED BY <2>1 DEF Budget!Move
<1>8. CASE /\ is_closed' = is_closed /\ idle' = idle /\ leaked' = leaked + 1
           /\ Gain(p, Guarded) = -1
  <2>1. Budget!Lose(p)
    BY <1>2, <1>8 DEF Budget!Lose
  <2> QED BY <2>1 DEF Budget!Move
<1> QED BY <1>1, <1>3, <1>4, <1>5, <1>6, <1>7, <1>8 DEF Entry

\* The semaphore, the atomics and the queue implement a budget of max_connections: what
\* every step of every future does to the connections is one move of ConnectionBudget.
THEOREM BudgetImplemented == Spec => ImplementsBudget
<1>1. Init => Budget!Start
  <2> SUFFICES ASSUME Init PROVE Budget!Start
    OBVIOUS
  <2>1. \A p \in Procs : pc[p] \in {"out", "ready", "sleep", "min"}
    BY ProcsAssumption DEF Init, Procs
  <2>2. SizeHolders = {}
    BY <2>1 DEF SizeHolders, Guarded
  <2> QED BY <2>2 DEF Init, Budget!Start
<1>2. IndInv /\ [Next]_vars => [Budget!Move]_(Budget!budget)
  <2> SUFFICES ASSUME IndInv, [Next]_vars PROVE [Budget!Move]_(Budget!budget)
    OBVIOUS
  <2>1. CASE Next
    <3>1. Core
      BY DEF IndInv, TypeOK, Core, CoreType
    <3>2. CoreType' /\ \E p \in Procs : Ledger(p)
      BY <2>1, <3>1, NextLedger
    <3> QED BY <3>2, LedgerMove
  <2>2. CASE UNCHANGED vars
    BY <2>2 DEF vars, Budget!budget, SizeHolders
  <2> QED BY <2>1, <2>2
<1> QED BY <1>1, <1>2, Invariance, PTL DEF Spec, ImplementsBudget, Budget!BudgetSpec
=============================================================================
