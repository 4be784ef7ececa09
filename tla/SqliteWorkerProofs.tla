------------------------- MODULE SqliteWorkerProofs -------------------------
(***************************************************************************)
(* Proof that the client, the worker thread and the database agree on the  *)
(* transactions, whatever calls are cancelled, for any size of the channel *)
(* and any number and nesting of transactions.                             *)
(***************************************************************************)
EXTENDS SqliteWorker, WellFoundedInduction, TLAPS

\* The application and the database as the properties suppose them: no rollback fails,
\* begin_with() is given a statement that begins a transaction, and its second await is
\* not cancelled.
Settled ==
    /\ Dialect = "sqlite" /\ ~NotABegin /\ "BeginCheck" \notin MayCancel
    /\ "ROLLBACK" \notin MayFail /\ "ROLLBACK TO" \notin MayFail

-----------------------------------------------------------------------------
(* The inductive invariant.  W is the stack of transactions as it was when *)
(* the worker had done what it has done: the open ones, which handles has, *)
(* and on top of them those whose rollback is still on its way.            *)

Writers == Tx \cup {Outside}
Stacks == Seq(Tx)
CommandSet == [op : AllCalls \cup {"BeginCheck", "StartRollback", "Shutdown"}, live : BOOLEAN, tx : Writers]
JobSet == [op : {"none", "relock", "queued", "Begin", "BeginWith", "Commit", "Rollback"},
           ok : BOOLEAN, live : BOOLEAN, depth : Nat]
FrameSet == [name : Nat, snap : SUBSET Writers]
SessionSet == [frames : Seq(FrameSet), data : SUBSET Writers, durable : SUBSET Writers, failed : {FALSE}]
CallSet == [op : AllCalls \cup {"BeginCheck", "StartRollback", "Shutdown"}, stage : {"send", "reply"}]
             \cup {NoCall, Closed}

WorkerType ==
    /\ chan \in Seq(CommandSet) /\ Len(chan) <= ChannelSize /\ job \in JobSet /\ alive \in BOOLEAN
    /\ mutex \in {"worker", "client", "free"} /\ session \in SessionSet /\ depth \in Nat /\ ignore \in BOOLEAN
    /\ call \in CallSet /\ handles \in Seq(Tx) /\ begun \in 0..MaxTx
    /\ fate \in [Tx -> Fates] /\ parent \in [Tx -> Writers] /\ acked \subseteq Writers

\* Transactions are numbered as they begin, and a nested one has the higher number.
Numbering ==
    \A x \in Tx : /\ x > begun => fate[x] = "new" /\ parent[x] = Outside
                  /\ x <= begun => parent[x] < x
                  /\ fate[x] = "open" <=> \E k \in 1..Len(handles) : handles[k] = x

\* Each transaction of the stack is nested in the one below.
Nested(W) ==
    \A k \in 1..Len(W) :
        /\ W[k] <= begun
        /\ parent[W[k]] = IF k = 1 THEN Outside ELSE W[k - 1]
        /\ \A l \in 1..Len(W) : k < l => W[k] < W[l]

\* The open ones are at the bottom, and the others are given up.
OpenBelow(W) ==
    /\ Len(handles) <= Len(W)
    /\ \A k \in 1..Len(handles) : handles[k] = W[k]
    /\ \A k \in Len(handles) + 1..Len(W) : fate[W[k]] \in {"aborted", "unknown"}

\* What the client is in.
CallFits ==
    /\ call.op \in {"Commit", "Rollback"} => handles # <<>>
    /\ call.op \in {"BeginCheck", "Shutdown", "closed"} => handles = <<>>
    /\ call.op = "StartRollback" => call.stage = "send"
    /\ call.op \in {"Begin", "BeginWith", "BeginCheck"} => begun < MaxTx
    /\ mutex = "client" => call.op \in {"Lock", "BeginCheck"}

RollbackComes(i) ==
    IF i < Len(chan) THEN chan[i + 1].op = "StartRollback" ELSE call = Sending("StartRollback")

One(b) == IF b THEN 1 ELSE 0
TopAt(W, n) == IF n = 0 THEN Outside ELSE W[n]

\* lev[i] is the height of the stack once the first i commands are done.
Levels(W, lev) ==
    /\ lev \in [0..Len(chan) -> Nat] /\ lev[0] = Len(W)
    /\ \A i \in 1..Len(chan) : lev[i - 1] = lev[i] + One(chan[i].op = "StartRollback")
    /\ \A i, j \in 0..Len(chan) : i <= j => lev[j] <= lev[i]
    /\ lev[Len(chan)] = Len(handles) + One(call = Sending("StartRollback"))

\* What a command in the channel says of the ones behind it and of its transaction.
CommandFits(W, lev, i) ==
    /\ chan[i].live /\ chan[i].op \notin {"Lock", "BeginCheck"} =>
          i = Len(chan) /\ call = [op |-> chan[i].op, stage |-> "reply"] /\ ~job.live
    /\ chan[i].op = "StartRollback" => ~chan[i].live
    /\ chan[i].op = "Shutdown" => chan[i].live
    /\ call.op = "BeginCheck" => chan[i].op = "BeginCheck"
    /\ chan[i].op = "Execute" => chan[i].tx = TopAt(W, lev[i])
    /\ chan[i].op \in {"Commit", "Rollback"} /\ ~chan[i].live => RollbackComes(i)
    /\ chan[i].op = "Commit" /\ ~chan[i].live => fate[W[lev[i]]] = "unknown"

\* The answer the thread holds.
JobFits(W) ==
    /\ job.op = "none" => job = NoJob
    /\ job.live => chan = <<>> /\ call = [op |-> job.op, stage |-> "reply"]
                     /\ job.op \in {"Begin", "BeginWith", "Commit", "Rollback"}
    /\ job.op \in {"relock", "queued"} => ~job.ok /\ ~ignore
    /\ job.op \in {"Commit", "Rollback"} /\ ~job.live => RollbackComes(0)
    /\ job.op = "Commit" /\ ~job.live => fate[W[Len(W)]] = "unknown"
    /\ job.op \in {"Begin", "BeginWith"} /\ job.ok => job.depth = Len(W)
    /\ job.op = "BeginWith" /\ job.ok => job.depth = 0
    /\ ignore => job = NoJob /\ RollbackComes(0)
    /\ call.op = "BeginCheck" =>
          /\ job.op \in {"none", "relock", "queued"} /\ Len(W) = 0 /\ ~ignore

\* The thread's counter and the stack differ by what was done and is not known yet.
DepthFits(W) ==
    /\ job.ok /\ job.op \in {"Begin", "BeginWith"} => depth = Len(W) + 1
    /\ job.ok /\ job.op \in {"Commit", "Rollback"} => depth = Len(W) - 1
    /\ ~job.ok /\ ignore => depth = Len(W) - 1
    /\ ~job.ok /\ call.op = "BeginCheck" => depth = Len(W) + 1
    /\ ~job.ok /\ ~ignore /\ call.op # "BeginCheck" => depth = Len(W)

\* A frame of each level, the first one the BEGIN, and none above the depth.
FramesFit(f, d) ==
    /\ \A i \in 1..Len(f) : f[i].name <= d
    /\ \A i, j \in 1..Len(f) : i <= j => f[i].name <= f[j].name
    /\ \A k \in 0..d - 1 : \E i \in 1..Len(f) : f[i].name = k
    /\ \A i \in 1..Len(f) : f[i].name = 0 <=> i = 1
    /\ d = 0 => f = <<>>

\* What the transaction of level k found when it began.
Snap(s, k) == s.frames[Latest(s, k - 1)].snap

\* What the writes in X belong to is among the first k of the stack, or done.
OnlyFrom(W, X, k) ==
    \A i \in X \ {Outside} :
        /\ i <= begun
        /\ \A j \in Enclosing(i) : (\E l \in 1..k : W[l] = j) \/ fate[j] \in {"committed", "unknown"}

\* What was written in transactions that are not given up, nor from the k-th of the stack
\* on, is in X.
Keeps(W, X, k) ==
    \A i \in acked \ {Outside} :
        (\A j \in Enclosing(i) : fate[j] \in {"committed", "open"} /\ \A l \in k..Len(W) : W[l] # j) => i \in X

Ended(op) == job.ok /\ job.live /\ job.op = op

\* What is durable is in every state the session can go back to.
SnapsFit(s) ==
    /\ s.frames = <<>> => s.data = s.durable
    /\ s.durable \subseteq s.data
    /\ \A i \in 1..Len(s.frames) : s.durable \subseteq s.frames[i].snap
    /\ s.frames # <<>> => s.frames[1].snap = s.durable

\* Only what is open, or done, is in the data; a COMMIT that was executed and not yet
\* acknowledged is open for the client.
DataOwned(W) ==
    /\ OnlyFrom(W, session.data, IF Ended("Commit") \/ depth > Len(W) THEN Len(W) ELSE depth)
    /\ OnlyFrom(W, session.durable, One(Ended("Commit") /\ depth = 0))
    /\ \A k \in 1..depth : OnlyFrom(W, Snap(session, k), k - 1)

\* Nothing is missing from it, except what a ROLLBACK that is not yet acknowledged undid.
DataKept(W) ==
    /\ Keeps(W, session.data, IF Ended("Rollback") THEN Len(W) ELSE Len(W) + 1)
    /\ Keeps(W, session.durable, 1)
    /\ \A k \in 1..depth : Keeps(W, Snap(session, k), k)

Known ==
    /\ acked \subseteq 0..begun
    /\ Outside \in acked => Outside \in session.durable

Tower(W) == Nested(W) /\ OpenBelow(W)
Pipe(W, lev) == Levels(W, lev) /\ \A i \in 1..Len(chan) : CommandFits(W, lev, i)
Books(W) == FramesFit(session.frames, depth) /\ SnapsFit(session) /\ DataOwned(W) /\ DataKept(W)
Running(W, lev) == Tower(W) /\ Pipe(W, lev) /\ JobFits(W) /\ DepthFits(W) /\ Books(W)

\* The thread has ended: nothing is on its way any more.
Ceased ==
    /\ chan = <<>> /\ job = NoJob /\ Nested(handles) /\ call.op # "BeginCheck"
    /\ session.durable \subseteq session.data
    /\ OnlyFrom(handles, session.durable, 0)
    /\ Keeps(handles, session.data, Len(handles) + 1) /\ Keeps(handles, session.durable, 1)

WorkerInv ==
    /\ WorkerType /\ Numbering /\ CallFits /\ Known
    /\ alive => \E W \in Stacks, lev \in [0..Len(chan) -> Nat] : Running(W, lev)
    /\ ~alive => Ceased

-----------------------------------------------------------------------------
(* The frames of the database.                                             *)

\* A nonempty set of numbers has a least one.
LEMMA LeastNumber ==
    ASSUME NEW T, T \subseteq Nat, T # {}
    PROVE  \E n \in T : \A m \in T : n <= m
<1>1. PICK R : R = OpToRel(<, Nat)
  BY Zenon
<1>2. \E x \in T : \A y \in T : ~(<<y, x>> \in R)
  BY <1>1, NatLessThanWellFounded, WFMin, Zenon
<1>3. \A x, y \in Nat : <<y, x>> \in OpToRel(<, Nat) <=> <<y, x>> \in Nat \X Nat /\ <<y, x>>[1] < <<y, x>>[2]
  BY Zenon DEF OpToRel
<1>4. \A x, y \in Nat : <<y, x>> \in R <=> y < x
  BY Zenon, <1>3, <1>1
<1>5. \A x \in T : x \in Nat
  OBVIOUS
<1>6. \E x \in T : \A y \in T : ~(y < x)
  BY <1>2, <1>4, <1>5, Zenon
<1> QED
  BY <1>5, <1>6, SMT

\* Latest() is the last frame of the name, if there is one.
LEMMA LatestIs ==
    ASSUME NEW s \in SessionSet, NEW n \in Nat, NEW e \in 1..Len(s.frames), s.frames[e].name = n
    PROVE  /\ Latest(s, n) \in 1..Len(s.frames) /\ s.frames[Latest(s, n)].name = n
           /\ \A j \in 1..Len(s.frames) : s.frames[j].name = n => j <= Latest(s, n)
<1> PICK f, L : f = s.frames /\ L = Len(s.frames)
  OBVIOUS
<1>0. f \in Seq(FrameSet) /\ L \in Nat /\ DOMAIN f = 1..L
  BY DEF SessionSet
<1> PICK N : N = Named(s, n)
  OBVIOUS
<1>1. \A i : i \in N <=> i \in 1..L /\ f[i].name = n
  BY <1>0 DEF Named
<1> PICK T : T = {m \in Nat : L - m \in N}
  OBVIOUS
<1>2. L - e \in T /\ T \subseteq Nat
  <2>1. e \in N /\ L - e \in Nat /\ L - (L - e) = e
    BY <1>0, <1>1
  <2> QED
    BY <2>1
<1>3. PICK m \in T : \A k \in T : m <= k
  BY <1>2, LeastNumber
<1>4. L - m \in N /\ \A j \in N : j <= L - m
  <2>1. L - m \in N /\ m \in Nat
    BY <1>3
  <2>2. ASSUME NEW j \in N PROVE j <= L - m
    <3>1. j \in 1..L
      BY <1>1
    <3>2. L - j \in Nat /\ L - (L - j) = j
      BY <3>1, <1>0
    <3>3. L - j \in T
      BY <3>2
    <3>4. m <= L - j
      BY <3>3, <1>3
    <3> QED
      BY ONLY <3>1, <3>4, <2>1, <1>0
  <2> QED
    BY <2>1, <2>2
<1>5. Latest(s, n) \in N /\ \A j \in N : j <= Latest(s, n)
  BY <1>4, Zenon DEF Latest
<1> QED
  BY <1>0, <1>1, <1>5

\* Whatever is last of its name is what Latest() gives.
LEMMA LatestUnique ==
    ASSUME NEW s \in SessionSet, NEW n \in Nat, NEW e \in 1..Len(s.frames), s.frames[e].name = n,
           \A j \in 1..Len(s.frames) : s.frames[j].name = n => j <= e
    PROVE  Latest(s, n) = e
<1>1. /\ Latest(s, n) \in 1..Len(s.frames) /\ s.frames[Latest(s, n)].name = n
      /\ \A j \in 1..Len(s.frames) : s.frames[j].name = n => j <= Latest(s, n)
  BY LatestIs
<1>2. Latest(s, n) <= e /\ e <= Latest(s, n)
  BY <1>1
<1>3. Len(s.frames) \in Nat
  BY DEF SessionSet
<1> QED
  BY <1>1, <1>2, <1>3

\* The parts of a session.
LEMMA SessionParts ==
    ASSUME NEW s \in SessionSet
    PROVE  /\ s.frames \in Seq(FrameSet) /\ s.data \in SUBSET Writers /\ s.durable \in SUBSET Writers
           /\ s.failed = FALSE /\ Len(s.frames) \in Nat
           /\ \A i \in 1..Len(s.frames) : s.frames[i] \in FrameSet /\ s.frames[i].name \in Nat
                                             /\ s.frames[i].snap \in SUBSET Writers
<1>1. s.frames \in Seq(FrameSet) /\ s.data \in SUBSET Writers /\ s.durable \in SUBSET Writers /\ s.failed = FALSE
  BY DEF SessionSet
<1>2. Len(s.frames) \in Nat /\ \A i \in 1..Len(s.frames) : s.frames[i] \in FrameSet
  BY <1>1
<1>3. \A x \in FrameSet : x.name \in Nat /\ x.snap \in SUBSET Writers
  BY DEF FrameSet
<1> QED
  BY <1>1, <1>2, <1>3

\* The frame of a level, under a depth that reaches it.
LEMMA LevelFrame ==
    ASSUME NEW s \in SessionSet, NEW d \in Nat, FramesFit(s.frames, d), NEW k \in 1..d
    PROVE  /\ Latest(s, k - 1) \in 1..Len(s.frames) /\ s.frames[Latest(s, k - 1)].name = k - 1
           /\ \A j \in 1..Len(s.frames) : s.frames[j].name = k - 1 => j <= Latest(s, k - 1)
           /\ \A j \in 1..Len(s.frames) : j <= Latest(s, k - 1) => s.frames[j].name <= k - 1
<1> PICK n : n = k - 1
  OBVIOUS
<1>1. n \in Nat /\ n \in 0..d - 1
  OBVIOUS
<1>2. PICK e \in 1..Len(s.frames) : s.frames[e].name = n
  BY <1>1 DEF FramesFit
<1>3. /\ Latest(s, n) \in 1..Len(s.frames) /\ s.frames[Latest(s, n)].name = n
      /\ \A j \in 1..Len(s.frames) : s.frames[j].name = n => j <= Latest(s, n)
  BY <1>1, <1>2, LatestIs
<1>4. \A j \in 1..Len(s.frames) : j <= Latest(s, n) => s.frames[j].name <= n
  BY <1>3 DEF FramesFit
<1> QED
  BY <1>3, <1>4

\* A session that keeps the frame of a level, and everything of its name in front of it,
\* has the same frame at that level.
LEMMA LevelKept ==
    ASSUME NEW s \in SessionSet, NEW t \in SessionSet, NEW d \in Nat, FramesFit(s.frames, d), NEW k \in 1..d,
           Latest(s, k - 1) <= Len(t.frames),
           t.frames[Latest(s, k - 1)] = s.frames[Latest(s, k - 1)],
           \A j \in 1..Len(t.frames) : t.frames[j].name = k - 1 => j <= Latest(s, k - 1)
    PROVE  t.frames[Latest(t, k - 1)] = s.frames[Latest(s, k - 1)]
<1> PICK n, e : n = k - 1 /\ e = Latest(s, k - 1)
  OBVIOUS
<1>1. n \in Nat /\ e \in 1..Len(s.frames) /\ s.frames[e].name = n
  BY LevelFrame
<1>2. e \in 1..Len(t.frames)
  BY <1>1, SessionParts
<1>3. t.frames[e].name = n /\ \A j \in 1..Len(t.frames) : t.frames[j].name = n => j <= e
  BY <1>1
<1>4. Latest(t, n) = e
  BY ONLY <1>1, <1>2, <1>3, LatestUnique, t \in SessionSet
<1> QED
  BY <1>4

\* A frame of the next level on top of the others.
LEMMA PushEffect ==
    ASSUME NEW s \in SessionSet, NEW d \in Nat, FramesFit(s.frames, d), SnapsFit(s)
    PROVE  LET t == Push(s, d) IN
           /\ t \in SessionSet /\ FramesFit(t.frames, d + 1) /\ SnapsFit(t)
           /\ t.data = s.data /\ t.durable = s.durable /\ Snap(t, d + 1) = s.data
           /\ \A k \in 1..d : Snap(t, k) = Snap(s, k)
<1> PICK t, x, L, f, e : /\ t = Push(s, d) /\ x = [name |-> d, snap |-> s.data] /\ L = Len(s.frames)
                         /\ f = s.frames /\ e = L + 1
  OBVIOUS
<1>0. /\ f \in Seq(FrameSet) /\ s.data \in SUBSET Writers /\ s.durable \in SUBSET Writers
      /\ s.failed = FALSE /\ L \in Nat
      /\ \A i \in 1..L : f[i] \in FrameSet /\ f[i].name \in Nat /\ f[i].snap \in SUBSET Writers
  BY SessionParts
<1>1. x \in FrameSet /\ x.name = d /\ x.snap = s.data
  BY <1>0 DEF FrameSet
<1>2. /\ t.frames = Append(f, x) /\ t.data = s.data /\ t.durable = s.durable /\ t.failed = FALSE
      /\ t = [frames |-> Append(f, x), data |-> s.data, durable |-> s.durable, failed |-> FALSE]
  BY <1>0 DEF Push, SessionSet
<1>3. /\ Append(f, x) \in Seq(FrameSet) /\ Len(t.frames) = e /\ t.frames[e] = x
      /\ \A i \in 1..L : t.frames[i] = f[i]
  BY <1>0, <1>1, <1>2
<1>4. t \in SessionSet
  BY <1>0, <1>2, <1>3 DEF SessionSet
<1>5. /\ \A i \in 1..L : f[i].name <= d
      /\ \A i, j \in 1..L : i <= j => f[i].name <= f[j].name
      /\ \A k \in 0..d - 1 : \E i \in 1..L : f[i].name = k
      /\ \A i \in 1..L : f[i].name = 0 <=> i = 1
      /\ d = 0 => f = <<>>
  BY DEF FramesFit
<1>6. e \in 1..e /\ \A i : i \in 1..e <=> i \in 1..L \/ i = e
  BY <1>0
<1>7. d = 0 <=> L = 0
  <2>1. d = 0 => L = 0
    BY <1>5
  <2>2. CASE d # 0
    <3>1. 0 \in 0..d - 1
      BY <2>2
    <3> QED
      BY <3>1, <1>5, <2>2
  <2> QED
    BY <2>1, <2>2
<1>8. FramesFit(t.frames, d + 1)
  <2>1. ASSUME NEW i \in 1..Len(t.frames) PROVE t.frames[i].name <= d + 1
    <3>1. CASE i = e
      BY <3>1, <1>1, <1>3
    <3>2. CASE i \in 1..L
      <4>1. f[i].name \in Nat /\ f[i].name <= d /\ t.frames[i] = f[i]
        BY <3>2, <1>0, <1>3, <1>5
      <4> QED
        BY <4>1
    <3> QED
      BY <3>1, <3>2, <1>3, <1>6
  <2>2. \A i, j \in 1..Len(t.frames) : i <= j => t.frames[i].name <= t.frames[j].name
    <3> SUFFICES ASSUME NEW i \in 1..e, NEW j \in 1..e, i <= j PROVE t.frames[i].name <= t.frames[j].name
      BY <1>3
    <3>1. CASE j = e
      <4>1. CASE i = e
        BY <3>1, <4>1, <1>1, <1>3
      <4>2. CASE i \in 1..L
        <5>1. f[i].name \in Nat /\ f[i].name <= d /\ t.frames[i] = f[i]
          BY <4>2, <1>0, <1>3, <1>5
        <5>2. t.frames[j].name = d
          BY <3>1, <1>1, <1>3
        <5> QED
          BY <5>1, <5>2
      <4> QED
        BY <4>1, <4>2, <1>6
    <3>2. CASE j # e
      <4>1. i \in 1..L /\ j \in 1..L
        BY <3>2, <1>0, <1>6
      <4> QED
        BY <4>1, <1>3, <1>5
    <3> QED
      BY <3>1, <3>2
  <2>3. \A k \in 0..(d + 1) - 1 : \E i \in 1..Len(t.frames) : t.frames[i].name = k
    <3>0. 0..(d + 1) - 1 = 0..d
      OBVIOUS
    <3> SUFFICES ASSUME NEW k \in 0..d PROVE \E i \in 1..e : t.frames[i].name = k
      BY <1>3, <3>0
    <3>1. CASE k = d
      BY <3>1, <1>1, <1>3, <1>6
    <3>2. CASE k # d
      <4>1. PICK i \in 1..L : f[i].name = k
        BY <3>2, <1>5
      <4> QED
        BY <4>1, <1>3, <1>6
    <3> QED
      BY <3>1, <3>2
  <2>4. ASSUME NEW i \in 1..Len(t.frames) PROVE t.frames[i].name = 0 <=> i = 1
    <3>1. CASE i = e
      BY <3>1, <1>0, <1>1, <1>3, <1>7
    <3>2. CASE i \in 1..L
      BY <3>2, <1>3, <1>5
    <3> QED
      BY <3>1, <3>2, <1>3, <1>6
  <2> QED
    BY <2>1, <2>2, <2>3, <2>4 DEF FramesFit
<1>9. SnapsFit(t)
  <2>1. t.frames # <<>> /\ s.durable \subseteq s.data
    BY <1>0, <1>3 DEF SnapsFit
  <2>2. \A i \in 1..L : s.durable \subseteq f[i].snap
    BY DEF SnapsFit
  <2>3. \A i \in 1..Len(t.frames) : t.durable \subseteq t.frames[i].snap
    BY <1>1, <1>2, <1>3, <1>6, <2>1, <2>2
  <2>4. t.frames[1].snap = t.durable
    <3>1. CASE L = 0
      <4>1. s.frames = <<>> /\ e = 1
        BY <3>1, <1>5, <1>7
      <4>2. s.data = s.durable
        BY <4>1 DEF SnapsFit
      <4> QED
        BY <4>1, <4>2, <1>1, <1>2, <1>3
    <3>2. CASE L # 0
      <4>1. 1 \in 1..L /\ s.frames # <<>>
        BY <3>2, <1>0
      <4> QED
        BY <4>1, <1>2, <1>3 DEF SnapsFit
    <3> QED
      BY <3>1, <3>2
  <2> QED
    BY <1>2, <2>1, <2>3, <2>4 DEF SnapsFit
<1>10. Snap(t, d + 1) = s.data
  <2>1. e \in 1..Len(t.frames) /\ t.frames[e].name = d /\ \A j \in 1..Len(t.frames) : t.frames[j].name = d => j <= e
    BY <1>0, <1>1, <1>3, <1>6
  <2>2. Latest(t, d) = e
    BY ONLY <2>1, <1>4, LatestUnique, d \in Nat
  <2>3. (d + 1) - 1 = d
    OBVIOUS
  <2> QED
    BY <2>2, <2>3, <1>1, <1>3 DEF Snap
<1>11. ASSUME NEW k \in 1..d PROVE Snap(t, k) = Snap(s, k)
  <2> PICK h : h = Latest(s, k - 1)
    OBVIOUS
  <2>1. h \in 1..L /\ \A j \in 1..L : f[j].name = k - 1 => j <= h
    BY LevelFrame
  <2>2. h <= Len(t.frames) /\ t.frames[h] = f[h]
    BY <2>1, <1>0, <1>3
  <2>3. \A j \in 1..Len(t.frames) : t.frames[j].name = k - 1 => j <= h
    <3>1. x.name # k - 1
      BY <1>1
    <3> QED
      BY <3>1, <2>1, <1>3, <1>6
  <2>4. t.frames[Latest(t, k - 1)] = s.frames[Latest(s, k - 1)]
    BY <2>2, <2>3, <1>4, LevelKept
  <2> QED
    BY <2>4 DEF Snap
<1> QED
  BY <1>2, <1>4, <1>8, <1>9, <1>10, <1>11

\* The frames in front of a savepoint, with it or without it.
LEMMA CutFits ==
    ASSUME NEW s \in SessionSet, NEW d \in Nat, d > 1, FramesFit(s.frames, d), NEW m,
           m = Latest(s, d - 1) - 1 \/ m = Latest(s, d - 1)
    PROVE  LET g == SubSeq(s.frames, 1, m) IN
           /\ m \in 1..Len(s.frames) /\ g \in Seq(FrameSet) /\ Len(g) = m
           /\ \A i \in 1..m : g[i] = s.frames[i]
           /\ FramesFit(g, d - 1)
           /\ \A k \in 1..d - 1 : Latest(s, k - 1) \in 1..m
<1> PICK f, L, e, c : f = s.frames /\ L = Len(s.frames) /\ e = Latest(s, d - 1) /\ c = d - 1
  OBVIOUS
<1> PICK g : g = SubSeq(s.frames, 1, m)
  OBVIOUS
<1>0. /\ f \in Seq(FrameSet) /\ L \in Nat /\ c \in Nat /\ c > 0
      /\ \A i \in 1..L : f[i] \in FrameSet /\ f[i].name \in Nat
  <2>1. c \in Nat /\ c > 0
    OBVIOUS
  <2> QED
    BY <2>1, SessionParts
<1>1. /\ \A i, j \in 1..L : i <= j => f[i].name <= f[j].name
      /\ \A k \in 0..c : \E i \in 1..L : f[i].name = k
      /\ \A i \in 1..L : f[i].name = 0 <=> i = 1
  BY DEF FramesFit
<1>2. e \in 1..L /\ f[e].name = c
  <2>1. d \in 1..d
    OBVIOUS
  <2> QED
    BY <2>1, LevelFrame
<1>3. ASSUME NEW i \in 1..L, f[i].name < c PROVE i < e
  <2>1. e <= i => f[e].name <= f[i].name
    BY <1>1, <1>2
  <2>2. f[i].name \in Nat /\ f[e].name = c
    BY <1>0, <1>2
  <2>3. ~(e <= i)
    BY ONLY <2>1, <2>2, <1>3, <1>0
  <2> QED
    BY <2>3, <1>0, <1>2
<1>4. e > 1 /\ 1 \in 1..L
  <2>1. 1 \in 1..L
    BY <1>0, <1>2
  <2>2. f[1].name = 0
    BY <2>1, <1>1
  <2>3. e # 1
    BY <2>2, <1>0, <1>2
  <2> QED
    BY <2>1, <2>3, <1>2
<1>5. m \in 1..L /\ m <= e /\ \A i \in 1..L : i < e => i <= m
  BY <1>0, <1>2, <1>4
<1>6. g \in Seq(FrameSet) /\ Len(g) = m /\ \A i \in 1..m : g[i] = f[i]
  <2>1. 1 \in 1..L + 1 /\ m \in 1..L
    BY <1>0, <1>5
  <2> QED
    BY <1>0, <2>1
<1>7. \A i \in 1..m : i \in 1..L /\ f[i].name <= c
  BY <1>0, <1>1, <1>2, <1>5
<1>8. ASSUME NEW k \in 1..c PROVE Latest(s, k - 1) \in 1..m
  <2>1. k \in 1..d /\ k - 1 < c
    BY <1>0
  <2>2. Latest(s, k - 1) \in 1..L /\ f[Latest(s, k - 1)].name = k - 1
    BY <2>1, LevelFrame
  <2>3. Latest(s, k - 1) < e
    BY <2>1, <2>2, <1>3
  <2> QED
    BY <2>2, <2>3, <1>5
<1>9. FramesFit(g, c)
  <2>1. \A i \in 1..Len(g) : g[i].name <= c
    BY <1>6, <1>7
  <2>2. \A i, j \in 1..Len(g) : i <= j => g[i].name <= g[j].name
    BY <1>1, <1>6, <1>7
  <2>3. ASSUME NEW k \in 0..c - 1 PROVE \E i \in 1..Len(g) : g[i].name = k
    <3>1. k \in 0..c /\ k < c
      BY <1>0
    <3>2. PICK i \in 1..L : f[i].name = k
      BY <3>1, <1>1
    <3>3. i \in 1..m
      BY <3>1, <3>2, <1>3, <1>5
    <3> QED
      BY <3>2, <3>3, <1>6
  <2>4. ASSUME NEW i \in 1..Len(g) PROVE g[i].name = 0 <=> i = 1
    <3>1. i \in 1..m /\ i \in 1..L /\ g[i] = f[i]
      BY <1>6, <1>7
    <3> QED
      BY <3>1, <1>1
  <2>5. c # 0
    BY <1>0
  <2> QED
    BY <2>1, <2>2, <2>3, <2>4, <2>5 DEF FramesFit
<1> QED
  BY <1>5, <1>6, <1>8, <1>9

\* A session with those frames has the snapshots of the levels below.
LEMMA CutSnaps ==
    ASSUME NEW s \in SessionSet, NEW t \in SessionSet, NEW d \in Nat, d > 1, FramesFit(s.frames, d), SnapsFit(s),
           NEW m, m = Latest(s, d - 1) - 1 \/ m = Latest(s, d - 1),
           t.frames = SubSeq(s.frames, 1, m), t.durable = s.durable, t.durable \subseteq t.data
    PROVE  FramesFit(t.frames, d - 1) /\ SnapsFit(t) /\ \A k \in 1..d - 1 : Snap(t, k) = Snap(s, k)
<1> PICK g : g = SubSeq(s.frames, 1, m)
  OBVIOUS
<1>1. /\ m \in 1..Len(s.frames) /\ g \in Seq(FrameSet) /\ Len(g) = m
      /\ \A i \in 1..m : g[i] = s.frames[i]
      /\ FramesFit(g, d - 1)
      /\ \A k \in 1..d - 1 : Latest(s, k - 1) \in 1..m
  BY CutFits
<1>2. Len(s.frames) \in Nat
  BY SessionParts
<1>3. g # <<>> /\ s.frames # <<>> /\ 1 \in 1..m /\ \A i \in 1..m : i \in 1..Len(s.frames)
  <2>1. m \in Nat /\ m >= 1 /\ m <= Len(s.frames)
    BY <1>1, <1>2
  <2>2. g # <<>> /\ s.frames # <<>>
    BY <2>1, <1>1, <1>2
  <2> QED
    BY <2>1, <2>2, <1>2
<1>4. SnapsFit(t)
  BY <1>1, <1>3 DEF SnapsFit
<1>5. ASSUME NEW k \in 1..d - 1 PROVE Snap(t, k) = Snap(s, k)
  <2> PICK h : h = Latest(s, k - 1)
    OBVIOUS
  <2>1. h \in 1..m /\ k \in 1..d
    BY <1>1
  <2>2. \A j \in 1..Len(s.frames) : s.frames[j].name = k - 1 => j <= h
    BY <2>1, LevelFrame
  <2>3. h <= Len(t.frames) /\ t.frames[h] = s.frames[h]
    BY <2>1, <1>1
  <2>4. \A j \in 1..Len(t.frames) : t.frames[j].name = k - 1 => j <= h
    BY <2>2, <1>1, <1>3
  <2>5. t.frames[Latest(t, k - 1)] = s.frames[Latest(s, k - 1)]
    BY <2>1, <2>3, <2>4, LevelKept
  <2> QED
    BY <2>5 DEF Snap
<1> QED
  BY <1>1, <1>4, <1>5

\* BEGIN and SAVEPOINT push a frame of the depth.
LEMMA BeginEffect ==
    ASSUME Settled, NEW s \in SessionSet, NEW d \in Nat, FramesFit(s.frames, d)
    PROVE  Executed(s, BeginSql(d)) = Push(s, d)
<1>1. CASE d = 0
  <2>1. BeginSql(d).verb = "BEGIN" /\ Executed(s, BeginSql(d)) = Begun(s)
    BY <1>1 DEF BeginSql, Executed
  <2>2. s.frames = <<>> /\ Dialect # "mysql"
    BY <1>1 DEF FramesFit, Settled
  <2> QED
    BY <2>1, <2>2, <1>1 DEF Begun, InTransaction
<1>2. CASE d # 0
  <2>1. BeginSql(d).verb = "SAVEPOINT" /\ BeginSql(d).name = d
    BY <1>2 DEF BeginSql
  <2>2. Executed(s, BeginSql(d)) = Saved(s, d)
    BY <2>1 DEF Executed
  <2> QED
    BY <2>2 DEF Saved, Settled
<1> QED
  BY <1>1, <1>2

\* COMMIT and RELEASE keep the data; COMMIT makes it durable.
LEMMA CommitEffect ==
    ASSUME NEW s \in SessionSet, NEW d \in Nat, d > 0, FramesFit(s.frames, d), SnapsFit(s)
    PROVE  LET t == Executed(s, CommitSql(d)) IN
           /\ t \in SessionSet /\ FramesFit(t.frames, d - 1) /\ SnapsFit(t)
           /\ t.data = s.data /\ t.durable = IF d = 1 THEN s.data ELSE s.durable
           /\ \A k \in 1..d - 1 : Snap(t, k) = Snap(s, k)
<1> PICK t : t = Executed(s, CommitSql(d))
  OBVIOUS
<1>0. /\ s.frames \in Seq(FrameSet) /\ s.data \in SUBSET Writers /\ s.durable \in SUBSET Writers
      /\ s.failed = FALSE /\ Len(s.frames) \in Nat
  BY SessionParts
<1>1. CASE d = 1
  <2>1. t = Committed(s)
    <3>1. CommitSql(d).verb = "COMMIT"
      BY <1>1 DEF CommitSql
    <3> QED
      BY <3>1 DEF Executed
  <2>2. t = [frames |-> <<>>, data |-> s.data, durable |-> s.data, failed |-> FALSE]
    BY <2>1, <1>0 DEF Committed
  <2>3. t \in SessionSet
    BY <2>2, <1>0 DEF SessionSet
  <2>4. FramesFit(t.frames, 0) /\ SnapsFit(t)
    BY <2>2 DEF FramesFit, SnapsFit
  <2> QED
    BY <1>1, <2>2, <2>3, <2>4
<1>2. CASE d # 1
  <2> PICK e, m : e = Latest(s, d - 1) /\ m = Latest(s, d - 1) - 1
    OBVIOUS
  <2>1. d > 1
    BY <1>2
  <2>2. m \in 1..Len(s.frames) /\ SubSeq(s.frames, 1, m) \in Seq(FrameSet)
    BY <2>1, CutFits
  <2>3. e # 1 /\ m = e - 1
    <3>1. d \in 1..d
      BY <2>1
    <3>2. Latest(s, d - 1) \in 1..Len(s.frames)
      BY <3>1, LevelFrame
    <3> QED
      BY <3>2, <2>2, <1>0
  <2>4. t = Released(s, d - 1)
    <3>1. CommitSql(d).verb = "RELEASE" /\ CommitSql(d).name = d - 1
      BY <1>2 DEF CommitSql
    <3> QED
      BY <3>1 DEF Executed
  <2>5. t = [s EXCEPT !.frames = SubSeq(s.frames, 1, m)]
    BY <2>3, <2>4 DEF Released
  <2>6. t = [frames |-> SubSeq(s.frames, 1, m), data |-> s.data, durable |-> s.durable, failed |-> FALSE]
    BY <2>5, <1>0 DEF SessionSet
  <2>7. t \in SessionSet
    BY <2>2, <2>6, <1>0 DEF SessionSet
  <2>8. t.frames = SubSeq(s.frames, 1, m) /\ t.data = s.data /\ t.durable = s.durable
    BY <2>6
  <2>9. t.durable \subseteq t.data
    BY <2>8 DEF SnapsFit
  <2>10. FramesFit(t.frames, d - 1) /\ SnapsFit(t) /\ \A k \in 1..d - 1 : Snap(t, k) = Snap(s, k)
    BY <2>1, <2>7, <2>8, <2>9, CutSnaps, ZenonT(60)
  <2> QED
    BY <1>2, <2>7, <2>8, <2>10
<1> QED
  BY <1>1, <1>2

\* The outermost transaction found what is durable.
LEMMA FirstSnap ==
    ASSUME NEW s \in SessionSet, NEW d \in Nat, d > 0, FramesFit(s.frames, d), SnapsFit(s)
    PROVE  s.frames # <<>> /\ Snap(s, 1) = s.durable
<1>1. 1 \in 1..d
  OBVIOUS
<1>2. Latest(s, 1 - 1) \in 1..Len(s.frames) /\ s.frames[Latest(s, 1 - 1)].name = 1 - 1
  BY <1>1, LevelFrame
<1>3. Latest(s, 0) \in 1..Len(s.frames) /\ s.frames[Latest(s, 0)].name = 0
  BY <1>2
<1>4. Latest(s, 0) = 1
  BY <1>3 DEF FramesFit
<1>5. s.frames # <<>>
  BY <1>3
<1> QED
  BY <1>4, <1>5 DEF Snap, SnapsFit

\* ROLLBACK and ROLLBACK TO go back to what the transaction of the depth found.
LEMMA RollbackEffect ==
    ASSUME NEW s \in SessionSet, NEW d \in Nat, d > 0, FramesFit(s.frames, d), SnapsFit(s)
    PROVE  LET t == Executed(s, RollbackSql(d)) IN
           /\ t \in SessionSet /\ FramesFit(t.frames, d - 1) /\ SnapsFit(t)
           /\ t.data = Snap(s, d) /\ t.durable = s.durable
           /\ \A k \in 1..d - 1 : Snap(t, k) = Snap(s, k)
<1> PICK t : t = Executed(s, RollbackSql(d))
  OBVIOUS
<1>0. /\ s.frames \in Seq(FrameSet) /\ s.data \in SUBSET Writers /\ s.durable \in SUBSET Writers
      /\ s.failed = FALSE /\ Len(s.frames) \in Nat
      /\ \A i \in 1..Len(s.frames) : s.frames[i].snap \in SUBSET Writers
  BY SessionParts
<1>1. CASE d = 1
  <2>1. t = RolledBack(s)
    <3>1. RollbackSql(d).verb = "ROLLBACK"
      BY <1>1 DEF RollbackSql
    <3> QED
      BY <3>1 DEF Executed
  <2>2. t = [frames |-> <<>>, data |-> s.durable, durable |-> s.durable, failed |-> FALSE]
    BY <2>1 DEF RolledBack
  <2>3. t \in SessionSet
    BY <2>2, <1>0 DEF SessionSet
  <2>4. FramesFit(t.frames, 0) /\ SnapsFit(t)
    BY <2>2 DEF FramesFit, SnapsFit
  <2> QED
    BY <1>1, <2>2, <2>3, <2>4, FirstSnap
<1>2. CASE d # 1
  <2> PICK m : m = Latest(s, d - 1)
    OBVIOUS
  <2>1. d > 1
    BY <1>2
  <2>2. m \in 1..Len(s.frames) /\ SubSeq(s.frames, 1, m) \in Seq(FrameSet)
    BY <2>1, CutFits
  <2>3. s.frames[m].snap = Snap(s, d) /\ s.frames[m].snap \in SUBSET Writers
    BY <2>2, <1>0 DEF Snap
  <2>4. t = RolledBackTo(s, d - 1)
    <3>1. RollbackSql(d).verb = "ROLLBACK TO" /\ RollbackSql(d).name = d - 1
      BY <1>2 DEF RollbackSql
    <3> QED
      BY <3>1 DEF Executed
  <2>5. t = [s EXCEPT !.frames = SubSeq(s.frames, 1, m), !.data = s.frames[m].snap, !.failed = FALSE]
    BY <2>4 DEF RolledBackTo
  <2>6. t = [frames |-> SubSeq(s.frames, 1, m), data |-> s.frames[m].snap, durable |-> s.durable, failed |-> FALSE]
    BY <2>5, <1>0 DEF SessionSet
  <2>7. t \in SessionSet
    BY <2>2, <2>3, <2>6, <1>0 DEF SessionSet
  <2>8. t.frames = SubSeq(s.frames, 1, m) /\ t.data = s.frames[m].snap /\ t.durable = s.durable
    <3> PICK g, x, y : g = SubSeq(s.frames, 1, m) /\ x = s.frames[m].snap /\ y = s.durable
      OBVIOUS
    <3>1. t = [frames |-> g, data |-> x, durable |-> y, failed |-> FALSE]
      BY <2>6
    <3>2. t.frames = g /\ t.data = x /\ t.durable = y
      BY ONLY <3>1
    <3> QED
      BY <3>2
  <2>9. t.durable \subseteq t.data
    BY <2>2, <2>8 DEF SnapsFit
  <2>10. FramesFit(t.frames, d - 1) /\ SnapsFit(t) /\ \A k \in 1..d - 1 : Snap(t, k) = Snap(s, k)
    BY <2>1, <2>7, <2>8, <2>9, CutSnaps
  <2> QED
    BY <2>3, <2>7, <2>8, <2>10
<1> QED
  BY <1>1, <1>2

\* There is something to roll back.
LEMMA RollbackAccepted ==
    ASSUME NEW s \in SessionSet, NEW d \in Nat, d > 0, FramesFit(s.frames, d)
    PROVE  Accepts(s, RollbackSql(d))
<1>1. d \in 1..d
  OBVIOUS
<1>2. Latest(s, d - 1) \in 1..Len(s.frames) /\ s.frames[Latest(s, d - 1)].name = d - 1
  BY <1>1, LevelFrame
<1>3. DOMAIN s.frames = 1..Len(s.frames) /\ s.frames # <<>>
  BY <1>2, SessionParts
<1>4. CASE d = 1
  BY <1>3, <1>4 DEF RollbackSql, Accepts, InTransaction
<1>5. CASE d # 1
  <2>1. Latest(s, d - 1) \in Named(s, d - 1)
    BY <1>2, <1>3 DEF Named
  <2> QED
    BY <2>1, <1>5 DEF RollbackSql, Accepts
<1> QED
  BY <1>4, <1>5

\* A refused statement changes nothing in SQLite.
LEMMA RejectedSame ==
    ASSUME Settled, NEW s \in SessionSet
    PROVE  Rejected(s) = s
BY DEF Rejected, Settled, SessionSet

\* A write is in the data, and durable outside a transaction.
LEMMA WriteEffect ==
    ASSUME NEW s \in SessionSet, NEW d \in Nat, FramesFit(s.frames, d), SnapsFit(s), NEW w \in Writers
    PROVE  LET t == Written(s, w) IN
           /\ t \in SessionSet /\ FramesFit(t.frames, d) /\ SnapsFit(t)
           /\ t.data = s.data \cup {w} /\ t.durable = IF d = 0 THEN s.durable \cup {w} ELSE s.durable
           /\ \A k \in 1..d : Snap(t, k) = Snap(s, k)
<1> PICK t, r : t = Written(s, w) /\ r = IF d = 0 THEN s.durable \cup {w} ELSE s.durable
  OBVIOUS
<1>0. /\ s.frames \in Seq(FrameSet) /\ s.data \in SUBSET Writers /\ s.durable \in SUBSET Writers
      /\ s.failed = FALSE
  BY SessionParts
<1>1. s.frames = <<>> <=> d = 0
  BY FirstSnap DEF FramesFit
<1>2. t = [frames |-> s.frames, data |-> s.data \cup {w}, durable |-> r, failed |-> FALSE]
  BY <1>0, <1>1 DEF Written, InTransaction, SessionSet
<1>3. t \in SessionSet
  BY <1>0, <1>2 DEF SessionSet
<1>4. t.frames = s.frames /\ t.data = s.data \cup {w} /\ t.durable = r
  BY <1>2
<1>5. SnapsFit(t)
  BY <1>1, <1>4 DEF SnapsFit
<1>6. \A k \in 1..d : Snap(t, k) = Snap(s, k)
  BY <1>4, Zenon DEF Snap, Latest, Named
<1> QED
  BY <1>3, <1>4, <1>5, <1>6

-----------------------------------------------------------------------------
(* The transactions around a transaction.                                  *)

\* An empty channel is one.
LEMMA EmptyChannel ==
    <<>> \in Seq(CommandSet) /\ Len(<<>>) <= ChannelSize
<1>1. ChannelSize \in Nat
  BY WorkerAssumption
<1>2. Len(<<>>) = 0
  OBVIOUS
<1> QED
  BY <1>1, <1>2

\* Transactions are numbered from 1.
LEMMA TxNumbers ==
    /\ MaxTx \in Nat /\ Tx \subseteq Nat /\ Outside = 0 /\ Outside \notin Tx /\ Writers \subseteq Nat
    /\ \A x : x \in Tx <=> x \in Nat /\ 1 <= x /\ x <= MaxTx
<1>1. MaxTx \in Nat
  BY WorkerAssumption
<1>2. \A x : x \in Tx <=> x \in Nat /\ 1 <= x /\ x <= MaxTx
  BY <1>1 DEF Tx
<1>3. Outside = 0
  BY DEF Outside
<1>4. Outside \notin Tx /\ Tx \subseteq Nat
  BY <1>2, <1>3
<1> QED
  BY <1>1, <1>2, <1>3, <1>4 DEF Writers

\* A transaction is around itself, and so is what encloses one that is.
LEMMA EnclosingClosed ==
    ASSUME NEW i \in Tx
    PROVE  /\ Enclosing(i) \subseteq Tx /\ i \in Enclosing(i)
           /\ \A j \in Enclosing(i) : parent[j] \in Tx => parent[j] \in Enclosing(i)
<1>1. Enclosing(i) \subseteq Tx /\ i \in Enclosing(i)
  BY DEF Enclosing
<1>2. Outside \notin Tx
  BY TxNumbers
<1>3. ASSUME NEW j \in Enclosing(i), parent[j] \in Tx PROVE parent[j] \in Enclosing(i)
  <2>1. ASSUME NEW S \in SUBSET Tx, i \in S, \A x \in S : parent[x] \in S \cup {Outside} PROVE parent[j] \in S
    <3>1. j \in S
      BY <2>1 DEF Enclosing
    <3>2. parent[j] \in S \cup {Outside}
      BY <2>1, <3>1
    <3> QED
      BY <3>2, <1>2, <1>3
  <2> QED
    BY <2>1, <1>3 DEF Enclosing
<1> QED
  BY <1>1, <1>3

\* Any set that is closed has all of them.
LEMMA EnclosingLeast ==
    ASSUME NEW i \in Tx, NEW S \in SUBSET Tx, i \in S, \A x \in S : parent[x] \in S \cup {Outside}
    PROVE  Enclosing(i) \subseteq S
BY DEF Enclosing

\* In a stack, those below.
LEMMA EnclosingStack ==
    ASSUME NEW W \in Stacks, Nested(W), NEW d \in 1..Len(W), NEW j \in Enclosing(W[d])
    PROVE  \E l \in 1..d : W[l] = j
<1> PICK S : S = {x \in Tx : \E l \in 1..d : W[l] = x}
  OBVIOUS
<1>0. Len(W) \in Nat /\ \A k \in 1..Len(W) : W[k] \in Tx
  BY DEF Stacks
<1>1. d \in 1..d /\ W[d] \in S
  BY <1>0
<1>2. ASSUME NEW x \in S PROVE parent[x] \in S \cup {Outside}
  <2>1. PICK l \in 1..d : W[l] = x
    BY <1>2
  <2>2. l \in 1..Len(W)
    BY <1>0, <2>1
  <2>3. parent[x] = IF l = 1 THEN Outside ELSE W[l - 1]
    BY <2>1, <2>2 DEF Nested
  <2>4. CASE l = 1
    BY <2>3, <2>4
  <2>5. CASE l # 1
    <3>1. l - 1 \in 1..d /\ l - 1 \in 1..Len(W)
      BY <1>0, <2>1, <2>2, <2>5
    <3>2. parent[x] = W[l - 1] /\ W[l - 1] \in Tx
      BY <2>3, <2>5, <3>1, <1>0
    <3> QED
      BY <3>1, <3>2
  <2> QED
    BY <2>4, <2>5
<1>3. W[d] \in Tx /\ S \in SUBSET Tx
  BY <1>0
<1>4. Enclosing(W[d]) \subseteq S
  BY ONLY <1>1, <1>2, <1>3, EnclosingLeast
<1> QED
  BY <1>4

\* Of one that has begun, only ones that have.
LEMMA EnclosingBegun ==
    ASSUME WorkerType, Numbering, NEW i \in Tx, i <= begun
    PROVE  \A j \in Enclosing(i) : j \in Tx /\ j <= begun
<1> PICK S : S = {x \in Tx : x <= begun}
  OBVIOUS
<1>0. begun \in Nat /\ parent \in [Tx -> Writers] /\ Tx \subseteq Nat
  BY TxNumbers DEF WorkerType
<1>1. ASSUME NEW x \in S PROVE parent[x] \in S \cup {Outside}
  <2>1. x \in Tx /\ x <= begun /\ parent[x] \in Writers
    BY <1>0
  <2>2. parent[x] < x
    BY <2>1 DEF Numbering
  <2>3. CASE parent[x] \in Tx
    <3>1. parent[x] \in Nat /\ x \in Nat
      BY <2>1, <2>3, <1>0
    <3> QED
      BY <2>1, <2>2, <2>3, <3>1, <1>0
  <2> QED
    BY <2>1, <2>3 DEF Writers
<1>2. S \in SUBSET Tx /\ i \in S
  OBVIOUS
<1>3. Enclosing(i) \subseteq S
  BY ONLY <1>1, <1>2, EnclosingLeast, i \in Tx
<1> QED
  BY <1>3

\* A new transaction leaves those around the others as they are.
LEMMA EnclosingOpened ==
    ASSUME WorkerType, Numbering, begun < MaxTx, NEW p, parent' = [parent EXCEPT ![begun + 1] = p],
           NEW i \in Tx, i <= begun
    PROVE  Enclosing(i)' = Enclosing(i)
<1> PICK B : B = {x \in Tx : x <= begun}
  OBVIOUS
<1>0. begun \in Nat /\ parent \in [Tx -> Writers] /\ Tx \subseteq Nat
  BY TxNumbers DEF WorkerType
<1>1. \A x \in B : parent'[x] = parent[x]
  BY <1>0
<1>2. ASSUME NEW x \in B PROVE parent[x] \in B \cup {Outside}
  <2>1. x \in Tx /\ x <= begun /\ parent[x] \in Writers
    BY <1>0
  <2>2. parent[x] < x
    BY <2>1 DEF Numbering
  <2>3. CASE parent[x] \in Tx
    <3>1. parent[x] \in Nat /\ x \in Nat
      BY <2>1, <2>3, <1>0
    <3> QED
      BY <2>1, <2>2, <2>3, <3>1, <1>0
  <2> QED
    BY <2>1, <2>3 DEF Writers
<1>3. ASSUME NEW S \in SUBSET Tx, i \in S, \A x \in S : parent[x] \in S \cup {Outside}
      PROVE  /\ S \cap B \in SUBSET Tx /\ i \in S \cap B
             /\ \A x \in S \cap B : parent'[x] \in (S \cap B) \cup {Outside}
  BY <1>1, <1>2, <1>3
<1>4. ASSUME NEW S \in SUBSET Tx, i \in S, \A x \in S : parent'[x] \in S \cup {Outside}
      PROVE  /\ S \cap B \in SUBSET Tx /\ i \in S \cap B
             /\ \A x \in S \cap B : parent[x] \in (S \cap B) \cup {Outside}
  BY <1>1, <1>2, <1>4
<1>5. ASSUME NEW j \in Enclosing(i)', NEW S \in SUBSET Tx, i \in S, \A x \in S : parent[x] \in S \cup {Outside}
      PROVE  j \in S
  <2> PICK R : R = S \cap B
    OBVIOUS
  <2>1. R \in SUBSET Tx /\ i \in R /\ \A x \in R : parent'[x] \in R \cup {Outside}
    BY <1>3, <1>5
  <2>2. j \in R
    BY <2>1, <1>5 DEF Enclosing
  <2> QED
    BY <2>2
<1>6. ASSUME NEW j \in Enclosing(i), NEW S \in SUBSET Tx, i \in S, \A x \in S : parent'[x] \in S \cup {Outside}
      PROVE  j \in S
  <2> PICK R : R = S \cap B
    OBVIOUS
  <2>1. R \in SUBSET Tx /\ i \in R /\ \A x \in R : parent[x] \in R \cup {Outside}
    BY <1>4, <1>6
  <2>2. j \in R
    BY <2>1, <1>6 DEF Enclosing
  <2> QED
    BY <2>2
<1>7. Enclosing(i)' \subseteq Enclosing(i)
  <2>1. \A j \in Enclosing(i)' : j \in Tx
    BY DEF Enclosing
  <2> QED
    BY <2>1, <1>5 DEF Enclosing
<1>8. Enclosing(i) \subseteq Enclosing(i)'
  <2>1. \A j \in Enclosing(i) : j \in Tx
    BY DEF Enclosing
  <2> QED
    BY <2>1, <1>6 DEF Enclosing
<1> QED
  BY <1>7, <1>8

\* As long as no transaction begins or ends, the writes belong to what they belonged to.
LEMMA SameOwners ==
    ASSUME UNCHANGED <<begun, fate, parent>>
    PROVE  /\ \A i : Enclosing(i)' = Enclosing(i)
           /\ \A W, X, k : OnlyFrom(W, X, k)' <=> OnlyFrom(W, X, k)
           /\ acked' = acked => \A W, X, k : Keeps(W, X, k)' <=> Keeps(W, X, k)
<1>1. \A i : Enclosing(i)' = Enclosing(i)
  BY DEF Enclosing
<1>2. ASSUME NEW W, NEW X, NEW k PROVE OnlyFrom(W, X, k)' <=> OnlyFrom(W, X, k)
  BY <1>1, Zenon DEF OnlyFrom
<1>3. ASSUME acked' = acked, NEW W, NEW X, NEW k PROVE Keeps(W, X, k)' <=> Keeps(W, X, k)
  BY <1>1, <1>3, Zenon DEF Keeps
<1> QED
  BY <1>1, <1>2, <1>3, Zenon

-----------------------------------------------------------------------------
(* What steps leave alone.                                                 *)

\* The types of the parts.
LEMMA Parts ==
    ASSUME WorkerType
    PROVE  /\ Len(chan) \in Nat /\ \A i \in 1..Len(chan) : chan[i] \in CommandSet /\ chan[i].live \in BOOLEAN
                                                             /\ chan[i].tx \in Writers
           /\ job.ok \in BOOLEAN /\ job.live \in BOOLEAN /\ job.depth \in Nat
           /\ job.op \in {"none", "relock", "queued", "Begin", "BeginWith", "Commit", "Rollback"}
           /\ Len(handles) \in Nat /\ (\A k \in 1..Len(handles) : handles[k] \in Tx) /\ handles \in Seq(Tx)
           /\ begun \in Nat /\ depth \in Nat
<1>1. Len(chan) \in Nat /\ \A i \in 1..Len(chan) : chan[i] \in CommandSet
  BY DEF WorkerType
<1>2. \A c \in CommandSet : c.live \in BOOLEAN /\ c.tx \in Writers
  BY DEF CommandSet
<1>3. job \in JobSet
  BY DEF WorkerType
<1>4. /\ job.ok \in BOOLEAN /\ job.live \in BOOLEAN /\ job.depth \in Nat
      /\ job.op \in {"none", "relock", "queued", "Begin", "BeginWith", "Commit", "Rollback"}
  BY <1>3 DEF JobSet
<1>5. handles \in Seq(Tx) /\ begun \in Nat /\ depth \in Nat
  BY TxNumbers DEF WorkerType
<1> QED
  BY <1>1, <1>2, <1>4, <1>5

\* The parts of a stack.
LEMMA StackParts ==
    ASSUME NEW W \in Stacks
    PROVE  W \in Seq(Tx) /\ Len(W) \in Nat /\ \A k \in 1..Len(W) : W[k] \in Tx /\ W[k] \in Nat /\ W[k] # Outside
<1>1. W \in Seq(Tx) /\ Len(W) \in Nat /\ \A k \in 1..Len(W) : W[k] \in Tx
  BY DEF Stacks
<1> QED
  BY <1>1, TxNumbers

\* Where a rollback is on its way, the stack is higher than what is open.
LEMMA RollbackHeight ==
    ASSUME WorkerType, NEW W \in Stacks, NEW lev, OpenBelow(W), Levels(W, lev),
           NEW i \in 0..Len(chan), RollbackComes(i)
    PROVE  /\ lev[i] \in 1..Len(W) /\ lev[i] > Len(handles)
           /\ fate[W[lev[i]]] \in {"aborted", "unknown"}
<1>0. Len(chan) \in Nat /\ Len(handles) \in Nat /\ Len(W) \in Nat
  BY Parts, StackParts
<1>1. /\ lev \in [0..Len(chan) -> Nat] /\ lev[0] = Len(W)
      /\ \A n \in 1..Len(chan) : lev[n - 1] = lev[n] + One(chan[n].op = "StartRollback")
      /\ \A m, n \in 0..Len(chan) : m <= n => lev[n] <= lev[m]
      /\ lev[Len(chan)] = Len(handles) + One(call = Sending("StartRollback"))
  BY DEF Levels
<1>2. 0 \in 0..Len(chan) /\ Len(chan) \in 0..Len(chan) /\ \A n \in 0..Len(chan) : lev[n] \in Nat
  BY <1>0, <1>1
<1>3. lev[i] <= Len(W)
  BY <1>0, <1>1, <1>2
<1>4. lev[i] > Len(handles)
  <2>1. CASE i < Len(chan)
    <3> PICK n : n = i + 1
      OBVIOUS
    <3>1. n \in 1..Len(chan) /\ n \in 0..Len(chan) /\ n - 1 = i
      BY <2>1, <1>0
    <3>2. lev[i] = lev[n] + One(chan[n].op = "StartRollback")
      BY <3>1, <1>1
    <3>3. chan[n].op = "StartRollback"
      BY <2>1 DEF RollbackComes
    <3>4. lev[i] = lev[n] + 1
      BY <3>2, <3>3 DEF One
    <3>5. lev[Len(chan)] <= lev[n] /\ lev[n] \in Nat /\ lev[Len(chan)] \in Nat
      BY <3>1, <1>0, <1>1, <1>2
    <3>6. lev[Len(chan)] >= Len(handles)
      BY <1>0, <1>1 DEF One
    <3> QED
      BY <3>4, <3>5, <3>6, <1>0
  <2>2. CASE i >= Len(chan)
    <3>1. i = Len(chan) /\ call = Sending("StartRollback")
      BY <2>2, <1>0 DEF RollbackComes
    <3> QED
      BY <3>1, <1>0, <1>1 DEF One
  <2> QED
    BY <2>1, <2>2, <1>0
<1>5. lev[i] \in Len(handles) + 1..Len(W) /\ lev[i] \in 1..Len(W)
  BY <1>0, <1>2, <1>3, <1>4
<1> QED
  BY <1>4, <1>5 DEF OpenBelow

\* The stack of the client is as it was.
LEMMA TowerKept ==
    ASSUME NEW W, UNCHANGED <<handles, begun, fate, parent>>, Numbering, Tower(W)
    PROVE  Numbering' /\ Tower(W)'
<1>1. handles' = handles /\ begun' = begun /\ fate' = fate /\ parent' = parent
  OBVIOUS
<1>2. Nested(W)' /\ OpenBelow(W)'
  BY <1>1 DEF Tower, Nested, OpenBelow
<1>3. Numbering'
  BY <1>1 DEF Numbering
<1> QED
  BY <1>2, <1>3 DEF Tower

\* The channel is as it was, and the client waits for what it waited for.
LEMMA PipeKept ==
    ASSUME NEW W, NEW lev, UNCHANGED <<chan, handles, fate, call>>, job'.live => job.live, Pipe(W, lev)
    PROVE  Pipe(W, lev)'
<1>1. chan' = chan /\ handles' = handles /\ fate' = fate /\ call' = call
  OBVIOUS
<1>2. Levels(W, lev)'
  BY <1>1 DEF Pipe, Levels
<1>3. \A i : RollbackComes(i)' <=> RollbackComes(i)
  BY <1>1 DEF RollbackComes
<1>4. ASSUME NEW i \in 1..Len(chan) PROVE CommandFits(W, lev, i)'
  <2>1. CommandFits(W, lev, i)
    BY DEF Pipe
  <2> QED
    BY <2>1, <1>1, <1>3 DEF CommandFits
<1> QED
  BY <1>1, <1>2, <1>4 DEF Pipe

\* The database is as it was.
LEMMA BooksKept ==
    ASSUME NEW W, UNCHANGED <<session, depth, begun, fate, parent, acked>>,
           \A op \in {"Commit", "Rollback"} : Ended(op)' <=> Ended(op), Books(W)
    PROVE  Books(W)'
<1>1. session' = session /\ depth' = depth
  OBVIOUS
<1>2. /\ \A X, k : OnlyFrom(W, X, k)' <=> OnlyFrom(W, X, k)
      /\ \A X, k : Keeps(W, X, k)' <=> Keeps(W, X, k)
  BY SameOwners, Zenon
<1>3. (Ended("Commit")' <=> Ended("Commit")) /\ (Ended("Rollback")' <=> Ended("Rollback"))
  OBVIOUS
<1>4. DataOwned(W)'
  BY <1>1, <1>2, <1>3 DEF Books, DataOwned, One
<1>5. DataKept(W)'
  BY <1>1, <1>2, <1>3 DEF Books, DataKept
<1> QED
  BY <1>1, <1>4, <1>5 DEF Books

\* The thread has taken the first command: the others are one place ahead.
LEMMA TakeShift ==
    ASSUME WorkerType, NEW W \in Stacks, NEW lev, Tower(W), Pipe(W, lev), chan # <<>>, chan' = Tail(chan),
           UNCHANGED <<handles, fate>>, NEW V \in Stacks, Len(V) = lev[1], \A k \in 1..Len(V) : V[k] = W[k],
           Len(chan) > 1 => call' = call /\ ~job'.live,
           call' = call \/ (call' = NoCall /\ call # Sending("StartRollback"))
    PROVE  /\ \E m \in [0..Len(chan') -> Nat] : Pipe(V, m)'
           /\ RollbackComes(1) /\ call' = call => RollbackComes(0)'
<1> PICK n, h : n = Len(chan) /\ h = Len(chan) - 1
  OBVIOUS
<1> PICK m : m = [i \in 0..h |-> lev[i + 1]]
  OBVIOUS
<1>0. n \in Nat /\ n >= 1 /\ h \in Nat /\ n = h + 1 /\ Len(handles) \in Nat /\ Len(V) \in Nat
  <2>1. n \in Nat /\ Len(handles) \in Nat /\ Len(V) \in Nat
    BY Parts, StackParts
  <2>2. n # 0
    BY DEF WorkerType
  <2> QED
    BY <2>1, <2>2
<1>1. Len(chan') = h /\ \A i \in 1..h : chan'[i] = chan[i + 1]
  BY <1>0 DEF WorkerType
<1>2. /\ lev \in [0..n -> Nat] /\ lev[0] = Len(W)
      /\ \A i \in 1..n : lev[i - 1] = lev[i] + One(chan[i].op = "StartRollback")
      /\ \A i, j \in 0..n : i <= j => lev[j] <= lev[i]
      /\ lev[n] = Len(handles) + One(call = Sending("StartRollback"))
  BY DEF Pipe, Levels
<1>3. m \in [0..h -> Nat] /\ \A i \in 0..h : m[i] = lev[i + 1]
  BY <1>0, <1>2
<1>4. One(call' = Sending("StartRollback")) = One(call = Sending("StartRollback"))
  BY DEF One, NoCall, Sending
<1>5. Levels(V, m)'
  <2>1. m \in [0..Len(chan') -> Nat] /\ m[0] = Len(V)
    BY <1>0, <1>1, <1>3
  <2>2. ASSUME NEW i \in 1..h PROVE m[i - 1] = m[i] + One(chan'[i].op = "StartRollback")
    <3> PICK k : k = i + 1
      OBVIOUS
    <3>1. k \in 1..n /\ i - 1 \in 0..h /\ i \in 0..h /\ k - 1 = (i - 1) + 1
      BY <1>0
    <3>2. lev[k - 1] = lev[k] + One(chan[k].op = "StartRollback")
      BY <3>1, <1>2
    <3>3. m[i - 1] = lev[k - 1] /\ m[i] = lev[k] /\ chan'[i] = chan[k]
      BY <3>1, <1>1, <1>3
    <3> QED
      BY <3>2, <3>3
  <2>3. ASSUME NEW i \in 0..h, NEW j \in 0..h, i <= j PROVE m[j] <= m[i]
    <3> PICK k, l : k = i + 1 /\ l = j + 1
      OBVIOUS
    <3>1. k \in 0..n /\ l \in 0..n /\ k <= l
      BY <2>3, <1>0
    <3> QED
      BY <3>1, <1>2, <1>3
  <2>4. m[h] = Len(handles) + One(call = Sending("StartRollback"))
    BY <1>0, <1>2, <1>3
  <2> QED
    BY <2>1, <2>2, <2>3, <2>4, <1>1, <1>4 DEF Levels
<1>6. ASSUME NEW i \in 0..h, call' = call, RollbackComes(i + 1) PROVE RollbackComes(i)'
  <2> PICK k : k = i + 1
    OBVIOUS
  <2>1. CASE i < h
    <3>1. k < n /\ k \in 1..h /\ i + 1 = k
      BY <2>1, <1>0
    <3>2. chan'[k] = chan[k + 1] /\ chan[k + 1].op = "StartRollback"
      BY <3>1, <1>1, <1>6 DEF RollbackComes
    <3> QED
      BY <2>1, <3>1, <3>2, <1>1 DEF RollbackComes
  <2>2. CASE i >= h
    <3>1. ~(k < n) /\ ~(i < h)
      BY <2>2, <1>0
    <3>2. call = Sending("StartRollback")
      BY <3>1, <1>6 DEF RollbackComes
    <3> QED
      BY <3>1, <3>2, <1>1, <1>6 DEF RollbackComes
  <2> QED
    BY <2>1, <2>2, <1>0
<1>7. ASSUME NEW i \in 1..h PROVE CommandFits(V, m, i)'
  <2> PICK k : k = i + 1
    OBVIOUS
  <2>1. k \in 1..n /\ k \in 0..n /\ 1 \in 0..n /\ 1 <= k /\ n > 1 /\ i \in 0..h
    BY <1>0
  <2>2. CommandFits(W, lev, k)
    BY <2>1 DEF Pipe
  <2>3. chan'[i] = chan[k] /\ call' = call /\ ~job'.live /\ m[i] = lev[k] /\ fate' = fate
    BY <2>1, <1>1, <1>3
  <2>4. lev[k] \in Nat /\ lev[k] <= Len(V) /\ (i = Len(chan') <=> k = n)
    <3>1. lev[k] \in Nat /\ lev[k] <= lev[1]
      BY <2>1, <1>2
    <3>2. i = Len(chan') <=> k = n
      BY <2>1, <1>0, <1>1
    <3> QED
      BY <3>1, <3>2
  <2>5. TopAt(V, lev[k]) = TopAt(W, lev[k])
    BY <2>4 DEF TopAt
  <2>6. RollbackComes(k) => RollbackComes(i)' /\ V[lev[k]] = W[lev[k]]
    <3>1. RollbackComes(k) => RollbackComes(i)'
      BY <2>1, <2>3, <1>6
    <3>2. RollbackComes(k) => lev[k] \in 1..Len(W)
      BY <2>1, RollbackHeight DEF Tower, Pipe
    <3> QED
      BY <3>1, <3>2, <2>4
  <2>7. chan'[i].op = chan[k].op /\ chan'[i].live = chan[k].live /\ chan'[i].tx = chan[k].tx
    BY <2>3
  <2> QED
    BY <2>2, <2>3, <2>4, <2>5, <2>6, <2>7 DEF CommandFits
<1>8. RollbackComes(1) /\ call' = call => RollbackComes(0)'
  <2>1. 0 \in 0..h /\ 0 + 1 = 1
    BY <1>0
  <2> QED
    BY <2>1, <1>6
<1> QED
  BY <1>1, <1>3, <1>5, <1>7, <1>8 DEF Pipe

\* The command the thread takes next.
LEMMA FirstCommand ==
    ASSUME WorkerType, NEW W \in Stacks, NEW lev, Running(W, lev), job = NoJob, chan # <<>>
    PROVE  /\ Head(chan) = chan[1] /\ chan[1] \in CommandSet /\ 1 \in 1..Len(chan)
           /\ chan[1].live \in BOOLEAN /\ chan[1].tx \in Writers
           /\ CommandFits(W, lev, 1)
           /\ Tail(chan) \in Seq(CommandSet) /\ Len(Tail(chan)) <= ChannelSize
           /\ chan[1].op = "StartRollback" => lev[1] = Len(W) - 1 /\ Len(W) > Len(handles) /\ Len(W) \in 1..Len(W)
                                                 /\ fate[W[Len(W)]] \in {"aborted", "unknown"}
                                                 /\ call.op # "BeginCheck"
           /\ chan[1].op # "StartRollback" => lev[1] = Len(W) /\ ~ignore
           /\ chan[1].op \notin {"StartRollback", "BeginCheck"} => call.op # "BeginCheck" /\ depth = Len(W)
           /\ chan[1].live /\ chan[1].op \notin {"Lock", "BeginCheck"} =>
                 Tail(chan) = <<>> /\ Len(chan) = 1 /\ call = [op |-> chan[1].op, stage |-> "reply"]
<1>0. Len(chan) \in Nat /\ Len(W) \in Nat /\ chan \in Seq(CommandSet) /\ Len(chan) <= ChannelSize
  BY Parts, StackParts DEF WorkerType
<1>1. Len(chan) >= 1 /\ 1 \in 1..Len(chan) /\ 0 \in 0..Len(chan)
  BY <1>0
<1>2. Head(chan) = chan[1] /\ chan[1] \in CommandSet
  BY <1>0, <1>1
<1>3. chan[1].live \in BOOLEAN /\ chan[1].tx \in Writers
  BY <1>2 DEF CommandSet
<1>4. CommandFits(W, lev, 1)
  BY <1>1 DEF Running, Pipe
<1>5. Tail(chan) \in Seq(CommandSet) /\ Len(Tail(chan)) = Len(chan) - 1
  BY <1>0, <1>1
<1>6. Len(Tail(chan)) <= ChannelSize
  <2> PICK n : n = Len(Tail(chan))
    OBVIOUS
  <2>1. ChannelSize \in Nat
    BY WorkerAssumption
  <2>2. n = Len(chan) - 1
    BY <1>5
  <2>3. n <= ChannelSize
    BY ONLY <2>1, <2>2, <1>0
  <2> QED
    BY <2>3
<1>7. /\ lev \in [0..Len(chan) -> Nat] /\ lev[0] = Len(W)
      /\ lev[1 - 1] = lev[1] + One(chan[1].op = "StartRollback")
  BY <1>1 DEF Running, Pipe, Levels
<1>8. lev[1] \in Nat /\ Len(W) = lev[1] + One(chan[1].op = "StartRollback")
  BY <1>0, <1>1, <1>7
<1>9. RollbackComes(0) <=> chan[1].op = "StartRollback"
  BY <1>0, <1>1 DEF RollbackComes
<1>10. ASSUME chan[1].op = "StartRollback"
       PROVE  lev[1] = Len(W) - 1 /\ Len(W) > Len(handles) /\ Len(W) \in 1..Len(W)
                /\ fate[W[Len(W)]] \in {"aborted", "unknown"} /\ call.op # "BeginCheck"
  <2>1. lev[0] \in 1..Len(W) /\ lev[0] > Len(handles) /\ fate[W[lev[0]]] \in {"aborted", "unknown"}
    BY <1>1, <1>9, <1>10, RollbackHeight DEF Running, Tower, Pipe
  <2>2. lev[1] = Len(W) - 1
    BY <1>0, <1>8, <1>10 DEF One
  <2>3. call.op # "BeginCheck"
    BY <1>4, <1>10 DEF CommandFits
  <2> QED
    BY <2>1, <2>2, <2>3, <1>7
<1>11. ASSUME chan[1].op # "StartRollback" PROVE lev[1] = Len(W) /\ ~ignore
  BY <1>0, <1>8, <1>9, <1>11 DEF One, Running, JobFits
<1>12. ASSUME chan[1].op \notin {"StartRollback", "BeginCheck"} PROVE call.op # "BeginCheck" /\ depth = Len(W)
  <2>1. call.op # "BeginCheck"
    BY <1>4, <1>12 DEF CommandFits
  <2>2. ~job.ok /\ ~ignore
    BY <1>11, <1>12 DEF NoJob
  <2> QED
    BY <2>1, <2>2 DEF Running, DepthFits
<1>13. ASSUME chan[1].live, chan[1].op \notin {"Lock", "BeginCheck"}
       PROVE  Tail(chan) = <<>> /\ Len(chan) = 1 /\ call = [op |-> chan[1].op, stage |-> "reply"]
  <2>1. 1 = Len(chan) /\ call = [op |-> chan[1].op, stage |-> "reply"]
    BY <1>4, <1>13 DEF CommandFits
  <2>2. Len(Tail(chan)) = 0
    <3> PICK n, l : n = Len(Tail(chan)) /\ l = Len(chan)
      OBVIOUS
    <3>1. n = l - 1 /\ l = 1
      BY <1>5, <2>1
    <3>2. n = 0
      BY ONLY <3>1
    <3> QED
      BY <3>2
  <2> QED
    BY <2>1, <2>2, <1>5
<1> QED
  BY <1>2, <1>1, <1>3, <1>4, <1>5, <1>6, <1>10, <1>11, <1>12, <1>13

\* The invariant of a thread that runs.
LEMMA Assemble ==
    ASSUME WorkerType', Numbering', CallFits', Known', alive', NEW W \in Stacks,
           NEW lev \in [0..Len(chan') -> Nat], Running(W, lev)'
    PROVE  WorkerInv'
BY DEF WorkerInv

\* A step at which no write is acknowledged and none becomes durable or is lost.
LEMMA KnownKept ==
    ASSUME Known, acked' = acked, begun' = begun, session.durable \subseteq session'.durable
    PROVE  Known'
BY DEF Known

-----------------------------------------------------------------------------
(* The steps of the thread.                                                *)

\* A ping takes a command and answers it.
LEMMA PingInv ==
    ASSUME Settled, WorkerInv, DoPing
    PROVE  WorkerInv'
<1>0. /\ alive /\ job = NoJob /\ chan # <<>> /\ Head(chan).op = "Ping" /\ chan' = Tail(chan)
      /\ call' = IF Head(chan).live THEN NoCall ELSE call
      /\ UNCHANGED <<job, alive, mutex, session, depth, ignore, handles, begun, fate, parent, acked>>
  BY DEF DoPing, Takes
<1>1. WorkerType /\ Numbering /\ CallFits /\ Known
  BY DEF WorkerInv
<1>2. PICK W \in Stacks, lev \in [0..Len(chan) -> Nat] : Running(W, lev)
  BY <1>0 DEF WorkerInv
<1>3. /\ Head(chan) = chan[1] /\ chan[1].live \in BOOLEAN /\ Tail(chan) \in Seq(CommandSet)
      /\ Len(Tail(chan)) <= ChannelSize /\ lev[1] = Len(W) /\ ~ignore
      /\ call.op # "BeginCheck" /\ depth = Len(W)
      /\ chan[1].live => Tail(chan) = <<>> /\ Len(chan) = 1 /\ call = [op |-> chan[1].op, stage |-> "reply"]
  BY <1>0, <1>1, <1>2, FirstCommand
<1>4. call' = call \/ (call' = NoCall /\ call = [op |-> "Ping", stage |-> "reply"] /\ Len(chan) = 1)
  BY <1>0, <1>3
<1>5. WorkerType'
  BY <1>0, <1>1, <1>3 DEF WorkerType, CallSet
<1>6. Numbering' /\ Tower(W)'
  BY <1>0, <1>1, <1>2, TowerKept DEF Running
<1>7. CallFits'
  BY <1>0, <1>1, <1>4 DEF CallFits, NoCall
<1>8. Known'
  BY <1>0, <1>1, KnownKept
<1>9. PICK m \in [0..Len(chan') -> Nat] : Pipe(W, m)'
  <2>1. ~job'.live
    BY <1>0 DEF NoJob
  <2>2. call' = call \/ (call' = NoCall /\ call # Sending("StartRollback"))
    BY <1>4 DEF Sending
  <2>3. Len(chan) > 1 => call' = call /\ ~job'.live
    BY <1>4, <2>1
  <2> QED
    BY <1>0, <1>1, <1>2, <1>3, <2>2, <2>3, TakeShift DEF Running
<1>10. JobFits(W)' /\ DepthFits(W)'
  <2>1. job' = NoJob /\ ~ignore' /\ depth' = Len(W) /\ call'.op # "BeginCheck"
    BY <1>0, <1>3, <1>4 DEF NoCall
  <2> QED
    BY <2>1 DEF JobFits, DepthFits, NoJob
<1>11. Books(W)'
  <2>1. \A op \in {"Commit", "Rollback"} : Ended(op)' <=> Ended(op)
    BY <1>0 DEF Ended
  <2> QED
    BY <1>0, <1>2, <2>1, BooksKept DEF Running
<1>12. Running(W, m)' /\ alive'
  BY <1>0, <1>6, <1>9, <1>10, <1>11 DEF Running
<1> QED
  BY <1>5, <1>6, <1>7, <1>8, <1>12, Assemble

\* A write of the innermost transaction, or of none, keeps the books.
LEMMA BooksWrite ==
    ASSUME WorkerType, Known, NEW W \in Stacks, Tower(W), Books(W), depth = Len(W), depth' = depth,
           NEW w, w = TopAt(W, Len(W)), session' = Written(session, w),
           acked' = acked \/ acked' = acked \cup {w}, UNCHANGED <<begun, fate, parent>>,
           \A op \in {"Commit", "Rollback"} : ~Ended(op) /\ ~Ended(op)'
    PROVE  Books(W)' /\ Known' /\ session' \in SessionSet /\ acked' \subseteq Writers
<1> PICK s, t, d : s = session /\ t = session' /\ d = depth
  OBVIOUS
<1>0. s \in SessionSet /\ d \in Nat /\ d = Len(W) /\ acked \subseteq Writers /\ begun \in Nat
  BY TxNumbers DEF WorkerType
<1>1. \A k \in 1..d : W[k] \in Tx /\ W[k] \in Nat /\ W[k] # Outside /\ W[k] <= begun
  BY <1>0, StackParts DEF Tower, Nested
<1>2. w \in Writers /\ w \in 0..begun /\ (w = Outside <=> d = 0) /\ (d # 0 => w = W[d] /\ d \in 1..d)
  <2>1. CASE d = 0
    BY <2>1, <1>0, TxNumbers DEF TopAt, Writers
  <2>2. CASE d # 0
    <3>1. d \in 1..d /\ w = W[d]
      BY <2>2, <1>0 DEF TopAt
    <3> QED
      BY <2>2, <3>1, <1>1, <1>0 DEF Writers
  <2> QED
    BY <2>1, <2>2
<1>3. FramesFit(s.frames, d) /\ SnapsFit(s)
  BY DEF Books
<1>4. /\ t \in SessionSet /\ FramesFit(t.frames, d) /\ SnapsFit(t)
      /\ t.data = s.data \cup {w} /\ t.durable = IF d = 0 THEN s.durable \cup {w} ELSE s.durable
      /\ \A k \in 1..d : Snap(t, k) = Snap(s, k)
  <2>1. t = Written(s, w)
    OBVIOUS
  <2> QED
    BY ONLY <2>1, <1>0, <1>2, <1>3, WriteEffect, ZenonT(60)
<1>5. /\ \A X, k : OnlyFrom(W, X, k)' <=> OnlyFrom(W, X, k)
      /\ \A i : Enclosing(i)' = Enclosing(i)
  BY SameOwners, Zenon
<1>6. /\ OnlyFrom(W, s.data, d) /\ OnlyFrom(W, s.durable, 0)
      /\ \A k \in 1..d : OnlyFrom(W, Snap(s, k), k - 1)
  BY <1>0 DEF Books, DataOwned, One
<1>7. /\ Keeps(W, s.data, d + 1) /\ Keeps(W, s.durable, 1)
      /\ \A k \in 1..d : Keeps(W, Snap(s, k), k)
  BY <1>0 DEF Books, DataKept
<1>8. OnlyFrom(W, t.data, d) /\ OnlyFrom(W, t.durable, 0)
  <2>1. d # 0 => \A j \in Enclosing(w) : \E l \in 1..d : W[l] = j
    BY <1>0, <1>2, EnclosingStack, SMTT(20) DEF Tower
  <2>2. OnlyFrom(W, t.data, d)
    BY <1>0, <1>2, <1>4, <1>6, <2>1 DEF OnlyFrom
  <2>3. OnlyFrom(W, t.durable, 0)
    BY <1>2, <1>4, <1>6 DEF OnlyFrom
  <2> QED
    BY <2>2, <2>3
<1>9. DataOwned(W)'
  BY <1>0, <1>4, <1>5, <1>6, <1>8 DEF DataOwned, One
<1>10. \A i \in acked' \ {Outside} : i \in acked \ {Outside} \/ (d # 0 /\ i = w)
  BY <1>2
<1>11. ASSUME NEW X, NEW Y, NEW k, Keeps(W, X, k), X \subseteq Y, w \in Y \/ d = 0 \/ d \in k..d
       PROVE  Keeps(W, Y, k)'
  <2> SUFFICES ASSUME NEW i \in acked' \ {Outside},
                      \A j \in Enclosing(i) : fate[j] \in {"committed", "open"} /\ \A l \in k..Len(W) : W[l] # j
               PROVE  i \in Y
    BY <1>5 DEF Keeps
  <2>1. CASE i \in acked \ {Outside}
    BY <2>1, <1>11 DEF Keeps
  <2>2. CASE d # 0 /\ i = w
    <3>1. w \in Enclosing(w) /\ w = W[d]
      BY <2>2, <1>1, <1>2, EnclosingClosed
    <3>2. d \notin k..d
      BY <2>2, <3>1, <1>0
    <3> QED
      BY <2>2, <3>2, <1>11
  <2> QED
    BY <1>10, <2>1, <2>2
<1>12. DataKept(W)'
  <2>1. Keeps(W, t.data, d + 1)'
    <3> PICK X, Y, k : X = s.data /\ Y = t.data /\ k = d + 1
      OBVIOUS
    <3>1. Keeps(W, X, k) /\ X \subseteq Y /\ w \in Y
      BY <1>4, <1>7
    <3>2. Keeps(W, Y, k)'
      BY <3>1, <1>11
    <3> QED
      BY <3>2
  <2>2. Keeps(W, t.durable, 1)'
    <3> PICK X, Y : X = s.durable /\ Y = t.durable
      OBVIOUS
    <3>1. Keeps(W, X, 1) /\ X \subseteq Y
      BY <1>4, <1>7
    <3>2. d = 0 \/ d \in 1..d
      BY <1>0
    <3>3. Keeps(W, Y, 1)'
      BY <3>1, <3>2, <1>11
    <3> QED
      BY <3>3
  <2>3. ASSUME NEW k \in 1..d PROVE Keeps(W, Snap(t, k), k)'
    <3> PICK X : X = Snap(s, k)
      OBVIOUS
    <3>1. Keeps(W, X, k) /\ d \in k..d
      BY <1>0, <1>7
    <3>2. Keeps(W, X, k)'
      BY <3>1, <1>11
    <3> QED
      BY <3>2, <1>4
  <2> QED
    BY <1>0, <2>1, <2>2, <2>3 DEF DataKept
<1>13. Known'
  <2>1. acked' \subseteq 0..begun' /\ s.durable \subseteq t.durable
    BY <1>2, <1>4 DEF Known
  <2>2. Outside \in acked' => Outside \in t.durable
    BY <1>2, <1>4, <2>1 DEF Known
  <2> QED
    BY <2>1, <2>2 DEF Known
<1> QED
  BY <1>0, <1>2, <1>4, <1>9, <1>12, <1>13 DEF Books

\* A write, acknowledged or not.
LEMMA ExecuteInv ==
    ASSUME Settled, WorkerInv, DoExecute
    PROVE  WorkerInv'
<1>0. /\ alive /\ job = NoJob /\ chan # <<>> /\ Head(chan).op = "Execute" /\ chan' = Tail(chan)
      /\ call' = IF Head(chan).live THEN NoCall ELSE call
      /\ UNCHANGED <<job, alive, mutex, depth, ignore, handles, begun, fate, parent>>
  BY DEF DoExecute, Takes
<1>1. WorkerType /\ Numbering /\ CallFits /\ Known
  BY DEF WorkerInv
<1>2. PICK W \in Stacks, lev \in [0..Len(chan) -> Nat] : Running(W, lev)
  BY <1>0 DEF WorkerInv
<1> PICK w : w = Head(chan).tx
  OBVIOUS
<1>3. /\ Head(chan) = chan[1] /\ chan[1].live \in BOOLEAN /\ Tail(chan) \in Seq(CommandSet)
      /\ Len(Tail(chan)) <= ChannelSize /\ lev[1] = Len(W) /\ ~ignore /\ CommandFits(W, lev, 1)
      /\ call.op # "BeginCheck" /\ depth = Len(W)
      /\ chan[1].live => Tail(chan) = <<>> /\ Len(chan) = 1 /\ call = [op |-> chan[1].op, stage |-> "reply"]
  BY <1>0, <1>1, <1>2, FirstCommand
<1>4. call' = call \/ (call' = NoCall /\ call = [op |-> "Execute", stage |-> "reply"] /\ Len(chan) = 1)
  BY <1>0, <1>3
<1>5. w = TopAt(W, Len(W))
  BY <1>0, <1>3 DEF CommandFits
<1>6. \/ session' = Written(session, w) /\ (acked' = acked \/ acked' = acked \cup {w})
      \/ session' = session /\ acked' = acked
  BY DEF DoExecute
<1>7. \A op \in {"Commit", "Rollback"} : ~Ended(op) /\ ~Ended(op)'
  BY <1>0 DEF Ended, NoJob
<1>8. Books(W)' /\ Known' /\ session' \in SessionSet /\ acked' \subseteq Writers
  <2>1. CASE session' = Written(session, w) /\ (acked' = acked \/ acked' = acked \cup {w})
    BY <2>1, <1>0, <1>1, <1>2, <1>3, <1>5, <1>7, BooksWrite DEF Running
  <2>2. CASE session' = session /\ acked' = acked
    <3>1. Books(W)'
      BY <2>2, <1>0, <1>2, <1>7, BooksKept DEF Running
    <3> QED
      BY <2>2, <3>1, <1>0, <1>1, KnownKept DEF WorkerType
  <2> QED
    BY <1>6, <2>1, <2>2
<1>9. WorkerType'
  BY <1>0, <1>1, <1>3, <1>8 DEF WorkerType, CallSet
<1>10. Numbering' /\ Tower(W)'
  BY <1>0, <1>1, <1>2, TowerKept DEF Running
<1>11. CallFits'
  BY <1>0, <1>1, <1>4 DEF CallFits, NoCall
<1>12. PICK m \in [0..Len(chan') -> Nat] : Pipe(W, m)'
  <2>1. ~job'.live
    BY <1>0 DEF NoJob
  <2>2. call' = call \/ (call' = NoCall /\ call # Sending("StartRollback"))
    BY <1>4 DEF Sending
  <2>3. Len(chan) > 1 => call' = call /\ ~job'.live
    BY <1>4, <2>1, SMTT(20)
  <2> QED
    BY <1>0, <1>1, <1>2, <1>3, <2>2, <2>3, TakeShift DEF Running
<1>13. JobFits(W)' /\ DepthFits(W)'
  <2>1. job' = NoJob /\ ~ignore' /\ depth' = Len(W) /\ call'.op # "BeginCheck"
    BY <1>0, <1>3, <1>4 DEF NoCall
  <2> QED
    BY <2>1 DEF JobFits, DepthFits, NoJob
<1>14. Running(W, m)' /\ alive'
  BY <1>0, <1>8, <1>10, <1>12, <1>13 DEF Running
<1> QED
  BY <1>8, <1>9, <1>10, <1>11, <1>14, Assemble

\* The mutex is handed over.
LEMMA UnlockDbInv ==
    ASSUME Settled, WorkerInv, DoUnlockDb
    PROVE  WorkerInv'
<1>0. /\ alive /\ job = NoJob /\ chan # <<>> /\ Head(chan).op \in {"Lock", "BeginCheck"} /\ chan' = Tail(chan)
      /\ job' = [NoJob EXCEPT !.op = "relock"]
      /\ mutex' = IF call.op \in {"Lock", "BeginCheck"} THEN "client" ELSE "free"
      /\ UNCHANGED <<alive, session, depth, ignore, call, handles, begun, fate, parent, acked>>
  BY DEF DoUnlockDb, Takes, client
<1>1. WorkerType /\ Numbering /\ CallFits /\ Known
  BY DEF WorkerInv
<1>2. PICK W \in Stacks, lev \in [0..Len(chan) -> Nat] : Running(W, lev)
  BY <1>0 DEF WorkerInv
<1>3. /\ Head(chan) = chan[1] /\ Tail(chan) \in Seq(CommandSet)
      /\ Len(Tail(chan)) <= ChannelSize /\ lev[1] = Len(W) /\ ~ignore
  BY <1>0, <1>1, <1>2, FirstCommand
<1>4. job' = [op |-> "relock", ok |-> FALSE, live |-> FALSE, depth |-> 0]
  BY <1>0 DEF NoJob
<1>5. WorkerType'
  <2>1. job' \in JobSet
    BY <1>4 DEF JobSet
  <2> QED
    BY <1>0, <1>1, <1>3, <2>1 DEF WorkerType
<1>6. Numbering' /\ Tower(W)'
  BY <1>0, <1>1, <1>2, TowerKept DEF Running
<1>7. CallFits' /\ Known'
  BY <1>0, <1>1, KnownKept DEF CallFits
<1>8. PICK m \in [0..Len(chan') -> Nat] : Pipe(W, m)'
  <2>1. ~job'.live
    BY <1>4
  <2> QED
    BY <1>0, <1>1, <1>2, <1>3, <2>1, TakeShift DEF Running
<1>9. JobFits(W)' /\ DepthFits(W)'
  <2>1. call.op = "BeginCheck" => Len(W) = 0
    BY <1>2 DEF Running, JobFits
  <2>2. ~job.ok
    BY <1>0 DEF NoJob
  <2>3. JobFits(W)'
    BY <1>0, <1>3, <1>4, <2>1 DEF JobFits
  <2>4. DepthFits(W)'
    BY <1>0, <1>2, <1>3, <1>4, <2>2 DEF Running, DepthFits
  <2> QED
    BY <2>3, <2>4
<1>10. Books(W)'
  <2>1. \A op \in {"Commit", "Rollback"} : Ended(op)' <=> Ended(op)
    BY <1>0, <1>4 DEF Ended, NoJob
  <2> QED
    BY <1>0, <1>2, <2>1, BooksKept DEF Running
<1>11. Running(W, m)' /\ alive'
  BY <1>0, <1>6, <1>8, <1>9, <1>10 DEF Running
<1> QED
  BY <1>5, <1>6, <1>7, <1>11, Assemble

\* A step of the thread or of the client at the mutex.
LEMMA MutexStep ==
    ASSUME WorkerInv, alive, UNCHANGED <<chan, alive, session, depth, ignore, call, handles, begun, fate, parent, acked>>,
           mutex' \in {"worker", "client", "free"}, mutex' = "client" => call.op \in {"Lock", "BeginCheck"},
           job' = job \/ (job.op \in {"relock", "queued"} /\ job' \in {NoJob, [job EXCEPT !.op = "queued"]})
    PROVE  WorkerInv'
<1>0. /\ chan' = chan /\ alive' = alive /\ session' = session /\ depth' = depth /\ ignore' = ignore /\ call' = call
      /\ handles' = handles /\ begun' = begun /\ fate' = fate /\ parent' = parent /\ acked' = acked
  OBVIOUS
<1>1. WorkerType /\ Numbering /\ CallFits /\ Known
  BY DEF WorkerInv
<1>2. PICK W \in Stacks, lev \in [0..Len(chan) -> Nat] : Running(W, lev)
  BY DEF WorkerInv
<1>3. /\ job \in JobSet /\ job.ok \in BOOLEAN /\ job.live \in BOOLEAN
  BY <1>1, Parts DEF WorkerType
<1>4. job.op \in {"relock", "queued"} => ~job.ok /\ ~ignore /\ ~job.live
  BY <1>2 DEF Running, JobFits
<1>5. \/ job' = job
      \/ /\ job.op \in {"relock", "queued"} /\ job' \in JobSet /\ ~job'.ok /\ ~job'.live
         /\ job' = NoJob \/ job'.op = "queued"
  <2>1. CASE job' = NoJob
    BY <2>1, <1>4 DEF NoJob, JobSet
  <2>2. CASE job' = [job EXCEPT !.op = "queued"]
    <3>1. job' \in JobSet /\ job'.op = "queued" /\ job'.ok = job.ok /\ job'.live = job.live
      BY <2>2, <1>3 DEF JobSet
    <3> QED
      BY <3>1, <1>4
  <2> QED
    BY <2>1, <2>2
<1>6. WorkerType'
  BY <1>0, <1>1, <1>3, <1>5 DEF WorkerType
<1>7. Numbering' /\ Tower(W)'
  BY <1>0, <1>1, <1>2, TowerKept DEF Running
<1>8. CallFits' /\ Known'
  BY <1>0, <1>1, KnownKept DEF CallFits
<1>9. Pipe(W, lev)'
  <2>1. job'.live => job.live
    BY <1>5
  <2> QED
    BY <1>0, <1>2, <2>1, PipeKept DEF Running
<1>10. JobFits(W)' /\ DepthFits(W)'
  <2>0. RollbackComes(0)' <=> RollbackComes(0)
    BY <1>0 DEF RollbackComes
  <2>1. CASE job' = job
    BY <1>0, <1>2, <2>0, <2>1 DEF Running, JobFits, DepthFits
  <2>2. CASE /\ job.op \in {"relock", "queued"} /\ job' \in JobSet /\ ~job'.ok /\ ~job'.live
             /\ job' = NoJob \/ job'.op = "queued"
    <3>1. job'.op \in {"none", "queued"} /\ (job'.op = "none" => job' = NoJob)
      BY <2>2 DEF NoJob
    <3>2. JobFits(W)'
      BY <1>0, <1>2, <1>4, <2>0, <2>2, <3>1 DEF Running, JobFits
    <3>3. DepthFits(W)'
      BY <1>0, <1>2, <1>4, <2>2, <3>1 DEF Running, DepthFits
    <3> QED
      BY <3>2, <3>3
  <2> QED
    BY <1>5, <2>1, <2>2
<1>11. Books(W)'
  <2>1. \A op \in {"Commit", "Rollback"} : Ended(op)' <=> Ended(op)
    BY <1>4, <1>5 DEF Ended
  <2> QED
    BY <1>0, <1>2, <2>1, BooksKept DEF Running
<1>12. Running(W, lev)' /\ alive' /\ lev \in [0..Len(chan') -> Nat]
  BY <1>0, <1>2, <1>7, <1>9, <1>10, <1>11 DEF Running
<1> QED
  BY <1>6, <1>7, <1>8, <1>12, Assemble

\* The thread asks for the mutex again.
LEMMA RelockInv ==
    ASSUME Settled, WorkerInv, Relock
    PROVE  WorkerInv'
<1>0. /\ alive /\ job.op = "relock"
      /\ \/ mutex = "free" /\ mutex' = "worker" /\ job' = NoJob
         \/ mutex = "client" /\ job' = [job EXCEPT !.op = "queued"] /\ mutex' = mutex
      /\ UNCHANGED <<chan, alive, session, depth, ignore, call, handles, begun, fate, parent, acked>>
  BY DEF Relock, client
<1>1. CallFits
  BY DEF WorkerInv
<1>2. mutex' \in {"worker", "client", "free"} /\ (mutex' = "client" => call.op \in {"Lock", "BeginCheck"})
  BY <1>0, <1>1 DEF CallFits
<1>3. job.op \in {"relock", "queued"} /\ job' \in {NoJob, [job EXCEPT !.op = "queued"]}
  BY <1>0
<1> QED
  BY <1>0, <1>2, <1>3, MutexStep

\* Nobody took the answer to a COMMIT or ROLLBACK: the rollback that comes is not for it.
LEMMA UnacknowledgedEndInv ==
    ASSUME Settled, WorkerInv, UnacknowledgedEnd
    PROVE  WorkerInv'
<1>0. /\ alive /\ ~job.live /\ job.op \in {"Commit", "Rollback"} /\ job' = NoJob /\ ignore' = (ignore \/ job.ok)
      /\ UNCHANGED <<chan, alive, mutex, session, depth, call, handles, begun, fate, parent, acked>>
  BY DEF UnacknowledgedEnd, client
<1>1. WorkerType /\ Numbering /\ CallFits /\ Known
  BY DEF WorkerInv
<1>2. PICK W \in Stacks, lev \in [0..Len(chan) -> Nat] : Running(W, lev)
  BY <1>0 DEF WorkerInv
<1>3. job.ok \in BOOLEAN /\ ignore \in BOOLEAN
  BY <1>1, Parts DEF WorkerType
<1>4. ~ignore /\ call.op # "BeginCheck" /\ RollbackComes(0)
  BY <1>0, <1>2 DEF Running, JobFits, NoJob
<1>5. WorkerType'
  <2>1. job' \in JobSet
    BY <1>0 DEF JobSet, NoJob
  <2> QED
    BY <1>0, <1>1, <1>3, <2>1 DEF WorkerType
<1>6. Numbering' /\ Tower(W)'
  BY <1>0, <1>1, <1>2, TowerKept DEF Running
<1>7. CallFits' /\ Known'
  BY <1>0, <1>1, KnownKept DEF CallFits
<1>8. Pipe(W, lev)'
  <2>1. job'.live => job.live
    BY <1>0 DEF NoJob
  <2> QED
    BY <1>0, <1>2, <2>1, PipeKept DEF Running
<1>9. JobFits(W)' /\ DepthFits(W)'
  <2>1. RollbackComes(0)'
    BY <1>0, <1>4 DEF RollbackComes
  <2>2. JobFits(W)'
    BY <1>0, <1>4, <2>1 DEF JobFits, NoJob
  <2>3. DepthFits(W)'
    BY <1>0, <1>2, <1>3, <1>4 DEF Running, DepthFits, NoJob
  <2> QED
    BY <2>2, <2>3
<1>10. Books(W)'
  <2>1. \A op \in {"Commit", "Rollback"} : Ended(op)' <=> Ended(op)
    BY <1>0 DEF Ended, NoJob
  <2> QED
    BY <1>0, <1>2, <2>1, BooksKept DEF Running
<1>11. Running(W, lev)' /\ alive' /\ lev \in [0..Len(chan') -> Nat]
  BY <1>0, <1>2, <1>6, <1>8, <1>9, <1>10 DEF Running
<1> QED
  BY <1>5, <1>6, <1>7, <1>11, Assemble

\* The thread has taken a command that is acknowledged, and holds the answer.
LEMMA AnswerStep ==
    ASSUME WorkerInv, NEW op \in {"Begin", "BeginWith", "Commit", "Rollback"}, Takes(op), chan' = Tail(chan),
           NEW ok \in BOOLEAN, Reply(op, ok), UNCHANGED <<alive, mutex, ignore, client>>,
           NEW W \in Stacks, NEW lev \in [0..Len(chan) -> Nat], Running(W, lev),
           session' \in SessionSet, session.durable \subseteq session'.durable, depth' \in Nat, Books(W)',
           op = "BeginWith" /\ ok => depth = 0,
           depth' = Len(W) + (IF ~ok THEN 0 ELSE IF op \in {"Begin", "BeginWith"} THEN 1 ELSE -1)
    PROVE  WorkerInv'
<1>0. /\ alive /\ job = NoJob /\ chan # <<>> /\ Head(chan).op = op
      /\ job' = [op |-> op, ok |-> ok, live |-> Head(chan).live, depth |-> depth]
      /\ UNCHANGED <<alive, mutex, ignore, call, handles, begun, fate, parent, acked>>
  BY DEF Takes, Reply, client
<1>1. WorkerType /\ Numbering /\ CallFits /\ Known
  BY DEF WorkerInv
<1>2. /\ Head(chan) = chan[1] /\ chan[1].live \in BOOLEAN /\ Tail(chan) \in Seq(CommandSet)
      /\ Len(Tail(chan)) <= ChannelSize /\ lev[1] = Len(W) /\ ~ignore /\ CommandFits(W, lev, 1)
      /\ call.op # "BeginCheck" /\ depth = Len(W)
      /\ chan[1].live => Tail(chan) = <<>> /\ Len(chan) = 1 /\ call = [op |-> chan[1].op, stage |-> "reply"]
  BY <1>0, <1>1, FirstCommand
<1>3. job'.op = op /\ job'.ok = ok /\ job'.live = chan[1].live /\ job'.depth = depth /\ job' \in JobSet
  <2>1. depth \in Nat
    BY <1>1 DEF WorkerType
  <2> QED
    BY <1>0, <1>2, <2>1 DEF JobSet
<1>4. WorkerType'
  BY <1>0, <1>1, <1>2, <1>3 DEF WorkerType
<1>5. Numbering' /\ Tower(W)'
  BY <1>0, <1>1, TowerKept DEF Running
<1>6. CallFits' /\ Known'
  BY <1>0, <1>1, KnownKept DEF CallFits
<1>7. /\ \E m \in [0..Len(chan') -> Nat] : Pipe(W, m)'
      /\ RollbackComes(1) /\ call' = call => RollbackComes(0)'
  <2>1. Len(chan) > 1 => call' = call /\ ~job'.live
    BY <1>0, <1>2, <1>3
  <2> QED
    BY <1>0, <1>1, <1>2, <2>1, TakeShift DEF Running
<1>8. PICK m \in [0..Len(chan') -> Nat] : Pipe(W, m)'
  BY <1>7
<1>9. JobFits(W)'
  <2>1. chan[1].live => chan' = <<>> /\ call' = [op |-> op, stage |-> "reply"]
    BY <1>0, <1>2
  <2>2. op \in {"Commit", "Rollback"} /\ ~chan[1].live => RollbackComes(0)'
    BY <1>0, <1>2, <1>7 DEF CommandFits
  <2>3. op = "Commit" /\ ~chan[1].live => fate[W[Len(W)]] = "unknown"
    BY <1>0, <1>2 DEF CommandFits
  <2> QED
    BY <1>0, <1>2, <1>3, <2>1, <2>2, <2>3 DEF JobFits
<1>10. DepthFits(W)'
  BY <1>0, <1>2, <1>3, StackParts DEF DepthFits
<1>11. Running(W, m)' /\ alive'
  BY <1>0, <1>5, <1>8, <1>9, <1>10 DEF Running
<1> QED
  BY <1>4, <1>5, <1>6, <1>11, Assemble

\* Nothing was executed.
LEMMA BooksRefused ==
    ASSUME WorkerType, Settled, NEW W, Books(W), session' = session \/ session' = Rejected(session), depth' = depth,
           UNCHANGED <<begun, fate, parent, acked>>,
           \A op \in {"Commit", "Rollback"} : ~Ended(op) /\ ~Ended(op)'
    PROVE  Books(W)' /\ session' \in SessionSet /\ session.durable \subseteq session'.durable
<1>1. session \in SessionSet
  BY DEF WorkerType
<1>2. session' = session
  BY <1>1, RejectedSame
<1>3. Books(W)'
  BY <1>2, BooksKept
<1> QED
  BY <1>1, <1>2, <1>3

\* BEGIN or SAVEPOINT was executed; the client does not know yet.
LEMMA BooksBegin ==
    ASSUME Settled, WorkerType, NEW W \in Stacks, Books(W), depth = Len(W), depth' = depth + 1,
           session' = Executed(session, BeginSql(depth)), UNCHANGED <<begun, fate, parent, acked>>,
           \A op \in {"Commit", "Rollback"} : ~Ended(op) /\ ~Ended(op)'
    PROVE  Books(W)' /\ session' \in SessionSet /\ session.durable \subseteq session'.durable
<1> PICK s, t, d, e : s = session /\ t = session' /\ d = depth /\ e = d + 1
  OBVIOUS
<1>0. s \in SessionSet /\ d \in Nat /\ d = Len(W) /\ e \in Nat /\ FramesFit(s.frames, d) /\ SnapsFit(s)
  BY DEF WorkerType, Books
<1>1. t = Push(s, d)
  <2>1. t = Executed(s, BeginSql(d))
    OBVIOUS
  <2> QED
    BY <1>0, <2>1, BeginEffect
<1>2. /\ t \in SessionSet /\ FramesFit(t.frames, e) /\ SnapsFit(t)
      /\ t.data = s.data /\ t.durable = s.durable /\ Snap(t, e) = s.data
      /\ \A k \in 1..d : Snap(t, k) = Snap(s, k)
  BY ONLY <1>0, <1>1, PushEffect, e = d + 1
<1>3. /\ \A X, k : OnlyFrom(W, X, k)' <=> OnlyFrom(W, X, k)
      /\ \A X, k : Keeps(W, X, k)' <=> Keeps(W, X, k)
  BY SameOwners, Zenon
<1>4. /\ OnlyFrom(W, s.data, d) /\ OnlyFrom(W, s.durable, 0)
      /\ \A k \in 1..d : OnlyFrom(W, Snap(s, k), k - 1)
  BY <1>0 DEF Books, DataOwned, One
<1>5. /\ Keeps(W, s.data, d + 1) /\ Keeps(W, s.durable, 1)
      /\ \A k \in 1..d : Keeps(W, Snap(s, k), k)
  BY <1>0 DEF Books, DataKept
<1>6. \A k : k \in 1..e <=> k \in 1..d \/ k = e
  BY <1>0
<1>7. e - 1 = d /\ e > Len(W) /\ depth' = e
  BY <1>0
<1>8. DataOwned(W)'
  <2>1. \A k \in 1..e : OnlyFrom(W, Snap(t, k), k - 1)
    BY <1>2, <1>4, <1>6, <1>7
  <2> QED
    BY <1>0, <1>2, <1>3, <1>4, <1>7, <2>1 DEF DataOwned, One
<1>9. DataKept(W)'
  <2>1. \A k \in 1..e : Keeps(W, Snap(t, k), k)
    BY <1>2, <1>5, <1>6, <1>7
  <2> QED
    BY <1>0, <1>2, <1>3, <1>5, <1>7, <2>1 DEF DataKept
<1> QED
  BY <1>2, <1>7, <1>8, <1>9 DEF Books

\* Command::Begin.
LEMMA BeginInv ==
    ASSUME Settled, WorkerInv, DoBegin
    PROVE  WorkerInv'
<1>0. PICK ok \in BOOLEAN : /\ Exec(BeginSql(depth), ok) /\ depth' = IF ok THEN depth + 1 ELSE depth
                            /\ Reply("Begin", ok)
  BY DEF DoBegin
<1>1. /\ Takes("Begin") /\ alive /\ job = NoJob /\ chan # <<>> /\ Head(chan).op = "Begin" /\ chan' = Tail(chan)
      /\ UNCHANGED <<alive, mutex, ignore, client>>
      /\ UNCHANGED <<begun, fate, parent, acked>>
  BY DEF DoBegin, Takes, client
<1>2. WorkerType /\ Known
  BY DEF WorkerInv
<1>3. PICK W \in Stacks, lev \in [0..Len(chan) -> Nat] : Running(W, lev)
  BY <1>1 DEF WorkerInv
<1>4. Head(chan) = chan[1] /\ depth = Len(W) /\ depth \in Nat
  BY <1>1, <1>2, <1>3, FirstCommand DEF WorkerType
<1>5. \A op \in {"Commit", "Rollback"} : ~Ended(op) /\ ~Ended(op)'
  BY <1>0, <1>1 DEF Ended, NoJob, Reply
<1>6. Books(W)' /\ session' \in SessionSet /\ session.durable \subseteq session'.durable
  <2>1. CASE ok
    <3>1. session' = Executed(session, BeginSql(depth)) /\ depth' = depth + 1
      BY <1>0, <2>1 DEF Exec
    <3> QED
      BY <3>1, <1>1, <1>2, <1>3, <1>4, <1>5, BooksBegin DEF Running
  <2>2. CASE ~ok
    <3>1. session' = Rejected(session) /\ depth' = depth
      BY <1>0, <2>2 DEF Exec
    <3> QED
      BY <3>1, <1>1, <1>2, <1>3, <1>5, BooksRefused DEF Running
  <2> QED
    BY <2>1, <2>2
<1>7. depth' \in Nat /\ depth' = Len(W) + (IF ~ok THEN 0 ELSE IF "Begin" \in {"Begin", "BeginWith"} THEN 1 ELSE -1)
  BY <1>0, <1>4
<1> QED
  BY <1>0, <1>1, <1>3, <1>6, <1>7, AnswerStep

\* Command::Begin with a custom statement.
LEMMA BeginWithInv ==
    ASSUME Settled, WorkerInv, DoBeginWith
    PROVE  WorkerInv'
<1>1. /\ Takes("BeginWith") /\ alive /\ job = NoJob /\ chan # <<>> /\ Head(chan).op = "BeginWith" /\ chan' = Tail(chan)
      /\ UNCHANGED <<alive, mutex, ignore, client>>
      /\ UNCHANGED <<begun, fate, parent, acked>>
  BY DEF DoBeginWith, Takes, client
<1>2. WorkerType /\ Known
  BY DEF WorkerInv
<1>3. PICK W \in Stacks, lev \in [0..Len(chan) -> Nat] : Running(W, lev)
  BY <1>1 DEF WorkerInv
<1>4. Head(chan) = chan[1] /\ depth = Len(W) /\ depth \in Nat
  BY <1>1, <1>2, <1>3, FirstCommand DEF WorkerType
<1>5. PICK ok \in BOOLEAN : /\ Reply("BeginWith", ok) /\ depth' = IF ok THEN depth + 1 ELSE depth
                            /\ ok => depth = 0 /\ session' = Executed(session, BeginSql(depth))
                            /\ ~ok => session' = session \/ session' = Rejected(session)
  <2>1. CASE depth > 0 /\ Reply("BeginWith", FALSE) /\ UNCHANGED <<session, depth>>
    BY <2>1
  <2>2. ASSUME NEW ok \in BOOLEAN, depth = 0, Exec(BeginSql(0), ok), depth' = (IF ok THEN 1 ELSE 0), Reply("BeginWith", ok)
        PROVE  /\ Reply("BeginWith", ok) /\ depth' = IF ok THEN depth + 1 ELSE depth
               /\ ok => depth = 0 /\ session' = Executed(session, BeginSql(depth))
               /\ ~ok => session' = session \/ session' = Rejected(session)
    BY <2>2 DEF Exec
  <2> QED
    BY <2>1, <2>2 DEF DoBeginWith, Settled
<1>6. \A op \in {"Commit", "Rollback"} : ~Ended(op) /\ ~Ended(op)'
  BY <1>1, <1>5 DEF Ended, NoJob, Reply
<1>7. Books(W)' /\ session' \in SessionSet /\ session.durable \subseteq session'.durable
  <2>1. CASE ok
    BY <2>1, <1>1, <1>2, <1>3, <1>4, <1>5, <1>6, BooksBegin DEF Running
  <2>2. CASE ~ok
    BY <2>2, <1>1, <1>2, <1>3, <1>5, <1>6, BooksRefused DEF Running
  <2> QED
    BY <2>1, <2>2
<1>8. depth' \in Nat /\ depth' = Len(W) + (IF ~ok THEN 0 ELSE IF "BeginWith" \in {"Begin", "BeginWith"} THEN 1 ELSE -1)
  BY <1>4, <1>5
<1> QED
  BY <1>1, <1>3, <1>5, <1>7, <1>8, AnswerStep

\* A stack that is cut off above what is open owns and keeps the same.
LEMMA StackCut ==
    ASSUME UNCHANGED <<begun, fate, parent, acked>>, NEW W \in Stacks, NEW V \in Stacks, Len(V) <= Len(W),
           \A l \in 1..Len(V) : V[l] = W[l],
           \A l \in Len(V) + 1..Len(W) : fate[W[l]] \in {"aborted", "unknown"}
    PROVE  /\ \A X : \A k \in 0..Len(V) : OnlyFrom(W, X, k) => OnlyFrom(V, X, k)'
           /\ \A X : \A k \in Nat \ {0} : Keeps(W, X, k) => Keeps(V, X, k)'
<1>0. Len(V) \in Nat /\ Len(W) \in Nat
  BY StackParts
<1>1. /\ \A X, k : OnlyFrom(V, X, k)' <=> OnlyFrom(V, X, k)
      /\ \A X, k : Keeps(V, X, k)' <=> Keeps(V, X, k)
  BY SameOwners, Zenon
<1>2. ASSUME NEW X, NEW k \in 0..Len(V), OnlyFrom(W, X, k) PROVE OnlyFrom(V, X, k)
  <2>1. \A l \in 1..k : V[l] = W[l]
    BY <1>0
  <2> QED
    BY <2>1, <1>2, Zenon DEF OnlyFrom
<1>3. ASSUME NEW X, NEW k \in Nat \ {0}, Keeps(W, X, k) PROVE Keeps(V, X, k)
  <2> SUFFICES ASSUME NEW i \in acked \ {Outside},
                      \A j \in Enclosing(i) : fate[j] \in {"committed", "open"} /\ \A l \in k..Len(V) : V[l] # j
               PROVE  i \in X
    BY DEF Keeps
  <2>1. ASSUME NEW j \in Enclosing(i), NEW l \in k..Len(W) PROVE W[l] # j
    <3>1. CASE l <= Len(V)
      <4>1. l \in k..Len(V) /\ l \in 1..Len(V)
        BY <3>1, <1>0
      <4> QED
        BY <4>1, <2>1
    <3>2. CASE l > Len(V)
      <4>1. l \in Len(V) + 1..Len(W)
        BY <3>2, <1>0
      <4>2. fate[W[l]] \in {"aborted", "unknown"} /\ fate[j] \in {"committed", "open"}
        BY <4>1, <2>1
      <4> QED
        BY <4>2
    <3> QED
      BY <3>1, <3>2, <1>0
  <2> QED
    BY <2>1, <1>3 DEF Keeps
<1> QED
  BY <1>1, <1>2, <1>3, Zenon

\* Fewer writes are asked for when more of the stack is left out.
LEMMA KeepsLower ==
    ASSUME NEW W \in Stacks, NEW X, NEW k \in Int, NEW n \in Int, n <= k, Keeps(W, X, k)
    PROVE  Keeps(W, X, n)
<1>1. \A l \in k..Len(W) : l \in n..Len(W)
  BY StackParts
<1> QED
  BY <1>1, Zenon DEF Keeps

\* COMMIT or RELEASE was executed; the client does not know yet, or will never know.
LEMMA BooksCommit ==
    ASSUME WorkerType, NEW W \in Stacks, Books(W), depth = Len(W), depth > 0, depth' = depth - 1,
           session' = Executed(session, CommitSql(depth)), UNCHANGED <<begun, fate, parent, acked>>,
           ~Ended("Commit"), ~Ended("Rollback"), ~Ended("Rollback")',
           Ended("Commit")' \/ fate[W[Len(W)]] = "unknown"
    PROVE  Books(W)' /\ session' \in SessionSet /\ session.durable \subseteq session'.durable
<1> PICK s, t, d, e : s = session /\ t = session' /\ d = depth /\ e = d - 1
  OBVIOUS
<1>0. s \in SessionSet /\ d \in Nat /\ d > 0 /\ d = Len(W) /\ e \in Nat /\ FramesFit(s.frames, d) /\ SnapsFit(s)
  BY DEF WorkerType, Books
<1>1. /\ t \in SessionSet /\ FramesFit(t.frames, e) /\ SnapsFit(t)
      /\ t.data = s.data /\ t.durable = IF d = 1 THEN s.data ELSE s.durable
      /\ \A k \in 1..e : Snap(t, k) = Snap(s, k)
  <2>1. t = Executed(s, CommitSql(d)) /\ e = d - 1
    OBVIOUS
  <2> QED
    BY ONLY <1>0, <2>1, CommitEffect
<1>2. /\ \A X, k : OnlyFrom(W, X, k)' <=> OnlyFrom(W, X, k)
      /\ \A X, k : Keeps(W, X, k)' <=> Keeps(W, X, k)
  BY SameOwners, Zenon
<1>3. /\ OnlyFrom(W, s.data, d) /\ OnlyFrom(W, s.durable, 0)
      /\ \A k \in 1..d : OnlyFrom(W, Snap(s, k), k - 1)
  BY <1>0 DEF Books, DataOwned, One
<1>4. /\ Keeps(W, s.data, d + 1) /\ Keeps(W, s.durable, 1)
      /\ \A k \in 1..d : Keeps(W, Snap(s, k), k)
  BY <1>0 DEF Books, DataKept
<1>5. s.durable \subseteq t.durable
  BY <1>1 DEF Books, SnapsFit
<1>6. \A k \in 1..e : k \in 1..d
  BY <1>0
<1>7. fate[W[d]] = "unknown" => OnlyFrom(W, s.data, e)
  <2>1. \A l \in 1..d : l \in 1..e \/ l = d
    BY <1>0
  <2> QED
    BY <2>1, <1>3, Zenon DEF OnlyFrom
<1>8. OnlyFrom(W, t.data, IF Ended("Commit")' THEN d ELSE e)
  BY <1>0, <1>1, <1>3, <1>7
<1>9. OnlyFrom(W, t.durable, IF Ended("Commit")' /\ e = 0 THEN 1 ELSE 0)
  <2>1. CASE d = 1
    BY <1>0, <1>1, <1>3, <1>7, <2>1
  <2>2. CASE d # 1
    BY <1>0, <1>1, <1>3, <2>2
  <2> QED
    BY <2>1, <2>2
<1>10. DataOwned(W)'
  <2>1. \A k \in 1..e : OnlyFrom(W, Snap(t, k), k - 1)
    BY <1>1, <1>3, <1>6
  <2>2. depth' = e /\ ~(e > Len(W))
    BY <1>0
  <2>3. PICK n : n = IF Ended("Commit")' THEN d ELSE e
    OBVIOUS
  <2>4. PICK o : o = IF Ended("Commit")' /\ e = 0 THEN 1 ELSE 0
    OBVIOUS
  <2>5. OnlyFrom(W, t.data, n)' /\ OnlyFrom(W, t.durable, o)'
    BY <1>2, <1>8, <1>9, <2>3, <2>4
  <2> QED
    BY <1>0, <1>2, <2>1, <2>2, <2>3, <2>4, <2>5 DEF DataOwned, One
<1>11. DataKept(W)'
  <2>1. \A k \in 1..e : Keeps(W, Snap(t, k), k)
    BY <1>1, <1>4, <1>6
  <2>2. Keeps(W, s.data, 1)
    <3> PICK X, k : X = s.data /\ k = d + 1
      OBVIOUS
    <3>1. Keeps(W, X, k) /\ k \in Int /\ 1 \in Int /\ 1 <= k
      BY <1>0, <1>4
    <3>2. Keeps(W, X, 1)
      BY ONLY <3>1, KeepsLower, W \in Stacks
    <3> QED
      BY <3>2
  <2>3. Keeps(W, t.durable, 1)
    BY <1>1, <1>4, <2>2
  <2> QED
    BY <1>0, <1>1, <1>2, <1>4, <2>1, <2>3 DEF DataKept
<1> QED
  BY <1>0, <1>1, <1>5, <1>10, <1>11 DEF Books

\* ROLLBACK or ROLLBACK TO was executed: the client does not know yet, or has given up
\* what was rolled back.
LEMMA BooksRollback ==
    ASSUME WorkerType, NEW W \in Stacks, NEW V \in Stacks, Books(W), depth > 0, depth' = depth - 1,
           session' = Executed(session, RollbackSql(depth)), UNCHANGED <<begun, fate, parent, acked>>,
           ~Ended("Commit"), ~Ended("Rollback"), ~Ended("Commit")',
           Len(V) <= Len(W), depth - 1 <= Len(V), \A l \in 1..Len(V) : V[l] = W[l],
           \A l \in Len(V) + 1..Len(W) : fate[W[l]] \in {"aborted", "unknown"},
           \/ Ended("Rollback")' /\ depth = Len(V)
           \/ ~Ended("Rollback")' /\ \A l \in depth..Len(V) : fate[W[l]] \in {"aborted", "unknown"}
    PROVE  Books(V)' /\ session' \in SessionSet /\ session.durable \subseteq session'.durable
<1> PICK s, t, d, e : s = session /\ t = session' /\ d = depth /\ e = d - 1
  OBVIOUS
<1>0. /\ s \in SessionSet /\ d \in Nat /\ d > 0 /\ e \in Nat /\ FramesFit(s.frames, d) /\ SnapsFit(s)
      /\ Len(W) \in Nat /\ Len(V) \in Nat /\ e <= Len(V) /\ d \in 1..d
  BY StackParts DEF WorkerType, Books
<1>1. /\ t \in SessionSet /\ FramesFit(t.frames, e) /\ SnapsFit(t)
      /\ t.data = Snap(s, d) /\ t.durable = s.durable
      /\ \A k \in 1..e : Snap(t, k) = Snap(s, k)
  <2>1. t = Executed(s, RollbackSql(d)) /\ e = d - 1
    OBVIOUS
  <2> QED
    BY ONLY <1>0, <2>1, RollbackEffect
<1>2. /\ OnlyFrom(W, s.durable, 0)
      /\ \A k \in 1..d : OnlyFrom(W, Snap(s, k), k - 1)
  BY DEF Books, DataOwned, One
<1>3. /\ Keeps(W, s.durable, 1)
      /\ \A k \in 1..d : Keeps(W, Snap(s, k), k)
  BY DEF Books, DataKept
<1>4. /\ \A X : \A k \in 0..Len(V) : OnlyFrom(W, X, k) => OnlyFrom(V, X, k)'
      /\ \A X : \A k \in Nat \ {0} : Keeps(W, X, k) => Keeps(V, X, k)'
  BY StackCut
<1>5. \A k \in 1..e : k \in 1..d /\ k - 1 \in 0..Len(V) /\ k \in Nat \ {0}
  BY <1>0
<1>6. DataOwned(V)'
  <2>1. OnlyFrom(V, t.data, e)'
    BY <1>0, <1>1, <1>2, <1>4
  <2>2. OnlyFrom(V, t.durable, 0)'
    BY <1>0, <1>1, <1>2, <1>4
  <2>3. \A k \in 1..e : OnlyFrom(V, Snap(t, k), k - 1)'
    BY <1>1, <1>2, <1>4, <1>5
  <2>4. depth' = e /\ ~(e > Len(V))
    BY <1>0
  <2> QED
    BY <2>1, <2>2, <2>3, <2>4 DEF DataOwned, One
<1>7. Keeps(V, t.data, d)'
  BY <1>0, <1>1, <1>3, <1>4
<1> PICK n : n = IF Ended("Rollback")' THEN Len(V) ELSE Len(V) + 1
  OBVIOUS
<1>8. Keeps(V, t.data, n)'
  <2>1. CASE Ended("Rollback")' /\ depth = Len(V)
    BY <1>7, <2>1
  <2>2. CASE ~Ended("Rollback")' /\ \A l \in depth..Len(V) : fate[W[l]] \in {"aborted", "unknown"}
    <3> PICK X, k : X = t.data /\ k = Len(V) + 1
      OBVIOUS
    <3>1. Keeps(V, X, d)'
      BY <1>7
    <3>2. \A l \in d..Len(V) : V[l] = W[l] /\ fate'[V[l]] \in {"aborted", "unknown"}
      BY <2>2, <1>0
    <3>3. Keeps(V, X, k)'
      BY <3>1, <3>2 DEF Keeps
    <3> QED
      BY <2>2, <3>3
  <2> QED
    BY <2>1, <2>2
<1>9. DataKept(V)'
  <2>1. Keeps(V, t.durable, 1)'
    BY <1>0, <1>1, <1>3, <1>4
  <2>2. \A k \in 1..e : Keeps(V, Snap(t, k), k)'
    BY <1>1, <1>3, <1>4, <1>5
  <2>3. depth' = e
    BY <1>0
  <2> QED
    BY <1>8, <2>1, <2>2, <2>3 DEF DataKept
<1> QED
  BY <1>0, <1>1, <1>6, <1>9 DEF Books

\* A rollback of what is open does not fail.
LEMMA RollbackSucceeds ==
    ASSUME Settled, WorkerType, NEW W, Books(W), depth > 0, NEW ok \in BOOLEAN, Exec(RollbackSql(depth), ok)
    PROVE  ok /\ session' = Executed(session, RollbackSql(depth))
<1>1. session \in SessionSet /\ depth \in Nat /\ FramesFit(session.frames, depth)
  BY DEF WorkerType, Books
<1>2. Accepts(session, RollbackSql(depth))
  <2> PICK s, d : s = session /\ d = depth
    OBVIOUS
  <2>1. Accepts(s, RollbackSql(d))
    BY <1>1, RollbackAccepted
  <2> QED
    BY <2>1
<1>3. RollbackSql(depth).verb \in {"ROLLBACK", "ROLLBACK TO"}
  BY DEF RollbackSql
<1>4. ok
  BY <1>2, <1>3 DEF Exec, Settled
<1> QED
  BY <1>4 DEF Exec

\* A COMMIT or ROLLBACK the thread takes has a transaction to end: the client's, or one
\* that was given up.
LEMMA EndsOne ==
    ASSUME WorkerInv, NEW op \in {"Commit", "Rollback"}, Takes(op),
           NEW W \in Stacks, NEW lev \in [0..Len(chan) -> Nat], Running(W, lev)
    PROVE  /\ depth = Len(W) /\ depth > 0 /\ depth \in Nat /\ Head(chan).live \in BOOLEAN
           /\ ~Head(chan).live => fate[W[Len(W)]] \in {"aborted", "unknown"}
           /\ ~Head(chan).live /\ op = "Commit" => fate[W[Len(W)]] = "unknown"
<1>1. WorkerType /\ CallFits /\ job = NoJob /\ chan # <<>> /\ Head(chan).op = op
  BY DEF WorkerInv, Takes
<1>2. /\ Head(chan) = chan[1] /\ chan[1].live \in BOOLEAN /\ 1 \in 1..Len(chan) /\ lev[1] = Len(W)
      /\ CommandFits(W, lev, 1) /\ depth = Len(W)
      /\ chan[1].live => call = [op |-> chan[1].op, stage |-> "reply"]
  BY <1>1, FirstCommand
<1>3. Len(W) \in Nat /\ Len(handles) \in Nat /\ handles \in Seq(Tx) /\ Len(handles) <= Len(W)
  BY <1>1, Parts, StackParts DEF Running, Tower, OpenBelow
<1>4. ASSUME ~chan[1].live PROVE Len(W) > 0 /\ fate[W[Len(W)]] \in {"aborted", "unknown"}
  <2>1. RollbackComes(1) /\ 1 \in 0..Len(chan)
    BY <1>1, <1>2, <1>4 DEF CommandFits
  <2>2. lev[1] \in 1..Len(W) /\ fate[W[lev[1]]] \in {"aborted", "unknown"}
    BY <1>1, <2>1, RollbackHeight DEF Running, Tower, Pipe
  <2> QED
    BY <2>2, <1>2, <1>3
<1>5. ASSUME chan[1].live PROVE Len(W) > 0
  <2>1. handles # <<>>
    BY <1>1, <1>2, <1>5 DEF CallFits
  <2>2. Len(handles) # 0
    BY <2>1, <1>3
  <2> QED
    BY <2>2, <1>3
<1>6. ~chan[1].live /\ op = "Commit" => fate[W[Len(W)]] = "unknown"
  BY <1>1, <1>2 DEF CommandFits
<1> QED
  BY <1>2, <1>3, <1>4, <1>5, <1>6

\* Command::Commit.
LEMMA CommitInv ==
    ASSUME Settled, WorkerInv, DoCommit
    PROVE  WorkerInv'
<1>1. /\ Takes("Commit") /\ alive /\ job = NoJob /\ chan' = Tail(chan) /\ End("Commit", CommitSql(depth))
      /\ UNCHANGED <<alive, mutex, ignore, client>>
      /\ UNCHANGED <<begun, fate, parent, acked>>
  BY DEF DoCommit, Takes, client
<1>2. WorkerType
  BY DEF WorkerInv
<1>3. PICK W \in Stacks, lev \in [0..Len(chan) -> Nat] : Running(W, lev)
  BY <1>1 DEF WorkerInv
<1>4. /\ depth = Len(W) /\ depth > 0 /\ depth \in Nat /\ Head(chan).live \in BOOLEAN
      /\ ~Head(chan).live => fate[W[Len(W)]] = "unknown"
  BY <1>1, <1>3, EndsOne
<1>5. PICK ok \in BOOLEAN : /\ Exec(CommitSql(depth), ok) /\ depth' = IF ok THEN depth - 1 ELSE depth
                            /\ Reply("Commit", ok)
  BY <1>1, <1>4 DEF End
<1>6. ~Ended("Commit") /\ ~Ended("Rollback") /\ ~Ended("Rollback")' /\ (Ended("Commit")' <=> ok /\ Head(chan).live)
  BY <1>1, <1>5 DEF Ended, NoJob, Reply
<1>7. Books(W)' /\ session' \in SessionSet /\ session.durable \subseteq session'.durable
  <2>1. CASE ok
    <3>1. session' = Executed(session, CommitSql(depth)) /\ depth' = depth - 1
      BY <1>5, <2>1 DEF Exec
    <3>2. Ended("Commit")' \/ fate[W[Len(W)]] = "unknown"
      BY <1>4, <1>6, <2>1
    <3> QED
      BY <3>1, <3>2, <1>1, <1>2, <1>3, <1>4, <1>6, BooksCommit DEF Running
  <2>2. CASE ~ok
    <3>1. session' = Rejected(session) /\ depth' = depth
      BY <1>5, <2>2 DEF Exec
    <3> QED
      BY <3>1, <2>2, <1>1, <1>2, <1>3, <1>6, BooksRefused DEF Running
  <2> QED
    BY <2>1, <2>2
<1>8. depth' \in Nat /\ depth' = Len(W) + (IF ~ok THEN 0 ELSE IF "Commit" \in {"Begin", "BeginWith"} THEN 1 ELSE -1)
  BY <1>4, <1>5
<1> QED
  BY <1>1, <1>3, <1>5, <1>7, <1>8, AnswerStep

\* Command::Rollback.
LEMMA RollbackInv ==
    ASSUME Settled, WorkerInv, DoRollback
    PROVE  WorkerInv'
<1>1. /\ Takes("Rollback") /\ alive /\ job = NoJob /\ chan' = Tail(chan) /\ End("Rollback", RollbackSql(depth))
      /\ UNCHANGED <<alive, mutex, ignore, client>>
      /\ UNCHANGED <<begun, fate, parent, acked>>
  BY DEF DoRollback, Takes, client
<1>2. WorkerType
  BY DEF WorkerInv
<1>3. PICK W \in Stacks, lev \in [0..Len(chan) -> Nat] : Running(W, lev)
  BY <1>1 DEF WorkerInv
<1>4. /\ depth = Len(W) /\ depth > 0 /\ depth \in Nat /\ Head(chan).live \in BOOLEAN
      /\ ~Head(chan).live => fate[W[Len(W)]] \in {"aborted", "unknown"}
  BY <1>1, <1>3, EndsOne
<1>5. PICK ok \in BOOLEAN : /\ Exec(RollbackSql(depth), ok) /\ depth' = IF ok THEN depth - 1 ELSE depth
                            /\ Reply("Rollback", ok)
  BY <1>1, <1>4 DEF End
<1>6. ok /\ session' = Executed(session, RollbackSql(depth)) /\ depth' = depth - 1
  BY <1>2, <1>3, <1>4, <1>5, RollbackSucceeds DEF Running
<1>7. ~Ended("Commit") /\ ~Ended("Rollback") /\ ~Ended("Commit")' /\ (Ended("Rollback")' <=> Head(chan).live)
  BY <1>1, <1>5, <1>6 DEF Ended, NoJob, Reply
<1>8. Books(W)' /\ session' \in SessionSet /\ session.durable \subseteq session'.durable
  <2>1. Len(W) <= Len(W) /\ depth - 1 <= Len(W) /\ (\A l \in Len(W) + 1..Len(W) : FALSE)
    BY <1>4
  <2>2. \/ Ended("Rollback")' /\ depth = Len(W)
        \/ ~Ended("Rollback")' /\ \A l \in depth..Len(W) : fate[W[l]] \in {"aborted", "unknown"}
    <3>1. \A l \in depth..Len(W) : l = Len(W)
      BY <1>4
    <3> QED
      BY <3>1, <1>4, <1>7
  <2> QED
    BY <2>1, <2>2, <1>1, <1>2, <1>3, <1>4, <1>6, <1>7, BooksRollback DEF Running
<1>9. depth' \in Nat /\ depth' = Len(W) + (IF ~ok THEN 0 ELSE IF "Rollback" \in {"Begin", "BeginWith"} THEN 1 ELSE -1)
  BY <1>4, <1>6
<1> QED
  BY <1>1, <1>3, <1>5, <1>8, <1>9, AnswerStep

\* The stack without its topmost transaction.
LEMMA Shorter ==
    ASSUME NEW W \in Stacks, Len(W) > 0
    PROVE  \E V \in Stacks : Len(V) = Len(W) - 1 /\ \A k \in 1..Len(V) : V[k] = W[k]
<1> PICK n, V : n = Len(W) - 1 /\ V = SubSeq(W, 1, Len(W) - 1)
  OBVIOUS
<1>1. W \in Seq(Tx) /\ Len(W) \in Nat /\ n \in Nat /\ n <= Len(W)
  BY StackParts
<1>2. V \in Seq(Tx) /\ Len(V) = n /\ \A k \in 1..n : V[k] = W[k]
  BY <1>1
<1> QED
  BY <1>2 DEF Stacks

\* What is left of a stack is nested, and has the open ones below.
LEMMA TowerCut ==
    ASSUME NEW W \in Stacks, NEW V \in Stacks, Tower(W), UNCHANGED <<handles, begun, fate, parent>>,
           Len(V) <= Len(W), \A k \in 1..Len(V) : V[k] = W[k], Len(handles) <= Len(V), Len(handles) \in Nat
    PROVE  Tower(V)'
<1>0. Len(V) \in Nat /\ Len(W) \in Nat
  BY StackParts
<1>1. /\ \A k \in 1..Len(V) : k \in 1..Len(W) /\ (k # 1 => k - 1 \in 1..Len(V))
      /\ \A k \in 1..Len(handles) : k \in 1..Len(V)
      /\ \A k \in Len(handles) + 1..Len(V) : k \in Len(handles) + 1..Len(W) /\ k \in 1..Len(V)
  BY <1>0
<1>2. Nested(V)'
  <2> SUFFICES ASSUME NEW k \in 1..Len(V)
               PROVE  /\ V[k] <= begun /\ parent[V[k]] = IF k = 1 THEN Outside ELSE V[k - 1]
                      /\ \A l \in 1..Len(V) : k < l => V[k] < V[l]
    BY DEF Nested
  <2>1. /\ W[k] <= begun /\ parent[W[k]] = IF k = 1 THEN Outside ELSE W[k - 1]
        /\ \A l \in 1..Len(W) : k < l => W[k] < W[l]
    BY <1>1 DEF Tower, Nested
  <2> QED
    BY <1>1, <2>1
<1>3. OpenBelow(V)'
  BY <1>1 DEF Tower, OpenBelow
<1> QED
  BY <1>2, <1>3 DEF Tower

\* A transaction that is rolled back already is taken off the stack.
LEMMA BooksPop ==
    ASSUME WorkerType, NEW W \in Stacks, NEW V \in Stacks, Books(W), depth = Len(V), Len(W) = Len(V) + 1,
           UNCHANGED <<session, depth, begun, fate, parent, acked>>,
           \A op \in {"Commit", "Rollback"} : ~Ended(op) /\ ~Ended(op)',
           \A l \in 1..Len(V) : V[l] = W[l], fate[W[Len(W)]] \in {"aborted", "unknown"}
    PROVE  Books(V)'
<1> PICK s, d : s = session /\ d = depth
  OBVIOUS
<1>0. d \in Nat /\ d = Len(V) /\ Len(W) = d + 1 /\ ~(d > Len(W)) /\ session' = s /\ depth' = d
  BY StackParts
<1>1. \A l \in Len(V) + 1..Len(W) : fate[W[l]] \in {"aborted", "unknown"}
  <2>1. \A l \in Len(V) + 1..Len(W) : l = Len(W)
    BY <1>0
  <2> QED
    BY <2>1
<1>2. Len(V) <= Len(W)
  BY <1>0
<1>3. /\ \A X : \A k \in 0..Len(V) : OnlyFrom(W, X, k) => OnlyFrom(V, X, k)'
      /\ \A X : \A k \in Nat \ {0} : Keeps(W, X, k) => Keeps(V, X, k)'
  BY <1>1, <1>2, StackCut
<1>4. /\ OnlyFrom(W, s.data, d) /\ OnlyFrom(W, s.durable, 0)
      /\ \A k \in 1..d : OnlyFrom(W, Snap(s, k), k - 1)
  BY <1>0 DEF Books, DataOwned, One
<1>5. /\ Keeps(W, s.data, Len(W) + 1) /\ Keeps(W, s.durable, 1)
      /\ \A k \in 1..d : Keeps(W, Snap(s, k), k)
  BY <1>0 DEF Books, DataKept
<1>6. \A k \in 1..d : k - 1 \in 0..Len(V) /\ k \in Nat \ {0}
  BY <1>0
<1>7. DataOwned(V)'
  <2>1. OnlyFrom(V, s.data, d)' /\ OnlyFrom(V, s.durable, 0)'
    BY <1>0, <1>3, <1>4
  <2>2. \A k \in 1..d : OnlyFrom(V, Snap(s, k), k - 1)'
    BY <1>3, <1>4, <1>6
  <2> QED
    BY <1>0, <2>1, <2>2 DEF DataOwned, One
<1>8. DataKept(V)'
  <2>1. Keeps(V, s.data, Len(V) + 1)'
    <3> PICK X, k, n : X = s.data /\ k = Len(W) + 1 /\ n = Len(V) + 1
      OBVIOUS
    <3>1. Keeps(V, X, k)'
      BY <1>0, <1>3, <1>5
    <3>2. \A l \in n..Len(V) : FALSE
      BY <1>0
    <3>3. \A l \in k..Len(V) : FALSE
      BY <1>0
    <3>4. Keeps(V, X, n)'
      BY <3>1, <3>2, <3>3, Zenon DEF Keeps
    <3> QED
      BY <3>4
  <2>2. Keeps(V, s.durable, 1)' /\ \A k \in 1..d : Keeps(V, Snap(s, k), k)'
    BY <1>3, <1>5, <1>6
  <2> QED
    BY <1>0, <2>1, <2>2 DEF DataKept
<1> QED
  BY <1>0, <1>7, <1>8 DEF Books

\* Command::Rollback from a destructor.
LEMMA StartRollbackInv ==
    ASSUME Settled, WorkerInv, DoStartRollback
    PROVE  WorkerInv'
<1>0. /\ alive /\ job = NoJob /\ chan # <<>> /\ Head(chan).op = "StartRollback" /\ chan' = Tail(chan) /\ ignore' = FALSE
      /\ UNCHANGED <<alive, job, mutex, call, handles, begun, fate, parent, acked>>
  BY DEF DoStartRollback, Takes, client
<1>1. WorkerType /\ Numbering /\ CallFits /\ Known
  BY DEF WorkerInv
<1>2. PICK W \in Stacks, lev \in [0..Len(chan) -> Nat] : Running(W, lev)
  BY <1>0 DEF WorkerInv
<1>3. /\ Head(chan) = chan[1] /\ Tail(chan) \in Seq(CommandSet)
      /\ Len(Tail(chan)) <= ChannelSize /\ lev[1] = Len(W) - 1 /\ Len(W) > Len(handles)
      /\ fate[W[Len(W)]] \in {"aborted", "unknown"} /\ call.op # "BeginCheck"
  BY <1>0, <1>1, <1>2, FirstCommand
<1>4. Len(W) \in Nat /\ Len(handles) \in Nat /\ Len(W) > 0 /\ depth \in Nat /\ ignore \in BOOLEAN
  BY <1>1, <1>3, Parts, StackParts DEF WorkerType
<1>5. PICK V \in Stacks : Len(V) = Len(W) - 1 /\ \A k \in 1..Len(V) : V[k] = W[k]
  BY <1>4, Shorter
<1>6. Len(V) \in Nat /\ Len(W) = Len(V) + 1 /\ Len(V) <= Len(W) /\ Len(handles) <= Len(V) /\ Len(V) = lev[1]
  BY <1>3, <1>4, <1>5
<1>7. \A op \in {"Commit", "Rollback"} : ~Ended(op) /\ ~Ended(op)'
  BY <1>0 DEF Ended, NoJob
<1>8. /\ depth' = Len(V) /\ Books(V)' /\ session' \in SessionSet
      /\ session.durable \subseteq session'.durable
  <2>1. CASE ignore
    <3>1. depth = Len(V)
      BY <2>1, <1>0, <1>2, <1>5 DEF Running, DepthFits, NoJob
    <3>2. session' = session /\ depth' = depth
      BY <2>1 DEF DoStartRollback
    <3>3. Books(V)'
      BY <3>1, <3>2, <1>0, <1>1, <1>2, <1>3, <1>5, <1>6, <1>7, BooksPop DEF Running
    <3> QED
      BY <3>1, <3>2, <3>3, <1>1 DEF WorkerType
  <2>2. CASE ~ignore
    <3>1. depth = Len(W)
      BY <2>2, <1>0, <1>2, <1>3 DEF Running, DepthFits, NoJob
    <3>2. depth > 0
      BY <3>1, <1>4
    <3>3. PICK ok \in BOOLEAN : Exec(RollbackSql(depth), ok) /\ depth' = IF ok THEN depth - 1 ELSE depth
      BY <2>2, <3>2 DEF DoStartRollback
    <3>4. ok /\ session' = Executed(session, RollbackSql(depth)) /\ depth' = depth - 1
      BY <1>1, <1>2, <3>2, <3>3, RollbackSucceeds DEF Running
    <3>5. depth - 1 <= Len(V) /\ depth' = Len(V)
      BY <3>1, <3>4, <1>6
    <3>6. \A l \in Len(V) + 1..Len(W) : fate[W[l]] \in {"aborted", "unknown"}
      <4>1. \A l \in Len(V) + 1..Len(W) : l = Len(W)
        BY <1>6
      <4> QED
        BY <4>1, <1>3
    <3>7. \A l \in depth..Len(V) : FALSE
      BY <3>1, <1>6
    <3>8. Books(V)' /\ session' \in SessionSet /\ session.durable \subseteq session'.durable
      BY <3>2, <3>4, <3>5, <3>6, <3>7, <1>0, <1>1, <1>2, <1>5, <1>6, <1>7, BooksRollback DEF Running
    <3> QED
      BY <3>5, <3>8
  <2> QED
    BY <1>4, <2>1, <2>2
<1>9. WorkerType'
  BY <1>0, <1>1, <1>3, <1>6, <1>8 DEF WorkerType
<1>10. Numbering' /\ Tower(V)'
  <2>1. Numbering'
    BY <1>0, <1>1, <1>2, TowerKept DEF Running
  <2>2. Tower(V)'
    BY <1>0, <1>2, <1>4, <1>5, <1>6, TowerCut DEF Running
  <2> QED
    BY <2>1, <2>2
<1>11. CallFits' /\ Known'
  BY <1>0, <1>1, <1>8, KnownKept DEF CallFits
<1>12. PICK m \in [0..Len(chan') -> Nat] : Pipe(V, m)'
  <2>1. ~job'.live
    BY <1>0 DEF NoJob
  <2> QED
    BY <1>0, <1>1, <1>2, <1>5, <1>6, <2>1, TakeShift DEF Running
<1>13. JobFits(V)' /\ DepthFits(V)'
  BY <1>0, <1>3, <1>8 DEF JobFits, DepthFits, NoJob
<1>14. Running(V, m)' /\ alive'
  BY <1>0, <1>8, <1>10, <1>12, <1>13 DEF Running
<1> QED
  BY <1>9, <1>10, <1>11, <1>14, Assemble

\* The answer to a BEGIN that nobody takes is gone.
LEMMA AnswerGone ==
    ASSUME WorkerInv, alive, NEW W \in Stacks, NEW lev \in [0..Len(chan) -> Nat], Running(W, lev),
           job.op \in {"Begin", "BeginWith"}, job' = NoJob,
           UNCHANGED <<chan, alive, mutex, ignore, call, handles, begun, fate, parent, acked>>,
           session' \in SessionSet, session.durable \subseteq session'.durable, depth' = Len(W), Books(W)'
    PROVE  WorkerInv'
<1>0. /\ chan' = chan /\ alive' = alive /\ mutex' = mutex /\ ignore' = ignore /\ call' = call
      /\ handles' = handles /\ begun' = begun /\ fate' = fate /\ parent' = parent /\ acked' = acked
  OBVIOUS
<1>1. WorkerType /\ Numbering /\ CallFits /\ Known
  BY DEF WorkerInv
<1>2. ~ignore /\ call.op # "BeginCheck"
  BY DEF Running, JobFits, NoJob
<1>3. WorkerType'
  <2>1. job' \in JobSet
    BY DEF JobSet, NoJob
  <2> QED
    BY <1>0, <1>1, <2>1, StackParts DEF WorkerType
<1>4. Numbering' /\ Tower(W)'
  BY <1>0, <1>1, TowerKept DEF Running
<1>5. CallFits' /\ Known'
  BY <1>0, <1>1, KnownKept DEF CallFits
<1>6. Pipe(W, lev)'
  <2>1. job'.live => job.live
    BY DEF NoJob
  <2> QED
    BY <1>0, <2>1, PipeKept DEF Running
<1>7. JobFits(W)' /\ DepthFits(W)'
  BY <1>0, <1>2 DEF JobFits, DepthFits, NoJob
<1>8. Running(W, lev)' /\ alive' /\ lev \in [0..Len(chan') -> Nat]
  BY <1>0, <1>4, <1>6, <1>7 DEF Running
<1> QED
  BY <1>3, <1>4, <1>5, <1>8, Assemble

\* The thread ends: the database keeps what was committed, and what is open, if the
\* connection still is.
LEMMA Ceasing ==
    ASSUME WorkerType, NEW W \in Stacks, Tower(W), Books(W), ~Ended("Commit"), ~Ended("Rollback"),
           UNCHANGED <<handles, begun, fate, parent, acked>>, chan' = <<>>, job' = NoJob, call'.op # "BeginCheck",
           session' = session \/ (handles = <<>> /\ session' = RolledBack(session))
    PROVE  Ceased' /\ session' \in SessionSet /\ session'.durable = session.durable
<1> PICK H, s, t : H = handles /\ s = session /\ t = session'
  OBVIOUS
<1>0. /\ H \in Stacks /\ Len(H) \in Nat /\ Len(W) \in Nat /\ Len(H) <= Len(W) /\ s \in SessionSet
      /\ \A k \in 1..Len(H) : H[k] = W[k]
      /\ \A k \in Len(H) + 1..Len(W) : fate[W[k]] \in {"aborted", "unknown"}
  BY Parts, StackParts DEF WorkerType, Stacks, Tower, OpenBelow
<1>1. handles' = H
  OBVIOUS
<1>2. Nested(H)'
  <2>1. Tower(H)'
    BY <1>0, TowerCut
  <2> QED
    BY <2>1 DEF Tower
<1>3. /\ \A X : \A k \in 0..Len(H) : OnlyFrom(W, X, k) => OnlyFrom(H, X, k)'
      /\ \A X : \A k \in Nat \ {0} : Keeps(W, X, k) => Keeps(H, X, k)'
  BY <1>0, StackCut
<1>4. OnlyFrom(W, s.durable, 0) /\ Keeps(W, s.data, Len(W) + 1) /\ Keeps(W, s.durable, 1) /\ s.durable \subseteq s.data
  BY DEF Books, DataOwned, DataKept, SnapsFit, One
<1>5. OnlyFrom(H, s.durable, 0)' /\ Keeps(H, s.durable, 1)'
  BY <1>0, <1>3, <1>4
<1>6. Keeps(H, s.data, Len(H) + 1)'
  <2> PICK X, k, n : X = s.data /\ k = Len(W) + 1 /\ n = Len(H) + 1
    OBVIOUS
  <2>1. Keeps(H, X, k)'
    BY <1>0, <1>3, <1>4
  <2>2. (\A l \in n..Len(H) : FALSE) /\ (\A l \in k..Len(H) : FALSE)
    BY <1>0
  <2>3. Keeps(H, X, n)'
    BY <2>1, <2>2, Zenon DEF Keeps
  <2> QED
    BY <2>3
<1>7. /\ t \in SessionSet /\ t.durable = s.durable /\ t.durable \subseteq t.data
      /\ t.data = s.data \/ (t.data = s.durable /\ Len(H) = 0)
  <2>1. CASE t = s
    BY <2>1, <1>0, <1>4
  <2>2. CASE handles = <<>> /\ t = RolledBack(s)
    <3>1. s.durable \in SUBSET Writers
      BY <1>0, SessionParts
    <3>2. t = [frames |-> <<>>, data |-> s.durable, durable |-> s.durable, failed |-> FALSE]
      BY <2>2 DEF RolledBack
    <3> QED
      BY <2>2, <3>1, <3>2 DEF SessionSet
  <2> QED
    BY <2>1, <2>2
<1>8. Keeps(H, t.data, Len(H) + 1)'
  BY <1>5, <1>6, <1>7
<1>9. Ceased'
  BY <1>1, <1>2, <1>5, <1>7, <1>8 DEF Ceased
<1> QED
  BY <1>7, <1>9

\* The invariant of a thread that has ended.
LEMMA AssembleCeased ==
    ASSUME WorkerType', Numbering', CallFits', Known', ~alive', Ceased'
    PROVE  WorkerInv'
  BY DEF WorkerInv

\* Nobody took the answer to a BEGIN: what it began is rolled back, or the thread ends.
LEMMA UnacknowledgedBeginInv ==
    ASSUME Settled, WorkerInv, UnacknowledgedBegin
    PROVE  WorkerInv'
<1>0. /\ alive /\ ~job.live /\ job.op \in {"Begin", "BeginWith"}
      /\ UNCHANGED <<ignore, call, handles, begun, fate, parent, acked>>
  BY DEF UnacknowledgedBegin, client
<1>1. WorkerType /\ Numbering /\ CallFits /\ Known
  BY DEF WorkerInv
<1>2. PICK W \in Stacks, lev \in [0..Len(chan) -> Nat] : Running(W, lev)
  BY <1>0 DEF WorkerInv
<1>3. job.ok \in BOOLEAN /\ depth \in Nat /\ Len(W) \in Nat
  BY <1>1, Parts, StackParts
<1>4. ~ignore /\ call.op # "BeginCheck"
  BY <1>0, <1>2 DEF Running, JobFits, NoJob
<1>5. ~Ended("Commit") /\ ~Ended("Rollback")
  BY <1>0 DEF Ended
<1>6. job' = NoJob
  BY DEF UnacknowledgedBegin, Quit
<1>7. ~Ended("Commit")' /\ ~Ended("Rollback")'
  BY <1>6 DEF Ended, NoJob
<1>8. CASE job.ok
  <2>1. job.depth + 1 = depth /\ depth = Len(W) + 1 /\ depth > 0
    BY <1>0, <1>2, <1>3, <1>8 DEF Running, JobFits, DepthFits
  <2>2. ~Exec(RollbackSql(depth), FALSE)
    <3> PICK ok \in BOOLEAN : ok = FALSE
      OBVIOUS
    <3>1. Exec(RollbackSql(depth), ok) => ok
      BY <1>1, <1>2, <2>1, RollbackSucceeds DEF Running
    <3> QED
      BY <3>1
  <2>3. Exec(RollbackSql(depth), TRUE) /\ depth' = depth - 1 /\ UNCHANGED <<alive, chan, mutex>>
    BY <1>8, <2>1, <2>2 DEF UnacknowledgedBegin
  <2>4. session' = Executed(session, RollbackSql(depth))
    BY <2>3 DEF Exec
  <2>5. /\ Len(W) <= Len(W) /\ depth - 1 <= Len(W) /\ (\A l \in Len(W) + 1..Len(W) : FALSE)
        /\ \A l \in depth..Len(W) : FALSE
    BY <1>3, <2>1
  <2>6. Books(W)' /\ session' \in SessionSet /\ session.durable \subseteq session'.durable
    BY <1>0, <1>1, <1>2, <1>5, <1>7, <2>1, <2>3, <2>4, <2>5, BooksRollback DEF Running
  <2>7. depth' = Len(W)
    BY <1>3, <2>1, <2>3
  <2> QED
    BY <1>0, <1>2, <1>6, <2>3, <2>6, <2>7, AnswerGone
<1>9. CASE ~job.ok
  <2>1. session' = session /\ depth' = depth /\ depth = Len(W)
    BY <1>2, <1>4, <1>9 DEF UnacknowledgedBegin, Running, DepthFits
  <2>2. Quit \/ UNCHANGED <<alive, chan, mutex>>
    BY <1>9 DEF UnacknowledgedBegin
  <2>3. CASE UNCHANGED <<alive, chan, mutex>>
    <3>1. Books(W)' /\ session' \in SessionSet /\ session.durable \subseteq session'.durable
      BY <1>0, <1>1, <1>2, <1>5, <1>7, <2>1, BooksKept DEF Running, WorkerType
    <3> QED
      BY <1>0, <1>2, <1>6, <2>1, <2>3, <3>1, AnswerGone
  <2>4. CASE Quit
    <3>1. alive' = FALSE /\ chan' = <<>> /\ mutex' = "free"
      BY <2>4 DEF Quit
    <3>2. Ceased' /\ session' \in SessionSet
      BY <1>0, <1>1, <1>2, <1>4, <1>5, <1>6, <2>1, <3>1, Ceasing DEF Running
    <3>3. WorkerType'
      <4>1. job' \in JobSet
        BY <1>6 DEF NoJob, JobSet
      <4>2. chan' \in Seq(CommandSet) /\ Len(chan') <= ChannelSize
        BY <3>1, EmptyChannel
      <4> QED
        BY <1>0, <1>1, <2>1, <3>1, <4>1, <4>2 DEF WorkerType
    <3>4. Numbering' /\ CallFits' /\ Known'
      <4>1. Numbering'
        BY <1>0, <1>1 DEF Numbering
      <4>2. CallFits'
        BY <1>0, <1>1, <3>1 DEF CallFits
      <4>3. Known'
        BY <1>0, <1>1, <2>1 DEF Known
      <4> QED
        BY <4>1, <4>2, <4>3
    <3> QED
      BY <3>1, <3>2, <3>3, <3>4, AssembleCeased
  <2> QED
    BY <2>2, <2>3, <2>4
<1> QED
  BY <1>3, <1>8, <1>9

\* The connection is closed and the thread ends.
LEMMA EndInv ==
    ASSUME WorkerInv, alive, NEW W \in Stacks, Tower(W), Books(W), job = NoJob, handles = <<>>, call' = Closed,
           alive' = FALSE, mutex' = "free", chan' = <<>>, session' = RolledBack(session),
           UNCHANGED <<job, depth, ignore, handles, begun, fate, parent, acked>>
    PROVE  WorkerInv'
<1>0. /\ job' = job /\ depth' = depth /\ ignore' = ignore /\ handles' = handles /\ begun' = begun
      /\ fate' = fate /\ parent' = parent /\ acked' = acked
  OBVIOUS
<1>1. WorkerType /\ Numbering /\ CallFits /\ Known
  BY DEF WorkerInv
<1>2. ~Ended("Commit") /\ ~Ended("Rollback")
  BY DEF Ended, NoJob
<1>3. Ceased' /\ session' \in SessionSet /\ session'.durable = session.durable
  <2>1. job' = NoJob /\ call'.op # "BeginCheck"
    BY DEF Closed
  <2> QED
    BY <1>1, <1>2, <2>1, Ceasing
<1>4. WorkerType'
  <2>1. chan' \in Seq(CommandSet) /\ Len(chan') <= ChannelSize /\ call' \in CallSet
    BY EmptyChannel DEF CallSet
  <2> QED
    BY <1>0, <1>1, <1>3, <2>1 DEF WorkerType
<1>5. Numbering'
  BY <1>0, <1>1 DEF Numbering
<1>6. CallFits'
  BY <1>0, <1>1 DEF CallFits, Closed
<1>7. Known'
  BY <1>0, <1>1, <1>3 DEF Known
<1> QED
  BY <1>3, <1>4, <1>5, <1>6, <1>7, AssembleCeased

\* Command::Shutdown.
LEMMA ShutdownInv ==
    ASSUME Settled, WorkerInv, DoShutdown
    PROVE  WorkerInv'
<1>0. /\ alive /\ job = NoJob /\ chan # <<>> /\ Head(chan).op = "Shutdown" /\ chan' = Tail(chan)
      /\ alive' = FALSE /\ mutex' = "free" /\ session' = RolledBack(session) /\ call' = Closed
      /\ UNCHANGED <<job, depth, ignore, handles, begun, fate, parent, acked>>
  BY DEF DoShutdown, Takes
<1>1. WorkerType /\ CallFits
  BY DEF WorkerInv
<1>2. PICK W \in Stacks, lev \in [0..Len(chan) -> Nat] : Running(W, lev)
  BY <1>0 DEF WorkerInv
<1>3. /\ Head(chan) = chan[1] /\ CommandFits(W, lev, 1)
      /\ chan[1].live /\ chan[1].op \notin {"Lock", "BeginCheck"} =>
            Tail(chan) = <<>> /\ Len(chan) = 1 /\ call = [op |-> chan[1].op, stage |-> "reply"]
  BY <1>0, <1>1, <1>2, FirstCommand
<1>4. chan[1].live
  BY <1>0, <1>3 DEF CommandFits
<1>5. chan' = <<>> /\ call = [op |-> "Shutdown", stage |-> "reply"]
  BY <1>0, <1>3, <1>4
<1>6. handles = <<>>
  BY <1>1, <1>5 DEF CallFits
<1> QED
  BY <1>0, <1>2, <1>5, <1>6, EndInv DEF Running

\* The channel is drained and nobody can send any more.
LEMMA DisconnectedInv ==
    ASSUME Settled, WorkerInv, Disconnected
    PROVE  WorkerInv'
<1>0. /\ alive /\ job = NoJob /\ chan = <<>> /\ call = Closed /\ chan' = <<>> /\ call' = Closed
      /\ alive' = FALSE /\ mutex' = "free" /\ session' = RolledBack(session)
      /\ UNCHANGED <<job, depth, ignore, handles, begun, fate, parent, acked>>
  BY DEF Disconnected, client
<1>1. handles = <<>>
  BY <1>0 DEF WorkerInv, CallFits, Closed
<1>2. PICK W \in Stacks, lev \in [0..Len(chan) -> Nat] : Running(W, lev)
  BY <1>0 DEF WorkerInv
<1> QED
  BY <1>0, <1>1, <1>2, EndInv DEF Running

-----------------------------------------------------------------------------
(* The client, while the thread runs.                                      *)

\* An answer that nobody waits for.
LEMMA Unheard ==
    ASSUME NEW j \in JobSet, NEW x, x = [j EXCEPT !.live = FALSE]
    PROVE  /\ x \in JobSet /\ x.op = j.op /\ x.ok = j.ok /\ x.depth = j.depth /\ x.live = FALSE
           /\ ~j.live => x = j
           /\ NoJob \in JobSet
<1>1. NoJob \in JobSet
  BY DEF NoJob, JobSet
<1>2. x = [op |-> j.op, ok |-> j.ok, live |-> FALSE, depth |-> j.depth]
  BY DEF JobSet
<1>3. j = [op |-> j.op, ok |-> j.ok, live |-> j.live, depth |-> j.depth] /\ j.live \in BOOLEAN
  BY DEF JobSet
<1>4. x \in JobSet /\ x.op = j.op /\ x.ok = j.ok /\ x.depth = j.depth /\ x.live = FALSE
  BY <1>2 DEF JobSet
<1>5. ~j.live => x = j
  BY <1>2, <1>3
<1> QED
  BY <1>1, <1>4, <1>5

\* A step of the client that sends nothing: no command and no answer is waited for any
\* more, and a transaction that is given up is rolled back next.
LEMMA ClientPipe ==
    ASSUME WorkerType, NEW W \in Stacks, NEW lev \in [0..Len(chan) -> Nat],
           Tower(W), Pipe(W, lev), JobFits(W), DepthFits(W),
           Len(chan') = Len(chan),
           \A i \in 1..Len(chan) : /\ chan'[i].op = chan[i].op /\ chan'[i].tx = chan[i].tx /\ chan[i].op # "Shutdown"
                                   /\ chan'[i].live => chan[i].op \in {"Lock", "BeginCheck"},
           call # Sending("StartRollback"), call.op # "BeginCheck", call'.op # "BeginCheck",
           job' = [job EXCEPT !.live = FALSE] \/ (job' = NoJob /\ ~job.ok),
           Len(handles') + One(call' = Sending("StartRollback")) = Len(handles),
           \A k \in Len(handles) + 1..Len(W) : fate'[W[k]] = fate[W[k]],
           call.op \in {"Commit", "Rollback"} => call' = Sending("StartRollback"),
           call.op = "Commit" => fate'[W[Len(handles)]] = "unknown" \/ (job.live /\ job' = NoJob),
           UNCHANGED <<depth, ignore>>
    PROVE  Pipe(W, lev)' /\ JobFits(W)' /\ DepthFits(W)'
<1> PICK L, sr : L = Len(chan) /\ sr = Sending("StartRollback")
  OBVIOUS
<1>0. L \in Nat /\ Len(chan') = L /\ depth' = depth /\ ignore' = ignore
  BY Parts
<1>1. Levels(W, lev) /\ \A i \in 1..L : CommandFits(W, lev, i)
  BY DEF Pipe
<1>2. lev[L] = Len(handles) /\ lev[0] = Len(W) /\ OpenBelow(W)
  <2>1. One(call = sr) = 0
    BY DEF One
  <2> QED
    BY <2>1, Parts DEF Levels, Tower, Pipe
<1>3. \A i \in 0..L : RollbackComes(i) => RollbackComes(i)' /\ lev[i] \in 1..Len(W) /\ fate'[W[lev[i]]] = fate[W[lev[i]]]
  <2> SUFFICES ASSUME NEW i \in 0..L, RollbackComes(i)
               PROVE  RollbackComes(i)' /\ lev[i] \in 1..Len(W) /\ fate'[W[lev[i]]] = fate[W[lev[i]]]
    OBVIOUS
  <2>1. lev[i] \in 1..Len(W) /\ lev[i] > Len(handles)
    BY <1>1, <1>2, RollbackHeight
  <2>2. lev[i] \in Len(handles) + 1..Len(W)
    BY <2>1, Parts, StackParts
  <2>3. i < L /\ i + 1 \in 1..L /\ chan[i + 1].op = "StartRollback"
    BY <1>0 DEF RollbackComes
  <2>4. RollbackComes(i)'
    BY <1>0, <2>3 DEF RollbackComes
  <2> QED
    BY <2>1, <2>2, <2>4
<1>4. Levels(W, lev)'
  BY <1>0, <1>1, <1>2 DEF Levels
<1>5. ASSUME NEW i \in 1..L PROVE CommandFits(W, lev, i)'
  <2>1. /\ chan'[i].op = chan[i].op /\ chan'[i].tx = chan[i].tx /\ chan[i].op # "Shutdown"
        /\ chan'[i].live => chan[i].op \in {"Lock", "BeginCheck"}
        /\ chan[i].live \in BOOLEAN /\ i \in 0..L
    BY <1>0, Parts
  <2>2. CommandFits(W, lev, i)
    BY <1>1
  <2>3. ASSUME chan[i].op \in {"Commit", "Rollback"}, chan[i].live
        PROVE  i = L /\ call.op = chan[i].op /\ ~job.live /\ call' = Sending("StartRollback")
    BY <2>2, <2>3 DEF CommandFits
  <2>4. chan[i].op \in {"Commit", "Rollback"} => RollbackComes(i)'
    <3>1. CASE chan[i].live
      BY <1>0, <2>3, <3>1 DEF RollbackComes
    <3>2. CASE ~chan[i].live
      BY <1>3, <2>1, <2>2, <3>2 DEF CommandFits
    <3> QED
      BY <2>1, <3>1, <3>2
  <2>5. chan[i].op = "Commit" => fate'[W[lev[i]]] = "unknown"
    <3>1. CASE chan[i].live
      BY <1>2, <2>3, <3>1
    <3>2. CASE ~chan[i].live
      BY <1>3, <2>1, <2>2, <3>2 DEF CommandFits
    <3> QED
      BY <2>1, <3>1, <3>2
  <2> QED
    BY <2>1, <2>2, <2>4, <2>5 DEF CommandFits
<1>6. Pipe(W, lev)'
  BY <1>0, <1>4, <1>5 DEF Pipe
<1>7. /\ job \in JobSet /\ job.ok \in BOOLEAN /\ job.live \in BOOLEAN
      /\ (job' = NoJob /\ ~job.ok) \/ (job'.op = job.op /\ job'.ok = job.ok /\ job'.depth = job.depth /\ ~job'.live)
      /\ job = NoJob => job' = NoJob
  <2>1. job \in JobSet /\ job.ok \in BOOLEAN /\ job.live \in BOOLEAN
    BY Parts DEF WorkerType
  <2>2. ASSUME job' = [job EXCEPT !.live = FALSE]
        PROVE  job'.op = job.op /\ job'.ok = job.ok /\ job'.depth = job.depth /\ ~job'.live /\ (job = NoJob => job' = NoJob)
    <3>1. job'.op = job.op /\ job'.ok = job.ok /\ job'.depth = job.depth /\ ~job'.live /\ (~job.live => job' = job)
      BY <2>1, <2>2, Unheard, ZenonT(60)
    <3> QED
      BY <3>1 DEF NoJob
  <2> QED
    BY <2>1, <2>2
<1>8. ~job'.live /\ (job'.ok => job.ok)
  BY <1>7 DEF NoJob
<1>9. JobFits(W)'
  <2>1. CASE job' = NoJob
    <3>1. ignore => RollbackComes(0)'
      BY <1>0, <1>3 DEF JobFits
    <3> QED
      BY <1>0, <2>1, <3>1 DEF JobFits, NoJob
  <2>2. CASE job' # NoJob
    <3>1. job # NoJob /\ job'.op = job.op /\ job'.ok = job.ok /\ job'.depth = job.depth
      BY <1>7, <2>2
    <3>2. ~ignore /\ job.op # "none"
      BY <3>1 DEF JobFits
    <3>3. ASSUME job.op \in {"Commit", "Rollback"}
          PROVE  RollbackComes(0)' /\ (job.op = "Commit" => fate'[W[Len(W)]] = "unknown")
      <4>1. CASE job.live
        <5>1. chan = <<>> /\ call.op = job.op
          BY <4>1 DEF JobFits
        <5>2. L = 0 /\ Len(W) = Len(handles)
          BY <5>1, <1>2
        <5> QED
          BY <5>1, <5>2, <1>0, <2>2, <3>3 DEF RollbackComes
      <4>2. CASE ~job.live
        <5>1. RollbackComes(0) /\ (job.op = "Commit" => fate[W[Len(W)]] = "unknown")
          BY <3>3, <4>2 DEF JobFits
        <5> QED
          BY <5>1, <1>0, <1>2, <1>3
      <4> QED
        BY <1>7, <4>1, <4>2
    <3> QED
      BY <1>0, <1>8, <3>1, <3>2, <3>3 DEF JobFits
  <2> QED
    BY <2>1, <2>2
<1>10. DepthFits(W)'
  <2>1. CASE job' = NoJob /\ ~job.ok
    BY <1>0, <2>1 DEF DepthFits, NoJob
  <2>2. CASE job'.op = job.op /\ job'.ok = job.ok
    BY <1>0, <2>2 DEF DepthFits
  <2> QED
    BY <1>7, <2>1, <2>2
<1> QED
  BY <1>6, <1>9, <1>10

\* A step of the client that leaves the transactions alone.
LEMMA ClientKept ==
    ASSUME WorkerInv, alive, UNCHANGED <<alive, session, depth, ignore, handles, begun, fate, parent, acked>>,
           chan' \in Seq(CommandSet), Len(chan') = Len(chan),
           \A i \in 1..Len(chan) : /\ chan'[i].op = chan[i].op /\ chan'[i].tx = chan[i].tx
                                   /\ chan'[i].live => chan[i].live
                                   /\ chan'[i].live /\ call.stage = "reply" =>
                                         chan[i].op \in {"Lock", "BeginCheck"} \/ call.op = "Lock" \/ job.live,
           call # Sending("StartRollback"), call.op \notin {"BeginCheck", "Commit", "Rollback", "Shutdown"},
           call' # Sending("StartRollback"), call'.op # "BeginCheck", call' \in CallSet, CallFits',
           mutex' \in {"worker", "client", "free"},
           job' = [job EXCEPT !.live = FALSE] \/ (job' = NoJob /\ ~job.ok)
    PROVE  WorkerInv'
<1>0. /\ alive' = alive /\ session' = session /\ depth' = depth /\ ignore' = ignore
      /\ handles' = handles /\ begun' = begun /\ fate' = fate /\ parent' = parent /\ acked' = acked
  OBVIOUS
<1>1. WorkerType /\ Numbering /\ CallFits /\ Known
  BY DEF WorkerInv
<1>2. PICK W \in Stacks, lev \in [0..Len(chan) -> Nat] : Running(W, lev)
  BY DEF WorkerInv
<1>3. Tower(W) /\ Pipe(W, lev) /\ JobFits(W) /\ DepthFits(W) /\ Books(W)
  BY <1>2 DEF Running
<1>4. \A i \in 1..Len(chan) : /\ chan'[i].op = chan[i].op /\ chan'[i].tx = chan[i].tx /\ chan[i].op # "Shutdown"
                              /\ chan'[i].live => chan[i].op \in {"Lock", "BeginCheck"}
  <2> SUFFICES ASSUME NEW i \in 1..Len(chan)
               PROVE  chan[i].op # "Shutdown" /\ (chan'[i].live => chan[i].op \in {"Lock", "BeginCheck"})
    OBVIOUS
  <2>1. chan[i].live /\ chan[i].op \notin {"Lock", "BeginCheck"} =>
           call = [op |-> chan[i].op, stage |-> "reply"] /\ ~job.live
    BY <1>3 DEF Pipe, CommandFits
  <2>2. chan[i].op = "Shutdown" => chan[i].live
    BY <1>3 DEF Pipe, CommandFits
  <2> QED
    BY <2>1, <2>2
<1>5. Len(handles') + One(call' = Sending("StartRollback")) = Len(handles)
  BY <1>0, <1>1, Parts DEF One
<1>6. Pipe(W, lev)' /\ JobFits(W)' /\ DepthFits(W)'
  <2>1. \A k \in Len(handles) + 1..Len(W) : fate'[W[k]] = fate[W[k]]
    BY <1>0
  <2> QED
    BY <1>0, <1>1, <1>3, <1>4, <1>5, <2>1, ClientPipe
<1>7. Numbering' /\ Tower(W)'
  BY <1>0, <1>1, <1>3, TowerKept
<1>8. Books(W)'
  <2>1. \A op \in {"Commit", "Rollback"} : ~Ended(op) /\ ~Ended(op)'
    <3>1. job.live => call.op = job.op
      BY <1>3 DEF JobFits
    <3>2. ~job'.live
      <4>1. job \in JobSet
        BY <1>1 DEF WorkerType
      <4> QED
        BY <4>1 DEF JobSet, NoJob
    <3> QED
      BY <3>1, <3>2 DEF Ended
  <2> QED
    BY <1>0, <1>3, <2>1, BooksKept
<1>9. WorkerType'
  <2>1. job' \in JobSet
    <3>1. job \in JobSet
      BY <1>1 DEF WorkerType
    <3> QED
      BY <3>1, Unheard
  <2> QED
    BY <1>0, <1>1, <2>1 DEF WorkerType
<1>10. Known'
  BY <1>0, <1>1, KnownKept
<1>11. Running(W, lev)' /\ alive' /\ lev \in [0..Len(chan') -> Nat]
  BY <1>0, <1>6, <1>7, <1>8 DEF Running
<1> QED
  BY <1>7, <1>9, <1>10, <1>11, Assemble

\* A client that does not wait for an answer gets none.
LEMMA NotWaiting ==
    ASSUME WorkerInv, alive, call.stage # "reply" \/ call.op \in {"Lock", "BeginCheck"}
    PROVE  ~job.live /\ job = [job EXCEPT !.live = FALSE] /\ job \in JobSet
<1>1. PICK W \in Stacks, lev \in [0..Len(chan) -> Nat] : Running(W, lev)
  BY DEF WorkerInv
<1>2. ~job.live
  BY <1>1 DEF Running, JobFits
<1>3. job \in JobSet
  BY DEF WorkerInv, WorkerType
<1> QED
  BY <1>2, <1>3, Unheard

\* A call begins, or the connection is closed or dropped.
LEMMA CallStarts ==
    ASSUME WorkerInv, alive, call = NoCall,
           UNCHANGED <<chan, job, alive, mutex, session, depth, ignore, handles, begun, fate, parent, acked>>,
           call' # Sending("StartRollback"), call'.op # "BeginCheck", call' \in CallSet, CallFits'
    PROVE  WorkerInv'
<1>1. job' = [job EXCEPT !.live = FALSE]
  BY NotWaiting DEF NoCall
<1>2. chan' \in Seq(CommandSet) /\ mutex' \in {"worker", "client", "free"}
  BY DEF WorkerInv, WorkerType
<1>3. call # Sending("StartRollback") /\ call.op \notin {"BeginCheck", "Commit", "Rollback", "Shutdown"} /\ call.stage # "reply"
  BY DEF NoCall, Sending
<1> QED
  BY <1>1, <1>2, <1>3, ClientKept

\* A method is called.
LEMMA StartInv ==
    ASSUME WorkerInv, alive, NEW op \in Calls, Start(op)
    PROVE  WorkerInv'
<1>0. /\ call = NoCall /\ call' = Sending(op) /\ (op \in {"Begin", "BeginWith"} => begun < MaxTx)
      /\ (op \in {"Commit", "Rollback"} => handles # <<>>)
      /\ UNCHANGED <<chan, job, alive, mutex, session, depth, ignore, handles, begun, fate, parent, acked>>
  BY DEF Start, worker
<1>1. op \in AllCalls
  BY WorkerAssumption
<1>2. op \notin {"BeginCheck", "Shutdown", "closed", "StartRollback"}
  BY <1>1 DEF AllCalls
<1>3. /\ call' # Sending("StartRollback") /\ call'.op # "BeginCheck" /\ call' \in CallSet
      /\ call'.op = op
  BY <1>0, <1>1, <1>2 DEF Sending, CallSet
<1>4. CallFits'
  <2>1. mutex # "client"
    BY <1>0 DEF WorkerInv, CallFits, NoCall
  <2> QED
    BY <1>0, <1>2, <1>3, <2>1 DEF CallFits
<1> QED
  BY <1>0, <1>3, <1>4, CallStarts

\* Connection::close(), or the connection is dropped.
LEMMA CloseInv ==
    ASSUME WorkerInv, alive, Close \/ DropConnection
    PROVE  WorkerInv'
<1>0. /\ call = NoCall /\ handles = <<>> /\ call' \in {Closed, Sending("Shutdown")}
      /\ UNCHANGED <<chan, job, alive, mutex, session, depth, ignore, handles, begun, fate, parent, acked>>
  BY DEF Close, DropConnection, worker
<1>1. call' # Sending("StartRollback") /\ call'.op \in {"closed", "Shutdown"} /\ call' \in CallSet
  BY <1>0 DEF Sending, CallSet, Closed
<1>2. CallFits'
  <2>1. mutex # "client"
    BY <1>0 DEF WorkerInv, CallFits, NoCall
  <2> QED
    BY <1>0, <1>1, <2>1 DEF CallFits
<1> QED
  BY <1>0, <1>1, <1>2, CallStarts

\* The client gets the mutex.
LEMMA TakeLockInv ==
    ASSUME WorkerInv, alive, TakeLock
    PROVE  WorkerInv'
<1>0. /\ call.op \in {"Lock", "BeginCheck"} /\ mutex' = "client"
      /\ UNCHANGED <<chan, job, alive, session, depth, ignore, call, handles, begun, fate, parent, acked>>
  BY DEF TakeLock, client
<1> QED
  BY <1>0, MutexStep

\* The mutex goes to the thread if it waits for it.
LEMMA ReleaseFits ==
    ASSUME WorkerInv, alive, ReleaseMutex(job), call.op \in {"Lock", "BeginCheck"}
    PROVE  /\ mutex' \in {"worker", "free"} /\ ~job.live
           /\ job' = job \/ (job' = NoJob /\ ~job.ok /\ job.op = "queued")
           /\ job' = [job EXCEPT !.live = FALSE] \/ (job' = NoJob /\ ~job.ok)
<1>1. PICK W \in Stacks, lev \in [0..Len(chan) -> Nat] : Running(W, lev)
  BY DEF WorkerInv
<1>2. job.op = "queued" => ~job.ok
  BY <1>1 DEF Running, JobFits
<1>3. ~job.live /\ job = [job EXCEPT !.live = FALSE]
  BY NotWaiting
<1> QED
  BY <1>2, <1>3 DEF ReleaseMutex

\* The guard of lock_handle() is dropped.
LEMMA UnlockInv ==
    ASSUME WorkerInv, alive, Unlock
    PROVE  WorkerInv'
<1>0. /\ call.op = "Lock" /\ ReleaseMutex(job) /\ call' = NoCall /\ call.stage = "reply"
      /\ UNCHANGED <<chan, alive, session, depth, ignore, handles, begun, fate, parent, acked>>
  BY DEF Unlock
<1>1. mutex' \in {"worker", "free"} /\ (job' = [job EXCEPT !.live = FALSE] \/ (job' = NoJob /\ ~job.ok))
  BY <1>0, ReleaseFits
<1>2. call # Sending("StartRollback") /\ call' # Sending("StartRollback") /\ call'.op # "BeginCheck" /\ call' \in CallSet
  BY <1>0 DEF Sending, NoCall, CallSet
<1>3. CallFits'
  BY <1>0, <1>1 DEF CallFits, NoCall
<1>4. chan' \in Seq(CommandSet)
  BY <1>0 DEF WorkerInv, WorkerType
<1> QED
  BY <1>0, <1>1, <1>2, <1>3, <1>4, ClientKept

\* A BEGIN that failed.
LEMMA RefusedInv ==
    ASSUME WorkerInv, alive, call.stage = "reply", job.op = call.op, job.live, ~job.ok,
           job.op \in {"Begin", "BeginWith"}, job' = NoJob, call' = NoCall,
           UNCHANGED <<chan, alive, mutex, session, depth, ignore, handles, begun, fate, parent, acked>>
    PROVE  WorkerInv'
<1>1. call # Sending("StartRollback") /\ call' # Sending("StartRollback") /\ call'.op # "BeginCheck" /\ call' \in CallSet
  BY DEF Sending, NoCall, CallSet
<1>2. CallFits'
  BY DEF WorkerInv, CallFits, NoCall
<1>3. chan' \in Seq(CommandSet) /\ mutex' \in {"worker", "client", "free"}
  BY DEF WorkerInv, WorkerType
<1> QED
  BY <1>1, <1>2, <1>3, ClientKept

\* What the channel holds when a future is dropped: the same commands, and nobody waits.
LEMMA AbandonedFits ==
    ASSUME WorkerType
    PROVE  /\ Abandoned(chan) \in Seq(CommandSet) /\ Len(Abandoned(chan)) = Len(chan)
           /\ \A i \in 1..Len(chan) : /\ Abandoned(chan)[i].op = chan[i].op /\ Abandoned(chan)[i].tx = chan[i].tx
                                      /\ Abandoned(chan)[i].live = FALSE
<1> PICK c, L, A : c = chan /\ L = Len(chan) /\ A = Abandoned(chan)
  OBVIOUS
<1>1. c \in Seq(CommandSet) /\ L \in Nat /\ DOMAIN c = 1..L
  BY DEF WorkerType
<1>2. A = [i \in 1..L |-> [c[i] EXCEPT !.live = FALSE]]
  BY <1>1 DEF Abandoned
<1>3. ASSUME NEW x \in CommandSet
      PROVE  LET y == [x EXCEPT !.live = FALSE] IN y \in CommandSet /\ y.op = x.op /\ y.tx = x.tx /\ y.live = FALSE
  BY DEF CommandSet
<1>4. \A i \in 1..L : c[i] \in CommandSet
  BY <1>1
<1>5. ASSUME NEW i \in 1..L
      PROVE  A[i] \in CommandSet /\ A[i].op = c[i].op /\ A[i].tx = c[i].tx /\ A[i].live = FALSE
  <2> PICK x, y : x = c[i] /\ y = [x EXCEPT !.live = FALSE]
    OBVIOUS
  <2>1. x \in CommandSet /\ A[i] = y
    BY <1>2, <1>4
  <2>2. y \in CommandSet /\ y.op = x.op /\ y.tx = x.tx /\ y.live = FALSE
    BY <2>1, <1>3
  <2> QED
    BY <2>1, <2>2
<1>6. A \in Seq(CommandSet) /\ Len(A) = L
  <2>1. A \in [1..L -> CommandSet]
    <3>1. DOMAIN A = 1..L /\ A = [i \in 1..L |-> A[i]]
      BY <1>2
    <3> QED
      BY <3>1, <1>5
  <2>2. A \in Seq(CommandSet)
    BY <1>1, <2>1
  <2>3. DOMAIN A = 1..L
    BY <2>1
  <2> QED
    BY <1>1, <2>2, <2>3
<1> QED
  BY <1>5, <1>6

\* The future of a call is dropped.
LEMMA CancelFits ==
    ASSUME Settled, WorkerInv, alive, Cancel
    PROVE  /\ call.op \in AllCalls /\ mutex' \in {"worker", "free"}
           /\ job' = [job EXCEPT !.live = FALSE] \/ (job' = NoJob /\ ~job.ok /\ call.op \notin {"Commit", "Rollback"})
<1>1. call.op \in AllCalls
  <2>1. MayCancel \subseteq Calls \cup {"BeginCheck"} /\ Calls \subseteq AllCalls
    BY WorkerAssumption
  <2> QED
    BY <2>1 DEF Cancel, Settled
<1>2. CASE mutex = "client"
  <2>1. ReleaseMutex(job)
    BY <1>2 DEF Cancel
  <2>2. call.op \in {"Lock", "BeginCheck"}
    BY <1>2 DEF WorkerInv, CallFits
  <2> QED
    BY <1>1, <2>1, <2>2, ReleaseFits
<1>3. CASE mutex # "client"
  <2>1. job' = [job EXCEPT !.live = FALSE] /\ mutex' = mutex
    BY <1>3 DEF Cancel
  <2>2. mutex \in {"worker", "client", "free"}
    BY DEF WorkerInv, WorkerType
  <2> QED
    BY <1>1, <1>3, <2>1, <2>2
<1> QED
  BY <1>2, <1>3

\* The future of a call is dropped that is no commit() and no rollback().
LEMMA CancelCallInv ==
    ASSUME Settled, WorkerInv, alive, Cancel, call.op \notin {"Commit", "Rollback"}
    PROVE  WorkerInv'
<1>0. /\ chan' = Abandoned(chan) /\ call' = NoCall
      /\ UNCHANGED <<alive, session, depth, ignore, handles, begun, fate, parent, acked>>
  BY DEF Cancel
<1>1. /\ call.op \in AllCalls /\ mutex' \in {"worker", "free"}
      /\ job' = [job EXCEPT !.live = FALSE] \/ (job' = NoJob /\ ~job.ok)
  BY CancelFits
<1>2. /\ call # Sending("StartRollback") /\ call' # Sending("StartRollback") /\ call'.op # "BeginCheck" /\ call' \in CallSet
      /\ call.op \notin {"BeginCheck", "Commit", "Rollback", "Shutdown"}
  BY <1>0, <1>1 DEF Sending, NoCall, CallSet, AllCalls
<1>3. CallFits'
  BY <1>0, <1>1 DEF CallFits, NoCall
<1>4. /\ chan' \in Seq(CommandSet) /\ Len(chan') = Len(chan)
      /\ \A i \in 1..Len(chan) : /\ chan'[i].op = chan[i].op /\ chan'[i].tx = chan[i].tx
                                 /\ ~chan'[i].live
  BY <1>0, AbandonedFits DEF WorkerInv
<1> QED
  BY <1>0, <1>1, <1>2, <1>3, <1>4, ClientKept

\* The parts of a call.
LEMMA CallParts ==
    ASSUME WorkerType
    PROVE  \/ call = NoCall \/ call = Closed
           \/ /\ call = [op |-> call.op, stage |-> call.stage] /\ call.stage \in {"send", "reply"}
              /\ call.op \in AllCalls \cup {"BeginCheck", "StartRollback", "Shutdown"}
  BY DEF WorkerType, CallSet

\* The command enters the channel.
LEMMA SendInv ==
    ASSUME WorkerInv, Send
    PROVE  WorkerInv'
<1> PICK L, c, K, sr : /\ L = Len(chan) /\ c = [op |-> call.op, live |-> call.op # "StartRollback", tx |-> Top]
                       /\ K = L + 1 /\ sr = Sending("StartRollback")
  OBVIOUS
<1>0. /\ alive /\ call.stage = "send" /\ L < ChannelSize /\ chan' = Append(chan, c)
      /\ call' = IF call.op = "StartRollback" THEN NoCall ELSE [call EXCEPT !.stage = "reply"]
      /\ UNCHANGED <<job, alive, mutex, session, depth, ignore, handles, begun, fate, parent, acked>>
  BY DEF Send
<1>1. WorkerType /\ Numbering /\ CallFits /\ Known
  BY DEF WorkerInv
<1>2. PICK W \in Stacks, lev \in [0..Len(chan) -> Nat] : Running(W, lev)
  BY <1>0 DEF WorkerInv
<1>3. Tower(W) /\ Levels(W, lev) /\ (\A i \in 1..L : CommandFits(W, lev, i)) /\ JobFits(W) /\ DepthFits(W) /\ Books(W)
  BY <1>2 DEF Running, Pipe
<1>4. /\ L \in Nat /\ Len(handles) \in Nat /\ ChannelSize \in Nat /\ K \in Nat /\ Len(W) \in Nat
      /\ chan \in Seq(CommandSet)
  <2>1. ChannelSize \in Nat
    BY WorkerAssumption
  <2> QED
    BY <1>1, <2>1, Parts, StackParts DEF WorkerType
<1>5. /\ call.op \in AllCalls \cup {"BeginCheck", "StartRollback", "Shutdown"} /\ call = [op |-> call.op, stage |-> "send"]
      /\ call.op = "StartRollback" <=> call = sr
  BY <1>0, <1>1, CallParts DEF NoCall, Closed, Sending
<1>6. /\ call.op = "StartRollback" => call' = NoCall
      /\ call.op # "StartRollback" => call' = [op |-> call.op, stage |-> "reply"]
  <2>1. call.op # "StartRollback" => call' = [call EXCEPT !.stage = "reply"]
    BY <1>0
  <2> QED
    BY <1>0, <1>5, <2>1
<1>7. /\ call' # sr /\ (call'.op = "BeginCheck" <=> call.op = "BeginCheck") /\ call' \in CallSet
      /\ call'.op = call.op \/ call'.op = "none"
  BY <1>5, <1>6 DEF NoCall, Sending, CallSet
<1>8. Top = TopAt(W, Len(handles)) /\ Top \in Writers
  <2>1. CASE handles = <<>>
    <3>1. Len(handles) = 0
      BY <2>1
    <3> QED
      BY <2>1, <3>1, <1>4 DEF Top, TopAt, Writers
  <2>2. CASE handles # <<>>
    <3>1. Len(handles) # 0 /\ Len(handles) \in 1..Len(handles)
      BY <2>2, <1>1, <1>4 DEF WorkerType
    <3>2. handles[Len(handles)] = W[Len(handles)] /\ handles[Len(handles)] \in Tx
      BY <1>1, <1>3, <3>1, Parts DEF Tower, OpenBelow
    <3> QED
      BY <2>2, <3>1, <3>2 DEF Top, TopAt, Writers
  <2> QED
    BY <2>1, <2>2
<1>9. c \in CommandSet /\ c.op = call.op /\ (c.live <=> call.op # "StartRollback") /\ c.tx = Top
  BY <1>5, <1>8 DEF CommandSet
<1>10. /\ chan' \in Seq(CommandSet) /\ Len(chan') = K /\ Len(chan') <= ChannelSize
       /\ chan'[K] = c /\ (\A i \in 1..L : chan'[i] = chan[i]) /\ \A i : i \in 1..K <=> i \in 1..L \/ i = K
  BY <1>0, <1>4, <1>9
<1>11. ~job.live
  BY <1>0, <1>3 DEF JobFits
<1> PICK m : m = [i \in 0..K |-> IF i <= L THEN lev[i] ELSE Len(handles)]
  OBVIOUS
<1>12. /\ lev \in [0..L -> Nat] /\ lev[0] = Len(W)
       /\ \A i \in 1..L : lev[i - 1] = lev[i] + One(chan[i].op = "StartRollback")
       /\ \A i, j \in 0..L : i <= j => lev[j] <= lev[i]
       /\ lev[L] = Len(handles) + One(call = sr)
  BY <1>3 DEF Levels
<1>13. /\ m \in [0..K -> Nat] /\ (\A i \in 0..L : m[i] = lev[i]) /\ m[K] = Len(handles)
       /\ \A i : i \in 0..K <=> i \in 0..L \/ i = K
  <2>1. \A i : i \in 0..K <=> i \in 0..L \/ i = K
    BY <1>4
  <2>2. \A i \in 0..L : i <= L /\ lev[i] \in Nat
    BY <1>4, <1>12
  <2>3. ~(K <= L)
    BY <1>4
  <2> QED
    BY <1>4, <2>1, <2>2, <2>3
<1>14. m[L] = m[K] + One(c.op = "StartRollback") /\ m[K] <= m[L]
  BY <1>4, <1>5, <1>9, <1>12, <1>13 DEF One
<1>15. Levels(W, m)'
  <2>1. \A i \in 1..K : m[i - 1] = m[i] + One(chan'[i].op = "StartRollback")
    <3>1. ASSUME NEW i \in 1..L PROVE m[i - 1] = m[i] + One(chan'[i].op = "StartRollback")
      <4>1. i - 1 \in 0..L /\ i \in 0..L
        BY <1>4
      <4> QED
        BY <4>1, <1>10, <1>12, <1>13
    <3>2. K - 1 = L
      BY <1>4
    <3> QED
      BY <3>1, <3>2, <1>10, <1>14
  <2>2. \A i, j \in 0..K : i <= j => m[j] <= m[i]
    <3>1. \A i, j \in 0..L : i <= j => m[j] <= m[i]
      BY <1>12, <1>13
    <3>2. L \in 0..L /\ (\A i \in 0..L : m[i] \in Nat /\ i <= L /\ ~(K <= i)) /\ m[K] \in Nat
      BY <1>4, <1>12, <1>13
    <3>3. \A i \in 0..L : m[K] <= m[i]
      <4> TAKE i \in 0..L
      <4>1. m[L] <= m[i] /\ m[L] \in Nat /\ m[i] \in Nat
        BY <3>1, <3>2
      <4> QED
        BY <4>1, <1>14, <3>2
    <3> SUFFICES ASSUME NEW i \in 0..K, NEW j \in 0..K, i <= j PROVE m[j] <= m[i]
      OBVIOUS
    <3>4. (i \in 0..L \/ i = K) /\ (j \in 0..L \/ j = K)
      BY <1>13
    <3>5. CASE i \in 0..L /\ j \in 0..L
      BY <3>1, <3>5
    <3>6. CASE i \in 0..L /\ j = K
      BY <3>3, <3>6
    <3>7. CASE i = K
      <4>1. j = K
        BY <3>2, <3>4, <3>7
      <4> QED
        BY <3>2, <3>7, <4>1
    <3> QED
      BY <3>4, <3>5, <3>6, <3>7
  <2>3. m[0] = Len(W) /\ m[Len(chan')] = Len(handles') + One(call' = Sending("StartRollback"))
    BY <1>0, <1>4, <1>7, <1>10, <1>12, <1>13 DEF One
  <2> QED
    BY <1>10, <1>13, <2>1, <2>2, <2>3 DEF Levels
<1>16. \A i \in 0..L : RollbackComes(i) => RollbackComes(i)'
  <2> SUFFICES ASSUME NEW i \in 0..L, RollbackComes(i) PROVE RollbackComes(i)'
    OBVIOUS
  <2>1. i < K
    BY <1>4
  <2>2. CASE i < L
    <3>1. i + 1 \in 1..L /\ chan[i + 1].op = "StartRollback"
      BY <2>2, <1>4 DEF RollbackComes
    <3> QED
      BY <3>1, <2>1, <1>10 DEF RollbackComes
  <2>3. CASE ~(i < L)
    <3>1. i = L /\ i + 1 = K /\ call = sr
      BY <2>3, <1>4 DEF RollbackComes
    <3> QED
      BY <3>1, <2>1, <1>5, <1>9, <1>10 DEF RollbackComes
  <2> QED
    BY <2>2, <2>3
<1>17. \A i \in 1..K : CommandFits(W, m, i)'
  <2>1. ASSUME NEW i \in 1..L PROVE CommandFits(W, m, i)'
    <3>1. CommandFits(W, lev, i) /\ chan'[i] = chan[i] /\ m[i] = lev[i] /\ i \in 0..L
      BY <1>3, <1>4, <1>10, <1>13
    <3>2. ~(chan[i].live /\ chan[i].op \notin {"Lock", "BeginCheck"})
      BY <3>1, <1>0 DEF CommandFits
    <3> QED
      BY <3>1, <3>2, <1>0, <1>7, <1>16 DEF CommandFits
  <2>2. CommandFits(W, m, K)'
    <3>1. c.live => call' = [op |-> c.op, stage |-> "reply"]
      BY <1>6, <1>9
    <3>2. c.op = "BeginCheck" <=> call.op = "BeginCheck"
      BY <1>9
    <3>3. chan'[K] = c /\ Len(chan') = K /\ m[K] = Len(handles) /\ ~job'.live
      BY <1>0, <1>10, <1>11, <1>13
    <3> QED
      BY <3>1, <3>2, <3>3, <1>7, <1>8, <1>9 DEF CommandFits
  <2> QED
    BY <1>10, <2>1, <2>2
<1>18. Pipe(W, m)'
  BY <1>10, <1>15, <1>17 DEF Pipe
<1>19. JobFits(W)' /\ DepthFits(W)'
  <2>1. RollbackComes(0) => RollbackComes(0)'
    BY <1>4, <1>16
  <2>2. JobFits(W)'
    BY <1>0, <1>3, <1>7, <1>11, <2>1 DEF JobFits
  <2>3. DepthFits(W)'
    BY <1>0, <1>3, <1>7 DEF DepthFits
  <2> QED
    BY <2>2, <2>3
<1>20. Numbering' /\ Tower(W)'
  BY <1>0, <1>1, <1>3, TowerKept
<1>21. Books(W)'
  <2>1. \A op \in {"Commit", "Rollback"} : Ended(op)' <=> Ended(op)
    BY <1>0 DEF Ended
  <2> QED
    BY <1>0, <1>3, <2>1, BooksKept
<1>22. WorkerType'
  BY <1>0, <1>1, <1>7, <1>10 DEF WorkerType
<1>23. CallFits'
  BY <1>0, <1>1, <1>6, <1>7 DEF CallFits, NoCall
<1>24. Known'
  BY <1>0, <1>1, KnownKept
<1>25. Running(W, m)' /\ alive' /\ m \in [0..Len(chan') -> Nat]
  BY <1>0, <1>10, <1>13, <1>18, <1>19, <1>20, <1>21 DEF Running
<1> QED
  BY <1>20, <1>22, <1>23, <1>24, <1>25, Assemble

-----------------------------------------------------------------------------
(* A transaction ends for the client.                                      *)

\* What the transaction that ends owned is done, if it is committed or may be.
LEMMA EndOwned ==
    ASSUME UNCHANGED <<begun, parent>>, NEW x \in Tx, NEW f, fate \in [Tx -> Fates], fate[x] = "open",
           fate' = [fate EXCEPT ![x] = f], NEW W, NEW V, NEW X, NEW k, NEW n, OnlyFrom(W, X, k),
           \A l \in 1..k : (W[l] = x /\ f \in {"committed", "unknown"}) \/ (l \in 1..n /\ V[l] = W[l])
    PROVE  OnlyFrom(V, X, n)'
<1>1. /\ \A i : Enclosing(i)' = Enclosing(i)
      /\ begun' = begun
  BY Zenon DEF Enclosing
<1>2. \A j \in Tx : fate'[j] = IF j = x THEN f ELSE fate[j]
  OBVIOUS
<1>3. ASSUME NEW i \in X \ {Outside}, NEW j \in Enclosing(i)
      PROVE  (\E h \in 1..n : V[h] = j) \/ fate'[j] \in {"committed", "unknown"}
  <2>1. j \in Tx
    BY <1>3 DEF Enclosing
  <2>2. (\E l \in 1..k : W[l] = j) \/ fate[j] \in {"committed", "unknown"}
    BY <1>3 DEF OnlyFrom
  <2>3. CASE fate[j] \in {"committed", "unknown"}
    BY <1>2, <2>1, <2>3
  <2>4. CASE \E l \in 1..k : W[l] = j
    <3>1. PICK l \in 1..k : W[l] = j
      BY <2>4
    <3> QED
      BY <1>2, <2>1, <3>1
  <2> QED
    BY <2>2, <2>3, <2>4
<1>4. \A i \in X \ {Outside} : i <= begun
  BY DEF OnlyFrom
<1> QED
  BY <1>1, <1>3, <1>4, Zenon DEF OnlyFrom

\* What was written in a transaction that is given up need not be kept.
LEMMA EndKept ==
    ASSUME UNCHANGED <<parent, acked>>, NEW x \in Tx, NEW f \in {"aborted", "unknown"}, fate \in [Tx -> Fates],
           fate' = [fate EXCEPT ![x] = f], NEW W, NEW V, NEW X, NEW k, NEW n, Keeps(W, X, k), fate[x] = "open",
           \A l \in k..Len(W) : W[l] = x \/ (l \in n..Len(V) /\ V[l] = W[l])
    PROVE  Keeps(V, X, n)'
<1>1. \A i : Enclosing(i)' = Enclosing(i)
  BY Zenon DEF Enclosing
<1>2. \A j \in Tx : fate'[j] = IF j = x THEN f ELSE fate[j]
  OBVIOUS
<1> SUFFICES ASSUME NEW i \in acked \ {Outside},
                    \A j \in Enclosing(i) : fate'[j] \in {"committed", "open"} /\ \A l \in n..Len(V) : V[l] # j
             PROVE  i \in X
  BY <1>1 DEF Keeps
<1>3. ASSUME NEW j \in Enclosing(i) PROVE fate[j] \in {"committed", "open"} /\ \A l \in k..Len(W) : W[l] # j
  <2>1. j \in Tx
    BY <1>3 DEF Enclosing
  <2>2. fate'[j] \in {"committed", "open"}
    OBVIOUS
  <2>3. j # x /\ fate[j] = fate'[j]
    BY <1>2, <2>1, <2>2
  <2>4. \A h \in n..Len(V) : V[h] # j
    OBVIOUS
  <2> QED
    BY <2>2, <2>3, <2>4
<1> QED
  BY <1>3 DEF Keeps

\* The innermost transaction ends for the client.
LEMMA PopParts ==
    ASSUME WorkerType, Numbering, Nested(handles), handles # <<>>, handles' = Popped,
           NEW f \in Fates \ {"open", "new"}, fate' = [fate EXCEPT ![Top] = f], UNCHANGED <<begun, parent>>
    PROVE  /\ Numbering' /\ handles' \in Seq(Tx) /\ Len(handles') = Len(handles) - 1
           /\ \A k \in 1..Len(handles') : handles'[k] = handles[k]
           /\ Len(handles) \in 1..Len(handles)
           /\ Top \in Tx /\ Top = handles[Len(handles)] /\ Top <= begun /\ fate[Top] = "open"
           /\ fate' \in [Tx -> Fates] /\ \A x \in Tx : fate'[x] = IF x = Top THEN f ELSE fate[x]
<1> PICK h, L, g, n, t : h = handles /\ L = Len(handles) /\ g = handles' /\ n = Len(handles) - 1 /\ t = Top
  OBVIOUS
<1>0. h \in Seq(Tx) /\ L \in Nat /\ L # 0 /\ n \in Nat /\ n < L /\ L = n + 1 /\ L \in 1..L
  BY Parts DEF WorkerType
<1>1. g \in Seq(Tx) /\ Len(g) = n /\ \A k \in 1..n : g[k] = h[k]
  BY <1>0 DEF Popped
<1>2. t = h[L] /\ t \in Tx /\ t <= begun
  BY <1>0 DEF Top, Nested
<1>3. fate[t] = "open"
  BY <1>0, <1>2 DEF Numbering
<1>4. fate' \in [Tx -> Fates] /\ \A x \in Tx : fate'[x] = IF x = t THEN f ELSE fate[x]
  <2>1. fate \in [Tx -> Fates]
    BY DEF WorkerType
  <2> QED
    BY <1>2, <2>1
<1>5. \A k \in 1..n : k \in 1..L /\ h[k] < h[L] /\ h[k] # t
  <2>1. \A k \in 1..n : k \in 1..L /\ k < L
    BY <1>0
  <2>2. \A k \in 1..n : h[k] < h[L] /\ h[k] \in Nat /\ h[L] \in Nat
    BY <1>0, <2>1, Parts, TxNumbers DEF Nested
  <2> QED
    BY <1>2, <2>1, <2>2
<1>6. Numbering'
  <2> SUFFICES ASSUME NEW x \in Tx
               PROVE  /\ x > begun => fate'[x] = "new" /\ parent[x] = Outside
                      /\ x <= begun => parent[x] < x
                      /\ fate'[x] = "open" <=> \E k \in 1..n : g[k] = x
    BY <1>1 DEF Numbering
  <2>1. /\ x > begun => fate[x] = "new" /\ parent[x] = Outside
        /\ x <= begun => parent[x] < x
        /\ fate[x] = "open" <=> \E k \in 1..L : h[k] = x
    BY DEF Numbering
  <2>2. CASE x = t
    BY <2>1, <2>2, <1>1, <1>2, <1>3, <1>4, <1>5
  <2>3. CASE x # t
    <3>1. fate'[x] = fate[x]
      BY <1>4, <2>3
    <3>2. (\E k \in 1..L : h[k] = x) <=> \E k \in 1..n : g[k] = x
      <4>1. \A k \in 1..L : k \in 1..n \/ k = L
        BY <1>0
      <4> QED
        BY <4>1, <1>1, <1>2, <1>5, <2>3
    <3> QED
      BY <2>1, <3>1, <3>2
  <2> QED
    BY <2>2, <2>3
<1> QED
  BY <1>0, <1>1, <1>2, <1>3, <1>4, <1>6

\* The books when a transaction is given up whose rollback is still to come.
LEMMA BooksGivenUp ==
    ASSUME WorkerType, NEW W \in Stacks, Books(W), NEW x \in Tx, NEW f \in {"aborted", "unknown"}, fate[x] = "open",
           fate' = [fate EXCEPT ![x] = f], UNCHANGED <<session, depth, begun, parent, acked>>,
           ~Ended("Commit")', ~Ended("Rollback")',
           Ended("Commit") => f = "unknown" /\ Len(W) > 0 /\ W[Len(W)] = x /\ depth = Len(W) - 1,
           Ended("Rollback") => W[Len(W)] = x
    PROVE  Books(W)'
<1> PICK s, d, L : s = session /\ d = depth /\ L = Len(W)
  OBVIOUS
<1>0. d \in Nat /\ L \in Nat /\ fate \in [Tx -> Fates] /\ session' = s /\ depth' = d
  BY StackParts DEF WorkerType
<1>1. ASSUME NEW X, NEW k, OnlyFrom(W, X, k) PROVE OnlyFrom(W, X, k)'
  BY <1>0, <1>1, EndOwned
<1>2. ASSUME NEW X, NEW k, Keeps(W, X, k) PROVE Keeps(W, X, k)'
  BY <1>0, <1>2, EndKept
<1>3. DataOwned(W)'
  <2> PICK n : n = IF d > L THEN L ELSE d
    OBVIOUS
  <2>1. OnlyFrom(W, s.data, n)'
    <3>1. CASE Ended("Commit")
      <4> PICK X : X = s.data
        OBVIOUS
      <4>1. OnlyFrom(W, X, L) /\ n = L - 1
        BY <1>0, <3>1 DEF Books, DataOwned
      <4>2. \A l \in 1..L : (W[l] = x /\ f \in {"committed", "unknown"}) \/ (l \in 1..n /\ W[l] = W[l])
        <5>1. \A l \in 1..L : l = L \/ l \in 1..n
          BY <1>0, <4>1
        <5> QED
          BY <5>1, <3>1
      <4>3. UNCHANGED <<begun, parent>> /\ fate[x] = "open" /\ fate' = [fate EXCEPT ![x] = f] /\ x \in Tx
        OBVIOUS
      <4>4. OnlyFrom(W, X, n)'
        BY ONLY <1>0, <4>1, <4>2, <4>3, EndOwned
      <4> QED
        BY <4>4
    <3>2. CASE ~Ended("Commit")
      <4>1. OnlyFrom(W, s.data, n)
        BY <3>2 DEF Books, DataOwned
      <4> QED
        BY <4>1, <1>1
    <3> QED
      BY <3>1, <3>2
  <2>2. OnlyFrom(W, s.durable, 0)'
    <3> PICK X, z : X = s.durable /\ z = 0
      OBVIOUS
    <3>1. CASE Ended("Commit") /\ d = 0
      <4>1. OnlyFrom(W, X, 1)
        BY <3>1 DEF Books, DataOwned, One
      <4>2. W[1] = x /\ f = "unknown"
        <5>1. L = 1
          BY <1>0, <3>1
        <5> QED
          BY <3>1, <5>1
      <4>3. \A l \in 1..1 : l = 1
        OBVIOUS
      <4>4. OnlyFrom(W, X, z)'
        BY <1>0, <4>1, <4>2, <4>3, EndOwned
      <4> QED
        BY <4>4
    <3>2. CASE ~(Ended("Commit") /\ d = 0)
      <4>1. OnlyFrom(W, X, z)
        BY <3>2 DEF Books, DataOwned, One
      <4>2. OnlyFrom(W, X, z)'
        BY <4>1, <1>1
      <4> QED
        BY <4>2
    <3> QED
      BY <3>1, <3>2
  <2>3. ASSUME NEW k \in 1..d PROVE OnlyFrom(W, Snap(s, k), k - 1)'
    <3> PICK X, n1 : X = Snap(s, k) /\ n1 = k - 1
      OBVIOUS
    <3>1. OnlyFrom(W, X, n1)
      BY DEF Books, DataOwned
    <3>2. OnlyFrom(W, X, n1)'
      BY <3>1, <1>1
    <3> QED
      BY <3>2
  <2> QED
    BY <1>0, <2>1, <2>2, <2>3 DEF DataOwned, One
<1>4. DataKept(W)'
  <2>1. Keeps(W, s.data, L + 1)'
    <3> PICK X, n, k : X = s.data /\ n = L + 1 /\ k = IF Ended("Rollback") THEN L ELSE L + 1
      OBVIOUS
    <3>1. Keeps(W, X, k)
      BY DEF Books, DataKept
    <3>2. \A l \in k..L : W[l] = x
      <4>1. CASE Ended("Rollback")
        <5>1. k = L /\ \A l \in L..L : l = L
          BY <4>1, <1>0
        <5> QED
          BY <4>1, <5>1
      <4>2. CASE ~Ended("Rollback")
        BY <4>2, <1>0
      <4> QED
        BY <4>1, <4>2
    <3>3. Keeps(W, X, n)'
      BY <1>0, <3>1, <3>2, EndKept
    <3> QED
      BY <3>3
  <2>2. Keeps(W, s.durable, 1)' /\ \A k \in 1..d : Keeps(W, Snap(s, k), k)'
    <3>1. Keeps(W, s.durable, 1) /\ \A k \in 1..d : Keeps(W, Snap(s, k), k)
      BY DEF Books, DataKept
    <3> QED
      BY <3>1, <1>2
  <2> QED
    BY <1>0, <2>1, <2>2 DEF DataKept
<1>5. FramesFit(s.frames, d) /\ SnapsFit(s)
  BY DEF Books
<1> QED
  BY <1>0, <1>3, <1>4, <1>5 DEF Books

\* The open transactions are nested.
LEMMA HandlesNested ==
    ASSUME WorkerType, NEW W \in Stacks, Tower(W)
    PROVE  Nested(handles)
<1>0. Len(handles) \in Nat /\ Len(W) \in Nat /\ Len(handles) <= Len(W)
  BY Parts, StackParts DEF Tower, OpenBelow
<1>1. \A k \in 1..Len(handles) : k \in 1..Len(W) /\ (k # 1 => k - 1 \in 1..Len(handles)) /\ handles[k] = W[k]
  BY <1>0 DEF Tower, OpenBelow
<1> SUFFICES ASSUME NEW k \in 1..Len(handles)
             PROVE  /\ handles[k] <= begun /\ parent[handles[k]] = IF k = 1 THEN Outside ELSE handles[k - 1]
                    /\ \A l \in 1..Len(handles) : k < l => handles[k] < handles[l]
  BY DEF Nested
<1>2. /\ W[k] <= begun /\ parent[W[k]] = IF k = 1 THEN Outside ELSE W[k - 1]
      /\ \A l \in 1..Len(W) : k < l => W[k] < W[l]
  BY <1>1 DEF Tower, Nested
<1> QED
  BY <1>1, <1>2

\* A Transaction goes out of scope, or commit() or rollback() is cancelled or fails.
LEMMA GivenUpInv ==
    ASSUME WorkerInv, alive, handles # <<>>, call' = Sending("StartRollback"), handles' = Popped,
           NEW f \in {"aborted", "unknown"}, fate' = [fate EXCEPT ![Top] = f],
           UNCHANGED <<alive, session, depth, ignore, begun, parent, acked>>,
           call = NoCall \/ call.op \in {"Commit", "Rollback"},
           chan' \in Seq(CommandSet), Len(chan') = Len(chan),
           \A i \in 1..Len(chan) : /\ chan'[i].op = chan[i].op /\ chan'[i].tx = chan[i].tx
                                   /\ chan'[i].live => chan[i].live /\ (call = NoCall \/ job.live),
           mutex' \in {"worker", "free"},
           job' = [job EXCEPT !.live = FALSE] \/ (job' = NoJob /\ ~job.ok /\ job.live),
           call.op = "Commit" => f = "unknown" \/ (job.live /\ job' = NoJob)
    PROVE  WorkerInv'
<1>0. /\ alive' = alive /\ session' = session /\ depth' = depth /\ ignore' = ignore
      /\ begun' = begun /\ parent' = parent /\ acked' = acked
  OBVIOUS
<1>1. WorkerType /\ Numbering /\ CallFits /\ Known
  BY DEF WorkerInv
<1>2. PICK W \in Stacks, lev \in [0..Len(chan) -> Nat] : Running(W, lev)
  BY DEF WorkerInv
<1>3. Tower(W) /\ Pipe(W, lev) /\ JobFits(W) /\ DepthFits(W) /\ Books(W)
  BY <1>2 DEF Running
<1>4. call # Sending("StartRollback") /\ call.op \notin {"BeginCheck", "Shutdown"} /\ call'.op = "StartRollback" /\ call' \in CallSet
  BY DEF NoCall, Sending, CallSet
<1>5. /\ Numbering' /\ handles' \in Seq(Tx) /\ Len(handles') = Len(handles) - 1
      /\ \A k \in 1..Len(handles') : handles'[k] = handles[k]
      /\ Len(handles) \in 1..Len(handles)
      /\ Top \in Tx /\ Top = handles[Len(handles)] /\ Top <= begun /\ fate[Top] = "open"
      /\ fate' \in [Tx -> Fates] /\ \A x \in Tx : fate'[x] = IF x = Top THEN f ELSE fate[x]
  <2>1. f \in Fates \ {"open", "new"}
    BY DEF Fates
  <2>2. Nested(handles)
    BY <1>1, <1>3, HandlesNested
  <2> QED
    BY <1>0, <1>1, <2>1, <2>2, PopParts
<1> PICK x, n : x = Top /\ n = Len(handles)
  OBVIOUS
<1>6. /\ n \in Nat /\ Len(W) \in Nat /\ n \in 1..Len(W) /\ W[n] = x /\ x \in Tx
      /\ \A k \in n + 1..Len(W) : W[k] \in Tx /\ W[k] # x
  <2>1. n \in Nat /\ Len(W) \in Nat /\ n \in 1..Len(W) /\ W[n] = x
    BY <1>3, <1>5, StackParts DEF Tower, OpenBelow
  <2>2. \A k \in n + 1..Len(W) : k \in 1..Len(W) /\ n < k
    BY <2>1
  <2>3. \A k \in n + 1..Len(W) : W[k] \in Tx /\ W[k] \in Nat /\ W[n] \in Nat /\ W[n] < W[k]
    BY <1>3, <2>1, <2>2, StackParts DEF Tower, Nested
  <2> QED
    BY <1>5, <2>1, <2>3
<1>7. \A i \in 1..Len(chan) : /\ chan'[i].op = chan[i].op /\ chan'[i].tx = chan[i].tx /\ chan[i].op # "Shutdown"
                              /\ chan'[i].live => chan[i].op \in {"Lock", "BeginCheck"}
  <2> SUFFICES ASSUME NEW i \in 1..Len(chan)
               PROVE  chan[i].op # "Shutdown" /\ (chan'[i].live => chan[i].op \in {"Lock", "BeginCheck"})
    OBVIOUS
  <2>1. chan[i].live /\ chan[i].op \notin {"Lock", "BeginCheck"} =>
           call = [op |-> chan[i].op, stage |-> "reply"] /\ ~job.live
    BY <1>3 DEF Pipe, CommandFits
  <2>2. chan[i].op = "Shutdown" => chan[i].live
    BY <1>3 DEF Pipe, CommandFits
  <2>3. chan'[i].live => chan[i].live /\ (call.stage = "none" \/ job.live)
    BY DEF NoCall
  <2>4. chan[i].op # "Shutdown"
    BY <1>4, <2>1, <2>2
  <2> QED
    BY <2>1, <2>3, <2>4
<1>8. Pipe(W, lev)' /\ JobFits(W)' /\ DepthFits(W)'
  <2>1. Len(handles') + One(call' = Sending("StartRollback")) = Len(handles)
    BY <1>5, <1>6 DEF One
  <2>2. \A k \in Len(handles) + 1..Len(W) : fate'[W[k]] = fate[W[k]]
    BY <1>5, <1>6
  <2>3. fate'[W[Len(handles)]] = f
    BY <1>5, <1>6
  <2> QED
    BY <1>0, <1>1, <1>3, <1>4, <1>7, <2>1, <2>2, <2>3, ClientPipe
<1>9. Tower(W)'
  <2>1. Nested(W)'
    BY <1>0, <1>3 DEF Tower, Nested
  <2>2. OpenBelow(W)'
    <3>1. Len(handles') <= Len(W) /\ Len(handles') + 1 = n
      BY <1>5, <1>6
    <3>2. \A k \in 1..Len(handles') : handles'[k] = W[k]
      <4>1. \A k \in 1..Len(handles') : k \in 1..Len(handles)
        BY <1>5, <1>6
      <4> QED
        BY <1>3, <1>5, <4>1 DEF Tower, OpenBelow
    <3>3. \A k \in n..Len(W) : fate'[W[k]] \in {"aborted", "unknown"}
      <4>1. \A k \in n..Len(W) : k = n \/ k \in n + 1..Len(W)
        BY <1>6
      <4>2. \A k \in n + 1..Len(W) : fate'[W[k]] = fate[W[k]] /\ fate[W[k]] \in {"aborted", "unknown"}
        BY <1>3, <1>5, <1>6 DEF Tower, OpenBelow
      <4>3. fate'[W[n]] = f
        BY <1>5, <1>6
      <4> QED
        BY <4>1, <4>2, <4>3
    <3> QED
      BY <3>1, <3>2, <3>3 DEF OpenBelow
  <2> QED
    BY <2>1, <2>2 DEF Tower
<1>10. job \in JobSet /\ job' \in JobSet /\ ~job'.live /\ (job.live => job' = NoJob \/ job'.ok = job.ok)
  <2>1. job \in JobSet
    BY <1>1 DEF WorkerType
  <2>2. job' = [job EXCEPT !.live = FALSE] => job' \in JobSet /\ ~job'.live /\ job'.ok = job.ok
    BY <2>1, Unheard
  <2>3. NoJob \in JobSet /\ ~NoJob.live
    BY DEF NoJob, JobSet
  <2> QED
    BY <2>1, <2>2, <2>3
<1>11. Books(W)'
  <2>1. ~Ended("Commit")' /\ ~Ended("Rollback")'
    BY <1>10 DEF Ended
  <2>2. job.live => Len(W) = n /\ call.op = job.op
    <3>1. job.live => Len(chan) = 0 /\ call.op = job.op
      BY <1>3 DEF JobFits
    <3>2. lev[Len(chan)] = n /\ lev[0] = Len(W)
      BY <1>3, <1>4, <1>6 DEF Pipe, Levels, One
    <3> QED
      BY <3>1, <3>2
  <2>3. Ended("Commit") => f = "unknown" /\ Len(W) > 0 /\ W[Len(W)] = x /\ depth = Len(W) - 1
    <3> SUFFICES ASSUME Ended("Commit") PROVE f = "unknown" /\ Len(W) > 0 /\ W[Len(W)] = x /\ depth = Len(W) - 1
      OBVIOUS
    <3>1. job.ok /\ job.live /\ job.op = "Commit"
      BY DEF Ended
    <3>2. depth = Len(W) - 1
      BY <1>3, <3>1 DEF DepthFits
    <3>3. job' # NoJob
      <4>1. job' = [job EXCEPT !.live = FALSE]
        BY <3>1
      <4>2. job'.op = "Commit"
        BY <1>10, <3>1, <4>1, Unheard
      <4> QED
        BY <4>2 DEF NoJob
    <3> QED
      BY <1>6, <2>2, <3>1, <3>2, <3>3
  <2>4. Ended("Rollback") => W[Len(W)] = x
    BY <1>6, <2>2 DEF Ended
  <2>5. fate[x] = "open" /\ fate' = [fate EXCEPT ![x] = f]
    BY <1>5
  <2> QED
    BY <1>0, <1>1, <1>3, <1>6, <2>1, <2>3, <2>4, <2>5, BooksGivenUp
<1>12. WorkerType'
  BY <1>0, <1>1, <1>4, <1>5, <1>10 DEF WorkerType
<1>13. CallFits'
  BY <1>4 DEF CallFits, Sending
<1>14. Known'
  BY <1>0, <1>1, KnownKept
<1>15. Running(W, lev)' /\ alive' /\ lev \in [0..Len(chan') -> Nat]
  BY <1>0, <1>8, <1>9, <1>11 DEF Running
<1> QED
  BY <1>5, <1>12, <1>13, <1>14, <1>15, Assemble

\* A Transaction goes out of scope.
LEMMA DropTransactionInv ==
    ASSUME WorkerInv, alive, DropTransaction
    PROVE  WorkerInv'
<1> PICK f : f = "aborted"
  OBVIOUS
<1>0. /\ call = NoCall /\ handles # <<>> /\ call' = Sending("StartRollback") /\ handles' = Popped
      /\ fate' = [fate EXCEPT ![Top] = f] /\ f \in {"aborted", "unknown"}
      /\ UNCHANGED <<chan, job, mutex, alive, session, depth, ignore, begun, parent, acked>>
  BY DEF DropTransaction, worker
<1>1. job' = [job EXCEPT !.live = FALSE] /\ call.op # "Commit"
  BY <1>0, NotWaiting DEF NoCall
<1>2. chan' \in Seq(CommandSet)
  BY <1>0 DEF WorkerInv, WorkerType
<1>3. mutex' \in {"worker", "free"}
  BY <1>0 DEF WorkerInv, WorkerType, CallFits, NoCall
<1> QED
  BY <1>0, <1>1, <1>2, <1>3, GivenUpInv

\* The future of commit() or rollback() is dropped, and the Transaction with it.
LEMMA CancelEndInv ==
    ASSUME Settled, WorkerInv, alive, Cancel, call.op \in {"Commit", "Rollback"}
    PROVE  WorkerInv'
<1> PICK f : f = IF call.op = "Commit" THEN "unknown" ELSE "aborted"
  OBVIOUS
<1>0. /\ chan' = Abandoned(chan) /\ call' = Sending("StartRollback") /\ handles' = Popped
      /\ fate' = [fate EXCEPT ![Top] = f] /\ f \in {"aborted", "unknown"} /\ (call.op = "Commit" => f = "unknown")
      /\ UNCHANGED <<alive, session, depth, ignore, begun, parent, acked>>
  BY DEF Cancel, DropOpen
<1>1. mutex' \in {"worker", "free"} /\ job' = [job EXCEPT !.live = FALSE]
  BY CancelFits
<1>2. handles # <<>>
  BY DEF WorkerInv, CallFits
<1>3. /\ chan' \in Seq(CommandSet) /\ Len(chan') = Len(chan)
      /\ \A i \in 1..Len(chan) : chan'[i].op = chan[i].op /\ chan'[i].tx = chan[i].tx /\ ~chan'[i].live
  BY <1>0, AbandonedFits DEF WorkerInv
<1> QED
  BY <1>0, <1>1, <1>2, <1>3, GivenUpInv

\* commit() or rollback() failed, and the Transaction is dropped.
LEMMA FailedEndInv ==
    ASSUME WorkerInv, alive, call.stage = "reply", job.op = call.op, job.live, ~job.ok,
           job.op \in {"Commit", "Rollback"}, job' = NoJob, DropOpen("aborted"),
           UNCHANGED <<chan, alive, mutex, session, depth, ignore, begun, parent, acked>>
    PROVE  WorkerInv'
<1> PICK f : f = "aborted"
  OBVIOUS
<1>0. /\ call' = Sending("StartRollback") /\ handles' = Popped
      /\ fate' = [fate EXCEPT ![Top] = f] /\ f \in {"aborted", "unknown"}
      /\ UNCHANGED <<chan, mutex, alive, session, depth, ignore, begun, parent, acked>>
  BY DEF DropOpen
<1>1. chan' \in Seq(CommandSet)
  BY DEF WorkerInv, WorkerType
<1>2. mutex' \in {"worker", "free"} /\ handles # <<>>
  BY DEF WorkerInv, WorkerType, CallFits
<1> QED
  BY <1>0, <1>1, <1>2, GivenUpInv

\* BEGIN with a custom statement succeeded; the client goes on to look at the connection.
LEMMA CheckStartsInv ==
    ASSUME WorkerInv, alive, call.stage = "reply", job.op = call.op, job.live, job.ok,
           job.op = "BeginWith", job' = NoJob, call' = Sending("BeginCheck"),
           UNCHANGED <<chan, alive, mutex, session, depth, ignore, handles, begun, fate, parent, acked>>
    PROVE  WorkerInv'
<1>0. /\ chan' = chan /\ alive' = alive /\ mutex' = mutex /\ session' = session /\ depth' = depth /\ ignore' = ignore
      /\ handles' = handles /\ begun' = begun /\ fate' = fate /\ parent' = parent /\ acked' = acked
  OBVIOUS
<1>1. WorkerType /\ Numbering /\ CallFits /\ Known
  BY DEF WorkerInv
<1>2. PICK W \in Stacks, lev \in [0..Len(chan) -> Nat] : Running(W, lev)
  BY DEF WorkerInv
<1>3. Tower(W) /\ Pipe(W, lev) /\ JobFits(W) /\ DepthFits(W) /\ Books(W)
  BY <1>2 DEF Running
<1>4. /\ Len(chan) = 0 /\ Len(W) = 0 /\ depth = 1 /\ ~ignore
  <2>1. chan = <<>> /\ Len(W) = job.depth /\ job.depth = 0 /\ job # NoJob
    BY <1>3 DEF JobFits, NoJob
  <2>2. depth = Len(W) + 1 /\ ~ignore
    BY <1>3, <2>1 DEF JobFits, DepthFits
  <2> QED
    BY <2>1, <2>2
<1>5. Len(handles) = 0 /\ handles = <<>>
  <2>1. Len(handles) = 0
    BY <1>1, <1>3, <1>4, Parts DEF Tower, OpenBelow
  <2> QED
    BY <1>1, <2>1, Parts
<1>6. call'.op = "BeginCheck" /\ call' \in CallSet /\ call' # Sending("StartRollback")
  BY DEF Sending, CallSet
<1>7. Pipe(W, lev)'
  <2>1. lev[0] = 0 /\ One(call' = Sending("StartRollback")) = 0 /\ One(call = Sending("StartRollback")) = 0
    BY <1>3, <1>4, <1>6 DEF Pipe, Levels, One, Sending
  <2>2. Levels(W, lev)'
    BY <1>0, <1>3, <1>4, <1>5, <2>1 DEF Pipe, Levels
  <2>3. \A i \in 1..Len(chan) : FALSE
    BY <1>4
  <2> QED
    BY <1>0, <2>2, <2>3 DEF Pipe
<1>8. JobFits(W)' /\ DepthFits(W)'
  BY <1>0, <1>4, <1>6 DEF JobFits, DepthFits, NoJob
<1>9. Numbering' /\ Tower(W)'
  BY <1>0, <1>1, <1>3, TowerKept
<1>10. Books(W)'
  <2>1. \A op \in {"Commit", "Rollback"} : Ended(op)' <=> Ended(op)
    BY DEF Ended, NoJob
  <2> QED
    BY <1>0, <1>3, <2>1, BooksKept
<1>11. WorkerType'
  <2>1. job' \in JobSet
    BY DEF NoJob, JobSet
  <2> QED
    BY <1>0, <1>1, <1>6, <2>1 DEF WorkerType
<1>12. CallFits' /\ Known'
  BY <1>0, <1>1, <1>5, <1>6, KnownKept DEF CallFits
<1>13. Running(W, lev)' /\ alive' /\ lev \in [0..Len(chan') -> Nat]
  BY <1>0, <1>2, <1>7, <1>8, <1>9, <1>10 DEF Running
<1> QED
  BY <1>9, <1>11, <1>12, <1>13, Assemble

\* What a transaction found when it began is kept by the end of one that is nested in it:
\* what was written in that one was written in both.
LEMMA EndKeptBelow ==
    ASSUME WorkerType, UNCHANGED <<parent, acked>>, NEW W \in Stacks, NEW V \in Stacks, Nested(W), Len(W) = Len(V) + 1,
           \A l \in 1..Len(V) : V[l] = W[l], NEW x \in Tx, x = W[Len(W)], fate[x] = "open", NEW f,
           fate' = [fate EXCEPT ![x] = f], NEW X, NEW k \in 1..Len(V), Keeps(W, X, k)
    PROVE  Keeps(V, X, k)'
<1>0. Len(W) \in Nat /\ Len(V) \in Nat /\ Len(W) \in 1..Len(W) /\ Len(W) # 1 /\ Len(W) - 1 = Len(V)
      /\ Len(V) \in k..Len(V) /\ Len(V) \in 1..Len(V) /\ fate \in [Tx -> Fates] /\ acked \subseteq Writers
  BY StackParts DEF WorkerType
<1>1. \A i : Enclosing(i)' = Enclosing(i)
  BY Zenon DEF Enclosing
<1>2. \A j \in Tx : fate'[j] = IF j = x THEN f ELSE fate[j]
  BY <1>0
<1> SUFFICES ASSUME NEW i \in acked \ {Outside},
                    \A j \in Enclosing(i) : fate'[j] \in {"committed", "open"} /\ \A l \in k..Len(V) : V[l] # j
             PROVE  i \in X
  BY <1>1 DEF Keeps
<1>3. /\ Enclosing(i) \subseteq Tx
      /\ \A j \in Enclosing(i) : parent[j] \in Tx => parent[j] \in Enclosing(i)
  <2>1. i \in Tx
    BY <1>0 DEF Writers
  <2> QED
    BY <2>1, EnclosingClosed
<1>4. x \notin Enclosing(i)
  <2>1. parent[x] = W[Len(V)] /\ W[Len(V)] = V[Len(V)] /\ V[Len(V)] \in Tx
    BY <1>0, StackParts DEF Nested
  <2>2. V[Len(V)] \notin Enclosing(i)
    BY <1>0
  <2> QED
    BY <1>3, <2>1, <2>2
<1>5. ASSUME NEW j \in Enclosing(i) PROVE fate[j] \in {"committed", "open"} /\ \A l \in k..Len(W) : W[l] # j
  <2>1. fate[j] = fate'[j] /\ j # x
    BY <1>2, <1>3, <1>4
  <2>2. \A l \in k..Len(W) : l = Len(W) \/ (l \in k..Len(V) /\ l \in 1..Len(V))
    BY <1>0
  <2> QED
    BY <2>1, <2>2
<1> QED
  BY <1>5 DEF Keeps

\* What is kept of everything that is open is kept when a transaction is committed.
LEMMA EndKeptAll ==
    ASSUME UNCHANGED <<parent, acked>>, NEW x \in Tx, fate \in [Tx -> Fates], fate[x] = "open", NEW f,
           fate' = [fate EXCEPT ![x] = f], NEW W, NEW V, NEW X, NEW k, NEW n, Keeps(W, X, k), \A l \in k..Len(W) : FALSE
    PROVE  Keeps(V, X, n)'
<1>1. \A i : Enclosing(i)' = Enclosing(i)
  BY Zenon DEF Enclosing
<1>2. \A j \in Tx : fate'[j] = IF j = x THEN f ELSE fate[j]
  OBVIOUS
<1> SUFFICES ASSUME NEW i \in acked \ {Outside}, \A j \in Enclosing(i) : fate'[j] \in {"committed", "open"}
             PROVE  i \in X
  BY <1>1 DEF Keeps
<1>3. ASSUME NEW j \in Enclosing(i) PROVE fate[j] \in {"committed", "open"}
  <2>1. j \in Tx
    BY <1>3 DEF Enclosing
  <2>2. fate'[j] \in {"committed", "open"}
    OBVIOUS
  <2> QED
    BY <1>2, <2>1, <2>2
<1> QED
  BY <1>3 DEF Keeps

\* The client learns that its COMMIT or ROLLBACK was executed.
LEMMA BooksEnded ==
    ASSUME WorkerType, NEW W \in Stacks, NEW V \in Stacks, Nested(W), Books(W), Len(W) = Len(V) + 1, depth = Len(V),
           \A l \in 1..Len(V) : V[l] = W[l], NEW x \in Tx, x = W[Len(W)], fate[x] = "open",
           NEW f \in {"committed", "aborted"}, Ended("Commit") <=> f = "committed", Ended("Rollback") <=> f = "aborted",
           fate' = [fate EXCEPT ![x] = f], UNCHANGED <<session, depth, begun, parent, acked>>,
           ~Ended("Commit")', ~Ended("Rollback")'
    PROVE  Books(V)'
<1> PICK s, d, D, Y : s = session /\ d = depth /\ D = s.data /\ Y = s.durable
  OBVIOUS
<1>0. /\ d \in Nat /\ d = Len(V) /\ Len(W) = d + 1 /\ fate \in [Tx -> Fates] /\ session' = s /\ depth' = d
      /\ ~(d > Len(W)) /\ ~(d > Len(V))
  BY StackParts DEF WorkerType
<1>1. FramesFit(s.frames, d) /\ SnapsFit(s) /\ DataOwned(W) /\ DataKept(W)
  BY DEF Books
<1>2. /\ \A l \in 1..d : l \in 1..d /\ V[l] = W[l]
      /\ \A l \in 1..Len(W) : l = Len(W) \/ l \in 1..d
  BY <1>0
<1>10. ASSUME NEW X, NEW k, NEW n, OnlyFrom(W, X, k),
              \A l \in 1..k : (W[l] = x /\ f \in {"committed", "unknown"}) \/ (l \in 1..n /\ V[l] = W[l])
       PROVE  OnlyFrom(V, X, n)'
  <2>1. UNCHANGED <<begun, parent>> /\ x \in Tx /\ fate[x] = "open" /\ fate' = [fate EXCEPT ![x] = f]
    OBVIOUS
  <2> QED
    BY ONLY <1>0, <1>10, <2>1, EndOwned, ZenonT(60)
<1>3. DataOwned(V)'
  <2>1. OnlyFrom(V, D, d)'
    <3>1. CASE f = "committed"
      <4>1. OnlyFrom(W, D, Len(W))
        BY <1>1, <3>1 DEF DataOwned
      <4>2. \A l \in 1..Len(W) : (W[l] = x /\ f \in {"committed", "unknown"}) \/ (l \in 1..d /\ V[l] = W[l])
        BY <1>2, <3>1
      <4> QED
        BY <1>10, <4>1, <4>2
    <3>2. CASE f # "committed"
      <4>1. OnlyFrom(W, D, d)
        BY <1>0, <1>1, <3>2 DEF DataOwned
      <4> QED
        BY <1>10, <1>2, <4>1
    <3> QED
      BY <3>1, <3>2
  <2> PICK z, o : z = 0 /\ o = One(f = "committed" /\ d = 0)
    OBVIOUS
  <2>2. OnlyFrom(V, Y, z)'
    <3>1. OnlyFrom(W, Y, o)
      BY <1>1 DEF DataOwned
    <3>2. \A l \in 1..o : W[l] = x /\ f \in {"committed", "unknown"}
      <4>1. CASE f = "committed" /\ d = 0
        <5>1. Len(W) = 1 /\ o = 1 /\ \A l \in 1..1 : l = 1
          BY <1>0, <4>1 DEF One
        <5> QED
          BY <4>1, <5>1
      <4>2. CASE ~(f = "committed" /\ d = 0)
        BY <4>2 DEF One
      <4> QED
        BY <4>1, <4>2
    <3> QED
      BY <1>10, <3>1, <3>2
  <2>3. ASSUME NEW k \in 1..d PROVE OnlyFrom(V, Snap(s, k), k - 1)'
    <3> PICK X, n : X = Snap(s, k) /\ n = k - 1
      OBVIOUS
    <3>1. OnlyFrom(W, X, n)
      BY <1>1 DEF DataOwned
    <3>2. \A l \in 1..n : l \in 1..n /\ V[l] = W[l]
      BY <1>0
    <3>3. OnlyFrom(V, X, n)'
      BY <1>10, <3>1, <3>2
    <3> QED
      BY <3>3
  <2> QED
    BY <1>0, <2>1, <2>2, <2>3 DEF DataOwned, One
<1>4. Keeps(W, D, IF f = "aborted" THEN d + 1 ELSE d + 2) /\ Keeps(W, Y, 1) /\ \A k \in 1..d : Keeps(W, Snap(s, k), k)
  <2>1. Len(W) + 1 = d + 2
    BY <1>0
  <2> QED
    BY <1>0, <1>1, <2>1 DEF DataKept
<1>5. DataKept(V)'
  <2> PICK n, e : n = d + 1 /\ e = 1
    OBVIOUS
  <2>1. Keeps(V, D, n)'
    <3>1. CASE f = "aborted"
      <4>1. Keeps(W, D, n)
        BY <1>4, <3>1
      <4>2. \A l \in n..Len(W) : W[l] = x
        <5>1. \A l \in n..Len(W) : l = Len(W)
          BY <1>0
        <5> QED
          BY <5>1
      <4>3. f \in {"aborted", "unknown"}
        BY <3>1
      <4> QED
        BY <1>0, <4>1, <4>2, <4>3, EndKept, ZenonT(60)
    <3>2. CASE f = "committed"
      <4> PICK k : k = d + 2
        OBVIOUS
      <4>1. Keeps(W, D, k) /\ \A l \in k..Len(W) : FALSE
        BY <1>0, <1>4, <3>2
      <4> QED
        BY <1>0, <4>1, EndKeptAll
    <3> QED
      BY <3>1, <3>2
  <2>2. ASSUME NEW k \in 1..d PROVE Keeps(V, Snap(s, k), k)'
    <3> PICK X : X = Snap(s, k)
      OBVIOUS
    <3>1. Keeps(W, X, k) /\ k \in 1..Len(V)
      BY <1>0, <1>4
    <3>2. Keeps(V, X, k)'
      BY <3>1, EndKeptBelow
    <3> QED
      BY <3>2
  <2>3. Keeps(V, Y, e)'
    <3>1. CASE d > 0
      <4>1. Keeps(W, Y, e) /\ e \in 1..Len(V)
        BY <1>0, <1>4, <3>1
      <4> QED
        BY <4>1, EndKeptBelow
    <3>2. CASE d = 0 /\ f = "aborted"
      <4>1. \A l \in e..Len(W) : W[l] = x
        <5>1. \A l \in e..Len(W) : l = Len(W)
          BY <1>0, <3>2
        <5> QED
          BY <5>1
      <4>2. f \in {"aborted", "unknown"} /\ Keeps(W, Y, e)
        BY <3>2, <1>4
      <4> QED
        BY <1>0, <4>1, <4>2, EndKept
    <3>3. CASE d = 0 /\ f = "committed"
      <4>1. Y = D
        BY <1>1, <3>3 DEF FramesFit, SnapsFit
      <4> PICK k : k = d + 2
        OBVIOUS
      <4>2. Keeps(W, Y, k) /\ \A l \in k..Len(W) : FALSE
        BY <1>0, <1>4, <3>3, <4>1
      <4> QED
        BY <1>0, <4>2, EndKeptAll
    <3> QED
      BY <1>0, <3>1, <3>2, <3>3
  <2> QED
    BY <1>0, <2>1, <2>2, <2>3 DEF DataKept
<1> QED
  BY <1>0, <1>1, <1>3, <1>5 DEF Books

\* An empty channel leaves the stack as it is.
LEMMA EmptyPipe ==
    ASSUME NEW V \in Stacks, Len(chan') = 0, Len(handles') = Len(V), call' # Sending("StartRollback")
    PROVE  \E m \in [0..Len(chan') -> Nat] : Pipe(V, m)'
<1> PICK m, n : m = [i \in 0..0 |-> n] /\ n = Len(V)
  OBVIOUS
<1>1. n \in Nat
  BY StackParts
<1>2. m \in [0..Len(chan') -> Nat] /\ m[0] = n /\ \A i \in 0..0 : i = 0
  BY <1>1
<1>3. Levels(V, m)'
  <2>1. \A i \in 1..0 : FALSE
    OBVIOUS
  <2>2. One(call' = Sending("StartRollback")) = 0
    BY DEF One
  <2> QED
    BY <1>1, <1>2, <2>1, <2>2 DEF Levels
<1>4. Pipe(V, m)'
  BY <1>3 DEF Pipe
<1> QED
  BY <1>2, <1>4

\* commit() or rollback() returns.
LEMMA EndedInv ==
    ASSUME WorkerInv, alive, call.stage = "reply", job.op = call.op, job.live, job.ok,
           job.op \in {"Commit", "Rollback"}, job' = NoJob, call' = NoCall, handles' = Popped,
           fate' = [fate EXCEPT ![Top] = IF job.op = "Commit" THEN "committed" ELSE "aborted"],
           UNCHANGED <<chan, alive, mutex, session, depth, ignore, begun, parent, acked>>
    PROVE  WorkerInv'
<1> PICK f : f = IF job.op = "Commit" THEN "committed" ELSE "aborted"
  OBVIOUS
<1>0. /\ chan' = chan /\ alive' = alive /\ mutex' = mutex /\ session' = session /\ depth' = depth /\ ignore' = ignore
      /\ begun' = begun /\ parent' = parent /\ acked' = acked /\ fate' = [fate EXCEPT ![Top] = f]
      /\ f \in {"committed", "aborted"}
  OBVIOUS
<1>1. WorkerType /\ Numbering /\ CallFits /\ Known
  BY DEF WorkerInv
<1>2. PICK W \in Stacks, lev \in [0..Len(chan) -> Nat] : Running(W, lev)
  BY DEF WorkerInv
<1>3. Tower(W) /\ Pipe(W, lev) /\ JobFits(W) /\ DepthFits(W) /\ Books(W)
  BY <1>2 DEF Running
<1>4. Len(chan) = 0 /\ Len(W) = Len(handles) /\ ~ignore /\ depth = Len(W) - 1 /\ call # Sending("StartRollback")
  <2>1. chan = <<>> /\ job # NoJob
    BY <1>3 DEF JobFits, NoJob
  <2>2. ~ignore /\ depth = Len(W) - 1
    BY <1>3, <2>1 DEF JobFits, DepthFits
  <2>3. call # Sending("StartRollback")
    BY DEF Sending
  <2>4. lev[0] = Len(W) /\ lev[Len(chan)] = Len(handles)
    BY <1>1, <1>3, <2>3, Parts DEF Pipe, Levels, One
  <2> QED
    BY <2>1, <2>2, <2>3, <2>4
<1>5. /\ Numbering' /\ handles' \in Seq(Tx) /\ Len(handles') = Len(handles) - 1
      /\ \A k \in 1..Len(handles') : handles'[k] = handles[k]
      /\ Len(handles) \in 1..Len(handles)
      /\ Top \in Tx /\ Top = handles[Len(handles)] /\ Top <= begun /\ fate[Top] = "open"
      /\ fate' \in [Tx -> Fates] /\ \A x \in Tx : fate'[x] = IF x = Top THEN f ELSE fate[x]
  <2>1. f \in Fates \ {"open", "new"}
    BY DEF Fates
  <2>2. Nested(handles) /\ handles # <<>>
    BY <1>1, <1>3, HandlesNested DEF CallFits
  <2> QED
    BY <1>0, <1>1, <2>1, <2>2, PopParts
<1> PICK x : x = Top
  OBVIOUS
<1>6. Len(W) \in Nat /\ Len(W) > 0 /\ W[Len(W)] = x /\ x \in Tx
  BY <1>3, <1>4, <1>5, StackParts DEF Tower, OpenBelow
<1>7. PICK V \in Stacks : Len(V) = Len(W) - 1 /\ \A k \in 1..Len(V) : V[k] = W[k]
  BY <1>6, Shorter
<1>8. Len(V) \in Nat /\ Len(W) = Len(V) + 1 /\ depth = Len(V) /\ Len(handles') = Len(V)
  BY <1>4, <1>5, <1>6, <1>7
<1>9. Tower(V)'
  <2>1. \A k \in 1..Len(V) : k \in 1..Len(W) /\ (k # 1 => k - 1 \in 1..Len(V)) /\ k \in 1..Len(handles)
    BY <1>4, <1>8
  <2>2. Nested(V)'
    <3> SUFFICES ASSUME NEW k \in 1..Len(V)
                 PROVE  /\ V[k] <= begun /\ parent[V[k]] = IF k = 1 THEN Outside ELSE V[k - 1]
                        /\ \A l \in 1..Len(V) : k < l => V[k] < V[l]
      BY <1>0 DEF Nested
    <3>1. /\ W[k] <= begun /\ parent[W[k]] = IF k = 1 THEN Outside ELSE W[k - 1]
          /\ \A l \in 1..Len(W) : k < l => W[k] < W[l]
      BY <1>3, <2>1 DEF Tower, Nested
    <3> QED
      BY <1>7, <2>1, <3>1
  <2>3. \A k \in 1..Len(V) : handles'[k] = V[k]
    BY <1>3, <1>5, <1>7, <1>8, <2>1 DEF Tower, OpenBelow
  <2>4. \A k \in Len(V) + 1..Len(V) : FALSE
    BY <1>8
  <2>5. OpenBelow(V)'
    BY <1>8, <2>3, <2>4 DEF OpenBelow
  <2> QED
    BY <2>2, <2>5 DEF Tower
<1>10. Books(V)'
  <2>1. /\ Ended("Commit") <=> f = "committed"
        /\ Ended("Rollback") <=> f = "aborted"
        /\ ~Ended("Commit")' /\ ~Ended("Rollback")'
    BY DEF Ended, NoJob
  <2>2. fate' = [fate EXCEPT ![x] = f] /\ fate[x] = "open" /\ Nested(W)
    BY <1>0, <1>3, <1>5 DEF Tower
  <2> QED
    BY <1>0, <1>1, <1>3, <1>6, <1>7, <1>8, <2>1, <2>2, BooksEnded
<1>11. call' # Sending("StartRollback") /\ call'.op = "none" /\ call' \in CallSet
  BY DEF NoCall, Sending, CallSet
<1>12. PICK m \in [0..Len(chan') -> Nat] : Pipe(V, m)'
  BY <1>0, <1>4, <1>8, <1>11, EmptyPipe
<1>13. JobFits(V)' /\ DepthFits(V)'
  BY <1>0, <1>4, <1>8, <1>11 DEF JobFits, DepthFits, NoJob
<1>14. WorkerType'
  <2>1. job' \in JobSet
    BY DEF NoJob, JobSet
  <2> QED
    BY <1>0, <1>1, <1>5, <1>11, <2>1 DEF WorkerType
<1>15. CallFits'
  BY <1>0, <1>1, <1>11 DEF CallFits
<1>16. Known'
  BY <1>0, <1>1, KnownKept
<1>17. Running(V, m)' /\ alive'
  BY <1>0, <1>9, <1>10, <1>12, <1>13 DEF Running
<1> QED
  BY <1>5, <1>14, <1>15, <1>16, <1>17, Assemble

\* What was written before a transaction begins belongs to what it belonged to.
LEMMA OpenedOwners ==
    ASSUME WorkerType, Numbering, Known, begun < MaxTx, NEW t, t = begun + 1, NEW p, acked' = acked, begun' = t,
           fate' = [fate EXCEPT ![t] = "open"], parent' = [parent EXCEPT ![t] = p],
           NEW W \in Stacks, NEW V \in Stacks, Len(V) = Len(W) + 1, \A l \in 1..Len(W) : V[l] = W[l]
    PROVE  /\ \A X, k : OnlyFrom(W, X, k) /\ k \in 0..Len(W) /\ X \subseteq Writers => \A n \in k..Len(V) : OnlyFrom(V, X, n)'
           /\ \A X : \A k \in 1..Len(W) + 1 : Keeps(W, X, k) => Keeps(V, X, k)'
           /\ \A X : Keeps(W, X, Len(W) + 1) => Keeps(V, X, Len(V) + 1)'
<1>0. /\ begun \in Nat /\ MaxTx \in Nat /\ t \in Tx /\ Len(W) \in Nat /\ Len(V) \in Nat
      /\ Tx \subseteq Nat /\ fate \in [Tx -> Fates] /\ acked \subseteq 0..begun /\ acked \subseteq Writers
  <2>1. begun \in 0..MaxTx /\ fate \in [Tx -> Fates] /\ acked \subseteq 0..begun /\ acked \subseteq Writers
    BY DEF WorkerType, Known
  <2>2. MaxTx \in Nat /\ Tx \subseteq Nat /\ \A x : x \in Tx <=> x \in Nat /\ 1 <= x /\ x <= MaxTx
    BY TxNumbers
  <2>3. begun \in Nat /\ t \in Nat /\ 1 <= t /\ t <= MaxTx
    BY <2>1, <2>2
  <2> QED
    BY <2>1, <2>2, <2>3, StackParts
<1>1. ASSUME NEW i \in Tx, i <= begun
      PROVE  Enclosing(i)' = Enclosing(i) /\ \A j \in Enclosing(i) : j \in Tx /\ j <= begun /\ fate'[j] = fate[j]
  <2>1. Enclosing(i)' = Enclosing(i)
    BY <1>1, EnclosingOpened
  <2>2. \A j \in Enclosing(i) : j \in Tx /\ j <= begun
    BY <1>1, EnclosingBegun
  <2>3. \A j \in Tx : j <= begun => j # t
    BY <1>0
  <2> QED
    BY <1>0, <2>1, <2>2, <2>3
<1>2. ASSUME NEW X, NEW k, OnlyFrom(W, X, k), k \in 0..Len(W), X \subseteq Writers, NEW n \in k..Len(V)
      PROVE  OnlyFrom(V, X, n)'
  <2> SUFFICES ASSUME NEW i \in X \ {Outside}
               PROVE  /\ i <= begun'
                      /\ \A j \in Enclosing(i)' : (\E l \in 1..n : V[l] = j) \/ fate'[j] \in {"committed", "unknown"}
    BY DEF OnlyFrom
  <2>1. /\ i \in Tx /\ i <= begun
        /\ \A j \in Enclosing(i) : (\E l \in 1..k : W[l] = j) \/ fate[j] \in {"committed", "unknown"}
    BY <1>2 DEF OnlyFrom, Writers
  <2>2. \A l \in 1..k : l \in 1..n /\ V[l] = W[l]
    BY <1>0, <1>2
  <2>3. i <= begun'
    BY <1>0, <2>1
  <2> QED
    BY <1>1, <2>1, <2>2, <2>3
<1>3. ASSUME NEW X, NEW k, NEW n, Keeps(W, X, k), \A l \in k..Len(W) : l \in n..Len(V) /\ l \in 1..Len(W)
      PROVE  Keeps(V, X, n)'
  <2> SUFFICES ASSUME NEW i \in acked \ {Outside},
                      \A j \in Enclosing(i)' : fate'[j] \in {"committed", "open"} /\ \A l \in n..Len(V) : V[l] # j
               PROVE  i \in X
    BY DEF Keeps
  <2>1. i \in Tx /\ i <= begun
    BY <1>0 DEF Writers
  <2>2. ASSUME NEW j \in Enclosing(i)
        PROVE  fate[j] \in {"committed", "open"} /\ \A l \in k..Len(W) : W[l] # j
    <3>1. fate'[j] = fate[j] /\ j \in Enclosing(i)'
      BY <1>1, <2>1
    <3>2. fate'[j] \in {"committed", "open"} /\ \A l \in n..Len(V) : V[l] # j
      BY <3>1
    <3>3. \A l \in k..Len(W) : V[l] # j /\ V[l] = W[l]
      BY <1>3, <3>2
    <3> QED
      BY <3>1, <3>2, <3>3
  <2> QED
    BY <1>3, <2>2 DEF Keeps
<1>4. ASSUME NEW X, NEW k \in 1..Len(W) + 1, Keeps(W, X, k) PROVE Keeps(V, X, k)'
  <2>1. \A l \in k..Len(W) : l \in k..Len(V) /\ l \in 1..Len(W)
    BY <1>0
  <2> QED
    BY <1>3, <1>4, <2>1
<1>5. ASSUME NEW X, Keeps(W, X, Len(W) + 1) PROVE Keeps(V, X, Len(V) + 1)'
  <2> PICK k, n : k = Len(W) + 1 /\ n = Len(V) + 1
    OBVIOUS
  <2>1. \A l \in k..Len(W) : FALSE
    BY <1>0
  <2>2. Keeps(W, X, k)
    BY <1>5
  <2>3. Keeps(V, X, n)'
    BY <1>3, <2>1, <2>2
  <2> QED
    BY <2>3
<1> QED
  BY <1>2, <1>4, <1>5

\* The client learns that a transaction has begun.
LEMMA OpenedParts ==
    ASSUME WorkerType, Numbering, Known, begun < MaxTx, NEW W \in Stacks, Tower(W), Books(W), Len(W) = Len(handles),
           depth = Len(W) + 1, Opened, UNCHANGED <<session, depth, acked>>,
           \A op \in {"Commit", "Rollback"} : ~Ended(op) /\ ~Ended(op)'
    PROVE  \E V \in Stacks :
              /\ Len(V) = depth' /\ Numbering' /\ Tower(V)' /\ Books(V)' /\ Known'
              /\ handles' \in Seq(Tx) /\ Len(handles') = Len(V) /\ begun' \in 0..MaxTx
              /\ fate' \in [Tx -> Fates] /\ parent' \in [Tx -> Writers] /\ call' = NoCall
<1> PICK t, p, L, V, h : t = begun + 1 /\ p = Top /\ L = Len(W) /\ V = Append(W, t) /\ h = handles'
  OBVIOUS
<1>0. /\ handles' = Append(handles, t) /\ begun' = t /\ fate' = [fate EXCEPT ![t] = "open"] /\ call' = NoCall
      /\ parent' = [parent EXCEPT ![t] = p] /\ session' = session /\ depth' = depth /\ acked' = acked
  BY DEF Opened
<1>1. /\ begun \in Nat /\ MaxTx \in Nat /\ Tx \subseteq Nat /\ t \in Tx /\ L \in Nat /\ t \in 0..MaxTx
      /\ fate \in [Tx -> Fates] /\ parent \in [Tx -> Writers] /\ handles \in Seq(Tx) /\ W \in Seq(Tx)
      /\ \A k \in 1..L : W[k] \in Tx /\ W[k] <= begun /\ W[k] \in Nat
  <2>1. /\ begun \in 0..MaxTx /\ fate \in [Tx -> Fates] /\ parent \in [Tx -> Writers] /\ handles \in Seq(Tx)
    BY DEF WorkerType
  <2>2. MaxTx \in Nat /\ Tx \subseteq Nat /\ \A x : x \in Tx <=> x \in Nat /\ 1 <= x /\ x <= MaxTx
    BY TxNumbers
  <2>3. begun \in Nat /\ t \in Nat /\ 1 <= t /\ t <= MaxTx /\ t \in 0..MaxTx
    BY <2>1, <2>2
  <2>4. W \in Seq(Tx) /\ L \in Nat /\ \A k \in 1..L : W[k] \in Tx /\ W[k] <= begun /\ W[k] \in Nat
    BY StackParts DEF Tower, Nested
  <2> QED
    BY <2>1, <2>2, <2>3, <2>4
<1>2. V \in Stacks /\ Len(V) = L + 1 /\ V[L + 1] = t /\ \A k \in 1..L : V[k] = W[k]
  BY <1>1 DEF Stacks
<1>3. h \in Seq(Tx) /\ Len(h) = L + 1 /\ h[L + 1] = t /\ \A k \in 1..L : h[k] = handles[k]
  BY <1>0, <1>1
<1>4. \A k \in 1..L : handles[k] = W[k]
  BY DEF Tower, OpenBelow
<1>5. p = TopAt(W, L) /\ p \in Writers /\ p < t
  <2>1. CASE L = 0
    <3>1. handles = <<>>
      <4>1. handles \in Seq(Tx) /\ Len(handles) = 0
        BY <1>1, <2>1
      <4> QED
        BY ONLY <4>1
    <3> QED
      BY <1>1, <2>1, <3>1, TxNumbers DEF Top, TopAt, Writers
  <2>2. CASE L # 0
    <3>1. handles # <<>> /\ L \in 1..L
      BY <1>1, <2>2
    <3>2. p = W[L] /\ W[L] \in Tx /\ W[L] <= begun /\ W[L] \in Nat
      BY <1>1, <1>4, <3>1 DEF Top
    <3> QED
      BY <1>1, <2>2, <3>2 DEF TopAt, Writers
  <2> QED
    BY <2>1, <2>2
<1>6. /\ \A x \in Tx : fate'[x] = (IF x = t THEN "open" ELSE fate[x]) /\ parent'[x] = IF x = t THEN p ELSE parent[x]
      /\ fate' \in [Tx -> Fates] /\ parent' \in [Tx -> Writers]
  <2>1. "open" \in Fates
    BY DEF Fates
  <2>2. \A x \in Tx : fate'[x] = (IF x = t THEN "open" ELSE fate[x]) /\ parent'[x] = IF x = t THEN p ELSE parent[x]
    BY <1>0, <1>1
  <2>3. fate' \in [Tx -> Fates]
    BY <1>0, <1>1, <2>1
  <2>4. parent' \in [Tx -> Writers]
    BY <1>0, <1>1, <1>5
  <2> QED
    BY <2>2, <2>3, <2>4
<1>7. \A k : k \in 1..L + 1 <=> k \in 1..L \/ k = L + 1
  BY <1>1
<1>8. Numbering'
  <2> SUFFICES ASSUME NEW x \in Tx
               PROVE  /\ x > t => fate'[x] = "new" /\ parent'[x] = Outside
                      /\ x <= t => parent'[x] < x
                      /\ fate'[x] = "open" <=> \E k \in 1..L + 1 : h[k] = x
    BY <1>0, <1>3 DEF Numbering
  <2>0. x \in Nat /\ t \in Nat
    BY <1>1
  <2>1. /\ x > begun => fate[x] = "new" /\ parent[x] = Outside
        /\ x <= begun => parent[x] < x
        /\ fate[x] = "open" <=> \E k \in 1..L : handles[k] = x
    BY DEF Numbering
  <2>2. CASE x = t
    <3>1. fate'[x] = "open" /\ parent'[x] = p
      BY <1>6, <2>2
    <3>2. h[L + 1] = x /\ L + 1 \in 1..L + 1
      BY <1>3, <1>7, <2>2
    <3>3. ~(x > t)
      BY <2>0, <2>2
    <3> QED
      BY <1>5, <2>2, <3>1, <3>2, <3>3
  <2>3. CASE x # t
    <3>1. fate'[x] = fate[x] /\ parent'[x] = parent[x]
      BY <1>6, <2>3
    <3>2. (x > t <=> x > begun) /\ (x <= t <=> x <= begun)
      BY <1>1, <2>0, <2>3
    <3>3. (\E k \in 1..L + 1 : h[k] = x) <=> \E k \in 1..L : handles[k] = x
      BY <1>3, <1>7, <2>3
    <3> QED
      BY <2>1, <3>1, <3>2, <3>3
  <2> QED
    BY <2>2, <2>3
<1>9. Tower(V)'
  <2>1. Nested(V)'
    <3> SUFFICES ASSUME NEW k \in 1..L + 1
                 PROVE  /\ V[k] <= t /\ parent'[V[k]] = IF k = 1 THEN Outside ELSE V[k - 1]
                        /\ \A l \in 1..L + 1 : k < l => V[k] < V[l]
      BY <1>0, <1>2 DEF Nested
    <3>1. CASE k \in 1..L
      <4>1. /\ W[k] <= begun /\ parent[W[k]] = IF k = 1 THEN Outside ELSE W[k - 1]
            /\ \A l \in 1..L : k < l => W[k] < W[l]
        BY <3>1 DEF Tower, Nested
      <4>2. W[k] \in Tx /\ W[k] # t /\ W[k] <= t /\ W[k] < t /\ V[k] = W[k]
        BY <1>1, <1>2, <3>1
      <4>3. parent'[V[k]] = IF k = 1 THEN Outside ELSE V[k - 1]
        <5>1. k # 1 => k - 1 \in 1..L
          BY <1>1, <3>1
        <5> QED
          BY <1>2, <1>6, <4>1, <4>2, <5>1
      <4>4. \A l \in 1..L + 1 : k < l => V[k] < V[l]
        BY <1>2, <1>7, <4>1, <4>2
      <4> QED
        BY <4>2, <4>3, <4>4
    <3>2. CASE k = L + 1
      <4>1. V[k] = t /\ parent'[t] = p /\ t \in Nat
        BY <1>1, <1>2, <1>6, <3>2
      <4>2. p = IF k = 1 THEN Outside ELSE V[k - 1]
        <5>1. CASE L = 0
          BY <1>5, <3>2, <5>1 DEF TopAt
        <5>2. CASE L # 0
          <6>1. k # 1 /\ k - 1 = L /\ L \in 1..L
            BY <1>1, <3>2, <5>2
          <6> QED
            BY <1>2, <1>5, <5>2, <6>1 DEF TopAt
        <5> QED
          BY <5>1, <5>2
      <4>3. \A l \in 1..L + 1 : ~(k < l)
        BY <1>1, <3>2
      <4> QED
        BY <4>1, <4>2, <4>3
    <3> QED
      BY <1>7, <3>1, <3>2
  <2>2. OpenBelow(V)'
    <3>1. \A k \in 1..L + 1 : h[k] = V[k]
      BY <1>2, <1>3, <1>4, <1>7
    <3>2. \A k \in L + 1 + 1..L + 1 : FALSE
      BY <1>1
    <3>3. L + 1 <= L + 1
      BY <1>1
    <3> QED
      BY <1>2, <1>3, <3>1, <3>2, <3>3 DEF OpenBelow
  <2> QED
    BY <2>1, <2>2 DEF Tower
<1> PICK s, d : s = session /\ d = depth
  OBVIOUS
<1>10. /\ \A X, k : OnlyFrom(W, X, k) /\ k \in 0..L /\ X \subseteq Writers => \A n \in k..Len(V) : OnlyFrom(V, X, n)'
       /\ \A X : \A k \in 1..L + 1 : Keeps(W, X, k) => Keeps(V, X, k)'
       /\ \A X : Keeps(W, X, L + 1) => Keeps(V, X, Len(V) + 1)'
  BY <1>0, <1>2, OpenedOwners
<1>11. /\ s \in SessionSet /\ session' = s /\ depth' = d /\ d = L + 1 /\ d = Len(V) /\ d > L /\ ~(d > Len(V))
       /\ FramesFit(s.frames, d) /\ SnapsFit(s) /\ DataOwned(W) /\ DataKept(W)
  BY <1>0, <1>1, <1>2 DEF WorkerType, Books
<1>12. s.data \subseteq Writers /\ s.durable \subseteq Writers /\ \A k \in 1..d : Snap(s, k) \subseteq Writers
  <2>1. s.data \subseteq Writers /\ s.durable \subseteq Writers
    BY <1>11, SessionParts
  <2>2. ASSUME NEW k \in 1..d PROVE Snap(s, k) \subseteq Writers
    <3>1. d \in Nat
      BY <1>1, <1>11
    <3>2. Latest(s, k - 1) \in 1..Len(s.frames)
      BY <1>11, <3>1, LevelFrame
    <3> QED
      BY <1>11, <3>2, SessionParts DEF Snap
  <2> QED
    BY <2>1, <2>2
<1>13. DataOwned(V)'
  <2>1. OnlyFrom(V, s.data, d)'
    <3> PICK X : X = s.data
      OBVIOUS
    <3>1. OnlyFrom(W, X, L) /\ L \in 0..L /\ X \subseteq Writers /\ d \in L..Len(V)
      BY <1>1, <1>11, <1>12 DEF DataOwned
    <3>2. OnlyFrom(V, X, d)'
      BY <1>10, <3>1
    <3> QED
      BY <3>2
  <2>2. OnlyFrom(V, s.durable, 0)'
    <3> PICK X, z : X = s.durable /\ z = 0
      OBVIOUS
    <3>1. OnlyFrom(W, X, z) /\ z \in 0..L /\ X \subseteq Writers /\ z \in z..Len(V)
      BY <1>1, <1>2, <1>11, <1>12 DEF DataOwned, One
    <3>2. OnlyFrom(V, X, z)'
      BY <1>10, <3>1
    <3> QED
      BY <3>2
  <2>3. ASSUME NEW k \in 1..d PROVE OnlyFrom(V, Snap(s, k), k - 1)'
    <3> PICK X, n : X = Snap(s, k) /\ n = k - 1
      OBVIOUS
    <3>1. OnlyFrom(W, X, n) /\ X \subseteq Writers
      BY <1>11, <1>12 DEF DataOwned
    <3>2. n \in 0..L /\ n \in n..Len(V)
      BY <1>1, <1>11
    <3>3. OnlyFrom(V, X, n)'
      BY <1>10, <3>1, <3>2
    <3> QED
      BY <3>3
  <2> QED
    BY <1>11, <2>1, <2>2, <2>3 DEF DataOwned, One
<1>14. DataKept(V)'
  <2>1. Keeps(W, s.data, L + 1) /\ Keeps(W, s.durable, 1) /\ \A k \in 1..d : Keeps(W, Snap(s, k), k)
    BY <1>11 DEF DataKept
  <2>2. Keeps(V, s.data, Len(V) + 1)'
    <3> PICK X, n : X = s.data /\ n = Len(V) + 1
      OBVIOUS
    <3>1. Keeps(V, X, n)'
      BY <1>10, <2>1
    <3> QED
      BY <3>1
  <2>3. Keeps(V, s.durable, 1)'
    <3> PICK X, e : X = s.durable /\ e = 1
      OBVIOUS
    <3>1. Keeps(W, X, e) /\ e \in 1..L + 1
      BY <1>1, <2>1
    <3>2. Keeps(V, X, e)'
      BY <1>10, <3>1
    <3> QED
      BY <3>2
  <2>4. ASSUME NEW k \in 1..d PROVE Keeps(V, Snap(s, k), k)'
    <3> PICK X : X = Snap(s, k)
      OBVIOUS
    <3>1. Keeps(W, X, k) /\ k \in 1..L + 1
      BY <1>11, <2>1
    <3>2. Keeps(V, X, k)'
      BY <1>10, <3>1
    <3> QED
      BY <3>2
  <2> QED
    BY <1>11, <2>2, <2>3, <2>4 DEF DataKept
<1>15. Books(V)'
  BY <1>11, <1>13, <1>14 DEF Books
<1>16. Known'
  <2>1. acked \subseteq 0..t
    BY <1>1 DEF Known
  <2> QED
    BY <1>0, <2>1 DEF Known
<1> QED
  BY <1>0, <1>1, <1>2, <1>3, <1>6, <1>8, <1>9, <1>11, <1>15, <1>16

\* begin() returns.
LEMMA BegunInv ==
    ASSUME WorkerInv, alive, call.stage = "reply", job.op = call.op, job.live, job.ok, job.op = "Begin",
           job' = NoJob, Opened, UNCHANGED <<chan, alive, mutex, session, depth, ignore, acked>>
    PROVE  WorkerInv'
<1>0. /\ chan' = chan /\ alive' = alive /\ mutex' = mutex /\ session' = session /\ depth' = depth /\ ignore' = ignore
      /\ acked' = acked
  OBVIOUS
<1>1. WorkerType /\ Numbering /\ CallFits /\ Known /\ begun < MaxTx /\ mutex # "client"
  BY DEF WorkerInv, CallFits
<1>2. PICK W \in Stacks, lev \in [0..Len(chan) -> Nat] : Running(W, lev)
  BY DEF WorkerInv
<1>3. Tower(W) /\ Pipe(W, lev) /\ JobFits(W) /\ DepthFits(W) /\ Books(W)
  BY <1>2 DEF Running
<1>4. Len(chan) = 0 /\ Len(W) = Len(handles) /\ ~ignore /\ depth = Len(W) + 1
  <2>1. chan = <<>> /\ job # NoJob
    BY <1>3 DEF JobFits, NoJob
  <2>2. ~ignore /\ depth = Len(W) + 1
    BY <1>3, <2>1 DEF JobFits, DepthFits
  <2>3. call # Sending("StartRollback")
    BY DEF Sending
  <2>4. lev[0] = Len(W) /\ lev[Len(chan)] = Len(handles)
    BY <1>1, <1>3, <2>3, Parts DEF Pipe, Levels, One
  <2> QED
    BY <2>1, <2>2, <2>3, <2>4
<1>5. PICK V \in Stacks :
         /\ Len(V) = depth' /\ Numbering' /\ Tower(V)' /\ Books(V)' /\ Known'
         /\ handles' \in Seq(Tx) /\ Len(handles') = Len(V) /\ begun' \in 0..MaxTx
         /\ fate' \in [Tx -> Fates] /\ parent' \in [Tx -> Writers] /\ call' = NoCall
  <2>1. \A op \in {"Commit", "Rollback"} : ~Ended(op) /\ ~Ended(op)'
    BY DEF Ended, NoJob
  <2> QED
    BY <1>0, <1>1, <1>3, <1>4, <2>1, OpenedParts
<1>6. call' # Sending("StartRollback") /\ call'.op = "none" /\ call' \in CallSet
  BY <1>5 DEF NoCall, Sending, CallSet
<1>7. PICK m \in [0..Len(chan') -> Nat] : Pipe(V, m)'
  BY <1>0, <1>4, <1>5, <1>6, EmptyPipe
<1>8. JobFits(V)' /\ DepthFits(V)'
  BY <1>0, <1>4, <1>5, <1>6 DEF JobFits, DepthFits, NoJob
<1>9. WorkerType'
  <2>1. job' \in JobSet
    BY DEF NoJob, JobSet
  <2> QED
    BY <1>0, <1>1, <1>5, <1>6, <2>1 DEF WorkerType
<1>10. CallFits'
  BY <1>0, <1>1, <1>6 DEF CallFits
<1>11. Running(V, m)' /\ alive'
  BY <1>0, <1>5, <1>7, <1>8 DEF Running
<1> QED
  BY <1>5, <1>9, <1>10, <1>11, Assemble

\* The client gets the answer.
LEMMA ReceiveInv ==
    ASSUME WorkerInv, alive, Receive
    PROVE  WorkerInv'
<1>1. call.stage = "reply" /\ job.op = call.op /\ job.live /\ job' = NoJob
      /\ UNCHANGED <<chan, alive, mutex, session, depth, ignore, acked>>
  BY DEF Receive
<1>2. \/ job.ok /\ job.op = "Begin" /\ Opened
      \/ job.ok /\ job.op = "BeginWith" /\ call' = Sending("BeginCheck") /\ UNCHANGED <<handles, begun, fate, parent>>
      \/ ~job.ok /\ job.op \in {"Begin", "BeginWith"} /\ call' = NoCall /\ UNCHANGED <<handles, begun, fate, parent>>
      \/ /\ job.ok /\ job.op \in {"Commit", "Rollback"} /\ call' = NoCall /\ handles' = Popped
         /\ fate' = [fate EXCEPT ![Top] = IF job.op = "Commit" THEN "committed" ELSE "aborted"]
         /\ UNCHANGED <<begun, parent>>
      \/ ~job.ok /\ job.op \in {"Commit", "Rollback"} /\ DropOpen("aborted") /\ UNCHANGED <<begun, parent>>
  BY DEF Receive
<1>3. CASE job.ok /\ job.op = "Begin" /\ Opened
  BY <1>1, <1>3, BegunInv
<1>4. CASE job.ok /\ job.op = "BeginWith" /\ call' = Sending("BeginCheck") /\ UNCHANGED <<handles, begun, fate, parent>>
  BY <1>1, <1>4, CheckStartsInv
<1>5. CASE ~job.ok /\ job.op \in {"Begin", "BeginWith"} /\ call' = NoCall /\ UNCHANGED <<handles, begun, fate, parent>>
  BY <1>1, <1>5, RefusedInv
<1>6. CASE /\ job.ok /\ job.op \in {"Commit", "Rollback"} /\ call' = NoCall /\ handles' = Popped
           /\ fate' = [fate EXCEPT ![Top] = IF job.op = "Commit" THEN "committed" ELSE "aborted"]
           /\ UNCHANGED <<begun, parent>>
  BY <1>1, <1>6, EndedInv
<1>7. CASE ~job.ok /\ job.op \in {"Commit", "Rollback"} /\ DropOpen("aborted") /\ UNCHANGED <<begun, parent>>
  BY <1>1, <1>7, FailedEndInv
<1> QED
  BY <1>2, <1>3, <1>4, <1>5, <1>6, <1>7

\* begin_with() has looked at the connection and returns.
LEMMA BeginCheckInv ==
    ASSUME WorkerInv, alive, BeginCheck
    PROVE  WorkerInv'
<1>0. /\ call.op = "BeginCheck" /\ ReleaseMutex(job)
      /\ chan' = chan /\ alive' = alive /\ session' = session /\ depth' = depth /\ ignore' = ignore /\ acked' = acked
  BY DEF BeginCheck
<1>1. WorkerType /\ Numbering /\ CallFits /\ Known /\ begun < MaxTx /\ handles = <<>>
  BY <1>0 DEF WorkerInv, CallFits
<1>2. PICK W \in Stacks, lev \in [0..Len(chan) -> Nat] : Running(W, lev)
  BY DEF WorkerInv
<1>3. Tower(W) /\ Pipe(W, lev) /\ JobFits(W) /\ DepthFits(W) /\ Books(W)
  BY <1>2 DEF Running
<1>4. Len(W) = 0 /\ ~ignore /\ ~job.ok /\ depth = 1 /\ job.op \in {"none", "relock", "queued"}
  <2>1. Len(W) = 0 /\ ~ignore /\ job.op \in {"none", "relock", "queued"} /\ ~job.ok
    BY <1>0, <1>3 DEF JobFits, NoJob
  <2>2. depth = Len(W) + 1
    BY <1>0, <1>3, <2>1 DEF DepthFits
  <2> QED
    BY <2>1, <2>2
<1>5. /\ mutex' \in {"worker", "free"} /\ ~job.live
      /\ job' = job \/ job' = NoJob
  BY <1>0, ReleaseFits
<1>6. Opened
  <2>1. FramesFit(session.frames, 1)
    BY <1>3, <1>4 DEF Books
  <2>2. 0 \in 0..1 - 1
    OBVIOUS
  <2>3. \E i \in 1..Len(session.frames) : session.frames[i].name = 0
    BY <2>1, <2>2 DEF FramesFit
  <2>4. session.frames # <<>>
    BY <2>3
  <2> QED
    BY <2>4 DEF BeginCheck, InTransaction
<1>7. ~job'.ok /\ ~job'.live /\ job' \in JobSet /\ job'.op \in {"none", "relock", "queued"} /\ (job'.op = "none" => job' = NoJob)
  <2>1. job \in JobSet /\ NoJob \in JobSet
    BY <1>1 DEF WorkerType, NoJob, JobSet
  <2>2. job.op = "none" => job = NoJob
    BY <1>3 DEF JobFits
  <2>3. ~NoJob.ok /\ ~NoJob.live /\ NoJob.op = "none"
    BY DEF NoJob
  <2>4. CASE job' = job
    BY <1>4, <1>5, <2>1, <2>2, <2>4
  <2>5. CASE job' = NoJob
    BY <2>1, <2>3, <2>5
  <2> QED
    BY <1>5, <2>4, <2>5
<1>8. PICK V \in Stacks :
         /\ Len(V) = depth' /\ Numbering' /\ Tower(V)' /\ Books(V)' /\ Known'
         /\ handles' \in Seq(Tx) /\ Len(handles') = Len(V) /\ begun' \in 0..MaxTx
         /\ fate' \in [Tx -> Fates] /\ parent' \in [Tx -> Writers] /\ call' = NoCall
  <2>1. \A op \in {"Commit", "Rollback"} : ~Ended(op) /\ ~Ended(op)'
    BY <1>4, <1>7 DEF Ended
  <2>2. Len(W) = Len(handles) /\ depth = Len(W) + 1
    BY <1>1, <1>4
  <2> QED
    BY <1>0, <1>1, <1>3, <1>6, <2>1, <2>2, OpenedParts
<1>9. call' # Sending("StartRollback") /\ call'.op = "none" /\ call' \in CallSet
  BY <1>8 DEF NoCall, Sending, CallSet
<1> PICK m, L : L = Len(chan) /\ m = [i \in 0..L |-> 1]
  OBVIOUS
<1>10. m \in [0..Len(chan') -> Nat] /\ L \in Nat /\ \A i \in 0..L : m[i] = 1
  BY <1>0, <1>1, Parts
<1>11. \A i \in 1..L : chan[i].op = "BeginCheck"
  BY <1>0, <1>3 DEF Pipe, CommandFits
<1>12. Pipe(V, m)'
  <2>1. Levels(V, m)'
    <3>1. One(call' = Sending("StartRollback")) = 0 /\ 0 \in 0..L /\ L \in 0..L
      BY <1>9, <1>10 DEF One
    <3>2. ASSUME NEW i \in 1..L PROVE m[i - 1] = m[i] + One(chan'[i].op = "StartRollback")
      <4>1. i - 1 \in 0..L /\ i \in 0..L
        BY <1>10
      <4>2. One(chan'[i].op = "StartRollback") = 0
        BY <1>0, <1>11 DEF One
      <4> QED
        BY <1>10, <4>1, <4>2
    <3>3. Len(V) = 1 /\ Len(handles') = 1
      BY <1>0, <1>4, <1>8
    <3> QED
      BY <1>0, <1>10, <3>1, <3>2, <3>3 DEF Levels
  <2>2. \A i \in 1..L : CommandFits(V, m, i)'
    BY <1>0, <1>9, <1>11 DEF CommandFits
  <2> QED
    BY <1>0, <2>1, <2>2 DEF Pipe
<1>13. JobFits(V)' /\ DepthFits(V)'
  BY <1>0, <1>4, <1>7, <1>8, <1>9 DEF JobFits, DepthFits
<1>14. WorkerType'
  BY <1>0, <1>1, <1>5, <1>7, <1>8, <1>9 DEF WorkerType
<1>15. CallFits'
  BY <1>5, <1>9 DEF CallFits
<1>16. Running(V, m)' /\ alive'
  BY <1>0, <1>8, <1>12, <1>13 DEF Running
<1> QED
  BY <1>8, <1>10, <1>14, <1>15, <1>16, Assemble

-----------------------------------------------------------------------------
(* The client, after the thread has ended.                                 *)

\* Whatever the client does with no transaction to end changes nothing.
LEMMA CeasedKept ==
    ASSUME WorkerInv, ~alive, UNCHANGED <<alive, depth, ignore, handles, begun, fate, parent, acked>>,
           chan' = <<>>, job' = NoJob, session' = session \/ (handles = <<>> /\ session' = RolledBack(session)),
           call' \in CallSet, call'.op # "BeginCheck", CallFits', mutex' \in {"worker", "client", "free"}
    PROVE  WorkerInv'
<1> PICK H, s, t : H = handles /\ s = session /\ t = session'
  OBVIOUS
<1>0. /\ alive' = alive /\ depth' = depth /\ ignore' = ignore /\ handles' = H /\ begun' = begun
      /\ fate' = fate /\ parent' = parent /\ acked' = acked
  OBVIOUS
<1>1. WorkerType /\ Numbering /\ Known /\ s \in SessionSet
  BY DEF WorkerInv, WorkerType
<1>2. /\ Nested(H) /\ s.durable \subseteq s.data /\ OnlyFrom(H, s.durable, 0)
      /\ Keeps(H, s.data, Len(H) + 1) /\ Keeps(H, s.durable, 1)
  BY DEF WorkerInv, Ceased
<1>3. /\ t \in SessionSet /\ t.durable = s.durable /\ t.durable \subseteq t.data
      /\ t.data = s.data \/ (t.data = s.durable /\ Len(H) = 0)
  <2>1. CASE t = s
    BY <2>1, <1>1, <1>2
  <2>2. CASE handles = <<>> /\ t = RolledBack(s)
    <3>1. s.durable \in SUBSET Writers
      BY <1>1, SessionParts
    <3>2. t = [frames |-> <<>>, data |-> s.durable, durable |-> s.durable, failed |-> FALSE]
      BY <2>2 DEF RolledBack
    <3> QED
      BY <2>2, <3>1, <3>2 DEF SessionSet
  <2> QED
    BY <2>1, <2>2
<1>4. /\ \A X, k : OnlyFrom(H, X, k)' <=> OnlyFrom(H, X, k)
      /\ \A X, k : Keeps(H, X, k)' <=> Keeps(H, X, k)
  BY SameOwners, Zenon
<1>5. Keeps(H, t.data, Len(H) + 1)
  BY <1>2, <1>3
<1>6. Nested(H)'
  BY <1>0, <1>2 DEF Nested
<1>7. Ceased'
  BY <1>0, <1>2, <1>3, <1>4, <1>5, <1>6 DEF Ceased
<1>8. WorkerType'
  <2>1. chan' \in Seq(CommandSet) /\ Len(chan') <= ChannelSize /\ job' \in JobSet
    BY EmptyChannel DEF NoJob, JobSet
  <2> QED
    BY <1>0, <1>1, <1>3, <2>1 DEF WorkerType
<1>9. Numbering'
  BY <1>0, <1>1 DEF Numbering
<1>10. Known'
  BY <1>0, <1>1, <1>3 DEF Known
<1> QED
  BY <1>0, <1>7, <1>8, <1>9, <1>10, AssembleCeased

\* A transaction is given up.
LEMMA CeasedDrop ==
    ASSUME WorkerInv, ~alive, UNCHANGED <<alive, session, depth, ignore, begun, parent, acked>>,
           chan' = <<>>, job' = NoJob, handles # <<>>, call' = Sending("StartRollback"), handles' = Popped,
           NEW f \in {"aborted", "unknown"}, fate' = [fate EXCEPT ![Top] = f], mutex' \in {"worker", "free"}
    PROVE  WorkerInv'
<1> PICK W, V, x, s : W = handles /\ V = handles' /\ x = Top /\ s = session
  OBVIOUS
<1>0. /\ alive' = alive /\ session' = s /\ depth' = depth /\ ignore' = ignore /\ begun' = begun
      /\ parent' = parent /\ acked' = acked
  OBVIOUS
<1>1. WorkerType /\ Numbering /\ Known /\ fate \in [Tx -> Fates]
  BY DEF WorkerInv, WorkerType
<1>2. /\ Nested(W) /\ Nested(handles) /\ s.durable \subseteq s.data /\ OnlyFrom(W, s.durable, 0)
      /\ Keeps(W, s.data, Len(W) + 1) /\ Keeps(W, s.durable, 1)
  BY DEF WorkerInv, Ceased
<1>3. /\ Numbering' /\ V \in Seq(Tx) /\ Len(V) = Len(W) - 1
      /\ \A k \in 1..Len(V) : V[k] = W[k]
      /\ Len(W) \in 1..Len(W)
      /\ x \in Tx /\ x = W[Len(W)] /\ fate[x] = "open" /\ fate' \in [Tx -> Fates] /\ fate' = [fate EXCEPT ![x] = f]
  <2>1. f \in Fates \ {"open", "new"}
    BY DEF Fates
  <2> QED
    BY <1>1, <1>2, <2>1, PopParts
<1>4. Len(W) \in Nat /\ Len(V) \in Nat /\ Len(W) = Len(V) + 1
  BY <1>1, <1>3, Parts
<1>5. Nested(V)'
  <2> SUFFICES ASSUME NEW k \in 1..Len(V)
               PROVE  /\ V[k] <= begun /\ parent[V[k]] = IF k = 1 THEN Outside ELSE V[k - 1]
                      /\ \A l \in 1..Len(V) : k < l => V[k] < V[l]
    BY <1>0 DEF Nested
  <2>1. \A l \in 1..Len(V) : l \in 1..Len(W) /\ (l # 1 => l - 1 \in 1..Len(V))
    BY <1>4
  <2>2. /\ W[k] <= begun /\ parent[W[k]] = IF k = 1 THEN Outside ELSE W[k - 1]
        /\ \A l \in 1..Len(W) : k < l => W[k] < W[l]
    BY <1>2, <2>1 DEF Nested
  <2> QED
    BY <1>3, <2>1, <2>2
<1> PICK z, e, n, h, D, Y : z = 0 /\ e = 1 /\ n = Len(W) + 1 /\ h = Len(V) + 1 /\ D = s.data /\ Y = s.durable
  OBVIOUS
<1>6. OnlyFrom(V, Y, z)'
  <2>1. OnlyFrom(W, Y, z) /\ UNCHANGED <<begun, parent>> /\ \A l \in 1..z : FALSE
    BY <1>2
  <2> QED
    BY ONLY <2>1, <1>1, <1>3, EndOwned
<1>7. Keeps(V, D, h)' /\ Keeps(V, Y, e)'
  <2>1. Keeps(W, D, n) /\ Keeps(W, Y, e) /\ UNCHANGED <<parent, acked>> /\ f \in {"aborted", "unknown"}
    BY <1>2
  <2>2. \A l \in n..Len(W) : W[l] = x \/ (l \in h..Len(V) /\ V[l] = W[l])
    BY <1>4
  <2>3. \A l \in e..Len(W) : W[l] = x \/ (l \in e..Len(V) /\ V[l] = W[l])
    <3>1. \A l \in e..Len(W) : l = Len(W) \/ l \in e..Len(V)
      BY <1>4
    <3> QED
      BY <1>3, <3>1
  <2>4. Keeps(V, D, h)'
    BY ONLY <2>1, <2>2, <1>1, <1>3, EndKept
  <2>5. Keeps(V, Y, e)'
    BY ONLY <2>1, <2>3, <1>1, <1>3, EndKept
  <2> QED
    BY <2>4, <2>5
<1>8. call'.op = "StartRollback" /\ call'.stage = "send" /\ call' \in CallSet
  BY DEF Sending, CallSet
<1>9. Ceased'
  BY <1>0, <1>2, <1>5, <1>6, <1>7, <1>8 DEF Ceased
<1>10. WorkerType'
  <2>1. chan' \in Seq(CommandSet) /\ Len(chan') <= ChannelSize /\ job' \in JobSet
    BY EmptyChannel DEF NoJob, JobSet
  <2> QED
    BY <1>0, <1>1, <1>3, <1>8, <2>1 DEF WorkerType
<1>11. CallFits'
  BY <1>8 DEF CallFits
<1>12. Known'
  BY <1>0, <1>1 DEF Known
<1> QED
  BY <1>0, <1>3, <1>9, <1>10, <1>11, <1>12, AssembleCeased

\* A step of the client after the thread has ended.
LEMMA CeasedInv ==
    ASSUME Settled, WorkerInv, ~alive, Next
    PROVE  WorkerInv'
<1>0. /\ WorkerType /\ CallFits /\ chan = <<>> /\ job = NoJob /\ call.op # "BeginCheck" /\ ~job.live /\ job.op = "none"
      /\ mutex \in {"worker", "client", "free"}
  BY DEF WorkerInv, Ceased, WorkerType, NoJob
<1>1. ~Send /\ ~Receive /\ ~BeginCheck /\ ~WorkerStep
  <2>1. ~Send /\ ~Receive /\ ~BeginCheck
    BY <1>0 DEF Send, Receive, BeginCheck
  <2>2. \A op : ~Takes(op)
    BY DEF Takes
  <2>3. ~DoBegin /\ ~DoBeginWith /\ ~DoCommit /\ ~DoRollback /\ ~DoStartRollback /\ ~DoExecute /\ ~DoPing /\ ~DoUnlockDb
    BY <2>2 DEF DoBegin, DoBeginWith, DoCommit, DoRollback, DoStartRollback, DoExecute, DoPing, DoUnlockDb
  <2>4. ~UnacknowledgedBegin /\ ~UnacknowledgedEnd /\ ~Relock /\ ~DoShutdown /\ ~Disconnected
    BY <2>2 DEF UnacknowledgedBegin, UnacknowledgedEnd, Relock, DoShutdown, Disconnected
  <2> QED
    BY <2>1, <2>3, <2>4 DEF WorkerStep
<1>2. ASSUME NEW op \in Calls, Start(op) PROVE WorkerInv'
  <2>0. /\ call = NoCall /\ call' = Sending(op) /\ (op \in {"Begin", "BeginWith"} => begun < MaxTx)
        /\ (op \in {"Commit", "Rollback"} => handles # <<>>)
        /\ UNCHANGED <<chan, job, alive, mutex, session, depth, ignore, handles, begun, fate, parent, acked>>
    BY <1>2 DEF Start, worker
  <2>1. op \in AllCalls
    BY WorkerAssumption
  <2>2. op \notin {"BeginCheck", "Shutdown", "closed", "StartRollback"}
    BY <2>1 DEF AllCalls
  <2>3. call'.op = op /\ call' \in CallSet
    BY <2>0, <2>1 DEF Sending, CallSet
  <2>4. CallFits'
    <3>1. mutex # "client"
      BY <1>0, <2>0 DEF CallFits, NoCall
    <3> QED
      BY <2>0, <2>2, <2>3, <3>1 DEF CallFits
  <2> QED
    BY <1>0, <2>0, <2>2, <2>3, <2>4, CeasedKept
<1>3. ASSUME DropTransaction PROVE WorkerInv'
  <2> PICK f : f = "aborted"
    OBVIOUS
  <2>0. /\ call = NoCall /\ handles # <<>> /\ call' = Sending("StartRollback") /\ handles' = Popped
        /\ fate' = [fate EXCEPT ![Top] = f] /\ f \in {"aborted", "unknown"}
        /\ UNCHANGED <<chan, job, mutex, alive, session, depth, ignore, begun, parent, acked>>
    BY <1>3 DEF DropTransaction, worker
  <2>1. mutex' \in {"worker", "free"}
    BY <1>0, <2>0 DEF CallFits, NoCall
  <2> QED
    BY <1>0, <2>0, <2>1, CeasedDrop
<1>4. ASSUME Close \/ DropConnection PROVE WorkerInv'
  <2>0. /\ call = NoCall /\ handles = <<>> /\ call' \in {Closed, Sending("Shutdown")}
        /\ session' = session \/ session' = RolledBack(session)
        /\ UNCHANGED <<chan, job, alive, mutex, depth, ignore, handles, begun, fate, parent, acked>>
    BY <1>4 DEF Close, DropConnection, worker
  <2>1. call'.op \in {"closed", "Shutdown"} /\ call' \in CallSet
    BY <2>0 DEF Sending, CallSet, Closed
  <2>2. CallFits'
    <3>1. mutex # "client"
      BY <1>0, <2>0 DEF CallFits, NoCall
    <3> QED
      BY <2>0, <2>1, <3>1 DEF CallFits
  <2> QED
    BY <1>0, <2>0, <2>1, <2>2, CeasedKept
<1>5. ASSUME TakeLock PROVE WorkerInv'
  <2>0. /\ call.op \in {"Lock", "BeginCheck"} /\ mutex' = "client"
        /\ UNCHANGED <<chan, job, alive, session, depth, ignore, call, handles, begun, fate, parent, acked>>
    BY <1>5 DEF TakeLock, client
  <2>1. CallFits' /\ call' \in CallSet
    BY <1>0, <2>0 DEF CallFits, WorkerType
  <2> QED
    BY <1>0, <2>0, <2>1, CeasedKept
<1>6. ASSUME Unlock PROVE WorkerInv'
  <2>0. /\ call' = NoCall /\ mutex' = "free" /\ job' = job
        /\ UNCHANGED <<chan, alive, session, depth, ignore, handles, begun, fate, parent, acked>>
    BY <1>0, <1>6 DEF Unlock, ReleaseMutex
  <2>1. CallFits' /\ call' \in CallSet /\ call'.op # "BeginCheck"
    BY <2>0 DEF CallFits, CallSet, NoCall
  <2> QED
    BY <1>0, <2>0, <2>1, CeasedKept
<1>7. ASSUME Cancel PROVE WorkerInv'
  <2>1. chan' = <<>>
    <3>1. chan' = Abandoned(chan) /\ Len(chan) = 0
      BY <1>0, <1>7 DEF Cancel
    <3>2. chan' \in Seq(CommandSet) /\ Len(chan') = 0
      BY <1>0, <3>1, AbandonedFits
    <3> QED
      BY ONLY <3>2
  <2>2. job' = NoJob /\ mutex' \in {"worker", "free"}
    <3>1. CASE mutex = "client"
      BY <1>0, <1>7, <3>1 DEF Cancel, ReleaseMutex
    <3>2. CASE mutex # "client"
      <4>1. job' = [job EXCEPT !.live = FALSE] /\ mutex' = mutex /\ job \in JobSet
        BY <1>0, <1>7, <3>2 DEF Cancel, WorkerType
      <4>2. job' = job
        BY <1>0, <4>1, Unheard
      <4> QED
        BY <1>0, <3>2, <4>1, <4>2
    <3> QED
      BY <3>1, <3>2
  <2>3. UNCHANGED <<alive, session, depth, ignore, begun, parent, acked>>
    BY <1>7 DEF Cancel
  <2>4. CASE call.op \in {"Commit", "Rollback"}
    <3> PICK f : f = IF call.op = "Commit" THEN "unknown" ELSE "aborted"
      OBVIOUS
    <3>1. /\ call' = Sending("StartRollback") /\ handles' = Popped /\ fate' = [fate EXCEPT ![Top] = f]
          /\ f \in {"aborted", "unknown"}
      BY <1>7, <2>4 DEF Cancel, DropOpen
    <3>2. handles # <<>>
      BY <1>0, <2>4 DEF CallFits
    <3> QED
      BY <2>1, <2>2, <2>3, <3>1, <3>2, CeasedDrop
  <2>5. CASE call.op \notin {"Commit", "Rollback"}
    <3>1. call' = NoCall /\ UNCHANGED <<handles, fate>>
      BY <1>7, <2>5 DEF Cancel
    <3>2. CallFits' /\ call' \in CallSet /\ call'.op # "BeginCheck"
      BY <2>2, <3>1 DEF CallFits, CallSet, NoCall
    <3> QED
      BY <2>1, <2>2, <2>3, <3>1, <3>2, CeasedKept
  <2> QED
    BY <2>4, <2>5
<1>8. ASSUME Crashed PROVE WorkerInv'
  <2>0. mutex' = "free" /\ UNCHANGED <<chan, job, alive, depth, ignore, begun, parent, acked>>
    BY <1>8 DEF Crashed
  <2>1. CASE call.op \in {"Commit", "Rollback"}
    <3> PICK f : f = "aborted"
      OBVIOUS
    <3>1. /\ call' = Sending("StartRollback") /\ handles' = Popped /\ fate' = [fate EXCEPT ![Top] = f]
          /\ f \in {"aborted", "unknown"} /\ session' = session
      BY <1>8, <2>1 DEF Crashed, DropOpen
    <3>2. handles # <<>>
      BY <1>0, <2>1 DEF CallFits
    <3> QED
      BY <1>0, <2>0, <3>1, <3>2, CeasedDrop
  <2>2. CASE call.op \notin {"Commit", "Rollback"}
    <3>1. /\ call' = (IF call.op = "Shutdown" THEN Closed ELSE NoCall) /\ UNCHANGED <<handles, fate>>
          /\ session' = IF call.op = "Shutdown" THEN RolledBack(session) ELSE session
      BY <1>8, <2>2 DEF Crashed
    <3>2. call.op = "Shutdown" => handles = <<>>
      BY <1>0 DEF CallFits
    <3>3. CallFits' /\ call' \in CallSet /\ call'.op # "BeginCheck"
      BY <2>0, <3>1, <3>2 DEF CallFits, CallSet, NoCall, Closed
    <3> QED
      BY <1>0, <2>0, <3>1, <3>2, <3>3, CeasedKept
  <2> QED
    BY <2>1, <2>2
<1> QED
  BY <1>1, <1>2, <1>3, <1>4, <1>5, <1>6, <1>7, <1>8 DEF Next, ClientStep

-----------------------------------------------------------------------------
(* The theorems.                                                           *)

\* The invariant holds in the initial state.
LEMMA InitInv ==
    ASSUME Init
    PROVE  WorkerInv
<1>0. /\ chan = <<>> /\ job = NoJob /\ alive = TRUE /\ mutex = "worker" /\ session = NewSession /\ depth = 0
      /\ ignore = FALSE /\ call = NoCall /\ handles = <<>> /\ begun = 0 /\ acked = {}
      /\ fate = [i \in Tx |-> "new"] /\ parent = [i \in Tx |-> Outside]
  BY DEF Init
<1>1. session.frames = <<>> /\ session.data = {} /\ session.durable = {} /\ session \in SessionSet
  BY <1>0 DEF NewSession, SessionSet
<1>2. WorkerType
  <2>1. chan \in Seq(CommandSet) /\ Len(chan) <= ChannelSize
    BY <1>0, EmptyChannel
  <2>2. job \in JobSet /\ call \in CallSet
    BY <1>0 DEF NoJob, JobSet, CallSet
  <2>3. fate \in [Tx -> Fates] /\ parent \in [Tx -> Writers]
    BY <1>0 DEF Fates, Writers
  <2>4. begun \in 0..MaxTx /\ handles \in Seq(Tx)
    BY <1>0, TxNumbers
  <2> QED
    BY <1>0, <1>1, <2>1, <2>2, <2>3, <2>4 DEF WorkerType
<1>3. Numbering
  <2>1. \A x \in Tx : fate[x] = "new" /\ parent[x] = Outside /\ ~(x <= begun)
    BY <1>0, TxNumbers
  <2>2. \A k \in 1..Len(handles) : FALSE
    BY <1>0
  <2> QED
    BY <2>1, <2>2 DEF Numbering
<1>4. CallFits /\ Known
  BY <1>0 DEF CallFits, Known, NoCall
<1> PICK W, lev : W = <<>> /\ lev = [i \in 0..0 |-> 0]
  OBVIOUS
<1>5. W \in Stacks /\ Len(W) = 0 /\ Len(chan) = 0 /\ Len(handles) = 0 /\ lev \in [0..Len(chan) -> Nat] /\ lev[0] = 0
  BY <1>0 DEF Stacks
<1>6. Tower(W)
  BY <1>5 DEF Tower, Nested, OpenBelow
<1>7. Pipe(W, lev)
  <2>1. call # Sending("StartRollback")
    BY <1>0 DEF NoCall, Sending
  <2>2. (\A i \in 1..0 : FALSE) /\ \A i \in 0..0 : i = 0
    OBVIOUS
  <2> QED
    BY <1>5, <2>1, <2>2 DEF Pipe, Levels, One
<1>8. JobFits(W) /\ DepthFits(W)
  BY <1>0, <1>5 DEF JobFits, DepthFits, NoJob, NoCall
<1>9. Books(W)
  <2>1. FramesFit(session.frames, depth)
    BY <1>0, <1>1 DEF FramesFit
  <2>2. SnapsFit(session)
    BY <1>1 DEF SnapsFit
  <2>3. \A k \in 1..depth : FALSE
    BY <1>0
  <2>4. DataOwned(W)
    BY <1>1, <2>3 DEF DataOwned, OnlyFrom
  <2>5. DataKept(W)
    BY <1>0, <2>3 DEF DataKept, Keeps
  <2> QED
    BY <2>1, <2>2, <2>4, <2>5 DEF Books
<1> QED
  BY <1>0, <1>2, <1>3, <1>4, <1>5, <1>6, <1>7, <1>8, <1>9 DEF WorkerInv, Running

\* Every step keeps it.
LEMMA NextInv ==
    ASSUME Settled, WorkerInv, Next
    PROVE  WorkerInv'
<1>1. CASE ~alive
  BY <1>1, CeasedInv
<1>2. CASE alive
  <2>1. CASE WorkerStep
    BY <2>1, BeginInv, BeginWithInv, CommitInv, RollbackInv, StartRollbackInv, UnacknowledgedBeginInv,
       UnacknowledgedEndInv, ExecuteInv, PingInv, UnlockDbInv, RelockInv, ShutdownInv, DisconnectedInv DEF WorkerStep
  <2>2. ~Crashed
    BY <1>2 DEF Crashed
  <2>3. CASE ClientStep
    BY <1>2, <2>2, <2>3, SendInv, ReceiveInv, TakeLockInv, UnlockInv, BeginCheckInv DEF ClientStep
  <2>4. CASE Cancel
    BY <1>2, <2>4, CancelCallInv, CancelEndInv
  <2>5. CASE DropTransaction
    BY <1>2, <2>5, DropTransactionInv
  <2>6. CASE Close \/ DropConnection
    BY <1>2, <2>6, CloseInv
  <2>7. CASE \E op \in Calls : Start(op)
    BY <1>2, <2>7, StartInv
  <2> QED
    BY <2>1, <2>3, <2>4, <2>5, <2>6, <2>7 DEF Next
<1> QED
  BY <1>1, <1>2

\* The same of the stack after a step.
LEMMA EnclosedInStack ==
    ASSUME NEW W \in Stacks, Nested(W)', NEW k \in 1..Len(W), NEW j \in Enclosing(W[k])'
    PROVE  \E l \in 1..k : W[l] = j
<1> PICK S : S = {x \in Tx : \E l \in 1..k : W[l] = x}
  OBVIOUS
<1> PICK i : i = W[k]
  OBVIOUS
<1>0. Len(W) \in Nat /\ \A h \in 1..Len(W) : W[h] \in Tx
  BY DEF Stacks
<1>1. i \in S /\ S \in SUBSET Tx
  BY <1>0
<1>2. ASSUME NEW x \in S PROVE parent'[x] \in S \cup {Outside}
  <2>1. PICK l \in 1..k : W[l] = x
    BY <1>2
  <2>2. l \in 1..Len(W)
    BY <1>0, <2>1
  <2>3. parent'[x] = IF l = 1 THEN Outside ELSE W[l - 1]
    BY <2>1, <2>2 DEF Nested
  <2>4. CASE l = 1
    BY <2>3, <2>4
  <2>5. CASE l # 1
    <3>1. l - 1 \in 1..k /\ l - 1 \in 1..Len(W)
      BY <1>0, <2>1, <2>2, <2>5
    <3>2. parent'[x] = W[l - 1] /\ W[l - 1] \in Tx
      BY <2>3, <2>5, <3>1, <1>0
    <3> QED
      BY <3>1, <3>2
  <2> QED
    BY <2>4, <2>5
<1>3. j \in Enclosing(i)'
  OBVIOUS
<1>4. \A T \in SUBSET Tx : (i \in T /\ \A x \in T : parent'[x] \in T \cup {Outside}) => j \in T
  BY <1>3 DEF Enclosing
<1>5. j \in S
  BY ONLY <1>1, <1>2, <1>4
<1> QED
  BY <1>5

\* And so does a step that changes nothing.
LEMMA StutterInv ==
    ASSUME WorkerInv, UNCHANGED vars
    PROVE  WorkerInv'
<1>0. /\ chan' = chan /\ job' = job /\ alive' = alive /\ mutex' = mutex /\ session' = session /\ depth' = depth
      /\ ignore' = ignore /\ call' = call /\ handles' = handles /\ begun' = begun /\ fate' = fate
      /\ parent' = parent /\ acked' = acked
  BY DEF vars
<1>1. WorkerType' /\ CallFits' /\ Known' /\ Numbering'
  BY <1>0 DEF WorkerInv, WorkerType, CallFits, Known, Numbering
<1>2. CASE alive
  <2>1. PICK W \in Stacks, lev \in [0..Len(chan) -> Nat] : Running(W, lev)
    BY <1>2 DEF WorkerInv
  <2>2. Tower(W)' /\ Pipe(W, lev)'
    BY <1>0, <2>1, TowerKept, PipeKept DEF Running, WorkerInv
  <2>3. JobFits(W)' /\ DepthFits(W)'
    <3>1. RollbackComes(0)' <=> RollbackComes(0)
      BY <1>0 DEF RollbackComes
    <3> QED
      BY <1>0, <2>1, <3>1 DEF Running, JobFits, DepthFits
  <2>4. Books(W)'
    <3>1. \A op \in {"Commit", "Rollback"} : Ended(op)' <=> Ended(op)
      BY <1>0 DEF Ended
    <3> QED
      BY <1>0, <2>1, <3>1, BooksKept DEF Running
  <2>5. Running(W, lev)' /\ alive' /\ lev \in [0..Len(chan') -> Nat]
    BY <1>0, <1>2, <2>2, <2>3, <2>4 DEF Running
  <2> QED
    BY <1>1, <2>5, Assemble
<1>3. CASE ~alive
  <2>1. /\ chan' = <<>> /\ job' = NoJob /\ call'.op # "BeginCheck" /\ call' \in CallSet
        /\ mutex' \in {"worker", "client", "free"}
    BY <1>0, <1>3 DEF WorkerInv, Ceased, WorkerType
  <2> QED
    BY <1>0, <1>1, <1>3, <2>1, CeasedKept
<1> QED
  BY <1>2, <1>3

\* What the invariant says of a drained channel.
LEMMA DepthExact ==
    ASSUME WorkerInv
    PROVE  DepthAgrees
<1> SUFFICES ASSUME alive, chan = <<>>, job = NoJob, call = NoCall
             PROVE  depth = Len(handles) /\ (InTransaction(session) <=> handles # <<>>)
  BY DEF DepthAgrees, Quiescent
<1>1. WorkerType
  BY DEF WorkerInv
<1>2. PICK W \in Stacks, lev \in [0..Len(chan) -> Nat] : Running(W, lev)
  BY DEF WorkerInv
<1>3. Len(chan) = 0 /\ call # Sending("StartRollback") /\ call.op # "BeginCheck" /\ ~job.ok
  BY DEF NoCall, Sending, NoJob
<1>4. Len(W) = Len(handles) /\ Len(handles) \in Nat
  BY <1>1, <1>2, <1>3, Parts DEF Running, Pipe, Levels, One
<1>5. ~ignore
  BY <1>2, <1>3 DEF Running, JobFits, RollbackComes
<1>6. depth = Len(handles)
  BY <1>2, <1>3, <1>4, <1>5 DEF Running, DepthFits
<1>7. FramesFit(session.frames, depth)
  BY <1>2 DEF Running, Books
<1>8. depth = 0 => session.frames = <<>> /\ handles = <<>>
  <2>1. handles \in Seq(Tx)
    BY <1>1 DEF WorkerType
  <2>2. Len(handles) = 0 => handles = <<>>
    BY <2>1
  <2>3. depth = 0 => session.frames = <<>>
    BY <1>7 DEF FramesFit
  <2> QED
    BY <1>6, <2>2, <2>3
<1>9. depth # 0 => session.frames # <<>> /\ handles # <<>>
  <2> SUFFICES ASSUME depth # 0 PROVE session.frames # <<>> /\ handles # <<>>
    OBVIOUS
  <2>1. 0 \in 0..depth - 1
    BY <1>4, <1>6
  <2>2. \E i \in 1..Len(session.frames) : session.frames[i].name = 0
    BY <1>7, <2>1 DEF FramesFit
  <2> QED
    BY <1>6, <2>2
<1> QED
  BY <1>6, <1>8, <1>9 DEF InTransaction

\* What it says of the durable writes.
LEMMA DurableExact ==
    ASSUME WorkerInv
    PROVE  CommitDurable /\ AbortedNeverDurable
<1>0. WorkerType /\ Numbering
  BY DEF WorkerInv
<1>1. \A k \in 1..Len(handles) : handles[k] \in Tx /\ fate[handles[k]] = "open"
  BY <1>0, Parts DEF Numbering
<1> PICK Y : Y = session.durable
  OBVIOUS
<1>2. \E W \in Stacks : /\ Keeps(W, Y, 1) /\ \A l \in 1..Len(W) : fate[W[l]] # "committed"
                        /\ \A i \in Y \ {Outside} : \A j \in Enclosing(i) : fate[j] \in {"open", "committed", "unknown"}
  <2>1. CASE ~alive
    <3> PICK W : W = handles
      OBVIOUS
    <3>1. W \in Stacks /\ \A l \in 1..Len(W) : fate[W[l]] # "committed"
      BY <1>0, <1>1 DEF WorkerType, Stacks
    <3>2. Keeps(W, Y, 1) /\ OnlyFrom(W, Y, 0)
      BY <2>1 DEF WorkerInv, Ceased
    <3>3. \A i \in Y \ {Outside} : \A j \in Enclosing(i) : fate[j] \in {"committed", "unknown"}
      <4>1. \A l \in 1..0 : FALSE
        OBVIOUS
      <4> QED
        BY <3>2, <4>1 DEF OnlyFrom
    <3> QED
      BY <3>1, <3>2, <3>3
  <2>2. CASE alive
    <3>1. PICK W \in Stacks, lev \in [0..Len(chan) -> Nat] : Running(W, lev)
      BY <2>2 DEF WorkerInv
    <3>2. /\ Len(W) \in Nat /\ Len(handles) \in Nat /\ Len(handles) <= Len(W)
          /\ \A k \in 1..Len(handles) : handles[k] = W[k]
          /\ \A k \in Len(handles) + 1..Len(W) : fate[W[k]] \in {"aborted", "unknown"}
      BY <1>0, <3>1, Parts, StackParts DEF Running, Tower, OpenBelow
    <3>3. \A l \in 1..Len(W) : fate[W[l]] # "committed"
      <4>1. \A l \in 1..Len(W) : l \in 1..Len(handles) \/ l \in Len(handles) + 1..Len(W)
        BY <3>2
      <4> QED
        BY <1>1, <3>2, <4>1
    <3>4. Keeps(W, Y, 1)
      BY <3>1 DEF Running, Books, DataKept
    <3>5. OnlyFrom(W, Y, One(Ended("Commit") /\ depth = 0))
      BY <3>1 DEF Running, Books, DataOwned
    <3>6. \A l \in 1..One(Ended("Commit") /\ depth = 0) : fate[W[l]] = "open"
      <4>1. CASE Ended("Commit") /\ depth = 0
        <5>1. chan = <<>> /\ call = [op |-> "Commit", stage |-> "reply"] /\ Len(W) - 1 = 0
          BY <3>1, <4>1 DEF Running, JobFits, DepthFits, Ended
        <5>2. Len(chan) = 0 /\ call # Sending("StartRollback")
          BY <5>1 DEF Sending
        <5>3. Len(W) = Len(handles)
          BY <3>1, <3>2, <5>2 DEF Running, Pipe, Levels, One
        <5>4. 1 \in 1..Len(handles) /\ \A l \in 1..1 : l = 1
          BY <3>2, <5>1, <5>3
        <5>5. fate[W[1]] = "open"
          BY <1>1, <3>2, <5>4
        <5>6. One(Ended("Commit") /\ depth = 0) = 1
          BY <4>1 DEF One
        <5> QED
          BY <5>4, <5>5, <5>6
      <4>2. CASE ~(Ended("Commit") /\ depth = 0)
        BY <4>2 DEF One
      <4> QED
        BY <4>1, <4>2
    <3>7. \A i \in Y \ {Outside} : \A j \in Enclosing(i) : fate[j] \in {"open", "committed", "unknown"}
      <4> PICK o : o = One(Ended("Commit") /\ depth = 0)
        OBVIOUS
      <4>1. OnlyFrom(W, Y, o) /\ \A l \in 1..o : fate[W[l]] = "open"
        BY <3>5, <3>6
      <4> SUFFICES ASSUME NEW i \in Y \ {Outside}, NEW j \in Enclosing(i)
                   PROVE  fate[j] \in {"open", "committed", "unknown"}
        OBVIOUS
      <4>2. (\E l \in 1..o : W[l] = j) \/ fate[j] \in {"committed", "unknown"}
        BY <4>1 DEF OnlyFrom
      <4> QED
        BY <4>1, <4>2
    <3> QED
      BY <3>3, <3>4, <3>7
  <2> QED
    BY <2>1, <2>2
<1>3. PICK W \in Stacks : /\ Keeps(W, Y, 1) /\ \A l \in 1..Len(W) : fate[W[l]] # "committed"
                          /\ \A i \in Y \ {Outside} : \A j \in Enclosing(i) : fate[j] \in {"open", "committed", "unknown"}
  BY <1>2
<1>4. CommitDurable
  <2> SUFFICES ASSUME NEW i \in acked \ {Outside}, \A j \in Enclosing(i) : fate[j] = "committed"
               PROVE  i \in Y
    BY DEF CommitDurable
  <2>1. \A j \in Enclosing(i) : fate[j] \in {"committed", "open"} /\ \A l \in 1..Len(W) : W[l] # j
    BY <1>3
  <2> QED
    BY <1>3, <2>1 DEF Keeps
<1>5. AbortedNeverDurable
  BY <1>3 DEF AbortedNeverDurable
<1> QED
  BY <1>4, <1>5

\* The invariant is what makes the transactions exact.
LEMMA InvExact ==
    ASSUME WorkerInv
    PROVE  TransactionsExact
<1>1. WorkerType /\ Known
  BY DEF WorkerInv
<1>2. TypeOK
  <2>1. job.live \in BOOLEAN /\ job.ok \in BOOLEAN
    BY <1>1, Parts
  <2>2. session.data \subseteq Tx \cup {Outside} /\ session.durable \subseteq Tx \cup {Outside}
    BY <1>1, SessionParts DEF WorkerType, Writers
  <2>3. chan \in Seq([op : AllCalls \cup {"BeginCheck", "StartRollback", "Shutdown"},
                      live : BOOLEAN, tx : Tx \cup {Outside}])
    BY <1>1 DEF WorkerType, CommandSet, Writers
  <2> QED
    BY <1>1, <2>1, <2>2, <2>3 DEF WorkerType, TypeOK, Writers
<1>3. AutocommitDurable
  BY <1>1 DEF Known, AutocommitDurable
<1> QED
  BY <1>2, <1>3, DepthExact, DurableExact DEF TransactionsExact

\* TransactionManager::begin(), commit(), rollback() and start_rollback() for SQLite: whatever
\* is cancelled, dropped or refused, in whatever order, the counter of the thread, the
\* Transaction values and the database agree once the channel is drained, what was
\* committed is durable and what was rolled back is not.
THEOREM TransactionsAgree ==
    ASSUME Settled
    PROVE  Spec => []TransactionsExact
<1>1. Init => WorkerInv
  BY InitInv
<1>2. WorkerInv /\ [Next]_vars => WorkerInv'
  BY NextInv, StutterInv
<1>3. WorkerInv => TransactionsExact
  BY InvExact
<1> QED
  BY <1>1, <1>2, <1>3, PTL DEF Spec

\* A call waits for an answer only once its own command is sent, and no acknowledged write
\* is forgotten.
LEMMA CallGoesOn ==
    ASSUME Next
    PROVE  /\ acked \subseteq acked'
           /\ call'.stage = "reply" => call'.op = call.op
<1>1. CASE WorkerStep
  <2>1. CASE DoExecute
    BY <2>1 DEF DoExecute, NoCall
  <2>2. CASE DoPing
    BY <2>2 DEF DoPing, NoCall
  <2>3. CASE DoShutdown
    BY <2>3 DEF DoShutdown, Closed
  <2>4. CASE ~DoExecute /\ ~DoPing /\ ~DoShutdown
    BY <1>1, <2>4 DEF WorkerStep, DoBegin, DoBeginWith, DoCommit, DoRollback, DoStartRollback, UnacknowledgedBegin,
       UnacknowledgedEnd, DoUnlockDb, Relock, Disconnected, client
  <2> QED
    BY <2>1, <2>2, <2>3, <2>4
<1>2. CASE ClientStep
  <2>1. CASE Send
    BY <2>1 DEF Send, NoCall
  <2>2. CASE Receive
    BY <2>2 DEF Receive, Opened, DropOpen, NoCall, Sending
  <2>3. CASE TakeLock
    BY <2>3 DEF TakeLock, client
  <2>4. CASE Unlock \/ BeginCheck
    BY <2>4 DEF Unlock, BeginCheck, Opened, NoCall
  <2>5. CASE Crashed
    BY <2>5 DEF Crashed, DropOpen, NoCall, Closed, Sending
  <2> QED
    BY <1>2, <2>1, <2>2, <2>3, <2>4, <2>5 DEF ClientStep
<1>3. CASE Cancel
  BY <1>3 DEF Cancel, DropOpen, NoCall, Sending
<1>4. CASE DropTransaction \/ Close \/ DropConnection \/ \E op \in Calls : Start(op)
  BY <1>4 DEF DropTransaction, Close, DropConnection, Start, Closed, Sending
<1> QED
  BY <1>1, <1>2, <1>3, <1>4 DEF Next

\* A transaction that stays open has what it wrote, unless it is being rolled back.
LEMMA OpenKept ==
    ASSUME WorkerInv', Next, NEW k \in 1..Len(handles), handles[k] \in acked, handles' = handles,
           k = Len(handles) => call.op # "Rollback"
    PROVE  handles[k] \in session'.data
<1> PICK H, i, D : H = handles /\ i = handles[k] /\ D = session'.data
  OBVIOUS
<1>0. H = handles' /\ i = H[k] /\ k \in 1..Len(H) /\ i \in acked'
  BY CallGoesOn
<1>1. WorkerType' /\ Numbering'
  BY DEF WorkerInv
<1>2. H \in Stacks /\ Len(H) \in Nat /\ \A l \in 1..Len(H) : H[l] \in Tx /\ H[l] \in Nat /\ H[l] # Outside
  <2>1. H \in Stacks
    BY <1>0, <1>1 DEF WorkerType, Stacks
  <2> QED
    BY <2>1, StackParts
<1>3. \A l \in 1..Len(H) : fate'[H[l]] = "open"
  BY <1>0, <1>1, <1>2 DEF Numbering
<1>4. ASSUME NEW W \in Stacks, Len(H) <= Len(W), \A l \in 1..Len(H) : H[l] = W[l], Nested(W)', NEW n, Keeps(W, D, n)',
             \A l \in n..Len(W) : l \in 1..Len(W) /\ k < l
      PROVE  i \in D
  <2>1. ASSUME NEW j \in Enclosing(i)' PROVE fate'[j] \in {"committed", "open"} /\ \A l \in n..Len(W) : W[l] # j
    <3>0. Len(W) \in Nat /\ k \in 1..Len(W) /\ i = W[k] /\ \A l \in 1..Len(W) : W[l] \in Nat
      BY <1>0, <1>2, <1>4, StackParts
    <3>1. PICK l \in 1..k : W[l] = j
      BY <1>4, <2>1, <3>0, EnclosedInStack
    <3>2. l \in 1..Len(H) /\ l \in 1..Len(W)
      BY <1>0, <1>2, <3>0
    <3>3. fate'[j] = "open"
      BY <1>3, <1>4, <3>1, <3>2
    <3>4. \A h \in n..Len(W) : W[h] # j
      <4> SUFFICES ASSUME NEW h \in n..Len(W) PROVE W[h] # j
        OBVIOUS
      <4>1. h \in 1..Len(W) /\ l < h
        BY <1>4, <3>0, <3>1
      <4>2. W[l] < W[h] /\ W[l] \in Nat /\ W[h] \in Nat
        BY <1>4, <3>0, <3>2, <4>1 DEF Nested
      <4> QED
        BY <3>1, <4>2
    <3> QED
      BY <3>3, <3>4
  <2>2. i \in acked' \ {Outside}
    BY <1>0, <1>2
  <2> QED
    BY <1>4, <2>1, <2>2 DEF Keeps
<1>5. CASE ~alive'
  <2> PICK n : n = Len(H) + 1
    OBVIOUS
  <2>1. Nested(H)' /\ Keeps(H, D, n)'
    BY <1>0, <1>5 DEF WorkerInv, Ceased
  <2>2. Len(H) <= Len(H) /\ \A l \in n..Len(H) : FALSE
    BY <1>2
  <2> QED
    BY <1>2, <1>4, <2>1, <2>2
<1>6. CASE alive'
  <2>1. PICK W \in Stacks, lev \in [0..Len(chan') -> Nat] : Running(W, lev)'
    BY <1>6 DEF WorkerInv
  <2>2. Tower(W)' /\ Pipe(W, lev)' /\ JobFits(W)' /\ DataKept(W)'
    BY <2>1 DEF Running, Books
  <2>3. Len(W) \in Nat /\ Len(H) <= Len(W) /\ (\A l \in 1..Len(H) : H[l] = W[l]) /\ Nested(W)'
    BY <1>0, <2>2, StackParts DEF Tower, OpenBelow
  <2>4. CASE Ended("Rollback")'
    <3>1. Len(chan') = 0 /\ call' = [op |-> "Rollback", stage |-> "reply"]
      BY <2>2, <2>4 DEF JobFits, Ended
    <3>2. call.op = "Rollback" /\ call' # Sending("StartRollback")
      BY <3>1, CallGoesOn DEF Sending
    <3>3. Len(W) = Len(H)
      BY <1>0, <1>2, <2>2, <3>1, <3>2 DEF Pipe, Levels, One
    <3>4. k < Len(W)
      BY <1>0, <1>2, <3>2, <3>3
    <3> PICK n : n = Len(W)
      OBVIOUS
    <3>5. Keeps(W, D, n)'
      BY <2>2, <2>4 DEF DataKept
    <3>6. \A l \in n..Len(W) : l \in 1..Len(W) /\ k < l
      BY <1>0, <2>3, <3>4
    <3> QED
      BY <1>4, <2>3, <3>5, <3>6
  <2>5. CASE ~Ended("Rollback")'
    <3> PICK n : n = Len(W) + 1
      OBVIOUS
    <3>1. Keeps(W, D, n)'
      BY <2>2, <2>5 DEF DataKept
    <3>2. \A l \in n..Len(W) : FALSE
      BY <2>3
    <3> QED
      BY <1>4, <2>3, <3>1, <3>2
  <2> QED
    BY <2>4, <2>5
<1> QED
  BY <1>5, <1>6

\* drop of a Transaction and the rollback() of an inner one: while the Transaction values
\* stay as they are, each keeps the writes it was acknowledged, until its own rollback().
THEOREM OpenWritesKept ==
    ASSUME Settled
    PROVE  Spec => OpenKeepsWrites
<1>1. Init => WorkerInv
  BY InitInv
<1>2. WorkerInv /\ [Next]_vars => WorkerInv'
  BY NextInv, StutterInv
<1>3. WorkerInv /\ WorkerInv' /\ [Next]_vars =>
        [\A k \in 1..Len(handles) :
            (/\ handles[k] \in acked /\ handles' = handles
             /\ k = Len(handles) => call.op # "Rollback")
                => handles[k] \in session'.data]_vars
  BY OpenKept
<1> QED
  BY <1>1, <1>2, <1>3, PTL DEF Spec, OpenKeepsWrites
=============================================================================
