----------------------- MODULE MySqlConnectionProofs ------------------------
(***************************************************************************)
(* The protocol of a MySQL connection, for any statements, cache capacity, *)
(* calls, refusals and cancellations.                                      *)
(***************************************************************************)
EXTENDS MySqlConnection, FiniteSetTheorems, SequenceTheorems, TLAPS

\* The server is one that leaves out the EOF after column definitions, and the application
\* drops a connection whose COM_STMT_PREPARE or COM_PING it has cancelled, or whose stream it
\* has dropped when it yielded the end of a result.
Aware == DeprecateEof /\ "prepare" \in Careful /\ "ping" \in Careful /\ "yield" \in Careful

-----------------------------------------------------------------------------
(* The inductive invariant.                                                *)

CommandKinds == {"query", "prepare", "execute", "close", "ping"}
Queries == [verb : Verbs \cup {"WRITE", "SELECT"}, name : Nat]
Commands == [c : CommandKinds, q : Queries, id : Nat, sql : Statements \cup {"none"}, own : BOOLEAN]

PacketKinds == {"ok", "err", "cols", "def", "row", "eof", "prepare_ok"}
Packets == [k : PacketKinds, n : Nat, id : Nat, more : BOOLEAN, trans : BOOLEAN, own : BOOLEAN]

\* The stages in which `waiting' does not say what the call has in flight.
SideStages == {"pong", "prepare_ok", "defs", "execute", "yield"}
\* The stages in which it waits for the result of its own command.
OwnStages == {"close_once", "first", "meta", "rows"}
Stages == SideStages \cup OwnStages \cup {"none", "drain", "return", "clear"}

CallRecords ==
    [op : AllCalls \cup {"none", "closed"}, at : Stages \cup {"flush"}, then : Stages,
     sql : Statements \cup {"none"}, id : Nat, n : Nat]

CacheEntries == [sql : Statements, id : Ids]

\* TypeOK, in three parts and with the types of what is in flight.
AppType ==
    /\ status \in BOOLEAN /\ depth \in Nat /\ handles \in Seq(Tx) /\ begun \in 0..MaxTx
    /\ fate \in [Tx -> {"new", "open", "committed", "aborted", "unknown"}]
    /\ parent \in [Tx -> Tx \cup {Outside}]
    /\ acked \subseteq Tx \cup {Outside} /\ erred \subseteq Tx

WireType ==
    /\ waiting \in Seq({"Result", "Row"}) /\ call \in CallRecords
    /\ wbuf \in Seq(Commands) /\ net \in Seq(Commands) /\ replies \in Seq(Packets)

StoreType ==
    /\ cache \in Seq(CacheEntries) /\ Len(cache) <= Capacity
    /\ next_id \in Ids \cup {MaxPrepares + 1} /\ prepared \in [Ids -> Statements \cup {"none"}]

\* At most one statement is being prepared, and there is an id for it.
PreparesIn(n, id) ==
    \A i \in 1..Len(n) : n[i].c = "prepare" =>
        /\ id \in Ids /\ n[i].sql \in Statements
        /\ \A j \in 1..Len(n) : n[j].c = "prepare" => i = j

PreparesFit == PreparesIn(net, next_id)

IdsOf(ca) == {ca[i].id : i \in 1..Len(ca)}
CachedIds == IdsOf(cache)

\* A command in flight closes no statement that is cached, or will be prepared.
Harmless(m, ca, id) == m.c = "close" => m.id < id /\ m.id \notin IdsOf(ca)
AllHarmless(s, ca, id) == \A i \in 1..Len(s) : Harmless(s[i], ca, id)

CacheSound(ca, id, p) ==
    /\ \A i \in 1..Len(ca) : ca[i].id < id /\ p[ca[i].id] = ca[i].sql
    /\ \A i, j \in 1..Len(ca) : ca[i].id = ca[j].id => i = j

\* The statements of the cache ca exist, and the commands w and n leave them alone.
CacheOf(ca, w, n, id, p) ==
    /\ ca \in Seq(CacheEntries) /\ w \in Seq(Commands) /\ n \in Seq(Commands)
    /\ id \in Nat /\ p \in [Ids -> Statements \cup {"none"}]
    /\ CacheSound(ca, id, p) /\ AllHarmless(w, ca, id) /\ AllHarmless(n, ca, id)

CacheExact == CacheOf(cache, wbuf, net, next_id, prepared)

\* The first packet of a result, and what may come after each packet.
Firsts == {"ok", "cols", "err"}
Rest == {"row", "eof", "err"}
Follow(m) ==
    CASE m.k = "cols"            -> {"def"}
      [] m.k \in {"def", "row"}  -> Rest
      [] OTHER                   -> Firsts

IsEnd(m) == m.k = "err" \/ (m.k \in {"ok", "eof"} /\ ~m.more)

\* The unread packets are whole responses, except that the first may have been read in part.
Parses(s) ==
    /\ \A i \in 1..Len(s) : /\ s[i].k # "prepare_ok" /\ (s[i].k = "cols" => s[i].n = 1)
                            /\ s[i].k = "ok" => ~s[i].more
    /\ \A i \in 1..Len(s), j \in 1..Len(s) : j = i + 1 => s[j].k \in Follow(s[i])
    /\ s # <<>> => IsEnd(s[Len(s)])

\* The deque q says where in a response the next packet of r is.
FrontFits(q, r) ==
    /\ \A i \in 2..Len(q) : q[i] = "Result"
    /\ q # <<>> /\ q[1] = "Row" => r # <<>> /\ r[1].k \in {"def"} \cup Rest
    /\ q # <<>> /\ q[1] = "Result" /\ r # <<>> => r[1].k \in Firsts

\* Commands whose responses the deque counts, and those that have none.
Counted(s) == \A i \in 1..Len(s) : s[i].c \in {"query", "execute", "close"}
Quiet(s) == \A i \in 1..Len(s) : s[i].c = "close"

\* The deque q describes what is still to come of the packets r and the commands n and w.
StreamOf(q, r, n, w) ==
    /\ q \in Seq({"Result", "Row"}) /\ r \in Seq(Packets) /\ n \in Seq(Commands) /\ w \in Seq(Commands)
    /\ Len(q) = Cardinality(Ends(r)) + Cardinality(Answered(n)) + Cardinality(Answered(w))
    /\ Parses(r) /\ FrontFits(q, r) /\ Counted(n) /\ Counted(w)

Stream == StreamOf(waiting, replies, net, wbuf)

OwnCommands(s) == \A i \in 1..Len(s) : s[i].c # "close" => s[i].own
OwnPackets(s) == \A i \in 1..Len(s) : s[i].own

\* A call that reads its own result is the only one that has anything in flight.
OwnAt(stage, n) ==
    stage \in OwnStages =>
        /\ OwnPackets(replies) /\ OwnCommands(net) /\ OwnCommands(wbuf)
        /\ Len(waiting) = 1
        /\ stage \in {"first", "close_once"} => waiting[1] = "Result"
        /\ stage = "meta" => waiting[1] = "Row" /\ n = 1 /\ replies # <<>> /\ replies[1].k = "def"
        /\ stage = "rows" => waiting[1] = "Row" /\ replies # <<>> /\ replies[1].k \in Rest

Own == OwnAt(Stage, call.n)

\* The statement of that id is the one the call has prepared.
Prepared(id) ==
    /\ id \in Ids /\ id < next_id /\ id \notin CachedIds /\ prepared[id] = call.sql
    /\ \A i \in 1..Len(net) : net[i].c = "close" => net[i].id # id

\* The command asks for an answer to the call.
Asks(m, kind) == m.c = kind /\ m.own /\ m.sql = (IF kind = "prepare" THEN call.sql ELSE "none")

\* A command of that kind is the only one that asks for an answer.
SentAlone(kind) ==
    \/ call.at = "flush" /\ Quiet(net) /\ Asks(wbuf[1], kind)
    \/ /\ call.at # "flush"
       /\ \E i \in 1..Len(net) : Asks(net[i], kind) /\ \A j \in 1..Len(net) : j # i => net[j].c = "close"

\* The next n packets are column definitions, and nothing follows.
Defined(n) == Len(replies) = n /\ \A i \in 1..Len(replies) : replies[i].k = "def"

Pinging ==
    \/ replies = <<>> /\ SentAlone("ping")
    \/ call.at # "flush" /\ Quiet(net) /\ Len(replies) = 1 /\ replies[1].k = "ok"

Preparing ==
    \/ replies = <<>> /\ SentAlone("prepare") /\ next_id \in Ids
    \/ call.at # "flush" /\ Quiet(net) /\ Len(replies) = 1 /\ replies[1].k = "err"
    \/ /\ call.at # "flush" /\ Quiet(net) /\ Len(replies) = 3
       /\ replies[1].k = "prepare_ok" /\ replies[2].k = "def" /\ replies[3].k = "def"
       /\ Prepared(replies[1].id)

Runs == {"Run", "RunOnce"}
Prepares == {"Run", "RunOnce", "Prepare", "Describe"}

\* What `waiting' will be when the stream is polled again.
Due == IF call.then = "first" THEN <<"Result">> ELSE <<>>

Yielded ==
    /\ call.at = "yield" /\ call.op # "Begin" /\ Len(waiting) = 1
    /\ OwnCommands(net) /\ StreamOf(Due, replies, net, wbuf)

Side ==
    Stage \in SideStages =>
        /\ Stage # "yield" => waiting = (IF call.op \in Runs THEN <<"Result">> ELSE <<>>)
        /\ OwnPackets(replies)
        /\ Stage = "yield" => Yielded
        /\ Stage = "pong" => call.op = "Ping" /\ Pinging
        /\ Stage = "prepare_ok" => call.op \in Prepares /\ Preparing
        /\ Stage = "defs" => /\ call.op \in Prepares /\ call.at # "flush" /\ Quiet(net)
                             /\ call.n \in {1, 2} /\ Defined(call.n) /\ Prepared(call.id)
        /\ Stage = "execute" => call.op \in Runs /\ Quiet(net) /\ Quiet(wbuf) /\ replies = <<>>

\* What a call knows of itself.
CallFits ==
    /\ call.at = "none" => call \in {NoCall, Closed}
    /\ call.at # "none" => call.op \in AllCalls
    /\ call.op \in Prepares => call.sql \in Statements /\ (call.at = "drain" => next_id \in Ids)
    /\ call.op \in {"Commit", "Rollback"} => depth > 0 /\ handles # <<>>
    /\ call.op = "Begin" => begun < MaxTx
    /\ call.at = "drain" => call.n \in {0, 1}
    /\ call.at = "drain" /\ call.n = 1 =>
          waiting # <<>> /\ waiting[1] = "Row" /\ replies # <<>> /\ replies[1].k = "def"
    /\ Stage = "close_once" => call.id < next_id /\ call.id \notin CachedIds
    /\ call.at = "flush" => /\ wbuf # <<>> /\ call.then \notin {"none", "drain", "defs", "meta", "rows", "yield"}
                            /\ call.then # "clear" => Len(wbuf) = 1
    /\ call.at \in SideStages \cup OwnStages \cup {"return"} => wbuf = <<>>

MyInv ==
    /\ AppType /\ WireType /\ StoreType /\ PreparesFit
    /\ call # Closed => CacheExact /\ CallFits /\ Side /\ Own /\ (Stage \notin SideStages => Stream)

-----------------------------------------------------------------------------
(* Counting positions.                                                     *)

\* Shifting a set of positions does not change its size.
LEMMA ShiftedCardinality ==
    ASSUME NEW S, NEW T, NEW k \in Int, S \subseteq Int, T \subseteq Int, IsFiniteSet(S),
           \A i \in S : i + k \in T, \A j \in T : j - k \in S
    PROVE  IsFiniteSet(T) /\ Cardinality(T) = Cardinality(S)
<1> DEFINE f == [i \in S |-> i + k]
<1>1. f \in [S -> T]
  OBVIOUS
<1>2. \A i, j \in S : f[i] = f[j] => i = j
  OBVIOUS
<1>3. \A j \in T : \E i \in S : f[i] = j
  <2> TAKE j \in T
  <2>1. j - k \in S /\ f[j - k] = j
    OBVIOUS
  <2> QED BY <2>1
<1>4. f \in Bijection(S, T)
  BY <1>1, <1>2, <1>3 DEF Bijection, Injection, Surjection, IsInjective
<1> QED BY <1>4, FS_Bijection DEF ExistsBijection

\* A set of positions is finite.
LEMMA PositionsFinite ==
    ASSUME NEW n \in Nat, NEW S, S \subseteq 1..n
    PROVE  IsFiniteSet(S) /\ Cardinality(S) \in Nat
<1>1. IsFiniteSet(1..n)
  BY FS_Interval
<1> QED BY <1>1, FS_Subset, FS_CardinalityType

\* Without the first position.
LEMMA TailPositions ==
    ASSUME NEW n \in Nat, NEW S, S \subseteq 1..n + 1, NEW T, T \subseteq 1..n,
           \A i \in 1..n : i \in T <=> i + 1 \in S
    PROVE  Cardinality(S) = Cardinality(T) + (IF 1 \in S THEN 1 ELSE 0)
<1>1. IsFiniteSet(S) /\ Cardinality(S) \in Nat /\ IsFiniteSet(T) /\ Cardinality(T) \in Nat
  <2>1. n + 1 \in Nat
    OBVIOUS
  <2> QED BY <2>1, PositionsFinite
<1> PICK A : A = S \ {1}
  OBVIOUS
<1>2. Cardinality(A) = Cardinality(T)
  <2> PICK k : k = 1
    OBVIOUS
  <2>1. \A i \in T : i + k \in A
    OBVIOUS
  <2>2. \A j \in A : j - k \in T
    OBVIOUS
  <2>3. A \subseteq Int /\ T \subseteq Int /\ k \in Int
    OBVIOUS
  <2> QED BY ONLY <1>1, <2>1, <2>2, <2>3, ShiftedCardinality
<1>3. Cardinality(A) = IF 1 \in S THEN Cardinality(S) - 1 ELSE Cardinality(S)
  BY <1>1, FS_RemoveElement
<1> QED BY <1>1, <1>2, <1>3

\* U is the positions S of the first n and T of the other m.
Joined(n, m, S, T, U) ==
    /\ n \in Nat /\ m \in Nat /\ S \subseteq 1..n /\ T \subseteq 1..m /\ U \subseteq 1..n + m
    /\ \A i \in 1..n : i \in U <=> i \in S
    /\ \A i \in 1..m : n + i \in U <=> i \in T

\* Positions in a concatenation.
LEMMA ConcatPositions ==
    ASSUME NEW n, NEW m, NEW S, NEW T, NEW U, Joined(n, m, S, T, U)
    PROVE  Cardinality(U) = Cardinality(S) + Cardinality(T)
<1> USE DEF Joined
<1>1. /\ IsFiniteSet(S) /\ Cardinality(S) \in Nat /\ IsFiniteSet(T) /\ Cardinality(T) \in Nat
  BY PositionsFinite
<1>2. IsFiniteSet(U) /\ Cardinality(U) \in Nat
  <2>1. n + m \in Nat
    OBVIOUS
  <2> QED BY <2>1, PositionsFinite
<1> PICK B : B = U \ S
  OBVIOUS
<1>3. U = S \cup B /\ S \cap B = {}
  OBVIOUS
<1>4. IsFiniteSet(B) /\ Cardinality(B) = Cardinality(T)
  <2>1. \A i \in T : i + n \in B
    OBVIOUS
  <2>2. \A j \in B : j - n \in T
    <3> TAKE j \in B
    <3>1. j \notin 1..n /\ j \in 1..n + m
      OBVIOUS
    <3>2. j - n \in 1..m /\ n + (j - n) = j
      BY <3>1
    <3> QED BY <3>2
  <2>3. B \subseteq Int /\ T \subseteq Int /\ n \in Int
    OBVIOUS
  <2> QED BY ONLY <1>1, <2>1, <2>2, <2>3, ShiftedCardinality
<1>5. Cardinality(U) = Cardinality(S) + Cardinality(B) - Cardinality(S \cap B)
  BY <1>1, <1>3, <1>4, FS_Union
<1>6. Cardinality(S \cap B) = 0
  BY <1>3, FS_EmptySet
<1> QED BY <1>1, <1>4, <1>5, <1>6

-----------------------------------------------------------------------------
(* Counting responses.                                                     *)

\* What is sent or received one at a time.
LEMMA SeqParts ==
    ASSUME NEW M, NEW s \in Seq(M)
    PROVE  /\ Len(s) \in Nat /\ DOMAIN s = 1..Len(s)
           /\ \A i \in 1..Len(s) : s[i] \in M
           /\ s = <<>> <=> Len(s) = 0
           /\ s # <<>> => /\ Tail(s) \in Seq(M) /\ Len(Tail(s)) = Len(s) - 1 /\ Head(s) = s[1] /\ s[1] \in M
                          /\ Len(s) - 1 \in Nat /\ 1 \in 1..Len(s)
                          /\ \A i \in 1..Len(s) - 1 : Tail(s)[i] = s[i + 1]
OBVIOUS

\* Reading one.
LEMMA EndsTail ==
    ASSUME NEW s \in Seq(Packets), s # <<>>
    PROVE  /\ Cardinality(Ends(s)) = Cardinality(Ends(Tail(s))) + (IF IsEnd(s[1]) THEN 1 ELSE 0)
           /\ Cardinality(Ends(Tail(s))) \in Nat
<1> PICK n, t : n = Len(s) - 1 /\ t = Tail(s)
  OBVIOUS
<1>1. /\ t \in Seq(Packets) /\ Len(t) = n /\ n \in Nat /\ Len(s) = n + 1 /\ DOMAIN t = 1..n /\ DOMAIN s = 1..n + 1
      /\ \A i \in 1..n : t[i] = s[i + 1]
  BY SeqParts
<1> PICK S, T : S = Ends(s) /\ T = Ends(t)
  OBVIOUS
<1>2. S \subseteq 1..n + 1 /\ T \subseteq 1..n
  BY <1>1 DEF Ends
<1>3. \A i \in 1..n : i \in T <=> i + 1 \in S
  BY <1>1 DEF Ends
<1>4. 1 \in S <=> IsEnd(s[1])
  BY <1>1 DEF Ends, IsEnd
<1>5. Cardinality(S) = Cardinality(T) + (IF 1 \in S THEN 1 ELSE 0)
  BY <1>1, <1>2, <1>3, TailPositions
<1> QED BY <1>1, <1>2, <1>4, <1>5, PositionsFinite

\* A response arrives.
LEMMA EndsConcat ==
    ASSUME NEW s \in Seq(Packets), NEW t \in Seq(Packets)
    PROVE  Cardinality(Ends(s \o t)) = Cardinality(Ends(s)) + Cardinality(Ends(t))
<1> PICK n, m, u : n = Len(s) /\ m = Len(t) /\ u = s \o t
  OBVIOUS
<1>1. /\ Len(u) = n + m /\ n \in Nat /\ m \in Nat /\ DOMAIN u = 1..n + m /\ DOMAIN s = 1..n /\ DOMAIN t = 1..m
      /\ \A i \in 1..n : u[i] = s[i]
      /\ \A i \in 1..m : u[n + i] = t[i]
  <2>1. \A i \in 1..Len(s) + Len(t) : (s \o t)[i] = IF i <= Len(s) THEN s[i] ELSE t[i - Len(s)]
    BY ConcatProperties
  <2>2. u \in Seq(Packets) /\ Len(u) = n + m /\ n \in Nat /\ m \in Nat
    BY ConcatProperties
  <2> QED BY <2>1, <2>2
<1> PICK S, T, U : S = Ends(s) /\ T = Ends(t) /\ U = Ends(u)
  OBVIOUS
<1>2. S \subseteq 1..n /\ T \subseteq 1..m /\ U \subseteq 1..n + m
  BY <1>1 DEF Ends
<1>3. \A i \in 1..n : i \in U <=> i \in S
  BY <1>1 DEF Ends
<1>4. \A i \in 1..m : n + i \in U <=> i \in T
  <2> TAKE i \in 1..m
  <2>1. n + i \in 1..n + m
    BY <1>1
  <2> QED BY <1>1, <2>1 DEF Ends
<1>5. Joined(n, m, S, T, U)
  BY <1>1, <1>2, <1>3, <1>4 DEF Joined
<1>6. Cardinality(U) = Cardinality(S) + Cardinality(T)
  BY <1>5, ConcatPositions
<1> QED BY <1>6

\* The same for commands.
LEMMA AnsweredTail ==
    ASSUME NEW s \in Seq(Commands), s # <<>>
    PROVE  /\ Cardinality(Answered(s)) = Cardinality(Answered(Tail(s))) + (IF s[1].c # "close" THEN 1 ELSE 0)
           /\ Cardinality(Answered(Tail(s))) \in Nat
<1> PICK n, t : n = Len(s) - 1 /\ t = Tail(s)
  OBVIOUS
<1>1. /\ t \in Seq(Commands) /\ Len(t) = n /\ n \in Nat /\ Len(s) = n + 1 /\ DOMAIN t = 1..n /\ DOMAIN s = 1..n + 1
      /\ \A i \in 1..n : t[i] = s[i + 1]
  BY SeqParts
<1> PICK S, T : S = Answered(s) /\ T = Answered(t)
  OBVIOUS
<1>2. S \subseteq 1..n + 1 /\ T \subseteq 1..n
  BY <1>1 DEF Answered
<1>3. \A i \in 1..n : i \in T <=> i + 1 \in S
  BY <1>1 DEF Answered
<1>4. 1 \in S <=> s[1].c # "close"
  BY <1>1 DEF Answered
<1>5. Cardinality(S) = Cardinality(T) + (IF 1 \in S THEN 1 ELSE 0)
  BY <1>1, <1>2, <1>3, TailPositions
<1> QED BY <1>1, <1>2, <1>4, <1>5, PositionsFinite

\* Commands are sent.
LEMMA AnsweredConcat ==
    ASSUME NEW s \in Seq(Commands), NEW t \in Seq(Commands)
    PROVE  Cardinality(Answered(s \o t)) = Cardinality(Answered(s)) + Cardinality(Answered(t))
<1> PICK n, m, u : n = Len(s) /\ m = Len(t) /\ u = s \o t
  OBVIOUS
<1>1. /\ Len(u) = n + m /\ n \in Nat /\ m \in Nat /\ DOMAIN u = 1..n + m /\ DOMAIN s = 1..n /\ DOMAIN t = 1..m
      /\ \A i \in 1..n : u[i] = s[i]
      /\ \A i \in 1..m : u[n + i] = t[i]
  <2>1. \A i \in 1..Len(s) + Len(t) : (s \o t)[i] = IF i <= Len(s) THEN s[i] ELSE t[i - Len(s)]
    BY ConcatProperties
  <2>2. u \in Seq(Commands) /\ Len(u) = n + m /\ n \in Nat /\ m \in Nat
    BY ConcatProperties
  <2> QED BY <2>1, <2>2
<1> PICK S, T, U : S = Answered(s) /\ T = Answered(t) /\ U = Answered(u)
  OBVIOUS
<1>2. S \subseteq 1..n /\ T \subseteq 1..m /\ U \subseteq 1..n + m
  BY <1>1 DEF Answered
<1>3. \A i \in 1..n : i \in U <=> i \in S
  BY <1>1 DEF Answered
<1>4. \A i \in 1..m : n + i \in U <=> i \in T
  <2> TAKE i \in 1..m
  <2>1. n + i \in 1..n + m
    BY <1>1
  <2> QED BY <1>1, <2>1 DEF Answered
<1>5. Joined(n, m, S, T, U)
  BY <1>1, <1>2, <1>3, <1>4 DEF Joined
<1>6. Cardinality(U) = Cardinality(S) + Cardinality(T)
  BY <1>5, ConcatPositions
<1> QED BY <1>6


\* One command more.
LEMMA AnsweredAppend ==
    ASSUME NEW s \in Seq(Commands), NEW m \in Commands
    PROVE  /\ Append(s, m) \in Seq(Commands) /\ Len(Append(s, m)) = Len(s) + 1 /\ Append(s, m) # <<>>
           /\ Append(s, m)[Len(s) + 1] = m /\ \A i \in 1..Len(s) : Append(s, m)[i] = s[i]
           /\ Cardinality(Answered(Append(s, m))) = Cardinality(Answered(s)) + (IF m.c # "close" THEN 1 ELSE 0)
           /\ Cardinality(Answered(s)) \in Nat
<1> PICK t, u, n, k : t = <<m>> /\ u = Append(s, m) /\ n = Len(s) /\ k = 1
  OBVIOUS
<1>1. /\ u \in Seq(Commands) /\ Len(u) = n + k /\ u # <<>> /\ u[n + k] = m /\ \A i \in 1..n : u[i] = s[i]
      /\ n \in Nat /\ k \in Nat /\ DOMAIN s = 1..n /\ DOMAIN u = 1..n + k /\ n + k = n + 1
  OBVIOUS
<1> PICK S, T, U : S = Answered(s) /\ T = {i \in 1..k : m.c # "close"} /\ U = Answered(u)
  OBVIOUS
<1>2. S \subseteq 1..n /\ T \subseteq 1..k /\ U \subseteq 1..n + k
  BY <1>1 DEF Answered
<1>3. \A i \in 1..n : i \in U <=> i \in S
  BY <1>1 DEF Answered
<1>4. \A i \in 1..k : n + i \in U <=> i \in T
  <2> TAKE i \in 1..k
  <2>1. i = k /\ n + i \in 1..n + k
    BY <1>1
  <2> QED BY <1>1, <2>1 DEF Answered
<1>5. Joined(n, k, S, T, U)
  BY <1>1, <1>2, <1>3, <1>4 DEF Joined
<1>6. Cardinality(U) = Cardinality(S) + Cardinality(T)
  BY <1>5, ConcatPositions
<1>7. Cardinality(T) = IF m.c # "close" THEN 1 ELSE 0
  <2>1. CASE m.c # "close"
    <3>1. T = {1}
      BY <2>1
    <3> QED BY <2>1, <3>1, FS_Singleton
  <2>2. CASE m.c = "close"
    <3>1. T = {}
      BY <2>2
    <3> QED BY <2>2, <3>1, FS_EmptySet
  <2> QED BY <2>1, <2>2
<1>8. Cardinality(S) \in Nat
  BY <1>1, <1>2, PositionsFinite
<1> QED BY <1>1, <1>6, <1>7, <1>8

\* Nothing to count.
LEMMA CountZero ==
    /\ Cardinality(Ends(<<>>)) = 0 /\ Cardinality(Answered(<<>>)) = 0
    /\ \A s \in Seq(Commands) : /\ Cardinality(Answered(s)) \in Nat
                                /\ Quiet(s) <=> Cardinality(Answered(s)) = 0
    /\ \A s \in Seq(Packets) : Cardinality(Ends(s)) \in Nat
<1>1. Ends(<<>>) = {} /\ Answered(<<>>) = {}
  BY DEF Ends, Answered
<1>2. ASSUME NEW s \in Seq(Commands)
      PROVE  Cardinality(Answered(s)) \in Nat /\ (Quiet(s) <=> Cardinality(Answered(s)) = 0)
  <2>1. Answered(s) \subseteq 1..Len(s) /\ Len(s) \in Nat /\ DOMAIN s = 1..Len(s)
    BY DEF Answered
  <2>2. IsFiniteSet(Answered(s)) /\ Cardinality(Answered(s)) \in Nat
    BY <2>1, PositionsFinite
  <2>3. Quiet(s) <=> Answered(s) = {}
    BY <2>1 DEF Quiet, Answered
  <2> QED BY <2>2, <2>3, FS_EmptySet
<1>3. ASSUME NEW s \in Seq(Packets) PROVE Cardinality(Ends(s)) \in Nat
  <2>1. Ends(s) \subseteq 1..Len(s) /\ Len(s) \in Nat
    BY DEF Ends
  <2> QED BY <2>1, PositionsFinite
<1> QED BY <1>1, <1>2, <1>3, FS_EmptySet

\* Whole responses end, so as long as packets are unread an end is.
LEMMA NoneLeft ==
    ASSUME NEW s \in Seq(Packets), Parses(s), Cardinality(Ends(s)) = 0
    PROVE  s = <<>>
<1> SUFFICES ASSUME s # <<>> PROVE FALSE
  OBVIOUS
<1>1. Len(s) \in Nat /\ Len(s) \in 1..Len(s) /\ DOMAIN s = 1..Len(s) /\ IsEnd(s[Len(s)])
  BY DEF Parses
<1>2. Len(s) \in Ends(s)
  BY <1>1 DEF Ends, IsEnd
<1>3. IsFiniteSet(Ends(s))
  <2>1. Ends(s) \subseteq 1..Len(s)
    BY <1>1 DEF Ends
  <2> QED BY <1>1, <2>1, PositionsFinite
<1> QED BY <1>2, <1>3, FS_EmptySet

-----------------------------------------------------------------------------
(* Marking what is in flight as not the call's own.                        *)

\* Commands keep everything else.
LEMMA OthersCommands ==
    ASSUME NEW s \in Seq(Commands)
    PROVE  /\ Others(s) \in Seq(Commands) /\ Len(Others(s)) = Len(s)
           /\ \A i \in 1..Len(s) : Others(s)[i].c = s[i].c /\ Others(s)[i].id = s[i].id /\ Others(s)[i].sql = s[i].sql
           /\ Answered(Others(s)) = Answered(s)
<1>1. DOMAIN s = 1..Len(s) /\ Len(s) \in Nat /\ \A i \in 1..Len(s) : s[i] \in Commands
  OBVIOUS
<1>2. \A i \in 1..Len(s) : /\ [s[i] EXCEPT !.own = FALSE] \in Commands
                           /\ [s[i] EXCEPT !.own = FALSE].c = s[i].c
                           /\ [s[i] EXCEPT !.own = FALSE].id = s[i].id
                           /\ [s[i] EXCEPT !.own = FALSE].sql = s[i].sql
  BY <1>1 DEF Commands
<1>3. Others(s) = [i \in 1..Len(s) |-> [s[i] EXCEPT !.own = FALSE]]
  BY <1>1 DEF Others
<1>4. Others(s) \in Seq(Commands) /\ Len(Others(s)) = Len(s) /\ DOMAIN Others(s) = 1..Len(s)
  BY <1>1, <1>2, <1>3
<1>5. \A i \in 1..Len(s) : Others(s)[i] = [s[i] EXCEPT !.own = FALSE]
  BY <1>3
<1>6. \A i \in 1..Len(s) : Others(s)[i].c = s[i].c /\ Others(s)[i].id = s[i].id /\ Others(s)[i].sql = s[i].sql
  BY <1>2, <1>5
<1> QED BY <1>1, <1>4, <1>6 DEF Answered

\* So do packets.
LEMMA OthersPackets ==
    ASSUME NEW s \in Seq(Packets)
    PROVE  /\ Others(s) \in Seq(Packets) /\ Len(Others(s)) = Len(s)
           /\ \A i \in 1..Len(s) : Others(s)[i].k = s[i].k
           /\ Ends(Others(s)) = Ends(s)
           /\ Parses(s) => Parses(Others(s))
<1>1. DOMAIN s = 1..Len(s) /\ Len(s) \in Nat /\ \A i \in 1..Len(s) : s[i] \in Packets
  OBVIOUS
<1>2. \A i \in 1..Len(s) : /\ [s[i] EXCEPT !.own = FALSE] \in Packets
                           /\ [s[i] EXCEPT !.own = FALSE].k = s[i].k
                           /\ [s[i] EXCEPT !.own = FALSE].n = s[i].n
                           /\ [s[i] EXCEPT !.own = FALSE].more = s[i].more
  BY <1>1 DEF Packets
<1> PICK t : t = Others(s)
  OBVIOUS
<1>3. t = [i \in 1..Len(s) |-> [s[i] EXCEPT !.own = FALSE]]
  BY <1>1 DEF Others
<1>4. t \in Seq(Packets) /\ Len(t) = Len(s) /\ DOMAIN t = 1..Len(s)
  BY <1>1, <1>2, <1>3
<1>5. \A i \in 1..Len(s) : t[i] = [s[i] EXCEPT !.own = FALSE]
  BY <1>3
<1>6. \A i \in 1..Len(s) : t[i].k = s[i].k /\ t[i].n = s[i].n /\ t[i].more = s[i].more
  BY <1>2, <1>5
<1>7. Ends(t) = Ends(s)
  BY <1>1, <1>4, <1>6 DEF Ends
<1>8. ASSUME Parses(s) PROVE Parses(t)
  <2>1. \A i \in 1..Len(s) : Follow(t[i]) = Follow(s[i]) /\ (IsEnd(t[i]) <=> IsEnd(s[i]))
    BY <1>6 DEF Follow, IsEnd
  <2>2. \A i \in 1..Len(t) : /\ t[i].k # "prepare_ok" /\ (t[i].k = "cols" => t[i].n = 1)
                             /\ t[i].k = "ok" => ~t[i].more
    BY <1>4, <1>6, <1>8 DEF Parses
  <2>3. \A i \in 1..Len(t), j \in 1..Len(t) : j = i + 1 => t[j].k \in Follow(t[i])
    <3> TAKE i \in 1..Len(t), j \in 1..Len(t)
    <3>1. j = i + 1 => s[j].k \in Follow(s[i])
      BY <1>4, <1>8 DEF Parses
    <3> QED BY <1>4, <1>6, <2>1, <3>1
  <2>4. t # <<>> => IsEnd(t[Len(t)])
    <3> SUFFICES ASSUME t # <<>> PROVE IsEnd(t[Len(t)])
      OBVIOUS
    <3>1. s # <<>> /\ Len(s) \in 1..Len(s)
      BY <1>1, <1>4
    <3>2. IsEnd(s[Len(s)])
      BY <1>8, <3>1 DEF Parses
    <3> QED BY <1>4, <2>1, <3>1, <3>2
  <2> QED BY <2>2, <2>3, <2>4 DEF Parses
<1> QED BY <1>4, <1>6, <1>7, <1>8

-----------------------------------------------------------------------------
(* Reading and answering.                                                  *)

\* A packet is read.
LEMMA ParsesTail ==
    ASSUME NEW s \in Seq(Packets), s # <<>>, Parses(s)
    PROVE  /\ Parses(Tail(s)) /\ Tail(s) \in Seq(Packets)
           /\ Tail(s) # <<>> => Tail(s)[1].k \in Follow(s[1])
           /\ ~IsEnd(s[1]) => Tail(s) # <<>>
<1> PICK t, n : t = Tail(s) /\ n = Len(s) - 1
  OBVIOUS
<1>1. /\ t \in Seq(Packets) /\ Len(t) = n /\ n \in Nat /\ Len(s) = n + 1 /\ (t = <<>> <=> n = 0)
      /\ \A i \in 1..n : t[i] = s[i + 1] /\ i + 1 \in 1..n + 1
  <2>1. /\ t \in Seq(Packets) /\ Len(t) = n /\ n \in Nat /\ Len(s) = n + 1
        /\ \A i \in 1..n : t[i] = s[i + 1]
    BY SeqParts
  <2>2. t = <<>> <=> n = 0
    BY ONLY <2>1, SeqParts
  <2> QED BY <2>1, <2>2
<1>2. \A i \in 1..Len(t) : /\ t[i].k # "prepare_ok" /\ (t[i].k = "cols" => t[i].n = 1)
                           /\ t[i].k = "ok" => ~t[i].more
  BY <1>1 DEF Parses
<1>3. \A i \in 1..Len(t), j \in 1..Len(t) : j = i + 1 => t[j].k \in Follow(t[i])
  <2> SUFFICES ASSUME NEW i \in 1..n, NEW j \in 1..n, j = i + 1 PROVE t[j].k \in Follow(t[i])
    BY <1>1
  <2>1. t[j] = s[j + 1] /\ t[i] = s[i + 1] /\ i + 1 \in 1..Len(s) /\ j + 1 \in 1..Len(s) /\ j + 1 = (i + 1) + 1
    BY <1>1
  <2>2. s[j + 1].k \in Follow(s[i + 1])
    BY <2>1 DEF Parses
  <2> QED BY <2>1, <2>2
<1>4. t # <<>> => n \in 1..n /\ t[n] = s[n + 1]
  BY <1>1
<1>5. t # <<>> => IsEnd(t[Len(t)])
  BY <1>1, <1>4 DEF Parses
<1>6. t # <<>> => t[1].k \in Follow(s[1])
  <2> SUFFICES ASSUME t # <<>> PROVE t[1].k \in Follow(s[1])
    OBVIOUS
  <2> PICK a, b : a = 1 /\ b = 2
    OBVIOUS
  <2>1. a \in 1..Len(s) /\ b \in 1..Len(s) /\ b = a + 1 /\ t[1] = s[b]
    BY <1>1
  <2> QED BY <2>1 DEF Parses
<1>7. t = <<>> => IsEnd(s[1])
  BY <1>1 DEF Parses
<1>8. Parses(t)
  BY <1>2, <1>3, <1>5 DEF Parses
<1> QED BY <1>1, <1>6, <1>7, <1>8

\* A whole response comes behind.
LEMMA ParsesConcat ==
    ASSUME NEW s \in Seq(Packets), NEW t \in Seq(Packets), Parses(s), Parses(t), t # <<>>, t[1].k \in Firsts
    PROVE  /\ s \o t \in Seq(Packets) /\ Parses(s \o t) /\ s \o t # <<>>
           /\ s # <<>> => (s \o t)[1] = s[1]
           /\ s = <<>> => (s \o t)[1] = t[1]
           /\ \A i \in 1..Len(s \o t) : (\E j \in 1..Len(s) : (s \o t)[i] = s[j]) \/ (\E j \in 1..Len(t) : (s \o t)[i] = t[j])
<1> PICK u, n, m : u = s \o t /\ n = Len(s) /\ m = Len(t)
  OBVIOUS
<1>1. /\ u \in Seq(Packets) /\ Len(u) = n + m /\ n \in Nat /\ m \in Nat /\ m # 0 /\ m \in 1..m
      /\ \A i \in 1..n + m : u[i] = IF i <= n THEN s[i] ELSE t[i - n]
  <2>1. u \in Seq(Packets) /\ Len(u) = n + m /\ n \in Nat /\ m \in Nat
    BY ConcatProperties
  <2>2. \A i \in 1..Len(s) + Len(t) : (s \o t)[i] = IF i <= Len(s) THEN s[i] ELSE t[i - Len(s)]
    BY ConcatProperties
  <2> QED BY <2>1, <2>2
<1>2. \A i \in 1..n + m : (i \in 1..n /\ u[i] = s[i]) \/ (i - n \in 1..m /\ u[i] = t[i - n] /\ i > n)
  BY <1>1
<1>3. \A i \in 1..Len(u) : /\ u[i].k # "prepare_ok" /\ (u[i].k = "cols" => u[i].n = 1)
                           /\ u[i].k = "ok" => ~u[i].more
  BY <1>1, <1>2 DEF Parses
<1>4. \A i \in 1..Len(u), j \in 1..Len(u) : j = i + 1 => u[j].k \in Follow(u[i])
  <2> SUFFICES ASSUME NEW i \in 1..n + m, NEW j \in 1..n + m, j = i + 1 PROVE u[j].k \in Follow(u[i])
    BY <1>1
  <2>1. CASE i < n
    <3>1. i \in 1..Len(s) /\ j \in 1..Len(s) /\ u[i] = s[i] /\ u[j] = s[j]
      BY <1>1, <2>1
    <3> QED BY <3>1 DEF Parses
  <2>2. CASE i = n
    <3>1. s # <<>> /\ u[i] = s[Len(s)] /\ u[j] = t[1]
      BY <1>1, <2>2
    <3>2. Follow(s[Len(s)]) = Firsts
      BY <3>1 DEF Parses, IsEnd, Follow
    <3> QED BY <3>1, <3>2
  <2>3. CASE i > n
    <3> PICK a, b : a = i - n /\ b = j - n
      OBVIOUS
    <3>1. a \in 1..Len(t) /\ b \in 1..Len(t) /\ b = a + 1 /\ u[i] = t[a] /\ u[j] = t[b]
      BY <1>1, <2>3
    <3> QED BY <3>1 DEF Parses
  <2> QED BY <1>1, <2>1, <2>2, <2>3
<1>5. u[n + m] = t[m]
  BY <1>1
<1>6. IsEnd(u[Len(u)])
  BY <1>1, <1>5 DEF Parses
<1>7. Parses(u)
  BY <1>3, <1>4, <1>6 DEF Parses
<1>8. u # <<>> /\ (s # <<>> => u[1] = s[1]) /\ (s = <<>> => u[1] = t[1])
  BY <1>1
<1> QED BY <1>1, <1>2, <1>7, <1>8


-----------------------------------------------------------------------------
(* What the server answers.                                                *)

\* r is one whole response to c.
Reply(c, r) ==
    /\ r \in Seq(Packets) /\ r # <<>> /\ Parses(r) /\ r[1].k \in Firsts
    /\ Cardinality(Ends(r)) = 1
    /\ \A i \in 1..Len(r) : r[i].own = c.own

\* A response ends once.
LEMMA ReplyIs ==
    ASSUME NEW c, NEW r \in Seq(Packets), r # <<>>, Parses(r), r[1].k \in Firsts,
           \A i \in 1..Len(r) : r[i].own = c.own, \A i \in 1..Len(r) - 1 : ~IsEnd(r[i])
    PROVE  Reply(c, r)
<1> PICK n : n = Len(r)
  OBVIOUS
<1>1. n \in Nat /\ n # 0 /\ DOMAIN r = 1..n /\ IsEnd(r[n])
  BY DEF Parses
<1>2. Ends(r) = {i \in 1..n : IsEnd(r[i])}
  BY <1>1 DEF Ends, IsEnd
<1>3. \A i \in 1..n - 1 : ~IsEnd(r[i])
  OBVIOUS
<1>4. Ends(r) = {n}
  <2>1. n \in Ends(r)
    BY <1>1, <1>2
  <2>2. ASSUME NEW i \in Ends(r) PROVE i = n
    <3>1. i \in 1..n /\ IsEnd(r[i])
      BY <1>2
    <3>2. i \in 1..n - 1 \/ i = n
      BY <1>1, <3>1
    <3> QED BY <1>3, <3>1, <3>2
  <2> QED BY <2>1, <2>2
<1> QED BY <1>4, FS_Singleton DEF Reply

\* A packet of the response to c.
PacketIs(p, k, c, more) ==
    p \in Packets /\ p.k = k /\ p.own = c.own /\ p.more = more /\ (k = "cols" => p.n = 1)

\* The packets of a response.
LEMMA PacketParts ==
    ASSUME NEW c \in Commands, NEW k \in PacketKinds
    PROVE  PacketIs(Packet(k, c), k, c, FALSE)
<1>1. c.own \in BOOLEAN
  BY DEF Commands
<1> QED BY <1>1 DEF Packet, Packets, PacketIs

\* The last packet of a result.
LEMMA EndParts ==
    ASSUME NEW c \in Commands, NEW k \in PacketKinds, NEW s
    PROVE  /\ PacketIs(End(k, c, s), k, c, FALSE)
           /\ PacketIs([End(k, c, s) EXCEPT !.more = TRUE], k, c, TRUE)
           /\ PacketIs([End(k, c, s) EXCEPT !.more = FALSE], k, c, FALSE)
<1> PICK p, q : p = Packet(k, c) /\ q = End(k, c, s)
  OBVIOUS
<1>1. PacketIs(p, k, c, FALSE)
  BY PacketParts
<1>2. q = [p EXCEPT !.trans = InTransaction(s)] /\ InTransaction(s) \in BOOLEAN
  BY DEF End, InTransaction
<1>3. PacketIs(q, k, c, FALSE)
  BY <1>1, <1>2 DEF Packets, PacketIs
<1>4. PacketIs([q EXCEPT !.more = TRUE], k, c, TRUE) /\ PacketIs([q EXCEPT !.more = FALSE], k, c, FALSE)
  BY <1>3 DEF Packets, PacketIs
<1> QED BY <1>3, <1>4

\* An OK or an error alone.
LEMMA ReplyOne ==
    ASSUME NEW c, NEW m \in Packets, m.k \in {"ok", "err"}, m.more = FALSE, m.own = c.own
    PROVE  Reply(c, <<m>>)
<1> PICK r : r = <<m>>
  OBVIOUS
<1>1. r \in Seq(Packets) /\ r # <<>> /\ Len(r) = 1 /\ r[1] = m /\ \A i \in 1..1 : i = 1
  OBVIOUS
<1>2. Parses(r)
  BY <1>1 DEF Parses, IsEnd
<1>3. r[1].k \in Firsts /\ (\A i \in 1..Len(r) : r[i].own = c.own) /\ \A i \in 1..Len(r) - 1 : ~IsEnd(r[i])
  BY <1>1 DEF Firsts
<1> QED BY <1>1, <1>2, <1>3, ReplyIs

\* An error where the rows would begin.
LEMMA ReplyCut ==
    ASSUME NEW c, NEW a \in Packets, NEW b \in Packets, NEW e \in Packets,
           a.k = "cols" /\ a.n = 1, b.k = "def", e.k = "err",
           a.own = c.own /\ b.own = c.own /\ e.own = c.own
    PROVE  Reply(c, <<a, b, e>>)
<1> PICK r : r = <<a, b, e>>
  OBVIOUS
<1>1. r \in Seq(Packets) /\ r # <<>> /\ Len(r) = 3 /\ r[1] = a /\ r[2] = b /\ r[3] = e
  OBVIOUS
<1>2. \A i \in 1..3 : i = 1 \/ i = 2 \/ i = 3
  OBVIOUS
<1>3. Follow(a) = {"def"} /\ Follow(b) = Rest /\ ~IsEnd(a) /\ ~IsEnd(b) /\ IsEnd(e)
  BY DEF Follow, IsEnd
<1>4. \A i \in 1..Len(r), j \in 1..Len(r) : j = i + 1 => r[j].k \in Follow(r[i])
  BY <1>1, <1>2, <1>3 DEF Rest
<1>5. Parses(r)
  BY <1>1, <1>2, <1>3, <1>4 DEF Parses
<1>6. r[1].k \in Firsts /\ (\A i \in 1..Len(r) : r[i].own = c.own) /\ \A i \in 1..Len(r) - 1 : ~IsEnd(r[i])
  BY <1>1, <1>2, <1>3 DEF Firsts
<1> QED BY <1>1, <1>5, <1>6, ReplyIs

\* A result set.
LEMMA ReplyRows ==
    ASSUME NEW c, NEW a \in Packets, NEW b \in Packets, NEW d \in Packets, NEW e \in Packets,
           a.k = "cols" /\ a.n = 1, b.k = "def", d.k = "row", e.k = "eof", e.more = FALSE,
           a.own = c.own /\ b.own = c.own /\ d.own = c.own /\ e.own = c.own
    PROVE  Reply(c, <<a, b, d, e>>)
<1> PICK r : r = <<a, b, d, e>>
  OBVIOUS
<1>1. r \in Seq(Packets) /\ r # <<>> /\ Len(r) = 4 /\ r[1] = a /\ r[2] = b /\ r[3] = d /\ r[4] = e
  OBVIOUS
<1>2. \A i \in 1..4 : i = 1 \/ i = 2 \/ i = 3 \/ i = 4
  OBVIOUS
<1>3. /\ Follow(a) = {"def"} /\ Follow(b) = Rest /\ Follow(d) = Rest
      /\ ~IsEnd(a) /\ ~IsEnd(b) /\ ~IsEnd(d) /\ IsEnd(e)
  BY DEF Follow, IsEnd
<1>4. \A i \in 1..Len(r), j \in 1..Len(r) : j = i + 1 => r[j].k \in Follow(r[i])
  BY <1>1, <1>2, <1>3 DEF Rest
<1>5. Parses(r)
  BY <1>1, <1>2, <1>3, <1>4 DEF Parses
<1>6. r[1].k \in Firsts /\ (\A i \in 1..Len(r) : r[i].own = c.own) /\ \A i \in 1..Len(r) - 1 : ~IsEnd(r[i])
  BY <1>1, <1>2, <1>3 DEF Firsts
<1> QED BY <1>1, <1>5, <1>6, ReplyIs

\* A result set and what the next statement of the text gives.
LEMMA ReplyMulti ==
    ASSUME NEW c, NEW a \in Packets, NEW b \in Packets, NEW d \in Packets, NEW e \in Packets, NEW f \in Packets,
           a.k = "cols" /\ a.n = 1, b.k = "def", d.k = "row", e.k = "eof", e.more = TRUE,
           f.k \in {"ok", "err"}, f.more = FALSE,
           a.own = c.own /\ b.own = c.own /\ d.own = c.own /\ e.own = c.own /\ f.own = c.own
    PROVE  Reply(c, <<a, b, d, e, f>>)
<1> PICK r : r = <<a, b, d, e, f>>
  OBVIOUS
<1>1. r \in Seq(Packets) /\ r # <<>> /\ Len(r) = 5 /\ r[1] = a /\ r[2] = b /\ r[3] = d /\ r[4] = e /\ r[5] = f
  OBVIOUS
<1>2. \A i \in 1..5 : i = 1 \/ i = 2 \/ i = 3 \/ i = 4 \/ i = 5
  OBVIOUS
<1>3. /\ Follow(a) = {"def"} /\ Follow(b) = Rest /\ Follow(d) = Rest /\ Follow(e) = Firsts
      /\ ~IsEnd(a) /\ ~IsEnd(b) /\ ~IsEnd(d) /\ ~IsEnd(e) /\ IsEnd(f)
  BY DEF Follow, IsEnd
<1>4. \A i \in 1..Len(r), j \in 1..Len(r) : j = i + 1 => r[j].k \in Follow(r[i])
  BY <1>1, <1>2, <1>3 DEF Rest, Firsts
<1>5. Parses(r)
  BY <1>1, <1>2, <1>3, <1>4 DEF Parses
<1>6. r[1].k \in Firsts /\ (\A i \in 1..Len(r) : r[i].own = c.own) /\ \A i \in 1..Len(r) - 1 : ~IsEnd(r[i])
  BY <1>1, <1>2, <1>3 DEF Firsts
<1> QED BY <1>1, <1>5, <1>6, ReplyIs

\* Responses are put together from their parts.
LEMMA Joined2 ==
    ASSUME NEW a \in Packets, NEW b \in Packets
    PROVE  <<a>> \o <<b>> = <<a, b>>
<1> PICK x, y, z, u : x = <<a>> /\ y = <<b>> /\ z = <<a, b>> /\ u = x \o y
  OBVIOUS
<1>1. x \in Seq(Packets) /\ y \in Seq(Packets) /\ z \in Seq(Packets) /\ Len(x) = 1 /\ Len(y) = 1 /\ Len(z) = 2
      /\ x[1] = a /\ y[1] = b /\ z[1] = a /\ z[2] = b
  OBVIOUS
<1>2. u \in Seq(Packets) /\ Len(u) = 2 /\ u[1] = x[1] /\ u[2] = y[1]
  <2>1. u \in Seq(Packets) /\ Len(u) = 2 /\ \A i \in 1..2 : u[i] = IF i <= 1 THEN x[i] ELSE y[i - 1]
    BY <1>1, ConcatProperties
  <2>2. 1 \in 1..2 /\ 2 \in 1..2 /\ 2 - 1 = 1 /\ 1 <= 1 /\ ~(2 <= 1)
    OBVIOUS
  <2> QED BY <2>1, <2>2
<1>3. \A i \in 1..2 : u[i] = z[i]
  <2> TAKE i \in 1..2
  <2>1. i = 1 \/ i = 2
    OBVIOUS
  <2> QED BY <1>1, <1>2, <2>1
<1> QED BY <1>1, <1>2, <1>3, SeqEqual

\* The same for a part more.
LEMMA Joined3 ==
    ASSUME NEW a \in Packets, NEW b \in Packets, NEW d \in Packets
    PROVE  <<a, b>> \o <<d>> = <<a, b, d>>
<1> PICK x, y, z, u : x = <<a, b>> /\ y = <<d>> /\ z = <<a, b, d>> /\ u = x \o y
  OBVIOUS
<1>1. x \in Seq(Packets) /\ y \in Seq(Packets) /\ z \in Seq(Packets) /\ Len(x) = 2 /\ Len(y) = 1 /\ Len(z) = 3
  OBVIOUS
<1>2. u \in Seq(Packets) /\ Len(u) = 3 /\ \A i \in 1..3 : u[i] = IF i <= 2 THEN x[i] ELSE y[i - 2]
  BY <1>1, ConcatProperties
<1>3. \A i \in 1..3 : u[i] = z[i]
  <2> TAKE i \in 1..3
  <2>1. i = 1 \/ i = 2 \/ i = 3
    OBVIOUS
  <2> QED BY <1>2, <2>1
<1> QED BY <1>1, <1>2, <1>3, SeqEqual

\* The same for a part more.
LEMMA Joined4 ==
    ASSUME NEW a \in Packets, NEW b \in Packets, NEW d \in Packets, NEW e \in Packets
    PROVE  <<a, b, d>> \o <<e>> = <<a, b, d, e>>
<1> PICK x, y, z, u : x = <<a, b, d>> /\ y = <<e>> /\ z = <<a, b, d, e>> /\ u = x \o y
  OBVIOUS
<1>1. x \in Seq(Packets) /\ y \in Seq(Packets) /\ z \in Seq(Packets) /\ Len(x) = 3 /\ Len(y) = 1 /\ Len(z) = 4
  OBVIOUS
<1>2. u \in Seq(Packets) /\ Len(u) = 4 /\ \A i \in 1..4 : u[i] = IF i <= 3 THEN x[i] ELSE y[i - 3]
  BY <1>1, ConcatProperties
<1>3. \A i \in 1..4 : u[i] = z[i]
  <2> TAKE i \in 1..4
  <2>1. i = 1 \/ i = 2 \/ i = 3 \/ i = 4
    OBVIOUS
  <2> QED BY <1>2, <2>1
<1> QED BY <1>1, <1>2, <1>3, SeqEqual

\* The same for a part more.
LEMMA Joined5 ==
    ASSUME NEW a \in Packets, NEW b \in Packets, NEW d \in Packets, NEW e \in Packets, NEW f \in Packets
    PROVE  <<a, b, d, e>> \o <<f>> = <<a, b, d, e, f>>
<1> PICK x, y, z, u : x = <<a, b, d, e>> /\ y = <<f>> /\ z = <<a, b, d, e, f>> /\ u = x \o y
  OBVIOUS
<1>1. x \in Seq(Packets) /\ y \in Seq(Packets) /\ z \in Seq(Packets) /\ Len(x) = 4 /\ Len(y) = 1 /\ Len(z) = 5
  OBVIOUS
<1>2. u \in Seq(Packets) /\ Len(u) = 5 /\ \A i \in 1..5 : u[i] = IF i <= 4 THEN x[i] ELSE y[i - 4]
  BY <1>1, ConcatProperties
<1>3. \A i \in 1..5 : u[i] = z[i]
  <2> TAKE i \in 1..5
  <2>1. i = 1 \/ i = 2 \/ i = 3 \/ i = 4 \/ i = 5
    OBVIOUS
  <2> QED BY <1>2, <2>1
<1> QED BY <1>1, <1>2, <1>3, SeqEqual

\* A result set, and an error instead of its rows.
RowsOf(c, s, more, a, b, d, e, f) ==
    /\ PacketIs(a, "cols", c, FALSE) /\ PacketIs(b, "def", c, FALSE) /\ PacketIs(d, "row", c, FALSE)
    /\ PacketIs(e, "eof", c, more) /\ PacketIs(f, "err", c, FALSE)
    /\ ResultSet(c, s, more) = <<a, b, d, e>>
    /\ <<a>> \o Definitions(c) \o <<f>> = <<a, b, f>>
    /\ f = Packet("err", c) /\ a = Packet("cols", c)

\* Its packets.
LEMMA ResultSetIs ==
    ASSUME Aware, NEW c \in Commands, NEW s
    PROVE  /\ \E a, b, d, e, f : RowsOf(c, s, TRUE, a, b, d, e, f)
           /\ \E a, b, d, e, f : RowsOf(c, s, FALSE, a, b, d, e, f)
<1> PICK a, b, d, x, y, f : /\ a = Packet("cols", c) /\ b = Packet("def", c) /\ d = Packet("row", c)
                            /\ x = [End("eof", c, s) EXCEPT !.more = TRUE]
                            /\ y = [End("eof", c, s) EXCEPT !.more = FALSE] /\ f = Packet("err", c)
  OBVIOUS
<1>1. "cols" \in PacketKinds /\ "def" \in PacketKinds /\ "row" \in PacketKinds /\ "eof" \in PacketKinds /\ "err" \in PacketKinds
  BY DEF PacketKinds
<1>2. PacketIs(a, "cols", c, FALSE)
  BY <1>1, PacketParts
<1>3. PacketIs(b, "def", c, FALSE)
  BY <1>1, PacketParts
<1>4. PacketIs(d, "row", c, FALSE)
  BY <1>1, PacketParts
<1>5. PacketIs(x, "eof", c, TRUE)
  BY <1>1, EndParts
<1>15. PacketIs(y, "eof", c, FALSE)
  BY <1>1, EndParts
<1>6. PacketIs(f, "err", c, FALSE)
  BY <1>1, PacketParts
<1>7. Definitions(c) = <<b>>
  BY DEF Definitions, Aware
<1>14. a \in Packets /\ b \in Packets /\ d \in Packets /\ x \in Packets /\ y \in Packets /\ f \in Packets
  BY <1>2, <1>3, <1>4, <1>5, <1>15, <1>6 DEF PacketIs
<1>8. <<a>> \o <<b>> = <<a, b>>
  BY <1>14, Joined2
<1>9. <<a, b>> \o <<d>> = <<a, b, d>> /\ <<a, b>> \o <<f>> = <<a, b, f>>
  BY <1>14, Joined3
<1>10. <<a, b, d>> \o <<x>> = <<a, b, d, x>> /\ <<a, b, d>> \o <<y>> = <<a, b, d, y>>
  <2>1. <<a, b, d>> \o <<x>> = <<a, b, d, x>>
    BY ONLY <1>14, Joined4
  <2>2. <<a, b, d>> \o <<y>> = <<a, b, d, y>>
    BY ONLY <1>14, Joined4
  <2> QED BY <2>1, <2>2
<1>11. /\ ResultSet(c, s, TRUE) = <<a>> \o <<b>> \o <<d>> \o <<x>>
       /\ ResultSet(c, s, FALSE) = <<a>> \o <<b>> \o <<d>> \o <<y>>
  BY <1>7 DEF ResultSet
<1>12. /\ ResultSet(c, s, TRUE) = <<a, b, d, x>> /\ ResultSet(c, s, FALSE) = <<a, b, d, y>>
       /\ <<a>> \o Definitions(c) \o <<f>> = <<a, b, f>>
  BY <1>7, <1>8, <1>9, <1>10, <1>11
<1>13. RowsOf(c, s, TRUE, a, b, d, x, f) /\ RowsOf(c, s, FALSE, a, b, d, y, f)
  BY <1>2, <1>3, <1>4, <1>5, <1>15, <1>6, <1>12 DEF RowsOf
<1> QED BY <1>13

\* The answer to a statement that was executed.
LEMMA ResponseReplies ==
    ASSUME Aware, NEW c \in Commands, c.c \in {"query", "execute"}
    PROVE  Reply(c, Response(c))
<1> PICK t, u, f : t = session /\ u = Done(c) /\ f = End("ok", c, u)
  OBVIOUS
<1>1. "ok" \in PacketKinds
  BY DEF PacketKinds
<1>2. PacketIs(f, "ok", c, FALSE)
  BY <1>1, EndParts
<1>3. CASE c.c = "query" /\ c.q.verb = "SELECT"
  <2> PICK a, b, d, e, g : RowsOf(c, t, TRUE, a, b, d, e, g)
    BY ResultSetIs
  <2>1. PacketIs(a, "cols", c, FALSE) /\ PacketIs(b, "def", c, FALSE) /\ PacketIs(d, "row", c, FALSE) /\ PacketIs(e, "eof", c, TRUE)
    BY DEF RowsOf
  <2>2. Response(c) = <<a, b, d, e>> \o <<f>>
    <3>1. Response(c) = ResultSet(c, t, TRUE) \o <<f>>
      BY <1>3 DEF Response
    <3>2. ResultSet(c, t, TRUE) = <<a, b, d, e>>
      BY DEF RowsOf
    <3> QED BY <3>1, <3>2
  <2>3. a \in Packets /\ b \in Packets /\ d \in Packets /\ e \in Packets /\ f \in Packets
    BY <1>2, <2>1 DEF PacketIs
  <2>4. <<a, b, d, e>> \o <<f>> = <<a, b, d, e, f>>
    BY ONLY <2>3, Joined5
  <2>5. Reply(c, <<a, b, d, e, f>>)
    BY <1>2, <2>1, ReplyMulti DEF PacketIs
  <2> QED BY <2>2, <2>4, <2>5
<1>4. CASE c.c = "execute"
  <2> PICK a, b, d, e, g : RowsOf(c, u, FALSE, a, b, d, e, g)
    BY ResultSetIs
  <2>1. PacketIs(a, "cols", c, FALSE) /\ PacketIs(b, "def", c, FALSE) /\ PacketIs(d, "row", c, FALSE) /\ PacketIs(e, "eof", c, FALSE)
    BY DEF RowsOf
  <2>2. Response(c) = <<a, b, d, e>>
    <3>1. Response(c) = ResultSet(c, u, FALSE)
      BY <1>4 DEF Response
    <3> QED BY <3>1 DEF RowsOf
  <2>3. Reply(c, <<a, b, d, e>>)
    BY <2>1, ReplyRows DEF PacketIs
  <2> QED BY <2>2, <2>3
<1>5. CASE c.c = "query" /\ c.q.verb # "SELECT"
  <2>1. Response(c) = <<f>>
    BY <1>5 DEF Response
  <2> QED BY <1>2, <2>1, ReplyOne DEF PacketIs
<1> QED BY <1>3, <1>4, <1>5

\* The answer to one that was refused.
LEMMA RefusalReplies ==
    ASSUME Aware, NEW c \in Commands, NEW r \in Refusals(c)
    PROVE  /\ Reply(c, r)
           /\ c.c \notin {"query", "execute"} => Len(r) = 1 /\ r[1].k = "err" /\ r[1].own = c.own
<1> PICK t : t = session
  OBVIOUS
<1> PICK a, b, d, e, f : RowsOf(c, t, TRUE, a, b, d, e, f)
  BY ResultSetIs
<1>1. /\ PacketIs(a, "cols", c, FALSE) /\ PacketIs(b, "def", c, FALSE) /\ PacketIs(d, "row", c, FALSE)
      /\ PacketIs(e, "eof", c, TRUE) /\ PacketIs(f, "err", c, FALSE) /\ f = Packet("err", c) /\ a = Packet("cols", c)
  BY DEF RowsOf
<1>2. a \in Packets /\ b \in Packets /\ d \in Packets /\ e \in Packets /\ f \in Packets
  BY <1>1 DEF PacketIs
<1> PICK x, y, z : x = <<a, b, f>> /\ y = <<a, b, d, e, f>> /\ z = <<f>>
  OBVIOUS
<1>3. <<a, b, d, e>> \o <<f>> = <<a, b, d, e, f>>
  BY ONLY <1>2, Joined5
<1>4. /\ r = z \/ r = x \/ r = y
      /\ c.c \notin {"query", "execute"} => r = z
  <2>1. <<a>> \o Definitions(c) \o <<f>> = x /\ ResultSet(c, t, TRUE) = <<a, b, d, e>>
    BY DEF RowsOf
  <2>2. ResultSet(c, session, TRUE) \o <<f>> = y
    BY <1>3, <2>1
  <2>3. Refusals(c) = CASE c.c = "query" /\ c.q.verb = "SELECT" -> {z, x, y}
                        [] c.c = "execute" -> {z, x}
                        [] OTHER -> {z}
    <3>1. <<Packet("err", c)>> = z /\ <<Packet("cols", c)>> \o Definitions(c) \o <<Packet("err", c)>> = x
      BY <1>1, <2>1
    <3> QED BY <2>2, <3>1 DEF Refusals
  <2> QED BY <2>3
<1>5. Reply(c, z)
  BY <1>1, ReplyOne DEF PacketIs
<1>6. Len(z) = 1 /\ z[1] = f
  OBVIOUS
<1>7. Reply(c, x)
  BY <1>1, ReplyCut DEF PacketIs
<1>8. Reply(c, y)
  BY <1>1, ReplyMulti DEF PacketIs
<1>9. c.c \notin {"query", "execute"} => Len(r) = 1 /\ r[1].k = "err" /\ r[1].own = c.own
  BY <1>1, <1>4, <1>6 DEF PacketIs
<1> QED BY <1>4, <1>5, <1>7, <1>8, <1>9


-----------------------------------------------------------------------------
(* The deque and what it stands for.                                       *)

\* The parts of the invariant of the stream that are counted.
LEMMA StreamParts ==
    ASSUME NEW q, NEW r, NEW n, NEW w, StreamOf(q, r, n, w)
    PROVE  /\ q \in Seq({"Result", "Row"}) /\ r \in Seq(Packets) /\ n \in Seq(Commands) /\ w \in Seq(Commands)
           /\ Cardinality(Ends(r)) \in Nat /\ Cardinality(Answered(n)) \in Nat /\ Cardinality(Answered(w)) \in Nat
           /\ Len(q) = Cardinality(Ends(r)) + Cardinality(Answered(n)) + Cardinality(Answered(w))
           /\ Parses(r) /\ FrontFits(q, r) /\ Counted(n) /\ Counted(w)
BY CountZero DEF StreamOf

\* With an empty deque nothing is in flight that asks for an answer.
LEMMA StreamEmptied ==
    ASSUME NEW q, NEW r, NEW n, NEW w, StreamOf(q, r, n, w), q = <<>>
    PROVE  r = <<>> /\ Quiet(n) /\ Quiet(w)
<1>1. /\ r \in Seq(Packets) /\ n \in Seq(Commands) /\ w \in Seq(Commands) /\ Parses(r)
      /\ Cardinality(Ends(r)) = 0 /\ Cardinality(Answered(n)) = 0 /\ Cardinality(Answered(w)) = 0
  <2>1. Len(q) = 0
    OBVIOUS
  <2> QED BY <2>1, StreamParts
<1> QED BY ONLY <1>1, NoneLeft, CountZero

\* The other way round.
LEMMA StreamNone ==
    ASSUME NEW n \in Seq(Commands), NEW w \in Seq(Commands), Quiet(n), Quiet(w)
    PROVE  StreamOf(<<>>, <<>>, n, w)
<1> PICK q, r : q = <<>> /\ r = <<>>
  OBVIOUS
<1>1. q \in Seq({"Result", "Row"}) /\ r \in Seq(Packets) /\ Len(q) = 0 /\ Len(r) = 0
  OBVIOUS
<1>2. Cardinality(Ends(r)) = 0 /\ Cardinality(Answered(n)) = 0 /\ Cardinality(Answered(w)) = 0
  BY CountZero
<1>3. Parses(r)
  BY <1>1 DEF Parses
<1>4. FrontFits(q, r)
  BY <1>1 DEF FrontFits
<1>5. Counted(n) /\ Counted(w)
  BY DEF Quiet, Counted
<1>6. StreamOf(q, r, n, w)
  BY <1>1, <1>2, <1>3, <1>4, <1>5 DEF StreamOf
<1> QED BY <1>6

\* A statement is queued and its response expected.
LEMMA StreamAsk ==
    ASSUME NEW q, NEW r, NEW n, NEW w, StreamOf(q, r, n, w), NEW m \in Commands, m.c \in {"query", "execute"}
    PROVE  StreamOf(Append(q, "Result"), r, n, Append(w, m))
<1> PICK v, p : v = Append(w, m) /\ p = Append(q, "Result")
  OBVIOUS
<1>1. /\ q \in Seq({"Result", "Row"}) /\ r \in Seq(Packets) /\ n \in Seq(Commands) /\ w \in Seq(Commands)
      /\ Cardinality(Ends(r)) \in Nat /\ Cardinality(Answered(n)) \in Nat /\ Cardinality(Answered(w)) \in Nat
      /\ Len(q) = Cardinality(Ends(r)) + Cardinality(Answered(n)) + Cardinality(Answered(w))
      /\ Parses(r) /\ FrontFits(q, r) /\ Counted(n) /\ Counted(w)
  BY StreamParts
<1>2. /\ v \in Seq(Commands) /\ Len(v) = Len(w) + 1 /\ v[Len(w) + 1] = m /\ \A i \in 1..Len(w) : v[i] = w[i]
      /\ Cardinality(Answered(v)) = Cardinality(Answered(w)) + 1
  BY <1>1, AnsweredAppend
<1>3. Counted(v)
  BY <1>1, <1>2 DEF Counted
<1>4. /\ p \in Seq({"Result", "Row"}) /\ Len(p) = Len(q) + 1 /\ p # <<>> /\ p[Len(q) + 1] = "Result"
      /\ Len(q) \in Nat /\ \A i \in 1..Len(q) : p[i] = q[i]
  BY <1>1, SMTT(30)
<1>5. FrontFits(p, r)
  <2>1. \A i \in 2..Len(p) : p[i] = "Result"
    BY <1>1, <1>4, SMTT(30) DEF FrontFits
  <2>2. CASE q = <<>>
    <3>1. r = <<>> /\ p[1] = "Result"
      BY <1>4, <2>2, StreamEmptied
    <3> QED BY <2>1, <3>1 DEF FrontFits
  <2>3. CASE q # <<>>
    <3>1. p[1] = q[1]
      BY <1>1, <1>4, <2>3
    <3> QED BY <1>1, <2>1, <2>3, <3>1 DEF FrontFits
  <2> QED BY <2>2, <2>3
<1>6. StreamOf(p, r, n, v)
  BY <1>1, <1>2, <1>3, <1>4, <1>5 DEF StreamOf
<1> QED BY <1>6

\* A statement is closed, which has no response.
LEMMA StreamClose ==
    ASSUME NEW q, NEW r, NEW n, NEW w, StreamOf(q, r, n, w), NEW m \in Commands, m.c = "close"
    PROVE  StreamOf(q, r, n, Append(w, m))
<1> PICK v : v = Append(w, m)
  OBVIOUS
<1>1. /\ q \in Seq({"Result", "Row"}) /\ r \in Seq(Packets) /\ n \in Seq(Commands) /\ w \in Seq(Commands)
      /\ Cardinality(Ends(r)) \in Nat /\ Cardinality(Answered(n)) \in Nat /\ Cardinality(Answered(w)) \in Nat
      /\ Len(q) = Cardinality(Ends(r)) + Cardinality(Answered(n)) + Cardinality(Answered(w))
      /\ Parses(r) /\ FrontFits(q, r) /\ Counted(n) /\ Counted(w)
  BY StreamParts
<1>2. /\ v \in Seq(Commands) /\ Len(v) = Len(w) + 1 /\ v[Len(w) + 1] = m /\ \A i \in 1..Len(w) : v[i] = w[i]
      /\ Cardinality(Answered(v)) = Cardinality(Answered(w))
  BY <1>1, AnsweredAppend
<1>3. Counted(v)
  BY <1>1, <1>2 DEF Counted
<1>4. StreamOf(q, r, n, v)
  BY <1>1, <1>2, <1>3 DEF StreamOf
<1> QED BY <1>4

\* A command goes out.
LEMMA StreamFlush ==
    ASSUME NEW q, NEW r, NEW n, NEW w, StreamOf(q, r, n, w), w # <<>>
    PROVE  StreamOf(q, r, Append(n, Head(w)), Tail(w))
<1> PICK m, v, x : m = Head(w) /\ v = Append(n, m) /\ x = Tail(w)
  OBVIOUS
<1>1. /\ q \in Seq({"Result", "Row"}) /\ r \in Seq(Packets) /\ n \in Seq(Commands) /\ w \in Seq(Commands)
      /\ Cardinality(Ends(r)) \in Nat /\ Cardinality(Answered(n)) \in Nat /\ Cardinality(Answered(w)) \in Nat
      /\ Len(q) = Cardinality(Ends(r)) + Cardinality(Answered(n)) + Cardinality(Answered(w))
      /\ Parses(r) /\ FrontFits(q, r) /\ Counted(n) /\ Counted(w)
  BY StreamParts
<1>2. /\ m \in Commands /\ m = w[1] /\ x \in Seq(Commands) /\ Len(x) = Len(w) - 1 /\ Len(w) \in Nat /\ 1 \in 1..Len(w)
      /\ \A i \in 1..Len(w) - 1 : x[i] = w[i + 1]
  BY <1>1, SeqParts
<1>3. /\ Cardinality(Answered(w)) = Cardinality(Answered(x)) + (IF m.c # "close" THEN 1 ELSE 0)
      /\ Cardinality(Answered(x)) \in Nat
  BY <1>1, <1>2, AnsweredTail
<1>4. /\ v \in Seq(Commands) /\ Len(v) = Len(n) + 1 /\ v[Len(n) + 1] = m /\ \A i \in 1..Len(n) : v[i] = n[i]
      /\ Cardinality(Answered(v)) = Cardinality(Answered(n)) + (IF m.c # "close" THEN 1 ELSE 0)
  BY <1>1, <1>2, AnsweredAppend
<1>5. Counted(v)
  <2>1. m.c \in {"query", "execute", "close"}
    BY <1>1, <1>2 DEF Counted
  <2> QED BY <1>1, <1>4, <2>1 DEF Counted
<1>6. Counted(x)
  BY <1>1, <1>2 DEF Counted
<1>7. Len(q) = Cardinality(Ends(r)) + Cardinality(Answered(v)) + Cardinality(Answered(x))
  BY <1>1, <1>3, <1>4
<1>8. StreamOf(q, r, v, x)
  BY <1>1, <1>2, <1>4, <1>5, <1>6, <1>7 DEF StreamOf
<1> QED BY <1>8

\* The server takes a command and answers with x.
LEMMA StreamServe ==
    ASSUME NEW q, NEW r, NEW n, NEW w, StreamOf(q, r, n, w), n # <<>>, NEW x,
           IF n[1].c = "close" THEN x = <<>> ELSE Reply(n[1], x)
    PROVE  StreamOf(q, r \o x, Tail(n), w)
<1> PICK m, v, u : m = n[1] /\ v = Tail(n) /\ u = r \o x
  OBVIOUS
<1>1. /\ q \in Seq({"Result", "Row"}) /\ r \in Seq(Packets) /\ n \in Seq(Commands) /\ w \in Seq(Commands)
      /\ Cardinality(Ends(r)) \in Nat /\ Cardinality(Answered(n)) \in Nat /\ Cardinality(Answered(w)) \in Nat
      /\ Len(q) = Cardinality(Ends(r)) + Cardinality(Answered(n)) + Cardinality(Answered(w))
      /\ Parses(r) /\ FrontFits(q, r) /\ Counted(n) /\ Counted(w)
  BY StreamParts
<1>2. /\ m \in Commands /\ v \in Seq(Commands) /\ Len(v) = Len(n) - 1 /\ Len(n) \in Nat
      /\ \A i \in 1..Len(n) - 1 : v[i] = n[i + 1]
  BY <1>1, SeqParts
<1>3. /\ Cardinality(Answered(n)) = Cardinality(Answered(v)) + (IF m.c # "close" THEN 1 ELSE 0)
      /\ Cardinality(Answered(v)) \in Nat
  BY <1>1, AnsweredTail
<1>4. Counted(v)
  BY <1>1, <1>2 DEF Counted
<1>5. CASE m.c = "close"
  <2>1. u = r
    BY <1>1, <1>5, ConcatEmptySeq
  <2>2. StreamOf(q, u, v, w)
    BY <1>1, <1>2, <1>3, <1>4, <1>5, <2>1 DEF StreamOf
  <2> QED BY <2>2
<1>6. CASE m.c # "close"
  <2>1. x \in Seq(Packets) /\ x # <<>> /\ Parses(x) /\ x[1].k \in Firsts /\ Cardinality(Ends(x)) = 1
    BY <1>6 DEF Reply
  <2>2. u \in Seq(Packets) /\ Parses(u) /\ u # <<>> /\ (r # <<>> => u[1] = r[1]) /\ (r = <<>> => u[1] = x[1])
    BY <1>1, <2>1, ParsesConcat
  <2>3. Cardinality(Ends(u)) = Cardinality(Ends(r)) + 1
    BY <1>1, <2>1, EndsConcat
  <2>4. Len(q) = Cardinality(Ends(u)) + Cardinality(Answered(v)) + Cardinality(Answered(w))
    BY <1>1, <1>3, <1>6, <2>3
  <2>5. FrontFits(q, u)
    <3>1. CASE r = <<>>
      BY <1>1, <2>1, <2>2, <3>1 DEF FrontFits
    <3>2. CASE r # <<>>
      BY <1>1, <2>2, <3>2 DEF FrontFits
    <3> QED BY <3>1, <3>2
  <2>6. StreamOf(q, u, v, w)
    BY <1>1, <1>2, <1>4, <2>2, <2>4, <2>5 DEF StreamOf
  <2> QED BY <2>6
<1> QED BY <1>5, <1>6

\* Nothing changes for the packets of a call that is over.
LEMMA StreamOthers ==
    ASSUME NEW q, NEW r, NEW n, NEW w, StreamOf(q, r, n, w)
    PROVE  StreamOf(q, Others(r), Others(n), Others(w))
<1> PICK x, y, z : x = Others(r) /\ y = Others(n) /\ z = Others(w)
  OBVIOUS
<1>1. /\ q \in Seq({"Result", "Row"}) /\ r \in Seq(Packets) /\ n \in Seq(Commands) /\ w \in Seq(Commands)
      /\ Len(q) = Cardinality(Ends(r)) + Cardinality(Answered(n)) + Cardinality(Answered(w))
      /\ Parses(r) /\ FrontFits(q, r) /\ Counted(n) /\ Counted(w)
  BY StreamParts
<1>2. /\ x \in Seq(Packets) /\ Len(x) = Len(r) /\ Ends(x) = Ends(r) /\ Parses(x)
      /\ \A i \in 1..Len(r) : x[i].k = r[i].k
  BY <1>1, OthersPackets
<1>3. /\ y \in Seq(Commands) /\ Len(y) = Len(n) /\ Answered(y) = Answered(n) /\ \A i \in 1..Len(n) : y[i].c = n[i].c
  BY <1>1, OthersCommands
<1>4. /\ z \in Seq(Commands) /\ Len(z) = Len(w) /\ Answered(z) = Answered(w) /\ \A i \in 1..Len(w) : z[i].c = w[i].c
  BY <1>1, OthersCommands
<1>5. FrontFits(q, x)
  <2>1. (x = <<>> <=> r = <<>>) /\ (r # <<>> => x[1].k = r[1].k)
    <3>1. r = <<>> <=> Len(r) = 0
      BY <1>1, SeqParts
    <3>2. x = <<>> <=> Len(x) = 0
      BY <1>2, SeqParts
    <3>3. r # <<>> => 1 \in 1..Len(r)
      BY <1>1, SeqParts
    <3> QED BY <1>2, <3>1, <3>2, <3>3
  <2> QED BY <1>1, <2>1 DEF FrontFits
<1>6. Counted(y) /\ Counted(z)
  BY <1>1, <1>3, <1>4 DEF Counted
<1>7. StreamOf(q, x, y, z)
  BY <1>1, <1>2, <1>3, <1>4, <1>5, <1>6 DEF StreamOf
<1> QED BY <1>7

\* The end of a response is read: the deque loses its first entry.
LEMMA StreamEnd ==
    ASSUME NEW q, NEW r, NEW n, NEW w, StreamOf(q, r, n, w), r # <<>>, IsEnd(r[1])
    PROVE  q # <<>> /\ StreamOf(Tail(q), Tail(r), n, w)
<1> PICK p, t : p = Tail(q) /\ t = Tail(r)
  OBVIOUS
<1>1. /\ q \in Seq({"Result", "Row"}) /\ r \in Seq(Packets) /\ n \in Seq(Commands) /\ w \in Seq(Commands)
      /\ Cardinality(Ends(r)) \in Nat /\ Cardinality(Answered(n)) \in Nat /\ Cardinality(Answered(w)) \in Nat
      /\ Len(q) = Cardinality(Ends(r)) + Cardinality(Answered(n)) + Cardinality(Answered(w))
      /\ Parses(r) /\ FrontFits(q, r) /\ Counted(n) /\ Counted(w)
  BY StreamParts
<1>2. Cardinality(Ends(r)) = Cardinality(Ends(t)) + 1 /\ Cardinality(Ends(t)) \in Nat
  BY <1>1, EndsTail
<1>3. q # <<>>
  BY <1>1, <1>2
<1>4. /\ p \in Seq({"Result", "Row"}) /\ Len(p) = Len(q) - 1 /\ Len(q) \in Nat
      /\ \A i \in 1..Len(q) - 1 : p[i] = q[i + 1]
  BY <1>1, <1>3, SeqParts
<1>5. Parses(t) /\ t \in Seq(Packets) /\ (t # <<>> => t[1].k \in Firsts)
  <2>1. Follow(r[1]) = Firsts
    BY DEF IsEnd, Follow
  <2> QED BY <1>1, <2>1, ParsesTail
<1>6. FrontFits(p, t)
  <2>1. \A i \in 1..Len(p) : p[i] = "Result"
    <3> TAKE i \in 1..Len(p)
    <3>1. i + 1 \in 2..Len(q) /\ p[i] = q[i + 1]
      BY <1>4
    <3> QED BY <1>1, <3>1 DEF FrontFits
  <2>2. p # <<>> => 1 \in 1..Len(p)
    BY <1>4, SeqParts
  <2>3. p # <<>> => p[1] = "Result"
    BY <2>1, <2>2
  <2>4. \A i \in 2..Len(p) : p[i] = "Result"
    BY <1>4, <2>1
  <2> QED BY <1>5, <2>3, <2>4 DEF FrontFits
<1>7. Len(p) = Cardinality(Ends(t)) + Cardinality(Answered(n)) + Cardinality(Answered(w))
  BY <1>1, <1>2, <1>4, SMTT(30)
<1>8. StreamOf(p, t, n, w)
  BY <1>1, <1>4, <1>5, <1>6, <1>7 DEF StreamOf
<1> QED BY <1>3, <1>8

\* A packet inside a response is read, and p is the deque with its first entry set to y.
LEMMA StreamRead ==
    ASSUME NEW q, NEW r, NEW n, NEW w, StreamOf(q, r, n, w), r # <<>>, ~IsEnd(r[1]),
           NEW p \in Seq({"Result", "Row"}), Len(p) = Len(q), p # <<>>,
           \A i \in 2..Len(q) : p[i] = q[i],
           p[1] = IF r[1].k \in {"cols", "def", "row"} THEN "Row" ELSE "Result"
    PROVE  StreamOf(p, Tail(r), n, w) /\ Tail(r) # <<>> /\ Tail(r)[1].k \in Follow(r[1])
<1> PICK t : t = Tail(r)
  OBVIOUS
<1>1. /\ q \in Seq({"Result", "Row"}) /\ r \in Seq(Packets) /\ n \in Seq(Commands) /\ w \in Seq(Commands)
      /\ Len(q) = Cardinality(Ends(r)) + Cardinality(Answered(n)) + Cardinality(Answered(w))
      /\ Parses(r) /\ FrontFits(q, r) /\ Counted(n) /\ Counted(w)
  BY StreamParts
<1>2. Cardinality(Ends(r)) = Cardinality(Ends(t)) + 0 /\ Cardinality(Ends(t)) \in Nat
  BY <1>1, EndsTail
<1>3. Parses(t) /\ t \in Seq(Packets) /\ t # <<>> /\ t[1].k \in Follow(r[1])
  BY <1>1, ParsesTail
<1>4. FrontFits(p, t)
  <2>1. \A i \in 2..Len(p) : p[i] = "Result"
    BY <1>1 DEF FrontFits
  <2>2. r[1].k \in {"cols", "def", "row"} => t[1].k \in {"def"} \cup Rest
    BY <1>3 DEF Follow
  <2>3. r[1].k \notin {"cols", "def", "row"} => t[1].k \in Firsts
    BY <1>3 DEF Follow
  <2> QED BY <1>3, <2>1, <2>2, <2>3 DEF FrontFits
<1>5. StreamOf(p, t, n, w)
  BY <1>1, <1>2, <1>3, <1>4 DEF StreamOf
<1> QED BY <1>3, <1>5

\* Setting the first entry of the deque.
LEMMA FrontSet ==
    ASSUME NEW q \in Seq({"Result", "Row"}), q # <<>>, NEW y \in {"Result", "Row"}
    PROVE  /\ <<y>> \o Tail(q) \in Seq({"Result", "Row"}) /\ Len(<<y>> \o Tail(q)) = Len(q)
           /\ <<y>> \o Tail(q) # <<>> /\ (<<y>> \o Tail(q))[1] = y
           /\ \A i \in 2..Len(q) : (<<y>> \o Tail(q))[i] = q[i]
<1> PICK M : M = {"Result", "Row"}
  OBVIOUS
<1> PICK x, t, p, k : x = <<y>> /\ t = Tail(q) /\ p = x \o t /\ k = Len(q)
  OBVIOUS
<1>1. x \in Seq(M) /\ Len(x) = 1 /\ x[1] = y
  OBVIOUS
<1>2. t \in Seq(M) /\ Len(t) = k - 1 /\ k \in Nat /\ k >= 1 /\ \A i \in 1..k - 1 : t[i] = q[i + 1]
  <2>1. q \in Seq(M)
    OBVIOUS
  <2> QED BY <2>1, SeqParts
<1>3. p \in Seq(M) /\ Len(p) = 1 + (k - 1) /\ \A i \in 1..1 + (k - 1) : p[i] = IF i <= 1 THEN x[i] ELSE t[i - 1]
  BY <1>1, <1>2, ConcatProperties
<1>4. Len(p) = k /\ p[1] = y /\ p # <<>>
  BY <1>1, <1>2, <1>3
<1>5. \A i \in 2..k : p[i] = q[i]
  <2> TAKE i \in 2..k
  <2>1. p[i] = t[i - 1] /\ i - 1 \in 1..k - 1 /\ (i - 1) + 1 = i
    BY <1>2, <1>3
  <2> QED BY <1>2, <2>1
<1> QED BY <1>3, <1>4, <1>5


-----------------------------------------------------------------------------
(* The cache and the commands that close statements.                       *)

\* The parts.
LEMMA CacheParts ==
    ASSUME NEW ca, NEW w, NEW n, NEW id, NEW p, CacheOf(ca, w, n, id, p)
    PROVE  /\ ca \in Seq(CacheEntries) /\ w \in Seq(Commands) /\ n \in Seq(Commands)
           /\ id \in Nat /\ p \in [Ids -> Statements \cup {"none"}]
           /\ CacheSound(ca, id, p) /\ AllHarmless(w, ca, id) /\ AllHarmless(n, ca, id)
BY DEF CacheOf

\* The ids of the entries.
LEMMA EntryIds ==
    ASSUME NEW ca \in Seq(CacheEntries)
    PROVE  /\ Len(ca) \in Nat /\ \A i \in 1..Len(ca) : ca[i].id \in Ids /\ ca[i].id \in Nat /\ ca[i].sql \in Statements
           /\ \A i \in 1..Len(ca) : ca[i].id \in IdsOf(ca)
           /\ \A x \in IdsOf(ca) : \E i \in 1..Len(ca) : ca[i].id = x
<1>1. Ids \subseteq Nat
  BY MySqlAssumption DEF Ids
<1>2. Len(ca) \in Nat /\ \A i \in 1..Len(ca) : ca[i] \in CacheEntries
  OBVIOUS
<1>3. \A i \in 1..Len(ca) : ca[i].id \in Ids /\ ca[i].sql \in Statements
  BY <1>2 DEF CacheEntries
<1> QED BY <1>1, <1>2, <1>3 DEF IdsOf

\* One more command, which closes no cached statement.
LEMMA HarmlessAppend ==
    ASSUME NEW s \in Seq(Commands), NEW m \in Commands, NEW ca, NEW id, AllHarmless(s, ca, id), Harmless(m, ca, id)
    PROVE  AllHarmless(Append(s, m), ca, id)
<1> PICK v, k : v = Append(s, m) /\ k = Len(s)
  OBVIOUS
<1>1. Len(v) = k + 1 /\ k \in Nat /\ v[k + 1] = m /\ \A i \in 1..k : v[i] = s[i]
  OBVIOUS
<1>2. \A i \in 1..Len(v) : i \in 1..k \/ i = k + 1
  BY <1>1
<1>3. AllHarmless(v, ca, id)
  BY <1>1, <1>2 DEF AllHarmless
<1> QED BY <1>3

\* One less.
LEMMA HarmlessTail ==
    ASSUME NEW s \in Seq(Commands), s # <<>>, NEW ca, NEW id, AllHarmless(s, ca, id)
    PROVE  AllHarmless(Tail(s), ca, id) /\ Head(s) = s[1] /\ Harmless(s[1], ca, id) /\ s[1] \in Commands
           /\ Tail(s) \in Seq(Commands)
<1> PICK v, k : v = Tail(s) /\ k = Len(s)
  OBVIOUS
<1>1. /\ Len(v) = k - 1 /\ k \in Nat /\ \A i \in 1..k - 1 : v[i] = s[i + 1]
      /\ 1 \in 1..k /\ s[1] \in Commands /\ Head(s) = s[1] /\ v \in Seq(Commands)
  BY SeqParts
<1>2. \A i \in 1..Len(v) : i + 1 \in 1..k /\ v[i] = s[i + 1]
  BY <1>1
<1>3. AllHarmless(v, ca, id)
  BY <1>2 DEF AllHarmless
<1> QED BY <1>1, <1>3 DEF AllHarmless

\* Later ids, fewer entries.
LEMMA HarmlessMore ==
    ASSUME NEW s \in Seq(Commands), NEW ca, NEW id \in Nat, AllHarmless(s, ca, id),
           NEW cb, NEW jd \in Nat, id <= jd, IdsOf(cb) \subseteq IdsOf(ca)
    PROVE  AllHarmless(s, cb, jd)
<1>1. \A i \in 1..Len(s) : s[i].id \in Nat
  <2>1. \A i \in 1..Len(s) : s[i] \in Commands
    OBVIOUS
  <2> QED BY <2>1 DEF Commands
<1> QED BY <1>1 DEF AllHarmless, Harmless

\* A command goes out.
LEMMA CacheFlush ==
    ASSUME NEW ca, NEW w, NEW n, NEW id, NEW p, CacheOf(ca, w, n, id, p), w # <<>>
    PROVE  CacheOf(ca, Tail(w), Append(n, Head(w)), id, p)
<1> PICK m, v, x : m = Head(w) /\ v = Append(n, m) /\ x = Tail(w)
  OBVIOUS
<1>1. /\ ca \in Seq(CacheEntries) /\ w \in Seq(Commands) /\ n \in Seq(Commands)
      /\ id \in Nat /\ p \in [Ids -> Statements \cup {"none"}]
      /\ CacheSound(ca, id, p) /\ AllHarmless(w, ca, id) /\ AllHarmless(n, ca, id)
  BY CacheParts
<1>2. m \in Commands /\ Harmless(m, ca, id) /\ AllHarmless(x, ca, id) /\ x \in Seq(Commands)
  BY <1>1, HarmlessTail
<1>3. AllHarmless(v, ca, id) /\ v \in Seq(Commands)
  BY <1>1, <1>2, HarmlessAppend
<1>4. CacheOf(ca, x, v, id, p)
  BY <1>1, <1>2, <1>3 DEF CacheOf
<1> QED BY <1>4

\* A command is queued.
LEMMA CacheQueue ==
    ASSUME NEW ca, NEW w, NEW n, NEW id, NEW p, CacheOf(ca, w, n, id, p), NEW m \in Commands, Harmless(m, ca, id)
    PROVE  CacheOf(ca, Append(w, m), n, id, p)
<1> PICK v : v = Append(w, m)
  OBVIOUS
<1>1. /\ ca \in Seq(CacheEntries) /\ w \in Seq(Commands) /\ n \in Seq(Commands)
      /\ id \in Nat /\ p \in [Ids -> Statements \cup {"none"}]
      /\ CacheSound(ca, id, p) /\ AllHarmless(w, ca, id) /\ AllHarmless(n, ca, id)
  BY CacheParts
<1>2. AllHarmless(v, ca, id) /\ v \in Seq(Commands)
  BY <1>1, HarmlessAppend
<1>3. CacheOf(ca, v, n, id, p)
  BY <1>1, <1>2 DEF CacheOf
<1> QED BY <1>3

\* The call is over.
LEMMA CacheOthers ==
    ASSUME NEW ca, NEW w, NEW n, NEW id, NEW p, CacheOf(ca, w, n, id, p)
    PROVE  CacheOf(ca, Others(w), Others(n), id, p)
<1> PICK y, z : y = Others(w) /\ z = Others(n)
  OBVIOUS
<1>1. /\ ca \in Seq(CacheEntries) /\ w \in Seq(Commands) /\ n \in Seq(Commands)
      /\ id \in Nat /\ p \in [Ids -> Statements \cup {"none"}]
      /\ CacheSound(ca, id, p) /\ AllHarmless(w, ca, id) /\ AllHarmless(n, ca, id)
  BY CacheParts
<1>2. y \in Seq(Commands) /\ Len(y) = Len(w) /\ \A i \in 1..Len(w) : y[i].c = w[i].c /\ y[i].id = w[i].id
  BY <1>1, OthersCommands
<1>3. z \in Seq(Commands) /\ Len(z) = Len(n) /\ \A i \in 1..Len(n) : z[i].c = n[i].c /\ z[i].id = n[i].id
  BY <1>1, OthersCommands
<1>4. AllHarmless(y, ca, id)
  BY <1>1, <1>2 DEF AllHarmless, Harmless
<1>5. AllHarmless(z, ca, id)
  BY <1>1, <1>3 DEF AllHarmless, Harmless
<1>6. CacheOf(ca, y, z, id, p)
  BY <1>1, <1>2, <1>3, <1>4, <1>5 DEF CacheOf
<1> QED BY <1>6

\* The server takes a command.
LEMMA CacheServe ==
    ASSUME NEW ca, NEW w, NEW n, NEW id, NEW p, CacheOf(ca, w, n, id, p), n # <<>>, NEW jd, NEW z,
           \/ jd = id /\ z = p
           \/ jd = id /\ n[1].c = "close" /\ z = [p EXCEPT ![n[1].id] = "none"]
           \/ jd = id + 1 /\ id \in Ids /\ \E x \in Statements : z = [p EXCEPT ![id] = x]
    PROVE  CacheOf(ca, w, Tail(n), jd, z)
<1> PICK v, m : v = Tail(n) /\ m = n[1]
  OBVIOUS
<1>1. /\ ca \in Seq(CacheEntries) /\ w \in Seq(Commands) /\ n \in Seq(Commands)
      /\ id \in Nat /\ p \in [Ids -> Statements \cup {"none"}]
      /\ CacheSound(ca, id, p) /\ AllHarmless(w, ca, id) /\ AllHarmless(n, ca, id)
  BY CacheParts
<1>2. m \in Commands /\ Harmless(m, ca, id) /\ AllHarmless(v, ca, id) /\ v \in Seq(Commands)
  BY <1>1, HarmlessTail
<1>3. jd \in Nat /\ id <= jd /\ z \in [Ids -> Statements \cup {"none"}]
  BY <1>1
<1>4. AllHarmless(w, ca, jd) /\ AllHarmless(v, ca, jd)
  BY <1>1, <1>2, <1>3, HarmlessMore
<1>5. \A i \in 1..Len(ca) : ca[i].id < jd /\ z[ca[i].id] = ca[i].sql
  <2> TAKE i \in 1..Len(ca)
  <2>1. ca[i].id \in Ids /\ ca[i].id \in Nat /\ ca[i].id \in IdsOf(ca) /\ ca[i].id < id /\ p[ca[i].id] = ca[i].sql
    BY <1>1, EntryIds DEF CacheSound
  <2>2. m.c = "close" => m.id # ca[i].id
    BY <1>2, <2>1 DEF Harmless
  <2>3. ca[i].id # id
    BY <1>1, <2>1
  <2>4. z[ca[i].id] = p[ca[i].id]
    BY <1>1, <2>1, <2>2, <2>3
  <2> QED BY <1>1, <1>3, <2>1, <2>4
<1>6. CacheSound(ca, jd, z)
  BY <1>1, <1>5 DEF CacheSound
<1>7. CacheOf(ca, w, v, jd, z)
  BY <1>1, <1>2, <1>3, <1>4, <1>6 DEF CacheOf
<1> QED BY <1>7

\* The oldest entry goes: its id is no longer in the cache.
LEMMA CacheDrop ==
    ASSUME NEW ca, NEW w, NEW n, NEW id, NEW p, CacheOf(ca, w, n, id, p), ca # <<>>
    PROVE  /\ CacheOf(Tail(ca), w, n, id, p) /\ Head(ca).id < id /\ Head(ca).id \notin IdsOf(Tail(ca))
           /\ IdsOf(Tail(ca)) \subseteq IdsOf(ca) /\ Head(ca).id \in IdsOf(ca) /\ Head(ca).id \in Nat
           /\ Len(Tail(ca)) = Len(ca) - 1
<1> PICK t, k : t = Tail(ca) /\ k = Len(ca)
  OBVIOUS
<1>1. /\ ca \in Seq(CacheEntries) /\ w \in Seq(Commands) /\ n \in Seq(Commands)
      /\ id \in Nat /\ p \in [Ids -> Statements \cup {"none"}]
      /\ CacheSound(ca, id, p) /\ AllHarmless(w, ca, id) /\ AllHarmless(n, ca, id)
  BY CacheParts
<1>2. /\ t \in Seq(CacheEntries) /\ Len(t) = k - 1 /\ k \in Nat /\ Head(ca) = ca[1] /\ 1 \in 1..k
      /\ \A i \in 1..k - 1 : t[i] = ca[i + 1]
  BY <1>1, SeqParts
<1>3. \A i \in 1..Len(t) : i + 1 \in 1..k /\ t[i] = ca[i + 1] /\ i + 1 # 1
  BY <1>2
<1>4. IdsOf(t) \subseteq IdsOf(ca)
  BY <1>3 DEF IdsOf
<1>5. ca[1].id \notin IdsOf(t)
  <2> SUFFICES ASSUME NEW i \in 1..Len(t), t[i].id = ca[1].id PROVE FALSE
    BY DEF IdsOf
  <2> PICK j : j = i + 1
    OBVIOUS
  <2>1. j \in 1..k /\ ca[j].id = ca[1].id /\ j # 1
    BY <1>3
  <2> QED BY <1>1, <1>2, <2>1 DEF CacheSound
<1>6. CacheSound(t, id, p)
  <2>1. \A i \in 1..Len(t) : t[i].id < id /\ p[t[i].id] = t[i].sql
    BY <1>1, <1>3 DEF CacheSound
  <2>2. \A i, j \in 1..Len(t) : t[i].id = t[j].id => i = j
    <3> SUFFICES ASSUME NEW i \in 1..Len(t), NEW j \in 1..Len(t), t[i].id = t[j].id PROVE i = j
      OBVIOUS
    <3> PICK a, b : a = i + 1 /\ b = j + 1
      OBVIOUS
    <3>1. a \in 1..k /\ b \in 1..k /\ ca[a].id = ca[b].id
      BY <1>3
    <3>2. a = b
      BY <1>1, <3>1 DEF CacheSound
    <3> QED BY <3>2
  <2> QED BY <2>1, <2>2 DEF CacheSound
<1>7. AllHarmless(w, t, id) /\ AllHarmless(n, t, id)
  <2>1. id <= id
    BY <1>1
  <2> QED BY <1>1, <1>4, <2>1, HarmlessMore
<1>8. CacheOf(t, w, n, id, p)
  BY <1>1, <1>2, <1>6, <1>7 DEF CacheOf
<1>9. ca[1].id < id /\ ca[1].id \in IdsOf(ca) /\ ca[1].id \in Nat
  BY <1>1, <1>2, EntryIds DEF CacheSound
<1> QED BY <1>2, <1>4, <1>5, <1>8, <1>9

\* An entry comes, for a statement no command closes.
LEMMA CacheAdd ==
    ASSUME NEW ca, NEW w, NEW n, NEW id, NEW p, CacheOf(ca, w, n, id, p),
           NEW x \in Ids, NEW y \in Statements, x < id, x \notin IdsOf(ca), p[x] = y,
           \A i \in 1..Len(w) : w[i].c = "close" => w[i].id # x,
           \A i \in 1..Len(n) : n[i].c = "close" => n[i].id # x
    PROVE  /\ CacheOf(Append(ca, [sql |-> y, id |-> x]), w, n, id, p)
           /\ IdsOf(Append(ca, [sql |-> y, id |-> x])) = IdsOf(ca) \cup {x}
           /\ Len(Append(ca, [sql |-> y, id |-> x])) = Len(ca) + 1
<1> PICK e, t, k : e = [sql |-> y, id |-> x] /\ t = Append(ca, e) /\ k = Len(ca)
  OBVIOUS
<1>1. /\ ca \in Seq(CacheEntries) /\ w \in Seq(Commands) /\ n \in Seq(Commands)
      /\ id \in Nat /\ p \in [Ids -> Statements \cup {"none"}]
      /\ CacheSound(ca, id, p) /\ AllHarmless(w, ca, id) /\ AllHarmless(n, ca, id)
  BY CacheParts
<1>2. e \in CacheEntries /\ e.id = x /\ e.sql = y
  BY DEF CacheEntries
<1>3. /\ t \in Seq(CacheEntries) /\ Len(t) = k + 1 /\ k \in Nat /\ t[k + 1] = e
      /\ \A i \in 1..k : t[i] = ca[i]
  BY <1>1, <1>2
<1>4. \A i \in 1..Len(t) : (i \in 1..k /\ t[i] = ca[i]) \/ (i = k + 1 /\ t[i] = e)
  <2> TAKE i \in 1..Len(t)
  <2>1. i \in 1..k \/ i = k + 1
    BY <1>3
  <2> QED BY <1>3, <2>1
<1>5. IdsOf(t) = IdsOf(ca) \cup {x}
  <2>1. k + 1 \in 1..Len(t) /\ \A i \in 1..k : i \in 1..Len(t)
    BY <1>3
  <2> QED BY <1>2, <1>3, <1>4, <2>1 DEF IdsOf
<1>6. CacheSound(t, id, p)
  <2>1. \A i \in 1..Len(t) : t[i].id < id /\ p[t[i].id] = t[i].sql
    BY <1>1, <1>2, <1>4 DEF CacheSound
  <2>2. \A i \in 1..k : ca[i].id # x
    BY DEF IdsOf
  <2>3. \A i, j \in 1..Len(t) : t[i].id = t[j].id => i = j
    BY <1>1, <1>2, <1>4, <2>2 DEF CacheSound
  <2> QED BY <2>1, <2>3 DEF CacheSound
<1>7. AllHarmless(w, t, id) /\ AllHarmless(n, t, id)
  BY <1>1, <1>5 DEF AllHarmless, Harmless
<1>8. CacheOf(t, w, n, id, p)
  BY <1>1, <1>3, <1>6, <1>7 DEF CacheOf
<1> QED BY <1>3, <1>5, <1>8


\* t has the entries of ca in the order f.
Reordered(ca, t, f) ==
    /\ t \in Seq(CacheEntries) /\ Len(t) = Len(ca) /\ f \in [1..Len(ca) -> 1..Len(ca)]
    /\ \A i \in 1..Len(ca) : t[i] = ca[f[i]]
    /\ \A i, j \in 1..Len(ca) : f[i] = f[j] => i = j

\* The entries in another order.
LEMMA CacheOrder ==
    ASSUME NEW ca, NEW w, NEW n, NEW id, NEW p, CacheOf(ca, w, n, id, p), NEW t, NEW f, Reordered(ca, t, f)
    PROVE  CacheOf(t, w, n, id, p)
<1> USE DEF Reordered
<1> PICK k : k = Len(ca)
  OBVIOUS
<1>1. /\ ca \in Seq(CacheEntries) /\ w \in Seq(Commands) /\ n \in Seq(Commands)
      /\ id \in Nat /\ p \in [Ids -> Statements \cup {"none"}]
      /\ CacheSound(ca, id, p) /\ AllHarmless(w, ca, id) /\ AllHarmless(n, ca, id)
  BY CacheParts
<1>2. \A i \in 1..k : f[i] \in 1..k /\ t[i] = ca[f[i]]
  OBVIOUS
<1>3. \A i \in 1..k : t[i].id < id /\ p[t[i].id] = t[i].sql
  BY <1>1, <1>2 DEF CacheSound
<1>4. \A i, j \in 1..k : t[i].id = t[j].id => i = j
  <2> SUFFICES ASSUME NEW i \in 1..k, NEW j \in 1..k, t[i].id = t[j].id PROVE i = j
    OBVIOUS
  <2> PICK a, b : a = f[i] /\ b = f[j]
    OBVIOUS
  <2>0. a \in 1..k /\ b \in 1..k /\ ca[a].id = ca[b].id
    BY <1>2
  <2>1. f[i] = f[j]
    BY <1>1, <2>0 DEF CacheSound
  <2> QED BY <2>1
<1>5. CacheSound(t, id, p)
  BY <1>3, <1>4 DEF CacheSound
<1>6. IdsOf(t) \subseteq IdsOf(ca)
  BY <1>2 DEF IdsOf
<1>7. AllHarmless(w, t, id) /\ AllHarmless(n, t, id)
  <2>1. id <= id
    BY <1>1
  <2> QED BY <1>1, <1>6, <2>1, HarmlessMore
<1> QED BY <1>1, <1>5, <1>7 DEF CacheOf

\* Where the entries come from when the i-th of L has moved to the end.
Moved(k, i, L) == IF k < i THEN k ELSE IF k < L THEN k + 1 ELSE i

\* No two positions come from the same one.
LEMMA MovedOnce ==
    ASSUME NEW L \in Nat, NEW i \in 1..L
    PROVE  \A j, k \in 1..L : Moved(j, i, L) = Moved(k, i, L) => j = k
<1> TAKE j, k \in 1..L
<1>1. i \in Int /\ L \in Int /\ j \in Int /\ k \in Int /\ j <= L /\ k <= L /\ i <= L
  OBVIOUS
<1> PICK a, b : a = Moved(j, i, L) /\ b = Moved(k, i, L)
  OBVIOUS
<1>2. a = (IF j < i THEN j ELSE IF j < L THEN j + 1 ELSE i) /\ b = (IF k < i THEN k ELSE IF k < L THEN k + 1 ELSE i)
  BY DEF Moved
<1>3. a = b => j = k
  BY ONLY <1>1, <1>2
<1> QED BY <1>3

IsMove(ca, L, i, t) ==
    L = Len(ca) /\ i \in 1..L /\ t = Append(SubSeq(ca, 1, i - 1) \o SubSeq(ca, i + 1, L), ca[i])

\* get_mut() moves an entry to the end.
LEMMA TouchedIs ==
    ASSUME NEW ca \in Seq(CacheEntries), NEW L, NEW i, NEW t, IsMove(ca, L, i, t)
    PROVE  t \in Seq(CacheEntries) /\ Len(t) = L /\ \A k \in 1..L : t[k] = ca[Moved(k, i, L)]
<1> USE DEF IsMove
<1> PICK x, y, z, e, h : /\ x = SubSeq(ca, 1, i - 1) /\ y = SubSeq(ca, i + 1, L) /\ z = x \o y
                         /\ e = ca[i] /\ h = L - 1
  OBVIOUS
<1>1. L \in Nat /\ i \in 1..L /\ e \in CacheEntries /\ h \in Nat /\ h + 1 = L
  OBVIOUS
<1>2. x \in Seq(CacheEntries) /\ Len(x) = i - 1 /\ \A k \in 1..i - 1 : x[k] = ca[k]
  BY <1>1, SubSeqProperties
<1>3. y \in Seq(CacheEntries) /\ Len(y) = L - i /\ \A k \in 1..L - i : y[k] = ca[i + k]
  <2>1. \A k \in i + 1..L : k \in 1..L
    BY <1>1
  <2>2. y \in Seq(CacheEntries) /\ Len(y) = IF i + 1 <= L THEN L - (i + 1) + 1 ELSE 0
    BY <1>1, <2>1, SubSeqProperties
  <2>3. Len(y) = L - i
    BY <1>1, <2>2
  <2>4. ASSUME NEW k \in 1..L - i PROVE y[k] = ca[i + k]
    <3>1. k \in 1..(L + 1 - (i + 1)) /\ (i + 1) + k - 1 = i + k
      BY <1>1
    <3>2. y[k] = ca[(i + 1) + k - 1]
      BY <1>1, <2>1, <3>1, SubSeqProperties
    <3> QED BY <3>1, <3>2
  <2> QED BY <2>2, <2>3, <2>4
<1>4. z \in Seq(CacheEntries) /\ Len(z) = h /\ \A k \in 1..h : z[k] = IF k <= i - 1 THEN x[k] ELSE y[k - (i - 1)]
  <2>1. Len(x) + Len(y) = h
    BY <1>1, <1>2, <1>3, SMTT(30)
  <2>2. z \in Seq(CacheEntries) /\ Len(z) = Len(x) + Len(y)
    BY <1>2, <1>3, ConcatProperties
  <2>3. \A k \in 1..Len(x) + Len(y) : (x \o y)[k] = IF k <= Len(x) THEN x[k] ELSE y[k - Len(x)]
    <3>1. x \in Seq(CacheEntries) /\ y \in Seq(CacheEntries)
      BY <1>2, <1>3
    <3> QED BY ONLY <3>1, ConcatProperties
  <2> QED BY <1>2, <2>1, <2>2, <2>3
<1>5. t \in Seq(CacheEntries) /\ Len(t) = L /\ t[L] = e /\ \A k \in 1..h : t[k] = z[k]
  <2>1. t = Append(z, e)
    OBVIOUS
  <2> QED BY ONLY <1>1, <1>4, <2>1
<1>6. ASSUME NEW k \in 1..L PROVE t[k] = ca[Moved(k, i, L)]
  <2>1. CASE k = L
    BY <1>1, <1>5, <2>1, SMTT(30) DEF Moved
  <2>2. CASE k < L /\ k < i
    <3>1. k \in 1..h /\ k <= i - 1 /\ k \in 1..i - 1
      BY <1>1, <2>2
    <3> QED BY <1>2, <1>4, <1>5, <2>2, <3>1 DEF Moved
  <2>3. CASE k < L /\ ~(k < i)
    <3> PICK j : j = k - (i - 1)
      OBVIOUS
    <3>1. k \in 1..h /\ ~(k <= i - 1) /\ j \in 1..L - i /\ i + j = k + 1
      BY <1>1, <2>3
    <3>2. t[k] = z[k] /\ z[k] = y[j]
      BY <1>4, <1>5, <3>1
    <3>3. y[j] = ca[i + j]
      BY <1>3, <3>1
    <3> QED BY <2>3, <3>1, <3>2, <3>3 DEF Moved
  <2>4. k = L \/ (k < L /\ k < i) \/ (k < L /\ ~(k < i))
    BY <1>1
  <2> QED BY <2>1, <2>2, <2>3, <2>4
<1> QED BY <1>5, <1>6

\* The cache after get_mut() of a statement that is there.
LEMMA CacheTouched ==
    ASSUME NEW y, CacheExact, Entries(y) # {}
    PROVE  /\ CacheOf(Touched(y), wbuf, net, next_id, prepared) /\ Len(Touched(y)) = Len(cache)
           /\ Len(cache) \in 1..Len(cache)
<1> PICK i : i = CHOOSE k \in Entries(y) : TRUE
  OBVIOUS
<1>1. i \in Entries(y)
  BY Zenon
<1> PICK ca, L : ca = cache /\ L = Len(ca)
  OBVIOUS
<1>2. ca \in Seq(CacheEntries) /\ DOMAIN ca = 1..L /\ L \in Nat
  BY CacheParts DEF CacheExact
<1>3. i \in 1..L /\ L \in 1..L
  BY <1>1, <1>2 DEF Entries
<1> PICK t : t = Append(SubSeq(ca, 1, i - 1) \o SubSeq(ca, i + 1, L), ca[i])
  OBVIOUS
<1>4. Touched(y) = t
  BY Zenon DEF Touched
<1> PICK f : f = [k \in 1..L |-> Moved(k, i, L)]
  OBVIOUS
<1>5. t \in Seq(CacheEntries) /\ Len(t) = L /\ \A k \in 1..L : t[k] = ca[Moved(k, i, L)]
  <2>1. IsMove(ca, L, i, t)
    BY <1>3 DEF IsMove
  <2> QED BY ONLY <1>2, <2>1, TouchedIs
<1>11. \A k \in 1..L : Moved(k, i, L) \in 1..L
  BY <1>2, <1>3 DEF Moved
<1>6. f \in [1..L -> 1..L] /\ \A k \in 1..L : f[k] = Moved(k, i, L)
  BY <1>11
<1>7. \A k \in 1..L : t[k] = ca[f[k]]
  BY <1>5, <1>6, ZenonT(30)
<1>8. \A j, k \in 1..L : f[j] = f[k] => j = k
  <2>1. \A j, k \in 1..L : Moved(j, i, L) = Moved(k, i, L) => j = k
    BY <1>2, <1>3, MovedOnce
  <2> QED BY <1>6, <2>1
<1>9. CacheOf(ca, wbuf, net, next_id, prepared)
  BY DEF CacheExact
<1>12. L = Len(ca)
  OBVIOUS
<1>10. CacheOf(t, wbuf, net, next_id, prepared)
  <2>1. Reordered(ca, t, f)
    BY <1>5, <1>6, <1>7, <1>8, <1>12, ZenonT(30) DEF Reordered
  <2> QED BY ONLY <1>9, <2>1, CacheOrder
<1> QED BY <1>3, <1>4, <1>5, <1>10

-----------------------------------------------------------------------------
(* Statements being prepared.                                              *)

\* A command that prepares nothing is sent, or the one that does is alone.
LEMMA PreparesAppend ==
    ASSUME NEW n \in Seq(Commands), NEW m \in Commands, NEW id, PreparesIn(n, id),
           m.c = "prepare" => Quiet(n) /\ id \in Ids /\ m.sql \in Statements
    PROVE  PreparesIn(Append(n, m), id)
<1> PICK v, k : v = Append(n, m) /\ k = Len(n)
  OBVIOUS
<1>1. Len(v) = k + 1 /\ k \in Nat /\ v[k + 1] = m /\ \A i \in 1..k : v[i] = n[i]
  OBVIOUS
<1>2. \A i \in 1..Len(v) : (i \in 1..k /\ v[i] = n[i]) \/ (i = k + 1 /\ v[i] = m)
  <2> TAKE i \in 1..Len(v)
  <2>1. i \in 1..k \/ i = k + 1
    BY <1>1
  <2> QED BY <1>1, <2>1
<1>3. m.c = "prepare" => \A i \in 1..k : n[i].c # "prepare"
  BY DEF Quiet
<1>4. PreparesIn(v, id)
  BY <1>2, <1>3 DEF PreparesIn
<1> QED BY <1>4

\* The server has taken the first command.
LEMMA PreparesTail ==
    ASSUME NEW n \in Seq(Commands), n # <<>>, NEW id, PreparesIn(n, id), NEW jd,
           n[1].c # "prepare" => jd = id
    PROVE  PreparesIn(Tail(n), jd)
<1> PICK v, k : v = Tail(n) /\ k = Len(n)
  OBVIOUS
<1>1. Len(v) = k - 1 /\ k \in Nat /\ 1 \in 1..k /\ \A i \in 1..k - 1 : v[i] = n[i + 1]
  BY SeqParts
<1>2. \A i \in 1..Len(v) : i + 1 \in 1..k /\ v[i] = n[i + 1] /\ i + 1 # 1
  BY <1>1
<1>3. n[1].c = "prepare" => \A i \in 1..Len(v) : v[i].c # "prepare"
  BY <1>1, <1>2 DEF PreparesIn
<1>4. ASSUME n[1].c # "prepare", NEW i \in 1..Len(v), v[i].c = "prepare"
      PROVE  jd \in Ids /\ v[i].sql \in Statements /\ \A j \in 1..Len(v) : v[j].c = "prepare" => i = j
  <2> PICK a : a = i + 1
    OBVIOUS
  <2>1. a \in 1..k /\ n[a] = v[i]
    BY <1>2
  <2>2. jd \in Ids /\ v[i].sql \in Statements /\ \A j \in 1..k : n[j].c = "prepare" => a = j
    BY <1>4, <2>1 DEF PreparesIn
  <2>3. ASSUME NEW j \in 1..Len(v), v[j].c = "prepare" PROVE i = j
    <3> PICK b : b = j + 1
      OBVIOUS
    <3>1. b \in 1..k /\ n[b] = v[j]
      BY <1>2
    <3>2. a = b
      BY <2>2, <2>3, <3>1
    <3> QED BY <3>2
  <2> QED BY <2>2, <2>3
<1>5. PreparesIn(v, jd)
  BY <1>3, <1>4 DEF PreparesIn
<1> QED BY <1>5

\* The call is over.
LEMMA PreparesOthers ==
    ASSUME NEW n \in Seq(Commands), NEW id, PreparesIn(n, id)
    PROVE  PreparesIn(Others(n), id)
<1> PICK v : v = Others(n)
  OBVIOUS
<1>1. Len(v) = Len(n) /\ \A i \in 1..Len(n) : v[i].c = n[i].c /\ v[i].sql = n[i].sql
  BY OthersCommands
<1>2. PreparesIn(v, id)
  BY <1>1 DEF PreparesIn
<1> QED BY <1>2

\* Everything queued goes out at once, and prepares nothing.
LEMMA PreparesConcat ==
    ASSUME NEW n \in Seq(Commands), NEW w \in Seq(Commands), NEW id, PreparesIn(n, id), Counted(w)
    PROVE  PreparesIn(n \o w, id) /\ n \o w \in Seq(Commands)
<1> PICK v, k, j : v = n \o w /\ k = Len(n) /\ j = Len(w)
  OBVIOUS
<1>1. /\ v \in Seq(Commands) /\ Len(v) = k + j /\ k \in Nat /\ j \in Nat
      /\ \A i \in 1..k + j : v[i] = IF i <= k THEN n[i] ELSE w[i - k]
  <2>1. v \in Seq(Commands) /\ Len(v) = k + j /\ k \in Nat /\ j \in Nat
    BY ConcatProperties
  <2>2. \A i \in 1..Len(n) + Len(w) : (n \o w)[i] = IF i <= Len(n) THEN n[i] ELSE w[i - Len(n)]
    BY ConcatProperties
  <2> QED BY <2>1, <2>2
<1>2. \A i \in 1..k + j : (i \in 1..k /\ v[i] = n[i]) \/ (i - k \in 1..j /\ v[i] = w[i - k])
  <2> TAKE i \in 1..k + j
  <2>1. (i \in 1..k /\ i <= k) \/ (~(i <= k) /\ i - k \in 1..j)
    BY <1>1
  <2> QED BY <1>1, <2>1
<1>3. \A i \in 1..k + j : v[i].c = "prepare" => i \in 1..k /\ v[i] = n[i]
  BY <1>2 DEF Counted
<1>4. PreparesIn(v, id)
  BY <1>1, <1>3 DEF PreparesIn
<1> QED BY <1>1, <1>4


-----------------------------------------------------------------------------
(* How a call ends.                                                        *)

\* The application between calls, and after close().
LEMMA NoCalls ==
    /\ NoCall \in CallRecords /\ NoCall.at = "none" /\ NoCall.op = "none" /\ NoCall.n = 0 /\ NoCall.then = "none"
    /\ Closed \in CallRecords /\ Closed.at = "none" /\ Closed.op = "closed" /\ NoCall # Closed
<1>1. Closed = [op |-> "closed", at |-> "none", then |-> "none", sql |-> "none", id |-> 0, n |-> 0]
  BY DEF Closed, NoCall
<1> QED BY <1>1 DEF NoCall, CallRecords, Stages, SideStages, OwnStages, AllCalls

\* A call in progress is not that of a closed connection.
LEMMA Parts ==
    ASSUME MyInv, call # Closed
    PROVE  /\ AppType /\ WireType /\ StoreType /\ PreparesFit
           /\ CacheExact /\ CallFits /\ Side /\ Own /\ (Stage \notin SideStages => Stream)
BY DEF MyInv

\* Between calls.
LEMMA Ended ==
    ASSUME AppType', WireType', StoreType', PreparesFit', call' = NoCall, CacheExact', Stream'
    PROVE  MyInv'
<1>1. call'.at = "none" /\ call'.op = "none"
  BY NoCalls
<1>2. Stage' = "none"
  BY <1>1 DEF Stage
<1>3. CallFits'
  BY <1>1, <1>2 DEF CallFits, AllCalls, Prepares, SideStages, OwnStages
<1>4. Side' /\ Own'
  BY <1>2 DEF Side, Own, OwnAt, SideStages, OwnStages
<1> QED BY <1>3, <1>4 DEF MyInv

\* After close().
LEMMA Shut ==
    ASSUME AppType', WireType', StoreType', PreparesFit', call' = Closed
    PROVE  MyInv'
<1>1. Closed' = Closed
  BY DEF Closed, NoCall
<1> QED BY <1>1 DEF MyInv

\* The innermost transaction.
LEMMA TopTyped ==
    ASSUME AppType
    PROVE  /\ Top \in Nat /\ Top \in Tx \cup {Outside} /\ Open \subseteq Tx
           /\ handles # <<>> => Top \in Tx /\ Popped \in Seq(Tx)
<1>1. Tx \subseteq Nat /\ Outside \in Nat
  BY MySqlAssumption DEF Tx, Outside
<1>2. handles \in Seq(Tx)
  BY DEF AppType
<1>3. handles # <<>> => handles[Len(handles)] \in Tx /\ Popped \in Seq(Tx)
  <2> SUFFICES ASSUME handles # <<>> PROVE handles[Len(handles)] \in Tx /\ Popped \in Seq(Tx)
    OBVIOUS
  <2>1. Len(handles) \in 1..Len(handles) /\ Len(handles) \in Nat
    BY <1>2
  <2>2. Popped \in Seq(Tx)
    BY <1>2, <2>1 DEF Popped
  <2> QED BY <1>2, <2>1, <2>2
<1>4. Open \subseteq Tx
  BY <1>2 DEF Open
<1> QED BY <1>1, <1>3, <1>4 DEF Top

\* A call returns Ok.
LEMMA ReturnTyped ==
    ASSUME AppType, CallFits, Return, status' \in BOOLEAN
    PROVE  AppType'
<1>1. begun' = begun /\ parent' = parent /\ erred' = erred
  BY DEF Return
<1>2. acked' \subseteq Tx \cup {Outside}
  BY TopTyped DEF Return, AppType
<1>3. depth' \in Nat /\ handles' \in Seq(Tx) /\ fate' \in [Tx -> {"new", "open", "committed", "aborted", "unknown"}]
  <2>1. CASE call.op \in {"Commit", "Rollback"}
    <3>1. depth > 0 /\ handles # <<>> /\ depth \in Nat
      BY <2>1 DEF CallFits, AppType
    <3>2. depth' = depth - 1 /\ handles' = Popped
      BY <2>1 DEF Return
    <3>3. fate' = [fate EXCEPT ![Top] = IF call.op = "Commit" THEN "committed" ELSE "aborted"]
      BY <2>1 DEF Return
    <3> QED BY <3>1, <3>2, <3>3, TopTyped DEF AppType
  <2>2. CASE call.op \notin {"Commit", "Rollback"}
    BY <2>2 DEF Return, AppType
  <2> QED BY <2>1, <2>2
<1> QED BY <1>1, <1>2, <1>3 DEF AppType

\* begin() returns.
LEMMA BeginTyped ==
    ASSUME AppType, CallFits, call.op = "Begin", NEW t, BeginReturns(t), status' \in BOOLEAN
    PROVE  AppType'
<1>1. acked' = acked /\ erred' = erred
  BY DEF BeginReturns
<1>2. CASE t
  <2>1. begun + 1 \in Tx /\ begun + 1 \in 0..MaxTx
    BY MySqlAssumption DEF CallFits, AppType, Tx
  <2>2. /\ depth' = depth + 1 /\ handles' = Append(handles, begun + 1) /\ begun' = begun + 1
        /\ fate' = [fate EXCEPT ![begun + 1] = "open"] /\ parent' = [parent EXCEPT ![begun + 1] = Top]
    BY <1>2 DEF BeginReturns
  <2>3. depth' \in Nat /\ handles' \in Seq(Tx) /\ begun' \in 0..MaxTx
    BY <2>1, <2>2 DEF AppType
  <2>4. fate' \in [Tx -> {"new", "open", "committed", "aborted", "unknown"}]
    BY <2>2 DEF AppType
  <2>5. parent' \in [Tx -> Tx \cup {Outside}]
    BY <2>2, TopTyped DEF AppType
  <2> QED BY <1>1, <2>3, <2>4, <2>5 DEF AppType
<1>3. CASE ~t
  BY <1>1, <1>3 DEF BeginReturns, AppType
<1> QED BY <1>2, <1>3

\* The statements that end a transaction, or begin one.
LEMMA SqlTyped ==
    ASSUME NEW d \in Nat
    PROVE  BeginSql(d) \in Queries /\ (d > 0 => CommitSql(d) \in Queries /\ RollbackSql(d) \in Queries)
<1>1. ASSUME NEW v \in Verbs, NEW k \in Nat PROVE [verb |-> v, name |-> k] \in Queries
  BY DEF Queries
<1>2. /\ "BEGIN" \in Verbs /\ "SAVEPOINT" \in Verbs /\ "COMMIT" \in Verbs /\ "RELEASE" \in Verbs
      /\ "ROLLBACK" \in Verbs /\ "ROLLBACK TO" \in Verbs
  BY DEF Verbs
<1>3. BeginSql(d) \in Queries
  BY <1>1, <1>2 DEF BeginSql
<1>4. CASE d = 1
  <2>1. CommitSql(d) = [verb |-> "COMMIT", name |-> 0]
    BY <1>4 DEF CommitSql
  <2>2. RollbackSql(d) = [verb |-> "ROLLBACK", name |-> 0]
    BY <1>4 DEF RollbackSql
  <2> QED BY <1>1, <1>2, <1>3, <2>1, <2>2
<1>5. CASE d > 1
  <2>1. d # 1 /\ d - 1 \in Nat
    BY <1>5
  <2>2. CommitSql(d) = [verb |-> "RELEASE", name |-> d - 1]
    BY <2>1 DEF CommitSql
  <2>3. RollbackSql(d) = [verb |-> "ROLLBACK TO", name |-> d - 1]
    BY <2>1 DEF RollbackSql
  <2> QED BY <1>1, <1>2, <1>3, <2>1, <2>2, <2>3
<1> QED BY <1>3, <1>4, <1>5

\* What a command of the driver is.
CommandIs(m, k, id, y) == m \in Commands /\ m.c = k /\ m.id = id /\ m.sql = y /\ m.own = TRUE

\* The commands the driver builds.
LEMMA CommandTyped ==
    ASSUME NEW k \in CommandKinds, NEW a \in Queries, NEW id \in Nat, NEW y \in Statements \cup {"none"}
    PROVE  CommandIs(Command(k, a, id, y), k, id, y)
BY DEF Command, Commands, CommandIs

\* Each of them.
LEMMA CommandsTyped ==
    ASSUME AppType
    PROVE  /\ Write \in Queries /\ Select \in Queries
           /\ \A a \in Queries : CommandIs(Query(a), "query", 0, "none")
           /\ \A y \in Statements : CommandIs(PrepareCmd(y), "prepare", 0, y)
           /\ \A id \in Nat : CommandIs(ExecuteCmd(id), "execute", id, "none")
           /\ \A id \in Nat : CommandIs(StmtClose(id), "close", id, "none")
           /\ CommandIs(PingCmd, "ping", 0, "none")
<1> PICK z, e, g, none : z = 0 /\ e = Write /\ g = Select /\ none = "none"
  OBVIOUS
<1>1. e \in Queries /\ g \in Queries
  BY TopTyped DEF Write, Select, Queries
<1>2. z \in Nat /\ none \in Statements \cup {"none"}
  OBVIOUS
<1>3. "query" \in CommandKinds /\ "prepare" \in CommandKinds /\ "execute" \in CommandKinds /\ "close" \in CommandKinds /\ "ping" \in CommandKinds
  BY DEF CommandKinds
<1>4. ASSUME NEW a \in Queries PROVE CommandIs(Query(a), "query", z, none)
  <2>1. Query(a) = Command("query", a, z, none)
    BY DEF Query
  <2>2. CommandIs(Command("query", a, z, none), "query", z, none)
    BY ONLY <1>2, <1>3, <1>4, CommandTyped
  <2> QED BY <2>1, <2>2
<1>5. ASSUME NEW y \in Statements PROVE CommandIs(PrepareCmd(y), "prepare", z, y)
  <2>1. PrepareCmd(y) = Command("prepare", e, z, y) /\ y \in Statements \cup {"none"}
    BY DEF PrepareCmd
  <2>2. CommandIs(Command("prepare", e, z, y), "prepare", z, y)
    BY ONLY <1>1, <1>2, <1>3, <2>1, CommandTyped
  <2> QED BY <2>1, <2>2
<1>6. ASSUME NEW id \in Nat
      PROVE  CommandIs(ExecuteCmd(id), "execute", id, none) /\ CommandIs(StmtClose(id), "close", id, none)
  <2>1. ExecuteCmd(id) = Command("execute", e, id, none) /\ StmtClose(id) = Command("close", e, id, none)
    BY DEF ExecuteCmd, StmtClose
  <2>2. CommandIs(Command("execute", e, id, none), "execute", id, none)
    BY ONLY <1>1, <1>2, <1>3, <1>6, CommandTyped
  <2>3. CommandIs(Command("close", e, id, none), "close", id, none)
    BY ONLY <1>1, <1>2, <1>3, <1>6, CommandTyped
  <2> QED BY <2>1, <2>2, <2>3
<1>7. CommandIs(PingCmd, "ping", z, none)
  <2>1. PingCmd = Command("ping", e, z, none)
    BY DEF PingCmd
  <2>2. CommandIs(Command("ping", e, z, none), "ping", z, none)
    BY ONLY <1>1, <1>2, <1>3, CommandTyped
  <2> QED BY <2>1, <2>2
<1> QED BY <1>1, <1>4, <1>5, <1>6, <1>7

\* start_rollback() queues a statement and expects its response.
LEMMA RollbackQueued ==
    ASSUME AppType, NEW q, NEW r, NEW n, NEW w, NEW ca, NEW id, NEW p, StreamOf(q, r, n, w), CacheOf(ca, w, n, id, p),
           StartRollback(w, q)
    PROVE  StreamOf(waiting', r, n, wbuf') /\ CacheOf(ca, wbuf', n, id, p) /\ depth' \in Nat
<1>1. depth \in Nat
  BY DEF AppType
<1>2. CASE depth > 0
  <2> PICK d, a, c, m : d = depth /\ a = RollbackSql(d) /\ c = Query(a) /\ m = [c EXCEPT !.own = FALSE]
    OBVIOUS
  <2>1. a \in Queries
    BY <1>1, <1>2, SqlTyped
  <2>2. c \in Commands /\ c.c = "query"
    BY <2>1, CommandsTyped DEF CommandIs
  <2>3. m \in Commands /\ m.c = "query"
    BY <2>2 DEF Commands
  <2>4. waiting' = Append(q, "Result") /\ wbuf' = Append(w, m) /\ depth' = depth - 1
    BY <1>2 DEF StartRollback, QueuedRollback
  <2>5. Harmless(m, ca, id)
    BY <2>3 DEF Harmless
  <2>6. StreamOf(Append(q, "Result"), r, n, Append(w, m))
    BY <2>3, StreamAsk
  <2>7. CacheOf(ca, Append(w, m), n, id, p)
    BY <2>3, <2>5, CacheQueue
  <2> QED BY <1>1, <1>2, <2>4, <2>6, <2>7
<1>3. CASE ~(depth > 0)
  BY <1>1, <1>3 DEF StartRollback
<1> QED BY <1>2, <1>3

\* A call ends without Ok: what it leaves behind is described by the deque.
LEMMA Abandoned ==
    ASSUME AppType, StoreType, PreparesFit, CacheExact, CallFits, net \in Seq(Commands), NEW f \in {"aborted", "unknown"},
           NEW rest, NEW q, StreamOf(q, rest, net, wbuf), Abandon(f, rest, q),
           status' = status, cache' = cache, prepared' = prepared, next_id' = next_id, begun' = begun,
           parent' = parent, acked' = acked, erred' \subseteq Tx
    PROVE  MyInv'
<1> PICK n, r, w, ca, id, p : /\ n = Others(net) /\ r = Others(rest) /\ w = Others(wbuf)
                              /\ ca = cache /\ id = next_id /\ p = prepared
  OBVIOUS
<1>1. StreamOf(q, r, n, w)
  BY StreamOthers
<1>2. CacheOf(ca, w, n, id, p)
  BY CacheOthers DEF CacheExact
<1>3. call' = NoCall /\ net' = n /\ replies' = r
  BY DEF Abandon
<1>4. StreamOf(waiting', r, n, wbuf') /\ CacheOf(ca, wbuf', n, id, p) /\ depth' \in Nat
      /\ handles' \in Seq(Tx) /\ fate' \in [Tx -> {"new", "open", "committed", "aborted", "unknown"}]
  <2>1. CASE call.op \in {"Commit", "Rollback"}
    <3>1. StartRollback(w, q) /\ handles' = Popped /\ fate' = [fate EXCEPT ![Top] = f]
      BY <2>1 DEF Abandon
    <3>2. handles # <<>>
      BY <2>1 DEF CallFits
    <3>3. StreamOf(waiting', r, n, wbuf') /\ CacheOf(ca, wbuf', n, id, p) /\ depth' \in Nat
      BY <1>1, <1>2, <3>1, RollbackQueued
    <3>4. handles' \in Seq(Tx)
      BY <3>1, <3>2, TopTyped
    <3>5. fate' \in [Tx -> {"new", "open", "committed", "aborted", "unknown"}]
      BY <3>1 DEF AppType
    <3> QED BY <3>3, <3>4, <3>5
  <2>2. CASE call.op \notin {"Commit", "Rollback"}
    <3>1. waiting' = q /\ wbuf' = w /\ depth' = depth /\ handles' = handles /\ fate' = fate
      BY <2>2 DEF Abandon
    <3> QED BY <1>1, <1>2, <3>1 DEF AppType
  <2> QED BY <2>1, <2>2
<1>5. AppType'
  BY <1>4 DEF AppType
<1>6. Stream'
  BY <1>3, <1>4 DEF Stream
<1>7. CacheExact'
  BY <1>3, <1>4 DEF CacheExact
<1>8. WireType'
  <2>1. /\ waiting' \in Seq({"Result", "Row"}) /\ r \in Seq(Packets) /\ n \in Seq(Commands) /\ wbuf' \in Seq(Commands)
    BY <1>4, StreamParts
  <2> QED BY <1>3, <2>1, NoCalls DEF WireType
<1>9. StoreType'
  BY DEF StoreType
<1>10. PreparesFit'
  BY <1>3, PreparesOthers DEF PreparesFit
<1> QED BY <1>3, <1>5, <1>6, <1>7, <1>8, <1>9, <1>10, Ended


\* Reading the last.
LEMMA TailOne ==
    ASSUME NEW M, NEW s \in Seq(M), Len(s) = 1
    PROVE  s # <<>> /\ Tail(s) = <<>>
<1>1. s # <<>>
  BY ONLY s \in Seq(M), Len(s) = 1, SeqParts
<1>2. Tail(s) \in Seq(M) /\ Len(Tail(s)) = 0
  BY <1>1, SeqParts
<1> PICK t : t = Tail(s)
  OBVIOUS
<1>3. t \in Seq(M) /\ Len(t) = 0
  BY <1>2
<1>4. t = <<>>
  BY ONLY <1>3, SeqParts
<1> QED BY <1>1, <1>4

\* The server ends a session whose client is gone.
LEMMA DisconnectStep ==
    ASSUME MyInv, Disconnect
    PROVE  MyInv'
<1>1. /\ wbuf' = wbuf /\ waiting' = waiting /\ status' = status /\ depth' = depth /\ cache' = cache
      /\ net' = net /\ replies' = replies /\ prepared' = prepared /\ next_id' = next_id
      /\ call' = call /\ handles' = handles /\ begun' = begun /\ fate' = fate /\ parent' = parent
      /\ acked' = acked /\ erred' = erred /\ call = Closed
  BY DEF Disconnect, inner, app
<1>2. AppType /\ WireType /\ StoreType /\ PreparesFit
  BY DEF MyInv
<1>3. AppType' /\ WireType' /\ StoreType' /\ PreparesFit'
  BY <1>1, <1>2 DEF AppType, WireType, StoreType, PreparesFit
<1> QED BY <1>1, <1>3, Shut

\* A call is dropped: what `waiting' does not account for takes the connection with it.
LEMMA CancelStep ==
    ASSUME MyInv, Aware, Cancel
    PROVE  MyInv'
<1>1. call # Closed
  <2>1. call.op \in AllCalls \/ call.at = "yield"
    BY MySqlAssumption DEF Cancel
  <2> QED BY <2>1, NoCalls DEF AllCalls
<1>2. /\ AppType /\ WireType /\ StoreType /\ PreparesFit /\ CacheExact /\ CallFits /\ (Stage \notin SideStages => Stream)
  BY <1>1, Parts
<1>3. /\ status' = status /\ cache' = cache /\ prepared' = prepared /\ next_id' = next_id /\ begun' = begun
      /\ parent' = parent /\ acked' = acked /\ erred' = erred
  BY DEF Cancel
<1>4. CASE Discarded
  <2>1. HangUp
    BY <1>4 DEF Cancel
  <2>2. /\ call' = Closed /\ handles' = <<>> /\ wbuf' = <<>> /\ replies' = <<>> /\ waiting' = <<>> /\ depth' = 0 /\ net' = net
        /\ fate' = [i \in Tx |-> IF i \in Open THEN "aborted" ELSE fate[i]]
    BY <2>1 DEF HangUp
  <2>3. AppType'
    BY <1>2, <1>3, <2>2 DEF AppType
  <2>4. WireType'
    BY <1>2, <2>2, NoCalls DEF WireType
  <2>5. StoreType' /\ PreparesFit'
    BY <1>2, <1>3, <2>2 DEF StoreType, PreparesFit
  <2> QED BY <2>2, <2>3, <2>4, <2>5, Shut
<1>5. CASE ~Discarded
  <2>1. Stage \notin SideStages
    BY <1>5 DEF Discarded, Aware, SideStages
  <2>2. StreamOf(waiting, replies, net, wbuf) /\ net \in Seq(Commands) /\ erred' \subseteq Tx
    BY <1>2, <1>3, <2>1 DEF Stream, WireType, AppType
  <2> PICK f \in {"aborted", "unknown"} : f = IF call.op = "Commit" THEN "unknown" ELSE "aborted"
    OBVIOUS
  <2>3. Abandon(f, replies, waiting)
    BY <1>5 DEF Cancel
  <2> QED BY <1>2, <1>3, <2>2, <2>3, Abandoned
<1> QED BY <1>4, <1>5

\* An ERR ends the response it is in.
LEMMA ReceiveErrStep ==
    ASSUME MyInv, ReceiveErr
    PROVE  MyInv'
<1>0. replies # <<>> /\ (call.at \in Reading \/ Drains) /\ Head(replies).k = "err" /\ Fail
  BY DEF ReceiveErr, Incoming
<1>1. call # Closed
  BY <1>0, NoCalls DEF Reading, Drains
<1>2. /\ AppType /\ WireType /\ StoreType /\ PreparesFit /\ CacheExact /\ CallFits /\ Side /\ (Stage \notin SideStages => Stream)
  BY <1>1, Parts
<1>3. /\ status' = status /\ cache' = cache /\ prepared' = prepared /\ next_id' = next_id /\ begun' = begun
      /\ parent' = parent /\ acked' = acked /\ erred' = erred \cup Open
  BY <1>0 DEF Fail
<1>4. erred' \subseteq Tx /\ net \in Seq(Commands) /\ waiting \in Seq({"Result", "Row"}) /\ replies \in Seq(Packets)
  BY <1>2, <1>3, TopTyped DEF AppType, WireType
<1>5. Abandon("aborted", Tail(replies), PopFront(waiting))
  BY <1>0 DEF Fail
<1>6. replies[1].k = "err" /\ Len(replies) \in Nat /\ Len(replies) # 0
  BY <1>0, <1>4
<1>7. StreamOf(PopFront(waiting), Tail(replies), net, wbuf)
  <2>1. CASE Stage \notin SideStages
    <3>1. StreamOf(waiting, replies, net, wbuf)
      BY <1>2, <2>1 DEF Stream
    <3>2. IsEnd(replies[1])
      BY <1>6 DEF IsEnd
    <3>3. waiting # <<>> /\ StreamOf(Tail(waiting), Tail(replies), net, wbuf)
      BY <1>0, <3>1, <3>2, StreamEnd
    <3> QED BY <3>3 DEF PopFront
  <2>2. CASE Stage \in SideStages
    <3>1. call.at \in {"pong", "prepare_ok", "defs"} /\ Stage = call.at
      BY <1>0, <2>2 DEF Stage, SideStages, Reading, Drains
    <3>2. call.at # "pong"
      BY <1>0, <1>2, <1>6, <2>2, <3>1 DEF Side, Pinging
    <3>3. call.at # "defs"
      <4> SUFFICES ASSUME call.at = "defs" PROVE FALSE
        OBVIOUS
      <4>1. Defined(call.n)
        BY <1>2, <2>2, <3>1 DEF Side
      <4> QED BY <1>6, <4>1 DEF Defined
    <3>4. Preparing
      BY <1>2, <2>2, <3>1, <3>2, <3>3 DEF Side
    <3>5. Quiet(net) /\ Len(replies) = 1
      BY <1>0, <1>6, <3>4 DEF Preparing
    <3>6. wbuf = <<>> /\ wbuf \in Seq(Commands) /\ Quiet(wbuf)
      <4>1. wbuf = <<>>
        BY <1>2, <3>1 DEF CallFits, SideStages
      <4> QED BY <4>1 DEF Quiet
    <3>7. waiting = <<"Result">> \/ waiting = <<>>
      BY <1>2, <2>2, <3>1 DEF Side
    <3>8. PopFront(waiting) = <<>>
      <4>1. CASE waiting = <<>>
        BY <4>1 DEF PopFront
      <4>2. CASE waiting = <<"Result">>
        <5>1. Len(waiting) = 1
          BY <4>2
        <5> QED BY <1>4, <5>1, TailOne DEF PopFront
      <4> QED BY <3>7, <4>1, <4>2
    <3>9. Tail(replies) = <<>>
      BY <1>4, <3>5, TailOne
    <3> QED BY <1>4, <3>5, <3>6, <3>8, <3>9, StreamNone
  <2> QED BY <2>1, <2>2
<1>8. "aborted" \in {"aborted", "unknown"}
  OBVIOUS
<1> QED BY <1>2, <1>3, <1>4, <1>5, <1>7, <1>8, Abandoned

\* A call starts and waits until the connection is ready.
LEMMA DrainStarts ==
    ASSUME MyInv, call = NoCall, NEW op \in AllCalls, NEW y \in Statements \cup {"none"}, call' = Draining(op, y),
           op \in Prepares => y \in Statements /\ next_id \in Ids,
           op = "Begin" => begun < MaxTx,
           op \in {"Commit", "Rollback"} => depth > 0 /\ handles # <<>>,
           UNCHANGED <<inner, server, handles, begun, fate, parent, acked, erred>>
    PROVE  MyInv'
<1>1. /\ wbuf' = wbuf /\ waiting' = waiting /\ status' = status /\ depth' = depth /\ cache' = cache
      /\ net' = net /\ replies' = replies /\ prepared' = prepared /\ next_id' = next_id
      /\ handles' = handles /\ begun' = begun /\ fate' = fate /\ parent' = parent
      /\ acked' = acked /\ erred' = erred
  BY DEF inner, server
<1>2. Stage = "none" /\ call # Closed
  BY NoCalls DEF Stage
<1>3. AppType /\ WireType /\ StoreType /\ PreparesFit /\ CacheExact /\ Stream
  BY <1>2, Parts DEF SideStages
<1>4. AppType' /\ StoreType' /\ PreparesFit'
  BY <1>1, <1>3 DEF AppType, StoreType, PreparesFit
<1>5. CacheExact' /\ Stream'
  BY <1>1, <1>3 DEF CacheExact, Stream
<1>6. /\ call'.op = op /\ call'.at = "drain" /\ call'.sql = y /\ call'.n = 0 /\ call' \in CallRecords
  BY DEF Draining, NoCall, CallRecords, Stages
<1>7. WireType'
  BY <1>1, <1>3, <1>6 DEF WireType
<1>8. Stage' = "drain"
  BY <1>6 DEF Stage
<1>9. CallFits'
  BY <1>1, <1>6, <1>8 DEF CallFits, Prepares, SideStages, OwnStages
<1>10. Side' /\ Own'
  BY <1>8 DEF Side, Own, OwnAt, SideStages, OwnStages
<1> QED BY <1>4, <1>5, <1>7, <1>9, <1>10 DEF MyInv

\* clear_cached_statements() starts.
LEMMA ClearStarts ==
    ASSUME MyInv, StartClear
    PROVE  MyInv'
<1>0. call = NoCall /\ call' = [NoCall EXCEPT !.op = "ClearCache", !.at = "clear"]
  BY DEF StartClear, Idle
<1>1. /\ wbuf' = wbuf /\ waiting' = waiting /\ status' = status /\ depth' = depth /\ cache' = cache
      /\ net' = net /\ replies' = replies /\ prepared' = prepared /\ next_id' = next_id
      /\ handles' = handles /\ begun' = begun /\ fate' = fate /\ parent' = parent
      /\ acked' = acked /\ erred' = erred
  BY DEF StartClear, inner, server
<1>2. Stage = "none" /\ call # Closed
  BY <1>0, NoCalls DEF Stage
<1>3. AppType /\ WireType /\ StoreType /\ PreparesFit /\ CacheExact /\ Stream
  BY <1>2, Parts DEF SideStages
<1>4. AppType' /\ StoreType' /\ PreparesFit'
  BY <1>1, <1>3 DEF AppType, StoreType, PreparesFit
<1>5. CacheExact' /\ Stream'
  BY <1>1, <1>3 DEF CacheExact, Stream
<1>6. /\ call'.op = "ClearCache" /\ call'.at = "clear" /\ call' \in CallRecords
  BY <1>0 DEF NoCall, CallRecords, Stages, AllCalls
<1>7. WireType'
  BY <1>1, <1>3, <1>6 DEF WireType
<1>8. Stage' = "clear"
  BY <1>6 DEF Stage
<1>9. CallFits'
  BY <1>1, <1>6, <1>8 DEF CallFits, Prepares, SideStages, OwnStages, AllCalls
<1>10. Side' /\ Own'
  BY <1>8 DEF Side, Own, OwnAt, SideStages, OwnStages
<1> QED BY <1>4, <1>5, <1>7, <1>9, <1>10 DEF MyInv

\* The calls of the application.
LEMMA StartStep ==
    ASSUME MyInv, NEW op \in Calls, NEW y, Start(op, y),
           \/ op \in {"Begin", "Execute", "Fetch", "Ping"} /\ y = "none"
           \/ op \in {"Run", "RunOnce", "Prepare", "Describe"} /\ y \in Statements
    PROVE  MyInv'
<1>1. call = NoCall /\ call' = Draining(op, y) /\ UNCHANGED <<inner, server, handles, begun, fate, parent, acked, erred>>
  BY DEF Start, Idle
<1>2. op \in AllCalls /\ y \in Statements \cup {"none"}
  BY MySqlAssumption
<1>3. op \in Prepares => y \in Statements /\ next_id \in Ids
  BY DEF Start, Prepares
<1>4. (op = "Begin" => begun < MaxTx) /\ op \notin {"Commit", "Rollback"}
  BY DEF Start
<1> QED BY <1>1, <1>2, <1>3, <1>4, DrainStarts

\* commit() and rollback().
LEMMA StartEndStep ==
    ASSUME MyInv, NEW op \in {"Commit", "Rollback"}, NEW f \in {"committed", "aborted"}, StartEnd(op, f)
    PROVE  MyInv'
<1>1. call = NoCall /\ handles # <<>> /\ UNCHANGED <<inner, server, begun, parent, acked, erred>>
  BY DEF StartEnd, Idle
<1>2. CASE depth > 0
  <2>1. call' = Draining(op, "none") /\ UNCHANGED <<handles, fate>>
    BY <1>2 DEF StartEnd
  <2>2. UNCHANGED <<inner, server, handles, begun, fate, parent, acked, erred>>
    BY <1>1, <2>1
  <2>3. op \in AllCalls /\ op \notin Prepares /\ op # "Begin" /\ "none" \in Statements \cup {"none"}
    BY DEF AllCalls, Prepares
  <2> QED BY <1>1, <1>2, <2>1, <2>2, <2>3, DrainStarts
<1>3. CASE ~(depth > 0)
  <2>1. handles' = Popped /\ fate' = [fate EXCEPT ![Top] = f] /\ call' = NoCall
    BY <1>1, <1>3 DEF StartEnd
  <2>2. /\ wbuf' = wbuf /\ waiting' = waiting /\ status' = status /\ depth' = depth /\ cache' = cache
        /\ net' = net /\ replies' = replies /\ prepared' = prepared /\ next_id' = next_id
        /\ begun' = begun /\ parent' = parent /\ acked' = acked /\ erred' = erred
    BY <1>1 DEF inner, server
  <2>3. Stage = "none" /\ call # Closed
    BY <1>1, NoCalls DEF Stage
  <2>4. AppType /\ WireType /\ StoreType /\ PreparesFit /\ CacheExact /\ Stream
    BY <2>3, Parts DEF SideStages
  <2>5. handles' \in Seq(Tx)
    BY <1>1, <2>1, <2>4, TopTyped
  <2>6. AppType'
    BY <2>1, <2>2, <2>4, <2>5 DEF AppType
  <2>7. WireType' /\ StoreType' /\ PreparesFit'
    BY <1>1, <2>1, <2>2, <2>4 DEF WireType, StoreType, PreparesFit
  <2>8. CacheExact' /\ Stream'
    BY <2>2, <2>4 DEF CacheExact, Stream
  <2> QED BY <2>1, <2>6, <2>7, <2>8, Ended
<1> QED BY <1>2, <1>3

\* A Transaction is dropped.
LEMMA DropStep ==
    ASSUME MyInv, DropTransaction
    PROVE  MyInv'
<1>1. call = NoCall /\ handles # <<>> /\ StartRollback(wbuf, waiting) /\ handles' = Popped /\ fate' = [fate EXCEPT ![Top] = "aborted"]
  BY DEF DropTransaction
<1>2. /\ status' = status /\ cache' = cache /\ net' = net /\ replies' = replies /\ prepared' = prepared /\ next_id' = next_id
      /\ begun' = begun /\ parent' = parent /\ acked' = acked /\ erred' = erred /\ call' = NoCall
  BY <1>1 DEF DropTransaction, server
<1>3. Stage = "none" /\ call # Closed
  BY <1>1, NoCalls DEF Stage
<1>4. AppType /\ WireType /\ StoreType /\ PreparesFit /\ CacheExact /\ Stream
  BY <1>3, Parts DEF SideStages
<1> PICK q, r, n, w, ca, id, p : /\ q = waiting /\ r = replies /\ n = net /\ w = wbuf /\ ca = cache
                                 /\ id = next_id /\ p = prepared
  OBVIOUS
<1>5. StreamOf(q, r, n, w) /\ CacheOf(ca, w, n, id, p)
  BY <1>4 DEF Stream, CacheExact
<1>6. StreamOf(waiting', r, n, wbuf') /\ CacheOf(ca, wbuf', n, id, p) /\ depth' \in Nat
  BY <1>1, <1>4, <1>5, RollbackQueued
<1>7. handles' \in Seq(Tx)
  BY <1>1, <1>4, TopTyped
<1>8. AppType'
  BY <1>1, <1>2, <1>4, <1>6, <1>7 DEF AppType
<1>9. waiting' \in Seq({"Result", "Row"}) /\ wbuf' \in Seq(Commands)
  BY <1>6, StreamParts
<1>10. WireType'
  BY <1>1, <1>2, <1>4, <1>9 DEF WireType
<1>11. StoreType' /\ PreparesFit'
  BY <1>2, <1>4 DEF StoreType, PreparesFit
<1>12. CacheExact' /\ Stream'
  BY <1>2, <1>6 DEF CacheExact, Stream
<1> QED BY <1>2, <1>8, <1>10, <1>11, <1>12, Ended

\* The connection is closed.
LEMMA CloseStep ==
    ASSUME MyInv, Close
    PROVE  MyInv'
<1>1. call = NoCall /\ net' \in {net, net \o wbuf} /\ call' = Closed /\ wbuf' = <<>> /\ replies' = <<>> /\ waiting' = <<>> /\ depth' = 0
  BY DEF Close
<1>2. /\ status' = status /\ cache' = cache /\ prepared' = prepared /\ next_id' = next_id
      /\ handles' = handles /\ begun' = begun /\ fate' = fate /\ parent' = parent /\ acked' = acked /\ erred' = erred
  BY DEF Close
<1>3. Stage = "none" /\ call # Closed
  BY <1>1, NoCalls DEF Stage
<1>4. AppType /\ WireType /\ StoreType /\ PreparesFit /\ Stream
  BY <1>3, Parts DEF SideStages
<1>5. Counted(wbuf) /\ net \in Seq(Commands) /\ wbuf \in Seq(Commands) /\ PreparesIn(net, next_id)
  BY <1>4, StreamParts DEF Stream, PreparesFit
<1>6. net' \in Seq(Commands) /\ PreparesFit'
  <2>1. PreparesIn(net \o wbuf, next_id) /\ net \o wbuf \in Seq(Commands)
    BY <1>5, PreparesConcat
  <2>2. PreparesIn(net', next_id) /\ net' \in Seq(Commands)
    BY <1>1, <1>5, <2>1
  <2> QED BY <1>2, <2>2 DEF PreparesFit
<1>7. AppType' /\ StoreType'
  BY <1>1, <1>2, <1>4 DEF AppType, StoreType
<1>8. WireType'
  BY <1>1, <1>6, NoCalls DEF WireType
<1> QED BY <1>1, <1>6, <1>7, <1>8, Shut


-----------------------------------------------------------------------------
(* Sending.                                                                *)

\* What a call in progress knows, whatever it does.
CallBase ==
    /\ call.op \in AllCalls
    /\ call.op \in Prepares => call.sql \in Statements
    /\ call.op \in {"Commit", "Rollback"} => depth > 0 /\ handles # <<>>
    /\ call.op = "Begin" => begun < MaxTx

\* It keeps that as long as its transaction is there.
LEMMA BaseKept ==
    ASSUME CallFits, call.at # "none", call'.op = call.op, call'.sql = call.sql,
           depth' = depth, handles' = handles, begun' = begun
    PROVE  CallBase'
BY DEF CallFits, CallBase

\* A command is buffered.
LEMMA Flushing ==
    ASSUME CallBase', call'.at = "flush", call'.then \notin {"none", "drain", "defs", "meta", "rows", "yield"},
           wbuf' # <<>>, call'.then # "clear" => Len(wbuf') = 1,
           call'.then = "close_once" => call'.id < next_id' /\ call'.id \notin CachedIds'
    PROVE  CallFits' /\ Stage' = call'.then
<1>1. Stage' = call'.then
  BY DEF Stage
<1> QED BY <1>1 DEF CallFits, CallBase, SideStages, OwnStages

\* The record of a call that sends.
LEMMA SentCall ==
    ASSUME call \in CallRecords, NEW st \in Stages, call' = [call EXCEPT !.at = "flush", !.then = st]
    PROVE  /\ call' \in CallRecords /\ call'.at = "flush" /\ call'.then = st /\ call'.op = call.op /\ call'.sql = call.sql
           /\ call'.id = call.id /\ call'.n = call.n
BY DEF CallRecords

\* The first of an empty buffer.
LEMMA OnlyOne ==
    ASSUME NEW w, w = <<>>, NEW m \in Commands
    PROVE  /\ Append(w, m) \in Seq(Commands) /\ Len(Append(w, m)) = 1 /\ Append(w, m)[1] = m /\ Append(w, m) # <<>>
           /\ \A i \in 1..Len(Append(w, m)) : i = 1
OBVIOUS

\* An entry of the deque.
LEMMA OneResult ==
    /\ Append(<<>>, "Result") = <<"Result">> /\ <<"Result">> \in Seq({"Result", "Row"}) /\ Len(<<"Result">>) = 1
    /\ <<"Result">>[1] = "Result" /\ <<>> \in Seq({"Result", "Row"})
OBVIOUS

\* With nothing else in flight that asks for an answer, the call sends a statement.
LEMMA Asked ==
    ASSUME WireType, AppType', StoreType', PreparesFit, CallBase',
           net' = net, next_id' = next_id, prepared' = prepared, replies' = <<>>, Quiet(net), wbuf = <<>>,
           waiting' = <<"Result">>, CacheOf(cache', wbuf, net, next_id, prepared),
           NEW m \in Commands, m.c \in {"query", "execute"}, m.own = TRUE, wbuf' = Append(wbuf, m),
           NEW st \in {"first", "close_once"}, call' = [call EXCEPT !.at = "flush", !.then = st],
           st = "close_once" => call.id < next_id /\ call.id \notin IdsOf(cache')
    PROVE  MyInv'
<1>1. st \in Stages /\ call \in CallRecords
  BY DEF Stages, OwnStages, WireType
<1>2. /\ call' \in CallRecords /\ call'.at = "flush" /\ call'.then = st /\ call'.op = call.op /\ call'.sql = call.sql
      /\ call'.id = call.id /\ call'.n = call.n
  BY <1>1, SentCall
<1>3. wbuf' \in Seq(Commands) /\ Len(wbuf') = 1 /\ wbuf'[1] = m /\ wbuf' # <<>> /\ \A i \in 1..Len(wbuf') : i = 1
  BY OnlyOne
<1>4. CallFits' /\ Stage' = st
  <2>1. st = "close_once" => call.id < next_id' /\ call.id \notin CachedIds'
    BY DEF CachedIds
  <2> QED BY <1>2, <1>3, <2>1, Flushing
<1>5. Stream'
  <2> PICK q, r, n, w : q = <<>> /\ r = <<>> /\ n = net /\ w = wbuf
    OBVIOUS
  <2>1. n \in Seq(Commands) /\ w \in Seq(Commands) /\ Quiet(n) /\ Quiet(w)
    BY DEF WireType, Quiet
  <2>2. StreamOf(q, r, n, w)
    BY <2>1, StreamNone
  <2>3. StreamOf(Append(q, "Result"), r, n, Append(w, m))
    BY <2>2, StreamAsk
  <2>4. waiting' = Append(q, "Result")
    BY OneResult
  <2> QED BY <2>3, <2>4 DEF Stream
<1>6. CacheExact'
  <2>1. Harmless(m, cache', next_id)
    BY DEF Harmless
  <2>2. CacheOf(cache', Append(wbuf, m), net, next_id, prepared)
    BY <2>1, CacheQueue
  <2> QED BY <2>2 DEF CacheExact
<1>7. WireType'
  BY <1>2, <1>3, OneResult DEF WireType
<1>8. PreparesFit'
  BY DEF PreparesFit
<1>9. Own'
  <2>1. OwnPackets(replies') /\ OwnCommands(net') /\ OwnCommands(wbuf')
    BY <1>3 DEF OwnPackets, OwnCommands, Quiet
  <2>2. Len(waiting') = 1 /\ waiting'[1] = "Result"
    BY OneResult
  <2> QED BY <1>4, <2>1, <2>2 DEF Own, OwnAt, OwnStages
<1>10. Side'
  BY <1>4 DEF Side, SideStages
<1> QED BY <1>4, <1>5, <1>6, <1>7, <1>8, <1>9, <1>10 DEF MyInv

\* The connection is ready for a command.
LEMMA Drained ==
    ASSUME MyInv, NEW ops, Ready(ops)
    PROVE  /\ call # Closed /\ call.at = "drain" /\ Stage = "drain" /\ call.op \in ops /\ call.n = 0
           /\ wbuf = <<>> /\ waiting = <<>> /\ replies = <<>> /\ Quiet(net)
           /\ AppType /\ WireType /\ StoreType /\ PreparesFit /\ CacheExact /\ CallFits /\ Stream
<1>1. call.at = "drain" /\ wbuf = <<>> /\ waiting = <<>> /\ call.n = 0 /\ call.op \in ops
  BY DEF Ready
<1>2. call # Closed /\ Stage = "drain"
  BY <1>1, NoCalls DEF Stage
<1>3. AppType /\ WireType /\ StoreType /\ PreparesFit /\ CacheExact /\ CallFits /\ Stream
  BY <1>2, Parts DEF SideStages
<1>4. replies = <<>> /\ Quiet(net)
  BY <1>1, <1>3, StreamEmptied DEF Stream
<1> QED BY <1>1, <1>2, <1>3, <1>4

\* A statement without arguments.
LEMMA QueryStep ==
    ASSUME MyInv, QueryReady
    PROVE  MyInv'
<1> DEFINE ops == {"Begin", "Commit", "Rollback", "Execute", "Fetch"}
<1>1. Ready(ops)
  BY DEF QueryReady
<1>2. /\ call.at = "drain" /\ call.op \in ops
      /\ wbuf = <<>> /\ waiting = <<>> /\ replies = <<>> /\ Quiet(net)
      /\ AppType /\ WireType /\ StoreType /\ PreparesFit /\ CacheExact /\ CallFits
  BY <1>1, Drained
<1> PICK a : a = CASE call.op = "Begin"    -> BeginSql(depth)
                   [] call.op = "Commit"   -> CommitSql(depth)
                   [] call.op = "Rollback" -> RollbackSql(depth)
                   [] call.op = "Execute"  -> Write
                   [] call.op = "Fetch"    -> Select
  OBVIOUS
<1>3. a \in Queries
  <2>1. depth \in Nat /\ (call.op \in {"Commit", "Rollback"} => depth > 0)
    BY <1>2 DEF AppType, CallFits
  <2>2. BeginSql(depth) \in Queries /\ (depth > 0 => CommitSql(depth) \in Queries /\ RollbackSql(depth) \in Queries)
    BY <2>1, SqlTyped
  <2>3. Write \in Queries /\ Select \in Queries
    BY <1>2, CommandsTyped
  <2> QED BY <1>2, <2>1, <2>2, <2>3
<1> PICK m : m = Query(a)
  OBVIOUS
<1>4. m \in Commands /\ m.c = "query" /\ m.own = TRUE
  <2>1. CommandIs(m, "query", 0, "none")
    BY <1>2, <1>3, CommandsTyped
  <2> QED BY <2>1 DEF CommandIs
<1>5. waiting' = Append(waiting, "Result") /\ wbuf' = Append(wbuf, m) /\ call' = [call EXCEPT !.at = "flush", !.then = "first"]
  BY DEF QueryReady, SendThen
<1>6. /\ status' = status /\ depth' = depth /\ cache' = cache /\ net' = net /\ replies' = replies /\ prepared' = prepared
      /\ next_id' = next_id /\ handles' = handles /\ begun' = begun /\ fate' = fate /\ parent' = parent
      /\ acked' = acked /\ erred' = erred
  BY DEF QueryReady, server, appRest
<1>7. AppType' /\ StoreType'
  BY <1>2, <1>6 DEF AppType, StoreType
<1>8. CallBase'
  <2>1. call'.op = call.op /\ call'.sql = call.sql
    BY <1>2, <1>5 DEF WireType, CallRecords
  <2> QED BY <1>2, <1>6, <2>1, BaseKept
<1>9. waiting' = <<"Result">> /\ replies' = <<>>
  BY <1>2, <1>5, <1>6, OneResult
<1>10. CacheOf(cache', wbuf, net, next_id, prepared)
  BY <1>2, <1>6 DEF CacheExact
<1>11. "first" \in {"first", "close_once"} /\ "first" # "close_once" /\ m.c \in {"query", "execute"}
  BY <1>4
<1> QED BY <1>2, <1>4, <1>5, <1>6, <1>7, <1>8, <1>9, <1>10, <1>11, Asked

\* The statement of the cache, or the one just prepared, is executed.
LEMMA ExecuteStep ==
    ASSUME MyInv, SendExecute
    PROVE  MyInv'
<1>1. call.at = "execute" /\ Stage = "execute"
  BY DEF SendExecute, Stage
<1>2. call # Closed
  BY <1>1, NoCalls
<1>3. AppType /\ WireType /\ StoreType /\ PreparesFit /\ CacheExact /\ CallFits /\ Side
  BY <1>2, Parts
<1>4. call.op \in Runs /\ Quiet(net) /\ replies = <<>> /\ waiting = <<"Result">> /\ wbuf = <<>>
  <2>1. Stage \in SideStages /\ call.at \in SideStages
    BY <1>1 DEF SideStages
  <2>2. call.op \in Runs /\ Quiet(net) /\ replies = <<>>
    BY <1>1, <1>3, <2>1 DEF Side
  <2>3. waiting = <<"Result">>
    BY <1>1, <1>3, <2>1, <2>2 DEF Side
  <2> QED BY <1>3, <2>1, <2>2, <2>3 DEF CallFits
<1> PICK m : m = ExecuteCmd(call.id)
  OBVIOUS
<1>5. m \in Commands /\ m.c = "execute" /\ m.own = TRUE
  <2>1. call.id \in Nat
    BY <1>3 DEF WireType, CallRecords
  <2>2. CommandIs(m, "execute", call.id, "none")
    BY <1>3, <2>1, CommandsTyped
  <2> QED BY <2>2 DEF CommandIs
<1>6. wbuf' = Append(wbuf, m) /\ call' = [call EXCEPT !.at = "flush", !.then = "first"]
  BY DEF SendExecute, SendThen
<1>7. /\ status' = status /\ depth' = depth /\ cache' = cache /\ net' = net /\ replies' = replies /\ prepared' = prepared
      /\ next_id' = next_id /\ handles' = handles /\ begun' = begun /\ fate' = fate /\ parent' = parent
      /\ acked' = acked /\ erred' = erred /\ waiting' = waiting
  BY DEF SendExecute, server, appRest
<1>8. AppType' /\ StoreType'
  BY <1>3, <1>7 DEF AppType, StoreType
<1>9. CallBase'
  <2>1. call'.op = call.op /\ call'.sql = call.sql
    BY <1>3, <1>6 DEF WireType, CallRecords
  <2> QED BY <1>1, <1>3, <1>7, <2>1, BaseKept
<1>10. CacheOf(cache', wbuf, net, next_id, prepared)
  BY <1>3, <1>7 DEF CacheExact
<1>11. "first" \in {"first", "close_once"} /\ "first" # "close_once" /\ m.c \in {"query", "execute"} /\ replies' = <<>> /\ waiting' = <<"Result">>
  BY <1>4, <1>5, <1>7
<1> QED BY <1>3, <1>4, <1>5, <1>6, <1>7, <1>8, <1>9, <1>10, <1>11, Asked


\* A command whose answer the deque does not count is sent when nothing else is in flight.
LEMMA AskedAside ==
    ASSUME WireType, AppType', StoreType', PreparesFit, CallBase', CacheExact,
           net' = net, next_id' = next_id, prepared' = prepared, cache' = cache, replies' = <<>>, Quiet(net), wbuf = <<>>,
           NEW k, NEW m, CommandIs(m, k, 0, IF k = "prepare" THEN call.sql ELSE "none"), wbuf' = Append(wbuf, m),
           NEW st, call' = [call EXCEPT !.at = "flush", !.then = st],
           \/ k = "ping" /\ st = "pong" /\ call.op = "Ping" /\ waiting' = <<>>
           \/ /\ k = "prepare" /\ st = "prepare_ok" /\ call.op \in Prepares /\ next_id \in Ids
              /\ waiting' = (IF call.op \in Runs THEN <<"Result">> ELSE <<>>)
    PROVE  MyInv'
<1>1. st \in {"pong", "prepare_ok"} /\ st \in Stages /\ st \in SideStages /\ call \in CallRecords
  BY DEF Stages, SideStages, WireType
<1>2. /\ call' \in CallRecords /\ call'.at = "flush" /\ call'.then = st /\ call'.op = call.op /\ call'.sql = call.sql
      /\ call'.id = call.id /\ call'.n = call.n
  BY <1>1, SentCall
<1>3. m \in Commands /\ m.c = k /\ m.own = TRUE /\ m.sql = IF k = "prepare" THEN call.sql ELSE "none"
  BY DEF CommandIs
<1>4. wbuf' \in Seq(Commands) /\ Len(wbuf') = 1 /\ wbuf'[1] = m /\ wbuf' # <<>>
  BY <1>3, OnlyOne
<1>5. CallFits' /\ Stage' = st
  BY <1>1, <1>2, <1>4, Flushing
<1>6. CacheExact'
  <2>1. Harmless(m, cache, next_id)
    BY <1>3 DEF Harmless
  <2>2. CacheOf(cache, Append(wbuf, m), net, next_id, prepared)
    BY <1>3, <2>1, CacheQueue DEF CacheExact
  <2> QED BY <2>2 DEF CacheExact
<1>7. waiting' = (IF call'.op \in Runs THEN <<"Result">> ELSE <<>>)
  BY <1>2 DEF Runs
<1>8. WireType'
  <2>1. waiting' \in Seq({"Result", "Row"})
    BY <1>7, OneResult
  <2> QED BY <1>2, <1>4, <2>1 DEF WireType
<1>9. PreparesFit'
  BY DEF PreparesFit
<1>10. OwnPackets(replies)'
  BY DEF OwnPackets
<1>11. SentAlone(k)'
  BY <1>2, <1>3, <1>4 DEF SentAlone, Asks
<1>12. st = "pong" => Pinging'
  BY <1>11 DEF Pinging
<1>13. st = "prepare_ok" => Preparing'
  BY <1>11 DEF Preparing
<1>14. Side'
  BY <1>1, <1>2, <1>5, <1>7, <1>10, <1>12, <1>13 DEF Side
<1>15. Own'
  BY <1>1, <1>5 DEF Own, OwnAt, OwnStages
<1> QED BY <1>1, <1>5, <1>6, <1>8, <1>9, <1>14, <1>15 DEF MyInv

\* COM_PING.
LEMMA PingStep ==
    ASSUME MyInv, PingReady
    PROVE  MyInv'
<1> DEFINE ops == {"Ping"}
<1>1. Ready(ops)
  BY DEF PingReady
<1>2. /\ call.at = "drain" /\ call.op = "Ping"
      /\ wbuf = <<>> /\ waiting = <<>> /\ replies = <<>> /\ Quiet(net)
      /\ AppType /\ WireType /\ StoreType /\ PreparesFit /\ CacheExact /\ CallFits
  BY <1>1, Drained
<1> PICK m, k, st : m = PingCmd /\ k = "ping" /\ st = "pong"
  OBVIOUS
<1>3. CommandIs(m, k, 0, IF k = "prepare" THEN call.sql ELSE "none")
  BY <1>2, CommandsTyped
<1>4. wbuf' = Append(wbuf, m) /\ call' = [call EXCEPT !.at = "flush", !.then = st]
  BY DEF PingReady, SendThen
<1>5. /\ status' = status /\ depth' = depth /\ cache' = cache /\ net' = net /\ replies' = replies /\ prepared' = prepared
      /\ next_id' = next_id /\ handles' = handles /\ begun' = begun /\ fate' = fate /\ parent' = parent
      /\ acked' = acked /\ erred' = erred /\ waiting' = waiting
  BY DEF PingReady, server, appRest
<1>6. AppType' /\ StoreType'
  BY <1>2, <1>5 DEF AppType, StoreType
<1>7. CallBase'
  <2>1. call'.op = call.op /\ call'.sql = call.sql
    BY <1>2, <1>4 DEF WireType, CallRecords
  <2> QED BY <1>2, <1>5, <2>1, BaseKept
<1>8. replies' = <<>> /\ (k = "ping" /\ st = "pong" /\ call.op = "Ping" /\ waiting' = <<>>)
  BY <1>2, <1>5
<1> QED BY <1>2, <1>3, <1>4, <1>5, <1>6, <1>7, <1>8, AskedAside

\* A statement with arguments: it is prepared unless the cache has it.
LEMMA PrepareStep ==
    ASSUME MyInv, PrepareReady
    PROVE  MyInv'
<1>1. Ready(Prepares)
  BY DEF PrepareReady, Prepares
<1>2. /\ call.at = "drain" /\ call.op \in Prepares
      /\ wbuf = <<>> /\ waiting = <<>> /\ replies = <<>> /\ Quiet(net)
      /\ AppType /\ WireType /\ StoreType /\ PreparesFit /\ CacheExact /\ CallFits
  BY <1>1, Drained
<1>3. status' = status /\ net' = net /\ replies' = replies /\ prepared' = prepared /\ next_id' = next_id
  BY DEF PrepareReady, server
<1>4. waiting' = (IF call.op \in Runs THEN <<"Result">> ELSE <<>>) /\ replies' = <<>>
  BY <1>2, <1>3, OneResult DEF PrepareReady, Runs
<1>5. call.sql \in Statements /\ next_id \in Ids
  BY <1>2 DEF CallFits
<1>6. CASE ~Transient /\ Entries(call.sql) # {}
  <2> PICK y, t : y = call.sql /\ t = Touched(y)
    OBVIOUS
  <2>1. cache' = t
    BY <1>6 DEF PrepareReady
  <2>2. CacheOf(t, wbuf, net, next_id, prepared) /\ Len(t) = Len(cache) /\ Len(cache) \in 1..Len(cache)
    BY <1>2, <1>6, CacheTouched
  <2>3. t \in Seq(CacheEntries)
    BY <2>2, CacheParts
  <2>4. StoreType'
    BY <1>2, <1>3, <2>1, <2>2, <2>3 DEF StoreType
  <2>5. CASE call.op = "Run"
    <3> PICK m : m = ExecuteCmd(t[Len(cache)].id)
      OBVIOUS
    <3>1. m \in Commands /\ m.c = "execute" /\ m.own = TRUE
      <4>1. t[Len(cache)].id \in Nat
        BY <2>2, <2>3, EntryIds
      <4>2. CommandIs(m, "execute", t[Len(cache)].id, "none")
        BY <1>2, <4>1, CommandsTyped
      <4> QED BY <4>2 DEF CommandIs
    <3>2. wbuf' = Append(wbuf, m) /\ call' = [call EXCEPT !.at = "flush", !.then = "first"]
          /\ depth' = depth /\ handles' = handles /\ begun' = begun /\ fate' = fate /\ parent' = parent
          /\ acked' = acked /\ erred' = erred
      BY <1>6, <2>1, <2>5 DEF PrepareReady, SendThen, appRest
    <3>3. AppType'
      BY <1>2, <1>3, <3>2 DEF AppType
    <3>4. CallBase'
      <4>1. call'.op = call.op /\ call'.sql = call.sql
        BY <1>2, <3>2 DEF WireType, CallRecords
      <4> QED BY <1>2, <3>2, <4>1, BaseKept
    <3>5. waiting' = <<"Result">>
      BY <1>4, <2>5 DEF Runs
    <3>6. "first" \in {"first", "close_once"} /\ "first" # "close_once" /\ m.c \in {"query", "execute"}
      BY <3>1
    <3>7. CacheOf(cache', wbuf, net, next_id, prepared)
      BY <2>1, <2>2
    <3> QED BY <1>2, <1>3, <1>4, <2>4, <3>1, <3>2, <3>3, <3>4, <3>5, <3>6, <3>7, Asked
  <2>6. CASE call.op # "Run"
    <3>1. Return /\ wbuf' = wbuf
      BY <1>6, <2>6 DEF PrepareReady
    <3>2. waiting' = <<>>
      BY <1>4, <1>6, <2>6 DEF Runs, Transient
    <3>3. call' = NoCall
      BY <3>1 DEF Return
    <3>4. AppType'
      <4>1. status' \in BOOLEAN
        BY <1>2, <1>3 DEF AppType
      <4> QED BY <1>2, <3>1, <4>1, ReturnTyped
    <3>5. WireType'
      BY <1>2, <1>3, <3>1, <3>2, <3>3, NoCalls, OneResult DEF WireType
    <3>6. PreparesFit'
      BY <1>2, <1>3 DEF PreparesFit
    <3>7. CacheExact'
      BY <1>3, <2>1, <2>2, <3>1 DEF CacheExact
    <3>8. Stream'
      <4>1. net \in Seq(Commands) /\ wbuf \in Seq(Commands) /\ Quiet(wbuf)
        BY <1>2 DEF WireType, Quiet
      <4>2. StreamOf(<<>>, <<>>, net, wbuf)
        BY <1>2, <4>1, StreamNone
      <4> QED BY <1>3, <1>4, <3>1, <3>2, <4>2 DEF Stream
    <3> QED BY <2>4, <3>3, <3>4, <3>5, <3>6, <3>7, <3>8, Ended
  <2> QED BY <2>5, <2>6
<1>7. CASE ~(~Transient /\ Entries(call.sql) # {})
  <2> PICK m, k, st : m = PrepareCmd(call.sql) /\ k = "prepare" /\ st = "prepare_ok"
    OBVIOUS
  <2>1. CommandIs(m, k, 0, IF k = "prepare" THEN call.sql ELSE "none")
    BY <1>2, <1>5, CommandsTyped
  <2>2. wbuf' = Append(wbuf, m) /\ call' = [call EXCEPT !.at = "flush", !.then = st]
        /\ depth' = depth /\ handles' = handles /\ begun' = begun /\ fate' = fate /\ parent' = parent
        /\ acked' = acked /\ erred' = erred /\ cache' = cache
    BY <1>7 DEF PrepareReady, SendThen, appRest
  <2>3. AppType' /\ StoreType'
    BY <1>2, <1>3, <2>2 DEF AppType, StoreType
  <2>4. CallBase'
    <3>1. call'.op = call.op /\ call'.sql = call.sql
      BY <1>2, <2>2 DEF WireType, CallRecords
    <3> QED BY <1>2, <2>2, <3>1, BaseKept
  <2>5. /\ k = "prepare" /\ st = "prepare_ok" /\ call.op \in Prepares /\ next_id \in Ids
        /\ waiting' = (IF call.op \in Runs THEN <<"Result">> ELSE <<>>)
    BY <1>2, <1>4, <1>5
  <2> QED BY <1>2, <1>3, <1>4, <2>1, <2>2, <2>3, <2>4, <2>5, AskedAside
<1> QED BY <1>6, <1>7

\* A statement that is not kept is closed while its result is on the way.
LEMMA SendCloseStep ==
    ASSUME MyInv, SendClose
    PROVE  MyInv'
<1>1. call.at = "close_once" /\ Stage = "close_once"
  BY DEF SendClose, Stage
<1>2. call # Closed
  BY <1>1, NoCalls
<1>3. AppType /\ WireType /\ StoreType /\ PreparesFit /\ CacheExact /\ CallFits /\ Own /\ Stream
  BY <1>1, <1>2, Parts DEF SideStages
<1>4. /\ OwnPackets(replies) /\ OwnCommands(net) /\ Len(waiting) = 1 /\ waiting[1] = "Result" /\ wbuf = <<>>
      /\ call.id < next_id /\ call.id \notin CachedIds
  BY <1>1, <1>3 DEF Own, OwnAt, OwnStages, CallFits
<1> PICK m : m = StmtClose(call.id)
  OBVIOUS
<1>5. m \in Commands /\ m.c = "close" /\ m.id = call.id
  <2>1. call.id \in Nat
    BY <1>3 DEF WireType, CallRecords
  <2>2. CommandIs(m, "close", call.id, "none")
    BY <1>3, <2>1, CommandsTyped
  <2> QED BY <2>2 DEF CommandIs
<1>6. wbuf' = Append(wbuf, m) /\ call' = [call EXCEPT !.at = "flush", !.then = "first"]
  BY DEF SendClose, SendThen
<1>7. /\ status' = status /\ depth' = depth /\ cache' = cache /\ net' = net /\ replies' = replies /\ prepared' = prepared
      /\ next_id' = next_id /\ handles' = handles /\ begun' = begun /\ fate' = fate /\ parent' = parent
      /\ acked' = acked /\ erred' = erred /\ waiting' = waiting
  BY DEF SendClose, server, appRest
<1>8. AppType' /\ StoreType' /\ PreparesFit'
  BY <1>3, <1>7 DEF AppType, StoreType, PreparesFit
<1>9. "first" \in Stages /\ call \in CallRecords
  BY <1>3 DEF Stages, OwnStages, WireType
<1>10. /\ call' \in CallRecords /\ call'.at = "flush" /\ call'.then = "first" /\ call'.op = call.op /\ call'.sql = call.sql
  BY <1>6, <1>9, SentCall
<1>11. CallBase'
  BY <1>1, <1>3, <1>7, <1>10, BaseKept
<1>12. wbuf' \in Seq(Commands) /\ Len(wbuf') = 1 /\ wbuf'[1] = m /\ wbuf' # <<>> /\ \A i \in 1..Len(wbuf') : i = 1
  BY <1>4, <1>5, <1>6, OnlyOne
<1>13. CallFits' /\ Stage' = "first"
  BY <1>10, <1>11, <1>12, Flushing
<1>14. Stream'
  <2>1. StreamOf(waiting, replies, net, Append(wbuf, m))
    BY <1>3, <1>5, StreamClose DEF Stream
  <2> QED BY <1>6, <1>7, <2>1 DEF Stream
<1>15. CacheExact'
  <2>1. Harmless(m, cache, next_id)
    BY <1>4, <1>5 DEF Harmless, CachedIds
  <2>2. CacheOf(cache, Append(wbuf, m), net, next_id, prepared)
    BY <1>3, <1>5, <2>1, CacheQueue DEF CacheExact
  <2> QED BY <1>6, <1>7, <2>2 DEF CacheExact
<1>16. WireType'
  BY <1>3, <1>7, <1>10, <1>12 DEF WireType
<1>17. Own'
  <2>1. OwnCommands(wbuf')
    BY <1>5, <1>12 DEF OwnCommands
  <2>2. OwnPackets(replies') /\ OwnCommands(net') /\ Len(waiting') = 1 /\ waiting'[1] = "Result"
    BY <1>4, <1>7
  <2> QED BY <1>13, <2>1, <2>2 DEF Own, OwnAt
<1>18. Side'
  BY <1>13 DEF Side, SideStages
<1> QED BY <1>8, <1>13, <1>14, <1>15, <1>16, <1>17, <1>18 DEF MyInv

\* prepare_with() and describe() return.
LEMMA SendDoneStep ==
    ASSUME MyInv, SendDone
    PROVE  MyInv'
<1>1. call.at = "return" /\ Stage = "return" /\ Return
  BY DEF SendDone, Stage
<1>2. call # Closed
  BY <1>1, NoCalls
<1>3. AppType /\ WireType /\ StoreType /\ PreparesFit /\ CacheExact /\ CallFits /\ Stream
  BY <1>1, <1>2, Parts DEF SideStages
<1>4. /\ status' = status /\ cache' = cache /\ net' = net /\ replies' = replies /\ prepared' = prepared
      /\ next_id' = next_id /\ waiting' = waiting /\ wbuf' = wbuf /\ call' = NoCall
  BY DEF SendDone, server, Return
<1>5. AppType'
  <2>1. status' \in BOOLEAN
    BY <1>3, <1>4 DEF AppType
  <2> QED BY <1>1, <1>3, <2>1, ReturnTyped
<1>6. WireType' /\ StoreType' /\ PreparesFit'
  BY <1>3, <1>4, NoCalls DEF WireType, StoreType, PreparesFit
<1>7. CacheExact' /\ Stream'
  BY <1>3, <1>4 DEF CacheExact, Stream
<1> QED BY <1>4, <1>5, <1>6, <1>7, Ended

\* clear_cached_statements() closes the statements one after another.
LEMMA ClearStepStep ==
    ASSUME MyInv, ClearStep
    PROVE  MyInv'
<1>1. call.at = "clear" /\ Stage = "clear"
  BY DEF ClearStep, Stage
<1>2. call # Closed
  BY <1>1, NoCalls
<1>3. AppType /\ WireType /\ StoreType /\ PreparesFit /\ CacheExact /\ CallFits /\ Stream
  BY <1>1, <1>2, Parts DEF SideStages
<1>4. status' = status /\ net' = net /\ replies' = replies /\ prepared' = prepared /\ next_id' = next_id /\ waiting' = waiting
  BY DEF ClearStep, server
<1>5. CASE cache = <<>>
  <2>1. Return /\ wbuf' = wbuf /\ cache' = cache /\ call' = NoCall
    BY <1>5 DEF ClearStep, Return
  <2>2. AppType'
    <3>1. status' \in BOOLEAN
      BY <1>3, <1>4 DEF AppType
    <3> QED BY <1>3, <2>1, <3>1, ReturnTyped
  <2>3. WireType' /\ StoreType' /\ PreparesFit'
    BY <1>3, <1>4, <2>1, NoCalls DEF WireType, StoreType, PreparesFit
  <2>4. CacheExact' /\ Stream'
    BY <1>3, <1>4, <2>1 DEF CacheExact, Stream
  <2> QED BY <2>1, <2>2, <2>3, <2>4, Ended
<1>6. CASE cache # <<>>
  <2> PICK m, x : x = Head(cache).id /\ m = StmtClose(x)
    OBVIOUS
  <2>1. wbuf' = Append(wbuf, m) /\ call' = [call EXCEPT !.at = "flush", !.then = "clear"] /\ cache' = Tail(cache)
        /\ depth' = depth /\ handles' = handles /\ begun' = begun /\ fate' = fate /\ parent' = parent
        /\ acked' = acked /\ erred' = erred
    BY <1>6 DEF ClearStep, SendThen, appRest
  <2>2. /\ CacheOf(Tail(cache), wbuf, net, next_id, prepared) /\ x < next_id /\ x \notin IdsOf(Tail(cache)) /\ x \in Nat
        /\ Len(Tail(cache)) = Len(cache) - 1
    BY <1>3, <1>6, CacheDrop DEF CacheExact
  <2>3. m \in Commands /\ m.c = "close" /\ m.id = x
    <3>1. CommandIs(m, "close", x, "none")
      BY <1>3, <2>2, CommandsTyped
    <3> QED BY <3>1 DEF CommandIs
  <2>4. AppType' /\ PreparesFit'
    BY <1>3, <1>4, <2>1 DEF AppType, PreparesFit
  <2>5. StoreType'
    <3>1. Tail(cache) \in Seq(CacheEntries)
      BY <2>2, CacheParts
    <3>2. Len(Tail(cache)) <= Capacity
      BY <1>3, <2>2, MySqlAssumption DEF StoreType
    <3> QED BY <1>3, <1>4, <2>1, <3>1, <3>2 DEF StoreType
  <2>6. "clear" \in Stages /\ call \in CallRecords
    BY <1>3 DEF Stages, WireType
  <2>7. /\ call' \in CallRecords /\ call'.at = "flush" /\ call'.then = "clear" /\ call'.op = call.op /\ call'.sql = call.sql
    BY <2>1, <2>6, SentCall
  <2>8. CallBase'
    BY <1>1, <1>3, <2>1, <2>7, BaseKept
  <2>9. wbuf' \in Seq(Commands) /\ wbuf' # <<>>
    BY <1>3, <2>1, <2>3, AnsweredAppend DEF WireType
  <2>10. CallFits' /\ Stage' = "clear"
    BY <2>7, <2>8, <2>9, Flushing
  <2>11. Stream'
    <3>1. StreamOf(waiting, replies, net, Append(wbuf, m))
      BY <1>3, <2>3, StreamClose DEF Stream
    <3> QED BY <1>4, <2>1, <3>1 DEF Stream
  <2>12. CacheExact'
    <3> PICK ca : ca = Tail(cache)
      OBVIOUS
    <3>1. Harmless(m, ca, next_id)
      BY <2>2, <2>3 DEF Harmless
    <3>2. CacheOf(ca, Append(wbuf, m), net, next_id, prepared)
      BY <2>2, <2>3, <3>1, CacheQueue
    <3> QED BY <1>4, <2>1, <3>2 DEF CacheExact
  <2>13. WireType'
    BY <1>3, <1>4, <2>7, <2>9 DEF WireType
  <2>14. Side' /\ Own'
    BY <2>10 DEF Side, Own, OwnAt, SideStages, OwnStages
  <2> QED BY <2>4, <2>5, <2>10, <2>11, <2>12, <2>13, <2>14 DEF MyInv
<1> QED BY <1>5, <1>6


\* A command of the buffer goes out; with the last the call goes on.
LEMMA FlushStep ==
    ASSUME MyInv, Flush
    PROVE  MyInv'
<1>1. call.at \in {"drain", "flush"} /\ wbuf # <<>>
  BY DEF Flush
<1>2. call # Closed
  BY <1>1, NoCalls
<1>3. /\ AppType /\ WireType /\ StoreType /\ PreparesFit /\ CacheExact /\ CallFits /\ Side /\ Own
      /\ (Stage \notin SideStages => Stream)
  BY <1>2, Parts
<1> PICK m, n, v, w, x : m = Head(wbuf) /\ n = net /\ v = Append(n, m) /\ w = wbuf /\ x = Tail(w)
  OBVIOUS
<1>4. net' = v /\ wbuf' = x
  BY DEF Flush
<1>5. /\ status' = status /\ depth' = depth /\ cache' = cache /\ replies' = replies /\ prepared' = prepared
      /\ next_id' = next_id /\ waiting' = waiting /\ handles' = handles /\ begun' = begun /\ fate' = fate /\ parent' = parent
      /\ acked' = acked /\ erred' = erred
  BY DEF Flush, appRest
<1>6. n \in Seq(Commands) /\ w \in Seq(Commands) /\ w # <<>> /\ call \in CallRecords
  BY <1>1, <1>3 DEF WireType
<1>7. /\ m \in Commands /\ m = w[1] /\ x \in Seq(Commands) /\ Len(x) = Len(w) - 1 /\ Len(w) \in Nat /\ Len(w) # 0 /\ 1 \in 1..Len(w)
      /\ \A i \in 1..Len(w) - 1 : x[i] = w[i + 1]
  BY <1>6, SeqParts
<1>8. /\ v \in Seq(Commands) /\ Len(v) = Len(n) + 1 /\ Len(n) \in Nat /\ v[Len(n) + 1] = m /\ \A i \in 1..Len(n) : v[i] = n[i]
  BY <1>6, <1>7, AnsweredAppend
<1>9. \A i \in 1..Len(v) : (i \in 1..Len(n) /\ v[i] = n[i]) \/ (i = Len(n) + 1 /\ v[i] = m)
  <2> TAKE i \in 1..Len(v)
  <2>1. i \in 1..Len(n) \/ i = Len(n) + 1
    BY <1>8
  <2> QED BY <1>8, <2>1
<1>10. /\ call' \in CallRecords /\ call'.op = call.op /\ call'.sql = call.sql /\ call'.id = call.id /\ call'.n = call.n
       /\ call'.then = call.then
       /\ call'.at = IF call.at = "flush" /\ Len(w) = 1 THEN call.then ELSE call.at
  <2>1. CASE call.at = "flush" /\ Len(w) = 1
    <3>1. call' = [call EXCEPT !.at = call.then]
      BY <2>1 DEF Flush
    <3> QED BY <1>6, <2>1, <3>1 DEF CallRecords
  <2>2. CASE ~(call.at = "flush" /\ Len(w) = 1)
    <3>1. call' = call
      BY <2>2 DEF Flush
    <3> QED BY <1>6, <2>2, <3>1
  <2> QED BY <2>1, <2>2
<1>11. call.at = "flush" => /\ call.then \notin {"none", "drain", "defs", "meta", "rows", "yield"} /\ call.then \in Stages
                            /\ call.then # "clear" => Len(w) = 1
  BY <1>3, <1>6 DEF CallFits, CallRecords
<1>12. "flush" \notin Stages
  BY DEF Stages, SideStages, OwnStages
<1>13. Stage' = Stage
  BY <1>1, <1>10, <1>11, <1>12 DEF Stage
<1>14. Len(w) = 1 => x = <<>>
  BY <1>6, TailOne
<1>15. Len(w) # 1 => x # <<>>
  BY <1>7
<1>16. AppType' /\ StoreType'
  BY <1>3, <1>5 DEF AppType, StoreType
<1>17. WireType'
  BY <1>3, <1>4, <1>5, <1>7, <1>8, <1>10 DEF WireType
<1>18. CacheExact'
  <2>1. CacheOf(cache, x, v, next_id, prepared)
    BY <1>3, <1>6, CacheFlush DEF CacheExact
  <2> QED BY <1>4, <1>5, <2>1 DEF CacheExact
<1>19. Stage' \notin SideStages => Stream'
  <2> SUFFICES ASSUME Stage \notin SideStages PROVE Stream'
    BY <1>13
  <2>1. StreamOf(waiting, replies, v, x)
    BY <1>3, <1>6, StreamFlush DEF Stream
  <2> QED BY <1>4, <1>5, <2>1 DEF Stream
<1>20. CallFits'
  <2>1. CASE call.at = "drain"
    <3>1. call'.at = "drain"
      BY <1>10, <2>1
    <3> QED BY <1>3, <1>5, <1>10, <1>13, <2>1, <3>1 DEF CallFits, CachedIds, SideStages, OwnStages, Stage
  <2>2. CASE call.at = "flush" /\ Len(w) = 1
    <3>1. call'.at = call.then /\ call'.at \notin {"none", "drain", "flush"} /\ wbuf' = <<>>
      BY <1>4, <1>10, <1>11, <1>12, <1>14, <2>2
    <3>2. Stage' = "close_once" => call'.id < next_id' /\ call'.id \notin CachedIds'
      BY <1>3, <1>5, <1>10, <1>13 DEF CallFits, CachedIds
    <3>3. call.at # "none"
      BY <1>1
    <3> QED BY <1>3, <1>5, <1>10, <3>1, <3>2, <3>3 DEF CallFits
  <2>3. CASE call.at = "flush" /\ Len(w) # 1
    <3>1. call'.at = "flush" /\ call'.then = "clear" /\ wbuf' # <<>>
      BY <1>4, <1>10, <1>11, <1>15, <2>3
    <3>2. CallBase'
      BY <1>3, <1>5, <1>10, <2>3, BaseKept
    <3> QED BY <3>1, <3>2, Flushing
  <2> QED BY <1>1, <2>1, <2>2, <2>3
<1>21. Own'
  <2> SUFFICES ASSUME Stage \in OwnStages PROVE Own'
    BY <1>13 DEF Own, OwnAt
  <2>1. OwnPackets(replies) /\ OwnCommands(n) /\ OwnCommands(w)
    BY <1>3 DEF Own, OwnAt
  <2>2. OwnCommands(v)
    BY <1>7, <1>9, <2>1 DEF OwnCommands
  <2>3. OwnCommands(x)
    BY <1>7, <2>1 DEF OwnCommands
  <2> QED BY <1>3, <1>4, <1>5, <1>10, <1>13, <2>1, <2>2, <2>3 DEF Own, OwnAt
<1>22. CASE Stage \notin SideStages
  <2>1. PreparesFit'
    <3>1. m.c # "prepare"
      <4>1. StreamOf(waiting, replies, net, w)
        BY <1>3, <1>22 DEF Stream
      <4>2. Counted(w)
        BY ONLY <4>1, StreamParts
      <4> QED BY <1>7, <4>2 DEF Counted
    <3>2. PreparesIn(v, next_id)
      BY <1>3, <1>6, <1>7, <3>1, PreparesAppend DEF PreparesFit
    <3> QED BY <1>4, <1>5, <3>2 DEF PreparesFit
  <2>2. Side'
    BY <1>13, <1>22 DEF Side
  <2> QED BY <1>16, <1>17, <1>18, <1>19, <1>20, <1>21, <2>1, <2>2 DEF MyInv
<1>23. CASE Stage \in SideStages
  <2>1. call.at = "flush" /\ call.then = Stage /\ Stage \in {"pong", "prepare_ok", "execute"} /\ Len(w) = 1 /\ x = <<>>
    BY <1>1, <1>11, <1>14, <1>23 DEF Stage, SideStages
  <2>2. call'.at = Stage /\ call'.at # "flush"
    BY <1>10, <2>1
  <2>3. waiting = (IF call.op \in Runs THEN <<"Result">> ELSE <<>>) /\ OwnPackets(replies)
    BY <1>3, <1>23, <2>1 DEF Side
  <2>4. ASSUME NEW k \in {"ping", "prepare"}, SentAlone(k)
        PROVE  Quiet(n) /\ m.c = k /\ SentAlone(k)' /\ (k = "prepare" => m.sql = call.sql)
    <3>1. Quiet(n) /\ Asks(m, k)
      BY <1>7, <2>1, <2>4 DEF SentAlone
    <3>2. Asks(v[Len(n) + 1], k)'
      BY <1>8, <1>10, <3>1 DEF Asks
    <3>3. \A j \in 1..Len(v) : j # Len(n) + 1 => v[j].c = "close"
      BY <1>9, <3>1 DEF Quiet
    <3>4. Len(n) + 1 \in 1..Len(v)
      BY <1>8
    <3>5. SentAlone(k)'
      BY <1>4, <2>2, <3>2, <3>3, <3>4 DEF SentAlone
    <3> QED BY <3>1, <3>5 DEF Asks
  <2>5. CASE Stage = "pong"
    <3>1. call.op = "Ping" /\ replies = <<>> /\ SentAlone("ping")
      BY <1>3, <1>23, <2>1, <2>5 DEF Side, Pinging
    <3>2. m.c = "ping" /\ SentAlone("ping")'
      BY <2>4, <3>1
    <3>3. Pinging'
      BY <1>5, <3>1, <3>2 DEF Pinging
    <3>4. Side'
      BY <1>5, <1>10, <1>13, <2>3, <2>5, <3>1, <3>3 DEF Side
    <3>5. PreparesIn(v, next_id)
      BY <1>3, <1>6, <1>7, <3>2, PreparesAppend DEF PreparesFit
    <3>6. PreparesFit'
      BY <1>4, <1>5, <3>5 DEF PreparesFit
    <3> QED BY <1>16, <1>17, <1>18, <1>19, <1>20, <1>21, <3>4, <3>6 DEF MyInv
  <2>6. CASE Stage = "prepare_ok"
    <3>1. call.op \in Prepares /\ replies = <<>> /\ SentAlone("prepare") /\ next_id \in Ids
      BY <1>3, <1>23, <2>1, <2>6 DEF Side, Preparing
    <3>2. m.c = "prepare" /\ SentAlone("prepare")' /\ Quiet(n) /\ m.sql = call.sql
      BY <2>4, <3>1
    <3>3. Preparing'
      BY <1>5, <3>1, <3>2 DEF Preparing
    <3>4. Side'
      BY <1>5, <1>10, <1>13, <2>3, <2>6, <3>1, <3>3 DEF Side
    <3>5. m.sql \in Statements
      BY <1>3, <3>1, <3>2 DEF CallFits
    <3>6. PreparesIn(v, next_id)
      BY <1>3, <1>6, <1>7, <3>1, <3>2, <3>5, PreparesAppend DEF PreparesFit
    <3>7. PreparesFit'
      BY <1>4, <1>5, <3>6 DEF PreparesFit
    <3> QED BY <1>16, <1>17, <1>18, <1>19, <1>20, <1>21, <3>4, <3>7 DEF MyInv
  <2>7. CASE Stage = "execute"
    <3>1. call.op \in Runs /\ Quiet(n) /\ Quiet(w) /\ replies = <<>>
      BY <1>3, <1>23, <2>7 DEF Side
    <3>2. m.c = "close"
      BY <1>7, <3>1 DEF Quiet
    <3>3. Quiet(v) /\ Quiet(x)
      BY <1>7, <1>9, <3>1, <3>2 DEF Quiet
    <3>4. Side'
      BY <1>4, <1>5, <1>10, <1>13, <2>3, <2>7, <3>1, <3>3 DEF Side
    <3>5. PreparesIn(v, next_id)
      BY <1>3, <1>6, <1>7, <3>2, PreparesAppend DEF PreparesFit
    <3>6. PreparesFit'
      BY <1>4, <1>5, <3>5 DEF PreparesFit
    <3> QED BY <1>16, <1>17, <1>18, <1>19, <1>20, <1>21, <3>4, <3>6 DEF MyInv
  <2> QED BY <2>1, <2>5, <2>6, <2>7
<1> QED BY <1>22, <1>23


-----------------------------------------------------------------------------
(* Receiving.                                                              *)

\* A packet that is not an error is read at the place k.
LEMMA Received ==
    ASSUME MyInv, NEW k \in Stages \ {"none"}, Receive(k)
    PROVE  /\ call.at = k /\ Stage = k /\ call # Closed /\ wbuf = <<>>
           /\ (k = "drain" => waiting # <<>>)
           /\ AppType /\ WireType /\ StoreType /\ PreparesFit /\ CacheExact /\ CallFits /\ Side /\ Own
           /\ (k \notin SideStages => Stream)
           /\ replies # <<>> /\ replies \in Seq(Packets) /\ Head(replies) = replies[1] /\ replies[1] \in Packets
           /\ replies[1].k # "err" /\ replies' = Tail(replies) /\ Tail(replies) \in Seq(Packets)
           /\ wbuf' = wbuf /\ net' = net /\ prepared' = prepared /\ next_id' = next_id
           /\ PreparesFit'
<1>1. /\ Incoming /\ Head(replies).k # "err" /\ call.at = k /\ replies' = Tail(replies)
      /\ wbuf' = wbuf /\ net' = net /\ prepared' = prepared /\ next_id' = next_id
  BY DEF Receive
<1>2. Stage = k /\ call # Closed
  BY <1>1, NoCalls DEF Stage, Stages, SideStages, OwnStages
<1>3. /\ AppType /\ WireType /\ StoreType /\ PreparesFit /\ CacheExact /\ CallFits /\ Side /\ Own
      /\ (k \notin SideStages => Stream)
  BY <1>2, Parts
<1>4. replies # <<>> /\ replies \in Seq(Packets)
  BY <1>1, <1>3 DEF Incoming, WireType
<1>5. Head(replies) = replies[1] /\ replies[1] \in Packets /\ Tail(replies) \in Seq(Packets)
  BY <1>4, SeqParts
<1>6. (k = "drain" => waiting # <<>>) /\ wbuf = <<>>
  <2>1. CASE k = "drain"
    BY <1>1, <2>1 DEF Incoming, Drains, Reading
  <2>2. CASE k # "drain"
    <3>1. k \in SideStages \cup OwnStages
      BY <1>1, <2>2 DEF Incoming, Drains, Reading, SideStages, OwnStages
    <3> QED BY <1>1, <1>3, <2>2, <3>1 DEF CallFits
  <2> QED BY <2>1, <2>2
<1>7. PreparesFit'
  BY <1>1, <1>3 DEF PreparesFit
<1> QED BY <1>1, <1>2, <1>3, <1>4, <1>5, <1>6, <1>7

\* The call goes on draining.
LEMMA DrainsOn ==
    ASSUME MyInv, Receive("drain"), UNCHANGED <<status, depth, cache, appRest>>,
           call' \in CallRecords, call'.op = call.op, call'.sql = call.sql, call'.at = "drain", call'.n \in {0, 1},
           call'.n = 1 => waiting' # <<>> /\ waiting'[1] = "Row" /\ replies' # <<>> /\ replies'[1].k = "def",
           StreamOf(waiting', Tail(replies), net, wbuf)
    PROVE  MyInv'
<1>1. "drain" \in Stages \ {"none"}
  BY DEF Stages
<1>2. /\ call.at = "drain" /\ wbuf = <<>>
      /\ AppType /\ WireType /\ StoreType /\ CacheExact /\ CallFits
      /\ replies' = Tail(replies) /\ Tail(replies) \in Seq(Packets)
      /\ wbuf' = wbuf /\ net' = net /\ prepared' = prepared /\ next_id' = next_id
      /\ PreparesFit'
  BY <1>1, Received
<1>3. /\ status' = status /\ depth' = depth /\ cache' = cache /\ handles' = handles /\ begun' = begun /\ fate' = fate
      /\ parent' = parent /\ acked' = acked /\ erred' = erred
  BY DEF appRest
<1>4. AppType' /\ StoreType'
  BY <1>2, <1>3 DEF AppType, StoreType
<1>5. waiting' \in Seq({"Result", "Row"})
  BY StreamParts
<1>6. WireType'
  BY <1>2, <1>5 DEF WireType
<1>7. CacheExact' /\ Stream'
  BY <1>2, <1>3 DEF CacheExact, Stream
<1>8. Stage' = "drain"
  BY DEF Stage
<1>9. CallFits'
  BY <1>2, <1>3, <1>8 DEF CallFits, SideStages, OwnStages
<1>10. Side' /\ Own'
  BY <1>8 DEF Side, Own, OwnAt, SideStages, OwnStages
<1> QED BY <1>2, <1>4, <1>6, <1>7, <1>9, <1>10 DEF MyInv

\* What the deque and the unread packets say of the next packet.
LEMMA NextPacket ==
    ASSUME NEW q, NEW r, NEW n, NEW w, StreamOf(q, r, n, w), r # <<>>, r[1].k # "err"
    PROVE  /\ q # <<>> /\ q \in Seq({"Result", "Row"}) /\ r[1] \in Packets /\ r[1].more \in BOOLEAN
           /\ q[1] = "Row" => r[1].k \in {"def", "row", "eof"}
           /\ q[1] = "Result" => r[1].k \in {"ok", "cols"}
           /\ r[1].k = "ok" => IsEnd(r[1])
           /\ r[1].k = "eof" => (IsEnd(r[1]) <=> ~r[1].more)
           /\ r[1].k \in {"cols", "def", "row"} => ~IsEnd(r[1])
           /\ r[1].k = "cols" => r[1].n = 1
           /\ Len(q) \in Nat /\ q[1] \in {"Result", "Row"}
<1>1. /\ q \in Seq({"Result", "Row"}) /\ r \in Seq(Packets) /\ Parses(r) /\ FrontFits(q, r)
  BY ONLY StreamOf(q, r, n, w), StreamParts
<1>2. 1 \in 1..Len(r) /\ r[1] \in Packets /\ Len(r) \in 1..Len(r)
  BY <1>1, SeqParts
<1>3. q # <<>>
  BY StreamEmptied
<1>4. Len(q) \in Nat /\ q[1] \in {"Result", "Row"}
  BY <1>1, <1>3, SeqParts
<1>5. r[1].more \in BOOLEAN
  BY <1>2 DEF Packets
<1>6. (r[1].k = "cols" => r[1].n = 1) /\ (r[1].k = "ok" => ~r[1].more)
  BY <1>1, <1>2 DEF Parses
<1>7. (q[1] = "Row" => r[1].k \in {"def"} \cup Rest) /\ (q[1] = "Result" => r[1].k \in Firsts)
  BY <1>1, <1>3 DEF FrontFits
<1>8. (q[1] = "Row" => r[1].k \in {"def", "row", "eof"}) /\ (q[1] = "Result" => r[1].k \in {"ok", "cols"})
  BY <1>7 DEF Rest, Firsts
<1> QED BY <1>1, <1>2, <1>3, <1>4, <1>5, <1>6, <1>8 DEF IsEnd

\* The drain reads a packet inside a result set.
LEMMA DrainRowStep ==
    ASSUME MyInv, DrainRow
    PROVE  MyInv'
<1>1. Receive("drain") /\ call.n = 0 /\ Head(waiting) = "Row" /\ "drain" \in Stages \ {"none"} /\ "drain" \notin SideStages
  BY DEF DrainRow, Stages, SideStages
<1> PICK q, r, n, w : q = waiting /\ r = replies /\ n = net /\ w = wbuf
  OBVIOUS
<1>2. /\ call.at = "drain" /\ WireType /\ StreamOf(q, r, n, w) /\ r # <<>> /\ r[1].k # "err" /\ Head(r) = r[1]
  BY <1>1, Received DEF Stream
<1>3. /\ UNCHANGED <<status, depth, cache, appRest>> /\ call' = call
  BY DEF DrainRow, app, appRest
<1>4. /\ q # <<>> /\ q \in Seq({"Result", "Row"}) /\ r[1].more \in BOOLEAN
      /\ q[1] = "Row" => r[1].k \in {"def", "row", "eof"}
      /\ r[1].k = "eof" => (IsEnd(r[1]) <=> ~r[1].more)
      /\ r[1].k \in {"cols", "def", "row"} => ~IsEnd(r[1])
  BY ONLY <1>2, NextPacket
<1>5. q[1] = "Row"
  BY <1>1, <1>4
<1>6. StreamOf(waiting', Tail(r), n, w)
  <2>1. CASE r[1].k = "eof" /\ ~r[1].more
    <3>1. waiting' = Tail(q)
      BY <1>2, <2>1 DEF DrainRow, Finish
    <3>2. StreamOf(Tail(q), Tail(r), n, w)
      BY ONLY <1>2, <1>4, <2>1, StreamEnd
    <3> QED BY <3>1, <3>2
  <2>2. CASE r[1].k = "eof" /\ r[1].more
    <3> PICK p : p = <<"Result">> \o Tail(q)
      OBVIOUS
    <3>1. waiting' = p
      BY <1>2, <2>2 DEF DrainRow, Finish, SetFront
    <3>2. p \in Seq({"Result", "Row"}) /\ Len(p) = Len(q) /\ p # <<>> /\ p[1] = "Result" /\ \A i \in 2..Len(q) : p[i] = q[i]
      BY <1>4, FrontSet
    <3>3. ~IsEnd(r[1]) /\ p[1] = IF r[1].k \in {"cols", "def", "row"} THEN "Row" ELSE "Result"
      BY <1>4, <2>2, <3>2
    <3>4. StreamOf(p, Tail(r), n, w)
      BY ONLY <1>2, <3>2, <3>3, StreamRead
    <3> QED BY <3>1, <3>4
  <2>3. CASE r[1].k # "eof"
    <3>1. waiting' = q
      BY <1>2, <2>3 DEF DrainRow
    <3>2. ~IsEnd(r[1]) /\ q[1] = IF r[1].k \in {"cols", "def", "row"} THEN "Row" ELSE "Result"
      BY <1>4, <1>5, <2>3
    <3>3. Len(q) = Len(q) /\ \A i \in 2..Len(q) : q[i] = q[i]
      OBVIOUS
    <3>4. StreamOf(q, Tail(r), n, w)
      BY ONLY <1>2, <1>4, <3>2, <3>3, StreamRead
    <3> QED BY <3>1, <3>4
  <2> QED BY <1>4, <2>1, <2>2, <2>3
<1>7. call' \in CallRecords /\ call'.op = call.op /\ call'.sql = call.sql /\ call'.at = "drain" /\ call'.n = 0
  BY <1>1, <1>2, <1>3 DEF WireType
<1> QED BY <1>1, <1>3, <1>6, <1>7, DrainsOn


\* The drain reads the first packet of a response.
LEMMA DrainResultStep ==
    ASSUME MyInv, Aware, DrainResult
    PROVE  MyInv'
<1>1. Receive("drain") /\ call.n = 0 /\ Head(waiting) = "Result" /\ "drain" \in Stages \ {"none"} /\ "drain" \notin SideStages
  BY DEF DrainResult, Stages, SideStages
<1> PICK q, r, n, w : q = waiting /\ r = replies /\ n = net /\ w = wbuf
  OBVIOUS
<1>2. /\ call.at = "drain" /\ WireType /\ StreamOf(q, r, n, w) /\ r # <<>> /\ r[1].k # "err" /\ Head(r) = r[1]
      /\ replies' = Tail(r)
  BY <1>1, Received DEF Stream
<1>3. UNCHANGED <<status, depth, cache, appRest>>
  BY DEF DrainResult
<1>4. /\ q # <<>> /\ q \in Seq({"Result", "Row"})
      /\ q[1] = "Result" => r[1].k \in {"ok", "cols"}
      /\ r[1].k = "ok" => IsEnd(r[1])
      /\ r[1].k \in {"cols", "def", "row"} => ~IsEnd(r[1])
      /\ r[1].k = "cols" => r[1].n = 1
  BY ONLY <1>2, NextPacket
<1>5. r[1].k \in {"ok", "cols"}
  BY <1>1, <1>4
<1>6. CASE r[1].k = "ok"
  <2>1. ~r[1].more
    BY <1>4, <1>6 DEF IsEnd
  <2>2. waiting' = Tail(q) /\ call' = call
    BY <1>2, <1>6, <2>1 DEF DrainResult, Finish
  <2>3. StreamOf(Tail(q), Tail(r), n, w)
    BY ONLY <1>2, <1>4, <1>6, StreamEnd
  <2>4. call' \in CallRecords /\ call'.op = call.op /\ call'.sql = call.sql /\ call'.at = "drain" /\ call'.n = 0
    BY <1>1, <1>2, <2>2 DEF WireType
  <2>5. StreamOf(waiting', Tail(replies), net, wbuf)
    BY <2>2, <2>3
  <2> QED BY <1>1, <1>3, <2>4, <2>5, DrainsOn
<1>7. CASE r[1].k = "cols"
  <2> PICK p : p = <<"Row">> \o Tail(q)
    OBVIOUS
  <2>1. MetadataLen(r[1].n) = 1
    BY <1>4, <1>7 DEF MetadataLen, Aware
  <2>2. waiting' = p /\ call' = [call EXCEPT !.n = 1]
    BY <1>2, <1>7, <2>1 DEF DrainResult, SetFront
  <2>3. p \in Seq({"Result", "Row"}) /\ Len(p) = Len(q) /\ p # <<>> /\ p[1] = "Row" /\ \A i \in 2..Len(q) : p[i] = q[i]
    BY <1>4, FrontSet
  <2>4. ~IsEnd(r[1]) /\ p[1] = IF r[1].k \in {"cols", "def", "row"} THEN "Row" ELSE "Result"
    BY <1>4, <1>7, <2>3
  <2>5. StreamOf(p, Tail(r), n, w) /\ Tail(r) # <<>> /\ Tail(r)[1].k \in Follow(r[1])
    BY ONLY <1>2, <2>3, <2>4, StreamRead
  <2>6. Tail(r)[1].k = "def"
    BY <1>7, <2>5 DEF Follow
  <2>7. call' \in CallRecords /\ call'.op = call.op /\ call'.sql = call.sql /\ call'.at = "drain" /\ call'.n = 1
    BY <1>2, <2>2 DEF WireType, CallRecords
  <2>8. waiting' # <<>> /\ waiting'[1] = "Row" /\ replies' # <<>> /\ replies'[1].k = "def"
    BY <1>2, <2>2, <2>3, <2>5, <2>6
  <2>9. StreamOf(waiting', Tail(replies), net, wbuf)
    BY <2>2, <2>5
  <2> QED BY <1>1, <1>3, <2>7, <2>8, <2>9, DrainsOn
<1> QED BY <1>5, <1>6, <1>7

\* The drain reads a column definition.
LEMMA DrainSkipStep ==
    ASSUME MyInv, DrainSkip
    PROVE  MyInv'
<1>1. Receive("drain") /\ call.n > 0 /\ call' = [call EXCEPT !.n = @ - 1] /\ "drain" \in Stages \ {"none"} /\ "drain" \notin SideStages
  BY DEF DrainSkip, Stages, SideStages
<1> PICK q, r, n, w : q = waiting /\ r = replies /\ n = net /\ w = wbuf
  OBVIOUS
<1>2. /\ call.at = "drain" /\ WireType /\ CallFits /\ StreamOf(q, r, n, w) /\ r # <<>> /\ r[1].k # "err"
  BY <1>1, Received DEF Stream
<1>3. UNCHANGED <<status, depth, cache, appRest>> /\ waiting' = q
  BY DEF DrainSkip
<1>4. call.n = 1 /\ q # <<>> /\ q[1] = "Row" /\ r[1].k = "def"
  <2>1. call.n = 1
    BY <1>1, <1>2 DEF CallFits
  <2> QED BY <1>2, <2>1 DEF CallFits
<1>5. q \in Seq({"Result", "Row"}) /\ ~IsEnd(r[1])
  BY <1>2, <1>4, NextPacket
<1>6. Len(q) = Len(q) /\ \A i \in 2..Len(q) : q[i] = q[i]
  OBVIOUS
<1>7. q[1] = IF r[1].k \in {"cols", "def", "row"} THEN "Row" ELSE "Result"
  BY <1>4
<1>8. StreamOf(q, Tail(r), n, w)
  BY ONLY <1>2, <1>4, <1>5, <1>6, <1>7, StreamRead
<1>9. call' \in CallRecords /\ call'.op = call.op /\ call'.sql = call.sql /\ call'.at = "drain" /\ call'.n = 0
  <2>1. call.n - 1 = 0 /\ 0 \in Nat /\ call \in CallRecords
    BY <1>2, <1>4 DEF WireType
  <2>2. call' = [call EXCEPT !.n = 0]
    BY <1>1, <2>1
  <2> QED BY <1>2, <2>1, <2>2 DEF CallRecords
<1> QED BY <1>1, <1>3, <1>8, <1>9, DrainsOn

\* The call reads on in its own result.
LEMMA ReadsOn ==
    ASSUME MyInv, NEW k \in {"first", "meta", "rows"}, Receive(k), status' \in BOOLEAN, UNCHANGED <<depth, cache, appRest>>,
           NEW z \in {"first", "meta", "rows"},
           call' \in CallRecords, call'.op = call.op, call'.sql = call.sql, call'.at = z,
           StreamOf(waiting', Tail(replies), net, wbuf), Len(waiting') = 1,
           z = "first" => waiting'[1] = "Result",
           z = "meta" => waiting'[1] = "Row" /\ call'.n = 1 /\ replies' # <<>> /\ replies'[1].k = "def",
           z = "rows" => waiting'[1] = "Row" /\ replies' # <<>> /\ replies'[1].k \in Rest
    PROVE  MyInv'
<1>1. k \in Stages \ {"none"} /\ k \in OwnStages
  BY DEF Stages, OwnStages
<1>2. /\ call.at = k /\ Stage = k /\ wbuf = <<>>
      /\ AppType /\ WireType /\ StoreType /\ CacheExact /\ CallFits /\ Own
      /\ replies # <<>> /\ replies \in Seq(Packets) /\ replies' = Tail(replies) /\ Tail(replies) \in Seq(Packets)
      /\ wbuf' = wbuf /\ net' = net /\ prepared' = prepared /\ next_id' = next_id
      /\ PreparesFit'
  BY <1>1, Received
<1>3. /\ depth' = depth /\ cache' = cache /\ handles' = handles /\ begun' = begun /\ fate' = fate
      /\ parent' = parent /\ acked' = acked /\ erred' = erred
  BY DEF appRest
<1>4. AppType' /\ StoreType'
  BY <1>2, <1>3 DEF AppType, StoreType
<1>5. waiting' \in Seq({"Result", "Row"})
  BY StreamParts
<1>6. WireType'
  BY <1>2, <1>5 DEF WireType
<1>7. CacheExact' /\ Stream'
  BY <1>2, <1>3 DEF CacheExact, Stream
<1>8. Stage' = z
  BY DEF Stage
<1>9. CallFits'
  BY <1>2, <1>3, <1>8 DEF CallFits
<1>10. Own'
  <2>1. OwnPackets(replies) /\ OwnCommands(net) /\ OwnCommands(wbuf)
    BY <1>1, <1>2 DEF Own, OwnAt
  <2>2. OwnPackets(Tail(replies))
    BY <1>2, <2>1, SeqParts DEF OwnPackets
  <2> QED BY <1>2, <1>8, <2>1, <2>2 DEF Own, OwnAt
<1>11. Side'
  BY <1>8 DEF Side, SideStages
<1> QED BY <1>2, <1>4, <1>6, <1>7, <1>9, <1>10, <1>11 DEF MyInv

\* The place where the call reads in its own result.
LEMMA ReadingOwn ==
    ASSUME MyInv, NEW k \in {"first", "meta", "rows"}, Receive(k), NEW q, NEW r, NEW n, NEW w,
           q = waiting, r = replies, n = net, w = wbuf
    PROVE  /\ StreamOf(q, r, n, w) /\ r # <<>> /\ r[1].k # "err" /\ Head(r) = r[1] /\ replies' = Tail(r)
           /\ q # <<>> /\ q \in Seq({"Result", "Row"}) /\ Len(q) = 1 /\ r[1].more \in BOOLEAN /\ r[1].trans \in BOOLEAN
           /\ k = "first" => r[1].k \in {"ok", "cols"} /\ (r[1].k = "ok" => ~r[1].more)
           /\ k = "meta" => q[1] = "Row" /\ call.n = 1 /\ r[1].k = "def"
           /\ k = "rows" => q[1] = "Row" /\ r[1].k \in {"row", "eof"}
           /\ r[1].k = "ok" => IsEnd(r[1])
           /\ r[1].k = "eof" => (IsEnd(r[1]) <=> ~r[1].more)
           /\ r[1].k \in {"cols", "def", "row"} => ~IsEnd(r[1])
           /\ r[1].k = "cols" => r[1].n = 1
<1>1. k \in Stages \ {"none"} /\ k \in OwnStages /\ k \notin SideStages
  BY DEF Stages, OwnStages, SideStages
<1>2. /\ Stage = k /\ WireType /\ Own /\ StreamOf(q, r, n, w) /\ r # <<>> /\ r[1].k # "err" /\ Head(r) = r[1]
      /\ replies' = Tail(r) /\ r[1] \in Packets
  BY <1>1, Received DEF Stream
<1>3. /\ q # <<>> /\ q \in Seq({"Result", "Row"}) /\ r[1].more \in BOOLEAN
      /\ q[1] = "Row" => r[1].k \in {"def", "row", "eof"}
      /\ q[1] = "Result" => r[1].k \in {"ok", "cols"}
      /\ r[1].k = "ok" => IsEnd(r[1])
      /\ r[1].k = "eof" => (IsEnd(r[1]) <=> ~r[1].more)
      /\ r[1].k \in {"cols", "def", "row"} => ~IsEnd(r[1])
      /\ r[1].k = "cols" => r[1].n = 1
  BY ONLY <1>2, NextPacket
<1>4. /\ Len(q) = 1
      /\ k = "first" => q[1] = "Result"
      /\ k = "meta" => q[1] = "Row" /\ call.n = 1 /\ r[1].k = "def"
      /\ k = "rows" => q[1] = "Row" /\ r[1].k \in Rest
  BY <1>1, <1>2 DEF Own, OwnAt
<1>5. r[1].trans \in BOOLEAN
  BY <1>2 DEF Packets
<1>6. r[1].k = "ok" => ~r[1].more
  BY <1>3 DEF IsEnd
<1>7. k = "rows" => r[1].k \in {"row", "eof"}
  BY <1>2, <1>4 DEF Rest
<1> QED BY <1>2, <1>3, <1>4, <1>5, <1>6, <1>7

\* A result of the call ends.
LEMMA ResultEnds ==
    ASSUME MyInv, NEW k \in {"first", "rows"}, Receive(k), replies[1].k \in {"ok", "eof"}, EndResult(replies[1])
    PROVE  MyInv'
<1> PICK q, r, n, w : q = waiting /\ r = replies /\ n = net /\ w = wbuf
  OBVIOUS
<1>1. /\ StreamOf(q, r, n, w) /\ r # <<>> /\ replies' = Tail(r)
      /\ q # <<>> /\ q \in Seq({"Result", "Row"}) /\ Len(q) = 1 /\ r[1].more \in BOOLEAN /\ r[1].trans \in BOOLEAN
      /\ r[1].k = "ok" => IsEnd(r[1])
      /\ r[1].k = "eof" => (IsEnd(r[1]) <=> ~r[1].more)
      /\ k = "first" => (r[1].k = "ok" => ~r[1].more)
      /\ k = "rows" => r[1].k \in {"row", "eof"}
  BY ReadingOwn
<1>2. IsEnd(r[1]) <=> ~r[1].more
  BY <1>1 DEF IsEnd
<1>3. k \in Stages \ {"none"}
  BY DEF Stages, OwnStages
<1>4. /\ call.at = k /\ AppType /\ WireType /\ StoreType /\ CacheExact /\ CallFits
      /\ wbuf' = wbuf /\ net' = net /\ prepared' = prepared /\ next_id' = next_id
      /\ PreparesFit' /\ Tail(replies) \in Seq(Packets)
  BY <1>3, Received
<1>5. status' \in BOOLEAN /\ cache' = cache
  BY <1>1 DEF EndResult
<1>8. CASE call.op \in Streamed
  <2>1. /\ call' = [call EXCEPT !.at = "yield", !.then = IF r[1].more THEN "first" ELSE "return"]
        /\ waiting' = waiting /\ depth' = depth /\ handles' = handles /\ begun' = begun /\ fate' = fate
        /\ parent' = parent /\ acked' = acked /\ erred' = erred
    BY <1>8 DEF EndResult, appRest
  <2>2. /\ call' \in CallRecords /\ call'.op = call.op /\ call'.sql = call.sql /\ call'.at = "yield"
        /\ call'.then = IF r[1].more THEN "first" ELSE "return"
    BY <1>1, <1>4, <2>1 DEF WireType, CallRecords, Stages, OwnStages, SideStages
  <2>3. Stage' = "yield"
    BY <2>2 DEF Stage
  <2>4. StreamOf(Due', Tail(r), n, w)
    <3>1. CASE r[1].more
      <4> PICK p : p = <<"Result">>
        OBVIOUS
      <4>1. p \in Seq({"Result", "Row"}) /\ Len(p) = Len(q) /\ p # <<>> /\ p[1] = "Result" /\ \A i \in 2..Len(q) : p[i] = q[i]
        BY <1>1
      <4>2. ~IsEnd(r[1]) /\ p[1] = IF r[1].k \in {"cols", "def", "row"} THEN "Row" ELSE "Result"
        BY <1>2, <3>1, <4>1
      <4>3. StreamOf(p, Tail(r), n, w)
        BY ONLY <1>1, <4>1, <4>2, StreamRead
      <4>4. Due' = p
        BY <2>2, <3>1 DEF Due
      <4> QED BY <4>3, <4>4
    <3>2. CASE ~r[1].more
      <4>1. StreamOf(Tail(q), Tail(r), n, w)
        BY ONLY <1>1, <1>2, <3>2, StreamEnd
      <4>2. Tail(q) = <<>>
        BY <1>1, TailOne
      <4>3. Due' = <<>>
        BY <2>2, <3>2 DEF Due
      <4> QED BY <4>1, <4>2, <4>3
    <3> QED BY <1>1, <3>1, <3>2
  <2>5. Own /\ Stage = k /\ k \in OwnStages
    BY <1>3, Received DEF OwnStages
  <2>6. OwnPackets(replies) /\ OwnCommands(net) /\ replies \in Seq(Packets)
    BY <1>4, <2>5 DEF Own, OwnAt, WireType
  <2>7. OwnPackets(Tail(replies))
    BY <1>1, <2>6, SeqParts DEF OwnPackets
  <2>8. call.op # "Begin"
    BY <1>8, MySqlAssumption
  <2>9. Yielded'
    BY <1>1, <1>4, <2>1, <2>2, <2>4, <2>6, <2>8 DEF Yielded
  <2>10. Side'
    BY <1>1, <2>3, <2>7, <2>9 DEF Side
  <2>11. Own' /\ Stage' \in SideStages
    BY <2>3 DEF Own, OwnAt, OwnStages, SideStages
  <2>12. AppType' /\ StoreType' /\ WireType'
    BY <1>1, <1>4, <1>5, <2>1, <2>2 DEF AppType, StoreType, WireType
  <2>13. CacheExact'
    BY <1>4, <1>5 DEF CacheExact
  <2>14. wbuf' = <<>> /\ call.at # "none"
    BY <1>4 DEF CallFits, OwnStages
  <2>15. CallFits'
    BY <1>4, <2>1, <2>2, <2>3, <2>14 DEF CallFits
  <2> QED BY <1>4, <2>10, <2>11, <2>12, <2>13, <2>15 DEF MyInv
<1>9. ASSUME call.op \notin Streamed
      PROVE  GoOn(r[1].more, r[1].trans)
  BY <1>9 DEF EndResult
<1>6. CASE call.op \notin Streamed /\ r[1].more
  <2> PICK p : p = <<"Result">> \o Tail(q)
    OBVIOUS
  <2>1. waiting' = p /\ call' = [call EXCEPT !.at = "first"] /\ UNCHANGED <<depth, appRest>>
    BY <1>6, <1>9 DEF GoOn, SetFront
  <2>2. p \in Seq({"Result", "Row"}) /\ Len(p) = Len(q) /\ p # <<>> /\ p[1] = "Result" /\ \A i \in 2..Len(q) : p[i] = q[i]
    BY <1>1, FrontSet
  <2>3. ~IsEnd(r[1]) /\ p[1] = IF r[1].k \in {"cols", "def", "row"} THEN "Row" ELSE "Result"
    BY <1>2, <1>6, <2>2
  <2>4. StreamOf(p, Tail(r), n, w)
    BY ONLY <1>1, <2>2, <2>3, StreamRead
  <2>5. call' \in CallRecords /\ call'.op = call.op /\ call'.sql = call.sql /\ call'.at = "first"
    BY <1>4, <2>1 DEF WireType, CallRecords, Stages, OwnStages
  <2>6. StreamOf(waiting', Tail(replies), net, wbuf) /\ Len(waiting') = 1 /\ waiting'[1] = "Result"
    BY <1>1, <2>1, <2>2, <2>4
  <2>7. k \in {"first", "meta", "rows"} /\ "first" \in {"first", "meta", "rows"} /\ UNCHANGED <<depth, cache, appRest>>
    BY <1>5, <2>1
  <2> QED BY <1>5, <2>5, <2>6, <2>7, ReadsOn
<1>7. CASE call.op \notin Streamed /\ ~r[1].more
  <2>1. waiting' = Tail(q) /\ IF call.op = "Begin" THEN BeginReturns(r[1].trans) ELSE Return
    BY <1>7, <1>9 DEF GoOn
  <2>2. StreamOf(Tail(q), Tail(r), n, w)
    BY ONLY <1>1, <1>2, <1>7, StreamEnd
  <2>3. AppType' /\ call' = NoCall
    <3>1. CASE call.op = "Begin"
      <4>1. BeginReturns(r[1].trans)
        BY <2>1, <3>1
      <4>2. call' = NoCall
        BY <4>1 DEF BeginReturns
      <4> QED BY <1>4, <1>5, <3>1, <4>1, <4>2, BeginTyped
    <3>2. CASE call.op # "Begin"
      <4>1. Return
        BY <2>1, <3>2
      <4>2. call' = NoCall
        BY <4>1 DEF Return
      <4> QED BY <1>4, <1>5, <4>1, <4>2, ReturnTyped
    <3> QED BY <3>1, <3>2
  <2>4. waiting' \in Seq({"Result", "Row"})
    BY <2>1, <2>2, StreamParts
  <2>5. WireType' /\ StoreType'
    BY <1>1, <1>4, <1>5, <2>3, <2>4, NoCalls DEF WireType, StoreType
  <2>6. CacheExact' /\ Stream'
    BY <1>1, <1>4, <1>5, <2>1, <2>2 DEF CacheExact, Stream
  <2> QED BY <1>4, <2>3, <2>5, <2>6, Ended
<1> QED BY <1>1, <1>6, <1>7, <1>8

\* The stream that has yielded is polled again.
LEMMA ResumeStep ==
    ASSUME MyInv, Resume
    PROVE  MyInv'
<1>1. /\ call.at = "yield" /\ GoOn(call.then = "first", status) /\ wbuf' = wbuf /\ status' = status /\ cache' = cache
      /\ net' = net /\ replies' = replies /\ prepared' = prepared /\ next_id' = next_id
  BY DEF Resume, server
<1>2. Stage = "yield" /\ call # Closed
  BY <1>1, NoCalls DEF Stage
<1>3. AppType /\ WireType /\ StoreType /\ PreparesFit /\ CacheExact /\ CallFits /\ Side
  BY <1>2, Parts
<1> PICK q, r, n, w : q = waiting /\ r = replies /\ n = net /\ w = wbuf
  OBVIOUS
<1>4. /\ call.op # "Begin" /\ Len(q) = 1 /\ OwnCommands(n) /\ OwnPackets(r) /\ StreamOf(Due, r, n, w)
  BY <1>2, <1>3 DEF Side, SideStages, Yielded
<1>5. w = <<>> /\ OwnCommands(w)
  <2>1. w = <<>>
    BY <1>1, <1>3 DEF CallFits, SideStages
  <2> QED BY <2>1 DEF OwnCommands
<1>6. q \in Seq({"Result", "Row"}) /\ q # <<>> /\ Tail(q) = <<>>
  BY <1>3, <1>4, TailOne DEF WireType
<1>7. PreparesFit' /\ StoreType' /\ CacheExact'
  BY <1>1, <1>3 DEF PreparesFit, StoreType, CacheExact
<1>8. CASE call.then = "first"
  <2>1. /\ waiting' = <<"Result">> \o Tail(q) /\ call' = [call EXCEPT !.at = "first"] /\ depth' = depth
        /\ handles' = handles /\ begun' = begun /\ fate' = fate /\ parent' = parent /\ acked' = acked /\ erred' = erred
    BY <1>1, <1>8 DEF GoOn, SetFront, appRest
  <2>2. waiting' = <<"Result">>
    <3> PICK y : y = <<"Result">>
      OBVIOUS
    <3>1. y \in Seq({"Result", "Row"}) /\ y \o <<>> = y
      BY ConcatEmptySeq, OneResult
    <3> QED BY <1>6, <2>1, <3>1
  <2>3. StreamOf(<<"Result">>, r, n, w)
    BY <1>4, <1>8 DEF Due
  <2>4. call' \in CallRecords /\ call'.op = call.op /\ call'.sql = call.sql /\ call'.at = "first"
    BY <1>3, <2>1 DEF WireType, CallRecords, Stages, OwnStages
  <2>5. Stage' = "first"
    BY <2>4 DEF Stage
  <2>6. AppType' /\ WireType'
    BY <1>1, <1>3, <2>1, <2>2, <2>4, OneResult DEF AppType, WireType
  <2>7. Stream'
    BY <1>1, <2>2, <2>3 DEF Stream
  <2>8. Side'
    BY <2>5 DEF Side, SideStages
  <2>9. Own'
    BY <1>1, <1>4, <1>5, <2>2, <2>5, OneResult DEF Own, OwnAt
  <2>10. CallFits'
    BY <1>1, <1>3, <1>5, <2>1, <2>4, <2>5 DEF CallFits
  <2> QED BY <1>7, <2>6, <2>7, <2>8, <2>9, <2>10 DEF MyInv
<1>9. CASE call.then # "first"
  <2>1. waiting' = <<>> /\ Return
    BY <1>1, <1>4, <1>6, <1>9 DEF GoOn
  <2>2. call' = NoCall
    BY <2>1 DEF Return
  <2>3. AppType'
    BY <1>1, <1>3, <2>1, ReturnTyped DEF AppType
  <2>4. WireType'
    BY <1>1, <1>3, <2>1, <2>2, NoCalls, OneResult DEF WireType
  <2>5. StreamOf(<<>>, r, n, w)
    BY <1>4, <1>9 DEF Due
  <2>6. Stream'
    BY <1>1, <2>1, <2>5 DEF Stream
  <2> QED BY <1>7, <2>2, <2>3, <2>4, <2>6, Ended
<1> QED BY <1>8, <1>9

\* The call reads the first packet of a result.
LEMMA ReceiveFirstStep ==
    ASSUME MyInv, Aware, ReceiveFirst
    PROVE  MyInv'
<1>1. Receive("first") /\ "first" \in {"first", "meta", "rows"} /\ "meta" \in {"first", "meta", "rows"} /\ "first" \in Stages \ {"none"}
  BY DEF ReceiveFirst, Stages, OwnStages
<1> PICK q, r, n, w : q = waiting /\ r = replies /\ n = net /\ w = wbuf
  OBVIOUS
<1>2. /\ StreamOf(q, r, n, w) /\ r # <<>> /\ Head(r) = r[1] /\ replies' = Tail(r)
      /\ q # <<>> /\ q \in Seq({"Result", "Row"}) /\ Len(q) = 1
      /\ r[1].k \in {"ok", "cols"}
      /\ r[1].k \in {"cols", "def", "row"} => ~IsEnd(r[1])
      /\ r[1].k = "cols" => r[1].n = 1
  BY <1>1, ReadingOwn
<1>3. CASE r[1].k = "ok"
  <2>1. EndResult(replies[1])
    BY <1>2, <1>3 DEF ReceiveFirst
  <2>2. replies[1].k \in {"ok", "eof"} /\ "first" \in {"first", "rows"}
    BY <1>3
  <2> QED BY <1>1, <2>1, <2>2, ResultEnds
<1>4. CASE r[1].k = "cols"
  <2> PICK p : p = <<"Row">> \o Tail(q)
    OBVIOUS
  <2>1. MetadataLen(r[1].n) = 1
    BY <1>2, <1>4 DEF MetadataLen, Aware
  <2>2. waiting' = p /\ call' = [call EXCEPT !.at = "meta", !.n = 1] /\ UNCHANGED <<status, depth, cache, appRest>>
    BY <1>2, <1>4, <2>1 DEF ReceiveFirst, SetFront
  <2>3. p \in Seq({"Result", "Row"}) /\ Len(p) = Len(q) /\ p # <<>> /\ p[1] = "Row" /\ \A i \in 2..Len(q) : p[i] = q[i]
    BY <1>2, FrontSet
  <2>4. ~IsEnd(r[1]) /\ p[1] = IF r[1].k \in {"cols", "def", "row"} THEN "Row" ELSE "Result"
    BY <1>2, <1>4, <2>3
  <2>5. StreamOf(p, Tail(r), n, w) /\ Tail(r) # <<>> /\ Tail(r)[1].k \in Follow(r[1])
    BY ONLY <1>2, <2>3, <2>4, StreamRead
  <2>6. Tail(r)[1].k = "def"
    BY <1>4, <2>5 DEF Follow
  <2>7. AppType /\ WireType
    BY <1>1, Received
  <2>8. status' \in BOOLEAN
    BY <2>2, <2>7 DEF AppType
  <2>9. call' \in CallRecords /\ call'.op = call.op /\ call'.sql = call.sql /\ call'.at = "meta" /\ call'.n = 1
    BY <2>2, <2>7 DEF WireType, CallRecords, Stages, OwnStages
  <2>10. StreamOf(waiting', Tail(replies), net, wbuf) /\ Len(waiting') = 1 /\ waiting'[1] = "Row"
         /\ replies' # <<>> /\ replies'[1].k = "def"
    BY <1>2, <2>2, <2>3, <2>5, <2>6
  <2>11. UNCHANGED <<depth, cache, appRest>>
    BY <2>2
  <2> QED BY <1>1, <2>8, <2>9, <2>10, <2>11, ReadsOn
<1> QED BY <1>2, <1>3, <1>4

\* The call reads the column definition of its result.
LEMMA ReceiveMetaStep ==
    ASSUME MyInv, ReceiveMeta
    PROVE  MyInv'
<1>1. Receive("meta") /\ "meta" \in {"first", "meta", "rows"} /\ "rows" \in {"first", "meta", "rows"} /\ "meta" \in Stages \ {"none"}
  BY DEF ReceiveMeta, Stages, OwnStages
<1> PICK q, r, n, w : q = waiting /\ r = replies /\ n = net /\ w = wbuf
  OBVIOUS
<1>2. /\ StreamOf(q, r, n, w) /\ r # <<>> /\ replies' = Tail(r)
      /\ q # <<>> /\ q \in Seq({"Result", "Row"}) /\ Len(q) = 1
      /\ q[1] = "Row" /\ call.n = 1 /\ r[1].k = "def"
      /\ r[1].k \in {"cols", "def", "row"} => ~IsEnd(r[1])
  BY <1>1, ReadingOwn
<1>3. call' = [call EXCEPT !.at = "rows", !.n = 0] /\ UNCHANGED <<waiting, status, depth, cache, appRest>>
  BY <1>2 DEF ReceiveMeta
<1>4. Len(q) = Len(q) /\ \A i \in 2..Len(q) : q[i] = q[i]
  OBVIOUS
<1>5. ~IsEnd(r[1]) /\ q[1] = IF r[1].k \in {"cols", "def", "row"} THEN "Row" ELSE "Result"
  BY <1>2
<1>6. StreamOf(q, Tail(r), n, w) /\ Tail(r) # <<>> /\ Tail(r)[1].k \in Follow(r[1])
  BY ONLY <1>2, <1>4, <1>5, StreamRead
<1>7. Tail(r)[1].k \in Rest
  BY <1>2, <1>6 DEF Follow
<1>8. AppType /\ WireType
  BY <1>1, Received
<1>9. status' \in BOOLEAN
  BY <1>3, <1>8 DEF AppType
<1>10. call' \in CallRecords /\ call'.op = call.op /\ call'.sql = call.sql /\ call'.at = "rows"
  BY <1>3, <1>8 DEF WireType, CallRecords, Stages, OwnStages
<1>11. StreamOf(waiting', Tail(replies), net, wbuf) /\ Len(waiting') = 1 /\ waiting'[1] = "Row"
       /\ replies' # <<>> /\ replies'[1].k \in Rest
  BY <1>2, <1>3, <1>6, <1>7
<1>12. UNCHANGED <<depth, cache, appRest>>
  BY <1>3
<1> QED BY <1>1, <1>9, <1>10, <1>11, <1>12, ReadsOn

\* The call reads a row, or the end of the rows.
LEMMA ReceiveRowStep ==
    ASSUME MyInv, ReceiveRow
    PROVE  MyInv'
<1>1. Receive("rows") /\ "rows" \in {"first", "meta", "rows"} /\ "rows" \in Stages \ {"none"}
  BY DEF ReceiveRow, Stages, OwnStages
<1> PICK q, r, n, w : q = waiting /\ r = replies /\ n = net /\ w = wbuf
  OBVIOUS
<1>2. /\ StreamOf(q, r, n, w) /\ r # <<>> /\ Head(r) = r[1] /\ replies' = Tail(r)
      /\ q # <<>> /\ q \in Seq({"Result", "Row"}) /\ Len(q) = 1
      /\ q[1] = "Row" /\ r[1].k \in {"row", "eof"}
      /\ r[1].k \in {"cols", "def", "row"} => ~IsEnd(r[1])
  BY <1>1, ReadingOwn
<1>3. CASE r[1].k = "eof"
  <2>1. EndResult(replies[1])
    BY <1>2, <1>3 DEF ReceiveRow
  <2>2. replies[1].k \in {"ok", "eof"} /\ "rows" \in {"first", "rows"}
    BY <1>3
  <2> QED BY <1>1, <2>1, <2>2, ResultEnds
<1>4. CASE r[1].k = "row"
  <2>1. UNCHANGED <<waiting, status, depth, cache, app>>
    BY <1>2, <1>4 DEF ReceiveRow
  <2>2. waiting' = q /\ status' = status /\ call' = call /\ UNCHANGED <<depth, cache, appRest>>
    BY <2>1 DEF app, appRest
  <2>3. Len(q) = Len(q) /\ \A i \in 2..Len(q) : q[i] = q[i]
    OBVIOUS
  <2>4. ~IsEnd(r[1]) /\ q[1] = IF r[1].k \in {"cols", "def", "row"} THEN "Row" ELSE "Result"
    BY <1>2, <1>4
  <2>5. StreamOf(q, Tail(r), n, w) /\ Tail(r) # <<>> /\ Tail(r)[1].k \in Follow(r[1])
    BY ONLY <1>2, <2>3, <2>4, StreamRead
  <2>6. Tail(r)[1].k \in Rest
    BY <1>4, <2>5 DEF Follow
  <2>7. AppType /\ WireType /\ call.at = "rows"
    BY <1>1, Received
  <2>8. status' \in BOOLEAN
    BY <2>2, <2>7 DEF AppType
  <2>9. call' \in CallRecords /\ call'.op = call.op /\ call'.sql = call.sql /\ call'.at = "rows"
    BY <2>2, <2>7 DEF WireType
  <2>10. StreamOf(waiting', Tail(replies), net, wbuf) /\ Len(waiting') = 1 /\ waiting'[1] = "Row"
         /\ replies' # <<>> /\ replies'[1].k \in Rest
    BY <1>2, <2>2, <2>5, <2>6
  <2> QED BY <1>1, <2>2, <2>8, <2>9, <2>10, ReadsOn
<1> QED BY <1>2, <1>3, <1>4

\* fetch_optional() returns with a row and leaves the rest unread.
LEMMA ReceiveOnlyRowStep ==
    ASSUME MyInv, ReceiveOnlyRow
    PROVE  MyInv'
<1>1. call.at = "rows" /\ replies # <<>> /\ Head(replies).k \notin {"eof", "err"} /\ Stage = "rows"
  BY DEF ReceiveOnlyRow, Stage
<1>2. call # Closed
  BY <1>1, NoCalls
<1>3. AppType /\ WireType /\ StoreType /\ PreparesFit /\ CacheExact /\ Own /\ Stream
  BY <1>1, <1>2, Parts DEF SideStages
<1> PICK q, r, n, w : q = waiting /\ r = replies /\ n = net /\ w = wbuf
  OBVIOUS
<1>4. StreamOf(q, r, n, w) /\ r # <<>> /\ r \in Seq(Packets)
  BY <1>1, <1>3 DEF Stream, WireType
<1>5. Head(r) = r[1]
  BY <1>4, SeqParts
<1>6. q[1] = "Row" /\ r[1].k \in Rest
  BY <1>1, <1>3 DEF Own, OwnAt, OwnStages
<1>7. r[1].k = "row"
  BY <1>1, <1>5, <1>6 DEF Rest
<1>8. q # <<>> /\ q \in Seq({"Result", "Row"}) /\ ~IsEnd(r[1])
  BY <1>4, <1>7, NextPacket
<1>9. Len(q) = Len(q) /\ \A i \in 2..Len(q) : q[i] = q[i]
  OBVIOUS
<1>10. q[1] = IF r[1].k \in {"cols", "def", "row"} THEN "Row" ELSE "Result"
  BY <1>6, <1>7
<1>11. StreamOf(q, Tail(r), n, w)
  BY ONLY <1>4, <1>8, <1>9, <1>10, StreamRead
<1>12. StreamOf(q, Others(Tail(r)), Others(n), Others(w))
  BY <1>11, StreamOthers
<1>13. /\ replies' = Others(Tail(r)) /\ net' = Others(n) /\ wbuf' = Others(w) /\ call' = NoCall
  BY DEF ReceiveOnlyRow
<1>14. /\ waiting' = q /\ status' = status /\ depth' = depth /\ cache' = cache /\ prepared' = prepared /\ next_id' = next_id
       /\ handles' = handles /\ begun' = begun /\ fate' = fate /\ parent' = parent /\ acked' = acked /\ erred' = erred
  BY DEF ReceiveOnlyRow, appRest
<1>15. AppType' /\ StoreType'
  BY <1>3, <1>14 DEF AppType, StoreType
<1>16. Stream'
  BY <1>12, <1>13, <1>14 DEF Stream
<1>17. CacheExact'
  <2>1. CacheOf(cache, Others(w), Others(n), next_id, prepared)
    BY <1>3, CacheOthers DEF CacheExact
  <2> QED BY <1>13, <1>14, <2>1 DEF CacheExact
<1>18. PreparesFit'
  <2>1. PreparesIn(Others(n), next_id)
    BY <1>3, PreparesOthers DEF PreparesFit, WireType
  <2> QED BY <1>13, <1>14, <2>1 DEF PreparesFit
<1>19. WireType'
  <2>1. Others(Tail(r)) \in Seq(Packets) /\ Others(n) \in Seq(Commands) /\ Others(w) \in Seq(Commands)
    BY <1>12, StreamParts
  <2> QED BY <1>8, <1>13, <1>14, <2>1, NoCalls DEF WireType
<1> QED BY <1>13, <1>15, <1>16, <1>17, <1>18, <1>19, Ended

\* The answer to a ping.
LEMMA ReceivePongStep ==
    ASSUME MyInv, ReceivePong
    PROVE  MyInv'
<1>1. Receive("pong") /\ Return /\ waiting' = waiting /\ status' = status /\ cache' = cache /\ "pong" \in Stages \ {"none"} /\ "pong" \in SideStages
  BY DEF ReceivePong, Stages, SideStages
<1>2. /\ call.at = "pong" /\ Stage = "pong" /\ wbuf = <<>>
      /\ AppType /\ WireType /\ StoreType /\ CacheExact /\ CallFits /\ Side
      /\ replies # <<>> /\ replies \in Seq(Packets) /\ replies' = Tail(replies)
      /\ wbuf' = wbuf /\ net' = net /\ prepared' = prepared /\ next_id' = next_id
      /\ PreparesFit'
  BY <1>1, Received
<1>3. call.op = "Ping" /\ Quiet(net) /\ Len(replies) = 1 /\ waiting = <<>>
  <2>1. call.op = "Ping" /\ Pinging /\ waiting = (IF call.op \in Runs THEN <<"Result">> ELSE <<>>)
    BY <1>1, <1>2 DEF Side
  <2>2. waiting = <<>>
    BY <2>1 DEF Runs
  <2> QED BY <1>2, <2>1, <2>2 DEF Pinging
<1>4. replies' = <<>>
  BY <1>2, <1>3, TailOne
<1>5. call' = NoCall
  BY <1>1 DEF Return
<1>6. AppType'
  <2>1. status' \in BOOLEAN
    BY <1>1, <1>2 DEF AppType
  <2> QED BY <1>1, <1>2, <2>1, ReturnTyped
<1>7. WireType'
  <2>1. replies' \in Seq(Packets)
    BY <1>4
  <2> QED BY <1>1, <1>2, <1>5, <2>1, NoCalls DEF WireType
<1>8. StoreType'
  BY <1>1, <1>2 DEF StoreType
<1>9. CacheExact'
  BY <1>1, <1>2 DEF CacheExact
<1>10. Stream'
  <2>1. net \in Seq(Commands) /\ wbuf \in Seq(Commands) /\ Quiet(wbuf)
    BY <1>2 DEF WireType, Quiet
  <2>2. StreamOf(<<>>, <<>>, net, wbuf)
    BY <1>3, <2>1, StreamNone
  <2> QED BY <1>1, <1>2, <1>3, <1>4, <2>2 DEF Stream
<1> QED BY <1>2, <1>5, <1>6, <1>7, <1>8, <1>9, <1>10, Ended

\* The server has prepared the statement.
LEMMA ReceivePrepareOkStep ==
    ASSUME MyInv, Aware, ReceivePrepareOk
    PROVE  MyInv'
<1>1. Receive("prepare_ok") /\ "prepare_ok" \in Stages \ {"none"} /\ "prepare_ok" \in SideStages
  BY DEF ReceivePrepareOk, Stages, SideStages
<1> PICK r, t : r = replies /\ t = Tail(r)
  OBVIOUS
<1>2. /\ call.at = "prepare_ok" /\ Stage = "prepare_ok" /\ wbuf = <<>>
      /\ AppType /\ WireType /\ StoreType /\ CacheExact /\ CallFits /\ Side
      /\ r # <<>> /\ r \in Seq(Packets) /\ Head(r) = r[1] /\ r[1] \in Packets /\ r[1].k # "err"
      /\ replies' = t /\ t \in Seq(Packets)
      /\ wbuf' = wbuf /\ net' = net /\ prepared' = prepared /\ next_id' = next_id
      /\ PreparesFit'
  BY <1>1, Received
<1>3. /\ call.op \in Prepares /\ Preparing /\ waiting = (IF call.op \in Runs THEN <<"Result">> ELSE <<>>) /\ OwnPackets(r)
  BY <1>1, <1>2 DEF Side
<1>4. /\ Quiet(net) /\ Len(r) = 3 /\ r[2].k = "def" /\ r[3].k = "def" /\ Prepared(r[1].id)
  BY <1>2, <1>3 DEF Preparing
<1>5. /\ waiting' = waiting /\ status' = status /\ depth' = depth /\ cache' = cache /\ handles' = handles /\ begun' = begun
      /\ fate' = fate /\ parent' = parent /\ acked' = acked /\ erred' = erred
  BY DEF ReceivePrepareOk, appRest
<1>6. MetadataLen(1) + MetadataLen(1) = 2
  BY DEF MetadataLen, Aware
<1>7. call' = [call EXCEPT !.at = "defs", !.id = r[1].id, !.n = 2]
  BY <1>2, <1>6 DEF ReceivePrepareOk
<1>8. r[1].id \in Nat /\ call \in CallRecords
  BY <1>2 DEF Packets, WireType
<1>9. call' \in CallRecords /\ call'.at = "defs" /\ call'.op = call.op /\ call'.sql = call.sql /\ call'.id = r[1].id /\ call'.n = 2
  BY <1>7, <1>8 DEF CallRecords, Stages, SideStages
<1>10. Stage' = "defs"
  BY <1>9 DEF Stage
<1>11. AppType' /\ StoreType'
  BY <1>2, <1>5 DEF AppType, StoreType
<1>12. WireType'
  BY <1>2, <1>5, <1>9 DEF WireType
<1>13. CacheExact'
  BY <1>2, <1>5 DEF CacheExact
<1>14. CallFits'
  BY <1>2, <1>5, <1>9, <1>10 DEF CallFits
<1>15. Prepared(call.id)'
  BY <1>2, <1>4, <1>5, <1>9 DEF Prepared, CachedIds
<1>16. Defined(2)' /\ OwnPackets(t)
  <2>1. Len(t) = 2 /\ t[1] = r[2] /\ t[2] = r[3]
    <3>1. Len(t) = Len(r) - 1 /\ \A i \in 1..Len(r) - 1 : t[i] = r[i + 1]
      BY <1>2, SeqParts
    <3>2. Len(r) - 1 = 2 /\ 1 \in 1..2 /\ 2 \in 1..2 /\ 1 + 1 = 2 /\ 2 + 1 = 3
      BY <1>4
    <3>3. \A i \in 1..2 : t[i] = r[i + 1]
      BY <3>1, <3>2
    <3>4. t[1] = r[1 + 1] /\ t[2] = r[2 + 1]
      BY <3>2, <3>3
    <3> QED BY <3>1, <3>2, <3>4
  <2>2. \A i \in 1..2 : i = 1 \/ i = 2
    OBVIOUS
  <2>3. \A i \in 1..2 : t[i].k = "def"
    BY <1>4, <2>1, <2>2
  <2>4. r[2].own /\ r[3].own
    BY <1>3, <1>4 DEF OwnPackets
  <2>5. \A i \in 1..2 : t[i].own
    BY <2>1, <2>2, <2>4
  <2> QED BY <1>2, <2>1, <2>3, <2>5 DEF Defined, OwnPackets
<1>17. Side'
  <2>1. call'.n = 2 /\ call'.n \in {1, 2} /\ call'.at # "flush"
    BY <1>9
  <2> QED BY <1>2, <1>3, <1>4, <1>5, <1>9, <1>10, <1>15, <1>16, <2>1 DEF Side, Defined
<1>18. Own'
  BY <1>10 DEF Own, OwnAt, OwnStages
<1>19. Stage' \in SideStages
  BY <1>10 DEF SideStages
<1> QED BY <1>2, <1>11, <1>12, <1>13, <1>14, <1>17, <1>18, <1>19 DEF MyInv


\* The call reads the first of two definitions.
LEMMA ReceiveDefStep ==
    ASSUME MyInv, ReceiveDef
    PROVE  MyInv'
<1>1. Receive("defs") /\ call.n > 1 /\ "defs" \in Stages \ {"none"} /\ "defs" \in SideStages
  BY DEF ReceiveDef, Stages, SideStages
<1> PICK r, t : r = replies /\ t = Tail(r)
  OBVIOUS
<1>2. /\ call.at = "defs" /\ Stage = "defs" /\ wbuf = <<>>
      /\ AppType /\ WireType /\ StoreType /\ CacheExact /\ CallFits /\ Side
      /\ r # <<>> /\ r \in Seq(Packets)
      /\ replies' = t /\ t \in Seq(Packets)
      /\ wbuf' = wbuf /\ net' = net /\ prepared' = prepared /\ next_id' = next_id
      /\ PreparesFit'
  BY <1>1, Received
<1>3. /\ call.op \in Prepares /\ waiting = (IF call.op \in Runs THEN <<"Result">> ELSE <<>>) /\ OwnPackets(r)
      /\ Quiet(net) /\ call.n \in {1, 2} /\ Defined(call.n) /\ Prepared(call.id)
  BY <1>1, <1>2 DEF Side
<1>4. call.n = 2 /\ Len(r) = 2 /\ \A i \in 1..Len(r) : r[i].k = "def"
  <2>1. call.n = 2
    BY <1>1, <1>3
  <2> QED BY <1>3, <2>1 DEF Defined
<1>5. /\ waiting' = waiting /\ status' = status /\ depth' = depth /\ cache' = cache /\ handles' = handles /\ begun' = begun
      /\ fate' = fate /\ parent' = parent /\ acked' = acked /\ erred' = erred
  BY DEF ReceiveDef, appRest
<1>6. call' = [call EXCEPT !.n = 1]
  <2>1. call' = [call EXCEPT !.n = call.n - 1] /\ call.n - 1 = 1
    BY <1>4 DEF ReceiveDef
  <2> QED BY <2>1
<1>7. call' \in CallRecords /\ call'.at = "defs" /\ call'.op = call.op /\ call'.sql = call.sql /\ call'.id = call.id /\ call'.n = 1
  BY <1>2, <1>6 DEF WireType, CallRecords
<1>8. Stage' = "defs"
  BY <1>7 DEF Stage
<1>9. AppType' /\ StoreType'
  BY <1>2, <1>5 DEF AppType, StoreType
<1>10. WireType'
  BY <1>2, <1>5, <1>7 DEF WireType
<1>11. CacheExact'
  BY <1>2, <1>5 DEF CacheExact
<1>12. CallFits'
  BY <1>2, <1>5, <1>7, <1>8 DEF CallFits
<1>13. Prepared(call.id)'
  BY <1>2, <1>3, <1>5, <1>7 DEF Prepared, CachedIds
<1>14. Defined(1)' /\ OwnPackets(t)
  <2>1. Len(t) = Len(r) - 1 /\ \A i \in 1..Len(r) - 1 : t[i] = r[i + 1]
    BY <1>2, SeqParts
  <2>2. Len(r) - 1 = 1 /\ 1 + 1 = 2 /\ \A i \in 1..1 : i = 1
    BY <1>4
  <2>3. Len(t) = 1 /\ t[1] = r[2]
    <3>1. 1 \in 1..1
      OBVIOUS
    <3>2. t[1] = r[1 + 1]
      BY <2>1, <2>2, <3>1
    <3> QED BY <2>1, <2>2, <3>2
  <2>4. r[2].k = "def" /\ r[2].own
    BY <1>3, <1>4 DEF OwnPackets
  <2> QED BY <1>2, <2>2, <2>3, <2>4 DEF Defined, OwnPackets
<1>15. Side'
  BY <1>2, <1>3, <1>5, <1>7, <1>8, <1>13, <1>14 DEF Side, Defined
<1>16. Own'
  BY <1>8 DEF Own, OwnAt, OwnStages
<1>17. Stage' \in SideStages
  BY <1>8 DEF SideStages
<1> QED BY <1>2, <1>9, <1>10, <1>11, <1>12, <1>15, <1>16, <1>17 DEF MyInv

\* cb is the cache ca with the statement y, just prepared under the id x, and w is empty.
Grows(ca, w, n, id, p, x, y, cb) ==
    /\ CacheOf(ca, w, n, id, p) /\ w = <<>> /\ Len(ca) <= Capacity /\ Capacity # 0
    /\ x \in Ids /\ y \in Statements /\ x < id /\ x \notin IdsOf(ca) /\ p[x] = y
    /\ \A i \in 1..Len(n) : n[i].c = "close" => n[i].id # x
    /\ cb = Append(IF Len(ca) = Capacity THEN Tail(ca) ELSE ca, [sql |-> y, id |-> x])

\* The new statement takes its place in the cache.
LEMMA CacheGrown ==
    ASSUME NEW ca, NEW w, NEW n, NEW id, NEW p, NEW x, NEW y, NEW cb, Grows(ca, w, n, id, p, x, y, cb)
    PROVE  /\ CacheOf(cb, w, n, id, p) /\ cb \in Seq(CacheEntries) /\ Len(cb) <= Capacity
           /\ Len(ca) = Capacity => Head(ca).id < id /\ Head(ca).id \notin IdsOf(cb) /\ Head(ca).id \in Nat
<1> USE DEF Grows
<1>1. ca \in Seq(CacheEntries) /\ Capacity \in Nat /\ Len(ca) \in Nat
  BY CacheParts, MySqlAssumption, SeqParts
<1>2. \A i \in 1..Len(w) : w[i].c = "close" => w[i].id # x
  OBVIOUS
<1>3. CASE Len(ca) = Capacity
  <2>1. ca # <<>>
    BY <1>1, <1>3
  <2> PICK t, h : t = Tail(ca) /\ h = Head(ca).id
    OBVIOUS
  <2>2. CacheOf(t, w, n, id, p) /\ h < id /\ h \notin IdsOf(t) /\ IdsOf(t) \subseteq IdsOf(ca) /\ h \in IdsOf(ca) /\ h \in Nat /\ Len(t) = Len(ca) - 1
    BY <2>1, CacheDrop
  <2>3. cb = Append(t, [sql |-> y, id |-> x]) /\ x \notin IdsOf(t) /\ h # x
    BY <1>3, <2>2
  <2>4. CacheOf(cb, w, n, id, p) /\ IdsOf(cb) = IdsOf(t) \cup {x} /\ Len(cb) = Len(t) + 1
    BY <1>2, <2>2, <2>3, CacheAdd
  <2>5. cb \in Seq(CacheEntries)
    BY <2>4, CacheParts
  <2>6. Len(cb) <= Capacity
    BY <1>1, <1>3, <2>2, <2>4
  <2>7. h \notin IdsOf(cb)
    BY <2>2, <2>3, <2>4
  <2> QED BY <2>2, <2>4, <2>5, <2>6, <2>7
<1>4. CASE Len(ca) # Capacity
  <2>1. cb = Append(ca, [sql |-> y, id |-> x])
    BY <1>4
  <2>2. CacheOf(cb, w, n, id, p) /\ IdsOf(cb) = IdsOf(ca) \cup {x} /\ Len(cb) = Len(ca) + 1
    BY <1>2, <2>1, CacheAdd
  <2>3. cb \in Seq(CacheEntries)
    BY <2>2, CacheParts
  <2>4. Len(cb) <= Capacity
    BY <1>1, <1>4, <2>2
  <2> QED BY <1>4, <2>2, <2>3, <2>4
<1> QED BY <1>3, <1>4

\* With nothing else in flight that asks for an answer, the call closes a statement.
LEMMA Closes ==
    ASSUME WireType, AppType', StoreType', PreparesFit, CallBase',
           net' = net, next_id' = next_id, prepared' = prepared, replies' = <<>>, Quiet(net), wbuf = <<>>,
           waiting' = (IF call.op \in Runs THEN <<"Result">> ELSE <<>>),
           CacheOf(cache', wbuf, net, next_id, prepared),
           NEW m \in Commands, m.c = "close", Harmless(m, cache', next_id), wbuf' = Append(wbuf, m),
           NEW st, st = (IF call.op \in Runs THEN "execute" ELSE "return"), call' = [call EXCEPT !.at = "flush", !.then = st]
    PROVE  MyInv'
<1>1. st \in Stages /\ call \in CallRecords
  BY DEF Stages, SideStages, WireType
<1>2. /\ call' \in CallRecords /\ call'.at = "flush" /\ call'.then = st /\ call'.op = call.op /\ call'.sql = call.sql
  BY <1>1, SentCall
<1>3. wbuf' \in Seq(Commands) /\ Len(wbuf') = 1 /\ wbuf'[1] = m /\ wbuf' # <<>> /\ \A i \in 1..Len(wbuf') : i = 1
  BY OnlyOne
<1>4. CallFits' /\ Stage' = st
  <2>1. st \notin {"none", "drain", "defs", "meta", "rows", "clear", "close_once"}
    OBVIOUS
  <2> QED BY <1>2, <1>3, <2>1, Flushing
<1>5. CacheExact'
  <2>1. CacheOf(cache', Append(wbuf, m), net, next_id, prepared)
    BY CacheQueue
  <2> QED BY <2>1 DEF CacheExact
<1>6. WireType'
  <2>1. waiting' \in Seq({"Result", "Row"}) /\ replies' \in Seq(Packets)
    BY OneResult
  <2>2. net' \in Seq(Commands)
    BY DEF WireType
  <2> QED BY <1>2, <1>3, <2>1, <2>2 DEF WireType
<1>7. PreparesFit'
  BY DEF PreparesFit
<1>8. Quiet(wbuf') /\ OwnPackets(replies')
  BY <1>3 DEF Quiet, OwnPackets
<1>9. Own'
  BY <1>4 DEF Own, OwnAt, OwnStages
<1>10. CASE call.op \in Runs
  <2>1. Stage' = "execute" /\ Stage' \in SideStages
    BY <1>4, <1>10 DEF SideStages
  <2>2. Side'
    BY <1>2, <1>8, <1>10, <2>1 DEF Side
  <2> QED BY <1>4, <1>5, <1>6, <1>7, <1>9, <2>1, <2>2 DEF MyInv
<1>11. CASE call.op \notin Runs
  <2>1. Side'
    BY <1>4, <1>11 DEF Side, SideStages
  <2>2. Stream'
    <3> PICK q, r, n, w : q = <<>> /\ r = <<>> /\ n = net /\ w = wbuf
      OBVIOUS
    <3>1. n \in Seq(Commands) /\ w \in Seq(Commands) /\ Quiet(n) /\ Quiet(w)
      BY DEF WireType, Quiet
    <3>2. StreamOf(q, r, n, w)
      BY <3>1, StreamNone
    <3>3. StreamOf(q, r, n, Append(w, m))
      BY <3>2, StreamClose
    <3> QED BY <1>11, <3>3 DEF Stream
  <2> QED BY <1>4, <1>5, <1>6, <1>7, <1>9, <2>1, <2>2 DEF MyInv
<1> QED BY <1>10, <1>11


\* The last definition: the statement is cached, or not, and run, or not.
LEMMA ReceiveLastDefStep ==
    ASSUME MyInv, ReceiveLastDef
    PROVE  MyInv'
<1>1. /\ call.at = "defs" /\ call.n = 1 /\ Stage = "defs" /\ Stage \in SideStages /\ call.at \in SideStages
      /\ replies' = Tail(replies)
  BY DEF ReceiveLastDef, Stage, SideStages
<1>2. call # Closed
  BY <1>1, NoCalls
<1>3. AppType /\ WireType /\ StoreType /\ PreparesFit /\ CacheExact /\ CallFits /\ Side
  BY <1>2, Parts
<1>4. /\ call.op \in Prepares /\ waiting = (IF call.op \in Runs THEN <<"Result">> ELSE <<>>) /\ wbuf = <<>>
      /\ Quiet(net) /\ Defined(1) /\ Prepared(call.id)
  <2>1. /\ call.op \in Prepares /\ waiting = (IF call.op \in Runs THEN <<"Result">> ELSE <<>>)
        /\ Quiet(net) /\ Defined(call.n) /\ Prepared(call.id)
    BY <1>1, <1>3 DEF Side
  <2> QED BY <1>1, <1>3, <2>1 DEF CallFits
<1>5. replies' = <<>>
  <2>1. replies \in Seq(Packets) /\ Len(replies) = 1
    BY <1>3, <1>4 DEF WireType, Defined
  <2> QED BY <1>1, <2>1, TailOne
<1>6. /\ waiting' = waiting /\ status' = status /\ depth' = depth /\ handles' = handles /\ begun' = begun
      /\ fate' = fate /\ parent' = parent /\ acked' = acked /\ erred' = erred
      /\ net' = net /\ prepared' = prepared /\ next_id' = next_id
  BY DEF ReceiveLastDef, appRest
<1> PICK x, y, ca, n, w, id, p : x = call.id /\ y = call.sql /\ ca = cache /\ n = net /\ w = wbuf /\ id = next_id /\ p = prepared
  OBVIOUS
<1>7. /\ x \in Ids /\ x < id /\ x \notin IdsOf(ca) /\ p[x] = y
      /\ \A i \in 1..Len(n) : n[i].c = "close" => n[i].id # x
  BY <1>4 DEF Prepared, CachedIds
<1>8. y \in Statements /\ x \in Nat /\ call \in CallRecords
  BY <1>3, <1>4 DEF CallFits, WireType, CallRecords
<1>9. CacheOf(ca, w, n, id, p) /\ Len(ca) <= Capacity /\ ca \in Seq(CacheEntries)
  BY <1>3 DEF CacheExact, StoreType
<1>10. AppType'
  BY <1>3, <1>6 DEF AppType
<1>11. ASSUME cache' \in Seq(CacheEntries), Len(cache') <= Capacity
       PROVE  StoreType'
  BY <1>3, <1>6, <1>11 DEF StoreType
<1>12. ASSUME call'.op = call.op, call'.sql = call.sql
       PROVE  CallBase'
  <2>1. call.at # "none"
    BY <1>1
  <2> QED BY <1>3, <1>6, <1>12, <2>1, BaseKept
<1>13. ASSUME NEW st \in Stages, call' = [call EXCEPT !.at = "flush", !.then = st]
       PROVE  CallBase'
  <2>1. call'.op = call.op /\ call'.sql = call.sql
    BY <1>8, <1>13, SentCall
  <2> QED BY <1>12, <2>1
<1>14. {"close_once", "first", "execute", "return"} \subseteq Stages
  BY DEF Stages, OwnStages, SideStages
<1>15. ASSUME NEW st \in {"first", "close_once"}, wbuf' = Append(wbuf, ExecuteCmd(x)), call' = [call EXCEPT !.at = "flush", !.then = st],
              call.op \in Runs, StoreType', CacheOf(cache', w, n, id, p),
              st = "close_once" => x \notin IdsOf(cache')
       PROVE  MyInv'
  <2> PICK m : m = ExecuteCmd(x)
    OBVIOUS
  <2>1. CommandIs(m, "execute", x, "none")
    BY <1>3, <1>8, CommandsTyped
  <2>2. m \in Commands /\ m.c \in {"query", "execute"} /\ m.own = TRUE
    BY <2>1 DEF CommandIs
  <2>3. waiting' = <<"Result">> /\ st \in Stages
    BY <1>4, <1>6, <1>14, <1>15
  <2>4. CallBase'
    BY <1>13, <1>15, <2>3
  <2>5. CacheOf(cache', wbuf, net, next_id, prepared) /\ (st = "close_once" => call.id < next_id /\ call.id \notin IdsOf(cache'))
    BY <1>7, <1>15
  <2> QED BY <1>3, <1>4, <1>5, <1>6, <1>10, <1>15, <2>2, <2>3, <2>4, <2>5, Asked
<1>16. ASSUME NEW st, st = (IF call.op \in Runs THEN "execute" ELSE "return"), NEW h \in Nat, wbuf' = Append(wbuf, StmtClose(h)),
              call' = [call EXCEPT !.at = "flush", !.then = st], StoreType', CacheOf(cache', w, n, id, p),
              h < id, h \notin IdsOf(cache')
       PROVE  MyInv'
  <2> PICK m : m = StmtClose(h)
    OBVIOUS
  <2>1. CommandIs(m, "close", h, "none")
    BY <1>3, <1>16, CommandsTyped
  <2>2. m \in Commands /\ m.c = "close" /\ m.id = h
    BY <2>1 DEF CommandIs
  <2>3. Harmless(m, cache', next_id)
    BY <1>16, <2>2 DEF Harmless
  <2>4. st \in Stages
    BY <1>14, <1>16
  <2>5. CallBase'
    BY <1>13, <1>16, <2>4
  <2>6. waiting' = (IF call.op \in Runs THEN <<"Result">> ELSE <<>>) /\ CacheOf(cache', wbuf, net, next_id, prepared)
    BY <1>4, <1>6, <1>16
  <2> QED BY <1>3, <1>4, <1>5, <1>6, <1>10, <1>16, <2>2, <2>3, <2>5, <2>6, Closes
<1>17. CASE Transient
  <2>1. cache' = ca
    BY <1>17 DEF ReceiveLastDef
  <2>2. StoreType' /\ CacheOf(cache', w, n, id, p)
    BY <1>9, <1>11, <2>1
  <2>3. CASE call.op \in Runs
    <3>1. wbuf' = Append(wbuf, ExecuteCmd(x)) /\ call' = [call EXCEPT !.at = "flush", !.then = "close_once"]
      BY <1>17, <2>3 DEF ReceiveLastDef, SendThen, Runs
    <3>2. "close_once" \in {"first", "close_once"} /\ x \notin IdsOf(cache')
      BY <1>7, <2>1
    <3> QED BY <1>15, <2>2, <2>3, <3>1, <3>2
  <2>4. CASE call.op \notin Runs
    <3>1. wbuf' = Append(wbuf, StmtClose(x)) /\ call' = [call EXCEPT !.at = "flush", !.then = "return"]
      BY <1>17, <2>4 DEF ReceiveLastDef, SendThen, Runs
    <3>2. "return" = (IF call.op \in Runs THEN "execute" ELSE "return") /\ x < id /\ x \notin IdsOf(cache')
      BY <1>7, <2>1, <2>4
    <3> QED BY <1>8, <1>16, <2>2, <3>1, <3>2
  <2> QED BY <2>3, <2>4
<1>18. CASE ~Transient
  <2> PICK cb : cb = Append(IF Len(ca) = Capacity THEN Tail(ca) ELSE ca, [sql |-> y, id |-> x])
    OBVIOUS
  <2>1. cache' = cb /\ Capacity # 0
    BY <1>18 DEF ReceiveLastDef, CacheFull, Transient
  <2>2. /\ CacheOf(cb, w, n, id, p) /\ cb \in Seq(CacheEntries) /\ Len(cb) <= Capacity
        /\ Len(ca) = Capacity => Head(ca).id < id /\ Head(ca).id \notin IdsOf(cb) /\ Head(ca).id \in Nat
    <3>1. w = <<>> /\ Capacity # 0
      BY <1>4, <2>1
    <3>2. cb = Append(IF Len(ca) = Capacity THEN Tail(ca) ELSE ca, [sql |-> y, id |-> x])
      OBVIOUS
    <3>3. Grows(ca, w, n, id, p, x, y, cb)
      BY <1>7, <1>8, <1>9, <3>1, <3>2 DEF Grows
    <3> QED BY ONLY <3>3, CacheGrown
  <2>3. StoreType' /\ CacheOf(cache', w, n, id, p)
    BY <1>11, <2>1, <2>2
  <2>4. CASE Len(ca) = Capacity
    <3> PICK st, h : st = (IF call.op \in Runs THEN "execute" ELSE "return") /\ h = Head(ca).id
      OBVIOUS
    <3>1. wbuf' = Append(wbuf, StmtClose(h)) /\ call' = [call EXCEPT !.at = "flush", !.then = st]
      BY <1>18, <2>4 DEF ReceiveLastDef, SendThen, Runs, CacheFull, Evicted
    <3>2. h \in Nat /\ h < id /\ h \notin IdsOf(cache')
      BY <2>1, <2>2, <2>4
    <3> QED BY <1>16, <2>3, <3>1, <3>2
  <2>5. CASE Len(ca) # Capacity /\ call.op \in Runs
    <3>1. wbuf' = Append(wbuf, ExecuteCmd(x)) /\ call' = [call EXCEPT !.at = "flush", !.then = "first"]
      BY <1>18, <2>5 DEF ReceiveLastDef, SendThen, Runs, CacheFull
    <3>2. "first" \in {"first", "close_once"} /\ "first" # "close_once"
      OBVIOUS
    <3> QED BY <1>15, <2>3, <2>5, <3>1, <3>2
  <2>6. CASE Len(ca) # Capacity /\ call.op \notin Runs
    <3>1. wbuf' = wbuf /\ call' = [call EXCEPT !.at = "return"]
      BY <1>18, <2>6 DEF ReceiveLastDef, Runs, CacheFull
    <3>2. call' \in CallRecords /\ call'.at = "return" /\ call'.op = call.op /\ call'.sql = call.sql
      BY <1>8, <1>14, <3>1 DEF CallRecords
    <3>3. CallBase'
      BY <1>12, <3>2
    <3>4. Stage' = "return"
      BY <3>2 DEF Stage
    <3>5. CallFits'
      BY <1>4, <3>1, <3>2, <3>3, <3>4 DEF CallFits, CallBase
    <3>6. Side' /\ Own'
      BY <3>4 DEF Side, Own, OwnAt, SideStages, OwnStages
    <3>7. Stream'
      <4>1. n \in Seq(Commands) /\ w \in Seq(Commands) /\ Quiet(n) /\ Quiet(w)
        BY <1>3, <1>4 DEF WireType, Quiet
      <4>2. StreamOf(<<>>, <<>>, n, w)
        BY <4>1, StreamNone
      <4>3. waiting' = <<>>
        BY <1>4, <1>6, <2>6
      <4> QED BY <1>5, <1>6, <3>1, <4>2, <4>3 DEF Stream
    <3>8. CacheExact'
      BY <1>6, <2>3, <3>1 DEF CacheExact
    <3>9. PreparesFit'
      BY <1>3, <1>6 DEF PreparesFit
    <3>10. WireType'
      <4>1. replies' \in Seq(Packets)
        BY <1>5
      <4> QED BY <1>3, <1>6, <3>1, <3>2, <4>1 DEF WireType
    <3> QED BY <1>10, <2>3, <3>5, <3>6, <3>7, <3>8, <3>9, <3>10 DEF MyInv
  <2> QED BY <2>4, <2>5, <2>6
<1> QED BY <1>17, <1>18


-----------------------------------------------------------------------------
(* The server.                                                             *)

\* The server answers the command c with the packets x.
Served(c, x) ==
    /\ replies' = replies \o x /\ x \in Seq(Packets) /\ \A i \in 1..Len(x) : x[i].own = c.own
    /\ \/ c.c = "close" /\ x = <<>> /\ next_id' = next_id /\ prepared' = [prepared EXCEPT ![c.id] = "none"]
       \/ c.c \in {"query", "execute"} /\ Reply(c, x) /\ next_id' = next_id /\ prepared' = prepared
       \/ c.c = "ping" /\ Len(x) = 1 /\ x[1].k = "ok" /\ next_id' = next_id /\ prepared' = prepared
       \/ c.c = "prepare" /\ Len(x) = 1 /\ x[1].k = "err" /\ next_id' = next_id /\ prepared' = prepared
       \/ /\ c.c = "prepare" /\ Len(x) = 3 /\ x[1].k = "prepare_ok" /\ x[2].k = "def" /\ x[3].k = "def"
          /\ x[1].id = next_id /\ next_id' = next_id + 1 /\ prepared' = [prepared EXCEPT ![next_id] = c.sql]

\* The answer to a COM_STMT_PREPARE.
LEMMA PreparedReplies ==
    ASSUME Aware, NEW c \in Commands, c.c = "prepare", next_id \in Nat, NEW x, x = Response(c)
    PROVE  /\ x \in Seq(Packets) /\ Len(x) = 3 /\ x[1].k = "prepare_ok" /\ x[2].k = "def" /\ x[3].k = "def" /\ x[1].id = next_id
           /\ \A i \in 1..Len(x) : x[i].own = c.own
<1> PICK f, a, b : f = Packet("prepare_ok", c) /\ a = [f EXCEPT !.id = next_id] /\ b = Packet("def", c)
  OBVIOUS
<1>1. PacketIs(f, "prepare_ok", c, FALSE) /\ PacketIs(b, "def", c, FALSE)
  BY PacketParts DEF PacketKinds
<1>2. /\ f \in Packets /\ f.k = "prepare_ok" /\ f.own = c.own
      /\ b \in Packets /\ b.k = "def" /\ b.own = c.own
  BY <1>1 DEF PacketIs
<1>3. a \in Packets /\ a.k = "prepare_ok" /\ a.own = c.own /\ a.id = next_id
  BY <1>2 DEF Packets
<1>4. Definitions(c) = <<b>>
  BY DEF Definitions, Aware
<1>5. x = <<a>> \o <<b>> \o <<b>>
  BY <1>4 DEF Response
<1>6. <<a>> \o <<b>> = <<a, b>>
  BY ONLY <1>2, <1>3, Joined2
<1>7. <<a, b>> \o <<b>> = <<a, b, b>>
  BY ONLY <1>2, <1>3, Joined3
<1>8. x = <<a, b, b>>
  BY <1>5, <1>6, <1>7
<1>9. Len(x) = 3 /\ x[1] = a /\ x[2] = b /\ x[3] = b /\ x \in Seq(Packets)
  BY <1>2, <1>3, <1>8
<1>10. \A i \in 1..3 : i = 1 \/ i = 2 \/ i = 3
  OBVIOUS
<1>11. \A i \in 1..3 : x[i].own = c.own
  BY <1>2, <1>3, <1>9, <1>10
<1> QED BY <1>2, <1>3, <1>9, <1>11

\* What serving a command does.
LEMMA ServeIs ==
    ASSUME Aware, WireType, next_id \in Nat, Serve
    PROVE  /\ net # <<>> /\ net' = Tail(net) /\ net[1] \in Commands /\ \E x : Served(net[1], x)
           /\ wbuf' = wbuf /\ waiting' = waiting /\ status' = status /\ depth' = depth /\ cache' = cache /\ call' = call
           /\ handles' = handles /\ begun' = begun /\ fate' = fate /\ parent' = parent /\ acked' = acked /\ erred' = erred
<1>1. net # <<>> /\ net' = Tail(net) /\ UNCHANGED <<inner, app>>
  BY DEF Serve
<1>2. /\ wbuf' = wbuf /\ waiting' = waiting /\ status' = status /\ depth' = depth /\ cache' = cache /\ call' = call
      /\ handles' = handles /\ begun' = begun /\ fate' = fate /\ parent' = parent /\ acked' = acked /\ erred' = erred
  BY <1>1 DEF inner, app
<1> PICK c : c = net[1]
  OBVIOUS
<1>3. c \in Commands /\ Head(net) = c
  BY <1>1, SeqParts DEF WireType
<1>4. c.c \in CommandKinds
  BY <1>3 DEF Commands
<1>5. CASE /\ Accepted(c) /\ replies' = replies \o Response(c)
           /\ prepared' = CASE c.c = "prepare" -> [prepared EXCEPT ![next_id] = c.sql]
                            [] c.c = "close" -> [prepared EXCEPT ![c.id] = "none"]
                            [] OTHER -> prepared
           /\ next_id' = IF c.c = "prepare" THEN next_id + 1 ELSE next_id
  <2> PICK x : x = Response(c)
    OBVIOUS
  <2>1. CASE c.c = "close"
    <3>1. x = <<>>
      BY <2>1 DEF Response
    <3>2. x \in Seq(Packets) /\ \A i \in 1..Len(x) : x[i].own = c.own
      BY <3>1
    <3>3. next_id' = next_id /\ prepared' = [prepared EXCEPT ![c.id] = "none"]
      BY <1>5, <2>1
    <3> QED BY <1>1, <1>2, <1>3, <1>5, <2>1, <3>1, <3>2, <3>3 DEF Served
  <2>2. CASE c.c \in {"query", "execute"}
    <3>1. Reply(c, x)
      BY <1>3, <2>2, ResponseReplies
    <3>2. x \in Seq(Packets) /\ \A i \in 1..Len(x) : x[i].own = c.own
      BY <3>1 DEF Reply
    <3>3. next_id' = next_id /\ prepared' = prepared
      BY <1>5, <2>2
    <3> QED BY <1>1, <1>2, <1>3, <1>5, <2>2, <3>1, <3>2, <3>3 DEF Served
  <2>3. CASE c.c = "ping"
    <3> PICK e : e = End("ok", c, Done(c))
      OBVIOUS
    <3>1. x = <<e>>
      BY <2>3 DEF Response
    <3>2. PacketIs(e, "ok", c, FALSE)
      BY <1>3, EndParts DEF PacketKinds
    <3>3. e \in Packets /\ e.k = "ok" /\ e.own = c.own
      BY <3>2 DEF PacketIs
    <3>4. x \in Seq(Packets) /\ Len(x) = 1 /\ x[1] = e /\ \A i \in 1..Len(x) : i = 1
      BY <3>1, <3>3
    <3>5. next_id' = next_id /\ prepared' = prepared
      BY <1>5, <2>3
    <3> QED BY <1>1, <1>2, <1>3, <1>5, <2>3, <3>3, <3>4, <3>5 DEF Served
  <2>4. CASE c.c = "prepare"
    <3>1. /\ x \in Seq(Packets) /\ Len(x) = 3 /\ x[1].k = "prepare_ok" /\ x[2].k = "def" /\ x[3].k = "def" /\ x[1].id = next_id
          /\ \A i \in 1..Len(x) : x[i].own = c.own
      BY <1>3, <2>4, PreparedReplies
    <3>2. next_id' = next_id + 1 /\ prepared' = [prepared EXCEPT ![next_id] = c.sql]
      BY <1>5, <2>4
    <3>3. Served(c, x)
      BY <1>5, <2>4, <3>1, <3>2, ZenonT(30) DEF Served
    <3> QED BY <1>1, <1>2, <1>3, <3>3
  <2> QED BY <1>4, <2>1, <2>2, <2>3, <2>4 DEF CommandKinds
<1>6. CASE /\ ~Accepted(c) \/ Refusable(c)
           /\ \E r \in Refusals(c) : replies' = replies \o r
           /\ UNCHANGED <<session, prepared, next_id>>
  <2> PICK x \in Refusals(c) : replies' = replies \o x
    BY <1>6
  <2>1. c.c \notin {"close", "ping"}
    BY <1>6 DEF Accepted, Refusable
  <2>2. Reply(c, x) /\ (c.c \notin {"query", "execute"} => Len(x) = 1 /\ x[1].k = "err")
    BY <1>3, RefusalReplies
  <2>3. x \in Seq(Packets) /\ \A i \in 1..Len(x) : x[i].own = c.own
    BY <2>2 DEF Reply
  <2>4. c.c \in {"query", "execute"} \/ c.c = "prepare"
    BY <1>4, <2>1 DEF CommandKinds
  <2>5. Served(c, x)
    BY <1>6, <2>2, <2>3, <2>4 DEF Served
  <2> QED BY <1>1, <1>2, <1>3, <2>5
<1>7. \/ /\ Accepted(c) /\ replies' = replies \o Response(c)
         /\ prepared' = CASE c.c = "prepare" -> [prepared EXCEPT ![next_id] = c.sql]
                          [] c.c = "close" -> [prepared EXCEPT ![c.id] = "none"]
                          [] OTHER -> prepared
         /\ next_id' = IF c.c = "prepare" THEN next_id + 1 ELSE next_id
      \/ /\ ~Accepted(c) \/ Refusable(c)
         /\ \E r \in Refusals(c) : replies' = replies \o r
         /\ UNCHANGED <<session, prepared, next_id>>
  BY <1>3 DEF Serve
<1> QED BY <1>5, <1>6, <1>7

\* A command that is alone stays so until it is served.
LEMMA AloneServed ==
    ASSUME net \in Seq(Commands), net # <<>>, net' = Tail(net), wbuf' = wbuf, call' = call,
           NEW k \in {"ping", "prepare"}, SentAlone(k)
    PROVE  \/ net[1].c = "close" /\ SentAlone(k)'
           \/ call.at # "flush" /\ Asks(net[1], k) /\ Quiet(Tail(net))
<1> PICK n, t : n = net /\ t = Tail(n)
  OBVIOUS
<1>1. /\ Len(n) \in Nat /\ Len(t) = Len(n) - 1 /\ Len(t) \in Nat /\ 1 \in 1..Len(n)
      /\ \A i \in 1..Len(n) - 1 : t[i] = n[i + 1]
  BY SeqParts
<1>2. \A i \in 1..Len(t) : t[i] = n[i + 1] /\ i + 1 \in 1..Len(n) /\ i + 1 # 1
  BY <1>1
<1>3. CASE call.at = "flush" /\ Quiet(net) /\ Asks(wbuf[1], k)
  <2>1. n[1].c = "close" /\ Quiet(t)
    BY <1>1, <1>2, <1>3 DEF Quiet
  <2>2. Asks(wbuf[1], k)'
    BY <1>3 DEF Asks
  <2> QED BY <1>3, <2>1, <2>2 DEF SentAlone
<1>4. CASE /\ call.at # "flush"
           /\ \E i \in 1..Len(net) : Asks(net[i], k) /\ \A j \in 1..Len(net) : j # i => net[j].c = "close"
  <2> PICK i \in 1..Len(n) : Asks(n[i], k) /\ \A j \in 1..Len(n) : j # i => n[j].c = "close"
    BY <1>4
  <2>1. CASE i = 1
    <3>1. Quiet(t)
      BY <1>2, <2>1 DEF Quiet
    <3> QED BY <1>4, <2>1, <3>1
  <2>2. CASE i # 1
    <3> PICK h : h = i - 1
      OBVIOUS
    <3>1. h \in 1..Len(t) /\ h + 1 = i
      BY <1>1, <2>2
    <3>2. t[h] = n[i]
      BY <1>2, <3>1
    <3>3. Asks(t[h], k)'
      BY <3>2 DEF Asks
    <3>4. \A j \in 1..Len(t) : j # h => t[j].c = "close"
      <4> TAKE j \in 1..Len(t)
      <4>1. t[j] = n[j + 1] /\ j + 1 \in 1..Len(n)
        BY <1>2
      <4>2. j # h => j + 1 # i
        BY <1>1, <3>1
      <4> QED BY <4>1, <4>2
    <3>5. SentAlone(k)'
      BY <1>4, <3>1, <3>3, <3>4 DEF SentAlone
    <3>6. n[1].c = "close"
      BY <1>1, <2>2
    <3> QED BY <3>5, <3>6
  <2> QED BY <2>1, <2>2
<1> QED BY <1>3, <1>4 DEF SentAlone


\* The call's own packets, one after the other.
LEMMA OwnConcat ==
    ASSUME NEW s \in Seq(Packets), NEW t \in Seq(Packets), OwnPackets(s), OwnPackets(t)
    PROVE  OwnPackets(s \o t)
<1> PICK u : u = s \o t
  OBVIOUS
<1>1. Len(u) = Len(s) + Len(t) /\ Len(s) \in Nat /\ Len(t) \in Nat
  OBVIOUS
<1>2. \A i \in 1..Len(u) : i <= Len(s) => u[i] = s[i] /\ i \in 1..Len(s)
  BY <1>1
<1>3. \A i \in 1..Len(u) : ~(i <= Len(s)) => u[i] = t[i - Len(s)] /\ i - Len(s) \in 1..Len(t)
  BY <1>1
<1> QED BY <1>2, <1>3 DEF OwnPackets

\* A COM_STMT_CLOSE is served that does not close the statement the call has prepared.
LEMMA PreparedKept ==
    ASSUME NEW id, Prepared(id), net \in Seq(Commands), net # <<>>, net' = Tail(net), net[1].c = "close",
           cache' = cache, call' = call, next_id' = next_id, prepared \in [Ids -> Statements \cup {"none"}],
           prepared' = [prepared EXCEPT ![net[1].id] = "none"], NEW jd, jd = id
    PROVE  /\ jd \in Ids /\ jd < next_id' /\ jd \notin CachedIds' /\ prepared'[jd] = call'.sql
           /\ \A i \in 1..Len(net') : net'[i].c = "close" => net'[i].id # jd
<1>1. /\ id \in Ids /\ id < next_id /\ id \notin CachedIds /\ prepared[id] = call.sql
      /\ \A i \in 1..Len(net) : net[i].c = "close" => net[i].id # id
  BY DEF Prepared
<1> PICK n, t : n = net /\ t = Tail(n)
  OBVIOUS
<1>2. /\ 1 \in 1..Len(n) /\ \A i \in 1..Len(t) : t[i] = n[i + 1] /\ i + 1 \in 1..Len(n)
  <2>1. /\ Len(n) \in Nat /\ Len(t) = Len(n) - 1 /\ 1 \in 1..Len(n) /\ \A i \in 1..Len(n) - 1 : t[i] = n[i + 1]
    BY SeqParts
  <2> QED BY <2>1
<1>3. n[1].id # id
  BY <1>1, <1>2
<1>4. prepared'[id] = prepared[id]
  BY <1>1, <1>3
<1>5. \A i \in 1..Len(t) : t[i].c = "close" => t[i].id # id
  BY <1>1, <1>2
<1>6. CachedIds' = CachedIds
  BY DEF CachedIds
<1> QED BY <1>1, <1>4, <1>5, <1>6

\* The server serves a command.
LEMMA ServeStep ==
    ASSUME MyInv, Aware, Serve
    PROVE  MyInv'
<1>1. AppType /\ WireType /\ StoreType /\ PreparesFit
  BY DEF MyInv
<1>2. next_id \in Nat /\ net \in Seq(Commands) /\ replies \in Seq(Packets)
  BY <1>1, MySqlAssumption DEF StoreType, Ids, WireType
<1> PICK n, t, c, q, r, w : n = net /\ t = Tail(n) /\ c = n[1] /\ q = waiting /\ r = replies /\ w = wbuf
  OBVIOUS
<1>3. /\ n # <<>> /\ net' = t /\ c \in Commands /\ \E x : Served(c, x)
      /\ wbuf' = wbuf /\ waiting' = waiting /\ status' = status /\ depth' = depth /\ cache' = cache /\ call' = call
      /\ handles' = handles /\ begun' = begun /\ fate' = fate /\ parent' = parent /\ acked' = acked /\ erred' = erred
  BY <1>1, <1>2, ServeIs
<1> PICK x : Served(c, x)
  BY <1>3
<1>4. replies' = r \o x /\ x \in Seq(Packets) /\ \A i \in 1..Len(x) : x[i].own = c.own
  BY DEF Served
<1>5. /\ t \in Seq(Commands) /\ Len(n) \in Nat /\ Len(t) = Len(n) - 1 /\ 1 \in 1..Len(n)
      /\ \A i \in 1..Len(t) : t[i] = n[i + 1] /\ i + 1 \in 1..Len(n)
  <2>1. /\ t \in Seq(Commands) /\ Len(n) \in Nat /\ Len(t) = Len(n) - 1 /\ 1 \in 1..Len(n)
        /\ \A i \in 1..Len(n) - 1 : t[i] = n[i + 1]
    BY <1>2, <1>3, SeqParts
  <2> QED BY <2>1
<1>6. /\ replies' \in Seq(Packets) /\ (r # <<>> => replies' # <<>> /\ replies'[1] = r[1])
      /\ (x = <<>> => replies' = r) /\ (r = <<>> => replies' = x)
  BY <1>2, <1>4
<1>7. AppType'
  BY <1>1, <1>3 DEF AppType
<1>8. WireType'
  BY <1>1, <1>3, <1>5, <1>6 DEF WireType
<1>9. c.c = "prepare" => next_id \in Ids /\ c.sql \in Statements
  BY <1>1, <1>5 DEF PreparesFit, PreparesIn
<1>10. StoreType'
  <2>1. next_id' \in Ids \cup {MaxPrepares + 1}
    <3>1. next_id' = next_id \/ (next_id' = next_id + 1 /\ next_id \in Ids)
      BY <1>9 DEF Served
    <3> QED BY <1>1, <3>1, MySqlAssumption DEF StoreType, Ids
  <2>2. prepared' \in [Ids -> Statements \cup {"none"}]
    <3>1. \/ prepared' = prepared
          \/ prepared' = [prepared EXCEPT ![c.id] = "none"]
          \/ prepared' = [prepared EXCEPT ![next_id] = c.sql] /\ c.sql \in Statements
      BY <1>9 DEF Served
    <3> QED BY <1>1, <3>1 DEF StoreType
  <2> QED BY <1>1, <1>3, <2>1, <2>2 DEF StoreType
<1>11. c.c # "prepare" => next_id' = next_id
  BY DEF Served
<1>12. PreparesFit'
  <2>1. PreparesIn(t, next_id')
    BY <1>1, <1>2, <1>3, <1>11, PreparesTail DEF PreparesFit
  <2> QED BY <1>3, <2>1 DEF PreparesFit
<1>13. CASE call = Closed
  BY <1>3, <1>7, <1>8, <1>10, <1>12, <1>13, Shut
<1>14. CASE call # Closed
  <2>1. CacheExact /\ CallFits /\ Side /\ Own /\ (Stage \notin SideStages => Stream)
    BY <1>14, Parts
  <2>2. Stage' = Stage
    BY <1>3 DEF Stage
  <2>3. CacheExact'
    <3> PICK ca, id, p, jd, z : ca = cache /\ id = next_id /\ p = prepared /\ jd = next_id' /\ z = prepared'
      OBVIOUS
    <3>1. CacheOf(ca, w, n, id, p)
      BY <2>1 DEF CacheExact
    <3>2. \/ jd = id /\ z = p
          \/ jd = id /\ n[1].c = "close" /\ z = [p EXCEPT ![n[1].id] = "none"]
          \/ jd = id + 1 /\ id \in Ids /\ \E y \in Statements : z = [p EXCEPT ![id] = y]
      BY <1>9 DEF Served
    <3>3. CacheOf(ca, w, t, jd, z)
      BY ONLY <1>3, <3>1, <3>2, CacheServe, t = Tail(n)
    <3> QED BY <1>3, <3>3 DEF CacheExact
  <2>4. CASE Stage \notin SideStages
    <3>1. StreamOf(q, r, n, w)
      BY <2>1, <2>4 DEF Stream
    <3>2. Counted(n)
      BY ONLY <3>1, StreamParts
    <3>3. c.c \in {"query", "execute", "close"}
      BY <1>5, <3>2 DEF Counted
    <3>4. next_id' = next_id
      BY <1>11, <3>3
    <3>5. Stream'
      <4>1. IF n[1].c = "close" THEN x = <<>> ELSE Reply(n[1], x)
        BY <3>3 DEF Served
      <4>2. StreamOf(q, r \o x, Tail(n), w)
        BY ONLY <1>3, <3>1, <4>1, StreamServe
      <4> QED BY <1>3, <1>4, <4>2 DEF Stream
    <3>6. CallFits'
      <4>1. CachedIds' = CachedIds
        BY <1>3 DEF CachedIds
      <4> QED BY <1>3, <1>6, <2>1, <2>2, <3>4, <4>1 DEF CallFits
    <3>7. Own'
      <4> SUFFICES ASSUME Stage \in OwnStages PROVE Own'
        BY <2>2 DEF Own, OwnAt
      <4>1. OwnPackets(r) /\ OwnCommands(n) /\ OwnCommands(w)
        BY <2>1 DEF Own, OwnAt
      <4>2. OwnCommands(t)
        BY <1>5, <4>1 DEF OwnCommands
      <4>3. OwnPackets(replies')
        <5>1. CASE c.c = "close"
          <6>1. replies' = r
            BY <1>6, <5>1 DEF Served
          <6> QED BY <4>1, <6>1
        <5>2. CASE c.c # "close"
          <6>1. c.own
            BY <1>5, <4>1, <5>2 DEF OwnCommands
          <6>2. OwnPackets(x)
            BY <1>4, <6>1 DEF OwnPackets
          <6> QED BY <1>2, <1>4, <4>1, <6>2, OwnConcat
        <5> QED BY <5>1, <5>2
      <4> QED BY <1>3, <1>6, <2>1, <2>2, <4>1, <4>2, <4>3 DEF Own, OwnAt
    <3>8. Side'
      BY <2>2, <2>4 DEF Side
    <3> QED BY <1>7, <1>8, <1>10, <1>12, <2>3, <3>5, <3>6, <3>7, <3>8 DEF MyInv
  <2>5. CASE Stage \in SideStages
    <3>1. (Stage # "yield" => waiting = (IF call.op \in Runs THEN <<"Result">> ELSE <<>>)) /\ OwnPackets(r)
      BY <2>1, <2>5 DEF Side
    <3>2. CallFits'
      <4>1. call.at # "drain" /\ Stage # "close_once"
        BY <2>5 DEF Stage, SideStages
      <4> QED BY <1>3, <2>1, <2>2, <4>1 DEF CallFits
    <3>3. Own'
      BY <2>2, <2>5 DEF Own, OwnAt, OwnStages, SideStages
    <3>4. ASSUME c.c = "close"
          PROVE  replies' = r /\ next_id' = next_id /\ prepared' = [prepared EXCEPT ![c.id] = "none"] /\ OwnPackets(replies')
      <4>1. x = <<>> /\ next_id' = next_id /\ prepared' = [prepared EXCEPT ![c.id] = "none"]
        BY <3>4 DEF Served
      <4> QED BY <1>6, <3>1, <4>1
    <3>5. ASSUME Quiet(net)
          PROVE  c.c = "close" /\ Quiet(t) /\ Quiet(net)'
      <4>1. c.c = "close" /\ Quiet(t)
        BY <1>5, <3>5 DEF Quiet
      <4> QED BY <1>3, <4>1
    <3>6. ASSUME NEW id, Prepared(id), c.c = "close", NEW jd, jd = id
          PROVE  /\ jd \in Ids /\ jd < next_id' /\ jd \notin CachedIds' /\ prepared'[jd] = call'.sql
                 /\ \A i \in 1..Len(net') : net'[i].c = "close" => net'[i].id # jd
      <4>1. prepared \in [Ids -> Statements \cup {"none"}]
        BY <1>1 DEF StoreType
      <4> QED BY <1>2, <1>3, <3>4, <3>6, <4>1, PreparedKept
    <3>7. SUFFICES Side'
      BY <1>7, <1>8, <1>10, <1>12, <2>2, <2>3, <2>5, <3>2, <3>3 DEF MyInv
    <3>8. CASE Stage = "pong"
      <4>1. call.op = "Ping" /\ Pinging
        BY <2>1, <2>5, <3>8 DEF Side
      <4>2. SUFFICES Pinging' /\ OwnPackets(replies')
        BY <1>3, <2>2, <3>1, <3>8, <4>1 DEF Side
      <4>3. CASE replies = <<>> /\ SentAlone("ping")
        <5>1. \/ c.c = "close" /\ SentAlone("ping")'
              \/ call.at # "flush" /\ Asks(c, "ping") /\ Quiet(t)
          BY <1>2, <1>3, <4>3, AloneServed
        <5>2. CASE c.c = "close" /\ SentAlone("ping")'
          BY <3>4, <4>3, <5>2 DEF Pinging
        <5>3. CASE call.at # "flush" /\ Asks(c, "ping") /\ Quiet(t)
          <6>1. c.c = "ping" /\ c.own
            BY <5>3 DEF Asks
          <6>2. Len(x) = 1 /\ x[1].k = "ok" /\ replies' = x
            BY <1>6, <4>3, <6>1 DEF Served
          <6>3. OwnPackets(x)
            BY <1>4, <6>1 DEF OwnPackets
          <6> QED BY <1>3, <5>3, <6>2, <6>3 DEF Pinging
        <5> QED BY <5>1, <5>2, <5>3
      <4>4. CASE call.at # "flush" /\ Quiet(net) /\ Len(replies) = 1 /\ replies[1].k = "ok"
        <5>1. c.c = "close" /\ Quiet(net)'
          BY <3>5, <4>4
        <5> QED BY <1>3, <3>4, <4>4, <5>1 DEF Pinging
      <4> QED BY <4>1, <4>3, <4>4 DEF Pinging
    <3>9. CASE Stage = "prepare_ok"
      <4>1. call.op \in Prepares /\ Preparing
        BY <2>1, <2>5, <3>9 DEF Side
      <4>2. SUFFICES Preparing' /\ OwnPackets(replies')
        BY <1>3, <2>2, <3>1, <3>9, <4>1 DEF Side
      <4>3. CASE replies = <<>> /\ SentAlone("prepare") /\ next_id \in Ids
        <5>1. \/ c.c = "close" /\ SentAlone("prepare")'
              \/ call.at # "flush" /\ Asks(c, "prepare") /\ Quiet(t)
          BY <1>2, <1>3, <4>3, AloneServed
        <5>2. CASE c.c = "close" /\ SentAlone("prepare")'
          BY <3>4, <4>3, <5>2 DEF Preparing
        <5>3. CASE call.at # "flush" /\ Asks(c, "prepare") /\ Quiet(t)
          <6>1. c.c = "prepare" /\ c.own /\ c.sql = call.sql
            BY <5>3 DEF Asks
          <6>2. replies' = x /\ OwnPackets(x)
            BY <1>4, <1>6, <4>3, <6>1 DEF OwnPackets
          <6>3. CASE Len(x) = 1 /\ x[1].k = "err"
            BY <1>3, <5>3, <6>2, <6>3 DEF Preparing
          <6>4. CASE /\ Len(x) = 3 /\ x[1].k = "prepare_ok" /\ x[2].k = "def" /\ x[3].k = "def"
                     /\ x[1].id = next_id /\ next_id' = next_id + 1 /\ prepared' = [prepared EXCEPT ![next_id] = c.sql]
            <7>1. next_id < next_id'
              BY <1>2, <6>4
            <7>2. next_id \notin CachedIds'
              <8>1. CacheSound(cache, next_id, prepared) /\ cache \in Seq(CacheEntries)
                BY <2>1, CacheParts DEF CacheExact
              <8>2. \A i \in 1..Len(cache) : cache[i].id < next_id /\ cache[i].id \in Nat
                BY <8>1, EntryIds DEF CacheSound
              <8>3. \A i \in 1..Len(cache) : cache[i].id # next_id
                BY <1>2, <8>2
              <8> QED BY <1>3, <8>3 DEF CachedIds, IdsOf
            <7>3. prepared'[next_id] = call.sql
              BY <1>1, <4>3, <6>1, <6>4 DEF StoreType
            <7>4. \A i \in 1..Len(t) : t[i].c = "close" => t[i].id # next_id
              <8>1. AllHarmless(n, cache, next_id)
                BY <2>1, CacheParts DEF CacheExact
              <8>2. \A i \in 1..Len(t) : t[i].c = "close" => t[i].id < next_id
                BY <1>5, <8>1 DEF AllHarmless, Harmless
              <8>3. \A i \in 1..Len(t) : t[i] \in Commands
                BY <1>5, SeqParts
              <8>4. \A m \in Commands : m.id \in Nat
                BY DEF Commands
              <8>5. \A i \in 1..Len(t) : t[i].id \in Nat
                BY <8>3, <8>4
              <8> QED BY <1>2, <8>2, <8>5
            <7>5. Prepared(replies[1].id)'
              BY <1>3, <4>3, <6>2, <6>4, <7>1, <7>2, <7>3, <7>4 DEF Prepared
            <7> QED BY <1>3, <5>3, <6>2, <6>4, <7>5 DEF Preparing
          <6> QED BY <6>1, <6>3, <6>4 DEF Served
        <5> QED BY <5>1, <5>2, <5>3
      <4>4. CASE call.at # "flush" /\ Quiet(net) /\ Len(replies) = 1 /\ replies[1].k = "err"
        <5>1. c.c = "close" /\ Quiet(net)'
          BY <3>5, <4>4
        <5> QED BY <1>3, <3>4, <4>4, <5>1 DEF Preparing
      <4>5. CASE /\ call.at # "flush" /\ Quiet(net) /\ Len(replies) = 3
                 /\ replies[1].k = "prepare_ok" /\ replies[2].k = "def" /\ replies[3].k = "def"
                 /\ Prepared(replies[1].id)
        <5>1. c.c = "close" /\ Quiet(net)'
          BY <3>5, <4>5
        <5>2. replies' = replies /\ OwnPackets(replies')
          BY <3>4, <5>1
        <5>3. replies'[1].id = replies[1].id
          BY <5>2
        <5>4. Prepared(replies[1].id)'
          BY <3>6, <4>5, <5>1, <5>3 DEF Prepared
        <5> QED BY <1>3, <4>5, <5>1, <5>2, <5>4 DEF Preparing
      <4> QED BY <4>1, <4>3, <4>4, <4>5 DEF Preparing
    <3>10. CASE Stage = "defs"
      <4>1. /\ call.op \in Prepares /\ call.at # "flush" /\ Quiet(net) /\ call.n \in {1, 2} /\ Defined(call.n) /\ Prepared(call.id)
        BY <2>1, <2>5, <3>10 DEF Side
      <4>2. c.c = "close" /\ Quiet(net)'
        BY <3>5, <4>1
      <4>3. replies' = replies /\ OwnPackets(replies')
        BY <3>4, <4>2
      <4>4. call'.id = call.id
        BY <1>3
      <4>5. Prepared(call.id)'
        BY <3>6, <4>1, <4>2, <4>4 DEF Prepared
      <4>6. Defined(call.n)'
        BY <1>3, <4>1, <4>3 DEF Defined
      <4> QED BY <1>3, <2>2, <3>1, <3>10, <4>1, <4>2, <4>3, <4>5, <4>6 DEF Side
    <3>11. CASE Stage = "execute"
      <4>1. call.op \in Runs /\ Quiet(net) /\ Quiet(wbuf) /\ replies = <<>>
        BY <2>1, <2>5, <3>11 DEF Side
      <4>2. c.c = "close" /\ Quiet(net)'
        BY <3>5, <4>1
      <4>3. replies' = replies /\ OwnPackets(replies') /\ Quiet(wbuf)'
        BY <1>3, <3>4, <4>1, <4>2
      <4> QED BY <1>3, <2>2, <3>1, <3>11, <4>1, <4>2, <4>3 DEF Side
    <3>12. CASE Stage = "yield"
      <4> PICK d : d = Due
        OBVIOUS
      <4>1. call.at = "yield" /\ call.op # "Begin" /\ Len(waiting) = 1 /\ OwnCommands(n) /\ StreamOf(d, r, n, w)
        BY <2>1, <2>5, <3>12 DEF Side, Yielded
      <4>2. Counted(n)
        BY ONLY <4>1, StreamParts
      <4>3. c.c \in {"query", "execute", "close"}
        BY <1>5, <4>2 DEF Counted
      <4>4. IF n[1].c = "close" THEN x = <<>> ELSE Reply(n[1], x)
        BY <4>3 DEF Served
      <4>5. StreamOf(d, r \o x, Tail(n), w)
        BY ONLY <1>3, <4>1, <4>4, StreamServe
      <4>6. OwnCommands(t)
        BY <1>5, <4>1 DEF OwnCommands
      <4>7. OwnPackets(replies')
        <5>1. CASE c.c = "close"
          BY <3>4, <5>1
        <5>2. CASE c.c # "close"
          <6>1. c.own
            BY <1>5, <4>1, <5>2 DEF OwnCommands
          <6>2. OwnPackets(x)
            BY <1>4, <6>1 DEF OwnPackets
          <6> QED BY <1>2, <1>4, <3>1, <6>2, OwnConcat
        <5> QED BY <5>1, <5>2
      <4>8. Due' = d
        BY <1>3 DEF Due
      <4>9. Yielded'
        BY <1>3, <1>4, <4>1, <4>5, <4>6, <4>8 DEF Yielded
      <4> QED BY <2>2, <3>12, <4>7, <4>9 DEF Side
    <3> QED BY <2>5, <3>8, <3>9, <3>10, <3>11, <3>12 DEF SideStages
  <2> QED BY <2>4, <2>5
<1> QED BY <1>13, <1>14


-----------------------------------------------------------------------------
(* The theorems.                                                           *)

\* The invariant holds initially.
LEMMA InitHolds ==
    ASSUME Init
    PROVE  MyInv
<1>1. /\ wbuf = <<>> /\ waiting = <<>> /\ status = FALSE /\ depth = 0 /\ cache = <<>> /\ net = <<>> /\ replies = <<>>
      /\ prepared = [i \in Ids |-> "none"] /\ next_id = 1 /\ call = NoCall /\ handles = <<>> /\ begun = 0
      /\ fate = [i \in Tx |-> "new"] /\ parent = [i \in Tx |-> Outside] /\ acked = {} /\ erred = {}
  BY DEF Init
<1>2. AppType
  <2>1. status \in BOOLEAN /\ depth \in Nat /\ handles \in Seq(Tx) /\ begun \in 0..MaxTx
    <3>1. 0 \in 0..MaxTx
      BY MySqlAssumption
    <3>2. begun \in 0..MaxTx
      BY <1>1, <3>1
    <3>3. status \in BOOLEAN /\ depth \in Nat
      BY <1>1
    <3>4. handles \in Seq(Tx)
      BY <1>1
    <3> QED BY <3>2, <3>3, <3>4
  <2>2. fate \in [Tx -> {"new", "open", "committed", "aborted", "unknown"}] /\ parent \in [Tx -> Tx \cup {Outside}]
    BY <1>1
  <2>3. acked \subseteq Tx \cup {Outside} /\ erred \subseteq Tx
    BY <1>1
  <2> QED BY <2>1, <2>2, <2>3 DEF AppType
<1>3. WireType
  BY <1>1, NoCalls DEF WireType
<1>4. StoreType
  BY <1>1, MySqlAssumption DEF StoreType, Ids
<1>5. PreparesFit
  BY <1>1 DEF PreparesFit, PreparesIn
<1>6. CacheExact
  <2>1. cache \in Seq(CacheEntries) /\ wbuf \in Seq(Commands) /\ net \in Seq(Commands) /\ next_id \in Nat
    BY <1>1
  <2>2. CacheSound(cache, next_id, prepared) /\ AllHarmless(wbuf, cache, next_id) /\ AllHarmless(net, cache, next_id)
    BY <1>1 DEF CacheSound, AllHarmless
  <2>3. prepared \in [Ids -> Statements \cup {"none"}]
    BY <1>4 DEF StoreType
  <2> QED BY <2>1, <2>2, <2>3 DEF CacheExact, CacheOf
<1>7. Stream
  <2>1. net \in Seq(Commands) /\ wbuf \in Seq(Commands) /\ Quiet(net) /\ Quiet(wbuf)
    BY <1>1 DEF Quiet
  <2>2. StreamOf(<<>>, <<>>, net, wbuf)
    BY <2>1, StreamNone
  <2> QED BY <1>1, <2>2 DEF Stream
<1>8. Stage = "none"
  BY <1>1, NoCalls DEF Stage
<1>9. CallFits
  BY <1>1, <1>8, NoCalls DEF CallFits, Prepares, SideStages, OwnStages
<1>10. Side /\ Own
  BY <1>8 DEF Side, Own, OwnAt, SideStages, OwnStages
<1> QED BY <1>2, <1>3, <1>4, <1>5, <1>6, <1>7, <1>9, <1>10 DEF MyInv

\* Every step keeps it.
LEMMA StepKeeps ==
    ASSUME MyInv, Aware, [Next]_vars
    PROVE  MyInv'
<1>1. CASE UNCHANGED vars
  <2>1. /\ wbuf' = wbuf /\ waiting' = waiting /\ status' = status /\ depth' = depth /\ cache' = cache /\ net' = net
        /\ replies' = replies /\ prepared' = prepared /\ next_id' = next_id /\ call' = call /\ handles' = handles
        /\ begun' = begun /\ fate' = fate /\ parent' = parent /\ acked' = acked /\ erred' = erred
    BY <1>1 DEF vars, inner, server, app
  <2>2. AppType' = AppType /\ WireType' = WireType /\ StoreType' = StoreType /\ PreparesFit' = PreparesFit
    BY <2>1 DEF AppType, WireType, StoreType, PreparesFit
  <2>3. CacheExact' = CacheExact /\ Stream' = Stream /\ Stage' = Stage /\ CachedIds' = CachedIds
    BY <2>1 DEF CacheExact, Stream, Stage, CachedIds
  <2>4. CallFits' = CallFits
    BY <2>1, <2>3 DEF CallFits
  <2>5. Own' = Own
    BY <2>1, <2>3 DEF Own, OwnAt
  <2>6. \A k : SentAlone(k)' = SentAlone(k)
    BY <2>1 DEF SentAlone, Asks
  <2>7. \A i : Prepared(i)' = Prepared(i)
    BY <2>1, <2>3 DEF Prepared
  <2>8. Pinging' = Pinging /\ Preparing' = Preparing /\ \A i : Defined(i)' = Defined(i)
    BY <2>1, <2>6, <2>7 DEF Pinging, Preparing, Defined
  <2>9. Side' = Side
    <3>1. Due' = Due
      BY <2>1 DEF Due
    <3>2. Yielded' = Yielded
      BY <2>1, <3>1 DEF Yielded
    <3> QED BY <2>1, <2>3, <2>7, <2>8, <3>2 DEF Side
  <2> QED BY <2>1, <2>2, <2>3, <2>4, <2>5, <2>9 DEF MyInv
<1>2. CASE ClientStep
  <2>1. CASE Flush              BY <2>1, FlushStep
  <2>2. CASE QueryReady         BY <2>2, QueryStep
  <2>3. CASE PingReady          BY <2>3, PingStep
  <2>4. CASE PrepareReady       BY <2>4, PrepareStep
  <2>5. CASE SendExecute        BY <2>5, ExecuteStep
  <2>6. CASE SendClose          BY <2>6, SendCloseStep
  <2>7. CASE SendDone           BY <2>7, SendDoneStep
  <2>8. CASE ClearStep          BY <2>8, ClearStepStep
  <2>9. CASE ReceiveErr         BY <2>9, ReceiveErrStep
  <2>10. CASE DrainRow          BY <2>10, DrainRowStep
  <2>11. CASE DrainResult       BY <2>11, DrainResultStep
  <2>12. CASE DrainSkip         BY <2>12, DrainSkipStep
  <2>13. CASE ReceivePong       BY <2>13, ReceivePongStep
  <2>14. CASE ReceivePrepareOk  BY <2>14, ReceivePrepareOkStep
  <2>15. CASE ReceiveDef        BY <2>15, ReceiveDefStep
  <2>16. CASE ReceiveLastDef    BY <2>16, ReceiveLastDefStep
  <2>17. CASE ReceiveFirst      BY <2>17, ReceiveFirstStep
  <2>18. CASE ReceiveMeta       BY <2>18, ReceiveMetaStep
  <2>19. CASE ReceiveRow        BY <2>19, ReceiveRowStep
  <2>20. CASE ReceiveOnlyRow    BY <2>20, ReceiveOnlyRowStep
  <2>21. CASE Resume            BY <2>21, ResumeStep
  <2> QED BY <1>2, <2>1, <2>2, <2>3, <2>4, <2>5, <2>6, <2>7, <2>8, <2>9, <2>10, <2>11, <2>12, <2>13, <2>14, <2>15,
             <2>16, <2>17, <2>18, <2>19, <2>20, <2>21 DEF ClientStep
<1>3. CASE Serve
  BY <1>3, ServeStep
<1>4. CASE Disconnect
  BY <1>4, DisconnectStep
<1>5. CASE Cancel
  BY <1>5, CancelStep
<1>6. CASE \E op \in Calls \cap {"Begin", "Execute", "Fetch", "Ping"} : Start(op, "none")
  <2> PICK op \in Calls \cap {"Begin", "Execute", "Fetch", "Ping"} : Start(op, "none")
    BY <1>6
  <2> PICK y : y = "none"
    OBVIOUS
  <2> QED BY StartStep
<1>7. CASE \E op \in Calls \cap {"Run", "RunOnce", "Prepare", "Describe"}, s \in Statements : Start(op, s)
  <2> PICK op \in Calls \cap {"Run", "RunOnce", "Prepare", "Describe"}, y \in Statements : Start(op, y)
    BY <1>7
  <2> QED BY StartStep
<1>8. CASE StartEnd("Commit", "committed") \/ StartEnd("Rollback", "aborted")
  BY <1>8, StartEndStep
<1>9. CASE StartClear
  BY <1>9, ClearStarts
<1>10. CASE DropTransaction
  BY <1>10, DropStep
<1>11. CASE Close
  BY <1>11, CloseStep
<1> QED BY <1>1, <1>2, <1>3, <1>4, <1>5, <1>6, <1>7, <1>8, <1>9, <1>10, <1>11 DEF Next

\* The deque describes what is to come, and the cache what is prepared.
LEMMA InSync ==
    ASSUME MyInv
    PROVE  ProtocolInSync
<1>1. AppType /\ WireType /\ StoreType
  BY DEF MyInv
<1>2. TypeOK
  <2>1. cache \in Seq(CacheEntries)
    BY <1>1 DEF StoreType
  <2>2. DOMAIN cache = 1..Len(cache) /\ \A i \in DOMAIN cache : cache[i] \in CacheEntries
    BY <2>1, SeqParts
  <2>3. \A e \in CacheEntries : e.sql \in Statements /\ e.id \in Ids
    BY DEF CacheEntries
  <2> QED BY <1>1, <2>2, <2>3 DEF TypeOK, AppType, WireType, StoreType
<1>3. WaitingExact
  <2> SUFFICES ASSUME call = NoCall PROVE WaitingExact
    BY DEF WaitingExact
  <2>1. Stage = "none" /\ call # Closed
    BY NoCalls DEF Stage
  <2> PICK q, r, n, w : q = waiting /\ r = replies /\ n = net /\ w = wbuf
    OBVIOUS
  <2>2. StreamOf(q, r, n, w) /\ r \in Seq(Packets)
    BY <1>1, <2>1, Parts DEF SideStages, Stream, WireType
  <2>3. Len(q) = Cardinality(Ends(r)) + Cardinality(Answered(n)) + Cardinality(Answered(w))
    BY ONLY <2>2, StreamParts
  <2>4. ASSUME r # <<>>
        PROVE  /\ Head(r).k \in {"ok", "cols"} => q[1] = "Result"
               /\ Head(r).k \in {"def", "row", "eof"} => q[1] = "Row"
    <3>1. Head(r) = r[1]
      BY <2>2, <2>4, SeqParts
    <3>2. CASE r[1].k = "err"
      BY <3>1, <3>2
    <3>3. CASE r[1].k # "err"
      <4>1. /\ q[1] \in {"Result", "Row"}
            /\ q[1] = "Row" => r[1].k \in {"def", "row", "eof"}
            /\ q[1] = "Result" => r[1].k \in {"ok", "cols"}
        BY ONLY <2>2, <2>4, <3>3, NextPacket
      <4> QED BY <3>1, <4>1
    <3> QED BY <3>2, <3>3
  <2> QED BY <2>3, <2>4 DEF WaitingExact
<1>4. CachedIsPrepared
  <2> SUFFICES ASSUME call # Closed PROVE CachedIsPrepared
    BY DEF CachedIsPrepared
  <2>1. CacheSound(cache, next_id, prepared) /\ cache \in Seq(CacheEntries)
    BY Parts, CacheParts DEF CacheExact
  <2>2. DOMAIN cache = 1..Len(cache)
    BY <2>1, SeqParts
  <2> QED BY <2>1, <2>2 DEF CachedIsPrepared, CacheSound
<1> QED BY <1>2, <1>3, <1>4 DEF ProtocolInSync

\* A call that reads at an own stage has its answer before it, or on the way.
LEMMA Arrives ==
    ASSUME MyInv
    PROVE  AnswersArrive
<1> PICK q, r, n, w : q = waiting /\ r = replies /\ n = net /\ w = wbuf
  OBVIOUS
<1>1. WireType /\ r \in Seq(Packets) /\ n \in Seq(Commands)
  BY DEF MyInv, WireType
<1>2. ASSUME call.at = "none"
      PROVE  AnswersArrive
  BY <1>2 DEF AnswersArrive, AnswerIsOwn, NeverStarves, Reading, Drains
<1>3. ASSUME call.at \in Reading \/ Drains
      PROVE  /\ Stage = call.at /\ call # Closed /\ w = <<>> /\ CallFits /\ Side /\ Own
             /\ (call.at \notin SideStages => StreamOf(q, r, n, w))
  <2>1. Stage = call.at /\ call # Closed /\ (call.at = "drain" => w = <<>>)
    BY <1>3, NoCalls DEF Stage, Reading, Drains
  <2>2. CallFits /\ Side /\ Own /\ (call.at \notin SideStages => StreamOf(q, r, n, w))
    BY <2>1, Parts DEF Stream
  <2>3. w = <<>>
    BY <1>3, <2>1, <2>2 DEF CallFits, Reading, Drains, SideStages, OwnStages
  <2> QED BY <2>1, <2>2, <2>3
<1>4. AnswerIsOwn
  <2> SUFFICES ASSUME call.at \in Reading, r # <<>>
               PROVE  r[1].own /\ r[1].k \in Fits[call.at] \cup {"err"}
    <3>1. r # <<>> => Head(r) = r[1]
      BY <1>1, SeqParts
    <3> QED BY <3>1 DEF AnswerIsOwn
  <2>1. /\ Stage = call.at /\ call.at # "flush" /\ CallFits /\ Side /\ Own /\ (call.at \notin SideStages => StreamOf(q, r, n, w))
    BY <1>3 DEF Reading
  <2>2. 1 \in 1..Len(r)
    BY <1>1, SeqParts
  <2>3. CASE call.at = "pong"
    <3>1. OwnPackets(r) /\ Pinging
      BY <2>1, <2>3 DEF Side, SideStages
    <3>2. r[1].k = "ok"
      BY <3>1 DEF Pinging
    <3> QED BY <2>2, <2>3, <3>1, <3>2 DEF OwnPackets, Fits
  <2>4. CASE call.at = "prepare_ok"
    <3>1. OwnPackets(r) /\ Preparing
      BY <2>1, <2>4 DEF Side, SideStages
    <3>2. r[1].k \in {"prepare_ok", "err"}
      BY <3>1 DEF Preparing
    <3> QED BY <2>2, <2>4, <3>1, <3>2 DEF OwnPackets, Fits
  <2>5. CASE call.at = "defs"
    <3>1. OwnPackets(r) /\ Defined(call.n)
      BY <2>1, <2>5 DEF Side, SideStages
    <3>2. r[1].k = "def"
      BY <2>2, <3>1 DEF Defined
    <3> QED BY <2>2, <2>5, <3>1, <3>2 DEF OwnPackets, Fits
  <2>6. CASE call.at \in {"first", "meta", "rows"}
    <3>1. /\ OwnPackets(r) /\ StreamOf(q, r, n, w)
          /\ call.at = "first" => q[1] = "Result"
          /\ call.at = "meta" => r[1].k = "def"
          /\ call.at = "rows" => r[1].k \in Rest
      BY <2>1, <2>6 DEF Own, OwnAt, OwnStages, SideStages
    <3>2. r[1].own
      BY <2>2, <3>1 DEF OwnPackets
    <3>3. CASE r[1].k = "err"
      BY <3>2, <3>3
    <3>4. CASE r[1].k # "err"
      <4>1. q[1] = "Result" => r[1].k \in {"ok", "cols"}
        BY ONLY <3>1, <3>4, r # <<>>, NextPacket
      <4>2. CASE call.at = "first"
        BY <3>1, <3>2, <4>1, <4>2 DEF Fits
      <4>3. CASE call.at = "meta"
        BY <3>1, <3>2, <4>3 DEF Fits
      <4>4. CASE call.at = "rows"
        BY <3>1, <3>2, <4>4 DEF Fits, Rest
      <4> QED BY <2>6, <4>2, <4>3, <4>4
    <3> QED BY <3>3, <3>4
  <2> QED BY <2>3, <2>4, <2>5, <2>6 DEF Reading
<1>5. NeverStarves
  <2> SUFFICES ASSUME call.at \in Reading \/ Drains, r = <<>>, n = <<>>
               PROVE  FALSE
    BY DEF NeverStarves
  <2>1. /\ Stage = call.at /\ call.at # "flush" /\ w = <<>> /\ Side /\ Own
        /\ (call.at \notin SideStages => StreamOf(q, r, n, w))
    BY <1>3 DEF Reading, Drains
  <2>2. Len(r) = 0 /\ Len(n) = 0 /\ Len(w) = 0
    BY <2>1
  <2>3. CASE call.at \in SideStages
    <3>1. \/ call.at = "pong" /\ Pinging
          \/ call.at = "prepare_ok" /\ Preparing
          \/ call.at = "defs" /\ call.n \in {1, 2} /\ Defined(call.n)
      BY <2>1, <2>3 DEF Side, SideStages, Reading, Drains
    <3>2. ~SentAlone("ping") /\ ~SentAlone("prepare")
      BY <2>1, <2>2 DEF SentAlone
    <3> QED BY <2>2, <3>1, <3>2 DEF Pinging, Preparing, Defined
  <2>4. CASE call.at \notin SideStages
    <3>1. StreamOf(q, r, n, w)
      BY <2>1, <2>4
    <3>2. q # <<>>
      <4>1. CASE Drains
        BY <4>1 DEF Drains
      <4>2. CASE call.at \in Reading
        <5>1. call.at \in OwnStages
          BY <2>4, <4>2 DEF Reading, SideStages, OwnStages
        <5>2. Len(q) = 1
          BY <2>1, <5>1 DEF Own, OwnAt
        <5> QED BY <5>2
      <4> QED BY <4>1, <4>2
    <3>3. q \in Seq({"Result", "Row"}) /\ Len(q) = Cardinality(Ends(r)) + Cardinality(Answered(n)) + Cardinality(Answered(w))
      BY ONLY <3>1, StreamParts
    <3>4. Ends(r) = {} /\ Answered(n) = {} /\ Answered(w) = {}
      BY <2>1 DEF Ends, Answered
    <3>5. Len(q) = 0
      <4>1. Cardinality({}) = 0
        BY FS_EmptySet
      <4>2. Cardinality(Ends(r)) = 0 /\ Cardinality(Answered(n)) = 0 /\ Cardinality(Answered(w)) = 0
        BY ONLY <3>4, <4>1
      <4> QED BY ONLY <3>3, <4>2
    <3> QED BY <3>2, <3>3, <3>5, SeqParts
  <2> QED BY <2>3, <2>4
<1> QED BY <1>4, <1>5 DEF AnswersArrive

\* With a server that leaves out the EOF after column definitions, and an application that drops a connection
\* when it cancels a COM_STMT_PREPARE or a COM_PING on it or drops a fetch_many() stream that has just yielded
\* the end of a result (run() yields it before it touches `waiting'), `waiting' describes what is unread between
\* the calls whatever else was cancelled, dropped or refused: wait_until_ready() reads exactly the responses of abandoned
\* calls, and a statement get_or_prepare_statement() finds in the cache exists on the server under its id.
THEOREM WaitingStaysExact ==
    ASSUME Aware
    PROVE  Spec => []ProtocolInSync
<1>1. Init => MyInv
  BY InitHolds
<1>2. MyInv /\ [Next]_vars => MyInv'
  BY StepKeeps
<1>3. MyInv => ProtocolInSync
  BY InSync
<1> QED BY <1>1, <1>2, <1>3, PTL DEF Spec

\* Under the same conditions every packet that run(), prepare_statement() and ping() read belongs to the command
\* they have sent and is of the kind they take it for, and a read always has a packet or a command before it.
THEOREM AnswersAreOwn ==
    ASSUME Aware
    PROVE  Spec => []AnswersArrive
<1>1. Init => MyInv
  BY InitHolds
<1>2. MyInv /\ [Next]_vars => MyInv'
  BY StepKeeps
<1>3. MyInv => AnswersArrive
  BY Arrives
<1> QED BY <1>1, <1>2, <1>3, PTL DEF Spec
=============================================================================
