------------------------- MODULE PgConnectionProofs -------------------------
(***************************************************************************)
(* The protocol of a PostgreSQL connection, for any statements, cache      *)
(* capacity, calls, refusals and cancellations.                            *)
(***************************************************************************)
EXTENDS PgConnection, FiniteSetTheorems, SequenceTheorems, TLAPS

-----------------------------------------------------------------------------
(* The inductive invariant.                                                *)

UnitKinds == {"query", "sync", "parse", "bind", "close"}

Units ==
    [u : UnitKinds, q : [verb : Verbs \cup {"WRITE"}, name : Nat], id : Nat,
     sql : Statements \cup {"none"}, ids : Seq(Nat), own : BOOLEAN]

Statuses == {"idle", "transaction", "error"}

Kinds ==
    {"ParseComplete", "ParameterDescription", "RowDescription", "BindComplete", "DataRow",
     "CommandComplete", "CloseComplete", "ReadyForQuery", "ErrorResponse"}

Messages == [k : Kinds, u : UnitKinds, st : Statuses \cup {"none"}, own : BOOLEAN]

\* The stages in which a call reads answers to the unit it has sent.
ParseStages == {"parse", "params", "rows", "parsed"}
Stages == ParseStages \cup {"closing", "closed", "stream"}

CallRecords ==
    [op : AllCalls \cup {"none", "closed"}, at : Stages \cup {"none", "drain", "flush"},
     then : Stages \cup {"none"}, sql : Statements \cup {"none"}, n : Nat]

CacheEntries == [sql : Statements, id : Ids]

\* TypeOK, with the types of what is in flight.
PgType ==
    /\ TypeOK
    /\ wbuf \in Seq(Units) /\ net \in Seq(Units)
    /\ replies \in Seq(Messages)
    /\ \A i \in 1..Len(replies) : replies[i].k = "ReadyForQuery" => replies[i].st \in Statuses
    /\ call \in CallRecords
    /\ begun \in 0..MaxTx
    /\ cache \in Seq(CacheEntries)

\* The answer to a unit ends in ReadyForQuery, which carries the state of the session.
LastIsReady ==
    IF replies = <<>> THEN status = TransactionStatus(session)
    ELSE LET m == replies[Len(replies)]
         IN  m.k = "ReadyForQuery" /\ m.st = TransactionStatus(session)

CachedIds == {cache[i].id : i \in 1..Len(cache)}

\* No unit in flight prepares or closes a statement that is cached.
Harmless(m) ==
    /\ m.u = "parse" => m.id \in 1..(next_id - 1) /\ m.id \notin CachedIds /\ m.ids = <<>>
    /\ \A j \in 1..Len(m.ids) : m.ids[j] \notin CachedIds

\* The cached statements have ids of their own and are prepared.
CacheSound ==
    /\ \A i \in 1..Len(cache) : cache[i].id < next_id /\ prepared[cache[i].id] = cache[i].sql
    /\ \A i, j \in 1..Len(cache) : cache[i].id = cache[j].id => i = j

CacheExact ==
    /\ CacheSound
    /\ \A i \in 1..Len(wbuf) : Harmless(wbuf[i])
    /\ \A i \in 1..Len(net) : Harmless(net[i])

UnitAt(stage) ==
    CASE stage \in ParseStages           -> "parse"
      [] stage \in {"closing", "closed"} -> "close"
      [] OTHER                           -> IF call.op = "Run" THEN "bind" ELSE "query"

\* How many CloseComplete the call still waits for.
Closings == IF call.op = "ClearCache" THEN call.n ELSE 1

\* The unit the call has sent to enter a stage.
Sent(m, stage) ==
    /\ stage \in {"parse", "closing", "stream"}
    /\ m.own /\ m.u = UnitAt(stage)
    /\ stage = "parse" => m.id = call.n /\ m.sql = call.sql
    /\ stage = "closing" => Len(m.ids) = Closings

\* What is left of the answer, in the stage it is read in.
Shape ==
    \/ /\ Head(replies).k = "ErrorResponse" /\ Len(replies) = 2
       /\ call.at \in {"parse", "closing", "stream"}
    \/ call.at = "stream"
    \/ /\ call.at = "parse" /\ Len(replies) = 4
       /\ replies[1].k = "ParseComplete" /\ replies[2].k = "ParameterDescription"
       /\ replies[3].k = "RowDescription" /\ prepared[call.n] = call.sql
    \/ /\ call.at = "params" /\ Len(replies) = 3
       /\ replies[1].k = "ParameterDescription"
       /\ replies[2].k = "RowDescription" /\ prepared[call.n] = call.sql
    \/ /\ call.at = "rows" /\ Len(replies) = 2
       /\ replies[1].k = "RowDescription" /\ prepared[call.n] = call.sql
    \/ call.at = "parsed" /\ Len(replies) = 1 /\ prepared[call.n] = call.sql
    \/ /\ call.at = "closing" /\ Len(replies) = Closings + 1
       /\ \A i \in 1..Closings : replies[i].k = "CloseComplete"
    \/ call.at = "closed" /\ Len(replies) = 1

Answered ==
    /\ replies # <<>>
    /\ \A i \in 1..Len(replies) : replies[i].own /\ replies[i].u = UnitAt(call.at)
    /\ \A i \in 1..(Len(replies) - 1) : replies[i].k # "ReadyForQuery"
    /\ Shape

\* Once a call has drained the connection, its own unit is the only one in flight.
Alone ==
    /\ call.at = "flush" =>
         /\ Len(wbuf) = 1 /\ net = <<>> /\ replies = <<>>
         /\ Sent(wbuf[1], call.then)
    /\ call.at \in Stages =>
         /\ wbuf = <<>> /\ pending = 1
         /\ \/ Len(net) = 1 /\ replies = <<>> /\ Sent(net[1], call.at)
            \/ net = <<>> /\ Answered

\* What a call knows of itself.
CallExact ==
    /\ call.at = "none" => call \in {NoCall, Closed}
    /\ call.at # "none" => call.op \in AllCalls
    /\ call.op \in {"Run", "Prepare"} => call.sql \in Statements
    /\ call.op \in {"Run", "Prepare"} /\ call.at = "drain" => next_id \in Ids
    /\ call.op \in {"Commit", "Rollback"} => depth > 0 /\ handles # <<>>
    /\ call.op = "Begin" => begun < MaxTx /\ call.at = "drain"
    /\ call.at \in ParseStages \/ (call.at = "flush" /\ call.then = "parse") =>
         /\ call.op \in {"Run", "Prepare"}
         /\ call.n \in Ids /\ call.n < next_id /\ call.n \notin CachedIds
    /\ call.at \in {"closing", "closed"} \/ (call.at = "flush" /\ call.then = "closing") =>
         /\ call.op \in {"Run", "Prepare", "ClearCache"}
         /\ call.op = "ClearCache" => call.n > 0

PgInv ==
    /\ PgType
    /\ call # Closed => PendingExact /\ LastIsReady /\ CacheExact /\ CallExact /\ Alone

-----------------------------------------------------------------------------
(* Counting ReadyForQuery.                                                 *)

ReadyIn(s) == {i \in 1..Len(s) : s[i].k = "ReadyForQuery"}
Readies(s) == Cardinality(ReadyIn(s))

\* The count is a number.
LEMMA ReadiesType ==
    ASSUME NEW s \in Seq(Messages)
    PROVE  IsFiniteSet(ReadyIn(s)) /\ Readies(s) \in Nat
<1>1. IsFiniteSet(1..Len(s)) /\ ReadyIn(s) \subseteq 1..Len(s)
  BY FS_Interval DEF ReadyIn
<1> QED BY <1>1, FS_Subset, FS_CardinalityType DEF Readies

\* PendingExact counts the same messages.
LEMMA ReadyRepliesAre ==
    ASSUME replies \in Seq(Messages)
    PROVE  Cardinality(ReadyReplies) = Readies(replies)
<1>1. DOMAIN replies = 1..Len(replies)
  OBVIOUS
<1> QED BY <1>1 DEF ReadyReplies, Readies, ReadyIn

Shifted(S, T, k) ==
    /\ S \subseteq Int /\ T \subseteq Int /\ k \in Int
    /\ \A i \in S : i + k \in T
    /\ \A j \in T : j - k \in S

\* Shifting a set of positions does not change its size.
LEMMA ShiftedCardinality ==
    ASSUME NEW S, NEW T, NEW k, Shifted(S, T, k), IsFiniteSet(S)
    PROVE  IsFiniteSet(T) /\ Cardinality(T) = Cardinality(S)
<1> DEFINE f == [i \in S |-> i + k]
<1> USE DEF Shifted
<1>1. f \in [S -> T]
  OBVIOUS
<1>2. \A i, j \in S : f[i] = f[j] => i = j
  OBVIOUS
<1>3. \A j \in T : \E i \in S : f[i] = j
  <2> TAKE j \in T
  <2>1. j - k \in S /\ f[j - k] = j
    OBVIOUS
  <2> QED BY <2>1
<1>4. f \in Bijection(S, T)
  BY <1>1, <1>2, <1>3 DEF Bijection, Injection, Surjection, IsInjective
<1> QED BY <1>4, FS_Bijection DEF ExistsBijection

\* Reading a message.
LEMMA ReadiesTail ==
    ASSUME NEW s \in Seq(Messages), s # <<>>
    PROVE  Readies(Tail(s)) = Readies(s) - (IF Head(s).k = "ReadyForQuery" THEN 1 ELSE 0)
<1>1. /\ Tail(s) \in Seq(Messages) /\ Len(Tail(s)) = Len(s) - 1 /\ Len(s) \in Nat \ {0}
      /\ Head(s) = s[1]
      /\ \A i \in 1..Len(Tail(s)) : Tail(s)[i] = s[i + 1]
  OBVIOUS
<1>2. PICK A, B : A = ReadyIn(s) \ {1} /\ B = ReadyIn(Tail(s))
  OBVIOUS
<1>3. IsFiniteSet(ReadyIn(s)) /\ IsFiniteSet(B)
  BY <1>1, <1>2, ReadiesType
<1>4. Shifted(B, A, 1)
  <2>1. \A i \in B : i + 1 \in A
    BY <1>1, <1>2 DEF ReadyIn
  <2>2. \A j \in A : j - 1 \in B
    BY <1>1, <1>2 DEF ReadyIn
  <2>3. A \subseteq Int /\ B \subseteq Int
    BY <1>2 DEF ReadyIn
  <2> QED BY <2>1, <2>2, <2>3 DEF Shifted
<1>5. Cardinality(A) = Cardinality(B)
  BY <1>3, <1>4, ShiftedCardinality
<1>6. Cardinality(A) = IF 1 \in ReadyIn(s) THEN Readies(s) - 1 ELSE Readies(s)
  BY <1>2, <1>3, FS_RemoveElement DEF Readies
<1>7. 1 \in ReadyIn(s) <=> Head(s).k = "ReadyForQuery"
  BY <1>1 DEF ReadyIn
<1>8. Readies(s) \in Nat
  BY ReadiesType
<1> QED BY <1>2, <1>5, <1>6, <1>7, <1>8 DEF Readies

\* An answer arrives.
LEMMA ReadiesConcat ==
    ASSUME NEW s \in Seq(Messages), NEW t \in Seq(Messages)
    PROVE  Readies(s \o t) = Readies(s) + Readies(t)
<1>1. /\ s \o t \in Seq(Messages) /\ Len(s \o t) = Len(s) + Len(t)
      /\ \A i \in 1..Len(s) + Len(t) : (s \o t)[i] = IF i <= Len(s) THEN s[i] ELSE t[i - Len(s)]
      /\ Len(s) \in Nat /\ Len(t) \in Nat
  BY ConcatProperties
<1>2. PICK B, C : B = {i \in ReadyIn(s \o t) : i > Len(s)} /\ C = ReadyIn(s \o t)
  OBVIOUS
<1>3. IsFiniteSet(ReadyIn(s)) /\ IsFiniteSet(ReadyIn(t)) /\ IsFiniteSet(C)
  BY <1>1, <1>2, ReadiesType
<1>4. C = ReadyIn(s) \cup B
  <2>1. ReadyIn(s) = {i \in C : i <= Len(s)}
    BY <1>1, <1>2 DEF ReadyIn
  <2> QED BY <1>1, <1>2, <2>1 DEF ReadyIn
<1>5. ReadyIn(s) \cap B = {}
  BY <1>1, <1>2 DEF ReadyIn
<1>6. IsFiniteSet(B) /\ Cardinality(B) = Cardinality(ReadyIn(t))
  <2>1. B \subseteq Int /\ ReadyIn(t) \subseteq Int
    BY <1>2 DEF ReadyIn
  <2>2. \A i \in ReadyIn(t) : i + Len(s) \in B
    BY <1>1, <1>2 DEF ReadyIn
  <2>3. \A j \in B : j - Len(s) \in ReadyIn(t)
    BY <1>1, <1>2 DEF ReadyIn
  <2>4. Shifted(ReadyIn(t), B, Len(s))
    BY <1>1, <2>1, <2>2, <2>3 DEF Shifted
  <2> QED BY <1>3, <2>4, ShiftedCardinality
<1>7. Cardinality(C) = Cardinality(ReadyIn(s)) + Cardinality(B) - Cardinality(ReadyIn(s) \cap B)
  BY <1>3, <1>4, <1>6, FS_Union
<1>8. Cardinality(ReadyIn(s) \cap B) = 0
  BY <1>5, FS_EmptySet
<1>9. Cardinality(ReadyIn(s)) \in Nat /\ Cardinality(B) \in Nat
  BY <1>3, <1>6, FS_CardinalityType
<1> QED BY <1>2, <1>6, <1>7, <1>8, <1>9 DEF Readies

\* A sequence in which the last message alone is ReadyForQuery.
LEMMA ReadiesOne ==
    ASSUME NEW s \in Seq(Messages), s # <<>>, s[Len(s)].k = "ReadyForQuery",
           \A i \in 1..(Len(s) - 1) : s[i].k # "ReadyForQuery"
    PROVE  Readies(s) = 1
<1>1. Len(s) \in Nat \ {0}
  OBVIOUS
<1>2. ReadyIn(s) = {Len(s)}
  BY <1>1 DEF ReadyIn
<1> QED BY <1>2, FS_Singleton DEF Readies

\* If no ReadyForQuery is left to read, nothing is, as answers end with one.
LEMMA ReadiesZero ==
    ASSUME NEW s \in Seq(Messages), s # <<>>, s[Len(s)].k = "ReadyForQuery"
    PROVE  Readies(s) > 0
<1>1. Len(s) \in ReadyIn(s)
  BY DEF ReadyIn
<1>2. IsFiniteSet(ReadyIn(s)) /\ Readies(s) \in Nat
  BY ReadiesType
<1>3. Readies(s) # 0
  BY <1>1, <1>2, FS_EmptySet DEF Readies
<1> QED BY <1>2, <1>3

\* The empty sequence.
LEMMA ReadiesEmpty == Readies(<<>>) = 0
<1>1. ReadyIn(<<>>) = {}
  BY DEF ReadyIn
<1> QED BY <1>1, FS_EmptySet DEF Readies

-----------------------------------------------------------------------------
(* Marking what is in flight as not the call's own.                        *)

\* Units keep everything else.
LEMMA OthersUnits ==
    ASSUME NEW s \in Seq(Units)
    PROVE  /\ Others(s) \in Seq(Units) /\ Len(Others(s)) = Len(s)
           /\ \A i \in 1..Len(s) : /\ Others(s)[i].u = s[i].u /\ Others(s)[i].id = s[i].id
                                   /\ Others(s)[i].ids = s[i].ids
<1>1. DOMAIN s = 1..Len(s) /\ Len(s) \in Nat
  OBVIOUS
<1>2. \A i \in 1..Len(s) : s[i] \in Units
  OBVIOUS
<1>3. \A i \in 1..Len(s) : /\ [s[i] EXCEPT !.own = FALSE] \in Units
                           /\ [s[i] EXCEPT !.own = FALSE].u = s[i].u
                           /\ [s[i] EXCEPT !.own = FALSE].id = s[i].id
                           /\ [s[i] EXCEPT !.own = FALSE].ids = s[i].ids
  BY <1>2 DEF Units
<1>4. Others(s) = [i \in 1..Len(s) |-> [s[i] EXCEPT !.own = FALSE]]
  BY <1>1 DEF Others
<1>5. Others(s) \in Seq(Units) /\ Len(Others(s)) = Len(s)
  BY <1>1, <1>3, <1>4
<1>6. \A i \in 1..Len(s) : Others(s)[i] = [s[i] EXCEPT !.own = FALSE]
  BY <1>4
<1> QED BY <1>3, <1>5, <1>6

\* So do messages.
LEMMA OthersMessages ==
    ASSUME NEW s \in Seq(Messages)
    PROVE  /\ Others(s) \in Seq(Messages) /\ Len(Others(s)) = Len(s)
           /\ \A i \in 1..Len(s) : Others(s)[i].k = s[i].k /\ Others(s)[i].st = s[i].st
           /\ Readies(Others(s)) = Readies(s)
<1>1. DOMAIN s = 1..Len(s) /\ Len(s) \in Nat
  OBVIOUS
<1>2. \A i \in 1..Len(s) : s[i] \in Messages
  OBVIOUS
<1>3. \A i \in 1..Len(s) : /\ [s[i] EXCEPT !.own = FALSE] \in Messages
                           /\ [s[i] EXCEPT !.own = FALSE].k = s[i].k
                           /\ [s[i] EXCEPT !.own = FALSE].st = s[i].st
  BY <1>2 DEF Messages
<1>4. Others(s) = [i \in 1..Len(s) |-> [s[i] EXCEPT !.own = FALSE]]
  BY <1>1 DEF Others
<1>5. Others(s) \in Seq(Messages) /\ Len(Others(s)) = Len(s)
  BY <1>1, <1>3, <1>4
<1>6. \A i \in 1..Len(s) : Others(s)[i] = [s[i] EXCEPT !.own = FALSE]
  BY <1>4
<1>7. \A i \in 1..Len(s) : Others(s)[i].k = s[i].k /\ Others(s)[i].st = s[i].st
  BY <1>3, <1>6
<1>8. ReadyIn(Others(s)) = ReadyIn(s)
  BY <1>5, <1>7 DEF ReadyIn
<1> QED BY <1>5, <1>7, <1>8 DEF Readies

-----------------------------------------------------------------------------
(* Facts about sequences in flight and about units.                        *)

\* PendingExact after a step, in terms of Readies.
LEMMA PendingThen ==
    ASSUME replies' \in Seq(Messages),
           pending' = Len(wbuf') + Len(net') + Readies(replies')
    PROVE  PendingExact'
<1>1. DOMAIN replies' = 1..Len(replies')
  OBVIOUS
<1>2. ReadyReplies' = ReadyIn(replies')
  BY <1>1 DEF ReadyReplies, ReadyIn
<1> QED BY <1>2 DEF PendingExact, Readies

\* PendingExact before a step.
LEMMA PendingNow ==
    ASSUME PgInv, call # Closed
    PROVE  /\ pending = Len(wbuf) + Len(net) + Readies(replies)
           /\ Readies(replies) \in Nat /\ pending \in Nat
           /\ Len(wbuf) \in Nat /\ Len(net) \in Nat /\ Len(replies) \in Nat
<1>1. replies \in Seq(Messages) /\ wbuf \in Seq(Units) /\ net \in Seq(Units) /\ pending \in Nat
  BY DEF PgInv, PgType, TypeOK
<1>2. pending = Len(wbuf) + Len(net) + Cardinality(ReadyReplies)
  BY DEF PgInv, PendingExact
<1> QED BY <1>1, <1>2, ReadyRepliesAre, ReadiesType

\* The last message read and the last message left.
LEMMA TailEnds ==
    ASSUME NEW s \in Seq(Messages), s # <<>>
    PROVE  /\ Tail(s) \in Seq(Messages) /\ Len(Tail(s)) = Len(s) - 1
           /\ \A i \in 1..Len(Tail(s)) : Tail(s)[i] = s[i + 1]
           /\ Head(s) = s[1] /\ Head(s) \in Messages
           /\ Tail(s) = <<>> => Len(s) = 1
           /\ Tail(s) # <<>> => Tail(s)[Len(Tail(s))] = s[Len(s)]
<1>1. Len(s) \in Nat \ {0} /\ Tail(s) \in Seq(Messages) /\ Len(Tail(s)) = Len(s) - 1
  OBVIOUS
<1>2. \A i \in 1..Len(Tail(s)) : Tail(s)[i] = s[i + 1]
  OBVIOUS
<1>3. Head(s) = s[1] /\ Head(s) \in Messages
  OBVIOUS
<1>4. ASSUME Tail(s) = <<>> PROVE Len(s) = 1
  <2>1. PICK t : t = Tail(s)
    OBVIOUS
  <2>2. Len(t) = Len(s) - 1
    BY <1>1, <2>1
  <2>3. t = <<>>
    BY <1>4, <2>1
  <2>4. Len(t) = 0
    BY <2>3
  <2>5. Len(s) \in Nat
    OBVIOUS
  <2> QED BY <2>2, <2>4, <2>5
<1>5. ASSUME Tail(s) # <<>> PROVE Tail(s)[Len(Tail(s))] = s[Len(s)]
  <2>1. Len(Tail(s)) \in 1..Len(Tail(s))
    BY <1>1, <1>5
  <2> QED BY <1>1, <1>2, <2>1
<1> QED BY <1>1, <1>2, <1>3, <1>4, <1>5

\* When a call is ready, nothing is in flight: what is left would end in a
\* ReadyForQuery that pending counts.
LEMMA DrainedEmpty ==
    ASSUME PgInv, call # Closed, wbuf = <<>>, pending = 0
    PROVE  /\ net = <<>> /\ replies = <<>>
           /\ status = TransactionStatus(session) /\ Readies(replies) = 0
<1>1. pending = Len(wbuf) + Len(net) + Readies(replies) /\ Readies(replies) \in Nat
      /\ Len(net) \in Nat /\ Len(wbuf) = 0
  BY PendingNow
<1>2. Len(net) = 0 /\ Readies(replies) = 0
  BY <1>1
<1>3. replies \in Seq(Messages) /\ net \in Seq(Units) /\ LastIsReady
  BY DEF PgInv, PgType
<1>4. replies = <<>>
  BY <1>2, <1>3, ReadiesZero DEF LastIsReady
<1> QED BY <1>2, <1>3, <1>4 DEF LastIsReady

\* The innermost transaction.
LEMMA TopAndPopped ==
    ASSUME PgType
    PROVE  /\ Top \in Nat /\ Top \in Tx \cup {Outside}
           /\ handles # <<>> => Top \in Tx /\ Popped \in Seq(Tx)
           /\ Open \subseteq Tx
<1>1. handles \in Seq(Tx) /\ MaxTx \in Nat
  BY PgAssumption DEF PgType, TypeOK
<1>2. handles # <<>> => Top \in Tx /\ Popped \in Seq(Tx)
  BY <1>1 DEF Top, Popped
<1>3. Open \subseteq Tx
  BY <1>1 DEF Open
<1> QED BY <1>1, <1>2, <1>3 DEF Top, Tx, Outside

\* A statement sent as a Query.
LEMMA QueryUnit ==
    ASSUME NEW q \in [verb : Verbs \cup {"WRITE"}, name : Nat]
    PROVE  /\ Query(q) \in Units /\ Query(q).u = "query" /\ Query(q).ids = <<>> /\ Query(q).own
           /\ [Query(q) EXCEPT !.own = FALSE] \in Units
           /\ [Query(q) EXCEPT !.own = FALSE].u = "query"
           /\ [Query(q) EXCEPT !.own = FALSE].ids = <<>>
<1>1. <<>> \in Seq(Nat)
  OBVIOUS
<1> QED BY <1>1 DEF Query, Units, UnitKinds

\* The statements of transactions.
LEMMA TransactionSql ==
    ASSUME NEW d \in Nat
    PROVE  /\ BeginSql(d) \in [verb : Verbs \cup {"WRITE"}, name : Nat]
           /\ d > 0 => CommitSql(d) \in [verb : Verbs \cup {"WRITE"}, name : Nat]
           /\ d > 0 => RollbackSql(d) \in [verb : Verbs \cup {"WRITE"}, name : Nat]
BY DEF BeginSql, CommitSql, RollbackSql, Verbs

\* The other units.
LEMMA OtherUnits ==
    ASSUME PgType, NEW id \in Nat, NEW s \in Statements \cup {"none"}, NEW ids \in Seq(Nat)
    PROVE  /\ Query(Write) \in Units /\ Query(Write).u = "query" /\ Query(Write).own
           /\ Query(Write).ids = <<>>
           /\ SyncUnit \in Units /\ SyncUnit.u = "sync" /\ SyncUnit.ids = <<>>
           /\ ParseUnit(id, s) \in Units /\ ParseUnit(id, s).u = "parse"
           /\ ParseUnit(id, s).id = id /\ ParseUnit(id, s).sql = s
           /\ ParseUnit(id, s).ids = <<>> /\ ParseUnit(id, s).own
           /\ BindUnit(id) \in Units /\ BindUnit(id).u = "bind" /\ BindUnit(id).own
           /\ BindUnit(id).ids = <<>>
           /\ CloseUnit(ids) \in Units /\ CloseUnit(ids).u = "close" /\ CloseUnit(ids).own
           /\ CloseUnit(ids).ids = ids
<1>1. Write \in [verb : Verbs \cup {"WRITE"}, name : Nat]
  BY TopAndPopped DEF Write
<1>2. PICK w : w = Write
  OBVIOUS
<1>3. <<>> \in Seq(Nat)
  OBVIOUS
<1> QED BY <1>1, <1>2, <1>3
        DEF Query, SyncUnit, ParseUnit, BindUnit, CloseUnit, Units, UnitKinds

-----------------------------------------------------------------------------
(* How a call ends.                                                        *)

\* A sequence that ends in ReadyForQuery with the state of the session.
EndsReady(s) ==
    IF s = <<>> THEN status = TransactionStatus(session)
    ELSE s[Len(s)].k = "ReadyForQuery" /\ s[Len(s)].st = TransactionStatus(session)

ReadyStatuses(s) == \A i \in 1..Len(s) : s[i].k = "ReadyForQuery" => s[i].st \in Statuses

\* A queued rollback is counted and harms no cached statement.
LEMMA StartRollbackKeeps ==
    ASSUME PgInv, call # Closed, NEW w \in Seq(Units), Len(w) = Len(wbuf),
           \A i \in 1..Len(w) : Harmless(w[i]),
           StartRollback(w)
    PROVE  /\ wbuf' \in Seq(Units) /\ pending' \in Nat /\ depth' \in Nat
           /\ pending' - Len(wbuf') = pending - Len(wbuf)
           /\ \A i \in 1..Len(wbuf') : Harmless(wbuf'[i])
<1>1. depth \in Nat /\ pending \in Nat /\ Len(wbuf) \in Nat
  BY PendingNow DEF PgInv, PgType, TypeOK
<1>2. CASE depth > 0
  <2>1. PICK m : m = [Query(RollbackSql(depth)) EXCEPT !.own = FALSE]
    OBVIOUS
  <2>2. m \in Units /\ m.u = "query" /\ m.ids = <<>>
    BY <1>1, <1>2, <2>1, TransactionSql, QueryUnit
  <2>3. wbuf' = Append(w, m) /\ pending' = pending + 1 /\ depth' = depth - 1
    BY <1>2, <2>1 DEF StartRollback
  <2>4. Harmless(m)
    BY <2>2 DEF Harmless
  <2>5. /\ wbuf' \in Seq(Units) /\ Len(wbuf') = Len(w) + 1
        /\ \A i \in 1..Len(wbuf') : wbuf'[i] = IF i <= Len(w) THEN w[i] ELSE m
    BY <2>2, <2>3
  <2> QED BY <1>1, <1>2, <2>3, <2>4, <2>5
<1>3. CASE ~(depth > 0)
  BY <1>1, <1>3 DEF StartRollback
<1> QED BY <1>2, <1>3

\* The units in flight stay harmless when they are marked.
LEMMA OthersHarmless ==
    ASSUME NEW s \in Seq(Units), \A i \in 1..Len(s) : Harmless(s[i])
    PROVE  \A i \in 1..Len(Others(s)) : Harmless(Others(s)[i])
BY OthersUnits DEF Harmless

\* Abandon keeps the invariant, whatever is still to be read, provided that
\* it ends in the same ReadyForQuery.
LEMMA AbandonKeeps ==
    ASSUME PgInv, call # Closed, NEW f \in {"aborted", "unknown"},
           NEW rest \in Seq(Messages), ReadyStatuses(rest), EndsReady(rest),
           Readies(rest) = Readies(replies),
           Abandon(f, rest), erred' \subseteq Tx,
           UNCHANGED <<status, cache, next_id, session, prepared, begun, parent, acked>>
    PROVE  PgInv'
<1>1. PgType /\ CacheExact /\ CallExact
  BY DEF PgInv
<1>2. NoCall \in CallRecords /\ Closed \in CallRecords
  BY DEF NoCall, Closed, CallRecords
<1>3. <<>> \in Seq(Units) /\ <<>> \in Seq(Messages) /\ <<>> \in Seq(Tx) /\ Len(<<>>) = 0
  OBVIOUS
<1>4. CASE call.op \in Discards
  <2>1. /\ call' = Closed /\ handles' = <<>> /\ net' = net
        /\ wbuf' = <<>> /\ replies' = <<>> /\ pending' = 0 /\ depth' = 0
    BY <1>4 DEF Abandon, HangUp
  <2>2. fate' \in [Tx -> {"new", "open", "committed", "aborted", "unknown"}]
    <3>1. fate' = [i \in Tx |-> IF i \notin Open THEN fate[i]
                             ELSE IF i = Top /\ call.op = "Commit" THEN f ELSE "aborted"]
      BY <1>4 DEF Abandon, HangUp
    <3>2. fate \in [Tx -> {"new", "open", "committed", "aborted", "unknown"}]
      BY <1>1 DEF PgType, TypeOK
    <3> QED BY <3>1, <3>2
  <2>3. TypeOK'
    BY <1>1, <1>3, <2>1, <2>2 DEF PgType, TypeOK
  <2>4. PgType'
    BY <1>1, <1>2, <1>3, <2>1, <2>3 DEF PgType
  <2>5. (call # Closed)' = FALSE
    BY <2>1 DEF Closed, NoCall
  <2> QED BY <2>4, <2>5 DEF PgInv
<1>5. CASE call.op \notin Discards
  <2>1. /\ call' = NoCall /\ net' = Others(net) /\ replies' = Others(rest)
        /\ IF call.op \in {"Begin", "Commit", "Rollback"} THEN StartRollback(Others(wbuf))
           ELSE wbuf' = Others(wbuf) /\ UNCHANGED <<pending, depth>>
        /\ IF call.op \in {"Commit", "Rollback"}
           THEN handles' = Popped /\ fate' = [fate EXCEPT ![Top] = f]
           ELSE UNCHANGED <<handles, fate>>
    BY <1>5 DEF Abandon
  <2>2. /\ Others(wbuf) \in Seq(Units) /\ Len(Others(wbuf)) = Len(wbuf)
        /\ \A i \in 1..Len(Others(wbuf)) : Harmless(Others(wbuf)[i])
    BY <1>1, OthersUnits, OthersHarmless DEF PgType, CacheExact, CacheSound
  <2>3. /\ Others(net) \in Seq(Units) /\ Len(Others(net)) = Len(net)
        /\ \A i \in 1..Len(Others(net)) : Harmless(Others(net)[i])
    BY <1>1, OthersUnits, OthersHarmless DEF PgType, CacheExact, CacheSound
  <2>4. depth \in Nat /\ pending \in Nat /\ Len(wbuf) \in Nat
    BY <1>1, PendingNow DEF PgType, TypeOK
  <2>5. /\ wbuf' \in Seq(Units) /\ pending' \in Nat /\ depth' \in Nat
        /\ pending' - Len(wbuf') = pending - Len(wbuf)
        /\ \A i \in 1..Len(wbuf') : Harmless(wbuf'[i])
    BY <2>1, <2>2, <2>4, StartRollbackKeeps
  <2>6. handles' \in Seq(Tx) /\ fate' \in [Tx -> {"new", "open", "committed", "aborted", "unknown"}]
    <3>1. call.op \in {"Commit", "Rollback"} => handles # <<>>
      BY <1>1 DEF CallExact
    <3> QED BY <1>1, <2>1, <3>1, TopAndPopped DEF PgType, TypeOK
  <2>7. TypeOK'
    BY <1>1, <2>5, <2>6 DEF PgType, TypeOK
  <2>8. /\ Others(rest) \in Seq(Messages) /\ Len(Others(rest)) = Len(rest) /\ Len(rest) \in Nat
        /\ \A i \in 1..Len(rest) : Others(rest)[i].k = rest[i].k /\ Others(rest)[i].st = rest[i].st
        /\ Readies(Others(rest)) = Readies(replies)
    BY OthersMessages
  <2>9. \A i \in 1..Len(replies') : replies'[i].k = "ReadyForQuery" => replies'[i].st \in Statuses
    BY <2>1, <2>8 DEF ReadyStatuses
  <2>10. PgType'
    BY <1>1, <1>2, <2>1, <2>3, <2>5, <2>7, <2>8, <2>9 DEF PgType
  <2>11. PendingExact'
    <3>1. pending = Len(wbuf) + Len(net) + Readies(replies) /\ Readies(replies) \in Nat
          /\ Len(net) \in Nat /\ Len(wbuf') \in Nat
      BY <2>5, PendingNow
    <3>2. Len(net') = Len(net) /\ Readies(replies') = Readies(replies)
      BY <2>1, <2>3, <2>8
    <3>3. pending' - Len(wbuf') = pending - Len(wbuf) /\ pending' \in Nat
      BY <2>5
    <3>4. pending' = Len(wbuf') + Len(net') + Readies(replies')
      BY SMTT(30), <2>4, <3>1, <3>2, <3>3
    <3> QED BY <2>1, <2>8, <3>4, PendingThen
  <2>12. LastIsReady'
    <3>1. TransactionStatus(session)' = TransactionStatus(session)
      BY DEF TransactionStatus
    <3>2. CASE rest = <<>>
      BY <2>1, <2>8, <3>1, <3>2 DEF LastIsReady, EndsReady
    <3>3. CASE rest # <<>>
      <4>1. Len(rest) \in 1..Len(rest) /\ replies' # <<>>
        BY <2>1, <2>8, <3>3
      <4> QED BY <2>1, <2>8, <3>1, <3>3, <4>1 DEF LastIsReady, EndsReady
    <3> QED BY <3>2, <3>3
  <2>13. CacheExact'
    <3>1. CachedIds' = CachedIds
      BY DEF CachedIds
    <3> QED BY <1>1, <2>1, <2>3, <2>5, <3>1 DEF CacheExact, CacheSound, Harmless
  <2>14. CallExact' /\ Alone'
    BY <2>1 DEF CallExact, Alone, NoCall, Closed, AllCalls, Stages, ParseStages
  <2> QED BY <2>10, <2>11, <2>12, <2>13, <2>14 DEF PgInv
<1> QED BY <1>4, <1>5

\* A call returns Err.
LEMMA FailKeeps ==
    ASSUME PgInv, call # Closed, NEW rest \in Seq(Messages), ReadyStatuses(rest), EndsReady(rest),
           Readies(rest) = Readies(replies), Fail(rest)
    PROVE  PgInv'
<1>1. /\ Abandon("aborted", rest) /\ erred' = erred \cup Open
      /\ UNCHANGED <<status, cache, next_id, session, prepared, begun, parent, acked>>
  BY DEF Fail
<1>2. erred' \subseteq Tx
  BY <1>1, TopAndPopped DEF PgInv, PgType, TypeOK
<1> QED BY <1>1, <1>2, AbandonKeeps

\* It does so on a message that is not ReadyForQuery, which is not the last.
LEMMA FailTailKeeps ==
    ASSUME PgInv, call # Closed, replies # <<>>, Head(replies).k # "ReadyForQuery",
           Fail(Tail(replies))
    PROVE  PgInv'
<1>1. replies \in Seq(Messages) /\ LastIsReady /\ ReadyStatuses(replies)
  BY DEF PgInv, PgType, ReadyStatuses
<1>2. /\ Tail(replies) \in Seq(Messages) /\ Len(Tail(replies)) = Len(replies) - 1
      /\ \A i \in 1..Len(Tail(replies)) : Tail(replies)[i] = replies[i + 1]
      /\ Head(replies) = replies[1]
      /\ Tail(replies) = <<>> => Len(replies) = 1
      /\ Tail(replies) # <<>> => Tail(replies)[Len(Tail(replies))] = replies[Len(replies)]
  BY <1>1, TailEnds
<1>3. PICK rest : rest = Tail(replies)
  OBVIOUS
<1>4. EndsReady(rest)
  BY <1>1, <1>2, <1>3 DEF LastIsReady, EndsReady
<1>5. ReadyStatuses(rest)
  <2>1. Len(replies) \in Nat
    BY <1>1
  <2>2. \A i \in 1..Len(rest) : i + 1 \in 1..Len(replies) /\ rest[i] = replies[i + 1]
    BY <1>2, <1>3, <2>1
  <2> QED BY <1>1, <2>2 DEF ReadyStatuses
<1>6. Readies(rest) = Readies(replies)
  BY <1>1, <1>3, ReadiesTail, ReadiesType
<1> QED BY <1>2, <1>3, <1>4, <1>5, <1>6, FailKeeps

\* The future of a call is dropped.
LEMMA CancelKeeps ==
    ASSUME PgInv, Cancel PROVE PgInv'
<1>1. call # Closed
  BY PgAssumption DEF Cancel, Closed, NoCall, AllCalls
<1>2. PICK f : f = IF call.op = "Commit" THEN "unknown" ELSE "aborted"
  OBVIOUS
<1>3. f \in {"aborted", "unknown"} /\ Abandon(f, replies)
  BY <1>2 DEF Cancel
<1>4. replies \in Seq(Messages) /\ ReadyStatuses(replies) /\ EndsReady(replies)
  BY <1>1 DEF PgInv, PgType, ReadyStatuses, EndsReady, LastIsReady
<1>5. erred' \subseteq Tx
  BY DEF Cancel, PgInv, PgType, TypeOK
<1> QED BY <1>1, <1>3, <1>4, <1>5, AbandonKeeps DEF Cancel

-----------------------------------------------------------------------------
(* The application's steps.                                                *)

\* Steps that leave the connection and the server alone.
LEMMA ConnectionSame ==
    ASSUME PgInv, call # Closed, UNCHANGED <<inner, server>>
    PROVE  PendingExact' /\ LastIsReady' /\ CacheExact'
<1>1. replies' \in Seq(Messages) /\ pending' = Len(wbuf') + Len(net') + Readies(replies')
  BY PendingNow DEF PgInv, PgType, inner, server
<1>2. PendingExact'
  BY <1>1, PendingThen
<1>3. LastIsReady'
  BY DEF PgInv, LastIsReady, TransactionStatus, InTransaction, inner, server
<1>4. CacheExact'
  <2>1. CachedIds' = CachedIds
    BY DEF CachedIds, inner
  <2> QED BY <2>1 DEF PgInv, CacheExact, CacheSound, Harmless, inner, server
<1> QED BY <1>2, <1>3, <1>4

\* Steps that queue a unit and count its answer.
LEMMA QueueKeeps ==
    ASSUME PgInv, call # Closed, NEW m \in Units, Harmless(m), Queue(m, pending),
           UNCHANGED <<status, cache, next_id, server>>
    PROVE  /\ wbuf' \in Seq(Units) /\ pending' \in Nat
           /\ PendingExact' /\ LastIsReady' /\ CacheExact'
<1>1. wbuf' = Append(wbuf, m) /\ pending' = pending + 1
  BY DEF Queue
<1>2. wbuf \in Seq(Units) /\ net \in Seq(Units) /\ replies \in Seq(Messages)
  BY DEF PgInv, PgType
<1>3. /\ wbuf' \in Seq(Units) /\ Len(wbuf') = Len(wbuf) + 1
      /\ \A i \in 1..Len(wbuf') : wbuf'[i] = IF i <= Len(wbuf) THEN wbuf[i] ELSE m
  BY <1>1, <1>2
<1>4. net' = net /\ replies' = replies /\ session' = session /\ prepared' = prepared
  BY DEF server
<1>5. PendingExact' /\ pending' \in Nat
  <2>1. /\ pending = Len(wbuf) + Len(net) + Readies(replies) /\ Readies(replies) \in Nat
        /\ pending \in Nat /\ Len(wbuf) \in Nat /\ Len(net) \in Nat
    BY PendingNow
  <2>2. pending' = Len(wbuf') + Len(net') + Readies(replies')
    BY <1>1, <1>3, <1>4, <2>1
  <2> QED BY <1>1, <1>2, <1>4, <2>1, <2>2, PendingThen
<1>6. LastIsReady'
  BY <1>4 DEF PgInv, LastIsReady, TransactionStatus, InTransaction
<1>7. CacheExact'
  <2>1. CachedIds' = CachedIds
    BY DEF CachedIds
  <2>2. CacheExact /\ Len(wbuf) \in Nat
    BY PendingNow DEF PgInv
  <2>3. \A i \in 1..Len(wbuf') : Harmless(wbuf'[i])
    BY <1>3, <2>2 DEF CacheExact, CacheSound
  <2> QED BY <1>4, <2>1, <2>2, <2>3 DEF CacheExact, CacheSound, Harmless
<1> QED BY <1>3, <1>5, <1>6, <1>7

\* A call that waits first.
LEMMA StartKeeps ==
    ASSUME PgInv, NEW op \in {"Execute", "ClearCache", "Run", "Prepare"},
           NEW s \in Statements \cup {"none"}, op \in {"Run", "Prepare"} => s \in Statements,
           Start(op, s)
    PROVE  PgInv'
<1>1. call = NoCall /\ call # Closed /\ call' = Draining(op, s)
      /\ UNCHANGED <<inner, server, handles, begun, fate, parent, acked, erred>>
  BY DEF Start, NoCall, Closed
<1>2. PendingExact' /\ LastIsReady' /\ CacheExact'
  BY <1>1, ConnectionSame
<1>3. call' \in CallRecords
  BY <1>1 DEF Draining, NoCall, CallRecords, AllCalls
<1>4. PgType'
  BY <1>1, <1>3 DEF PgInv, PgType, TypeOK, inner, server
<1>5. CallExact' /\ Alone'
  BY <1>1 DEF Start, Draining, CallExact, Alone, NoCall, Closed, AllCalls, Stages, ParseStages, inner
<1> QED BY <1>2, <1>4, <1>5 DEF PgInv

\* commit() and rollback().
LEMMA StartEndKeeps ==
    ASSUME PgInv, NEW op \in {"Commit", "Rollback"}, NEW f \in {"committed", "aborted"},
           StartEnd(op, f)
    PROVE  PgInv'
<1>1. call = NoCall /\ call # Closed /\ handles # <<>>
      /\ UNCHANGED <<inner, server, begun, parent, acked, erred>>
  BY DEF StartEnd, NoCall, Closed
<1>2. PendingExact' /\ LastIsReady' /\ CacheExact'
  BY <1>1, ConnectionSame
<1>3. CASE depth > 0
  <2>1. call' = Draining(op, "none") /\ UNCHANGED <<handles, fate>>
    BY <1>3 DEF StartEnd
  <2>2. call' \in CallRecords
    BY <2>1 DEF Draining, NoCall, CallRecords, AllCalls
  <2>3. PgType'
    BY <1>1, <2>1, <2>2 DEF PgInv, PgType, TypeOK, inner, server
  <2>4. CallExact' /\ Alone'
    BY <1>1, <1>3, <2>1
    DEF Draining, CallExact, Alone, NoCall, Closed, AllCalls, Stages, ParseStages, inner
  <2> QED BY <1>2, <2>3, <2>4 DEF PgInv
<1>4. CASE ~(depth > 0)
  <2>1. handles' = Popped /\ fate' = [fate EXCEPT ![Top] = f] /\ UNCHANGED call
    BY <1>4 DEF StartEnd
  <2>2. handles' \in Seq(Tx) /\ fate' \in [Tx -> {"new", "open", "committed", "aborted", "unknown"}]
    BY <1>1, <2>1, TopAndPopped DEF PgInv, PgType, TypeOK
  <2>3. PgType'
    BY <1>1, <2>1, <2>2 DEF PgInv, PgType, TypeOK, inner, server
  <2>4. CallExact' /\ Alone'
    BY <1>1, <2>1 DEF CallExact, Alone, NoCall, Closed, AllCalls, Stages, ParseStages
  <2> QED BY <1>2, <2>3, <2>4 DEF PgInv
<1> QED BY <1>3, <1>4

\* begin() and ping(), which queue before they wait.
LEMMA StartQueuedKeeps ==
    ASSUME PgInv, StartBegin \/ StartPing
    PROVE  PgInv'
<1>1. PICK m, op :
        /\ Queue(m, pending) /\ call' = Draining(op, "none")
        /\ StartBegin => m = Query(BeginSql(depth)) /\ op = "Begin" /\ begun < MaxTx
        /\ ~StartBegin => m = SyncUnit /\ op = "Ping"
  BY DEF StartBegin, StartPing
<1>2. call = NoCall /\ call # Closed
      /\ UNCHANGED <<status, depth, cache, next_id, server,
                     handles, begun, fate, parent, acked, erred>>
  BY DEF StartBegin, StartPing, NoCall, Closed
<1>3. PgType /\ depth \in Nat
  BY DEF PgInv, PgType, TypeOK
<1>4. m \in Units /\ m.u # "parse" /\ m.ids = <<>> /\ op \in {"Begin", "Ping"}
      /\ (op = "Begin" => begun < MaxTx)
  <2>1. CASE StartBegin
    <3>1. BeginSql(depth) \in [verb : Verbs \cup {"WRITE"}, name : Nat]
      BY <1>3, TransactionSql
    <3>2. PICK q : q = BeginSql(depth)
      OBVIOUS
    <3>3. Query(q) \in Units /\ Query(q).u = "query" /\ Query(q).ids = <<>>
      BY <3>1, <3>2, QueryUnit
    <3> QED BY <1>1, <2>1, <3>2, <3>3
  <2>2. CASE ~StartBegin
    <3>1. <<>> \in Seq(Nat) /\ 0 \in Nat /\ "none" \in Statements \cup {"none"}
      OBVIOUS
    <3>2. SyncUnit \in Units /\ SyncUnit.u = "sync" /\ SyncUnit.ids = <<>>
      BY <1>3, <3>1, OtherUnits
    <3> QED BY <1>1, <2>2, <3>2
  <2> QED BY <2>1, <2>2
<1>5. Harmless(m)
  BY <1>4 DEF Harmless
<1>6. /\ wbuf' \in Seq(Units) /\ pending' \in Nat
      /\ PendingExact' /\ LastIsReady' /\ CacheExact'
  BY <1>1, <1>2, <1>4, <1>5, QueueKeeps
<1>7. call' \in CallRecords
  BY <1>1, <1>4 DEF Draining, NoCall, CallRecords, AllCalls
<1>8. PgType'
  BY <1>2, <1>3, <1>6, <1>7 DEF PgType, TypeOK, server
<1>9. CallExact' /\ Alone'
  BY <1>1, <1>2, <1>4
  DEF Draining, CallExact, Alone, NoCall, Closed, AllCalls, Stages, ParseStages
<1> QED BY <1>6, <1>8, <1>9 DEF PgInv

\* A Transaction goes out of scope.
LEMMA DropKeeps ==
    ASSUME PgInv, DropTransaction
    PROVE  PgInv'
<1>1. call = NoCall /\ call # Closed /\ handles # <<>> /\ StartRollback(wbuf)
      /\ handles' = Popped /\ fate' = [fate EXCEPT ![Top] = "aborted"]
      /\ UNCHANGED <<status, cache, next_id, server, call, begun, parent, acked, erred>>
  BY DEF DropTransaction, NoCall, Closed
<1>2. PgType /\ CacheExact /\ LastIsReady
  BY <1>1 DEF PgInv
<1>3. /\ wbuf' \in Seq(Units) /\ pending' \in Nat /\ depth' \in Nat
      /\ pending' - Len(wbuf') = pending - Len(wbuf)
      /\ \A i \in 1..Len(wbuf') : Harmless(wbuf'[i])
  BY <1>1, <1>2, StartRollbackKeeps DEF PgType, CacheExact, CacheSound
<1>4. handles' \in Seq(Tx) /\ fate' \in [Tx -> {"new", "open", "committed", "aborted", "unknown"}]
  BY <1>1, <1>2, TopAndPopped DEF PgType, TypeOK
<1>5. PgType'
  BY <1>1, <1>2, <1>3, <1>4 DEF PgType, TypeOK, server
<1>6. PendingExact'
  <2>1. /\ pending = Len(wbuf) + Len(net) + Readies(replies) /\ Readies(replies) \in Nat
        /\ pending \in Nat /\ Len(wbuf) \in Nat /\ Len(net) \in Nat /\ Len(wbuf') \in Nat
    BY <1>1, <1>3, PendingNow
  <2>2. net' = net /\ replies' = replies /\ replies' \in Seq(Messages)
    BY <1>1, <1>2 DEF server, PgType
  <2>3. pending' - Len(wbuf') = pending - Len(wbuf) /\ pending' \in Nat
    BY <1>3
  <2>4. Len(net') = Len(net) /\ Readies(replies') = Readies(replies)
    BY <2>2
  <2>5. pending' = Len(wbuf') + Len(net') + Readies(replies')
    BY SMTT(30), <2>1, <2>3, <2>4
  <2> QED BY <2>2, <2>5, PendingThen
<1>7. LastIsReady'
  BY <1>1, <1>2 DEF LastIsReady, TransactionStatus, InTransaction, server
<1>8. CacheExact'
  <2>1. CachedIds' = CachedIds
    BY <1>1 DEF CachedIds
  <2> QED BY <1>1, <1>2, <1>3, <2>1 DEF CacheExact, CacheSound, Harmless, server
<1>9. CallExact' /\ Alone'
  BY <1>1 DEF CallExact, Alone, NoCall, Closed, AllCalls, Stages, ParseStages
<1> QED BY <1>5, <1>6, <1>7, <1>8, <1>9 DEF PgInv

\* The connection is closed, and the server ends the session.
LEMMA CloseKeeps ==
    ASSUME PgInv, Close \/ Disconnect
    PROVE  PgInv'
<1>1. PgType /\ Closed \in CallRecords /\ <<>> \in Seq(Units) /\ <<>> \in Seq(Messages)
      /\ Len(<<>>) = 0
  BY DEF PgInv, Closed, NoCall, CallRecords
<1>2. CASE Close
  <2>1. /\ call' = Closed /\ wbuf' = <<>> /\ replies' = <<>> /\ pending' = 0 /\ depth' = 0
        /\ UNCHANGED <<status, cache, next_id, session, prepared,
                       handles, begun, fate, parent, acked, erred>>
    BY <1>2 DEF Close
  <2>2. net' \in Seq(Units)
    BY <1>1, <1>2, ConcatProperties DEF Close, PgType
  <2>3. PgType'
    BY <1>1, <2>1, <2>2 DEF PgType, TypeOK
  <2> QED BY <2>1, <2>3 DEF PgInv, Closed, NoCall
<1>3. CASE Disconnect
  <2>1. call = Closed /\ UNCHANGED <<inner, net, replies, prepared, app>>
    BY <1>3 DEF Disconnect
  <2>2. PgType' /\ call' = Closed
    BY <1>1, <2>1 DEF PgType, TypeOK, inner, app
  <2> QED BY <2>2 DEF PgInv, Closed, NoCall
<1> QED BY <1>2, <1>3

-----------------------------------------------------------------------------
(* The socket and the server.                                              *)

\* A unit is written to the socket.
LEMMA FlushKeeps ==
    ASSUME PgInv, Flush
    PROVE  PgInv'
<1>1. /\ call.at \in {"drain", "flush"} /\ wbuf # <<>>
      /\ net' = Append(net, Head(wbuf)) /\ wbuf' = Tail(wbuf)
      /\ call' = IF call.at = "flush" /\ Len(wbuf) = 1 THEN [call EXCEPT !.at = call.then] ELSE call
      /\ UNCHANGED <<pending, status, depth, cache, next_id, replies, session, prepared,
                     handles, begun, fate, parent, acked, erred>>
  BY DEF Flush
<1>2. call # Closed
  BY <1>1 DEF Closed, NoCall
<1>3. PgType /\ LastIsReady /\ CacheExact /\ CallExact /\ Alone
  BY <1>2 DEF PgInv
<1>4. wbuf \in Seq(Units) /\ net \in Seq(Units) /\ replies \in Seq(Messages) /\ call \in CallRecords
  BY <1>3 DEF PgType
<1>5. /\ wbuf' \in Seq(Units) /\ Len(wbuf') = Len(wbuf) - 1
      /\ \A i \in 1..Len(wbuf') : wbuf'[i] = wbuf[i + 1]
      /\ Head(wbuf) = wbuf[1] /\ Head(wbuf) \in Units /\ Len(wbuf) \in Nat \ {0}
  BY <1>1, <1>4
<1>6. /\ net' \in Seq(Units) /\ Len(net') = Len(net) + 1 /\ Len(net) \in Nat
      /\ \A i \in 1..Len(net') : net'[i] = IF i <= Len(net) THEN net[i] ELSE wbuf[1]
  BY <1>1, <1>4, <1>5
<1>7. call' \in CallRecords
  BY <1>1, <1>4 DEF CallRecords
<1>8. PgType'
  BY <1>1, <1>3, <1>5, <1>6, <1>7 DEF PgType, TypeOK
<1>9. PendingExact'
  <2>1. /\ pending = Len(wbuf) + Len(net) + Readies(replies) /\ Readies(replies) \in Nat
    BY <1>2, PendingNow
  <2>2. pending' = Len(wbuf') + Len(net') + Readies(replies')
    BY <1>1, <1>5, <1>6, <2>1
  <2> QED BY <1>1, <1>4, <2>2, PendingThen
<1>10. LastIsReady'
  BY <1>1, <1>3 DEF LastIsReady, TransactionStatus, InTransaction
<1>11. CacheExact'
  <2>1. CachedIds' = CachedIds
    BY <1>1 DEF CachedIds
  <2>2. \A i \in 1..Len(wbuf') : Harmless(wbuf'[i])
    BY <1>3, <1>5 DEF CacheExact, CacheSound
  <2>3. \A i \in 1..Len(net') : Harmless(net'[i])
    BY <1>3, <1>5, <1>6 DEF CacheExact, CacheSound
  <2> QED BY <1>1, <1>3, <2>1, <2>2, <2>3 DEF CacheExact, CacheSound, Harmless
<1>12. CallExact' /\ Alone'
  <2>1. CASE call.at = "drain"
    <3>1. call' = call
      BY <1>1, <2>1
    <3> QED BY <1>1, <1>3, <2>1, <3>1
            DEF CallExact, Alone, NoCall, Closed, AllCalls, Stages, ParseStages
  <2>2. CASE call.at = "flush"
    <3>1. /\ Len(wbuf) = 1 /\ net = <<>> /\ replies = <<>> /\ Sent(wbuf[1], call.then)
      BY <1>3, <2>2 DEF Alone
    <3>2. call' = [call EXCEPT !.at = call.then] /\ call.then \in {"parse", "closing", "stream"}
      BY <1>1, <2>2, <3>1 DEF Sent
    <3>3. call'.at = call.then /\ call'.op = call.op /\ call'.sql = call.sql /\ call'.n = call.n
          /\ call'.then = call.then
      BY <1>4, <3>2 DEF CallRecords
    <3>4. Len(net') = 1 /\ net'[1] = wbuf[1] /\ wbuf' = <<>> /\ replies' = <<>> /\ pending' = 1
      <4>1. Len(net) = 0 /\ Readies(replies) = 0
        BY <3>1, ReadiesEmpty
      <4>2. pending = 1
        BY <1>2, <3>1, <4>1, PendingNow
      <4> QED BY <1>1, <1>5, <1>6, <3>1, <4>1, <4>2
    <3>5. Sent(net[1], call.at)'
      BY <3>1, <3>3, <3>4 DEF Sent, UnitAt, Closings
    <3>6. Alone'
      BY <3>2, <3>3, <3>4, <3>5 DEF Alone
    <3>7. CachedIds' = CachedIds
      BY <1>1 DEF CachedIds
    <3>8. CallExact'
      BY <1>1, <1>3, <2>2, <3>2, <3>3, <3>7
      DEF CallExact, NoCall, Closed, AllCalls, Stages, ParseStages
    <3> QED BY <3>6, <3>8
  <2> QED BY <1>1, <2>1, <2>2
<1> QED BY <1>8, <1>9, <1>10, <1>11, <1>12 DEF PgInv

\* What the server answers on success holds no ReadyForQuery of its own.
LEMMA ResponsesAre ==
    ASSUME NEW m \in Units
    PROVE  /\ Responses(m) \in Seq(Kinds)
           /\ \A i \in 1..Len(Responses(m)) : Responses(m)[i] # "ReadyForQuery"
           /\ m.u = "parse" => /\ Len(Responses(m)) = 3 /\ Responses(m)[1] = "ParseComplete"
                               /\ Responses(m)[2] = "ParameterDescription"
                               /\ Responses(m)[3] = "RowDescription"
           /\ m.u = "close" => /\ Len(Responses(m)) = Len(m.ids)
                               /\ \A i \in 1..Len(m.ids) : Responses(m)[i] = "CloseComplete"
<1>1. m.u \in UnitKinds /\ m.ids \in Seq(Nat) /\ DOMAIN m.ids = 1..Len(m.ids) /\ Len(m.ids) \in Nat
  BY DEF Units
<1>2. CASE m.u = "query"
  <2>1. Responses(m) = <<"CommandComplete">>
    BY <1>2 DEF Responses
  <2> QED BY <1>2, <2>1 DEF Kinds
<1>3. CASE m.u = "parse"
  <2>1. Responses(m) = <<"ParseComplete", "ParameterDescription", "RowDescription">>
    BY <1>3 DEF Responses
  <2> QED BY <1>3, <2>1 DEF Kinds
<1>4. CASE m.u = "bind"
  <2>1. Responses(m) = <<"BindComplete", "DataRow", "CommandComplete", "CloseComplete">>
    BY <1>4 DEF Responses
  <2> QED BY <1>4, <2>1 DEF Kinds
<1>5. CASE m.u = "close"
  <2>1. Responses(m) = [i \in 1..Len(m.ids) |-> "CloseComplete"]
    BY <1>1, <1>5 DEF Responses
  <2>2. Responses(m) \in Seq(Kinds) /\ Len(Responses(m)) = Len(m.ids)
    BY <1>1, <2>1 DEF Kinds
  <2> QED BY <1>1, <1>5, <2>1, <2>2
<1>6. CASE m.u = "sync"
  <2>1. Responses(m) = <<>>
    BY <1>6 DEF Responses
  <2> QED BY <1>6, <2>1 DEF Kinds
<1> QED BY <1>1, <1>2, <1>3, <1>4, <1>5, <1>6 DEF UnitKinds

\* An answer is one message for each kind, and ReadyForQuery with the state
\* of the session.
LEMMA AnswerIs ==
    ASSUME NEW m \in Units, NEW kinds \in Seq(Kinds), NEW s,
           \A i \in 1..Len(kinds) : kinds[i] # "ReadyForQuery"
    PROVE  LET a == Answer(m, kinds, s) IN
           /\ a \in Seq(Messages) /\ Len(a) = Len(kinds) + 1
           /\ \A i \in 1..Len(a) : a[i].own = m.own /\ a[i].u = m.u
           /\ \A i \in 1..Len(kinds) : a[i].k = kinds[i]
           /\ a[Len(a)].k = "ReadyForQuery" /\ a[Len(a)].st = TransactionStatus(s)
           /\ TransactionStatus(s) \in Statuses
           /\ ReadyStatuses(a) /\ Readies(a) = 1
<1>1. PICK a, b, last, st :
        /\ st = TransactionStatus(s)
        /\ last = [k |-> "ReadyForQuery", u |-> m.u, st |-> st, own |-> m.own]
        /\ b = [i \in 1..Len(kinds) |-> [k |-> kinds[i], u |-> m.u, st |-> "none", own |-> m.own]]
        /\ a = Append(b, last)
  OBVIOUS
<1>2. DOMAIN kinds = 1..Len(kinds) /\ Len(kinds) \in Nat
  OBVIOUS
<1>3. a = Answer(m, kinds, s)
  BY <1>1, <1>2 DEF Answer, Message
<1>4. st \in Statuses
  BY <1>1 DEF TransactionStatus, Statuses
<1>5. m.u \in UnitKinds /\ m.own \in BOOLEAN
  BY DEF Units
<1>6. last \in Messages
  BY <1>1, <1>4, <1>5 DEF Messages, Kinds
<1>7. /\ b \in Seq(Messages) /\ Len(b) = Len(kinds)
      /\ \A i \in 1..Len(b) : b[i].k = kinds[i] /\ b[i].u = m.u /\ b[i].own = m.own
  <2>1. \A i \in 1..Len(kinds) : kinds[i] \in Kinds
    OBVIOUS
  <2>2. \A i \in 1..Len(kinds) :
          [k |-> kinds[i], u |-> m.u, st |-> "none", own |-> m.own] \in Messages
    BY <1>5, <2>1 DEF Messages
  <2> QED BY <1>1, <1>2, <2>2
<1>8. /\ a \in Seq(Messages) /\ Len(a) = Len(kinds) + 1
      /\ \A i \in 1..Len(a) : a[i] = IF i <= Len(kinds) THEN b[i] ELSE last
  BY <1>1, <1>2, <1>6, <1>7
<1>9. \A i \in 1..Len(kinds) : a[i].k = kinds[i]
  BY <1>2, <1>7, <1>8
<1>10. \A i \in 1..Len(a) : a[i].own = m.own /\ a[i].u = m.u
  BY <1>1, <1>2, <1>7, <1>8
<1>11. a[Len(a)] = last /\ last.k = "ReadyForQuery" /\ last.st = TransactionStatus(s)
  BY <1>1, <1>2, <1>8
<1>12. ReadyStatuses(a)
  BY <1>1, <1>2, <1>4, <1>7, <1>8, <1>9 DEF ReadyStatuses
<1>13. Readies(a) = 1
  <2>1. a # <<>> /\ \A i \in 1..(Len(a) - 1) : a[i].k # "ReadyForQuery"
    BY <1>2, <1>8, <1>9
  <2> QED BY <1>8, <1>11, <2>1, ReadiesOne
<1> QED BY <1>1, <1>3, <1>4, <1>8, <1>9, <1>10, <1>11, <1>12, <1>13

\* The server answers a unit.
LEMMA ServeKeeps ==
    ASSUME PgInv, Serve
    PROVE  PgInv'
<1>1. PICK m : m = Head(net)
  OBVIOUS
<1>2. net # <<>> /\ net' = Tail(net) /\ UNCHANGED <<inner, app>>
  BY DEF Serve
<1>3. PgType
  BY DEF PgInv
<1>4. net \in Seq(Units) /\ replies \in Seq(Messages)
  BY <1>3 DEF PgType
<1>5. /\ m \in Units /\ m = net[1] /\ net' \in Seq(Units) /\ Len(net') = Len(net) - 1
      /\ Len(net) \in Nat \ {0} /\ \A i \in 1..Len(net') : net'[i] = net[i + 1]
  BY <1>1, <1>2, <1>4
<1>6. PICK kinds :
        /\ kinds \in Seq(Kinds) /\ \A i \in 1..Len(kinds) : kinds[i] # "ReadyForQuery"
        /\ replies' = replies \o Answer(m, kinds, session')
        /\ \/ /\ kinds = Responses(m)
              /\ prepared' = [i \in Ids |-> IF m.u = "parse" /\ i = m.id THEN m.sql
                                            ELSE IF \E j \in DOMAIN m.ids : m.ids[j] = i THEN "none"
                                            ELSE prepared[i]]
           \/ kinds = <<"ErrorResponse">> /\ prepared' = prepared
  <2>1. CASE /\ prepared' = [i \in Ids |-> IF m.u = "parse" /\ i = m.id THEN m.sql
                                           ELSE IF \E j \in DOMAIN m.ids : m.ids[j] = i THEN "none"
                                           ELSE prepared[i]]
             /\ replies' = replies \o Answer(m, Responses(m), session')
    BY <1>5, <2>1, ResponsesAre
  <2>2. CASE replies' = replies \o Answer(m, <<"ErrorResponse">>, session') /\ UNCHANGED prepared
    <3>1. <<"ErrorResponse">> \in Seq(Kinds)
          /\ \A i \in 1..Len(<<"ErrorResponse">>) : <<"ErrorResponse">>[i] # "ReadyForQuery"
      BY DEF Kinds
    <3> QED BY <2>2, <3>1
  <2> QED BY <1>1, <2>1, <2>2 DEF Serve
<1>7. PICK a : a = Answer(m, kinds, session')
  OBVIOUS
<1>8. /\ a \in Seq(Messages) /\ Len(a) = Len(kinds) + 1 /\ Len(kinds) \in Nat
      /\ \A i \in 1..Len(a) : a[i].own = m.own /\ a[i].u = m.u
      /\ \A i \in 1..Len(kinds) : a[i].k = kinds[i]
      /\ a[Len(a)].k = "ReadyForQuery" /\ a[Len(a)].st = TransactionStatus(session')
      /\ ReadyStatuses(a) /\ Readies(a) = 1
  BY SMTT(30), <1>5, <1>6, <1>7, AnswerIs
<1>9. /\ replies' \in Seq(Messages) /\ Len(replies') = Len(replies) + Len(a)
      /\ Len(replies) \in Nat /\ Len(a) \in Nat \ {0}
      /\ \A i \in 1..Len(replies) + Len(a) :
           replies'[i] = IF i <= Len(replies) THEN replies[i] ELSE a[i - Len(replies)]
  <2>1. replies' = replies \o a
    BY <1>6, <1>7
  <2>2. a \in Seq(Messages) /\ Len(a) \in Nat \ {0}
    BY <1>8
  <2> QED BY <1>4, <2>1, <2>2, ConcatProperties
<1>10. \A i \in 1..Len(replies') : replies'[i].k = "ReadyForQuery" => replies'[i].st \in Statuses
  <2>1. SUFFICES ASSUME NEW i \in 1..Len(replies'), replies'[i].k = "ReadyForQuery"
                 PROVE  replies'[i].st \in Statuses
    OBVIOUS
  <2>2. CASE i <= Len(replies)
    <3>1. i \in 1..Len(replies) /\ replies'[i] = replies[i]
      BY <1>9, <2>2
    <3> QED BY <1>3, <2>1, <3>1 DEF PgType
  <2>3. CASE ~(i <= Len(replies))
    <3>1. i - Len(replies) \in 1..Len(a) /\ replies'[i] = a[i - Len(replies)]
      BY <1>9, <2>3
    <3> QED BY <1>8, <2>1, <3>1 DEF ReadyStatuses
  <2> QED BY <2>2, <2>3
<1>11. prepared' \in [Ids -> Statements \cup {"none"}]
  <2>1. m.sql \in Statements \cup {"none"} /\ prepared \in [Ids -> Statements \cup {"none"}]
    BY <1>3, <1>5 DEF PgType, TypeOK, Units
  <2> QED BY <1>6, <2>1
<1>12. PgType'
  <2>1. TypeOK'
    BY <1>2, <1>3, <1>11 DEF PgType, TypeOK, inner, app
  <2> QED BY <1>2, <1>3, <1>5, <1>9, <1>10, <2>1 DEF PgType, inner, app
<1>13. CASE call = Closed
  BY <1>2, <1>12, <1>13 DEF PgInv, Closed, NoCall, app
<1>14. CASE call # Closed
  <2>1. LastIsReady /\ CacheExact /\ CallExact /\ Alone
    BY <1>14 DEF PgInv
  <2>2. PendingExact'
    <3>1. /\ pending = Len(wbuf) + Len(net) + Readies(replies) /\ Readies(replies) \in Nat
          /\ Len(wbuf) \in Nat
      BY <1>14, PendingNow
    <3>2. Readies(replies') = Readies(replies) + 1
      BY <1>4, <1>6, <1>7, <1>8, ReadiesConcat
    <3>3. pending' = pending /\ wbuf' = wbuf
      BY <1>2 DEF inner
    <3>4. pending' = Len(wbuf') + Len(net') + Readies(replies')
      BY <1>5, <3>1, <3>2, <3>3
    <3> QED BY <1>9, <3>4, PendingThen
  <2>3. LastIsReady'
    <3>1. Len(replies') \in 1..Len(replies) + Len(a) /\ replies' # <<>>
      BY <1>9
    <3>2. replies'[Len(replies')] = a[Len(a)]
      BY <1>9, <3>1
    <3> QED BY <1>8, <3>1, <3>2 DEF LastIsReady, TransactionStatus, InTransaction
  <2>4. CacheExact'
    <3>1. CachedIds' = CachedIds /\ cache' = cache /\ next_id' = next_id /\ wbuf' = wbuf
      BY <1>2 DEF CachedIds, inner
    <3>2. Harmless(m)
      BY <1>5, <2>1 DEF CacheExact, CacheSound
    <3>3. \A i \in 1..Len(net') : Harmless(net'[i])
      BY <1>5, <2>1 DEF CacheExact, CacheSound
    <3>4. m.ids \in Seq(Nat) /\ DOMAIN m.ids = 1..Len(m.ids)
      BY <1>5 DEF Units
    <3>5. ASSUME NEW i \in 1..Len(cache) PROVE prepared'[cache[i].id] = cache[i].sql
      <4>1. cache[i].id \in CachedIds /\ cache[i].id \in Ids /\ prepared[cache[i].id] = cache[i].sql
        <5>1. cache \in Seq(CacheEntries)
          BY <1>3 DEF PgType
        <5>2. cache[i].id \in Ids
          <6>1. cache[i] \in CacheEntries
            BY <5>1
          <6> QED BY <6>1 DEF CacheEntries
        <5>3. cache[i].id \in CachedIds
          BY DEF CachedIds
        <5>4. prepared[cache[i].id] = cache[i].sql
          BY <2>1 DEF CacheExact, CacheSound
        <5> QED BY <5>2, <5>3, <5>4
      <4>2. ~(m.u = "parse" /\ cache[i].id = m.id) /\ ~\E j \in DOMAIN m.ids : m.ids[j] = cache[i].id
        BY <3>2, <3>4, <4>1 DEF Harmless
      <4> QED BY <1>6, <4>1, <4>2
    <3> QED BY <2>1, <3>1, <3>3, <3>5 DEF CacheExact, CacheSound, Harmless
  <2>5. CallExact'
    <3>1. CachedIds' = CachedIds
      BY <1>2 DEF CachedIds, inner
    <3> QED BY <1>2, <2>1, <3>1 DEF CallExact, inner, app
  <2>6. Alone'
    <3>1. call.at # "flush" /\ call' = call /\ wbuf' = wbuf /\ pending' = pending
      BY <1>2, <2>1 DEF Alone, inner, app
    <3>2. SUFFICES ASSUME call.at \in Stages PROVE net' = <<>> /\ Answered'
      BY <2>1, <3>1 DEF Alone
    <3>3. wbuf = <<>> /\ pending = 1 /\ Len(net) = 1 /\ replies = <<>> /\ Sent(m, call.at)
      BY <1>2, <1>5, <2>1, <3>2 DEF Alone
    <3>4. net' = <<>>
      BY <1>5, <3>3
    <3>5. replies' = a
      BY <1>6, <1>7, <1>8, <3>3
    <3>6. \A i \in 1..Len(a) : a[i].own /\ a[i].u = UnitAt(call.at)
      BY <1>8, <3>3 DEF Sent
    <3>7. \A i \in 1..(Len(a) - 1) : a[i].k # "ReadyForQuery"
      BY <1>6, <1>8
    <3>8. a # <<>>
      BY <1>9
    <3>9. Shape'
      <4>1. CASE kinds = <<"ErrorResponse">>
        <5>1. Len(a) = 2 /\ a[1].k = "ErrorResponse" /\ Head(a) = a[1]
          BY <1>8, <4>1
        <5> QED BY <3>1, <3>3, <3>5, <5>1 DEF Shape, Sent
      <4>2. CASE /\ kinds = Responses(m)
                 /\ prepared' = [i \in Ids |-> IF m.u = "parse" /\ i = m.id THEN m.sql
                                         ELSE IF \E j \in DOMAIN m.ids : m.ids[j] = i THEN "none"
                                         ELSE prepared[i]]
        <5>1. CASE call.at = "stream"
          BY <3>1, <5>1 DEF Shape
        <5>2. CASE call.at = "parse"
          <6>1. m.u = "parse" /\ m.id = call.n /\ m.sql = call.sql /\ call.n \in Ids
            BY <2>1, <3>3, <5>2 DEF Sent, UnitAt, ParseStages, CallExact
          <6>2. prepared'[call.n] = call.sql
            BY <4>2, <6>1
          <6>3. Len(kinds) = 3 /\ kinds[1] = "ParseComplete" /\ kinds[2] = "ParameterDescription"
                /\ kinds[3] = "RowDescription"
            BY <1>5, <4>2, <6>1, ResponsesAre
          <6>4. Len(a) = 4 /\ a[1].k = "ParseComplete" /\ a[2].k = "ParameterDescription"
                /\ a[3].k = "RowDescription"
            BY <1>8, <6>3
          <6> QED BY <3>1, <3>5, <5>2, <6>2, <6>4 DEF Shape
        <5>3. CASE call.at = "closing"
          <6>1. m.u = "close" /\ Len(m.ids) = Closings
            BY <3>3, <5>3 DEF Sent, UnitAt, ParseStages
          <6>2. Len(kinds) = Closings /\ \A i \in 1..Closings : kinds[i] = "CloseComplete"
            BY <1>5, <4>2, <6>1, ResponsesAre
          <6>3. Len(a) = Closings + 1 /\ \A i \in 1..Closings : a[i].k = "CloseComplete"
            BY <1>8, <6>2
          <6>4. Closings' = Closings
            BY <3>1 DEF Closings
          <6> QED BY <3>1, <3>5, <5>3, <6>3, <6>4 DEF Shape
        <5> QED BY <3>3, <5>1, <5>2, <5>3 DEF Sent
      <4> QED BY <1>6, <4>1, <4>2
    <3>10. UnitAt(call.at)' = UnitAt(call.at)
      BY <3>1 DEF UnitAt
    <3> QED BY <3>1, <3>4, <3>5, <3>6, <3>7, <3>8, <3>9, <3>10 DEF Answered
  <2> QED BY <1>12, <2>2, <2>3, <2>4, <2>5, <2>6 DEF PgInv
<1> QED BY <1>13, <1>14

-----------------------------------------------------------------------------
(* The client's steps.                                                     *)

\* A call that has nothing else in flight sends a unit.
LEMMA SendKeeps ==
    ASSUME PgInv, call # Closed, wbuf = <<>>, net = <<>>, replies' = <<>>,
           NEW m \in Units, wbuf' = Append(wbuf, m), pending' = 1,
           status' = TransactionStatus(session),
           cache' \in Seq(CacheEntries), Len(cache') <= Capacity,
           next_id' \in Ids \cup {MaxPrepares + 1},
           CacheSound', Harmless(m)',
           call' \in CallRecords, call'.at = "flush", Sent(m, call.then)', CallExact',
           UNCHANGED <<net, session, prepared, depth, handles, begun, fate, parent, acked, erred>>
    PROVE  PgInv'
<1>1. PgType
  BY DEF PgInv
<1>2. <<>> \in Seq(Units) /\ <<>> \in Seq(Messages) /\ Len(<<>>) = 0
  OBVIOUS
<1>3. wbuf' \in Seq(Units) /\ Len(wbuf') = 1 /\ wbuf'[1] = m
  BY <1>2
<1>4. TypeOK'
  <2>1. \A i \in DOMAIN cache' : cache'[i].sql \in Statements /\ cache'[i].id \in Ids
    <3>1. \A i \in DOMAIN cache' : cache'[i] \in CacheEntries
      OBVIOUS
    <3> QED BY <3>1 DEF CacheEntries
  <2>2. status' \in {"idle", "transaction", "error"}
    BY DEF TransactionStatus
  <2> QED BY <1>1, <2>1, <2>2 DEF PgType, TypeOK
<1>5. PgType'
  BY <1>1, <1>2, <1>3, <1>4 DEF PgType
<1>6. PendingExact'
  BY <1>2, <1>3, ReadiesEmpty, PendingThen
<1>7. LastIsReady'
  BY DEF LastIsReady, TransactionStatus, InTransaction
<1>8. CacheExact'
  BY <1>2, <1>3 DEF CacheExact
<1>9. Alone'
  BY <1>3 DEF Alone, Stages, ParseStages
<1> QED BY <1>5, <1>6, <1>7, <1>8, <1>9 DEF PgInv

\* A call that has nothing in flight returns Ok.
LEMMA ReturnKeeps ==
    ASSUME PgInv, call # Closed, wbuf = <<>>, net = <<>>, replies' = <<>>, pending' = 0,
           status' = TransactionStatus(session), Return,
           cache' \in Seq(CacheEntries), Len(cache') <= Capacity, CacheSound',
           UNCHANGED <<wbuf, net, session, prepared, next_id>>
    PROVE  PgInv'
<1>1. PgType /\ CallExact
  BY DEF PgInv
<1>2. <<>> \in Seq(Units) /\ <<>> \in Seq(Messages) /\ Len(<<>>) = 0
  OBVIOUS
<1>3. call' = NoCall /\ NoCall \in CallRecords /\ UNCHANGED <<begun, parent, erred>>
  BY DEF Return, NoCall, CallRecords
<1>4. TypeOK'
  <2>1. \A i \in DOMAIN cache' : cache'[i].sql \in Statements /\ cache'[i].id \in Ids
    <3>1. \A i \in DOMAIN cache' : cache'[i] \in CacheEntries
      OBVIOUS
    <3> QED BY <3>1 DEF CacheEntries
  <2>2. status' \in {"idle", "transaction", "error"}
    BY DEF TransactionStatus
  <2>3. acked' \subseteq Tx \cup {Outside}
    BY <1>1, TopAndPopped DEF Return, PgType, TypeOK
  <2>4. /\ depth' \in Nat /\ handles' \in Seq(Tx)
        /\ fate' \in [Tx -> {"new", "open", "committed", "aborted", "unknown"}]
    <3>1. CASE call.op \in {"Commit", "Rollback"}
      <4>1. handles # <<>> /\ depth > 0 /\ depth \in Nat
        BY <1>1, <3>1 DEF CallExact, PgType, TypeOK
      <4>2. Top \in Tx /\ Popped \in Seq(Tx)
        BY <1>1, <4>1, TopAndPopped
      <4> QED BY <1>1, <3>1, <4>1, <4>2 DEF Return, PgType, TypeOK
    <3>2. CASE call.op \notin {"Commit", "Rollback"}
      BY <1>1, <3>2 DEF Return, PgType, TypeOK
    <3> QED BY <3>1, <3>2
  <2> QED BY <1>1, <1>3, <2>1, <2>2, <2>3, <2>4 DEF PgType, TypeOK
<1>5. PgType'
  BY <1>1, <1>2, <1>3, <1>4 DEF PgType
<1>6. PendingExact'
  BY <1>2, ReadiesEmpty, PendingThen
<1>7. LastIsReady'
  BY DEF LastIsReady, TransactionStatus, InTransaction
<1>8. CacheExact'
  BY <1>2 DEF CacheExact
<1>9. CallExact' /\ Alone'
  BY <1>3 DEF CallExact, Alone, NoCall, Closed, AllCalls, Stages, ParseStages
<1> QED BY <1>5, <1>6, <1>7, <1>8, <1>9 DEF PgInv

\* run() goes on to Bind, the others return.
LEMMA BoundKeeps ==
    ASSUME PgInv, call # Closed, wbuf = <<>>, net = <<>>, replies' = <<>>,
           status' = TransactionStatus(session), NEW id \in Nat, Bound(id, 0),
           call.op \in {"Run", "Prepare", "ClearCache"},
           cache' \in Seq(CacheEntries), Len(cache') <= Capacity, CacheSound',
           UNCHANGED <<net, session, prepared, next_id>>
    PROVE  PgInv'
<1>1. PgType /\ CallExact
  BY DEF PgInv
<1>2. CASE call.op = "Run"
  <2>1. /\ Queue(BindUnit(id), 0) /\ call' = FlushThen("stream")
        /\ UNCHANGED <<depth, handles, begun, fate, parent, acked, erred>>
    BY <1>2 DEF Bound
  <2>2. <<>> \in Seq(Nat) /\ "none" \in Statements \cup {"none"}
    OBVIOUS
  <2>3. PICK m : m = BindUnit(id)
    OBVIOUS
  <2>4. m \in Units /\ m.u = "bind" /\ m.own /\ m.ids = <<>>
    BY <1>1, <2>2, <2>3, OtherUnits
  <2>5. wbuf' = Append(wbuf, m) /\ pending' = 1
    BY <2>1, <2>3 DEF Queue
  <2>6. Harmless(m)'
    BY <2>4 DEF Harmless
  <2>7. call \in CallRecords
    BY <1>1 DEF PgType
  <2>8. /\ call' \in CallRecords /\ call'.at = "flush" /\ call'.then = "stream"
        /\ call'.op = "Run" /\ call'.sql = call.sql
    BY <1>2, <2>1, <2>7 DEF FlushThen, CallRecords, Stages
  <2>9. Sent(m, call.then)'
    BY <2>4, <2>8 DEF Sent, UnitAt, ParseStages
  <2>10. CallExact'
    BY <1>1, <1>2, <2>8 DEF CallExact, AllCalls, ParseStages
  <2>11. next_id' \in Ids \cup {MaxPrepares + 1}
    BY <1>1 DEF PgType, TypeOK
  <2> QED BY <2>1, <2>4, <2>5, <2>6, <2>8, <2>9, <2>10, <2>11, SendKeeps
<1>3. CASE call.op # "Run"
  BY <1>3, ReturnKeeps DEF Bound
<1> QED BY <1>2, <1>3

\* The cache as it is, when a step does not touch it.
LEMMA CacheNow ==
    ASSUME PgInv, call # Closed
    PROVE  /\ cache \in Seq(CacheEntries) /\ Len(cache) <= Capacity /\ CacheSound
           /\ Len(cache) \in Nat /\ next_id \in Nat
           /\ UNCHANGED <<cache, next_id, prepared>> => CacheSound'
<1>1. cache \in Seq(CacheEntries) /\ Len(cache) <= Capacity /\ CacheSound /\ next_id \in Nat
  BY PgAssumption DEF PgInv, PgType, TypeOK, CacheExact, Ids
<1> QED BY <1>1 DEF CacheSound

\* What a ready call starts from.
LEMMA ReadyNow ==
    ASSUME PgInv, NEW ops, Ready(ops)
    PROVE  /\ call # Closed /\ call.at = "drain" /\ call.op \in ops
           /\ wbuf = <<>> /\ pending = 0 /\ net = <<>> /\ replies = <<>>
           /\ status = TransactionStatus(session) /\ CallExact /\ PgType /\ call \in CallRecords
<1>1. call # Closed
  BY DEF Ready, Closed, NoCall
<1> QED BY <1>1, DrainedEmpty DEF Ready, PgInv, PgType

\* wait_until_ready() reads a message.
LEMMA WaitKeeps ==
    ASSUME PgInv, WaitUntilReady
    PROVE  PgInv'
<1>1. call.at = "drain" /\ wbuf = <<>> /\ pending > 0 /\ replies # <<>>
  BY DEF WaitUntilReady
<1>2. call # Closed
  BY <1>1 DEF Closed, NoCall
<1>3. PgType /\ LastIsReady /\ CacheExact /\ CallExact /\ Alone
  BY <1>2 DEF PgInv
<1>4. CASE Head(replies).k = "ErrorResponse" /\ Fail(Tail(replies))
  BY <1>1, <1>2, <1>4, FailTailKeeps
<1>5. CASE /\ Head(replies).k # "ErrorResponse"
           /\ replies' = Tail(replies)
           /\ IF Head(replies).k = "ReadyForQuery"
              THEN pending' = pending - 1 /\ status' = Head(replies).st
              ELSE UNCHANGED <<pending, status>>
           /\ UNCHANGED <<wbuf, depth, cache, next_id, net, session, prepared, app>>
  <2>1. replies \in Seq(Messages)
    BY <1>3 DEF PgType
  <2>2. /\ replies' \in Seq(Messages) /\ Len(replies') = Len(replies) - 1 /\ Len(replies) \in Nat
        /\ \A i \in 1..Len(replies') : replies'[i] = replies[i + 1]
        /\ Head(replies) = replies[1] /\ Head(replies) \in Messages
        /\ replies' = <<>> => Len(replies) = 1
        /\ replies' # <<>> => replies'[Len(replies')] = replies[Len(replies)]
    BY <1>1, <1>5, <2>1, TailEnds
  <2>3. /\ pending = Len(wbuf) + Len(net) + Readies(replies) /\ Readies(replies) \in Nat
        /\ pending \in Nat /\ Len(wbuf) \in Nat /\ Len(net) \in Nat
    BY <1>2, PendingNow
  <2>4. Readies(replies') = Readies(replies) - (IF Head(replies).k = "ReadyForQuery" THEN 1 ELSE 0)
    BY <1>1, <1>5, <2>1, ReadiesTail
  <2>5. pending' = Len(wbuf') + Len(net') + Readies(replies') /\ pending' \in Nat
    BY <1>1, <1>5, <2>3, <2>4
  <2>6. PendingExact'
    BY <2>2, <2>5, PendingThen
  <2>7. status' \in {"idle", "transaction", "error"}
    <3>1. 1 \in 1..Len(replies)
      BY <1>1, <2>1
    <3> QED BY <1>3, <1>5, <2>2, <3>1 DEF PgType, TypeOK, Statuses
  <2>8. \A i \in 1..Len(replies') : replies'[i].k = "ReadyForQuery" => replies'[i].st \in Statuses
    <3>1. \A i \in 1..Len(replies') : i + 1 \in 1..Len(replies) /\ replies'[i] = replies[i + 1]
      BY <2>2
    <3> QED BY <1>3, <3>1 DEF PgType
  <2>9. PgType'
    BY <1>3, <1>5, <2>2, <2>5, <2>7, <2>8 DEF PgType, TypeOK, app
  <2>10. LastIsReady'
    <3>1. TransactionStatus(session)' = TransactionStatus(session)
      BY <1>5 DEF TransactionStatus, InTransaction
    <3>2. /\ replies[Len(replies)].k = "ReadyForQuery"
          /\ replies[Len(replies)].st = TransactionStatus(session)
      BY <1>1, <1>3 DEF LastIsReady
    <3> QED BY <1>5, <2>2, <3>1, <3>2 DEF LastIsReady
  <2>11. CacheExact'
    <3>1. CachedIds' = CachedIds
      BY <1>5 DEF CachedIds
    <3> QED BY <1>3, <1>5, <3>1 DEF CacheExact, CacheSound, Harmless
  <2>12. CallExact' /\ Alone'
    BY <1>1, <1>3, <1>5
    DEF CallExact, Alone, NoCall, Closed, AllCalls, Stages, ParseStages, app
  <2> QED BY <2>6, <2>9, <2>10, <2>11, <2>12 DEF PgInv
<1> QED BY <1>4, <1>5 DEF WaitUntilReady

\* begin() returns.
LEMMA BeginReadyKeeps ==
    ASSUME PgInv, BeginReady
    PROVE  PgInv'
<1>1. Ready({"Begin"})
  BY DEF BeginReady
<1>2. /\ call # Closed /\ call.at = "drain" /\ call.op = "Begin"
      /\ wbuf = <<>> /\ pending = 0 /\ net = <<>> /\ replies = <<>>
      /\ status = TransactionStatus(session) /\ CallExact /\ PgType
  BY <1>1, ReadyNow
<1>3. CASE status # "transaction" /\ Fail(replies)
  <2>1. replies \in Seq(Messages) /\ ReadyStatuses(replies) /\ EndsReady(replies)
    BY <1>2 DEF PgType, ReadyStatuses, EndsReady
  <2> QED BY <1>2, <1>3, <2>1, FailKeeps
<1>4. CASE /\ depth' = depth + 1 /\ call' = NoCall
           /\ handles' = Append(handles, begun + 1) /\ begun' = begun + 1
           /\ fate' = [fate EXCEPT ![begun + 1] = "open"]
           /\ parent' = [parent EXCEPT ![begun + 1] = Top]
           /\ UNCHANGED <<wbuf, pending, status, cache, next_id, server, acked, erred>>
  <2>1. begun < MaxTx /\ begun \in 0..MaxTx /\ MaxTx \in Nat
    BY <1>2, PgAssumption DEF CallExact, PgType
  <2>2. begun + 1 \in Tx /\ begun' \in 0..MaxTx
    BY <1>4, <2>1 DEF Tx
  <2>3. Top \in Tx \cup {Outside}
    BY <1>2, TopAndPopped
  <2>4. /\ handles' \in Seq(Tx) /\ parent' \in [Tx -> Tx \cup {Outside}] /\ depth' \in Nat
        /\ fate' \in [Tx -> {"new", "open", "committed", "aborted", "unknown"}]
    BY <1>2, <1>4, <2>2, <2>3 DEF PgType, TypeOK
  <2>5. NoCall \in CallRecords
    BY DEF NoCall, CallRecords
  <2>6. PgType'
    BY <1>2, <1>4, <2>2, <2>4, <2>5 DEF PgType, TypeOK, server
  <2>7. PendingExact'
    <3>1. pending' = pending /\ wbuf' = wbuf /\ net' = net /\ replies' = replies
          /\ replies' \in Seq(Messages)
      BY <1>2, <1>4 DEF PgType, server
    <3> QED BY <1>2, <3>1, PendingNow, PendingThen
  <2>8. LastIsReady'
    BY <1>2, <1>4 DEF LastIsReady, TransactionStatus, InTransaction, server
  <2>9. CacheExact'
    BY <1>2, <1>4, CacheNow DEF CacheExact, server
  <2>10. CallExact' /\ Alone'
    BY <1>4 DEF CallExact, Alone, NoCall, Closed, AllCalls, Stages, ParseStages
  <2> QED BY <2>6, <2>7, <2>8, <2>9, <2>10 DEF PgInv
<1> QED BY <1>3, <1>4 DEF BeginReady

\* ping() returns.
LEMMA PingReadyKeeps ==
    ASSUME PgInv, PingReady
    PROVE  PgInv'
<1>1. Ready({"Ping"}) /\ Return /\ UNCHANGED <<wbuf, pending, status, cache, next_id, server>>
  BY DEF PingReady
<1>2. /\ call # Closed /\ wbuf = <<>> /\ pending = 0 /\ net = <<>> /\ replies = <<>>
      /\ status = TransactionStatus(session)
  BY <1>1, ReadyNow
<1>3. cache' \in Seq(CacheEntries) /\ Len(cache') <= Capacity /\ CacheSound'
  BY <1>1, <1>2, CacheNow DEF server
<1> QED BY <1>1, <1>2, <1>3, ReturnKeeps DEF server

\* The simple protocol sends its statement.
LEMMA QueryReadyKeeps ==
    ASSUME PgInv, QueryReady
    PROVE  PgInv'
<1>1. PICK q, m :
        /\ q = CASE call.op = "Execute"  -> Write
                 [] call.op = "Commit"   -> CommitSql(depth)
                 [] call.op = "Rollback" -> RollbackSql(depth)
        /\ m = Query(q) /\ Queue(m, pending)
  BY DEF QueryReady
<1>2. /\ Ready({"Execute", "Commit", "Rollback"}) /\ call' = FlushThen("stream")
      /\ UNCHANGED <<status, depth, cache, next_id, server,
                     handles, begun, fate, parent, acked, erred>>
  BY DEF QueryReady
<1>3. /\ call # Closed /\ call.at = "drain" /\ call.op \in {"Execute", "Commit", "Rollback"}
      /\ wbuf = <<>> /\ pending = 0 /\ net = <<>> /\ replies = <<>>
      /\ status = TransactionStatus(session) /\ CallExact /\ PgType /\ call \in CallRecords
  BY <1>2, ReadyNow
<1>4. q \in [verb : Verbs \cup {"WRITE"}, name : Nat]
  <2>1. Write \in [verb : Verbs \cup {"WRITE"}, name : Nat]
    BY <1>3, TopAndPopped DEF Write
  <2>2. depth \in Nat /\ (call.op \in {"Commit", "Rollback"} => depth > 0)
    BY <1>3 DEF CallExact, PgType, TypeOK
  <2> QED BY <1>1, <1>3, <2>1, <2>2, TransactionSql
<1>5. m \in Units /\ m.u = "query" /\ m.own /\ m.ids = <<>>
  BY <1>1, <1>4, QueryUnit
<1>6. wbuf' = Append(wbuf, m) /\ pending' = 1
  BY <1>1, <1>3 DEF Queue
<1>7. Harmless(m)'
  BY <1>5 DEF Harmless
<1>8. /\ call' \in CallRecords /\ call'.at = "flush" /\ call'.then = "stream"
      /\ call'.op = call.op /\ call'.sql = call.sql
  BY <1>2, <1>3 DEF FlushThen, CallRecords, Stages
<1>9. Sent(m, call.then)'
  BY <1>3, <1>5, <1>8 DEF Sent, UnitAt, ParseStages
<1>10. CallExact'
  BY <1>2, <1>3, <1>8 DEF CallExact, AllCalls, ParseStages
<1>11. cache' \in Seq(CacheEntries) /\ Len(cache') <= Capacity /\ CacheSound'
       /\ next_id' \in Ids \cup {MaxPrepares + 1}
  BY <1>2, <1>3, CacheNow DEF server, PgType, TypeOK
<1>12. UNCHANGED <<net, session, prepared>> /\ replies' = <<>> /\ status' = TransactionStatus(session)
  BY <1>2, <1>3 DEF server
<1> QED BY <1>2, <1>3, <1>5, <1>6, <1>7, <1>8, <1>9, <1>10, <1>11, <1>12, SendKeeps

\* A hit moves the entry to the end and changes nothing else.
LEMMA TouchedIs ==
    ASSUME NEW s, cache \in Seq(CacheEntries), Entries(s) # {}
    PROVE  \E i \in 1..Len(cache) :
             /\ Touched(s) \in Seq(CacheEntries) /\ Len(Touched(s)) = Len(cache)
             /\ \A j \in 1..Len(cache) :
                  Touched(s)[j] = cache[IF j < i THEN j ELSE IF j < Len(cache) THEN j + 1 ELSE i]
<1>1. PICK i : i = CHOOSE x \in Entries(s) : TRUE
  OBVIOUS
<1>2. i \in 1..Len(cache) /\ Len(cache) \in Nat
  BY <1>1 DEF Entries
<1>3. PICK a, b : a = SubSeq(cache, 1, i - 1) /\ b = SubSeq(cache, i + 1, Len(cache))
  OBVIOUS
<1>4. /\ a \in Seq(CacheEntries) /\ Len(a) = i - 1
      /\ \A j \in 1..(i - 1) : a[j] = cache[j]
  BY <1>2, <1>3
<1>5. /\ b \in Seq(CacheEntries) /\ Len(b) = Len(cache) - i
      /\ \A j \in 1..(Len(cache) - i) : b[j] = cache[i + j]
  <2>1. \A j \in 1..(Len(cache) - i) : b[j] = cache[i + 1 + j - 1]
    BY <1>2, <1>3
  <2>2. \A j \in 1..(Len(cache) - i) : i + 1 + j - 1 = i + j
    BY <1>2
  <2> QED BY <1>2, <1>3, <2>1, <2>2
<1>6. PICK c : c = a \o b
  OBVIOUS
<1>7. /\ c \in Seq(CacheEntries) /\ Len(c) = Len(cache) - 1
      /\ \A j \in 1..(Len(cache) - 1) : c[j] = IF j < i THEN cache[j] ELSE cache[j + 1]
  <2>1. /\ c \in Seq(CacheEntries) /\ Len(c) = Len(a) + Len(b)
        /\ \A j \in 1..Len(a) + Len(b) : c[j] = IF j <= Len(a) THEN a[j] ELSE b[j - Len(a)]
    BY <1>4, <1>5, <1>6, ConcatProperties
  <2>2. ASSUME NEW j \in 1..(Len(cache) - 1) PROVE c[j] = IF j < i THEN cache[j] ELSE cache[j + 1]
    <3>0. /\ j \in 1..Len(a) + Len(b) /\ Len(a) = i - 1
          /\ c[j] = IF j <= Len(a) THEN a[j] ELSE b[j - Len(a)]
      BY <1>2, <1>4, <1>5, <2>1
    <3>1. CASE j < i
      <4>1. j \in 1..(i - 1) /\ j <= Len(a)
        BY <1>2, <3>0, <3>1
      <4> QED BY <1>4, <3>0, <3>1, <4>1
    <3>2. CASE ~(j < i)
      <4>1. c[j] = b[j - (i - 1)] /\ j - (i - 1) \in 1..(Len(cache) - i)
        BY <1>2, <3>0, <3>2
      <4>2. b[j - (i - 1)] = cache[i + (j - (i - 1))] /\ i + (j - (i - 1)) = j + 1
        BY <1>2, <1>5, <4>1
      <4> QED BY <3>2, <4>1, <4>2
    <3> QED BY <3>1, <3>2
  <2> QED BY <1>2, <1>4, <1>5, <2>1, <2>2
<1>8. Touched(s) = Append(c, cache[i])
  BY <1>1, <1>3, <1>6 DEF Touched
<1>9. cache[i] \in CacheEntries
  BY <1>2
<1>10. /\ Touched(s) \in Seq(CacheEntries) /\ Len(Touched(s)) = Len(cache)
       /\ \A j \in 1..Len(cache) : Touched(s)[j] = IF j < Len(cache) THEN c[j] ELSE cache[i]
  BY <1>2, <1>7, <1>8, <1>9
<1>11. \A j \in 1..Len(cache) :
         Touched(s)[j] = cache[IF j < i THEN j ELSE IF j < Len(cache) THEN j + 1 ELSE i]
  BY SMTT(30), <1>2, <1>7, <1>10
<1> QED BY <1>2, <1>10, <1>11

\* So it keeps the cache sound.
LEMMA TouchedSound ==
    ASSUME PgInv, call # Closed, NEW s, Entries(s) # {}, cache' = Touched(s),
           UNCHANGED <<next_id, prepared>>
    PROVE  /\ cache' \in Seq(CacheEntries) /\ Len(cache') = Len(cache) /\ Len(cache) \in Nat \ {0}
           /\ CacheSound'
<1>1. /\ cache \in Seq(CacheEntries) /\ CacheSound /\ Len(cache) \in Nat
  BY CacheNow
<1>2. PICK i \in 1..Len(cache) :
        /\ cache' \in Seq(CacheEntries) /\ Len(cache') = Len(cache)
        /\ \A j \in 1..Len(cache) :
             cache'[j] = cache[IF j < i THEN j ELSE IF j < Len(cache) THEN j + 1 ELSE i]
  BY <1>1, TouchedIs
<1> DEFINE P(j) == IF j < i THEN j ELSE IF j < Len(cache) THEN j + 1 ELSE i
<1>3. \A j \in 1..Len(cache) : P(j) \in 1..Len(cache) /\ cache'[j] = cache[P(j)]
  BY <1>1, <1>2
<1>4. \A j, k \in 1..Len(cache) : P(j) = P(k) => j = k
  BY <1>1
<1>5. \A j \in 1..Len(cache') : cache'[j].id < next_id' /\ prepared'[cache'[j].id] = cache'[j].sql
  BY <1>1, <1>2, <1>3 DEF CacheSound
<1>6. \A j, k \in 1..Len(cache') : cache'[j].id = cache'[k].id => j = k
  <2>1. SUFFICES ASSUME NEW j \in 1..Len(cache), NEW k \in 1..Len(cache),
                        cache'[j].id = cache'[k].id
                 PROVE  j = k
    BY <1>2
  <2>2. PICK p, q \in 1..Len(cache) : p = P(j) /\ q = P(k) /\ cache'[j] = cache[p] /\ cache'[k] = cache[q]
    BY <1>3
  <2>3. p = q
    BY <1>1, <2>1, <2>2 DEF CacheSound
  <2> QED BY <1>4, <2>2, <2>3
<1> QED BY <1>1, <1>2, <1>5, <1>6 DEF CacheSound

\* get_or_prepare() hits, or sends Parse.
LEMMA PrepareReadyKeeps ==
    ASSUME PgInv, PrepareReady
    PROVE  PgInv'
<1>1. Ready({"Run", "Prepare"})
  BY DEF PrepareReady
<1>2. /\ call # Closed /\ call.at = "drain" /\ call.op \in {"Run", "Prepare"}
      /\ wbuf = <<>> /\ pending = 0 /\ net = <<>> /\ replies = <<>>
      /\ status = TransactionStatus(session) /\ CallExact /\ PgType /\ call \in CallRecords
  BY <1>1, ReadyNow
<1>3. /\ cache \in Seq(CacheEntries) /\ Len(cache) <= Capacity /\ CacheSound /\ Len(cache) \in Nat
      /\ next_id \in Nat
  BY <1>2, CacheNow
<1>4. CASE /\ Entries(call.sql) # {} /\ cache' = Touched(call.sql)
           /\ Bound(cache'[Len(cache)].id, pending)
           /\ UNCHANGED <<status, next_id, server>>
  <2>1. UNCHANGED <<net, session, prepared, next_id, replies, status>>
    BY <1>4 DEF server
  <2>2. cache' \in Seq(CacheEntries) /\ Len(cache') = Len(cache) /\ Len(cache) \in Nat \ {0}
        /\ CacheSound'
    BY <1>2, <1>4, <2>1, TouchedSound
  <2>3. PICK id : id = cache'[Len(cache)].id
    OBVIOUS
  <2>4. id \in Nat
    <3>1. cache'[Len(cache)] \in CacheEntries
      BY <2>2
    <3> QED BY <2>3, <3>1, PgAssumption DEF CacheEntries, Ids
  <2> QED BY <1>2, <1>3, <1>4, <2>1, <2>2, <2>3, <2>4, BoundKeeps
<1>5. CASE /\ Entries(call.sql) = {} /\ next_id' = next_id + 1
           /\ Queue(ParseUnit(next_id, call.sql), pending)
           /\ call' = [FlushThen("parse") EXCEPT !.n = next_id]
           /\ UNCHANGED <<status, depth, cache, server,
                          handles, begun, fate, parent, acked, erred>>
  <2>1. UNCHANGED <<net, session, prepared, cache, replies, status>>
    BY <1>5 DEF server
  <2>2. next_id \in Ids /\ call.sql \in Statements
    BY <1>2 DEF CallExact
  <2>3. next_id' \in Ids \cup {MaxPrepares + 1}
    BY <1>5, <2>2, PgAssumption DEF Ids
  <2>4. PICK m : m = ParseUnit(next_id, call.sql)
    OBVIOUS
  <2>5. /\ m \in Units /\ m.u = "parse" /\ m.id = next_id /\ m.sql = call.sql
        /\ m.ids = <<>> /\ m.own
    <3>1. <<>> \in Seq(Nat)
      OBVIOUS
    <3>2. PICK s, id : s = call.sql /\ id = next_id
      OBVIOUS
    <3>3. s \in Statements \cup {"none"} /\ id \in Nat /\ m = ParseUnit(id, s)
      BY <1>3, <2>2, <2>4, <3>2
    <3>4. /\ ParseUnit(id, s) \in Units /\ ParseUnit(id, s).u = "parse"
          /\ ParseUnit(id, s).id = id /\ ParseUnit(id, s).sql = s
          /\ ParseUnit(id, s).ids = <<>> /\ ParseUnit(id, s).own
      BY ZenonT(30), <1>2, <3>1, <3>3, OtherUnits
    <3> QED BY <3>2, <3>3, <3>4
  <2>6. wbuf' = Append(wbuf, m) /\ pending' = 1
    BY <1>2, <1>5, <2>4 DEF Queue
  <2>7. \A i \in 1..Len(cache) : cache[i].id \in Nat /\ cache[i].id < next_id
    <3>1. \A i \in 1..Len(cache) : cache[i] \in CacheEntries
      BY <1>3
    <3> QED BY <1>3, <3>1, PgAssumption DEF CacheSound, CacheEntries, Ids
  <2>8. CachedIds' = CachedIds /\ next_id \notin CachedIds
    BY <1>3, <2>1, <2>7 DEF CachedIds
  <2>9. Harmless(m)'
    <3>1. m.id \in 1..(next_id' - 1)
      BY <1>3, <1>5, <2>2, <2>5, PgAssumption DEF Ids
    <3> QED BY <2>5, <2>8, <3>1 DEF Harmless
  <2>10. CacheSound'
    BY <1>3, <1>5, <2>1, <2>7 DEF CacheSound
  <2>11. /\ call' \in CallRecords /\ call'.at = "flush" /\ call'.then = "parse"
         /\ call'.op = call.op /\ call'.sql = call.sql /\ call'.n = next_id
    BY <1>2, <1>3, <1>5 DEF FlushThen, CallRecords, Stages, ParseStages
  <2>12. Sent(m, call.then)'
    BY <2>5, <2>11 DEF Sent, UnitAt, ParseStages
  <2>13. CallExact'
    BY <1>2, <1>3, <1>5, <2>2, <2>8, <2>11 DEF CallExact, AllCalls, ParseStages
  <2> QED BY <1>2, <1>3, <1>5, <2>1, <2>3, <2>5, <2>6, <2>9, <2>10, <2>11, <2>12, <2>13, SendKeeps
<1> QED BY <1>4, <1>5 DEF PrepareReady

\* clear_cached_statements() returns, or sends Close for every statement.
LEMMA ClearReadyKeeps ==
    ASSUME PgInv, ClearReady
    PROVE  PgInv'
<1>1. Ready({"ClearCache"}) /\ cache' = <<>> /\ UNCHANGED <<status, next_id, server>>
  BY DEF ClearReady
<1>2. /\ call # Closed /\ call.at = "drain" /\ call.op = "ClearCache"
      /\ wbuf = <<>> /\ pending = 0 /\ net = <<>> /\ replies = <<>>
      /\ status = TransactionStatus(session) /\ CallExact /\ PgType /\ call \in CallRecords
  BY <1>1, ReadyNow
<1>3. UNCHANGED <<net, session, prepared, replies>>
  BY <1>1 DEF server
<1>4. cache' \in Seq(CacheEntries) /\ Len(cache') <= Capacity /\ CacheSound' /\ CachedIds' = {}
  <2>1. Len(cache') = 0 /\ cache' \in Seq(CacheEntries)
    BY <1>1
  <2> QED BY <2>1, PgAssumption DEF CacheSound, CachedIds
<1>5. CASE cache = <<>>
  BY <1>1, <1>2, <1>3, <1>4, <1>5, ReturnKeeps DEF ClearReady
<1>6. CASE cache # <<>>
  <2>1. PICK ids, m : ids = [i \in DOMAIN cache |-> cache[i].id] /\ m = CloseUnit(ids)
    OBVIOUS
  <2>2. /\ Queue(m, pending) /\ call' = [FlushThen("closing") EXCEPT !.n = Len(cache)]
        /\ UNCHANGED <<depth, handles, begun, fate, parent, acked, erred>>
    BY <1>6, <2>1 DEF ClearReady
  <2>3. cache \in Seq(CacheEntries) /\ Len(cache) \in Nat \ {0} /\ DOMAIN cache = 1..Len(cache)
    BY <1>2, <1>6, CacheNow
  <2>4. ids \in Seq(Nat) /\ Len(ids) = Len(cache)
    <3>1. \A i \in 1..Len(cache) : cache[i] \in CacheEntries
      BY <2>3
    <3>2. \A i \in 1..Len(cache) : cache[i].id \in Nat
      BY <3>1, PgAssumption DEF CacheEntries, Ids
    <3> QED BY <2>1, <2>3, <3>2
  <2>5. m \in Units /\ m.u = "close" /\ m.own /\ m.ids = ids
    <3>1. 0 \in Nat /\ "none" \in Statements \cup {"none"}
      OBVIOUS
    <3> QED BY <1>2, <2>1, <2>4, <3>1, OtherUnits
  <2>6. wbuf' = Append(wbuf, m) /\ pending' = 1
    BY <1>2, <2>2 DEF Queue
  <2>7. Harmless(m)'
    BY <1>4, <2>5 DEF Harmless
  <2>8. /\ call' \in CallRecords /\ call'.at = "flush" /\ call'.then = "closing"
        /\ call'.op = "ClearCache" /\ call'.sql = call.sql /\ call'.n = Len(cache)
    BY <1>2, <2>2, <2>3 DEF FlushThen, CallRecords, Stages
  <2>9. Sent(m, call.then)'
    BY <2>4, <2>5, <2>8 DEF Sent, UnitAt, ParseStages, Closings
  <2>10. CallExact'
    BY <1>2, <2>3, <2>8 DEF CallExact, AllCalls, ParseStages
  <2>11. next_id' \in Ids \cup {MaxPrepares + 1}
    BY <1>1, <1>2 DEF PgType, TypeOK
  <2> QED BY <1>1, <1>2, <1>3, <1>4, <2>2, <2>5, <2>6, <2>7, <2>8, <2>9, <2>10, <2>11, SendKeeps
<1> QED BY <1>5, <1>6

\* What a call that reads its answer starts from.
LEMMA ReadingNow ==
    ASSUME PgInv, call.at \in Stages, replies # <<>>
    PROVE  /\ call # Closed /\ wbuf = <<>> /\ net = <<>> /\ pending = 1 /\ Answered
           /\ PgType /\ LastIsReady /\ CacheExact /\ CallExact /\ call \in CallRecords
           /\ replies \in Seq(Messages) /\ Len(replies) \in Nat \ {0}
           /\ Head(replies) = replies[1] /\ Head(replies) \in Messages
<1>1. call # Closed
  BY DEF Closed, NoCall, Stages, ParseStages
<1>2. PgType /\ LastIsReady /\ CacheExact /\ CallExact /\ Alone
  BY <1>1 DEF PgInv
<1>3. replies \in Seq(Messages) /\ call \in CallRecords
  BY <1>2 DEF PgType
<1>4. Len(replies) \in Nat \ {0} /\ Head(replies) = replies[1] /\ Head(replies) \in Messages
  BY <1>3
<1> QED BY <1>1, <1>2, <1>3, <1>4 DEF Alone

\* ReadyForQuery ends the answer and tells the state of the session.
LEMMA ReadyEnds ==
    ASSUME PgInv, call.at \in Stages, replies # <<>>, Head(replies).k = "ReadyForQuery"
    PROVE  Tail(replies) = <<>> /\ Head(replies).st = TransactionStatus(session)
<1>1. /\ Answered /\ LastIsReady /\ replies \in Seq(Messages) /\ Len(replies) \in Nat \ {0}
      /\ Head(replies) = replies[1]
  BY ReadingNow
<1>2. Len(replies) = 1
  <2>1. \A i \in 1..(Len(replies) - 1) : replies[i].k # "ReadyForQuery"
    BY <1>1 DEF Answered
  <2>2. 1 \notin 1..(Len(replies) - 1)
    <3>1. replies[1].k = "ReadyForQuery"
      BY <1>1
    <3> QED BY <2>1, <3>1
  <2>3. PICK n \in Nat \ {0} : n = Len(replies)
    BY <1>1
  <2>4. n = 1
    BY <2>2, <2>3
  <2> QED BY <2>3, <2>4
<1>3. Tail(replies) = <<>>
  <2>1. PICK t : t = Tail(replies)
    OBVIOUS
  <2>2. t \in Seq(Messages) /\ Len(t) = 0
    BY <1>1, <1>2, <2>1, TailEnds
  <2>3. t = <<>>
    BY <2>2
  <2> QED BY <2>1, <2>3
<1> QED BY <1>1, <1>2, <1>3 DEF LastIsReady

\* A message before ReadyForQuery is read.
LEMMA ReadKeeps ==
    ASSUME PgInv, call.at \in Stages, replies # <<>>, Head(replies).k # "ReadyForQuery",
           replies' = Tail(replies), UNCHANGED <<inner, net, session, prepared>>,
           UNCHANGED <<handles, begun, fate, parent, acked, erred>>,
           call' \in CallRecords, call'.at \in Stages, CallExact',
           UnitAt(call.at)' = UnitAt(call.at), Shape'
    PROVE  PgInv'
<1>1. /\ call # Closed /\ wbuf = <<>> /\ net = <<>> /\ pending = 1 /\ Answered
      /\ PgType /\ LastIsReady /\ CacheExact
      /\ replies \in Seq(Messages) /\ Len(replies) \in Nat \ {0}
      /\ Head(replies) = replies[1]
  BY ReadingNow
<1>2. /\ replies' \in Seq(Messages) /\ Len(replies') = Len(replies) - 1
      /\ \A i \in 1..Len(replies') : i + 1 \in 1..Len(replies) /\ replies'[i] = replies[i + 1]
      /\ replies' = <<>> => Len(replies) = 1
      /\ replies' # <<>> => replies'[Len(replies')] = replies[Len(replies)]
  BY <1>1, TailEnds
<1>3. /\ replies[Len(replies)].k = "ReadyForQuery"
      /\ replies[Len(replies)].st = TransactionStatus(session)
  BY <1>1 DEF LastIsReady
<1>4. replies' # <<>>
  BY <1>1, <1>2, <1>3
<1>5. PgType'
  <2>1. \A i \in 1..Len(replies') : replies'[i].k = "ReadyForQuery" => replies'[i].st \in Statuses
    BY <1>1, <1>2 DEF PgType
  <2> QED BY <1>1, <1>2, <2>1 DEF PgType, TypeOK, inner
<1>6. PendingExact'
  <2>1. Readies(replies') = Readies(replies)
    BY <1>1, ReadiesTail, ReadiesType
  <2>2. pending' = pending /\ wbuf' = wbuf /\ net' = net
    BY DEF inner
  <2>3. pending' = Len(wbuf') + Len(net') + Readies(replies')
    BY <1>1, <2>1, <2>2, PendingNow
  <2> QED BY <1>2, <2>3, PendingThen
<1>7. LastIsReady'
  BY <1>2, <1>3, <1>4 DEF LastIsReady, TransactionStatus, InTransaction
<1>8. CacheExact'
  <2>1. CachedIds' = CachedIds
    BY DEF CachedIds, inner
  <2> QED BY <1>1, <2>1 DEF CacheExact, CacheSound, Harmless, inner
<1>9. Alone'
  <2>1. call'.at # "flush"
    BY DEF Stages, ParseStages
  <2>2. wbuf' = <<>> /\ net' = <<>> /\ pending' = 1
    BY <1>1 DEF inner
  <2>3. \A i \in 1..Len(replies') : replies'[i].own /\ replies'[i].u = UnitAt(call.at)
    BY <1>1, <1>2 DEF Answered
  <2>4. \A i \in 1..(Len(replies') - 1) : replies'[i].k # "ReadyForQuery"
    <3>1. \A i \in 1..(Len(replies') - 1) : i \in 1..Len(replies') /\ i + 1 \in 1..(Len(replies) - 1)
      BY <1>1, <1>2
    <3> QED BY <1>1, <1>2, <3>1 DEF Answered
  <2>5. Answered'
    BY <1>4, <2>3, <2>4 DEF Answered
  <2> QED BY <2>1, <2>2, <2>5 DEF Alone
<1> QED BY <1>5, <1>6, <1>7, <1>8, <1>9 DEF PgInv

\* An answer is either the error, or the message that the stage expects.
LEMMA ExpectedOrError ==
    ASSUME PgInv, Receives
    PROVE  /\ call.at \in Stages /\ replies # <<>>
           /\ Head(replies).k # Expected[call.at] => Head(replies).k = "ErrorResponse"
<1>1. call.at \in {"parse", "params", "rows", "parsed", "closing", "closed"} /\ replies # <<>>
  BY DEF Receives, Expected
<1>2. call.at \in Stages
  BY <1>1 DEF Stages, ParseStages
<1>3. /\ Answered /\ LastIsReady /\ CallExact /\ replies \in Seq(Messages)
      /\ Head(replies) = replies[1] /\ call \in CallRecords
  BY <1>1, <1>2, ReadingNow
<1>4. Closings \in Nat \ {0} \/ call.at # "closing"
  BY <1>3 DEF Closings, CallExact, CallRecords
<1>5. /\ call.at = "parse" => Expected[call.at] = "ParseComplete"
      /\ call.at = "params" => Expected[call.at] = "ParameterDescription"
      /\ call.at = "rows" => Expected[call.at] = "RowDescription"
      /\ call.at = "parsed" => Expected[call.at] = "ReadyForQuery"
      /\ call.at = "closing" => Expected[call.at] = "CloseComplete"
      /\ call.at = "closed" => Expected[call.at] = "ReadyForQuery"
  BY DEF Expected
<1>6. Shape /\ replies[Len(replies)].k = "ReadyForQuery"
  BY <1>1, <1>3 DEF LastIsReady, Answered
<1>7. PICK h : h = Head(replies)
  OBVIOUS
<1>8. SUFFICES ASSUME h.k # "ErrorResponse" PROVE replies[1].k = Expected[call.at]
  BY <1>1, <1>2, <1>3, <1>7
<1>9. CASE call.at = "parse"
  BY <1>5, <1>6, <1>7, <1>8, <1>9 DEF Shape
<1>10. CASE call.at = "params"
  BY <1>5, <1>6, <1>7, <1>8, <1>10 DEF Shape
<1>11. CASE call.at = "rows"
  BY <1>5, <1>6, <1>7, <1>8, <1>11 DEF Shape
<1>12. CASE call.at \in {"parsed", "closed"}
  <2>1. Len(replies) = 1
    BY <1>6, <1>7, <1>8, <1>12 DEF Shape
  <2> QED BY <1>5, <1>6, <1>12, <2>1
<1>13. CASE call.at = "closing"
  <2>1. 1 \in 1..Closings
    BY <1>4, <1>13
  <2>2. \A i \in 1..Closings : replies[i].k = "CloseComplete"
    BY <1>6, <1>7, <1>8, <1>13 DEF Shape
  <2> QED BY <1>5, <1>13, <2>1, <2>2
<1> QED BY <1>1, <1>9, <1>10, <1>11, <1>12, <1>13

\* An error ends the call.
LEMMA UnexpectedKeeps ==
    ASSUME PgInv, Unexpected
    PROVE  PgInv'
<1>1. /\ Receives /\ Head(replies).k # Expected[call.at] /\ Fail(Tail(replies))
  BY DEF Unexpected
<1>2. call.at \in Stages /\ replies # <<>> /\ Head(replies).k = "ErrorResponse"
  BY <1>1, ExpectedOrError
<1>3. call # Closed
  BY <1>2, ReadingNow
<1> QED BY <1>1, <1>2, <1>3, FailTailKeeps

\* prepare() reads on.
LEMMA ReceiveParseKeeps ==
    ASSUME PgInv, ReceiveParse
    PROVE  PgInv'
<1>1. /\ call.at \in {"parse", "params", "rows"} /\ replies # <<>>
      /\ Head(replies).k = Expected[call.at] /\ replies' = Tail(replies)
      /\ call' = [call EXCEPT !.at = Following[call.at]]
      /\ UNCHANGED <<inner, net, session, prepared, handles, begun, fate, parent, acked, erred>>
  BY DEF ReceiveParse, Receives, Following
<1>2. call.at \in Stages
  BY <1>1 DEF Stages, ParseStages
<1>3. /\ Answered /\ CallExact /\ replies \in Seq(Messages) /\ Len(replies) \in Nat \ {0}
      /\ Head(replies) = replies[1] /\ call \in CallRecords
  BY <1>1, <1>2, ReadingNow
<1>4. Head(replies).k \in {"ParseComplete", "ParameterDescription", "RowDescription"}
  BY <1>1 DEF Expected
<1>5. /\ call'.at = CASE call.at = "parse" -> "params" [] call.at = "params" -> "rows"
                      [] call.at = "rows" -> "parsed"
      /\ call'.op = call.op /\ call'.sql = call.sql /\ call'.n = call.n /\ call'.then = call.then
  BY <1>1, <1>3 DEF Following, CallRecords
<1>6. call' \in CallRecords /\ call'.at \in Stages /\ call'.at \in ParseStages
  BY <1>1, <1>3, <1>5 DEF CallRecords, Stages, ParseStages
<1>7. CachedIds' = CachedIds /\ next_id' = next_id /\ prepared' = prepared
  BY <1>1 DEF CachedIds, inner
<1>8. CallExact'
  BY <1>1, <1>3, <1>5, <1>6, <1>7 DEF CallExact, AllCalls, ParseStages, inner
<1>9. UnitAt(call.at)' = UnitAt(call.at)
  BY <1>1, <1>6 DEF UnitAt, ParseStages
<1>10. Shape'
  <2>1. Len(replies') = Len(replies) - 1 /\ \A i \in 1..Len(replies') : replies'[i] = replies[i + 1]
    BY <1>1, <1>3, TailEnds
  <2>2. Shape /\ Head(replies).k # "ErrorResponse"
    BY <1>3, <1>4 DEF Answered
  <2>3. CASE call.at = "parse"
    <3>1. /\ Len(replies) = 4 /\ replies[2].k = "ParameterDescription"
          /\ replies[3].k = "RowDescription" /\ prepared[call.n] = call.sql
      BY <2>2, <2>3 DEF Shape
    <3>2. replies'[1] = replies[2] /\ replies'[2] = replies[3] /\ Len(replies') = 3
      BY <2>1, <3>1
    <3> QED BY <1>5, <1>7, <2>3, <3>1, <3>2 DEF Shape
  <2>4. CASE call.at = "params"
    <3>1. Len(replies) = 3 /\ replies[2].k = "RowDescription" /\ prepared[call.n] = call.sql
      BY <2>2, <2>4 DEF Shape
    <3>2. replies'[1] = replies[2] /\ Len(replies') = 2
      BY <2>1, <3>1
    <3> QED BY <1>5, <1>7, <2>4, <3>1, <3>2 DEF Shape
  <2>5. CASE call.at = "rows"
    <3>1. Len(replies) = 2 /\ prepared[call.n] = call.sql
      BY <2>2, <2>5 DEF Shape
    <3> QED BY <1>5, <1>7, <2>1, <2>5, <3>1 DEF Shape
  <2> QED BY <1>1, <2>3, <2>4, <2>5
<1> QED BY <1>1, <1>2, <1>4, <1>6, <1>8, <1>9, <1>10, ReadKeeps

\* prepare() has its answer, and inserts the statement into the cache.
LEMMA ReceiveParsedKeeps ==
    ASSUME PgInv, ReceiveParsed
    PROVE  PgInv'
<1>1. /\ call.at = "parsed" /\ replies # <<>> /\ Head(replies).k = "ReadyForQuery"
      /\ replies' = Tail(replies) /\ status' = Head(replies).st
      /\ UNCHANGED <<next_id, net, session, prepared>>
  BY DEF ReceiveParsed, Receives
<1>2. call.at \in Stages
  BY <1>1 DEF Stages, ParseStages
<1>3. /\ call # Closed /\ wbuf = <<>> /\ net = <<>> /\ pending = 1 /\ Answered
      /\ PgType /\ CallExact /\ call \in CallRecords
  BY <1>1, <1>2, ReadingNow
<1>4. replies' = <<>> /\ status' = TransactionStatus(session)
  BY <1>1, <1>2, ReadyEnds
<1>5. /\ cache \in Seq(CacheEntries) /\ Len(cache) <= Capacity /\ CacheSound
      /\ Len(cache) \in Nat /\ next_id \in Nat
  BY <1>3, CacheNow
<1>6. /\ call.op \in {"Run", "Prepare"} /\ call.sql \in Statements
      /\ call.n \in Ids /\ call.n < next_id /\ call.n \notin CachedIds
  BY <1>1, <1>3 DEF CallExact, ParseStages
<1>7. prepared[call.n] = call.sql
  BY <1>1, <1>3 DEF Answered, Shape
<1>8. PICK entry : entry = [sql |-> call.sql, id |-> call.n]
  OBVIOUS
<1>9. entry \in CacheEntries /\ entry.sql = call.sql /\ entry.id = call.n
  BY <1>6, <1>8 DEF CacheEntries
<1>10. \A i \in 1..Len(cache) : cache[i] \in CacheEntries /\ cache[i].id \in Nat /\ cache[i].id # call.n
  <2>1. \A i \in 1..Len(cache) : cache[i] \in CacheEntries
    BY <1>5
  <2>2. \A i \in 1..Len(cache) : cache[i].id \in Nat
    BY <2>1, PgAssumption DEF CacheEntries, Ids
  <2>3. \A i \in 1..Len(cache) : cache[i].id # call.n
    BY <1>6 DEF CachedIds
  <2> QED BY <2>1, <2>2, <2>3
<1>11. call.n \in Nat /\ pending - 1 = 0
  BY <1>3, <1>6, PgAssumption DEF Ids
<1>12. CASE /\ Capacity > 0 /\ Len(cache) = Capacity
            /\ cache' = Append(Tail(cache), entry)
            /\ Queue(CloseUnit(<<Head(cache).id>>), pending - 1)
            /\ call' = FlushThen("closing")
            /\ UNCHANGED <<depth, handles, begun, fate, parent, acked, erred>>
  <2>1. Len(cache) \in Nat \ {0} /\ cache # <<>> /\ Head(cache) = cache[1]
    BY <1>5, <1>12
  <2>2. PICK t : t = Tail(cache)
    OBVIOUS
  <2>3. /\ t \in Seq(CacheEntries) /\ Len(t) = Len(cache) - 1
        /\ \A i \in 1..(Len(cache) - 1) : t[i] = cache[i + 1]
    BY <1>5, <2>1, <2>2
  <2>4. /\ cache' \in Seq(CacheEntries) /\ Len(cache') = Len(cache)
        /\ \A i \in 1..Len(cache) : cache'[i] = IF i < Len(cache) THEN cache[i + 1] ELSE entry
    <3>1. cache' = Append(t, entry)
      BY <1>12, <2>2
    <3>2. /\ cache' \in Seq(CacheEntries) /\ Len(cache') = Len(t) + 1
          /\ \A i \in 1..Len(t) + 1 : cache'[i] = IF i <= Len(t) THEN t[i] ELSE entry
      BY <1>9, <2>3, <3>1
    <3> QED BY <2>1, <2>3, <3>2
  <2>5. CacheSound'
    <3>1. \A i \in 1..Len(cache) : cache'[i].id < next_id /\ prepared[cache'[i].id] = cache'[i].sql
      <4>1. \A i \in 1..Len(cache) : i < Len(cache) => i + 1 \in 1..Len(cache)
        BY <2>1
      <4> QED BY <1>5, <1>6, <1>7, <1>9, <2>4, <4>1 DEF CacheSound
    <3>2. \A i, j \in 1..Len(cache) : cache'[i].id = cache'[j].id => i = j
      <4>1. SUFFICES ASSUME NEW i \in 1..Len(cache), NEW j \in 1..Len(cache),
                            cache'[i].id = cache'[j].id
                     PROVE  i = j
        OBVIOUS
      <4>2. CASE i < Len(cache) /\ j < Len(cache)
        <5>1. i + 1 \in 1..Len(cache) /\ j + 1 \in 1..Len(cache)
          BY <2>1, <4>2
        <5>2. cache[i + 1].id = cache[j + 1].id
          BY <2>4, <4>1, <4>2
        <5>3. i + 1 = j + 1
          BY <1>5, <5>1, <5>2 DEF CacheSound
        <5> QED BY <5>3
      <4>3. CASE i < Len(cache) /\ ~(j < Len(cache))
        <5>1. i + 1 \in 1..Len(cache)
          BY <2>1, <4>3
        <5> QED BY <1>9, <1>10, <2>4, <4>1, <4>3, <5>1
      <4>4. CASE ~(i < Len(cache)) /\ j < Len(cache)
        <5>1. j + 1 \in 1..Len(cache)
          BY <2>1, <4>4
        <5> QED BY <1>9, <1>10, <2>4, <4>1, <4>4, <5>1
      <4>5. CASE ~(i < Len(cache)) /\ ~(j < Len(cache))
        BY <2>1, <4>5
      <4> QED BY <4>2, <4>3, <4>4, <4>5
    <3> QED BY <1>1, <2>4, <3>1, <3>2 DEF CacheSound
  <2>6. PICK ids, m : ids = <<Head(cache).id>> /\ m = CloseUnit(ids)
    OBVIOUS
  <2>7. ids \in Seq(Nat) /\ Len(ids) = 1 /\ ids[1] = cache[1].id
    BY <1>10, <2>1, <2>6
  <2>8. m \in Units /\ m.u = "close" /\ m.own /\ m.ids = ids
    <3>1. 0 \in Nat /\ "none" \in Statements \cup {"none"}
      OBVIOUS
    <3> QED BY <1>3, <2>6, <2>7, <3>1, OtherUnits
  <2>9. wbuf' = Append(wbuf, m) /\ pending' = 1
    BY <1>11, <1>12, <2>6 DEF Queue
  <2>10. Harmless(m)'
    <3>1. \A i \in 1..Len(cache) : cache'[i].id # cache[1].id
      <4>1. SUFFICES ASSUME NEW i \in 1..Len(cache) PROVE cache'[i].id # cache[1].id
        OBVIOUS
      <4>2. CASE i < Len(cache)
        <5>1. i + 1 \in 1..Len(cache) /\ 1 \in 1..Len(cache) /\ i + 1 # 1 /\ cache'[i] = cache[i + 1]
          BY <2>1, <2>4, <4>2
        <5> QED BY <1>5, <5>1 DEF CacheSound
      <4>3. CASE ~(i < Len(cache))
        BY <1>9, <1>10, <2>1, <2>4, <4>3
      <4> QED BY <4>2, <4>3
    <3>2. cache[1].id \notin CachedIds'
      BY <2>4, <3>1 DEF CachedIds
    <3>3. m.u # "parse" /\ \A j \in 1..Len(m.ids) : m.ids[j] = cache[1].id
      <4>1. 1..Len(ids) = {1}
        BY <2>7
      <4>2. \A j \in 1..Len(ids) : ids[j] = cache[1].id
        BY <2>7, <4>1
      <4> QED BY <2>8, <4>2
    <3> QED BY <3>2, <3>3 DEF Harmless
  <2>11. /\ call' \in CallRecords /\ call'.at = "flush" /\ call'.then = "closing"
         /\ call'.op = call.op /\ call'.sql = call.sql
    BY <1>3, <1>12 DEF FlushThen, CallRecords, Stages
  <2>12. Sent(m, call.then)'
    BY <1>6, <2>7, <2>8, <2>11 DEF Sent, UnitAt, ParseStages, Closings
  <2>13. CallExact'
    BY <1>6, <2>11 DEF CallExact, AllCalls, ParseStages
  <2>14. next_id' \in Ids \cup {MaxPrepares + 1}
    BY <1>1, <1>3 DEF PgType, TypeOK
  <2> QED BY <1>1, <1>3, <1>4, <1>5, <1>12, <2>4, <2>5, <2>8, <2>9, <2>10, <2>11, <2>12, <2>13, <2>14,
             SendKeeps
<1>13. CASE /\ Capacity = 0 \/ Len(cache) < Capacity
            /\ cache' = IF Capacity = 0 THEN cache ELSE Append(cache, entry)
            /\ Bound(call.n, pending - 1)
  <2>1. cache' \in Seq(CacheEntries) /\ Len(cache') <= Capacity /\ CacheSound'
    <3>1. CASE Capacity = 0
      BY <1>1, <1>3, <1>13, <3>1, CacheNow
    <3>2. CASE Capacity # 0
      <4>1. /\ cache' \in Seq(CacheEntries) /\ Len(cache') = Len(cache) + 1
            /\ \A i \in 1..Len(cache) + 1 : cache'[i] = IF i <= Len(cache) THEN cache[i] ELSE entry
        BY <1>5, <1>9, <1>13, <3>2
      <4>2. \A i \in 1..Len(cache) + 1 : cache'[i].id < next_id /\ prepared[cache'[i].id] = cache'[i].sql
        BY <1>5, <1>6, <1>7, <1>9, <4>1 DEF CacheSound
      <4>3. \A i, j \in 1..Len(cache) + 1 : cache'[i].id = cache'[j].id => i = j
        <5>1. SUFFICES ASSUME NEW i \in 1..Len(cache) + 1, NEW j \in 1..Len(cache) + 1,
                              cache'[i].id = cache'[j].id
                       PROVE  i = j
          OBVIOUS
        <5>2. CASE i <= Len(cache) /\ j <= Len(cache)
          BY <1>5, <4>1, <5>1, <5>2 DEF CacheSound
        <5>3. CASE ~(i <= Len(cache) /\ j <= Len(cache))
          BY <1>5, <1>9, <1>10, <4>1, <5>1, <5>3
        <5> QED BY <5>2, <5>3
      <4> QED BY <1>1, <1>5, <1>13, <3>2, <4>1, <4>2, <4>3, PgAssumption DEF CacheSound
    <3> QED BY <3>1, <3>2
  <2> QED BY <1>1, <1>3, <1>4, <1>6, <1>11, <1>13, <2>1, BoundKeeps
<1> QED BY <1>8, <1>12, <1>13 DEF ReceiveParsed

\* One statement has been closed.
LEMMA ReceiveClosingKeeps ==
    ASSUME PgInv, ReceiveClosing
    PROVE  PgInv'
<1>1. /\ call.at = "closing" /\ replies # <<>> /\ Head(replies).k = "CloseComplete"
      /\ replies' = Tail(replies)
      /\ call' = IF call.op = "ClearCache" /\ call.n > 1 THEN [call EXCEPT !.n = @ - 1]
                 ELSE [call EXCEPT !.at = "closed"]
      /\ UNCHANGED <<inner, net, session, prepared, handles, begun, fate, parent, acked, erred>>
  BY DEF ReceiveClosing, Receives
<1>2. call.at \in Stages
  BY <1>1 DEF Stages, ParseStages
<1>3. /\ Answered /\ CallExact /\ replies \in Seq(Messages) /\ Len(replies) \in Nat \ {0}
      /\ Head(replies) = replies[1] /\ call \in CallRecords
  BY <1>1, <1>2, ReadingNow
<1>4. /\ Len(replies) = Closings + 1 /\ \A i \in 1..Closings : replies[i].k = "CloseComplete"
  <2>1. PICK h : h = Head(replies)
    OBVIOUS
  <2> QED BY <1>1, <1>3, <2>1 DEF Answered, Shape
<1>5. call.op \in {"Run", "Prepare", "ClearCache"} /\ (call.op = "ClearCache" => call.n > 0)
      /\ call.n \in Nat
  BY <1>1, <1>3 DEF CallExact, CallRecords
<1>6. Len(replies') = Len(replies) - 1 /\ \A i \in 1..Len(replies') : replies'[i] = replies[i + 1]
  BY <1>1, <1>3, TailEnds
<1>7. CASE call.op = "ClearCache" /\ call.n > 1
  <2>1. call' \in CallRecords /\ call'.at = "closing" /\ call'.op = "ClearCache"
        /\ call'.n = call.n - 1 /\ call'.n > 0 /\ call'.sql = call.sql
    BY SMTT(30), <1>1, <1>3, <1>5, <1>7 DEF CallRecords
  <2>2. CallExact'
    BY <2>1 DEF CallExact, AllCalls, ParseStages
  <2>3. UnitAt(call.at)' = UnitAt(call.at) /\ call'.at \in Stages
    BY <1>1, <2>1 DEF UnitAt, ParseStages, Stages
  <2>4. Shape'
    <3>1. Closings = call.n /\ Closings' = call.n - 1
      BY <1>7, <2>1 DEF Closings
    <3>2. Len(replies') = call.n /\ \A i \in 1..(call.n - 1) : replies'[i].k = "CloseComplete"
      <4>1. Len(replies') = call.n
        BY <1>4, <1>5, <1>6, <3>1
      <4>2. ASSUME NEW i \in 1..(call.n - 1) PROVE replies'[i].k = "CloseComplete"
        <5>1. i \in 1..Len(replies') /\ i + 1 \in 1..Closings
          BY <1>5, <3>1, <4>1
        <5> QED BY <1>4, <1>6, <5>1
      <4> QED BY <4>1, <4>2
    <3> QED BY <1>5, <2>1, <3>1, <3>2 DEF Shape
  <2> QED BY <1>1, <1>2, <2>1, <2>2, <2>3, <2>4, ReadKeeps
<1>8. CASE ~(call.op = "ClearCache" /\ call.n > 1)
  <2>1. call' \in CallRecords /\ call'.at = "closed" /\ call'.op = call.op
        /\ call'.n = call.n /\ call'.sql = call.sql
    BY <1>1, <1>3, <1>8 DEF CallRecords, Stages
  <2>2. CallExact'
    BY <1>1, <1>3, <1>5, <2>1 DEF CallExact, AllCalls, ParseStages
  <2>3. UnitAt(call.at)' = UnitAt(call.at) /\ call'.at \in Stages
    BY <1>1, <2>1 DEF UnitAt, ParseStages, Stages
  <2>4. Closings = 1
    BY <1>5, <1>8 DEF Closings
  <2>5. Shape'
    BY <1>4, <1>6, <2>1, <2>4 DEF Shape
  <2> QED BY <1>1, <1>2, <2>1, <2>2, <2>3, <2>5, ReadKeeps
<1> QED BY <1>7, <1>8

\* All the statements have been closed.
LEMMA ReceiveClosedKeeps ==
    ASSUME PgInv, ReceiveClosed
    PROVE  PgInv'
<1>1. /\ call.at = "closed" /\ replies # <<>> /\ Head(replies).k = "ReadyForQuery"
      /\ replies' = Tail(replies) /\ status' = Head(replies).st
      /\ Bound(call.n, pending - 1) /\ UNCHANGED <<cache, next_id, net, session, prepared>>
  BY DEF ReceiveClosed, Receives
<1>2. call.at \in Stages
  BY <1>1 DEF Stages, ParseStages
<1>3. /\ call # Closed /\ wbuf = <<>> /\ net = <<>> /\ pending = 1
      /\ CallExact /\ call \in CallRecords
  BY <1>1, <1>2, ReadingNow
<1>4. replies' = <<>> /\ status' = TransactionStatus(session)
  BY <1>1, <1>2, ReadyEnds
<1>5. cache' \in Seq(CacheEntries) /\ Len(cache') <= Capacity /\ CacheSound'
  BY <1>1, <1>3, CacheNow
<1>6. call.op \in {"Run", "Prepare", "ClearCache"} /\ call.n \in Nat /\ pending - 1 = 0
  BY <1>1, <1>3 DEF CallExact, CallRecords
<1> QED BY <1>1, <1>3, <1>4, <1>5, <1>6, BoundKeeps

\* The stream of run() reads a message.
LEMMA StreamKeeps ==
    ASSUME PgInv, Stream
    PROVE  PgInv'
<1>1. call.at = "stream" /\ replies # <<>> /\ call.at \in Stages
  BY DEF Stream, Stages
<1>2. /\ call # Closed /\ wbuf = <<>> /\ net = <<>> /\ pending = 1 /\ Answered
      /\ CallExact /\ call \in CallRecords
  BY <1>1, ReadingNow
<1>3. CASE Head(replies).k = "ErrorResponse" /\ Fail(Tail(replies))
  BY <1>1, <1>2, <1>3, FailTailKeeps
<1>4. CASE /\ Head(replies).k = "ReadyForQuery" /\ replies' = Tail(replies)
           /\ pending' = pending - 1 /\ status' = Head(replies).st /\ Return
           /\ UNCHANGED <<wbuf, cache, next_id, net, session, prepared>>
  <2>1. replies' = <<>> /\ status' = TransactionStatus(session) /\ pending' = 0
    BY <1>1, <1>2, <1>4, ReadyEnds
  <2>2. cache' \in Seq(CacheEntries) /\ Len(cache') <= Capacity /\ CacheSound'
    BY <1>2, <1>4, CacheNow
  <2> QED BY <1>2, <1>4, <2>1, <2>2, ReturnKeeps
<1>5. CASE /\ Head(replies).k \notin {"ErrorResponse", "ReadyForQuery"} /\ replies' = Tail(replies)
           /\ UNCHANGED <<inner, net, session, prepared, app>>
  <2>1. call' = call /\ UNCHANGED <<handles, begun, fate, parent, acked, erred>>
    BY <1>5 DEF app
  <2>2. CallExact' /\ UnitAt(call.at)' = UnitAt(call.at)
    <3>1. CachedIds' = CachedIds
      BY <1>5 DEF CachedIds, inner
    <3> QED BY <1>2, <1>5, <2>1, <3>1 DEF CallExact, UnitAt, inner
  <2>3. Shape'
    BY <1>1, <2>1 DEF Shape
  <2> QED BY <1>1, <1>2, <1>5, <2>1, <2>2, <2>3, ReadKeeps
<1> QED BY <1>3, <1>4, <1>5 DEF Stream

-----------------------------------------------------------------------------
(* Theorems.                                                               *)

\* Initially nothing is in flight.
LEMMA PgInit ==
    ASSUME Init PROVE PgInv
<1>1. /\ wbuf = <<>> /\ pending = 0 /\ status = "idle" /\ depth = 0
      /\ cache = <<>> /\ next_id = 1 /\ net = <<>> /\ replies = <<>> /\ session = NewSession
      /\ prepared = [i \in Ids |-> "none"] /\ call = NoCall /\ handles = <<>> /\ begun = 0
      /\ fate = [i \in Tx |-> "new"] /\ parent = [i \in Tx |-> Outside] /\ acked = {} /\ erred = {}
  BY DEF Init
<1>2. /\ <<>> \in Seq(Units) /\ <<>> \in Seq(Messages) /\ <<>> \in Seq(Tx)
      /\ <<>> \in Seq(CacheEntries) /\ Len(<<>>) = 0
  OBVIOUS
<1>3. next_id \in Ids \cup {MaxPrepares + 1}
  BY <1>1, PgAssumption DEF Ids
<1>4. TypeOK
  BY <1>1, <1>2, <1>3, PgAssumption DEF TypeOK
<1>5. PgType
  <2>1. call \in CallRecords
    BY <1>1 DEF NoCall, CallRecords
  <2> QED BY <1>1, <1>2, <1>4, <2>1, PgAssumption DEF PgType
<1>6. PendingExact
  <2>1. Cardinality(ReadyReplies) = 0
    BY <1>1, <1>2, ReadyRepliesAre, ReadiesEmpty
  <2> QED BY <1>1, <1>2, <2>1 DEF PendingExact
<1>7. LastIsReady
  BY <1>1 DEF LastIsReady, TransactionStatus, InTransaction, NewSession
<1>8. CacheExact
  BY <1>1, <1>2 DEF CacheExact, CacheSound
<1>9. CallExact /\ Alone
  BY <1>1 DEF CallExact, Alone, NoCall, Closed, AllCalls, Stages, ParseStages
<1> QED BY <1>5, <1>6, <1>7, <1>8, <1>9 DEF PgInv

\* Every step keeps the invariant.
LEMMA PgNext ==
    ASSUME PgInv, [Next]_vars PROVE PgInv'
<1>1. CASE ClientStep
  BY <1>1, FlushKeeps, WaitKeeps, BeginReadyKeeps, PingReadyKeeps, QueryReadyKeeps,
     PrepareReadyKeeps, ClearReadyKeeps, UnexpectedKeeps, ReceiveParseKeeps, ReceiveParsedKeeps,
     ReceiveClosingKeeps, ReceiveClosedKeeps, StreamKeeps DEF ClientStep
<1>2. CASE Serve \/ Disconnect \/ Cancel \/ Close
  BY <1>2, ServeKeeps, CloseKeeps, CancelKeeps
<1>3. CASE \E op \in Calls \cap {"Execute", "ClearCache"} : Start(op, "none")
  <2>1. PICK op \in Calls \cap {"Execute", "ClearCache"} : Start(op, "none")
    BY <1>3
  <2>2. "none" \in Statements \cup {"none"} /\ op \in {"Execute", "ClearCache", "Run", "Prepare"}
        /\ op \notin {"Run", "Prepare"}
    BY <2>1
  <2> QED BY <2>1, <2>2, StartKeeps
<1>4. CASE \E op \in Calls \cap {"Run", "Prepare"}, s \in Statements : Start(op, s)
  <2>1. PICK op \in Calls \cap {"Run", "Prepare"}, s \in Statements : Start(op, s)
    BY <1>4
  <2>2. s \in Statements \cup {"none"} /\ op \in {"Execute", "ClearCache", "Run", "Prepare"}
    BY <2>1
  <2> QED BY <2>1, <2>2, StartKeeps
<1>5. CASE StartEnd("Commit", "committed") \/ StartEnd("Rollback", "aborted")
  BY <1>5, StartEndKeeps
<1>6. CASE StartBegin \/ StartPing
  BY <1>6, StartQueuedKeeps
<1>7. CASE DropTransaction
  BY <1>7, DropKeeps
<1>8. CASE UNCHANGED vars
  <2>1. UNCHANGED <<wbuf, pending, status, depth, cache, next_id>>
        /\ UNCHANGED <<net, replies, session, prepared>>
        /\ UNCHANGED <<call, handles, begun, fate, parent, acked, erred>>
    BY <1>8 DEF vars, inner, server, app
  <2>2. PgType'
    BY <2>1 DEF PgInv, PgType, TypeOK
  <2>3. CASE call = Closed
    BY <2>1, <2>2, <2>3 DEF PgInv, Closed, NoCall
  <2>4. CASE call # Closed
    <3>1. PendingExact' /\ LastIsReady' /\ CacheExact'
      BY <2>1, <2>4, ConnectionSame DEF inner, server
    <3>2. CachedIds' = CachedIds
      BY <2>1 DEF CachedIds
    <3>3. CallExact'
      BY <2>1, <2>4, <3>2 DEF PgInv, CallExact
    <3>4. Alone'
      <4>1. Shape' = Shape /\ Closings' = Closings
        BY <2>1 DEF Shape, Closings
      <4>2. \A st : UnitAt(st)' = UnitAt(st)
        BY <2>1 DEF UnitAt
      <4> QED BY <2>1, <2>4, <4>1, <4>2 DEF PgInv, Alone, Answered, Sent
    <3> QED BY <2>2, <3>1, <3>3, <3>4 DEF PgInv
  <2> QED BY <2>3, <2>4
<1> QED BY <1>1, <1>2, <1>3, <1>4, <1>5, <1>6, <1>7, <1>8 DEF Next

\* The inductive invariant holds.
THEOREM Invariance == Spec => []PgInv
<1>1. Init => PgInv
  BY PgInit
<1>2. PgInv /\ [Next]_vars => PgInv'
  BY PgNext
<1> QED BY <1>1, <1>2, PTL DEF Spec

\* ProtocolInSync of PgConnection: pending_ready_for_query_count is exact at
\* every step, a cached statement is prepared, and with nothing in flight
\* transaction_status is the server's.
THEOREM InSync == Spec => []ProtocolInSync
<1>1. PgInv => ProtocolInSync
  <2> SUFFICES ASSUME PgInv PROVE ProtocolInSync
    OBVIOUS
  <2>1. TypeOK
    BY DEF PgInv, PgType
  <2>2. PendingExact
    BY DEF PgInv, PendingExact
  <2>3. StatusExact
    BY DEF PgInv, StatusExact, Quiescent, LastIsReady, NoCall, Closed
  <2>4. CachedIsPrepared
    <3>1. SUFFICES ASSUME call # Closed, NEW i \in DOMAIN cache
                   PROVE  prepared[cache[i].id] = cache[i].sql
      BY DEF CachedIsPrepared
    <3>2. cache \in Seq(CacheEntries) /\ CacheSound
      BY <3>1, CacheNow
    <3>3. DOMAIN cache = 1..Len(cache)
      BY <3>2
    <3> QED BY <3>1, <3>2, <3>3 DEF CacheSound
  <2> QED BY <2>1, <2>2, <2>3, <2>4 DEF ProtocolInSync
<1> QED BY <1>1, Invariance, PTL

\* AnswerIsOwn of PgConnection: what a call reads as an answer is an answer to
\* the unit it has just sent, whatever earlier calls left behind.
THEOREM AnswersAreOwn == Spec => []AnswerIsOwn
<1>1. PgInv => AnswerIsOwn
  <2>1. SUFFICES ASSUME PgInv, call.at \in DOMAIN UnitOf, replies # <<>>
                 PROVE  Head(replies).own /\ Head(replies).u = UnitOf[call.at]
    BY DEF AnswerIsOwn
  <2>2. call.at \in Stages
    BY <2>1 DEF UnitOf, Stages, ParseStages
  <2>3. Answered /\ Len(replies) \in Nat \ {0} /\ Head(replies) = replies[1]
    BY <2>1, <2>2, ReadingNow
  <2>4. 1 \in 1..Len(replies)
    BY <2>3
  <2>5. Head(replies).own /\ Head(replies).u = UnitAt(call.at)
    BY <2>3, <2>4 DEF Answered
  <2>6. UnitAt(call.at) = UnitOf[call.at]
    BY <2>1 DEF UnitAt, UnitOf, ParseStages
  <2> QED BY <2>5, <2>6
<1> QED BY <1>1, Invariance, PTL

\* NoProtocolError of PgConnection: only an error of the server makes a call
\* give up; no message is ever out of place.
THEOREM NeverOutOfPlace == Spec => NoProtocolError
<1>1. PgInv => (Unexpected => Head(replies).k = "ErrorResponse")
  BY ExpectedOrError DEF Unexpected
<1>2. PgInv /\ [Next]_vars => [Unexpected => Head(replies).k = "ErrorResponse"]_vars
  BY <1>1
<1> QED BY <1>2, Invariance, PTL DEF NoProtocolError, Spec
=============================================================================
