------------------------- MODULE PgListenerProofs -------------------------
(***************************************************************************)
(* PgListener delivers what reached its connection: NotificationsExact is  *)
(* an invariant of ListenerSpec for every set of channels and every bound. *)
(***************************************************************************)
EXTENDS PgListener, FiniteSetTheorems, WellFoundedInduction, TLAPS

Number == Nat \ {0}

Conn == [up : BOOLEAN, reset : BOOLEAN, regs : SUBSET (Channels \cup {"none"}),
         wire : Seq(Nat), tx : BOOLEAN, open : BOOLEAN, queued : BOOLEAN, pending : Int]

Call == [op : Queries \cup {"none", "gone", "try_recv"},
         at : {"none", "event", "acquire", "relisten", "run"}, chs : Seq(Channels \cup {"lost"}),
         ear : {"none", "listening", "deaf"}]

\* The types of the variables the argument is about.
Lists == channels \in Seq(Channels) /\ buffer \in Seq(Number) /\ got \in Seq(Number)
Conns == connection \in Conn /\ candidate \in Conn /\ idle_conns \subseteq Conn
CallTyped == lcall \in Call
Flags == buffer_tx \in BOOLEAN /\ cut \in BOOLEAN /\ sent \in Nat

\* A connection of the pool is up and owes no answer; until a reconnect is cut
\* off it listens to nothing, so nothing is sent to it.
Quiet(c) ==
    /\ c.up /\ c.pending = 0
    /\ \A i \in DOMAIN c.wire : c.wire[i] # 0
    /\ ~cut => c.regs = {} /\ c.wire = <<>>

PoolQuiet == \A c \in idle_conns : Quiet(c)

\* Where a call is decides which connections there are.
Places ==
    /\ lcall.at = "relisten" => Quiet(candidate)
    /\ lcall.at # "relisten" => candidate = NoConnection
    /\ lcall.at \in {"acquire", "relisten"} => connection = NoConnection
    /\ lcall.at = "none" <=> lcall \in {Idle, Gone}

\* Until a reconnect is cut off the sender of the buffer is in exactly the
\* place where the next notification needs it.
SenderKept ==
    ~cut /\ lcall # Gone =>
        /\ connection # NoConnection => connection.tx
        /\ lcall.at = "run" => connection.tx
        /\ lcall.at = "relisten" => candidate.tx
        /\ connection = NoConnection /\ lcall.at # "relisten" => buffer_tx

\* try_recv() waits on the connection only when the buffer is empty.
BufferFirst == ~cut /\ lcall.op = "try_recv" => buffer = <<>>

Increasing(q) == \A i, j \in DOMAIN q : i < j /\ q[j] # 0 => q[i] < q[j]
Below(p, q) == \A i \in DOMAIN p, j \in DOMAIN q : q[j] # 0 => p[i] < q[j]
Within(q, n) == \A i \in DOMAIN q : q[i] <= n

\* a, b and c are one increasing sequence of numbers up to n, answers apart.
Chain(a, b, c, n) ==
    /\ Increasing(a) /\ Increasing(b) /\ Increasing(c)
    /\ Below(a, b) /\ Below(a, c) /\ Below(b, c)
    /\ Within(a, n) /\ Within(b, n) /\ Within(c, n)

\* So are what was returned, what is buffered and what is on the wire.
Ordered == ~cut => Chain(got, buffer, connection.wire, sent)

\* The channels of the call in progress are unsure, or told to the connection
\* by the reconnect before the call.
Asked ==
    /\ lcall.op \in {"listen", "listen_all", "unlisten"} => lcall.chs \in Seq(Channels)
    /\ lcall.op = "listen" => Range(lcall.chs) \subseteq unsure
    /\ lcall.op = "unlisten" => Len(lcall.chs) = 1 /\ lcall.chs[1] \in unsure
    /\ lcall.op = "unlisten_all" => Channels \subseteq unsure
    /\ lcall.op = "listen_all" =>
         /\ Range(lcall.chs) \subseteq Listening
         /\ \/ Range(lcall.chs) \subseteq unsure
            \/ lcall.at = "run" /\ Range(lcall.chs) \subseteq connection.regs
    /\ lcall.op \in {"query", "begin"} => lcall.chs = <<>>
    /\ lcall.op \in {"unlisten", "unlisten_all"} => lcall.at = "run"

\* The inductive invariant.
ListenerInv ==
    /\ Lists /\ Conns /\ CallTyped /\ Flags /\ PoolQuiet /\ Places /\ SenderKept /\ BufferFirst /\ Ordered
    /\ Asked /\ NothingDropped /\ RegistrationsAgree /\ PendingAnswers

-----------------------------------------------------------------------------
(* Filtering a wire.                                                       *)

\* A set of numbers has a least element: the form in which induction is used.
LEMMA LeastNumber ==
    ASSUME NEW T, T \subseteq Nat, T # {}
    PROVE  \E n \in T : \A m \in T : n <= m
<1>1. \E x \in T : \A y \in T : ~(<<y, x>> \in OpToRel(<, Nat))
  BY WFMin, NatLessThanWellFounded, Zenon
<1>2. \A x, y \in Nat : y < x => <<y, x>> \in OpToRel(<, Nat)
  BY DEF OpToRel
<1>3. \E x \in T : \A y \in T : ~(y < x)
  BY <1>1, <1>2, Zenon
<1> QED BY <1>3

\* g is the function that Real() defines by recursion, up to n.
Sifts(s, n, g) ==
    /\ g = [k \in 0..n |-> g[k]]
    /\ \A k \in 0..n : g[k] = IF k = 0 THEN <<>>
                              ELSE IF s[k] = 0 THEN g[k - 1] ELSE Append(g[k - 1], s[k])

\* The recursion has a solution.
LEMMA SiftsExist ==
    ASSUME NEW s, NEW n \in Nat
    PROVE  \E g : Sifts(s, n, g)
<1> DEFINE T == {m \in Nat : ~\E g : Sifts(s, m, g)}
<1>1. SUFFICES ASSUME T # {} PROVE FALSE
  BY Zenon
<1>2. PICK m \in T : \A l \in T : m <= l
  BY <1>1, LeastNumber, Zenon
<1>3. m # 0
  <2>1. Sifts(s, 0, [k \in 0..0 |-> <<>>])
    BY DEF Sifts
  <2> QED BY <2>1, <1>2, Zenon
<1>4. m - 1 \in Nat /\ m - 1 \notin T /\ m \in Nat
  BY <1>2, <1>3
<1>5. PICK g : Sifts(s, m - 1, g)
  BY <1>4
<1> DEFINE h == [k \in 0..m |-> IF k < m THEN g[k] ELSE
                     IF s[m] = 0 THEN g[m - 1] ELSE Append(g[m - 1], s[m])]
<1>6. Sifts(s, m, h)
  BY <1>4, <1>5, <1>3 DEF Sifts
<1> QED BY <1>6, <1>2

\* Real() unfolds.
LEMMA RealSifts ==
    ASSUME NEW s \in Seq(Nat)
    PROVE  \E g : Sifts(s, Len(s), g) /\ Real(s) = g[Len(s)]
<1> DEFINE F == CHOOSE g : g = [k \in 0..Len(s) |-> IF k = 0 THEN <<>>
            ELSE IF s[k] = 0 THEN g[k - 1] ELSE Append(g[k - 1], s[k])]
<1>1. Real(s) = F[Len(s)]
  BY DEF Real
<1>2. PICK g : Sifts(s, Len(s), g)
  <2>1. Len(s) \in Nat
    OBVIOUS
  <2> QED BY <2>1, SiftsExist
<1>3. g = [k \in 0..Len(s) |-> IF k = 0 THEN <<>>
            ELSE IF s[k] = 0 THEN g[k - 1] ELSE Append(g[k - 1], s[k])]
  BY <1>2 DEF Sifts
<1>4. F = [k \in 0..Len(s) |-> IF k = 0 THEN <<>>
            ELSE IF s[k] = 0 THEN F[k - 1] ELSE Append(F[k - 1], s[k])]
  BY <1>3, Zenon
<1> HIDE DEF F
<1>5. Sifts(s, Len(s), F)
  BY <1>4 DEF Sifts
<1> QED BY <1>1, <1>5

\* t picks, in order, the places of s up to k that are not 0.
Picks(t, s, k, f) ==
    /\ t \in Seq(Number)
    /\ f \in [1..Len(t) -> 1..k]
    /\ \A j \in 1..Len(t) : t[j] = s[f[j]] /\ s[f[j]] # 0
    /\ \A i, j \in 1..Len(t) : i < j => f[i] < f[j]
    /\ \A i \in 1..k : s[i] # 0 => \E j \in 1..Len(t) : f[j] = i

\* By a least counterexample, every prefix of the recursion picks that way.
LEMMA SiftsPick ==
    ASSUME NEW s \in Seq(Nat), NEW g, Sifts(s, Len(s), g), NEW n \in 0..Len(s)
    PROVE  \E f : Picks(g[n], s, n, f)
<1> DEFINE T == {m \in 0..Len(s) : ~\E f : Picks(g[m], s, m, f)}
<1>1. SUFFICES ASSUME T # {} PROVE FALSE
  BY Zenon
<1>0. Len(s) \in Nat
  OBVIOUS
<1>2. PICK m \in T : \A l \in T : m <= l
  <2>1. T \subseteq Nat
    BY <1>0
  <2> QED BY <1>1, <2>1, LeastNumber, Zenon
<1>3. m # 0
  <2>1. g[0] = <<>>
    BY <1>0 DEF Sifts
  <2>2. Picks(<<>>, s, 0, [j \in 1..0 |-> 0])
    BY DEF Picks
  <2> QED BY <2>1, <2>2, <1>2
<1>4. m - 1 \in 0..Len(s) /\ m - 1 \notin T /\ m \in 1..Len(s)
  BY <1>2, <1>3, <1>0
<1>5. PICK f : Picks(g[m - 1], s, m - 1, f)
  BY <1>4
<1> DEFINE t == g[m - 1]
<1>6. g[m] = IF s[m] = 0 THEN t ELSE Append(t, s[m])
  BY <1>4, <1>3 DEF Sifts
<1>7. t \in Seq(Number) /\ Len(t) \in Nat /\ f \in [1..Len(t) -> 1..(m - 1)]
  BY <1>5 DEF Picks
<1>8. s[m] \in Nat
  BY <1>4
<1>11. /\ \A j \in 1..Len(t) : t[j] = s[f[j]] /\ s[f[j]] # 0
       /\ \A i, j \in 1..Len(t) : i < j => f[i] < f[j]
       /\ \A i \in 1..(m - 1) : s[i] # 0 => \E j \in 1..Len(t) : f[j] = i
  BY <1>5 DEF Picks
<1> HIDE DEF t
<1>9. CASE s[m] = 0
  <2>1. f \in [1..Len(t) -> 1..m]
    BY <1>4, <1>7
  <2>2. \A i \in 1..m : s[i] # 0 => i \in 1..(m - 1)
    BY <1>4, <1>9
  <2>3. Picks(t, s, m, f)
    BY <2>1, <2>2, <1>7, <1>11 DEF Picks
  <2> QED BY <2>3, <1>6, <1>9, <1>2
<1>10. CASE s[m] # 0
  <2> DEFINE u == Append(t, s[m])
             h == [j \in 1..Len(t) + 1 |-> IF j = Len(t) + 1 THEN m ELSE f[j]]
  <2>1. u \in Seq(Number) /\ Len(u) = Len(t) + 1 /\ u[Len(t) + 1] = s[m]
        /\ \A j \in 1..Len(t) : u[j] = t[j]
    BY <1>7, <1>8, <1>10 DEF Number
  <2> HIDE DEF u
  <2>2. h \in [1..Len(u) -> 1..m]
    BY <1>4, <1>7, <2>1
  <2>3. \A j \in 1..Len(u) : u[j] = s[h[j]] /\ s[h[j]] # 0
    BY <1>11, <1>7, <1>10, <2>1
  <2>4. ASSUME NEW i \in 1..Len(u), NEW j \in 1..Len(u), i < j PROVE h[i] < h[j]
    <3>0. i \in 1..Len(t) /\ i # Len(t) + 1 /\ i \in 1..Len(t) + 1 /\ j \in 1..Len(t) + 1
      <4>1. i \in Int /\ j \in Int /\ 1 <= i /\ j <= Len(t) + 1 /\ Len(t) \in Nat /\ i < j
        BY <2>1, <2>4, <1>7
      <4> QED BY <4>1
    <3>1. f[i] \in 1..(m - 1) /\ h[i] = f[i]
      BY <3>0, <1>7
    <3>2. CASE j = Len(t) + 1
      BY <3>1, <3>2, <1>4, <3>0
    <3>3. CASE j # Len(t) + 1
      <4>1. j \in 1..Len(t)
        <5>1. Len(t) \in Nat
          BY <1>7
        <5> QED BY <3>0, <3>3, <5>1
      <4>2. h[j] = f[j]
        BY <3>0, <3>3
      <4> QED BY <4>1, <4>2, <3>0, <3>1, <2>4, <1>11
    <3> QED BY <3>2, <3>3
  <2>5. ASSUME NEW i \in 1..m, s[i] # 0 PROVE \E j \in 1..Len(u) : h[j] = i
    <3>1. CASE i = m
      BY <3>1, <1>7, <2>1
    <3>2. CASE i # m
      <4>1. PICK j \in 1..Len(t) : f[j] = i
        BY <3>2, <2>5, <1>4, <1>11
      <4>2. j \in 1..Len(u) /\ j # Len(t) + 1
        BY <1>7, <2>1
      <4>3. h[j] = f[j]
        BY <4>2, <2>1
      <4> QED BY <4>1, <4>2, <4>3
    <3> QED BY <3>1, <3>2
  <2>6. Picks(u, s, m, h)
    BY <2>1, <2>2, <2>3, <2>4, <2>5 DEF Picks
  <2>7. g[m] = u
    BY <1>6, <1>10 DEF u
  <2> QED BY <2>6, <2>7, <1>2
<1> QED BY <1>9, <1>10

\* So does Real().
LEMMA RealPicks ==
    ASSUME NEW s \in Seq(Nat)
    PROVE  \E f : Picks(Real(s), s, Len(s), f)
<1>1. PICK g : Sifts(s, Len(s), g) /\ Real(s) = g[Len(s)]
  BY RealSifts
<1>2. Len(s) \in 0..Len(s)
  OBVIOUS
<1> QED BY <1>1, <1>2, SiftsPick

\* Real() drops exactly the answers and keeps the order.
LEMMA RealFacts ==
    ASSUME NEW s \in Seq(Nat)
    PROVE  /\ Real(s) \in Seq(Number)
           /\ Range(Real(s)) = Range(s) \ {0}
           /\ Increasing(s) => Increasing(Real(s))
           /\ (\A i \in DOMAIN s : s[i] = 0) => Real(s) = <<>>
<1>1. PICK f : Picks(Real(s), s, Len(s), f)
  BY RealPicks
<1> DEFINE t == Real(s)
<1> HIDE DEF t
<1>2. t \in Seq(Number) /\ Len(t) \in Nat /\ DOMAIN t = 1..Len(t) /\ DOMAIN s = 1..Len(s)
      /\ Len(s) \in Nat /\ f \in [1..Len(t) -> 1..Len(s)]
  BY <1>1 DEF Picks, t
<1>3. Range(t) = Range(s) \ {0}
  <2>1. ASSUME NEW x \in Range(t) PROVE x \in Range(s) \ {0}
    BY <1>1, <1>2 DEF Picks, Range, t
  <2>2. ASSUME NEW x \in Range(s) \ {0} PROVE x \in Range(t)
    <3>1. PICK i \in 1..Len(s) : s[i] = x /\ x # 0
      BY <1>2 DEF Range
    <3>2. PICK j \in 1..Len(t) : f[j] = i
      BY <3>1, <1>1 DEF Picks, t
    <3>3. t[j] = x
      BY <3>1, <3>2, <1>1 DEF Picks, t
    <3> QED BY <3>3, <1>2 DEF Range
  <2> QED BY <2>1, <2>2
<1>4. ASSUME Increasing(s) PROVE Increasing(t)
  <2> SUFFICES ASSUME NEW i \in 1..Len(t), NEW j \in 1..Len(t), i < j PROVE t[i] < t[j]
    BY <1>2 DEF Increasing
  <2>1. f[i] \in 1..Len(s) /\ f[j] \in 1..Len(s) /\ f[i] < f[j]
    BY <1>1, <1>2 DEF Picks, t
  <2>2. t[i] = s[f[i]] /\ t[j] = s[f[j]] /\ s[f[j]] # 0
    BY <1>1, <1>2 DEF Picks, t
  <2> QED BY <2>1, <2>2, <1>4, <1>2 DEF Increasing
<1>5. ASSUME \A i \in DOMAIN s : s[i] = 0 PROVE t = <<>>
  <2>1. Len(t) = 0
    <3> SUFFICES ASSUME Len(t) # 0 PROVE FALSE
      OBVIOUS
    <3>1. 1 \in 1..Len(t)
      BY <1>2
    <3> QED BY <3>1, <1>1, <1>2, <1>5 DEF Picks, t
  <2> QED BY <2>1, <1>2
<1> QED BY <1>2, <1>3, <1>4, <1>5 DEF t

-----------------------------------------------------------------------------
(* Counting the answers on a wire.                                         *)

\* Shifting a set of positions does not change its size.
LEMMA ShiftedCardinality ==
    ASSUME NEW S, NEW T, NEW k \in Int, S \subseteq Int, T \subseteq Int, IsFiniteSet(S),
           \A i \in S : i + k \in T, \A j \in T : j - k \in S
    PROVE  IsFiniteSet(T) /\ Cardinality(T) = Cardinality(S)
<1> DEFINE f == [i \in S |-> i + k]
<1>1. f \in [S -> T]
  OBVIOUS
<1>2. \A i, j \in S : f[i] = f[j] => i = j
  OBVIOUS
<1>3. \A j \in T : \E i \in S : f[i] = j
  <2> TAKE j \in T
  <2>1. j - k \in S /\ f[j - k] = j
    OBVIOUS
  <2> QED BY <2>1
<1>4. \A j \in T : \E i \in S : j = f[i]
  BY <1>3
<1>5. f \in Injection(S, T)
  BY <1>1, <1>2 DEF Injection, IsInjective
<1>6. f \in Surjection(S, T)
  BY <1>1, <1>4 DEF Surjection
<1>7. f \in Bijection(S, T)
  BY <1>5, <1>6 DEF Bijection
<1> QED BY <1>7, FS_Bijection DEF ExistsBijection

Zeros(w) == {i \in DOMAIN w : w[i] = 0}

\* The positions of the answers are finitely many.
LEMMA ZerosFinite ==
    ASSUME NEW w \in Seq(Nat)
    PROVE  IsFiniteSet(Zeros(w)) /\ Cardinality(Zeros(w)) \in Nat
<1>1. Zeros(w) \subseteq 1..Len(w) /\ Len(w) \in Nat
  BY DEF Zeros
<1>2. IsFiniteSet(1..Len(w))
  BY <1>1, FS_Interval
<1> QED BY <1>1, <1>2, FS_Subset, FS_CardinalityType

\* A wire without answers.
LEMMA ZerosNone ==
    ASSUME NEW w, \A i \in DOMAIN w : w[i] # 0
    PROVE  Cardinality(Zeros(w)) = 0
<1>1. Zeros(w) = {}
  BY DEF Zeros
<1> QED BY <1>1, FS_EmptySet

\* Something more is sent.
LEMMA ZerosAppend ==
    ASSUME NEW w \in Seq(Nat), NEW n \in Nat
    PROVE  Cardinality(Zeros(Append(w, n))) = Cardinality(Zeros(w)) + (IF n = 0 THEN 1 ELSE 0)
<1>1. IsFiniteSet(Zeros(w)) /\ Cardinality(Zeros(w)) \in Nat
  BY ZerosFinite
<1>2. Len(w) + 1 \notin Zeros(w)
  BY DEF Zeros
<1>3. CASE n = 0
  <2>1. Zeros(Append(w, n)) = Zeros(w) \cup {Len(w) + 1}
    BY <1>3 DEF Zeros
  <2> QED BY <2>1, <1>1, <1>2, <1>3, FS_AddElement
<1>4. CASE n # 0
  <2>1. Zeros(Append(w, n)) = Zeros(w)
    BY <1>4 DEF Zeros
  <2> QED BY <2>1, <1>1, <1>4
<1> QED BY <1>3, <1>4

\* The first message is read.
LEMMA ZerosTail ==
    ASSUME NEW w \in Seq(Nat), w # <<>>
    PROVE  Cardinality(Zeros(w)) = Cardinality(Zeros(Tail(w))) + (IF Head(w) = 0 THEN 1 ELSE 0)
<1> PICK t : t = Tail(w)
  OBVIOUS
<1>0. /\ t \in Seq(Nat) /\ Len(w) \in Nat /\ Len(t) = Len(w) - 1 /\ Len(t) \in Nat
      /\ DOMAIN t = 1..Len(t) /\ DOMAIN w = 1..Len(w)
      /\ \A i \in 1..Len(t) : t[i] = w[i + 1]
      /\ Head(w) = w[1]
  OBVIOUS
<1>1. IsFiniteSet(Zeros(w)) /\ Cardinality(Zeros(w)) \in Nat
      /\ IsFiniteSet(Zeros(t)) /\ Cardinality(Zeros(t)) \in Nat
  BY <1>0, ZerosFinite
<1> PICK A : A = Zeros(w) \ {1}
  OBVIOUS
<1>2. Cardinality(A) = Cardinality(Zeros(t))
  <2> PICK k : k = 1
    OBVIOUS
  <2>1. \A i \in Zeros(t) : i + k \in A
    BY <1>0 DEF Zeros
  <2>2. \A j \in A : j - k \in Zeros(t)
    BY <1>0 DEF Zeros
  <2>3. A \subseteq Int /\ Zeros(t) \subseteq Int /\ k \in Int
    BY <1>0 DEF Zeros
  <2> QED BY ONLY <1>1, <2>1, <2>2, <2>3, ShiftedCardinality
<1>3. Cardinality(A) = IF 1 \in Zeros(w) THEN Cardinality(Zeros(w)) - 1 ELSE Cardinality(Zeros(w))
  BY <1>1, FS_RemoveElement
<1>4. 1 \in Zeros(w) <=> Head(w) = 0
  BY <1>0 DEF Zeros
<1> QED BY <1>1, <1>2, <1>3, <1>4

-----------------------------------------------------------------------------
(* Sequences.                                                              *)

\* The members of a sequence that grows.
LEMMA MembersAppend ==
    ASSUME NEW S, NEW s \in Seq(S), NEW x
    PROVE  Range(Append(s, x)) = Range(s) \cup {x}
<1> PICK u : u = Append(s, x)
  OBVIOUS
<1>1. /\ DOMAIN s = 1..Len(s) /\ Len(s) \in Nat /\ DOMAIN u = 1..Len(s) + 1
      /\ \A i \in 1..Len(s) : u[i] = s[i]
      /\ u[Len(s) + 1] = x
  OBVIOUS
<1>2. \A i \in 1..Len(s) + 1 : i \in 1..Len(s) \/ i = Len(s) + 1
  BY <1>1
<1>3. 1..Len(s) \subseteq 1..Len(s) + 1 /\ Len(s) + 1 \in 1..Len(s) + 1
  BY <1>1
<1> QED BY <1>1, <1>2, <1>3 DEF Range

\* The members of two sequences, one after the other.
LEMMA MembersJoin ==
    ASSUME NEW S, NEW s \in Seq(S), NEW t \in Seq(S)
    PROVE  Range(s \o t) = Range(s) \cup Range(t)
<1> PICK u : u = s \o t
  OBVIOUS
<1>1. /\ DOMAIN s = 1..Len(s) /\ Len(s) \in Nat /\ DOMAIN t = 1..Len(t) /\ Len(t) \in Nat
      /\ DOMAIN u = 1..Len(s) + Len(t)
      /\ \A i \in 1..Len(s) : u[i] = s[i]
      /\ \A i \in 1..Len(t) : u[Len(s) + i] = t[i]
  OBVIOUS
<1>2. ASSUME NEW y \in Range(u) PROVE y \in Range(s) \cup Range(t)
  <2>1. PICK i \in 1..Len(s) + Len(t) : y = u[i]
    BY <1>1 DEF Range
  <2>2. CASE i <= Len(s)
    BY <2>1, <2>2, <1>1 DEF Range
  <2>3. CASE ~(i <= Len(s))
    <3>1. i - Len(s) \in 1..Len(t) /\ i = Len(s) + (i - Len(s))
      BY <2>3, <1>1
    <3>2. y = t[i - Len(s)]
      BY <3>1, <2>1, <1>1
    <3> QED BY <3>1, <3>2, <1>1 DEF Range
  <2> QED BY <2>2, <2>3
<1>3. Range(s) \subseteq Range(u)
  BY <1>1 DEF Range
<1>4. ASSUME NEW y \in Range(t) PROVE y \in Range(u)
  <2>1. PICK i \in 1..Len(t) : y = t[i]
    BY <1>1 DEF Range
  <2>2. Len(s) + i \in 1..Len(s) + Len(t) /\ u[Len(s) + i] = y
    BY <2>1, <1>1
  <2> QED BY <2>2, <1>1 DEF Range
<1> QED BY <1>2, <1>3, <1>4

\* The members of a sequence that is read.
LEMMA MembersRead ==
    ASSUME NEW S, NEW s \in Seq(S), s # <<>>
    PROVE  Range(s) = {Head(s)} \cup Range(Tail(s))
<1> PICK u : u = Tail(s)
  OBVIOUS
<1>1. /\ DOMAIN s = 1..Len(s) /\ Len(s) \in Nat /\ Len(s) # 0 /\ Head(s) = s[1]
      /\ DOMAIN u = 1..Len(s) - 1
      /\ \A i \in 1..Len(s) - 1 : u[i] = s[i + 1]
  OBVIOUS
<1>2. ASSUME NEW i \in 1..Len(s), i # 1 PROVE s[i] \in Range(u)
  <2>1. i - 1 \in 1..Len(s) - 1 /\ i = (i - 1) + 1
    BY <1>1, <1>2
  <2>2. u[i - 1] = s[i]
    BY <2>1, <1>1
  <2> QED BY <2>1, <2>2, <1>1 DEF Range
<1>3. \A i \in 1..Len(s) - 1 : i + 1 \in 1..Len(s)
  BY <1>1
<1>4. Range(u) \subseteq Range(s)
  BY <1>1, <1>3 DEF Range
<1>5. Head(s) \in Range(s)
  BY <1>1 DEF Range
<1>6. Range(s) \subseteq {Head(s)} \cup Range(u)
  BY <1>1, <1>2 DEF Range
<1> QED BY <1>4, <1>5, <1>6

\* A prefix and the rest.
LEMMA Cut ==
    ASSUME NEW s \in Seq(Nat), NEW k \in 0..Len(s)
    PROVE  /\ SubSeq(s, 1, k) \in Seq(Nat) /\ SubSeq(s, k + 1, Len(s)) \in Seq(Nat)
           /\ Range(s) = Range(SubSeq(s, 1, k)) \cup Range(SubSeq(s, k + 1, Len(s)))
<1> PICK u, v : u = SubSeq(s, 1, k) /\ v = SubSeq(s, k + 1, Len(s))
  OBVIOUS
<1>1. /\ DOMAIN s = 1..Len(s) /\ Len(s) \in Nat
      /\ u \in Seq(Nat) /\ DOMAIN u = 1..k /\ \A i \in 1..k : u[i] = s[i]
  OBVIOUS
<1>2. /\ v \in Seq(Nat) /\ DOMAIN v = 1..Len(s) - k /\ \A i \in 1..Len(s) - k : v[i] = s[k + i]
  OBVIOUS
<1>3. Range(u) \subseteq Range(s) /\ Range(v) \subseteq Range(s)
  BY <1>1, <1>2 DEF Range
<1>4. ASSUME NEW i \in 1..Len(s) PROVE s[i] \in Range(u) \cup Range(v)
  <2>1. CASE i <= k
    <3>1. i \in 1..k /\ u[i] = s[i]
      BY <2>1, <1>1
    <3> QED BY <3>1, <1>1 DEF Range
  <2>2. CASE ~(i <= k)
    <3>1. i - k \in 1..Len(s) - k /\ k + (i - k) = i
      BY <2>2, <1>1
    <3>2. v[i - k] = s[i]
      BY <3>1, <1>2
    <3> QED BY <3>1, <3>2, <1>2 DEF Range
  <2> QED BY <2>1, <2>2
<1>5. Range(s) = {s[i] : i \in 1..Len(s)}
  BY <1>1 DEF Range
<1>6. Range(s) \subseteq Range(u) \cup Range(v)
  BY <1>5, <1>4
<1> QED BY <1>1, <1>2, <1>3, <1>6

\* Only occurrences of the channel itself leave the list.
LEMMA WithoutFacts ==
    ASSUME channels \in Seq(Channels), NEW ch
    PROVE  /\ Without(ch) \in Seq(Channels)
           /\ \A x : x # ch => (x \in Range(Without(ch)) <=> x \in Listening)
<1>1. DOMAIN channels = 1..Len(channels) /\ Len(channels) \in Nat
  OBVIOUS
<1>0. CASE ch \notin Listening
  <2>1. ~\E i \in 1..Len(channels) : channels[i] = ch
    BY <1>0, <1>1 DEF Listening, Range
  <2>2. Without(ch) = channels
    BY <2>1 DEF Without, RemoveFirst
  <2> QED BY <2>2 DEF Listening
<1> SUFFICES ASSUME ch \in Listening
             PROVE  /\ Without(ch) \in Seq(Channels)
                    /\ \A x : x # ch => (x \in Range(Without(ch)) <=> x \in Listening)
  BY <1>0
<1>2. \E i \in 1..Len(channels) : channels[i] = ch
  BY <1>1 DEF Listening, Range
<1>3. PICK k \in 1..Len(channels) : channels[k] = ch /\ Without(ch) = RemoveAt(channels, k)
  <2>1. \E i \in 1..Len(channels) : channels[i] = ch /\ SelectInSeq(channels, LAMBDA v : v = ch) = i
    <3> PICK I : I = {i \in 1..Len(channels) : channels[i] = ch}
      OBVIOUS
    <3>1. I \subseteq Nat /\ I # {}
      BY <1>1, <1>2
    <3>2. \E n \in I : \A m \in I : n <= m
      BY <3>1, LeastNumber
    <3>3. Min(I) \in I
      BY <3>2 DEF Min
    <3>4. SelectInSeq(channels, LAMBDA v : v = ch) = Min(I)
      BY <3>1 DEF SelectInSeq
    <3> QED BY <3>3, <3>4
  <2> QED BY <2>1, <1>2 DEF Without, RemoveFirst
<1> PICK u, a, b : u = Without(ch) /\ a = SubSeq(channels, 1, k - 1) /\ b = SubSeq(channels, k + 1, Len(channels))
  OBVIOUS
<1>4. u = a \o b
  BY <1>3 DEF RemoveAt
<1>5. /\ a \in Seq(Channels) /\ Len(a) = k - 1 /\ DOMAIN a = 1..k - 1 /\ \A i \in 1..k - 1 : a[i] = channels[i]
  BY <1>1
<1>6. /\ b \in Seq(Channels) /\ DOMAIN b = 1..Len(channels) - k
      /\ \A i \in 1..Len(channels) - k : b[i] = channels[k + i]
  BY <1>1
<1>7. u \in Seq(Channels)
  BY <1>4, <1>5, <1>6
<1>8. Range(u) = Range(a) \cup Range(b)
  <2>1. a \in Seq(Channels) /\ b \in Seq(Channels)
    BY <1>5, <1>6
  <2>2. Range(a \o b) = Range(a) \cup Range(b)
    BY ONLY <2>1, MembersJoin
  <2> QED BY ONLY <1>4, <2>2
<1>9. Range(a) \subseteq Range(channels) /\ Range(b) \subseteq Range(channels)
  BY <1>1, <1>5, <1>6 DEF Range
<1>10. ASSUME NEW i \in 1..Len(channels), channels[i] # ch PROVE channels[i] \in Range(a) \cup Range(b)
  <2>1. CASE i < k
    <3>1. i \in 1..k - 1 /\ a[i] = channels[i]
      BY <2>1, <1>1, <1>5
    <3> QED BY <3>1, <1>5 DEF Range
  <2>2. CASE i > k
    <3>1. i - k \in 1..Len(channels) - k /\ k + (i - k) = i
      BY <2>2, <1>1
    <3>2. b[i - k] = channels[i]
      BY <3>1, <1>6
    <3> QED BY <3>1, <3>2, <1>6 DEF Range
  <2> QED BY <2>1, <2>2, <1>1, <1>3, <1>10
<1>11. ASSUME NEW x, x # ch, x \in Range(channels) PROVE x \in Range(a) \cup Range(b)
  <2>1. PICK i \in 1..Len(channels) : channels[i] = x
    BY <1>11, <1>1 DEF Range
  <2> QED BY <2>1, <1>11, <1>10
<1> QED BY <1>7, <1>8, <1>9, <1>11 DEF Listening

-----------------------------------------------------------------------------
(* The increasing sequence of notifications.                               *)

\* try_recv() takes the first of the buffer.
LEMMA ChainTake ==
    ASSUME NEW a \in Seq(Number), NEW b \in Seq(Number), NEW c \in Seq(Nat), NEW n \in Nat,
           Chain(a, b, c, n), b # <<>>
    PROVE  Chain(Append(a, Head(b)), Tail(b), c, n)
<1> PICK x, d, e : x = Head(b) /\ d = Append(a, x) /\ e = Tail(b)
  OBVIOUS
<1>1. /\ DOMAIN a = 1..Len(a) /\ Len(a) \in Nat /\ DOMAIN d = 1..Len(a) + 1
      /\ \A i \in 1..Len(a) : d[i] = a[i] /\ a[i] \in Nat
      /\ d[Len(a) + 1] = x
  BY DEF Number
<1>2. /\ DOMAIN b = 1..Len(b) /\ Len(b) \in Nat /\ DOMAIN e = 1..Len(b) - 1 /\ 1 \in DOMAIN b
      /\ \A i \in 1..Len(b) - 1 : e[i] = b[i + 1] /\ i + 1 \in DOMAIN b /\ 1 < i + 1
      /\ x = b[1] /\ \A i \in DOMAIN b : b[i] \in Nat /\ b[i] # 0
  BY DEF Number
<1>3. \A i \in 1..Len(a) + 1 : i \in 1..Len(a) \/ i = Len(a) + 1
  BY <1>1
<1>4. Increasing(d)
  <2>1. \A i \in 1..Len(a) : a[i] < x
    BY <1>1, <1>2 DEF Chain, Below
  <2> SUFFICES ASSUME NEW i \in 1..Len(a) + 1, NEW j \in 1..Len(a) + 1, i < j PROVE d[i] < d[j]
    BY <1>1 DEF Increasing
  <2>2. i \in 1..Len(a)
    BY <1>1
  <2>3. CASE j = Len(a) + 1
    BY <2>1, <2>2, <2>3, <1>1
  <2>4. CASE j \in 1..Len(a)
    <3>1. a[j] # 0
      BY <2>4 DEF Number
    <3> QED BY <3>1, <2>2, <2>4, <1>1 DEF Chain, Increasing
  <2> QED BY <2>3, <2>4, <1>3
<1>5. Increasing(e)
  <2> SUFFICES ASSUME NEW i \in 1..Len(b) - 1, NEW j \in 1..Len(b) - 1, i < j PROVE e[i] < e[j]
    BY <1>2 DEF Increasing
  <2>1. i + 1 < j + 1 /\ i + 1 \in DOMAIN b /\ j + 1 \in DOMAIN b
    BY <1>2
  <2> QED BY <2>1, <1>2 DEF Chain, Increasing
<1>6. Below(d, e)
  <2> SUFFICES ASSUME NEW i \in 1..Len(a) + 1, NEW j \in 1..Len(b) - 1 PROVE d[i] < e[j]
    BY <1>1, <1>2 DEF Below
  <2>1. CASE i = Len(a) + 1
    BY <2>1, <1>1, <1>2 DEF Chain, Increasing
  <2>2. CASE i \in 1..Len(a)
    BY <2>2, <1>1, <1>2 DEF Chain, Below
  <2> QED BY <2>1, <2>2, <1>3
<1>7. Below(d, c)
  <2> SUFFICES ASSUME NEW i \in 1..Len(a) + 1, NEW j \in DOMAIN c, c[j] # 0 PROVE d[i] < c[j]
    BY <1>1 DEF Below
  <2>1. CASE i = Len(a) + 1
    BY <2>1, <1>1, <1>2 DEF Chain, Below
  <2>2. CASE i \in 1..Len(a)
    BY <2>2, <1>1 DEF Chain, Below
  <2> QED BY <2>1, <2>2, <1>3
<1>8. Below(e, c) /\ Within(e, n)
  BY <1>2 DEF Chain, Below, Within
<1>9. Within(d, n)
  BY <1>1, <1>2, <1>3 DEF Chain, Within
<1> QED BY <1>4, <1>5, <1>6, <1>7, <1>8, <1>9 DEF Chain

\* A message is read off the wire.
LEMMA ChainRead ==
    ASSUME NEW a \in Seq(Number), NEW b \in Seq(Number), NEW c \in Seq(Nat), NEW n \in Nat,
           Chain(a, b, c, n), c # <<>>
    PROVE  /\ Chain(a, b, Tail(c), n)
           /\ b = <<>> /\ Head(c) # 0 => Chain(Append(a, Head(c)), b, Tail(c), n)
<1> PICK e : e = Tail(c)
  OBVIOUS
<1>1. /\ DOMAIN c = 1..Len(c) /\ Len(c) \in Nat /\ DOMAIN e = 1..Len(c) - 1 /\ 1 \in DOMAIN c
      /\ \A i \in 1..Len(c) - 1 : e[i] = c[i + 1] /\ i + 1 \in DOMAIN c /\ 1 < i + 1
      /\ Head(c) = c[1] /\ \A i \in DOMAIN c : c[i] \in Nat
  OBVIOUS
<1>2. Increasing(e)
  <2> SUFFICES ASSUME NEW i \in 1..Len(c) - 1, NEW j \in 1..Len(c) - 1, i < j, e[j] # 0 PROVE e[i] < e[j]
    BY <1>1 DEF Increasing
  <2>1. i + 1 < j + 1 /\ i + 1 \in DOMAIN c /\ j + 1 \in DOMAIN c
    BY <1>1
  <2> QED BY <2>1, <1>1 DEF Chain, Increasing
<1>3. Below(a, e) /\ Below(b, e) /\ Within(e, n)
  BY <1>1 DEF Chain, Below, Within
<1>4. Chain(a, b, e, n)
  BY <1>2, <1>3 DEF Chain
<1>5. ASSUME b = <<>>, Head(c) # 0 PROVE Chain(Append(a, Head(c)), b, e, n)
  <2> PICK x, d : x = Head(c) /\ d = Append(a, x)
    OBVIOUS
  <2>1. /\ DOMAIN a = 1..Len(a) /\ Len(a) \in Nat /\ DOMAIN d = 1..Len(a) + 1
        /\ \A i \in 1..Len(a) : d[i] = a[i] /\ a[i] \in Nat /\ a[i] # 0
        /\ d[Len(a) + 1] = x
    BY DEF Number
  <2>2. \A i \in 1..Len(a) + 1 : i \in 1..Len(a) \/ i = Len(a) + 1
    BY <2>1
  <2>3. Increasing(d)
    <3>1. \A i \in 1..Len(a) : a[i] < x
      BY <2>1, <1>1, <1>5 DEF Chain, Below
    <3> SUFFICES ASSUME NEW i \in 1..Len(a) + 1, NEW j \in 1..Len(a) + 1, i < j PROVE d[i] < d[j]
      BY <2>1 DEF Increasing
    <3>2. i \in 1..Len(a)
      BY <2>1
    <3>3. CASE j = Len(a) + 1
      BY <3>1, <3>2, <3>3, <2>1
    <3>4. CASE j \in 1..Len(a)
      BY <3>2, <3>4, <2>1 DEF Chain, Increasing
    <3> QED BY <3>3, <3>4, <2>2
  <2>4. Below(d, e)
    <3> SUFFICES ASSUME NEW i \in 1..Len(a) + 1, NEW j \in 1..Len(c) - 1, e[j] # 0 PROVE d[i] < e[j]
      BY <2>1, <1>1 DEF Below
    <3>1. CASE i = Len(a) + 1
      BY <3>1, <2>1, <1>1 DEF Chain, Increasing
    <3>2. CASE i \in 1..Len(a)
      BY <3>2, <2>1, <1>1 DEF Chain, Below
    <3> QED BY <3>1, <3>2, <2>2
  <2>5. Within(d, n)
    BY <2>1, <2>2, <1>1 DEF Chain, Within
  <2>6. Below(d, b)
    BY <1>5 DEF Below
  <2> QED BY <2>3, <2>4, <2>5, <2>6, <1>4 DEF Chain
<1> QED BY <1>4, <1>5

\* A query moves the notifications on the wire to the buffer.
LEMMA ChainBuffer ==
    ASSUME NEW a \in Seq(Number), NEW b \in Seq(Number), NEW c \in Seq(Nat), NEW n \in Nat,
           Chain(a, b, c, n)
    PROVE  b \o Real(c) \in Seq(Number) /\ Chain(a, b \o Real(c), <<>>, n)
<1> PICK r, d : r = Real(c) /\ d = b \o r
  OBVIOUS
<1>1. r \in Seq(Number) /\ Range(r) = Range(c) \ {0} /\ Increasing(r)
  BY RealFacts DEF Chain
<1>2. /\ DOMAIN b = 1..Len(b) /\ Len(b) \in Nat /\ DOMAIN r = 1..Len(r) /\ Len(r) \in Nat
      /\ DOMAIN d = 1..Len(b) + Len(r) /\ d \in Seq(Number)
      /\ \A i \in 1..Len(b) : d[i] = b[i] /\ b[i] \in Nat /\ b[i] # 0
      /\ \A i \in 1..Len(r) : d[Len(b) + i] = r[i] /\ r[i] \in Nat /\ r[i] # 0
  BY <1>1 DEF Number
<1>3. ASSUME NEW i \in 1..Len(b) + Len(r)
      PROVE  i \in 1..Len(b) \/ (i - Len(b) \in 1..Len(r) /\ d[i] = r[i - Len(b)])
  <2>1. CASE i <= Len(b)
    BY <2>1, <1>2
  <2>2. CASE ~(i <= Len(b))
    <3>1. i - Len(b) \in 1..Len(r) /\ Len(b) + (i - Len(b)) = i
      BY <2>2, <1>2
    <3> QED BY <3>1, <1>2
  <2> QED BY <2>1, <2>2
<1>4. ASSUME NEW j \in 1..Len(r) PROVE \E i \in DOMAIN c : c[i] = r[j] /\ c[i] # 0
  <2>1. r[j] \in Range(r)
    BY <1>2 DEF Range
  <2>2. r[j] \in Range(c) /\ r[j] # 0
    BY <2>1, <1>1
  <2> QED BY <2>2 DEF Range
<1>5. \A i \in 1..Len(b), j \in 1..Len(r) : b[i] < r[j]
  BY <1>2, <1>4 DEF Chain, Below
<1>6. Increasing(d)
  <2> SUFFICES ASSUME NEW i \in 1..Len(b) + Len(r), NEW j \in 1..Len(b) + Len(r), i < j PROVE d[i] < d[j]
    BY <1>2 DEF Increasing
  <2>1. CASE j \in 1..Len(b)
    <3>1. i \in 1..Len(b)
      BY <2>1, <1>2
    <3> QED BY <3>1, <2>1, <1>2 DEF Chain, Increasing
  <2>2. CASE j - Len(b) \in 1..Len(r) /\ d[j] = r[j - Len(b)]
    <3>1. CASE i \in 1..Len(b)
      BY <3>1, <2>2, <1>2, <1>5
    <3>2. CASE i - Len(b) \in 1..Len(r) /\ d[i] = r[i - Len(b)]
      <4>1. i - Len(b) < j - Len(b)
        BY <1>2
      <4>2. r[i - Len(b)] < r[j - Len(b)]
        BY <4>1, <3>2, <2>2, <1>1, <1>2 DEF Increasing
      <4> QED BY <4>2, <3>2, <2>2
    <3> QED BY <3>1, <3>2, <1>3
  <2> QED BY <2>1, <2>2, <1>3
<1>7. \A i \in DOMAIN a, j \in 1..Len(r) : a[i] < r[j]
  BY <1>4 DEF Chain, Below
<1>8. Below(a, d)
  BY <1>2, <1>3, <1>7 DEF Chain, Below
<1>9. Within(d, n)
  BY <1>2, <1>3, <1>4 DEF Chain, Within
<1>10. Increasing(<<>>) /\ Below(a, <<>>) /\ Below(d, <<>>) /\ Within(<<>>, n)
  BY DEF Increasing, Below, Within
<1> QED BY <1>2, <1>6, <1>8, <1>9, <1>10 DEF Chain

\* A new notification, or the rest of an answer, is sent.
LEMMA ChainSend ==
    ASSUME NEW a \in Seq(Number), NEW b \in Seq(Number), NEW c \in Seq(Nat), NEW n \in Nat,
           Chain(a, b, c, n)
    PROVE  /\ Chain(a, b, Append(c, 0), n)
           /\ Chain(a, b, Append(c, n + 1), n + 1)
           /\ Chain(a, b, c, n + 1)
<1>1. ASSUME NEW x \in {0, n + 1} PROVE Chain(a, b, Append(c, x), IF x = 0 THEN n ELSE x)
  <2> PICK d, m : d = Append(c, x) /\ m = IF x = 0 THEN n ELSE x
    OBVIOUS
  <2>1. /\ DOMAIN c = 1..Len(c) /\ Len(c) \in Nat /\ DOMAIN d = 1..Len(c) + 1
        /\ \A i \in 1..Len(c) : d[i] = c[i] /\ c[i] \in Nat
        /\ d[Len(c) + 1] = x /\ m \in Nat /\ n <= m
    OBVIOUS
  <2>2. \A i \in 1..Len(c) + 1 : i \in 1..Len(c) \/ i = Len(c) + 1
    BY <2>1
  <2>3. (\A i \in DOMAIN a : a[i] \in Nat) /\ (\A i \in DOMAIN b : b[i] \in Nat)
    BY DEF Number
  <2>4. Within(a, m) /\ Within(b, m) /\ Within(d, m)
    BY <2>1, <2>2, <2>3 DEF Chain, Within
  <2>5. Below(a, d) /\ Below(b, d)
    BY <2>1, <2>2, <2>3 DEF Chain, Below, Within
  <2>6. Increasing(d)
    <3> SUFFICES ASSUME NEW i \in 1..Len(c) + 1, NEW j \in 1..Len(c) + 1, i < j, d[j] # 0 PROVE d[i] < d[j]
      BY <2>1 DEF Increasing
    <3>1. i \in 1..Len(c)
      BY <2>1
    <3>2. CASE j = Len(c) + 1
      <4>1. c[i] <= n
        BY <3>1, <2>1 DEF Chain, Within
      <4>2. x = n + 1 /\ d[j] = x
        BY <3>2, <2>1
      <4>3. d[i] = c[i] /\ c[i] \in Nat /\ n \in Nat
        BY <3>1, <2>1
      <4> QED BY ONLY <4>1, <4>2, <4>3
    <3>3. CASE j \in 1..Len(c)
      BY <3>1, <3>3, <2>1 DEF Chain, Increasing
    <3> QED BY <3>2, <3>3, <2>2
  <2> QED BY <2>4, <2>5, <2>6 DEF Chain
<1>2. Chain(a, b, c, n + 1)
  BY DEF Chain, Within, Number
<1>3. n + 1 # 0
  OBVIOUS
<1> QED BY <1>1, <1>2, <1>3

\* The end of the wire, or all of it, is lost.
LEMMA ChainCut ==
    ASSUME NEW a, NEW b, NEW c \in Seq(Nat), NEW n, NEW k \in 0..Len(c), Chain(a, b, c, n)
    PROVE  Chain(a, b, SubSeq(c, 1, k), n) /\ Chain(a, b, <<>>, n)
<1> PICK d : d = SubSeq(c, 1, k)
  OBVIOUS
<1>1. DOMAIN d = 1..k /\ DOMAIN c = 1..Len(c) /\ Len(c) \in Nat /\ \A i \in 1..k : d[i] = c[i] /\ i \in DOMAIN c
  OBVIOUS
<1>2. Increasing(d) /\ Below(a, d) /\ Below(b, d) /\ Within(d, n)
  BY <1>1 DEF Chain, Increasing, Below, Within
<1>3. Increasing(<<>>) /\ Below(a, <<>>) /\ Below(b, <<>>) /\ Within(<<>>, n)
  BY DEF Increasing, Below, Within
<1> QED BY <1>2, <1>3 DEF Chain

\* What stands for no connection.
LEMMA NoConn ==
    /\ NoConnection \in Conn /\ ~NoConnection.up /\ NoConnection.wire = <<>>
    /\ ~NoConnection.tx /\ ~NoConnection.open
    /\ Fresh \in Conn /\ Fresh.up /\ Fresh.wire = <<>> /\ Fresh.pending = 0 /\ Fresh.regs = {}
<1>1. <<>> \in Seq(Nat)
  OBVIOUS
<1>2. Fresh \in Conn
  BY <1>1 DEF Fresh, Conn
<1>3. NoConnection = [Fresh EXCEPT !.up = FALSE, !.regs = {"none"}] /\ {"none"} \subseteq Channels \cup {"none"}
  BY DEF NoConnection
<1>4. NoConnection \in Conn
  BY <1>2, <1>3 DEF Conn
<1>5. /\ Fresh.up /\ Fresh.wire = <<>> /\ Fresh.pending = 0 /\ Fresh.regs = {} /\ ~Fresh.tx /\ ~Fresh.open
  BY DEF Fresh
<1>6. ~NoConnection.up /\ NoConnection.wire = Fresh.wire /\ NoConnection.tx = Fresh.tx /\ NoConnection.open = Fresh.open
  BY <1>2, <1>3 DEF Conn
<1> QED BY <1>2, <1>4, <1>5, <1>6

\* A notification changes the wire of a connection that listens, and nothing else.
LEMMA ToldFacts ==
    ASSUME NEW c \in Conn, NEW ch, NEW n \in Number
    PROVE  /\ Told(c, ch, n) \in Conn
           /\ Told(c, ch, n).up = c.up /\ Told(c, ch, n).tx = c.tx /\ Told(c, ch, n).regs = c.regs
           /\ Told(c, ch, n).pending = c.pending
           /\ c.up /\ ch \in c.regs => Told(c, ch, n).wire = Append(c.wire, n)
           /\ ~(c.up /\ ch \in c.regs) => Told(c, ch, n) = c
<1> PICK w : w = Append(c.wire, n)
  OBVIOUS
<1>1. w \in Seq(Nat)
  <2>1. c.wire \in Seq(Nat) /\ n \in Nat
    BY DEF Conn, Number
  <2> QED BY <2>1
<1>2. CASE c.up /\ ch \in c.regs
  <2>1. Told(c, ch, n) = [c EXCEPT !.wire = w]
    BY <1>2 DEF Told
  <2> QED BY <2>1, <1>1, <1>2 DEF Conn
<1>3. CASE ~(c.up /\ ch \in c.regs)
  BY <1>3 DEF Told
<1> QED BY <1>2, <1>3

\* A quiet connection stays quiet.
LEMMA ToldQuiet ==
    ASSUME NEW c \in Conn, NEW ch, NEW n \in Number, Quiet(c)
    PROVE  Quiet(Told(c, ch, n))
<1> PICK d : d = Told(c, ch, n)
  OBVIOUS
<1>1. d.up /\ d.pending = 0 /\ d.regs = c.regs
  BY ToldFacts DEF Quiet
<1>2. CASE c.up /\ ch \in c.regs
  <2>1. d.wire = Append(c.wire, n) /\ c.wire \in Seq(Nat) /\ cut
    BY <1>2, ToldFacts DEF Quiet, Conn
  <2>2. \A i \in DOMAIN d.wire : d.wire[i] # 0
    <3>1. \A i \in DOMAIN c.wire : c.wire[i] # 0
      BY DEF Quiet
    <3> PICK w, v : w = c.wire /\ v = d.wire
      OBVIOUS
    <3>2. w \in Seq(Nat) /\ v = Append(w, n) /\ n # 0 /\ \A i \in DOMAIN w : w[i] # 0
      BY <2>1, <3>1 DEF Number
    <3>3. \A i \in DOMAIN v : i \in DOMAIN w \/ i = Len(w) + 1
      BY <3>2
    <3>4. v[Len(w) + 1] = n /\ \A i \in DOMAIN w : v[i] = w[i]
      BY <3>2
    <3> QED BY <3>2, <3>3, <3>4
  <2> QED BY <1>1, <2>1, <2>2 DEF Quiet
<1>3. CASE ~(c.up /\ ch \in c.regs)
  BY <1>3, ToldFacts
<1> QED BY <1>2, <1>3

-----------------------------------------------------------------------------
(* The steps.                                                              *)

\* listen() marks its channel unsure until it returns.
LEMMA ListenStep ==
    ASSUME ListenerInv, NEW ch \in Channels, Listen(ch)
    PROVE  ListenerInv'
<1> USE DEF Idle, Gone, CallReturned, BeginCall, Entry, code, world, history
<1>0. /\ Lists /\ Conns /\ CallTyped /\ Flags /\ PoolQuiet /\ Places /\ SenderKept /\ BufferFirst
      /\ Ordered /\ Asked /\ NothingDropped /\ RegistrationsAgree /\ PendingAnswers
  BY DEF ListenerInv
<1>1. Lists'
  BY <1>0, NoConn DEF Listen, Lists
<1>2. Conns'
  BY <1>0, NoConn DEF Listen, Conns, Conn
<1>3. CallTyped'
  BY <1>0, NoConn DEF Listen, CallTyped, Call, Queries
<1>4. Flags'
  BY <1>0, NoConn DEF Listen, Flags
<1>5. PoolQuiet'
  BY <1>0, NoConn DEF Listen, PoolQuiet, Quiet
<1>6. Places'
  BY <1>0, NoConn DEF Listen, Places, Quiet
<1>7. SenderKept'
  BY <1>0, NoConn DEF Listen, SenderKept, Places
<1>8. BufferFirst'
  BY <1>0, NoConn DEF Listen, BufferFirst
<1>9. Ordered'
  BY <1>0, NoConn DEF Listen, Ordered
<1>10. Asked'
  BY <1>0, NoConn DEF Listen, Asked, Places, Listening, Range
<1>11. NothingDropped'
  BY <1>0, NoConn DEF Listen, NothingDropped, Noticed
<1>12. RegistrationsAgree'
  BY <1>0, NoConn DEF Listen, RegistrationsAgree, Listening, Asked, Places
<1>13. PendingAnswers'
  BY <1>0, NoConn DEF Listen, PendingAnswers, Places
<1> QED BY <1>1, <1>2, <1>3, <1>4, <1>5, <1>6, <1>7, <1>8, <1>9, <1>10, <1>11, <1>12, <1>13 DEF ListenerInv

\* listen_all() records its channels before the query runs.
LEMMA ListenAllStep ==
    ASSUME ListenerInv, NEW chs \in Seq(Channels), ListenAll(chs)
    PROVE  ListenerInv'
<1> USE DEF Idle, Gone, CallReturned, BeginCall, Entry, code, world, history
<1>0. /\ Lists /\ Conns /\ CallTyped /\ Flags /\ PoolQuiet /\ Places /\ SenderKept /\ BufferFirst
      /\ Ordered /\ Asked /\ NothingDropped /\ RegistrationsAgree /\ PendingAnswers
  BY DEF ListenerInv
<1>a. Range(channels') = Range(channels) \cup Range(chs)
  BY <1>0, MembersJoin DEF ListenAll, Lists
<1>1. Lists'
  BY <1>0, NoConn DEF ListenAll, Lists
<1>2. Conns'
  BY <1>0, NoConn DEF ListenAll, Conns, Conn
<1>3. CallTyped'
  BY <1>0, NoConn DEF ListenAll, CallTyped, Call, Queries
<1>4. Flags'
  BY <1>0, NoConn DEF ListenAll, Flags
<1>5. PoolQuiet'
  BY <1>0, NoConn DEF ListenAll, PoolQuiet, Quiet
<1>6. Places'
  BY <1>0, NoConn DEF ListenAll, Places, Quiet
<1>7. SenderKept'
  BY <1>0, NoConn DEF ListenAll, SenderKept, Places
<1>8. BufferFirst'
  BY <1>0, NoConn DEF ListenAll, BufferFirst
<1>9. Ordered'
  BY <1>0, NoConn DEF ListenAll, Ordered
<1>10. Asked'
  <2>1. lcall'.chs = chs /\ lcall'.op = "listen_all"
    BY DEF ListenAll
  <2>2. Range(chs) \subseteq unsure'
    BY DEF ListenAll
  <2> QED BY <2>1, <2>2, <1>a DEF Asked, Listening
<1>11. NothingDropped'
  BY <1>0, NoConn DEF ListenAll, NothingDropped, Noticed
<1>12. RegistrationsAgree'
  BY <1>0, <1>a DEF ListenAll, RegistrationsAgree, Listening
<1>13. PendingAnswers'
  BY <1>0, NoConn DEF ListenAll, PendingAnswers, Places
<1> QED BY <1>1, <1>2, <1>3, <1>4, <1>5, <1>6, <1>7, <1>8, <1>9, <1>10, <1>11, <1>12, <1>13 DEF ListenerInv

\* unlisten() without a connection only edits the list.
LEMMA UnlistenStep ==
    ASSUME ListenerInv, NEW ch \in Channels, Unlisten(ch)
    PROVE  ListenerInv'
<1> USE DEF Idle, Gone, CallReturned, BeginCall, Entry, code, world, history
<1>0. /\ Lists /\ Conns /\ CallTyped /\ Flags /\ PoolQuiet /\ Places /\ SenderKept /\ BufferFirst
      /\ Ordered /\ Asked /\ NothingDropped /\ RegistrationsAgree /\ PendingAnswers
  BY DEF ListenerInv
<1>a. Without(ch) \in Seq(Channels) /\ <<ch>> \in Seq(Channels) /\ <<ch>> \in Seq(Channels \cup {"lost"})
  <2>1. Without(ch) \in Seq(Channels)
    BY <1>0, WithoutFacts DEF Unlisten, Lists
  <2> QED BY <2>1
<1>1. Lists'
  BY <1>0, <1>a DEF Unlisten, Lists
<1>2. Conns'
  BY <1>0, NoConn DEF Unlisten, Conns, Conn
<1>3. CallTyped'
  <2>1. [op |-> "unlisten", at |-> "run", chs |-> <<ch>>, ear |-> "none"] \in Call
    BY <1>a DEF Call, Queries
  <2> QED BY <2>1, <1>0 DEF Unlisten, CallTyped
<1>4. Flags'
  BY <1>0, NoConn DEF Unlisten, Flags
<1>5. PoolQuiet'
  BY <1>0, NoConn DEF Unlisten, PoolQuiet, Quiet
<1>6. Places'
  BY <1>0, NoConn DEF Unlisten, Places, Quiet
<1>7. SenderKept'
  BY <1>0, NoConn DEF Unlisten, SenderKept, Places
<1>8. BufferFirst'
  BY <1>0, NoConn DEF Unlisten, BufferFirst
<1>9. Ordered'
  BY <1>0, NoConn DEF Unlisten, Ordered
<1>10. Asked'
  <2>1. CASE connection = NoConnection
    BY <2>1, <1>0 DEF Unlisten, Asked, Listening
  <2>2. CASE connection # NoConnection
    <3>1. lcall'.op = "unlisten" /\ lcall'.at = "run" /\ lcall'.chs = <<ch>> /\ ch \in unsure'
      BY <2>2 DEF Unlisten
    <3> QED BY <3>1, <1>a DEF Asked
  <2> QED BY <2>1, <2>2
<1>11. NothingDropped'
  BY <1>0, NoConn DEF Unlisten, NothingDropped, Noticed
<1>12. RegistrationsAgree'
  BY <1>0, NoConn DEF Unlisten, RegistrationsAgree, Listening, Asked, Places
<1>13. PendingAnswers'
  BY <1>0, NoConn DEF Unlisten, PendingAnswers, Places
<1> QED BY <1>1, <1>2, <1>3, <1>4, <1>5, <1>6, <1>7, <1>8, <1>9, <1>10, <1>11, <1>12, <1>13 DEF ListenerInv

\* unlisten_all() without a connection empties the list, and nothing is registered anywhere.
LEMMA UnlistenAllStep ==
    ASSUME ListenerInv, UnlistenAll
    PROVE  ListenerInv'
<1> USE DEF Idle, Gone, CallReturned, BeginCall, Entry, code, world, history
<1>0. /\ Lists /\ Conns /\ CallTyped /\ Flags /\ PoolQuiet /\ Places /\ SenderKept /\ BufferFirst
      /\ Ordered /\ Asked /\ NothingDropped /\ RegistrationsAgree /\ PendingAnswers
  BY DEF ListenerInv
<1>a. <<>> \in Seq(Channels) /\ <<>> \in Seq(Channels \cup {"lost"})
  OBVIOUS
<1>1. Lists'
  BY <1>0, <1>a DEF UnlistenAll, Lists
<1>2. Conns'
  BY <1>0, NoConn DEF UnlistenAll, Conns, Conn
<1>3. CallTyped'
  <2>1. [op |-> "unlisten_all", at |-> "run", chs |-> <<>>, ear |-> "none"] \in Call
    BY <1>a DEF Call, Queries
  <2> QED BY <2>1, <1>0 DEF UnlistenAll, CallTyped
<1>4. Flags'
  BY <1>0, NoConn DEF UnlistenAll, Flags
<1>5. PoolQuiet'
  BY <1>0, NoConn DEF UnlistenAll, PoolQuiet, Quiet
<1>6. Places'
  BY <1>0, NoConn DEF UnlistenAll, Places, Quiet
<1>7. SenderKept'
  BY <1>0, NoConn DEF UnlistenAll, SenderKept, Places
<1>8. BufferFirst'
  BY <1>0, NoConn DEF UnlistenAll, BufferFirst
<1>9. Ordered'
  BY <1>0, NoConn DEF UnlistenAll, Ordered
<1>10. Asked'
  BY <1>0, NoConn DEF UnlistenAll, Asked, Places, Listening, Range
<1>11. NothingDropped'
  BY <1>0, NoConn DEF UnlistenAll, NothingDropped, Noticed
<1>12. RegistrationsAgree'
  BY <1>0, NoConn DEF UnlistenAll, RegistrationsAgree, Listening, Asked, Places
<1>13. PendingAnswers'
  BY <1>0, NoConn DEF UnlistenAll, PendingAnswers, Places
<1> QED BY <1>1, <1>2, <1>3, <1>4, <1>5, <1>6, <1>7, <1>8, <1>9, <1>10, <1>11, <1>12, <1>13 DEF ListenerInv

\* A query starts; nothing is read yet.
LEMMA QueryStep ==
    ASSUME ListenerInv, NEW op, Query(op)
    PROVE  ListenerInv'
<1> USE DEF Idle, Gone, CallReturned, BeginCall, Entry, code, world, history
<1>0. /\ Lists /\ Conns /\ CallTyped /\ Flags /\ PoolQuiet /\ Places /\ SenderKept /\ BufferFirst
      /\ Ordered /\ Asked /\ NothingDropped /\ RegistrationsAgree /\ PendingAnswers
  BY DEF ListenerInv
<1>1. Lists'
  BY <1>0, NoConn DEF Query, Lists
<1>2. Conns'
  BY <1>0, NoConn DEF Query, Conns, Conn
<1>3. CallTyped'
  BY <1>0, NoConn DEF Query, CallTyped, Call, Queries
<1>4. Flags'
  BY <1>0, NoConn DEF Query, Flags
<1>5. PoolQuiet'
  BY <1>0, NoConn DEF Query, PoolQuiet, Quiet
<1>6. Places'
  BY <1>0, NoConn DEF Query, Places, Quiet
<1>7. SenderKept'
  BY <1>0, NoConn DEF Query, SenderKept, Places
<1>8. BufferFirst'
  BY <1>0, NoConn DEF Query, BufferFirst
<1>9. Ordered'
  BY <1>0, NoConn DEF Query, Ordered
<1>10. Asked'
  BY <1>0, NoConn DEF Query, Asked, Places, Listening, Range
<1>11. NothingDropped'
  BY <1>0, NoConn DEF Query, NothingDropped, Noticed
<1>12. RegistrationsAgree'
  BY <1>0, NoConn DEF Query, RegistrationsAgree, Listening, Asked, Places
<1>13. PendingAnswers'
  BY <1>0, NoConn DEF Query, PendingAnswers, Places
<1> QED BY <1>1, <1>2, <1>3, <1>4, <1>5, <1>6, <1>7, <1>8, <1>9, <1>10, <1>11, <1>12, <1>13 DEF ListenerInv

\* A queued ROLLBACK touches neither the wire nor the sender.
LEMMA DropTransactionStep ==
    ASSUME ListenerInv, DropTransaction
    PROVE  ListenerInv'
<1> USE DEF Idle, Gone, CallReturned, BeginCall, Entry, code, world, history
<1>0. /\ Lists /\ Conns /\ CallTyped /\ Flags /\ PoolQuiet /\ Places /\ SenderKept /\ BufferFirst
      /\ Ordered /\ Asked /\ NothingDropped /\ RegistrationsAgree /\ PendingAnswers
  BY DEF ListenerInv
<1>c. connection' \in Conn /\ connection'.up = connection.up /\ connection'.tx = connection.tx /\ connection'.wire = connection.wire /\ connection'.pending = connection.pending /\ connection'.regs = connection.regs
  BY <1>0 DEF DropTransaction, Conns, Conn
<1>1. Lists'
  BY <1>0, NoConn DEF DropTransaction, Lists
<1>2. Conns'
  BY <1>0, NoConn DEF DropTransaction, Conns, Conn
<1>3. CallTyped'
  BY <1>0, NoConn DEF DropTransaction, CallTyped, Call, Queries
<1>4. Flags'
  BY <1>0, NoConn DEF DropTransaction, Flags
<1>5. PoolQuiet'
  BY <1>0, NoConn DEF DropTransaction, PoolQuiet, Quiet
<1>6. Places'
  BY <1>0, NoConn DEF DropTransaction, Places, Quiet
<1>7. SenderKept'
  <2>1. connection # NoConnection
    BY NoConn DEF DropTransaction
  <2> QED BY <2>1, <1>0, <1>c, NoConn DEF DropTransaction, SenderKept
<1>8. BufferFirst'
  BY <1>0, NoConn DEF DropTransaction, BufferFirst
<1>9. Ordered'
  BY <1>0, NoConn DEF DropTransaction, Ordered
<1>10. Asked'
  BY <1>0, NoConn DEF DropTransaction, Asked, Places, Listening, Range
<1>11. NothingDropped'
  BY <1>0, NoConn DEF DropTransaction, NothingDropped, Noticed
<1>12. RegistrationsAgree'
  BY <1>0, NoConn DEF DropTransaction, RegistrationsAgree, Listening, Asked, Places
<1>13. PendingAnswers'
  BY <1>0, NoConn DEF DropTransaction, PendingAnswers, Places
<1> QED BY <1>1, <1>2, <1>3, <1>4, <1>5, <1>6, <1>7, <1>8, <1>9, <1>10, <1>11, <1>12, <1>13 DEF ListenerInv

\* What is buffered is older than anything on the wire, so it may be returned first.
LEMMA TryRecvBufferedStep ==
    ASSUME ListenerInv, TryRecvBuffered
    PROVE  ListenerInv'
<1> USE DEF Idle, Gone, CallReturned, BeginCall, Entry, code, world, history
<1>0. /\ Lists /\ Conns /\ CallTyped /\ Flags /\ PoolQuiet /\ Places /\ SenderKept /\ BufferFirst
      /\ Ordered /\ Asked /\ NothingDropped /\ RegistrationsAgree /\ PendingAnswers
  BY DEF ListenerInv
<1>1. Lists'
  BY <1>0, NoConn DEF TryRecvBuffered, Lists
<1>2. Conns'
  BY <1>0, NoConn DEF TryRecvBuffered, Conns, Conn
<1>3. CallTyped'
  BY <1>0, NoConn DEF TryRecvBuffered, CallTyped, Call, Queries
<1>4. Flags'
  BY <1>0, NoConn DEF TryRecvBuffered, Flags
<1>5. PoolQuiet'
  BY <1>0, NoConn DEF TryRecvBuffered, PoolQuiet, Quiet
<1>6. Places'
  BY <1>0, NoConn DEF TryRecvBuffered, Places, Quiet
<1>7. SenderKept'
  BY <1>0, NoConn DEF TryRecvBuffered, SenderKept, Places
<1>8. BufferFirst'
  BY <1>0, NoConn DEF TryRecvBuffered, BufferFirst
<1>9. Ordered'
  <2>1. connection.wire \in Seq(Nat)
    BY <1>0 DEF Conns, Conn
  <2> QED BY <2>1, <1>0, ChainTake DEF TryRecvBuffered, Ordered, Lists, Flags
<1>10. Asked'
  BY <1>0, NoConn DEF TryRecvBuffered, Asked, Places, Listening, Range
<1>11. NothingDropped'
  <2>1. Range(got') = Range(got) \cup {Head(buffer)}
    BY <1>0, MembersAppend DEF TryRecvBuffered, Lists
  <2>2. Range(buffer) = {Head(buffer)} \cup Range(buffer')
    BY <1>0, MembersRead DEF TryRecvBuffered, Lists
  <2> QED BY <2>1, <2>2, <1>0 DEF TryRecvBuffered, NothingDropped, Noticed
<1>12. RegistrationsAgree'
  BY <1>0, NoConn DEF TryRecvBuffered, RegistrationsAgree, Listening, Asked, Places
<1>13. PendingAnswers'
  BY <1>0, NoConn DEF TryRecvBuffered, PendingAnswers, Places
<1> QED BY <1>1, <1>2, <1>3, <1>4, <1>5, <1>6, <1>7, <1>8, <1>9, <1>10, <1>11, <1>12, <1>13 DEF ListenerInv

\* A wait starts only with an empty buffer.
LEMMA TryRecvStep ==
    ASSUME ListenerInv, TryRecv
    PROVE  ListenerInv'
<1> USE DEF Idle, Gone, CallReturned, BeginCall, Entry, code, world, history
<1>0. /\ Lists /\ Conns /\ CallTyped /\ Flags /\ PoolQuiet /\ Places /\ SenderKept /\ BufferFirst
      /\ Ordered /\ Asked /\ NothingDropped /\ RegistrationsAgree /\ PendingAnswers
  BY DEF ListenerInv
<1>1. Lists'
  BY <1>0, NoConn DEF TryRecv, Lists
<1>2. Conns'
  BY <1>0, NoConn DEF TryRecv, Conns, Conn
<1>3. CallTyped'
  BY <1>0, NoConn DEF TryRecv, CallTyped, Call, Queries
<1>4. Flags'
  BY <1>0, NoConn DEF TryRecv, Flags
<1>5. PoolQuiet'
  BY <1>0, NoConn DEF TryRecv, PoolQuiet, Quiet
<1>6. Places'
  BY <1>0, NoConn DEF TryRecv, Places, Quiet
<1>7. SenderKept'
  BY <1>0, NoConn DEF TryRecv, SenderKept, Places
<1>8. BufferFirst'
  BY <1>0, NoConn DEF TryRecv, BufferFirst
<1>9. Ordered'
  BY <1>0, NoConn DEF TryRecv, Ordered
<1>10. Asked'
  BY <1>0, NoConn DEF TryRecv, Asked, Places, Listening, Range
<1>11. NothingDropped'
  BY <1>0, NoConn DEF TryRecv, NothingDropped, Noticed
<1>12. RegistrationsAgree'
  BY <1>0, NoConn DEF TryRecv, RegistrationsAgree, Listening, Asked, Places
<1>13. PendingAnswers'
  BY <1>0, NoConn DEF TryRecv, PendingAnswers, Places
<1> QED BY <1>1, <1>2, <1>3, <1>4, <1>5, <1>6, <1>7, <1>8, <1>9, <1>10, <1>11, <1>12, <1>13 DEF ListenerInv

\* The close event is in place and the call enters its loop.
LEMMA CloseEventListenStep ==
    ASSUME ListenerInv, CloseEventListen
    PROVE  ListenerInv'
<1> USE DEF Idle, Gone, Entry, code, world, history
<1>0. /\ Lists /\ Conns /\ CallTyped /\ Flags /\ PoolQuiet /\ Places /\ SenderKept /\ BufferFirst
      /\ Ordered /\ Asked /\ NothingDropped /\ RegistrationsAgree /\ PendingAnswers
  BY DEF ListenerInv
<1>a. /\ lcall.at = "event" /\ lcall' \in Call /\ lcall'.op = lcall.op /\ lcall'.chs = lcall.chs
      /\ lcall'.at = Entry /\ lcall # Gone /\ lcall # Idle /\ lcall' # Gone /\ lcall' # Idle
  <2>1. PICK e \in {"deaf", "listening"} : lcall' = [lcall EXCEPT !.at = Entry, !.ear = e]
    BY DEF CloseEventListen
  <2>2. lcall.at = "event" /\ lcall \in Call /\ Entry \in {"acquire", "run"}
    BY <1>0 DEF CloseEventListen, CallTyped
  <2>3. /\ lcall' \in Call /\ lcall'.op = lcall.op /\ lcall'.chs = lcall.chs /\ lcall'.at = Entry
    <3>1. PICK a \in {"acquire", "run"} : a = Entry
      OBVIOUS
    <3>2. lcall' = [lcall EXCEPT !.at = a, !.ear = e]
      BY ONLY <2>1, <3>1
    <3>3. e \in {"deaf", "listening"} /\ a \in {"acquire", "run"}
      OBVIOUS
    <3>4. PICK c : c = lcall
      OBVIOUS
    <3>5. PICK d : d = lcall'
      OBVIOUS
    <3>6. d = [c EXCEPT !.at = a, !.ear = e] /\ c \in Call
      BY ONLY <2>2, <3>2, <3>4, <3>5
    <3>7. d = [op |-> c.op, at |-> a, chs |-> c.chs, ear |-> e]
      BY ONLY <3>6 DEF Call
    <3>8. d \in Call /\ d.op = c.op /\ d.chs = c.chs /\ d.at = a
      BY ONLY <3>3, <3>6, <3>7 DEF Call
    <3> QED BY ONLY <3>1, <3>4, <3>5, <3>8
  <2>4. Idle.at = "none" /\ Gone.at = "none"
    OBVIOUS
  <2> QED BY <2>2, <2>3, <2>4
<1>b. UNCHANGED <<channels, connection, buffer_tx, buffer, idle_conns, candidate, cut, sent, owed, got, missed, unsure>>
  BY DEF CloseEventListen
<1>1. Lists' /\ Conns' /\ CallTyped' /\ Flags'
  BY <1>0, <1>a, <1>b DEF Lists, Conns, CallTyped, Flags
<1>2. PoolQuiet'
  BY <1>0, <1>b DEF PoolQuiet, Quiet
<1>3. Places'
  BY <1>0, <1>a, <1>b DEF Places
<1>4. SenderKept'
  BY <1>0, <1>a, <1>b DEF SenderKept
<1>5. BufferFirst' /\ Ordered'
  BY <1>0, <1>a, <1>b DEF BufferFirst, Ordered
<1>6. Asked'
  BY <1>0, <1>a, <1>b DEF Asked, Listening
<1>7. NothingDropped' /\ RegistrationsAgree' /\ PendingAnswers'
  BY <1>0, <1>a, <1>b DEF NothingDropped, Noticed, RegistrationsAgree, Listening, PendingAnswers
<1> QED BY <1>1, <1>2, <1>3, <1>4, <1>5, <1>6, <1>7 DEF ListenerInv

\* The sender moves from buffer_tx to the candidate, which is quiet.
LEMMA AcquireStep ==
    ASSUME ListenerInv, Acquire
    PROVE  ListenerInv'
<1> USE DEF Idle, Gone, CallReturned, BeginCall, Entry, code, world, history
<1>0. /\ Lists /\ Conns /\ CallTyped /\ Flags /\ PoolQuiet /\ Places /\ SenderKept /\ BufferFirst
      /\ Ordered /\ Asked /\ NothingDropped /\ RegistrationsAgree /\ PendingAnswers
  BY DEF ListenerInv
<1>a. /\ lcall.at = "acquire" /\ lcall # Gone /\ connection = NoConnection /\ candidate = NoConnection
      /\ connection' = connection /\ cut' = cut /\ buffer' = buffer /\ channels' = channels
      /\ got' = got /\ sent' = sent /\ owed' = owed /\ missed' = missed /\ unsure' = unsure
  BY <1>0 DEF Acquire, Places
<1>b. \/ closed /\ lcall' = Idle /\ UNCHANGED <<idle_conns, candidate, buffer_tx>>
      \/ \E c \in idle_conns \cup {Fresh} :
            /\ candidate' = [c EXCEPT !.tx = buffer_tx] /\ idle_conns' = idle_conns \ {c}
            /\ buffer_tx' = FALSE /\ lcall' = [lcall EXCEPT !.at = "relisten"]
  BY DEF Acquire
<1>c. lcall' = Idle \/ (/\ lcall' \in Call /\ lcall'.op = lcall.op /\ lcall'.chs = lcall.chs
                         /\ lcall'.at = "relisten")
  BY <1>0, <1>b DEF CallTyped, Call
<1>e. \A c \in idle_conns \cup {Fresh} : Quiet(c) /\ c \in Conn
  BY <1>0, NoConn DEF PoolQuiet, Quiet, Conns
<1>f. \/ /\ lcall' = Idle /\ candidate' = candidate /\ idle_conns' = idle_conns /\ buffer_tx' = buffer_tx
      \/ /\ lcall'.at = "relisten" /\ candidate' \in Conn /\ Quiet(candidate') /\ candidate'.tx = buffer_tx
         /\ idle_conns' \subseteq idle_conns /\ buffer_tx' = FALSE
  <2>1. CASE closed /\ lcall' = Idle /\ UNCHANGED <<idle_conns, candidate, buffer_tx>>
    BY <2>1
  <2>2. ASSUME NEW c \in idle_conns \cup {Fresh},
               candidate' = [c EXCEPT !.tx = buffer_tx], idle_conns' = idle_conns \ {c},
               buffer_tx' = FALSE, lcall' = [lcall EXCEPT !.at = "relisten"]
        PROVE  /\ lcall'.at = "relisten" /\ candidate' \in Conn /\ Quiet(candidate') /\ candidate'.tx = buffer_tx
               /\ idle_conns' \subseteq idle_conns /\ buffer_tx' = FALSE
    <3>1. /\ candidate' \in Conn /\ candidate'.tx = buffer_tx /\ candidate'.up = c.up /\ candidate'.regs = c.regs
          /\ candidate'.wire = c.wire /\ candidate'.pending = c.pending
      BY <2>2, <1>0, <1>e DEF Conn, Flags
    <3>2. lcall'.at = "relisten"
      BY <2>2, <1>0 DEF CallTyped, Call
    <3> QED BY <3>1, <3>2, <2>2, <1>e DEF Quiet
  <2> QED BY <1>b, <2>1, <2>2
<1>g. <<>> \in Seq(Channels \cup {"lost"})
  OBVIOUS
<1>1. Lists'
  BY <1>0, <1>a DEF Lists
<1>2. Conns'
  BY <1>0, <1>a, <1>f DEF Conns
<1>3. CallTyped'
  <2>1. Idle \in Call
    BY <1>g DEF Call
  <2> QED BY <2>1, <1>c DEF CallTyped
<1>4. Flags'
  BY <1>0, <1>a, <1>f DEF Flags
<1>5. PoolQuiet'
  BY <1>0, <1>a, <1>f DEF PoolQuiet, Quiet
<1>6. Places'
  <2>1. CASE lcall' = Idle /\ candidate' = candidate
    BY <2>1, <1>a DEF Places
  <2>2. CASE lcall'.at = "relisten" /\ Quiet(candidate')
    <3>1. Quiet(candidate)'
      BY <2>2, <1>a DEF Quiet
    <3> QED BY <2>2, <3>1, <1>a DEF Places
  <2> QED BY <2>1, <2>2, <1>f
<1>7. SenderKept'
  <2>1. ~cut => buffer_tx
    BY <1>0, <1>a DEF SenderKept
  <2>2. CASE lcall' = Idle /\ buffer_tx' = buffer_tx
    BY <2>1, <2>2, <1>a DEF SenderKept
  <2>3. CASE lcall'.at = "relisten" /\ candidate'.tx = buffer_tx
    BY <2>1, <2>3, <1>a DEF SenderKept
  <2> QED BY <2>2, <2>3, <1>f
<1>8. BufferFirst'
  BY <1>0, <1>a, <1>c DEF BufferFirst
<1>9. Ordered'
  BY <1>0, <1>a DEF Ordered
<1>10. Asked'
  <2>1. CASE lcall' = Idle
    BY <2>1 DEF Asked
  <2>2. CASE lcall'.op = lcall.op /\ lcall'.chs = lcall.chs
    <3>1. lcall.op \notin {"unlisten", "unlisten_all"}
      BY <1>0, <1>a DEF Asked
    <3> QED BY <2>2, <3>1, <1>0, <1>a DEF Asked, Listening
  <2> QED BY <2>1, <2>2, <1>c
<1>11. NothingDropped'
  BY <1>0, <1>a DEF NothingDropped, Noticed
<1>12. RegistrationsAgree'
  BY <1>0, <1>a DEF RegistrationsAgree, Listening
<1>13. PendingAnswers'
  BY <1>0, <1>a DEF PendingAnswers
<1> QED BY <1>1, <1>2, <1>3, <1>4, <1>5, <1>6, <1>7, <1>8, <1>9, <1>10, <1>11, <1>12, <1>13 DEF ListenerInv

\* The new connection listens to the recorded channels and holds the sender.
LEMMA RelistenStep ==
    ASSUME ListenerInv, Relisten
    PROVE  ListenerInv'
<1> USE DEF Idle, Gone, CallReturned, BeginCall, Entry, code, world, history
<1>0. /\ Lists /\ Conns /\ CallTyped /\ Flags /\ PoolQuiet /\ Places /\ SenderKept /\ BufferFirst
      /\ Ordered /\ Asked /\ NothingDropped /\ RegistrationsAgree /\ PendingAnswers
  BY DEF ListenerInv
<1>a. /\ lcall.at = "relisten" /\ lcall # Gone /\ connection = NoConnection /\ Quiet(candidate)
      /\ candidate' = NoConnection /\ cut' = cut /\ channels' = channels /\ idle_conns' = idle_conns
      /\ got' = got /\ sent' = sent /\ owed' = owed /\ missed' = missed /\ buffer_tx' = buffer_tx
      /\ buffer' = IF candidate.tx THEN buffer \o Real(candidate.wire) ELSE buffer
      /\ unsure' = unsure \cap (IF lcall.op = "listen" THEN Range(lcall.chs) ELSE {})
  BY <1>0 DEF Relisten, Places
<1>b. /\ connection' \in Conn /\ connection'.up /\ connection'.tx = candidate.tx
      /\ connection'.regs = candidate.regs \cup Listening /\ connection'.wire = <<>> /\ connection'.pending = 0
  <2>1. connection' = [candidate EXCEPT !.regs = candidate.regs \cup Listening, !.wire = <<>>]
    BY DEF Relisten
  <2>2. Listening \subseteq Channels /\ <<>> \in Seq(Nat)
    BY <1>0 DEF Lists, Listening, Range
  <2> QED BY <2>1, <2>2, <1>0, <1>a DEF Conns, Conn, Quiet
<1>c. \/ lcall' = Idle
      \/ /\ lcall' \in Call /\ lcall'.op = lcall.op /\ lcall'.chs = lcall.chs /\ lcall'.at = "run"
  BY <1>0 DEF Relisten, CallTyped, Call
<1>d. Real(candidate.wire) \in Seq(Number) /\ (~cut => Real(candidate.wire) = <<>>)
  BY <1>0, <1>a, RealFacts DEF Quiet, Conns, Conn
<1>e. buffer' \in Seq(Number) /\ Range(buffer) \subseteq Range(buffer') /\ (~cut => buffer' = buffer)
  <2>1. buffer \in Seq(Number)
    BY <1>0 DEF Lists
  <2>2. buffer \o Real(candidate.wire) \in Seq(Number)
    BY <2>1, <1>d
  <2>3. Range(buffer \o Real(candidate.wire)) = Range(buffer) \cup Range(Real(candidate.wire))
    BY <2>1, <1>d, MembersJoin
  <2>4. ~cut => buffer \o Real(candidate.wire) = buffer
    BY <2>1, <1>d
  <2> QED BY <2>1, <2>2, <2>3, <2>4, <1>a
<1>g. <<>> \in Seq(Channels \cup {"lost"})
  OBVIOUS
<1>1. Lists'
  BY <1>0, <1>a, <1>e DEF Lists
<1>2. Conns'
  BY <1>0, <1>a, <1>b, NoConn DEF Conns
<1>3. CallTyped'
  <2>1. Idle \in Call
    BY <1>g DEF Call
  <2> QED BY <2>1, <1>c DEF CallTyped
<1>4. Flags'
  BY <1>0, <1>a DEF Flags
<1>5. PoolQuiet'
  BY <1>0, <1>a DEF PoolQuiet, Quiet
<1>6. Places'
  BY <1>a, <1>c DEF Places
<1>7. SenderKept'
  <2>1. ~cut => candidate.tx
    BY <1>0, <1>a DEF SenderKept
  <2> QED BY <2>1, <1>a, <1>b, <1>c, NoConn DEF SenderKept
<1>8. BufferFirst'
  BY <1>0, <1>a, <1>c, <1>e DEF BufferFirst
<1>9. Ordered'
  <2>1. connection.wire = <<>>
    BY <1>a, NoConn
  <2> QED BY <2>1, <1>0, <1>a, <1>b, <1>e DEF Ordered
<1>10. Asked'
  <2>1. CASE lcall' = Idle
    BY <2>1 DEF Asked
  <2>2. CASE lcall'.op = lcall.op /\ lcall'.chs = lcall.chs /\ lcall'.at = "run"
    <3>1. Listening' = Listening
      BY <1>a DEF Listening
    <3>2. lcall.op \notin {"unlisten", "unlisten_all"}
      BY <1>0, <1>a DEF Asked, Places
    <3> QED BY <2>2, <3>1, <3>2, <1>0, <1>a, <1>b DEF Asked
  <2> QED BY <2>1, <2>2, <1>c
<1>11. NothingDropped'
  <2>1. connection.wire = connection'.wire
    BY <1>a, <1>b, NoConn
  <2> QED BY <2>1, <1>0, <1>a, <1>e DEF NothingDropped, Noticed
<1>12. RegistrationsAgree'
  BY <1>0, <1>a, <1>b DEF RegistrationsAgree, Listening, Quiet
<1>13. PendingAnswers'
  <2>1. Cardinality(Zeros(<<>>)) = 0
    BY ZerosNone
  <2> QED BY <2>1, <1>b DEF PendingAnswers, Zeros
<1> QED BY <1>1, <1>2, <1>3, <1>4, <1>5, <1>6, <1>7, <1>8, <1>9, <1>10, <1>11, <1>12, <1>13 DEF ListenerInv

\* A reconnect that is cut off may leave a connection listening in the pool; cut records it.
LEMMA CutReconnectStep ==
    ASSUME ListenerInv, NEW failed \in BOOLEAN, NEW listened \in BOOLEAN, CutReconnect(failed, listened)
    PROVE  ListenerInv'
<1> USE DEF Idle, Gone, CallReturned, BeginCall, Entry, code, world, history
<1>0. /\ Lists /\ Conns /\ CallTyped /\ Flags /\ PoolQuiet /\ Places /\ SenderKept /\ BufferFirst
      /\ Ordered /\ Asked /\ NothingDropped /\ RegistrationsAgree /\ PendingAnswers
  BY DEF ListenerInv
<1>g. Idle \in Call
  <2>1. <<>> \in Seq(Channels \cup {"lost"})
    OBVIOUS
  <2> QED BY <2>1 DEF Call

<1>a. /\ lcall' = Idle /\ cut' = TRUE /\ candidate' = NoConnection /\ connection' = connection
      /\ channels' = channels /\ buffer' = buffer /\ got' = got /\ sent' = sent /\ buffer_tx' = buffer_tx
      /\ unsure' = unsure
  BY DEF CutReconnect
<1>b. \A c \in idle_conns' : c \in idle_conns
           \/ (/\ lcall.at = "relisten"
               /\ c = [candidate EXCEPT !.regs = IF listened THEN candidate.regs \cup Listening ELSE candidate.regs])
  BY DEF CutReconnect
<1>c. \A c \in idle_conns' : c \in Conn /\ c.up /\ c.pending = 0 /\ \A i \in DOMAIN c.wire : c.wire[i] # 0
  <2> SUFFICES ASSUME NEW c \in idle_conns' PROVE c \in Conn /\ c.up /\ c.pending = 0 /\ \A i \in DOMAIN c.wire : c.wire[i] # 0
    OBVIOUS
  <2>1. CASE c \in idle_conns
    BY <2>1, <1>0 DEF PoolQuiet, Quiet, Conns
  <2>2. CASE lcall.at = "relisten" /\ c = [candidate EXCEPT !.regs = IF listened THEN candidate.regs \cup Listening ELSE candidate.regs]
    <3>1. Listening \subseteq Channels
      BY <1>0 DEF Lists, Listening, Range
    <3>2. Quiet(candidate) /\ candidate \in Conn
      BY <2>2, <1>0 DEF Places, Conns
    <3>3. c \in Conn /\ c.up = candidate.up /\ c.pending = candidate.pending /\ c.wire = candidate.wire
      BY <2>2, <3>1, <3>2 DEF Conn
    <3> QED BY <3>2, <3>3 DEF Quiet
  <2> QED BY <2>1, <2>2, <1>b
<1>1. Lists'
  BY <1>0, <1>a DEF Lists
<1>2. Conns'
  BY <1>0, <1>a, <1>c, NoConn DEF Conns
<1>3. CallTyped'
  BY <1>a, <1>g DEF CallTyped
<1>4. Flags'
  BY <1>0, <1>a DEF Flags
<1>5. PoolQuiet'
  BY <1>a, <1>c DEF PoolQuiet, Quiet
<1>6. Places'
  BY <1>a DEF Places
<1>7. SenderKept'
  BY <1>a DEF SenderKept
<1>8. BufferFirst'
  BY <1>a DEF BufferFirst
<1>9. Ordered'
  BY <1>a DEF Ordered
<1>10. Asked'
  BY <1>a DEF Asked
<1>11. NothingDropped'
  BY <1>a DEF NothingDropped
<1>12. RegistrationsAgree'
  BY <1>a DEF RegistrationsAgree
<1>13. PendingAnswers'
  BY <1>0, <1>a DEF PendingAnswers
<1> QED BY <1>1, <1>2, <1>3, <1>4, <1>5, <1>6, <1>7, <1>8, <1>9, <1>10, <1>11, <1>12, <1>13 DEF ListenerInv

\* A query moves the wire to the buffer, behind what is there, and settles its channels.
LEMMA RunQueryStep ==
    ASSUME ListenerInv, RunQuery
    PROVE  ListenerInv'
<1> USE DEF Idle, Gone, CallReturned, BeginCall, Entry, code, world, history
<1>0. /\ Lists /\ Conns /\ CallTyped /\ Flags /\ PoolQuiet /\ Places /\ SenderKept /\ BufferFirst
      /\ Ordered /\ Asked /\ NothingDropped /\ RegistrationsAgree /\ PendingAnswers
  BY DEF ListenerInv
<1>g. Idle \in Call
  <2>1. <<>> \in Seq(Channels \cup {"lost"})
    OBVIOUS
  <2> QED BY <2>1 DEF Call

<1>a. /\ lcall.at = "run" /\ lcall.op \in Queries /\ lcall # Gone /\ lcall' = Idle /\ connection.up
      /\ connection \in Conn /\ connection.wire \in Seq(Nat)
      /\ candidate = NoConnection /\ candidate' = candidate /\ cut' = cut /\ idle_conns' = idle_conns
      /\ got' = got /\ sent' = sent /\ owed' = owed /\ missed' = missed /\ buffer_tx' = buffer_tx
  BY <1>0 DEF RunQuery, Places, Conns, Conn
<1>b. Registered(connection) \subseteq Channels \cup {"none"}
  <2>1. lcall.op \in {"listen", "listen_all"} => Range(lcall.chs) \subseteq Channels
    BY <1>0 DEF Asked, Range
  <2> QED BY <2>1, <1>a DEF Registered, Conn
<1>c. /\ connection' \in Conn /\ connection'.up /\ connection'.tx = connection.tx
      /\ connection'.regs = Registered(connection) /\ connection'.wire = <<>> /\ connection'.pending = 0
  <2>1. <<>> \in Seq(Nat) /\ 0 \in Int
    BY <1>a DEF Conn
  <2> QED BY <2>1, <1>a, <1>b DEF RunQuery, AfterQuery, Conn

<1>d. buffer' = buffer \o Real(connection.wire) /\ buffer' \in Seq(Number)
      /\ Range(buffer') = Range(buffer) \cup Range(Real(connection.wire))
  <2>1. Real(connection.wire) \in Seq(Number) /\ buffer \in Seq(Number)
    BY <1>0, <1>a, RealFacts DEF Lists
  <2>2. buffer' = buffer \o Real(connection.wire)
    BY DEF RunQuery
  <2> QED BY <2>1, <2>2, MembersJoin
<1>e. channels \in Seq(Channels) /\ Listening = Range(channels)
  BY <1>0 DEF Lists, Listening
<1>f. /\ lcall.op = "listen" => channels' = channels \o lcall.chs /\ lcall.chs \in Seq(Channels)
      /\ lcall.op = "unlisten" => channels' = Without(lcall.chs[1])
      /\ lcall.op = "unlisten_all" => channels' = <<>>
      /\ lcall.op \in {"listen_all", "query", "begin"} => channels' = channels
  BY <1>0 DEF RunQuery, Asked
<1>1. Lists'
  <2>1. channels' \in Seq(Channels)
    <3>1. CASE lcall.op = "listen"
      <4> PICK t : t = lcall.chs
        OBVIOUS
      <4>1. channels \in Seq(Channels) /\ t \in Seq(Channels) /\ channels' = channels \o t
        BY <3>1, <1>e, <1>f
      <4> QED BY ONLY <4>1
    <3>2. CASE lcall.op = "unlisten"
      BY <3>2, <1>e, <1>f, WithoutFacts
    <3>3. CASE lcall.op = "unlisten_all"
      BY <3>3, <1>f
    <3>4. CASE lcall.op \in {"listen_all", "query", "begin"}
      BY <3>4, <1>e, <1>f
    <3> QED BY <3>1, <3>2, <3>3, <3>4, <1>a DEF Queries
  <2> QED BY <2>1, <1>0, <1>a, <1>d DEF Lists
<1>2. Conns'
  BY <1>0, <1>a, <1>c DEF Conns
<1>3. CallTyped'
  BY <1>a, <1>g DEF CallTyped
<1>4. Flags'
  BY <1>0, <1>a DEF Flags
<1>5. PoolQuiet'
  BY <1>0, <1>a DEF PoolQuiet, Quiet
<1>6. Places'
  BY <1>a DEF Places
<1>7. SenderKept'
  BY <1>0, <1>a, <1>c, NoConn DEF SenderKept
<1>8. BufferFirst'
  BY <1>a DEF BufferFirst
<1>9. Ordered'
  BY <1>0, <1>a, <1>c, <1>d, ChainBuffer DEF Ordered, Lists, Flags
<1>10. Asked'
  BY <1>a DEF Asked
<1>11. NothingDropped'
  BY <1>0, <1>a, <1>d DEF NothingDropped, Noticed
<1>12. RegistrationsAgree'
  <2> SUFFICES ASSUME ~cut, NEW ch \in Channels \ unsure'
               PROVE  ch \in connection'.regs <=> ch \in Range(channels')
    BY <1>a DEF RegistrationsAgree, Listening
  <2>0. ch \notin unsure => (ch \in connection.regs <=> ch \in Range(channels))
    BY <1>0, <1>a, <1>e DEF RegistrationsAgree
  <2>1. CASE lcall.op = "listen"
    <3>1. Range(channels') = Range(channels) \cup Range(lcall.chs)
      <4> PICK t : t = lcall.chs
        OBVIOUS
      <4>1. channels \in Seq(Channels) /\ t \in Seq(Channels) /\ channels' = channels \o t
        BY <2>1, <1>e, <1>f
      <4>2. Range(channels \o t) = Range(channels) \cup Range(t)
        BY ONLY <4>1, MembersJoin
      <4> QED BY <4>1, <4>2
    <3>2. unsure' = unsure \ Range(lcall.chs)
      BY <2>1 DEF RunQuery
    <3> QED BY <3>1, <3>2, <2>0, <2>1, <1>c DEF Registered
  <2>2. CASE lcall.op = "listen_all"
    <3>1. unsure' = unsure \ Range(lcall.chs) /\ Range(lcall.chs) \subseteq Range(channels)
      BY <2>2, <1>0 DEF RunQuery, Asked, Listening
    <3> QED BY <3>1, <2>0, <2>2, <1>c, <1>f DEF Registered
  <2>3. CASE lcall.op = "unlisten"
    <3>1. PICK x : x = lcall.chs[1] /\ lcall.chs = <<x>> /\ x \in unsure
      BY <2>3, <1>0 DEF Asked
    <3>2. Range(lcall.chs) = {x}
      BY <3>1 DEF Range
    <3>3. unsure' = IF x \in Range(channels') THEN unsure ELSE unsure \ {x}
      BY <2>3, <3>1, <3>2 DEF RunQuery
    <3>4. ch # x => (ch \in Range(channels') <=> ch \in Range(channels))
      BY <2>3, <3>1, <1>e, <1>f, WithoutFacts
    <3>5. connection'.regs = connection.regs \ {x}
      BY <2>3, <3>2, <1>c DEF Registered
    <3> QED BY <3>1, <3>3, <3>4, <3>5, <2>0
  <2>4. CASE lcall.op = "unlisten_all"
    <3>1. Range(channels') = {}
      BY <2>4, <1>f DEF Range
    <3> QED BY <3>1, <2>4, <1>c DEF Registered
  <2>5. CASE lcall.op \in {"query", "begin"}
    <3>1. unsure' = unsure \ Range(<<>>)
      BY <2>5, <1>0 DEF RunQuery, Asked
    <3>2. Range(<<>>) = {}
      BY DEF Range
    <3> QED BY <3>1, <3>2, <2>0, <2>5, <1>c, <1>f DEF Registered
  <2> QED BY <2>1, <2>2, <2>3, <2>4, <2>5, <1>a DEF Queries
<1>13. PendingAnswers'
  <2>1. Cardinality(Zeros(<<>>)) = 0
    BY ZerosNone
  <2> QED BY <2>1, <1>c DEF PendingAnswers, Zeros
<1> QED BY <1>1, <1>2, <1>3, <1>4, <1>5, <1>6, <1>7, <1>8, <1>9, <1>10, <1>11, <1>12, <1>13 DEF ListenerInv

\* A connection without a sender exists only after a reconnect was cut off.
LEMMA RunUnexpectedStep ==
    ASSUME ListenerInv, RunUnexpected
    PROVE  ListenerInv'
<1> USE DEF Idle, Gone, CallReturned, BeginCall, Entry, code, world, history
<1>0. /\ Lists /\ Conns /\ CallTyped /\ Flags /\ PoolQuiet /\ Places /\ SenderKept /\ BufferFirst
      /\ Ordered /\ Asked /\ NothingDropped /\ RegistrationsAgree /\ PendingAnswers
  BY DEF ListenerInv
<1>g. Idle \in Call
  <2>1. <<>> \in Seq(Channels \cup {"lost"})
    OBVIOUS
  <2> QED BY <2>1 DEF Call

<1>a. /\ lcall.at = "run" /\ lcall.op \in Queries /\ lcall # Gone /\ lcall' = Idle /\ connection.up
      /\ connection \in Conn /\ connection.wire \in Seq(Nat)
      /\ candidate = NoConnection /\ candidate' = candidate /\ cut' = cut /\ idle_conns' = idle_conns
      /\ got' = got /\ sent' = sent /\ owed' = owed /\ missed' = missed /\ buffer_tx' = buffer_tx
  BY <1>0 DEF RunUnexpected, Places, Conns, Conn
<1>b. Registered(connection) \subseteq Channels \cup {"none"}
  <2>1. lcall.op \in {"listen", "listen_all"} => Range(lcall.chs) \subseteq Channels
    BY <1>0 DEF Asked, Range
  <2> QED BY <2>1, <1>a DEF Registered, Conn
<1>c. /\ connection' \in Conn /\ connection'.up /\ connection'.tx = connection.tx
      /\ connection'.regs = Registered(connection) /\ connection'.wire = <<>> /\ connection'.pending = 0
  <2>1. <<>> \in Seq(Nat) /\ 0 \in Int
    BY <1>a DEF Conn
  <2> QED BY <2>1, <1>a, <1>b DEF RunUnexpected, AfterQuery, Conn

<1>d. cut' = TRUE
  BY <1>0, <1>a DEF RunUnexpected, SenderKept, Flags
<1>1. Lists'
  BY <1>0, NoConn DEF RunUnexpected, Lists
<1>2. Conns'
  BY <1>0, <1>a, <1>c DEF Conns
<1>3. CallTyped'
  BY <1>a, <1>g DEF CallTyped
<1>4. Flags'
  BY <1>0, <1>a DEF Flags
<1>5. PoolQuiet'
  BY <1>0, <1>a DEF PoolQuiet, Quiet
<1>6. Places'
  BY <1>a DEF Places
<1>7. SenderKept'
  BY <1>d DEF SenderKept
<1>8. BufferFirst'
  BY <1>d DEF BufferFirst
<1>9. Ordered'
  BY <1>d DEF Ordered
<1>10. Asked'
  BY <1>a DEF Asked
<1>11. NothingDropped'
  BY <1>d DEF NothingDropped
<1>12. RegistrationsAgree'
  BY <1>d DEF RegistrationsAgree
<1>13. PendingAnswers'
  <2>1. Cardinality(Zeros(<<>>)) = 0
    BY ZerosNone
  <2> QED BY <2>1, <1>c DEF PendingAnswers, Zeros
<1> QED BY <1>1, <1>2, <1>3, <1>4, <1>5, <1>6, <1>7, <1>8, <1>9, <1>10, <1>11, <1>12, <1>13 DEF ListenerInv

\* A failed query still moves what arrived to the buffer.
LEMMA RunBrokenStep ==
    ASSUME ListenerInv, RunBroken
    PROVE  ListenerInv'
<1> USE DEF Idle, Gone, CallReturned, BeginCall, Entry, code, world, history
<1>0. /\ Lists /\ Conns /\ CallTyped /\ Flags /\ PoolQuiet /\ Places /\ SenderKept /\ BufferFirst
      /\ Ordered /\ Asked /\ NothingDropped /\ RegistrationsAgree /\ PendingAnswers
  BY DEF ListenerInv
<1>g. Idle \in Call
  <2>1. <<>> \in Seq(Channels \cup {"lost"})
    OBVIOUS
  <2> QED BY <2>1 DEF Call

<1>a. /\ lcall.at = "run" /\ lcall # Gone /\ lcall' = Idle /\ ~connection.up
      /\ connection \in Conn /\ connection.wire \in Seq(Nat)
      /\ candidate = NoConnection /\ candidate' = candidate /\ cut' = cut /\ idle_conns' = idle_conns
      /\ got' = got /\ sent' = sent /\ owed' = owed /\ missed' = missed /\ buffer_tx' = buffer_tx
      /\ channels' = channels /\ unsure' = unsure
      /\ buffer' = IF connection.tx THEN buffer \o Real(connection.wire) ELSE buffer
  BY <1>0 DEF RunBroken, Places, Conns, Conn
<1>c. /\ connection' \in Conn /\ ~connection'.up /\ connection'.tx = connection.tx /\ connection'.wire = <<>>
  <2>1. <<>> \in Seq(Nat)
    OBVIOUS
  <2> QED BY <2>1, <1>a DEF RunBroken, Conn
<1>d. buffer' \in Seq(Number) /\ (connection.tx => Range(buffer') = Range(buffer) \cup Range(Real(connection.wire)))
  <2> PICK r : r = Real(connection.wire)
    OBVIOUS
  <2>1. r \in Seq(Number) /\ buffer \in Seq(Number)
    BY <1>0, <1>a, RealFacts DEF Lists
  <2>2. buffer \o r \in Seq(Number) /\ Range(buffer \o r) = Range(buffer) \cup Range(r)
    BY ONLY <2>1, MembersJoin
  <2> QED BY <2>1, <2>2, <1>a
<1>e. ~cut => connection.tx
  BY <1>0, <1>a DEF SenderKept
<1>1. Lists'
  BY <1>0, <1>a, <1>d DEF Lists
<1>2. Conns'
  BY <1>0, <1>a, <1>c DEF Conns
<1>3. CallTyped'
  BY <1>a, <1>g DEF CallTyped
<1>4. Flags'
  BY <1>0, <1>a DEF Flags
<1>5. PoolQuiet'
  BY <1>0, <1>a DEF PoolQuiet, Quiet
<1>6. Places'
  BY <1>a DEF Places
<1>7. SenderKept'
  BY <1>a, <1>c, <1>e, NoConn DEF SenderKept
<1>8. BufferFirst'
  BY <1>a DEF BufferFirst
<1>9. Ordered'
  BY <1>0, <1>a, <1>c, <1>e, ChainBuffer DEF Ordered, Lists, Flags
<1>10. Asked'
  BY <1>a DEF Asked
<1>11. NothingDropped'
  BY <1>0, <1>a, <1>d, <1>e DEF NothingDropped, Noticed
<1>12. RegistrationsAgree'
  BY <1>c DEF RegistrationsAgree
<1>13. PendingAnswers'
  BY <1>c DEF PendingAnswers
<1> QED BY <1>1, <1>2, <1>3, <1>4, <1>5, <1>6, <1>7, <1>8, <1>9, <1>10, <1>11, <1>12, <1>13 DEF ListenerInv

\* An abandoned query leaves one more answer on the wire and its channels unsure.
LEMMA CancelQueryStep ==
    ASSUME ListenerInv, CancelQuery
    PROVE  ListenerInv'
<1> USE DEF Idle, Gone, CallReturned, BeginCall, Entry, code, world, history
<1>0. /\ Lists /\ Conns /\ CallTyped /\ Flags /\ PoolQuiet /\ Places /\ SenderKept /\ BufferFirst
      /\ Ordered /\ Asked /\ NothingDropped /\ RegistrationsAgree /\ PendingAnswers
  BY DEF ListenerInv
<1>g. Idle \in Call
  <2>1. <<>> \in Seq(Channels \cup {"lost"})
    OBVIOUS
  <2> QED BY <2>1 DEF Call

<1>a. /\ lcall.at = "run" /\ lcall.op \in Queries /\ lcall # Gone /\ lcall' = Idle /\ connection.up
      /\ connection \in Conn /\ connection.wire \in Seq(Nat)
      /\ candidate = NoConnection /\ candidate' = candidate /\ cut' = cut /\ idle_conns' = idle_conns
      /\ got' = got /\ sent' = sent /\ owed' = owed /\ missed' = missed /\ buffer_tx' = buffer_tx
  BY <1>0 DEF CancelQuery, Places, Conns, Conn
<1>b. Registered(connection) \subseteq Channels \cup {"none"}
  <2>1. lcall.op \in {"listen", "listen_all"} => Range(lcall.chs) \subseteq Channels
    BY <1>0 DEF Asked, Range
  <2> QED BY <2>1, <1>a DEF Registered, Conn
<1>c. /\ connection' \in Conn /\ connection'.up /\ connection'.tx = connection.tx
      /\ connection'.regs = Registered(connection) /\ connection'.wire = Append(connection.wire, 0) /\ connection'.pending = (connection.pending + 1)
  <2>1. Append(connection.wire, 0) \in Seq(Nat) /\ (connection.pending + 1) \in Int
    BY <1>a DEF Conn
  <2> QED BY <2>1, <1>a, <1>b DEF CancelQuery, AfterQuery, Conn

<1>d. Range(Real(connection'.wire)) = Range(Real(connection.wire))
  <2>1. Range(connection'.wire) = Range(connection.wire) \cup {0}
    BY <1>a, <1>c, MembersAppend
  <2>2. connection'.wire \in Seq(Nat)
    BY <1>c DEF Conn
  <2> QED BY <2>1, <2>2, <1>a, RealFacts
<1>1. Lists'
  BY <1>0, NoConn DEF CancelQuery, Lists
<1>2. Conns'
  BY <1>0, <1>a, <1>c DEF Conns
<1>3. CallTyped'
  BY <1>a, <1>g DEF CallTyped
<1>4. Flags'
  BY <1>0, <1>a DEF Flags
<1>5. PoolQuiet'
  BY <1>0, <1>a DEF PoolQuiet, Quiet
<1>6. Places'
  BY <1>a DEF Places
<1>7. SenderKept'
  BY <1>0, <1>a, <1>c, NoConn DEF SenderKept
<1>8. BufferFirst'
  BY <1>a DEF BufferFirst
<1>9. Ordered'
  BY <1>0, <1>a, <1>c, ChainSend DEF CancelQuery, Ordered, Lists, Flags
<1>10. Asked'
  BY <1>a DEF Asked
<1>11. NothingDropped'
  BY <1>0, <1>a, <1>d DEF CancelQuery, NothingDropped, Noticed
<1>12. RegistrationsAgree'
  <2> SUFFICES ASSUME ~cut, NEW ch \in Channels \ unsure
               PROVE  ch \in Registered(connection) <=> ch \in Listening
    BY <1>a, <1>c DEF CancelQuery, RegistrationsAgree, Listening
  <2>1. ch \in connection.regs <=> ch \in Listening
    BY <1>0, <1>a DEF RegistrationsAgree
  <2>2. CASE lcall.op \in {"listen", "listen_all"}
    BY <2>1, <2>2, <1>0 DEF Registered, Asked
  <2>3. CASE lcall.op = "unlisten"
    <3>1. PICK x : lcall.chs = <<x>> /\ x \in unsure
      BY <2>3, <1>0 DEF Asked
    <3>2. Range(lcall.chs) = {x}
      BY <3>1 DEF Range
    <3> QED BY <3>1, <3>2, <2>1, <2>3 DEF Registered
  <2>4. CASE lcall.op = "unlisten_all"
    BY <2>4, <1>0 DEF Asked
  <2>5. CASE lcall.op \in {"query", "begin"}
    BY <2>1, <2>5 DEF Registered
  <2> QED BY <2>2, <2>3, <2>4, <2>5, <1>a DEF Queries
<1>13. PendingAnswers'
  <2>1. connection.pending = Cardinality(Zeros(connection.wire))
    BY <1>0, <1>a DEF PendingAnswers, Zeros
  <2>2. Cardinality(Zeros(connection'.wire)) = Cardinality(Zeros(connection.wire)) + 1
    BY <1>a, <1>c, ZerosAppend
  <2> QED BY <2>1, <2>2, <1>c DEF PendingAnswers, Zeros
<1> QED BY <1>1, <1>2, <1>3, <1>4, <1>5, <1>6, <1>7, <1>8, <1>9, <1>10, <1>11, <1>12, <1>13 DEF ListenerInv

\* A message read from the wire is an answer to skip, or newer than all that was returned.
LEMMA ReceiveMessageStep ==
    ASSUME ListenerInv, ReceiveMessage
    PROVE  ListenerInv'
<1> USE DEF Idle, Gone, CallReturned, BeginCall, Entry, code, world, history
<1>0. /\ Lists /\ Conns /\ CallTyped /\ Flags /\ PoolQuiet /\ Places /\ SenderKept /\ BufferFirst
      /\ Ordered /\ Asked /\ NothingDropped /\ RegistrationsAgree /\ PendingAnswers
  BY DEF ListenerInv
<1>g. Idle \in Call
  <2>1. <<>> \in Seq(Channels \cup {"lost"})
    OBVIOUS
  <2> QED BY <2>1 DEF Call

<1>a. /\ lcall.at = "run" /\ lcall.op = "try_recv" /\ lcall # Gone /\ lcall' \in {Idle, lcall}
      /\ connection \in Conn /\ connection.wire \in Seq(Nat) /\ connection.wire # <<>>
      /\ candidate = NoConnection /\ candidate' = candidate /\ cut' = cut /\ idle_conns' = idle_conns
      /\ sent' = sent /\ owed' = owed /\ missed' = missed /\ buffer_tx' = buffer_tx
      /\ channels' = channels /\ unsure' = unsure /\ buffer' = buffer
  BY <1>0 DEF ReceiveMessage, Waiting, Places, Conns, Conn
<1>b. /\ Tail(connection.wire) \in Seq(Nat) /\ Head(connection.wire) \in Nat
      /\ Range(connection.wire) = {Head(connection.wire)} \cup Range(Tail(connection.wire))
  BY <1>a, MembersRead
<1>c. /\ connection' \in Conn /\ connection'.up = connection.up /\ connection'.tx = connection.tx
      /\ connection'.regs = connection.regs /\ connection'.wire = Tail(connection.wire)
      /\ connection'.pending = connection.pending - (IF Head(connection.wire) = 0 THEN 1 ELSE 0)
  <2>1. CASE Head(connection.wire) = 0
    <3>1. connection' = [connection EXCEPT !.wire = Tail(connection.wire), !.pending = connection.pending - 1]
      BY <2>1 DEF ReceiveMessage
    <3>2. connection.pending - 1 \in Int
      BY <1>a DEF Conn
    <3> QED BY <2>1, <3>1, <3>2, <1>a, <1>b DEF Conn
  <2>2. CASE Head(connection.wire) # 0
    <3>1. connection' = [connection EXCEPT !.wire = Tail(connection.wire)]
      BY <2>2 DEF ReceiveMessage
    <3>2. connection.pending - 0 = connection.pending
      BY <1>a DEF Conn
    <3> QED BY <2>2, <3>1, <3>2, <1>a, <1>b DEF Conn
  <2> QED BY <2>1, <2>2
<1>d. \/ Head(connection.wire) = 0 /\ got' = got
      \/ Head(connection.wire) # 0 /\ got' = Append(got, Head(connection.wire)) /\ lcall' = Idle
  BY DEF ReceiveMessage
<1>e. Range(Real(connection.wire)) = Range(connection.wire) \ {0}
      /\ Range(Real(connection'.wire)) = Range(connection'.wire) \ {0}
  BY <1>a, <1>b, <1>c, RealFacts
<1>1. Lists'
  <2>1. got' \in Seq(Number)
    <3>1. CASE got' = got
      BY <3>1, <1>0 DEF Lists
    <3>2. CASE Head(connection.wire) # 0 /\ got' = Append(got, Head(connection.wire))
      <4> PICK x : x = Head(connection.wire)
        OBVIOUS
      <4>1. x \in Number /\ got \in Seq(Number) /\ got' = Append(got, x)
        BY <3>2, <1>0, <1>b DEF Lists, Number
      <4> QED BY ONLY <4>1
    <3> QED BY <3>1, <3>2, <1>d
  <2> QED BY <2>1, <1>0, <1>a DEF Lists
<1>2. Conns'
  BY <1>0, <1>a, <1>c DEF Conns
<1>3. CallTyped'
  BY <1>0, <1>a, <1>g DEF CallTyped
<1>4. Flags'
  BY <1>0, <1>a DEF Flags
<1>5. PoolQuiet'
  BY <1>0, <1>a DEF PoolQuiet, Quiet
<1>6. Places'
  BY <1>0, <1>a DEF Places
<1>7. SenderKept'
  BY <1>0, <1>a, <1>c, NoConn DEF SenderKept
<1>8. BufferFirst'
  BY <1>0, <1>a DEF BufferFirst
<1>9. Ordered'
  <2>1. ~cut => buffer = <<>>
    BY <1>0, <1>a DEF BufferFirst
  <2> QED BY <2>1, <1>0, <1>a, <1>c, <1>d, ChainRead DEF Ordered, Lists, Flags
<1>10. Asked'
  BY <1>0, <1>a DEF Asked
<1>11. NothingDropped'
  <2>1. CASE Head(connection.wire) = 0 /\ got' = got
    BY <2>1, <1>0, <1>a, <1>b, <1>c, <1>e DEF NothingDropped, Noticed
  <2>2. CASE got' = Append(got, Head(connection.wire))
    <3>1. Range(got') = Range(got) \cup {Head(connection.wire)}
      BY <2>2, <1>0, MembersAppend DEF Lists
    <3> QED BY <3>1, <1>0, <1>a, <1>b, <1>c, <1>e DEF NothingDropped, Noticed
  <2> QED BY <2>1, <2>2, <1>d
<1>12. RegistrationsAgree'
  BY <1>0, <1>a, <1>c DEF RegistrationsAgree, Listening
<1>13. PendingAnswers'
  <2>1. connection.up => connection.pending = Cardinality(Zeros(connection.wire))
    BY <1>0 DEF PendingAnswers, Zeros
  <2>2. Cardinality(Zeros(connection.wire)) = Cardinality(Zeros(connection'.wire)) + (IF Head(connection.wire) = 0 THEN 1 ELSE 0)
    BY <1>a, <1>c, ZerosTail
  <2>3. Cardinality(Zeros(connection'.wire)) \in Nat
    BY <1>b, <1>c, ZerosFinite
  <2>4. connection'.up => connection'.pending = Cardinality(Zeros(connection'.wire))
    BY <2>1, <2>2, <2>3, <1>c
  <2> QED BY <2>4 DEF PendingAnswers, Zeros
<1> QED BY <1>1, <1>2, <1>3, <1>4, <1>5, <1>6, <1>7, <1>8, <1>9, <1>10, <1>11, <1>12, <1>13 DEF ListenerInv

\* The sender returns to buffer_tx, and the wire was read to its end.
LEMMA LoseConnectionStep ==
    ASSUME ListenerInv, LoseConnection
    PROVE  ListenerInv'
<1> USE DEF Idle, Gone, CallReturned, BeginCall, Entry, code, world, history
<1>0. /\ Lists /\ Conns /\ CallTyped /\ Flags /\ PoolQuiet /\ Places /\ SenderKept /\ BufferFirst
      /\ Ordered /\ Asked /\ NothingDropped /\ RegistrationsAgree /\ PendingAnswers
  BY DEF ListenerInv
<1>g. Idle \in Call
  <2>1. <<>> \in Seq(Channels \cup {"lost"})
    OBVIOUS
  <2> QED BY <2>1 DEF Call

<1>a. /\ lcall.at = "run" /\ lcall.op = "try_recv" /\ lcall # Gone /\ connection \in Conn
      /\ connection.wire = <<>> /\ connection' = NoConnection /\ buffer_tx' = connection.tx
      /\ candidate = NoConnection /\ candidate' = candidate /\ cut' = cut /\ idle_conns' = idle_conns
      /\ sent' = sent /\ owed' = owed /\ missed' = missed /\ got' = got
      /\ channels' = channels /\ unsure' = unsure /\ buffer' = buffer
  BY <1>0 DEF LoseConnection, Waiting, Places, Conns
<1>c. \/ lcall' = Idle
      \/ /\ lcall' \in Call /\ lcall'.op = "try_recv" /\ lcall'.at = "acquire"
         /\ lcall'.chs = <<"lost">> /\ lcall' # Idle /\ lcall' # Gone
  <2>1. lcall' = Idle \/ lcall' = [lcall EXCEPT !.at = "acquire", !.chs = <<"lost">>]
    BY DEF LoseConnection
  <2>2. PICK l : l = <<"lost">>
    OBVIOUS
  <2>3. l \in Seq(Channels \cup {"lost"})
    BY <2>2
  <2>4. PICK d : d = [lcall EXCEPT !.at = "acquire", !.chs = l]
    OBVIOUS
  <2>5. d = [op |-> lcall.op, at |-> "acquire", chs |-> l, ear |-> lcall.ear]
    BY ONLY <2>4, <1>0 DEF CallTyped, Call
  <2>6. d \in Call /\ d.op = lcall.op /\ d.at = "acquire" /\ d.chs = l
    BY ONLY <2>5, <2>3, <1>0 DEF CallTyped, Call
  <2>7. Idle.at = "none" /\ Gone.at = "none"
    OBVIOUS
  <2> QED BY <2>1, <2>2, <2>4, <2>6, <2>7, <1>a, Zenon
<1>1. Lists'
  BY <1>0, <1>a DEF Lists
<1>2. Conns'
  BY <1>0, <1>a, NoConn DEF Conns
<1>3. CallTyped'
  BY <1>c, <1>g DEF CallTyped
<1>4. Flags'
  BY <1>0, <1>a DEF Flags, Conn
<1>5. PoolQuiet'
  BY <1>0, <1>a DEF PoolQuiet, Quiet
<1>6. Places'
  BY <1>a, <1>c DEF Places
<1>7. SenderKept'
  BY <1>0, <1>a, <1>c, NoConn DEF SenderKept
<1>8. BufferFirst'
  BY <1>0, <1>a DEF BufferFirst
<1>9. Ordered'
  BY <1>0, <1>a, NoConn DEF Ordered
<1>10. Asked'
  BY <1>c DEF Asked
<1>11. NothingDropped'
  BY <1>0, <1>a, NoConn DEF NothingDropped, Noticed
<1>12. RegistrationsAgree'
  BY <1>a, NoConn DEF RegistrationsAgree
<1>13. PendingAnswers'
  BY <1>a, NoConn DEF PendingAnswers
<1> QED BY <1>1, <1>2, <1>3, <1>4, <1>5, <1>6, <1>7, <1>8, <1>9, <1>10, <1>11, <1>12, <1>13 DEF ListenerInv

\* An error that is forwarded leaves the connection as it is.
LEMMA ForwardErrorStep ==
    ASSUME ListenerInv, ForwardError
    PROVE  ListenerInv'
<1> USE DEF Idle, Gone, CallReturned, BeginCall, Entry, code, world, history
<1>0. /\ Lists /\ Conns /\ CallTyped /\ Flags /\ PoolQuiet /\ Places /\ SenderKept /\ BufferFirst
      /\ Ordered /\ Asked /\ NothingDropped /\ RegistrationsAgree /\ PendingAnswers
  BY DEF ListenerInv
<1>g. Idle \in Call
  <2>1. <<>> \in Seq(Channels \cup {"lost"})
    OBVIOUS
  <2> QED BY <2>1 DEF Call

<1>a. /\ lcall.at = "run" /\ lcall # Gone /\ lcall' = Idle /\ candidate = NoConnection
      /\ UNCHANGED <<channels, buffer_tx, buffer, idle_conns, candidate, cut, sent, owed, got, missed, unsure>>
  BY <1>0 DEF ForwardError, Waiting, Places
<1>c. /\ connection' \in Conn /\ connection'.up = connection.up /\ connection'.tx = connection.tx
      /\ connection'.regs = connection.regs /\ connection'.wire = connection.wire
      /\ connection'.pending = connection.pending
  BY <1>0 DEF ForwardError, Conns, Conn
<1>1. Lists'
  BY <1>0, <1>a DEF Lists
<1>2. Conns'
  BY <1>0, <1>a, <1>c DEF Conns
<1>3. CallTyped'
  BY <1>a, <1>g DEF CallTyped
<1>4. Flags'
  BY <1>0, <1>a DEF Flags
<1>5. PoolQuiet'
  BY <1>0, <1>a DEF PoolQuiet, Quiet
<1>6. Places'
  BY <1>a DEF Places
<1>7. SenderKept'
  BY <1>0, <1>a, <1>c, NoConn DEF SenderKept
<1>8. BufferFirst'
  BY <1>a DEF BufferFirst
<1>9. Ordered'
  BY <1>0, <1>a, <1>c DEF Ordered
<1>10. Asked'
  BY <1>a DEF Asked
<1>11. NothingDropped'
  BY <1>0, <1>a, <1>c DEF NothingDropped, Noticed
<1>12. RegistrationsAgree'
  BY <1>0, <1>a, <1>c DEF RegistrationsAgree, Listening
<1>13. PendingAnswers'
  BY <1>0, <1>c DEF PendingAnswers
<1> QED BY <1>1, <1>2, <1>3, <1>4, <1>5, <1>6, <1>7, <1>8, <1>9, <1>10, <1>11, <1>12, <1>13 DEF ListenerInv

\* The close event ends a wait that took nothing.
LEMMA PoolClosedStep ==
    ASSUME ListenerInv, PoolClosed
    PROVE  ListenerInv'
<1> USE DEF Idle, Gone, CallReturned, BeginCall, Entry, code, world, history
<1>0. /\ Lists /\ Conns /\ CallTyped /\ Flags /\ PoolQuiet /\ Places /\ SenderKept /\ BufferFirst
      /\ Ordered /\ Asked /\ NothingDropped /\ RegistrationsAgree /\ PendingAnswers
  BY DEF ListenerInv
<1>g. Idle \in Call
  <2>1. <<>> \in Seq(Channels \cup {"lost"})
    OBVIOUS
  <2> QED BY <2>1 DEF Call

<1>a. /\ lcall.at = "run" /\ lcall # Gone /\ lcall' = Idle /\ candidate = NoConnection
      /\ UNCHANGED <<channels, buffer_tx, buffer, idle_conns, candidate, cut, sent, owed, got, missed, unsure>>
  BY <1>0 DEF PoolClosed, Waiting, Places
<1>c. /\ connection' \in Conn /\ connection'.up = connection.up /\ connection'.tx = connection.tx
      /\ connection'.regs = connection.regs /\ connection'.wire = connection.wire
      /\ connection'.pending = connection.pending
  BY <1>0 DEF PoolClosed, Conns, Conn
<1>1. Lists'
  BY <1>0, <1>a DEF Lists
<1>2. Conns'
  BY <1>0, <1>a, <1>c DEF Conns
<1>3. CallTyped'
  BY <1>a, <1>g DEF CallTyped
<1>4. Flags'
  BY <1>0, <1>a DEF Flags
<1>5. PoolQuiet'
  BY <1>0, <1>a DEF PoolQuiet, Quiet
<1>6. Places'
  BY <1>a DEF Places
<1>7. SenderKept'
  BY <1>0, <1>a, <1>c, NoConn DEF SenderKept
<1>8. BufferFirst'
  BY <1>a DEF BufferFirst
<1>9. Ordered'
  BY <1>0, <1>a, <1>c DEF Ordered
<1>10. Asked'
  BY <1>a DEF Asked
<1>11. NothingDropped'
  BY <1>0, <1>a, <1>c DEF NothingDropped, Noticed
<1>12. RegistrationsAgree'
  BY <1>0, <1>a, <1>c DEF RegistrationsAgree, Listening
<1>13. PendingAnswers'
  BY <1>0, <1>c DEF PendingAnswers
<1> QED BY <1>1, <1>2, <1>3, <1>4, <1>5, <1>6, <1>7, <1>8, <1>9, <1>10, <1>11, <1>12, <1>13 DEF ListenerInv

\* A dropped wait took nothing.
LEMMA CancelWaitStep ==
    ASSUME ListenerInv, CancelWait
    PROVE  ListenerInv'
<1> USE DEF Idle, Gone, CallReturned, BeginCall, Entry, code, world, history
<1>0. /\ Lists /\ Conns /\ CallTyped /\ Flags /\ PoolQuiet /\ Places /\ SenderKept /\ BufferFirst
      /\ Ordered /\ Asked /\ NothingDropped /\ RegistrationsAgree /\ PendingAnswers
  BY DEF ListenerInv
<1>g. Idle \in Call
  <2>1. <<>> \in Seq(Channels \cup {"lost"})
    OBVIOUS
  <2> QED BY <2>1 DEF Call

<1>a. /\ lcall.at = "run" /\ lcall # Gone /\ lcall' = Idle /\ candidate = NoConnection
      /\ UNCHANGED <<channels, buffer_tx, buffer, idle_conns, candidate, cut, sent, owed, got, missed, unsure>>
  BY <1>0 DEF CancelWait, Waiting, Places
<1>c. /\ connection' \in Conn /\ connection'.up = connection.up /\ connection'.tx = connection.tx
      /\ connection'.regs = connection.regs /\ connection'.wire = connection.wire
      /\ connection'.pending = connection.pending
  BY <1>0 DEF CancelWait, Conns, Conn
<1>1. Lists'
  BY <1>0, <1>a DEF Lists
<1>2. Conns'
  BY <1>0, <1>a, <1>c DEF Conns
<1>3. CallTyped'
  BY <1>a, <1>g DEF CallTyped
<1>4. Flags'
  BY <1>0, <1>a DEF Flags
<1>5. PoolQuiet'
  BY <1>0, <1>a DEF PoolQuiet, Quiet
<1>6. Places'
  BY <1>a DEF Places
<1>7. SenderKept'
  BY <1>0, <1>a, <1>c, NoConn DEF SenderKept
<1>8. BufferFirst'
  BY <1>a DEF BufferFirst
<1>9. Ordered'
  BY <1>0, <1>a, <1>c DEF Ordered
<1>10. Asked'
  BY <1>a DEF Asked
<1>11. NothingDropped'
  BY <1>0, <1>a, <1>c DEF NothingDropped, Noticed
<1>12. RegistrationsAgree'
  BY <1>0, <1>a, <1>c DEF RegistrationsAgree, Listening
<1>13. PendingAnswers'
  BY <1>0, <1>c DEF PendingAnswers
<1> QED BY <1>1, <1>2, <1>3, <1>4, <1>5, <1>6, <1>7, <1>8, <1>9, <1>10, <1>11, <1>12, <1>13 DEF ListenerInv

\* The connection goes back to the pool after UNLISTEN *.
LEMMA DropListenerStep ==
    ASSUME ListenerInv, DropListener
    PROVE  ListenerInv'
<1> USE DEF Idle, Gone, CallReturned, BeginCall, Entry, code, world, history
<1>0. /\ Lists /\ Conns /\ CallTyped /\ Flags /\ PoolQuiet /\ Places /\ SenderKept /\ BufferFirst
      /\ Ordered /\ Asked /\ NothingDropped /\ RegistrationsAgree /\ PendingAnswers
  BY DEF ListenerInv
<1>a. /\ lcall = Idle /\ lcall' = Gone /\ connection' = NoConnection /\ connection \in Conn /\ candidate = NoConnection
      /\ candidate' = candidate /\ connection.wire \in Seq(Nat)
      /\ UNCHANGED <<channels, buffer_tx, buffer, cut, sent, owed, got, missed, unsure>>
  BY <1>0 DEF DropListener, Conns, Conn, Places
<1>b. PICK d : d = [connection EXCEPT !.regs = {}, !.wire = <<>>, !.pending = 0, !.open = FALSE, !.queued = FALSE]
  OBVIOUS
<1>c. d \in Conn /\ d.up = connection.up /\ d.regs = {} /\ d.wire = <<>> /\ d.pending = 0
  <2>1. <<>> \in Seq(Nat)
    OBVIOUS
  <2>2. connection \in Conn /\ d = [connection EXCEPT !.regs = {}, !.wire = <<>>, !.pending = 0, !.open = FALSE, !.queued = FALSE]
    BY <1>a, <1>b
  <2>3. {} \subseteq Channels \cup {"none"} /\ 0 \in Int
    OBVIOUS
  <2>4. d \in Conn
    BY ONLY <2>1, <2>2, <2>3 DEF Conn
  <2>5. d.up = connection.up /\ d.regs = {} /\ d.wire = <<>> /\ d.pending = 0
    BY ONLY <2>2 DEF Conn
  <2> QED BY <2>4, <2>5
<1>d. \A c \in idle_conns' : c \in idle_conns \/ (connection.up /\ c = d)
  BY <1>b DEF DropListener
<1>1. Lists'
  BY <1>0, <1>a DEF Lists
<1>2. Conns'
  BY <1>0, <1>a, <1>c, <1>d, NoConn DEF Conns
<1>3. CallTyped'
  <2>1. <<>> \in Seq(Channels \cup {"lost"})
    OBVIOUS
  <2>2. Gone = [op |-> "gone", at |-> "none", chs |-> <<>>, ear |-> "none"]
    OBVIOUS
  <2>3. Gone \in Call
    BY <2>1, <2>2 DEF Call
  <2> QED BY <2>3, <1>a DEF CallTyped
<1>4. Flags'
  BY <1>0, <1>a DEF Flags
<1>5. PoolQuiet'
  BY <1>0, <1>a, <1>c, <1>d DEF PoolQuiet, Quiet
<1>6. Places'
  BY <1>a DEF Places
<1>7. SenderKept'
  BY <1>a DEF SenderKept
<1>8. BufferFirst'
  BY <1>a DEF BufferFirst
<1>9. Ordered'
  <2>1. 0 \in 0..Len(connection.wire)
    BY <1>a
  <2>2. ~cut => Chain(got, buffer, <<>>, sent)
    BY <2>1, <1>0, <1>a, ChainCut DEF Ordered
  <2> QED BY <2>2, <1>a, NoConn DEF Ordered
<1>10. Asked'
  BY <1>a DEF Asked
<1>11. NothingDropped'
  BY <1>a DEF NothingDropped
<1>12. RegistrationsAgree'
  BY <1>a, NoConn DEF RegistrationsAgree
<1>13. PendingAnswers'
  BY <1>a, NoConn DEF PendingAnswers
<1> QED BY <1>1, <1>2, <1>3, <1>4, <1>5, <1>6, <1>7, <1>8, <1>9, <1>10, <1>11, <1>12, <1>13 DEF ListenerInv

\* A new notification is newer than all others; it reaches the wire or counts as missed.
LEMMA NotifyStep ==
    ASSUME ListenerInv, NEW ch \in Channels, Notify(ch)
    PROVE  ListenerInv'
<1> USE DEF Idle, Gone, CallReturned, BeginCall, Entry, code, world, history
<1>0. /\ Lists /\ Conns /\ CallTyped /\ Flags /\ PoolQuiet /\ Places /\ SenderKept /\ BufferFirst
      /\ Ordered /\ Asked /\ NothingDropped /\ RegistrationsAgree /\ PendingAnswers
  BY DEF ListenerInv
<1>a. /\ UNCHANGED <<channels, buffer_tx, buffer, lcall, cut, got, unsure>>
      /\ lcall # Gone /\ connection \in Conn /\ candidate \in Conn /\ connection.wire \in Seq(Nat)
  BY <1>0 DEF Notify, Conns, Conn
<1>b. PICK n : n = sent + 1
  OBVIOUS
<1>c. n \in Number /\ sent' = n /\ sent \in Nat
  BY <1>0, <1>b DEF Notify, Flags, Number
<1>d. /\ connection' = Told(connection, ch, n) /\ candidate' = Told(candidate, ch, n)
      /\ idle_conns' = {Told(c, ch, n) : c \in idle_conns}
  BY <1>b DEF Notify
<1>e. /\ connection' \in Conn /\ connection'.up = connection.up /\ connection'.tx = connection.tx
      /\ connection'.regs = connection.regs /\ connection'.pending = connection.pending
      /\ connection.up /\ ch \in connection.regs => connection'.wire = Append(connection.wire, n)
      /\ ~(connection.up /\ ch \in connection.regs) => connection' = connection
  BY <1>a, <1>c, <1>d, ToldFacts
<1>f. candidate' \in Conn /\ candidate'.tx = candidate.tx /\ (candidate = NoConnection => candidate' = NoConnection)
  BY <1>a, <1>c, <1>d, ToldFacts, NoConn
<1>g. connection = NoConnection <=> connection' = NoConnection
  BY <1>e, NoConn
<1>1. Lists'
  BY <1>0, <1>a DEF Lists
<1>2. Conns'
  <2>1. \A c \in idle_conns : Told(c, ch, n) \in Conn
    BY <1>0, <1>c, ToldFacts DEF Conns
  <2> QED BY <2>1, <1>d, <1>e, <1>f DEF Conns
<1>3. CallTyped'
  BY <1>0, <1>a DEF CallTyped
<1>4. Flags'
  BY <1>0, <1>a, <1>c DEF Flags, Number
<1>5. PoolQuiet'
  <2>1. \A c \in idle_conns : Quiet(Told(c, ch, n))
    BY <1>0, <1>c, ToldQuiet DEF Conns, PoolQuiet
  <2>2. \A c \in idle_conns' : Quiet(c)
    BY <2>1, <1>d
  <2> QED BY <2>2, <1>a DEF PoolQuiet, Quiet
<1>6. Places'
  <2>1. lcall.at = "relisten" => Quiet(Told(candidate, ch, n))
    BY <1>0, <1>a, <1>c, ToldQuiet DEF Places
  <2>2. lcall.at = "relisten" => Quiet(candidate)'
    BY <2>1, <1>a, <1>d DEF Quiet
  <2> QED BY <2>2, <1>0, <1>a, <1>f, <1>g DEF Places
<1>7. SenderKept'
  BY <1>0, <1>a, <1>e, <1>f, <1>g DEF SenderKept
<1>8. BufferFirst'
  BY <1>0, <1>a DEF BufferFirst
<1>9. Ordered'
  <2>1. ~cut => /\ Chain(got, buffer, Append(connection.wire, n), n)
               /\ Chain(got, buffer, connection.wire, n)
    BY <1>0, <1>a, <1>b, <1>c, ChainSend DEF Ordered, Lists
  <2> QED BY <2>1, <1>a, <1>c, <1>e DEF Ordered
<1>10. Asked'
  BY <1>0, <1>a, <1>e DEF Asked, Listening
<1>11. NothingDropped'
  <2>1. connection'.wire \in Seq(Nat)
    BY <1>e DEF Conn
  <2>2. Range(Real(connection.wire)) = Range(connection.wire) \ {0}
        /\ Range(Real(connection'.wire)) = Range(connection'.wire) \ {0}
    BY <1>a, <2>1, RealFacts
  <2>3. CASE connection.up /\ ch \in connection.regs
    <3>1. Range(connection'.wire) = Range(connection.wire) \cup {n}
      BY <2>3, <1>a, <1>c, <1>e, MembersAppend DEF Number
    <3>2. Noticed' = Noticed \cup {n}
      BY <2>2, <3>1, <1>a, <1>c DEF Noticed, Number
    <3>3. owed' \subseteq owed \cup {n} /\ missed \subseteq missed'
      BY <1>b DEF Notify
    <3> QED BY <3>2, <3>3, <1>0, <1>a DEF NothingDropped
  <2>4. CASE ~(connection.up /\ ch \in connection.regs)
    <3>1. Noticed' = Noticed
      BY <2>4, <1>a, <1>e DEF Noticed
    <3>2. \/ owed' = owed /\ missed' = missed
          \/ owed' = owed \cup {n} /\ missed' = missed \cup {n}
      BY <2>4, <1>b DEF Notify
    <3> QED BY <3>1, <3>2, <1>0, <1>a DEF NothingDropped
  <2> QED BY <2>3, <2>4
<1>12. RegistrationsAgree'
  BY <1>0, <1>a, <1>e DEF RegistrationsAgree, Listening
<1>13. PendingAnswers'
  <2>1. connection.up => connection.pending = Cardinality(Zeros(connection.wire))
    BY <1>0 DEF PendingAnswers, Zeros
  <2>2. Cardinality(Zeros(Append(connection.wire, n))) = Cardinality(Zeros(connection.wire))
    <3>1. Cardinality(Zeros(connection.wire)) \in Nat /\ n \in Nat /\ n # 0
      BY <1>a, <1>c, ZerosFinite DEF Number
    <3>2. Cardinality(Zeros(Append(connection.wire, n))) = Cardinality(Zeros(connection.wire)) + 0
      BY <3>1, <1>a, ZerosAppend
    <3> QED BY <3>1, <3>2
  <2>3. connection'.up => connection'.pending = Cardinality(Zeros(connection'.wire))
    BY <2>1, <2>2, <1>e
  <2> QED BY <2>3 DEF PendingAnswers, Zeros
<1> QED BY <1>1, <1>2, <1>3, <1>4, <1>5, <1>6, <1>7, <1>8, <1>9, <1>10, <1>11, <1>12, <1>13 DEF ListenerInv

\* What is cut off the wire counts as missed.
LEMMA BreakStep ==
    ASSUME ListenerInv, Break
    PROVE  ListenerInv'
<1> USE DEF Idle, Gone, CallReturned, BeginCall, Entry, code, world, history
<1>0. /\ Lists /\ Conns /\ CallTyped /\ Flags /\ PoolQuiet /\ Places /\ SenderKept /\ BufferFirst
      /\ Ordered /\ Asked /\ NothingDropped /\ RegistrationsAgree /\ PendingAnswers
  BY DEF ListenerInv
<1>a. /\ UNCHANGED <<channels, buffer_tx, buffer, lcall, candidate, idle_conns, cut, sent, owed, got, unsure>>
      /\ connection.up /\ lcall # Gone /\ connection \in Conn /\ connection.wire \in Seq(Nat)
  BY <1>0 DEF Break, Conns, Conn
<1>b. PICK k \in 0..Len(connection.wire), reset \in BOOLEAN :
         /\ connection' = [connection EXCEPT !.up = FALSE, !.reset = reset, !.wire = SubSeq(connection.wire, 1, k)]
         /\ missed' = missed \cup Range(Real(SubSeq(connection.wire, k + 1, Len(connection.wire))))
  BY DEF Break
<1>c. PICK u, v : u = SubSeq(connection.wire, 1, k) /\ v = SubSeq(connection.wire, k + 1, Len(connection.wire))
  OBVIOUS
<1>d. u \in Seq(Nat) /\ v \in Seq(Nat) /\ Range(connection.wire) = Range(u) \cup Range(v)
  BY <1>a, <1>b, <1>c, Cut
<1>e. /\ connection' \in Conn /\ ~connection'.up /\ connection'.tx = connection.tx /\ connection'.wire = u
  BY <1>a, <1>b, <1>c, <1>d DEF Conn
<1>f. connection # NoConnection /\ lcall.at \notin {"acquire", "relisten"}
  BY <1>0, <1>a, NoConn DEF Places
<1>1. Lists'
  BY <1>0, <1>a DEF Lists
<1>2. Conns'
  BY <1>0, <1>a, <1>e DEF Conns
<1>3. CallTyped'
  BY <1>0, <1>a DEF CallTyped
<1>4. Flags'
  BY <1>0, <1>a DEF Flags
<1>5. PoolQuiet'
  BY <1>0, <1>a DEF PoolQuiet, Quiet
<1>6. Places'
  BY <1>0, <1>a, <1>f DEF Places
<1>7. SenderKept'
  <2>1. ~cut => connection.tx
    BY <1>0, <1>a, <1>f DEF SenderKept
  <2> QED BY <2>1, <1>a, <1>e, <1>f, NoConn DEF SenderKept
<1>8. BufferFirst'
  BY <1>0, <1>a DEF BufferFirst
<1>9. Ordered'
  BY <1>0, <1>a, <1>b, <1>c, <1>e, ChainCut DEF Ordered
<1>10. Asked'
  <2>1. connection'.regs = connection.regs
    BY <1>a, <1>b DEF Conn
  <2> QED BY <2>1, <1>0, <1>a DEF Asked, Listening
<1>11. NothingDropped'
  <2>1. Range(Real(connection.wire)) = Range(connection.wire) \ {0} /\ Range(Real(u)) = Range(u) \ {0}
        /\ Range(Real(v)) = Range(v) \ {0}
    BY <1>a, <1>d, RealFacts
  <2>2. missed' = missed \cup Range(Real(v))
    BY <1>b, <1>c
  <2> QED BY <2>1, <2>2, <1>0, <1>a, <1>d, <1>e DEF NothingDropped, Noticed
<1>12. RegistrationsAgree'
  BY <1>e DEF RegistrationsAgree
<1>13. PendingAnswers'
  BY <1>e DEF PendingAnswers
<1> QED BY <1>1, <1>2, <1>3, <1>4, <1>5, <1>6, <1>7, <1>8, <1>9, <1>10, <1>11, <1>12, <1>13 DEF ListenerInv

\* Closing the pool empties it.
LEMMA ClosePoolStep ==
    ASSUME ListenerInv, ClosePool
    PROVE  ListenerInv'
<1> USE DEF Idle, Gone, CallReturned, BeginCall, Entry, code, world, history
<1>0. /\ Lists /\ Conns /\ CallTyped /\ Flags /\ PoolQuiet /\ Places /\ SenderKept /\ BufferFirst
      /\ Ordered /\ Asked /\ NothingDropped /\ RegistrationsAgree /\ PendingAnswers
  BY DEF ListenerInv
<1>a. /\ idle_conns' = {} /\ UNCHANGED <<channels, connection, buffer_tx, buffer, lcall, candidate, cut, sent, owed, got, missed, unsure>>
  BY DEF ClosePool
<1>1. Lists'
  BY <1>0, <1>a DEF Lists
<1>2. Conns'
  BY <1>0, <1>a DEF Conns
<1>3. CallTyped'
  BY <1>0, <1>a DEF CallTyped
<1>4. Flags'
  BY <1>0, <1>a DEF Flags
<1>5. PoolQuiet'
  BY <1>0, <1>a DEF PoolQuiet
<1>6. Places'
  BY <1>0, <1>a DEF Places, Quiet
<1>7. SenderKept'
  BY <1>0, <1>a DEF SenderKept
<1>8. BufferFirst'
  BY <1>0, <1>a DEF BufferFirst
<1>9. Ordered'
  BY <1>0, <1>a DEF Ordered
<1>10. Asked'
  BY <1>0, <1>a DEF Asked, Listening
<1>11. NothingDropped'
  BY <1>0, <1>a DEF NothingDropped, Noticed
<1>12. RegistrationsAgree'
  BY <1>0, <1>a DEF RegistrationsAgree, Listening
<1>13. PendingAnswers'
  BY <1>0, <1>a DEF PendingAnswers
<1> QED BY <1>1, <1>2, <1>3, <1>4, <1>5, <1>6, <1>7, <1>8, <1>9, <1>10, <1>11, <1>12, <1>13 DEF ListenerInv

\* A notification waits on an idle connection only after a reconnect was cut off.
LEMMA UsePooledStep ==
    ASSUME ListenerInv, NEW c \in idle_conns, UsePooled(c)
    PROVE  ListenerInv'
<1> USE DEF Idle, Gone, CallReturned, BeginCall, Entry, code, world, history
<1>0. /\ Lists /\ Conns /\ CallTyped /\ Flags /\ PoolQuiet /\ Places /\ SenderKept /\ BufferFirst
      /\ Ordered /\ Asked /\ NothingDropped /\ RegistrationsAgree /\ PendingAnswers
  BY DEF ListenerInv
<1>a. UNCHANGED <<channels, connection, buffer_tx, lcall, candidate, cut, sent, owed, got, missed, unsure>>
  BY DEF UsePooled
<1>b. c \in Conn /\ Quiet(c) /\ c.wire # <<>> /\ c.wire \in Seq(Nat)
  BY <1>0 DEF UsePooled, Conns, PoolQuiet, Conn
<1>c. cut /\ cut'
  BY <1>a, <1>b, <1>0 DEF Quiet, Flags
<1>d. PICK d : d = [c EXCEPT !.wire = <<>>, !.pending = 0]
  OBVIOUS
<1>e. d \in Conn /\ d.up /\ d.wire = <<>> /\ d.pending = 0
  <2>1. <<>> \in Seq(Nat)
    OBVIOUS
  <2> QED BY <2>1, <1>b, <1>d DEF Conn, Quiet
<1>f. \A x \in idle_conns' : x \in idle_conns \/ x = d
  BY <1>d DEF UsePooled
<1>1. Lists'
  <2> PICK r : r = Real(c.wire)
    OBVIOUS
  <2>1. r \in Seq(Number) /\ buffer \in Seq(Number)
    BY <1>0, <1>b, RealFacts DEF Lists
  <2>2. buffer \o r \in Seq(Number)
    BY ONLY <2>1
  <2>3. buffer' \in {buffer, buffer \o r}
    BY DEF UsePooled
  <2> QED BY <2>1, <2>2, <2>3, <1>0, <1>a DEF Lists
<1>2. Conns'
  BY <1>0, <1>a, <1>e, <1>f DEF Conns
<1>3. CallTyped'
  BY <1>0, <1>a DEF CallTyped
<1>4. Flags'
  BY <1>0, <1>a DEF Flags
<1>5. PoolQuiet'
  BY <1>0, <1>a, <1>c, <1>e, <1>f DEF PoolQuiet, Quiet
<1>6. Places'
  BY <1>0, <1>a DEF Places, Quiet
<1>7. SenderKept'
  BY <1>c DEF SenderKept
<1>8. BufferFirst'
  BY <1>c DEF BufferFirst
<1>9. Ordered'
  BY <1>c DEF Ordered
<1>10. Asked'
  BY <1>0, <1>a DEF Asked, Listening
<1>11. NothingDropped'
  BY <1>c DEF NothingDropped
<1>12. RegistrationsAgree'
  BY <1>c DEF RegistrationsAgree
<1>13. PendingAnswers'
  BY <1>0, <1>a DEF PendingAnswers
<1> QED BY <1>1, <1>2, <1>3, <1>4, <1>5, <1>6, <1>7, <1>8, <1>9, <1>10, <1>11, <1>12, <1>13 DEF ListenerInv

-----------------------------------------------------------------------------
(* The theorem.                                                            *)

\* A listener starts with a connection of its own that holds the sender.
LEMMA ListenerStarts == ListenerInit => ListenerInv
<1> SUFFICES ASSUME ListenerInit PROVE ListenerInv
  OBVIOUS
<1> USE DEF ListenerInit, Idle, Gone
<1>0. <<>> \in Seq(Channels) /\ <<>> \in Seq(Number) /\ <<>> \in Seq(Channels \cup {"lost"})
  OBVIOUS
<1>1. /\ connection \in Conn /\ connection.up /\ connection.tx /\ connection.wire = <<>>
      /\ connection.pending = 0 /\ connection.regs = {}
  BY NoConn DEF Conn
<1>2. Lists /\ Flags /\ PoolQuiet /\ BufferFirst /\ Asked
  BY <1>0 DEF Lists, Flags, PoolQuiet, BufferFirst, Asked
<1>3. Conns /\ Places
  BY <1>1, NoConn DEF Conns, Places
<1>4. CallTyped
  BY <1>0 DEF CallTyped, Call
<1>5. SenderKept
  BY <1>1, NoConn DEF SenderKept
<1>6. Ordered
  BY <1>1 DEF Ordered, Chain, Increasing, Below, Within
<1>7. NothingDropped
  BY DEF NothingDropped
<1>8. RegistrationsAgree
  BY <1>1 DEF RegistrationsAgree, Listening, Range
<1>9. PendingAnswers
  <2>1. Cardinality(Zeros(<<>>)) = 0
    BY ZerosNone
  <2> QED BY <2>1, <1>1 DEF PendingAnswers, Zeros
<1> QED BY <1>2, <1>3, <1>4, <1>5, <1>6, <1>7, <1>8, <1>9 DEF ListenerInv

\* Every step keeps the invariant.
LEMMA ListenerSteps == ListenerInv /\ [ListenerNext]_listenerVars => ListenerInv'
<1> SUFFICES ASSUME ListenerInv, [ListenerNext]_listenerVars PROVE ListenerInv'
  OBVIOUS
<1>1. CASE Calls
  <2>1. ASSUME NEW ch \in Channels, Listen(ch) \/ Unlisten(ch) PROVE ListenerInv'
    BY <2>1, ListenStep, UnlistenStep
  <2>2. ASSUME NEW chs \in {s \in SeqOf(Channels, 2) : s # <<>> /\ IsInjective(s)}, ListenAll(chs)
        PROVE  ListenerInv'
    <3>1. chs \in Seq(Channels)
      <4>1. PICK m \in 0..2 : chs \in [1..m -> Channels]
        BY DEF SeqOf
      <4>2. m \in Nat
        BY <4>1
      <4>3. \A q, x : x \in Nat /\ q \in [1..x -> Channels] => q \in Seq(Channels)
        OBVIOUS
      <4> QED BY <4>1, <4>2, <4>3
    <3> QED BY <3>1, <2>2, ListenAllStep
  <2>3. ASSUME NEW op \in {"query", "begin"}, Query(op) PROVE ListenerInv'
    BY <2>3, QueryStep
  <2> QED BY <1>1, <2>1, <2>2, <2>3, UnlistenAllStep, DropTransactionStep, DropListenerStep DEF Calls
<1>2. CASE Receives
  BY <1>2, TryRecvBufferedStep, TryRecvStep DEF Receives
<1>3. CASE Steps
  BY <1>3, CloseEventListenStep, AcquireStep, RelistenStep, RunQueryStep, RunUnexpectedStep, RunBrokenStep, ReceiveMessageStep,
     LoseConnectionStep, ForwardErrorStep, PoolClosedStep DEF Steps
<1>4. CASE Faults
  BY <1>4, BreakStep, ClosePoolStep, CancelQueryStep, CancelWaitStep, CutReconnectStep DEF Faults
<1>5. CASE \E ch \in Channels : Notify(ch)
  BY <1>5, NotifyStep
<1>6. CASE \E c \in idle_conns : UsePooled(c)
  BY <1>6, UsePooledStep
<1>7. CASE UNCHANGED listenerVars
  <2>1. UNCHANGED <<channels, connection, buffer_tx, buffer, idle_conns, lcall, candidate, cut, sent, owed, got, missed, unsure>>
    BY <1>7 DEF listenerVars, code, world, history
  <2>2. Lists' /\ Conns' /\ CallTyped' /\ Flags' /\ BufferFirst' /\ Ordered' /\ PendingAnswers'
    BY <2>1 DEF ListenerInv, Lists, Conns, CallTyped, Flags, BufferFirst, Ordered, PendingAnswers
  <2>3. PoolQuiet' /\ Places' /\ SenderKept'
    BY <2>1 DEF ListenerInv, PoolQuiet, Places, SenderKept, Quiet
  <2>4. Asked' /\ NothingDropped' /\ RegistrationsAgree'
    BY <2>1 DEF ListenerInv, Asked, NothingDropped, Noticed, RegistrationsAgree, Listening
  <2> QED BY <2>2, <2>3, <2>4 DEF ListenerInv
<1> QED BY <1>1, <1>2, <1>3, <1>4, <1>5, <1>6, <1>7 DEF ListenerNext

\* The invariant says what the property says, and more.
LEMMA ListenerExact == ListenerInv => NotificationsExact
<1> SUFFICES ASSUME ListenerInv PROVE NotificationsExact
  OBVIOUS
<1>1. OnceInOrder
  <2> SUFFICES ASSUME ~cut, NEW i \in 1..Len(got) - 1 PROVE got[i] < got[i + 1]
    BY DEF OnceInOrder
  <2>1. got \in Seq(Number) /\ Increasing(got)
    BY DEF ListenerInv, Lists, Ordered, Chain
  <2>2. i \in DOMAIN got /\ i + 1 \in DOMAIN got /\ i < i + 1
    BY <2>1
  <2>3. got[i + 1] # 0
    BY <2>1, <2>2 DEF Number
  <2> QED BY <2>1, <2>2, <2>3 DEF Increasing
<1>2. PooledIsQuiet
  BY DEF ListenerInv, PoolQuiet, Quiet, PooledIsQuiet
<1> QED BY <1>1, <1>2 DEF ListenerInv, NotificationsExact

\* PgListener returns every notification that reached its connection exactly once and in
\* the order of sending, whatever mixture of try_recv(), queries, dropped futures, broken
\* connections and reconnects the application and the network produce, and keeps the
\* backend's channels, its own list and the count of open answers in agreement; only a
\* reconnect that is cut off ends the guarantee.
THEOREM NotificationsStayExact == ListenerSpec => []NotificationsExact
<1>1. ListenerInv /\ [ListenerNext]_listenerVars => ListenerInv'
  BY ListenerSteps
<1> QED BY <1>1, ListenerStarts, ListenerExact, PTL DEF ListenerSpec

-----------------------------------------------------------------------------
(* Lost connections are reported.                                          *)

\* What the listener has returned or may still return from this connection.
Heard == Range(got) \cup Range(buffer) \cup Range(connection.wire)

\* An eager listener is without a connection only while the try_recv() that lost it
\* reconnects, or when the pool is closed and no reconnect can succeed.
Reconnects ==
    connection = NoConnection /\ lcall # Gone =>
        \/ lcall.at \in {"acquire", "relisten"} /\ lcall.op = "try_recv" /\ lcall.chs = <<"lost">>
        \/ closed /\ lcall.at # "relisten"

\* With a working connection nothing missed is unreported, and an unreported loss is
\* later than everything the listener can return before it reports.
LossKept ==
    eager_reconnect /\ ~cut =>
        /\ connection.up => missed \subseteq reported
        /\ \A m \in missed \ reported : m \in Number /\ \A n \in Heard : n < m
        /\ Reconnects

\* A step that hears and misses nothing new.
LEMMA LossFrame ==
    ASSUME LossKept, UNCHANGED <<eager_reconnect, missed, reported>>, ~cut' => ~cut,
           Heard' \subseteq Heard \cup {0}, connection'.up => connection.up,
           eager_reconnect /\ ~cut => Reconnects'
    PROVE  LossKept'
<1> SUFFICES ASSUME eager_reconnect, ~cut
             PROVE  /\ connection'.up => missed' \subseteq reported'
                    /\ \A m \in missed' \ reported' : m \in Number /\ \A n \in Heard' : n < m
                    /\ Reconnects'
  BY Zenon DEF LossKept
<1>1. ASSUME NEW m \in missed \ reported, NEW n \in Heard' PROVE n < m
  <2>1. m \in Number /\ \A x \in Heard : x < m
    BY DEF LossKept
  <2>2. 0 < m
    BY <2>1 DEF Number
  <2> QED BY <2>1, <2>2
<1> QED BY <1>1 DEF LossKept

\* A step that leaves nothing unreported.
LEMMA LossFree ==
    ASSUME UNCHANGED eager_reconnect,
           eager_reconnect /\ ~cut' => missed' \subseteq reported' /\ Reconnects'
    PROVE  LossKept'
BY DEF LossKept

\* Nothing is missed yet.
LEMMA LossStarts == ListenerInit => LossKept
<1> SUFFICES ASSUME ListenerInit PROVE LossKept
  OBVIOUS
<1>1. connection.up
  BY NoConn DEF ListenerInit, Conn
<1> QED BY <1>1, NoConn DEF ListenerInit, LossKept, Reconnects

\* What becomes of the connection and the call when a call starts.
LEMMA LossCalls ==
    ASSUME ListenerInv, LossKept, Calls
    PROVE  LossKept'
<1> USE DEF Idle, Gone, BeginCall, Entry, code, world, history
<1>0. Lists /\ Conns /\ Flags
  BY DEF ListenerInv
<1>1. CASE lcall = Idle /\ UNCHANGED <<connection, buffer, got, eager_reconnect, missed, reported, cut, closed>>
           /\ (connection = NoConnection => lcall'.at # "relisten")
  <2>1. Heard' = Heard
    BY <1>1 DEF Heard
  <2>2. eager_reconnect /\ ~cut => Reconnects'
    BY <1>1 DEF LossKept, Reconnects
  <2> QED BY <1>1, <2>1, <2>2, LossFrame
<1>2. CASE DropTransaction
  <2>1. connection'.up = connection.up /\ connection'.wire = connection.wire /\ connection'.open
    BY <1>0, <1>2 DEF DropTransaction, Conns, Conn
  <2>2. UNCHANGED <<eager_reconnect, missed, reported, cut, got, buffer>>
    BY <1>2 DEF DropTransaction
  <2>3. Heard' = Heard /\ Reconnects'
    BY <2>1, <2>2, NoConn DEF Heard, Reconnects
  <2> QED BY <2>1, <2>2, <2>3, LossFrame
<1>3. CASE DropListener
  <2>1. connection' = NoConnection /\ lcall' = Gone /\ UNCHANGED <<eager_reconnect, missed, reported, cut, got, buffer>>
    BY <1>3 DEF DropListener
  <2>2. Range(<<>>) = {}
    BY DEF Range
  <2>3. Heard' \subseteq Heard /\ Reconnects' /\ ~connection'.up
    BY <2>1, <2>2, NoConn DEF Heard, Reconnects
  <2> QED BY <2>1, <2>3, LossFrame
<1>4. ASSUME NEW ch \in Channels, Listen(ch) \/ Unlisten(ch) PROVE LossKept'
  BY <1>1, <1>4 DEF Listen, Unlisten
<1>5. ASSUME NEW chs, ListenAll(chs) PROVE LossKept'
  BY <1>1, <1>5 DEF ListenAll
<1>6. ASSUME NEW op, Query(op) PROVE LossKept'
  BY <1>1, <1>6 DEF Query
<1>7. CASE UnlistenAll
  BY <1>1, <1>7 DEF UnlistenAll
<1> QED BY <1>2, <1>3, <1>4, <1>5, <1>6, <1>7 DEF Calls

\* try_recv() starts, or returns from the buffer.
LEMMA LossReceives ==
    ASSUME ListenerInv, LossKept, Receives
    PROVE  LossKept'
<1> USE DEF Idle, Gone, BeginCall, Entry, code, world, history
<1>0. Lists /\ Conns /\ Flags
  BY DEF ListenerInv
<1>1. CASE TryRecvBuffered
  <2>1. /\ UNCHANGED <<eager_reconnect, missed, reported, cut, connection, lcall, closed>>
        /\ got' = Append(got, Head(buffer)) /\ buffer' = Tail(buffer) /\ buffer # <<>>
    BY <1>1 DEF TryRecvBuffered
  <2>2. Range(got') = Range(got) \cup {Head(buffer)}
    BY <1>0, <2>1, MembersAppend DEF Lists
  <2>3. Range(buffer) = {Head(buffer)} \cup Range(buffer')
    BY <1>0, <2>1, MembersRead DEF Lists
  <2>4. Heard' = Heard /\ (eager_reconnect /\ ~cut => Reconnects')
    BY <2>1, <2>2, <2>3 DEF Heard, LossKept, Reconnects
  <2> QED BY <2>1, <2>4, LossFrame
<1>2. CASE TryRecv
  <2>1. Heard' = Heard
    BY <1>2 DEF TryRecv, Heard
  <2>2. eager_reconnect /\ ~cut => Reconnects'
    BY <1>2 DEF TryRecv, LossKept, Reconnects
  <2> QED BY <1>2, <2>1, <2>2, LossFrame DEF TryRecv
<1> QED BY <1>1, <1>2 DEF Receives

\* The steps of a call in progress.
LEMMA LossSteps ==
    ASSUME ListenerInv, LossKept, Steps
    PROVE  LossKept'
<1> USE DEF Idle, Gone, CallReturned, code, world, history
<1>0. /\ Lists /\ Conns /\ CallTyped /\ Flags /\ Places /\ SenderKept
      /\ connection \in Conn /\ connection.wire \in Seq(Nat)
  BY DEF ListenerInv, Conns, Conn
<1>e. Range(<<>>) = {}
  BY DEF Range
<1>r. lcall.at = "run" /\ ~cut => connection.tx
  BY <1>0 DEF SenderKept, Places
<1>1. CASE Acquire
  <2>1. UNCHANGED <<eager_reconnect, missed, connection, got, buffer, cut, closed>> /\ lcall.at = "acquire" /\ lcall # Gone
    BY <1>0, <1>1 DEF Acquire, Places
  <2>2. CASE closed
    <3>1. lcall' = Idle /\ reported' = missed
      BY <1>1, <2>2 DEF Acquire, Report
    <3>2. Reconnects'
      BY <2>1, <2>2, <3>1 DEF Reconnects
    <3> QED BY <2>1, <3>1, <3>2, LossFree
  <2>3. CASE ~closed
    <3>1. lcall' = [lcall EXCEPT !.at = "relisten"] /\ reported' = reported
      BY <1>1, <2>3 DEF Acquire
    <3>2. lcall'.at = "relisten" /\ lcall'.op = lcall.op /\ lcall'.chs = lcall.chs
      BY <3>1, <1>0 DEF CallTyped, Call
    <3>3. connection = NoConnection
      BY <2>1, <1>0 DEF Places
    <3>4. eager_reconnect /\ ~cut => Reconnects'
      BY <2>1, <2>3, <3>2, <3>3 DEF Reconnects, LossKept
    <3>5. Heard' = Heard
      BY <2>1 DEF Heard
    <3> QED BY <2>1, <3>1, <3>4, <3>5, LossFrame
  <2> QED BY <2>2, <2>3
<1>2. CASE Relisten
  <2>1. UNCHANGED <<eager_reconnect, missed, cut>> /\ lcall.at = "relisten" /\ lcall # Gone /\ connection = NoConnection
        /\ Quiet(candidate) /\ candidate \in Conn
    BY <1>0, <1>2 DEF Relisten, Places, Conns
  <2>2. connection'.up
    BY <2>1, <1>2 DEF Relisten, Conn, Quiet
  <2>3. eager_reconnect /\ ~cut => reported' = missed
    BY <2>1, <1>2 DEF Relisten, Report, LossKept, Reconnects
  <2> QED BY <2>1, <2>2, <2>3, NoConn, LossFree DEF Reconnects
<1>3. CASE (RunQuery \/ RunUnexpected) /\ connection.up
  <2>1. UNCHANGED <<eager_reconnect, missed, reported, cut>> /\ lcall.at = "run"
    BY <1>3 DEF RunQuery, RunUnexpected
  <2>2. connection'.tx = connection.tx
    BY <1>0, <1>3 DEF RunQuery, RunUnexpected, AfterQuery, Conn
  <2>3. ~cut => Reconnects'
    BY <2>1, <2>2, <1>r, NoConn DEF Reconnects
  <2>4. eager_reconnect /\ ~cut => missed \subseteq reported
    BY <1>3 DEF LossKept
  <2> QED BY <2>1, <2>3, <2>4, LossFree
<1>4. CASE RunBroken
  <2>1. UNCHANGED <<eager_reconnect, missed, reported, cut, got>> /\ lcall.at = "run" /\ ~connection.up
    BY <1>4 DEF RunBroken
  <2>2. connection'.tx = connection.tx /\ ~connection'.up /\ connection'.wire = <<>>
    BY <1>0, <1>4 DEF RunBroken, Conn
  <2>3. ~cut => Reconnects'
    BY <2>1, <2>2, <1>r, NoConn DEF Reconnects
  <2>4. Range(buffer') \subseteq Range(buffer) \cup Range(connection.wire)
    <3> PICK r : r = Real(connection.wire)
      OBVIOUS
    <3>1. r \in Seq(Number) /\ buffer \in Seq(Number) /\ Range(r) \subseteq Range(connection.wire)
      BY <1>0, RealFacts DEF Lists
    <3>2. Range(buffer \o r) = Range(buffer) \cup Range(r)
      BY ONLY <3>1, MembersJoin
    <3>3. buffer' \in {buffer, buffer \o r}
      BY <1>4 DEF RunBroken
    <3> QED BY <3>1, <3>2, <3>3
  <2>5. Heard' \subseteq Heard
    BY <2>1, <2>2, <2>4, <1>e DEF Heard
  <2> QED BY <2>1, <2>2, <2>3, <2>5, LossFrame
<1>5. CASE ReceiveMessage
  <2>1. UNCHANGED <<eager_reconnect, missed, reported, cut, buffer>> /\ lcall.at = "run" /\ connection.wire # <<>>
    BY <1>5 DEF ReceiveMessage, Waiting
  <2>2. /\ Tail(connection.wire) \in Seq(Nat)
        /\ Range(connection.wire) = {Head(connection.wire)} \cup Range(Tail(connection.wire))
    BY <1>0, <2>1, MembersRead
  <2>3. connection'.tx = connection.tx /\ connection'.up = connection.up /\ connection'.wire = Tail(connection.wire)
    <3>1. CASE Head(connection.wire) = 0
      <4>1. connection' = [connection EXCEPT !.wire = Tail(connection.wire), !.pending = connection.pending - 1]
        BY <3>1, <1>5 DEF ReceiveMessage
      <4> QED BY <4>1, <1>0 DEF Conn
    <3>2. CASE Head(connection.wire) # 0
      <4>1. connection' = [connection EXCEPT !.wire = Tail(connection.wire)]
        BY <3>2, <1>5 DEF ReceiveMessage
      <4> QED BY <4>1, <1>0 DEF Conn
    <3> QED BY <3>1, <3>2
  <2>4. ~cut => Reconnects'
    BY <2>1, <2>3, <1>r, NoConn DEF Reconnects
  <2>5. Range(got') \subseteq Range(got) \cup {Head(connection.wire)}
    <3>1. Head(connection.wire) \in Nat
      BY <1>0, <2>1
    <3>2. CASE got' = got
      BY <3>2
    <3>3. CASE Head(connection.wire) # 0 /\ got' = Append(got, Head(connection.wire))
      BY <3>1, <3>3, <1>0, MembersAppend DEF Lists
    <3> QED BY <3>2, <3>3, <1>5 DEF ReceiveMessage
  <2>6. Heard' \subseteq Heard
    BY <2>1, <2>2, <2>3, <2>5 DEF Heard
  <2> QED BY <2>1, <2>3, <2>4, <2>6, LossFrame
<1>6. CASE LoseConnection
  <2>1. UNCHANGED <<eager_reconnect, missed, cut, got, buffer>> /\ connection' = NoConnection
    BY <1>6 DEF LoseConnection
  <2>2. Heard' \subseteq Heard
    BY <2>1, <1>e, NoConn DEF Heard
  <2>3. eager_reconnect => Reconnects' /\ reported' = reported
    BY <1>0, <1>6 DEF LoseConnection, Reconnects, Waiting, CallTyped, Call
  <2>4. CASE eager_reconnect
    BY <2>1, <2>2, <2>3, <2>4, NoConn, LossFrame
  <2>5. CASE ~eager_reconnect
    BY <2>1, <2>5 DEF LossKept
  <2> QED BY <2>4, <2>5
<1>7. CASE ForwardError \/ PoolClosed
  <2>1. UNCHANGED <<eager_reconnect, missed, reported, cut, got, buffer>> /\ lcall.at = "run"
    BY <1>7 DEF ForwardError, PoolClosed, Waiting
  <2>2. connection'.tx = connection.tx /\ connection'.up = connection.up /\ connection'.wire = connection.wire
    BY <1>0, <1>7 DEF ForwardError, PoolClosed, Conn
  <2>3. ~cut => Reconnects'
    BY <2>1, <2>2, <1>r, NoConn DEF Reconnects
  <2>4. Heard' = Heard
    BY <2>1, <2>2 DEF Heard
  <2> QED BY <2>1, <2>2, <2>3, <2>4, LossFrame
<1>8. CASE CloseEventListen
  <2>1. UNCHANGED <<eager_reconnect, missed, reported, cut, got, buffer, connection, closed>> /\ lcall.at = "event" /\ lcall # Gone
    BY <1>8 DEF CloseEventListen
  <2>2. lcall'.at # "relisten"
    BY <1>0, <1>8 DEF CloseEventListen, CallTyped, Call, Entry
  <2>3. eager_reconnect /\ ~cut => Reconnects'
    BY <2>1, <2>2 DEF LossKept, Reconnects
  <2>4. Heard' = Heard
    BY <2>1 DEF Heard
  <2> QED BY <2>1, <2>3, <2>4, LossFrame
<1> QED BY <1>1, <1>2, <1>3, <1>4, <1>5, <1>6, <1>7, <1>8 DEF Steps, RunQuery, RunUnexpected

\* What a break takes off the wire is later than what it leaves.
LEMMA TailLater ==
    ASSUME NEW a, NEW b, NEW c \in Seq(Nat), NEW n, NEW k \in 0..Len(c), Chain(a, b, c, n),
           NEW x \in Range(SubSeq(c, k + 1, Len(c))) \ {0}
    PROVE  x \in Number /\ \A y \in Range(a) \cup Range(b) \cup Range(SubSeq(c, 1, k)) : y < x
<1> PICK u, v : u = SubSeq(c, 1, k) /\ v = SubSeq(c, k + 1, Len(c))
  OBVIOUS
<1>1. DOMAIN c = 1..Len(c) /\ Len(c) \in Nat /\ DOMAIN u = 1..k /\ \A i \in 1..k : u[i] = c[i]
  OBVIOUS
<1>2. DOMAIN v = 1..Len(c) - k /\ \A i \in 1..Len(c) - k : v[i] = c[k + i]
  OBVIOUS
<1>3. PICK i \in 1..Len(c) - k : x = v[i]
  BY <1>2 DEF Range
<1>4. k + i \in DOMAIN c /\ c[k + i] = x /\ x # 0
  BY <1>1, <1>2, <1>3
<1>5. x \in Number
  BY <1>4 DEF Number
<1>6. \A y \in Range(a) \cup Range(b) : y < x
  BY <1>4 DEF Chain, Below, Range
<1>7. ASSUME NEW y \in Range(u) PROVE y < x
  <2>1. PICK j \in 1..k : y = u[j]
    BY <1>1 DEF Range
  <2>2. j \in DOMAIN c /\ c[j] = y /\ j < k + i
    BY <2>1, <1>1, <1>3
  <2> QED BY <2>2, <1>4 DEF Chain, Increasing
<1> QED BY <1>5, <1>6, <1>7

\* The steps of the network, the pool and the application's cancellations.
LEMMA LossFaults ==
    ASSUME ListenerInv, LossKept, Faults
    PROVE  LossKept'
<1> USE DEF Idle, Gone, CallReturned, code, world, history
<1>0. /\ Lists /\ Conns /\ CallTyped /\ Flags /\ Places /\ SenderKept /\ Ordered
      /\ connection \in Conn /\ connection.wire \in Seq(Nat)
  BY DEF ListenerInv, Conns, Conn
<1>r. (lcall.at = "run" \/ (connection.up /\ lcall # Gone)) /\ ~cut => connection.tx
  BY <1>0, NoConn DEF SenderKept, Places
<1>1. CASE Break
  <2>1. UNCHANGED <<eager_reconnect, reported, cut, got, buffer>> /\ connection.up /\ lcall # Gone
    BY <1>1 DEF Break
  <2>2. PICK k \in 0..Len(connection.wire), reset \in BOOLEAN :
         /\ connection' = [connection EXCEPT !.up = FALSE, !.reset = reset, !.wire = SubSeq(connection.wire, 1, k)]
         /\ missed' = missed \cup Range(Real(SubSeq(connection.wire, k + 1, Len(connection.wire))))
    BY <1>1 DEF Break
  <2>3. PICK u, v : u = SubSeq(connection.wire, 1, k) /\ v = SubSeq(connection.wire, k + 1, Len(connection.wire))
    OBVIOUS
  <2>4. u \in Seq(Nat) /\ v \in Seq(Nat)
    BY <1>0, <2>2, <2>3, Cut
  <2>5. ~connection'.up /\ connection'.tx = connection.tx /\ connection'.wire = u
    BY <1>0, <2>2, <2>3, <2>4 DEF Conn
  <2>6. missed' = missed \cup (Range(v) \ {0})
    BY <2>2, <2>3, <2>4, RealFacts
  <2> SUFFICES ASSUME eager_reconnect, ~cut, NEW m \in missed' \ reported
               PROVE  m \in Number /\ \A n \in Heard' : n < m
    <3>1. ~cut => Reconnects'
      BY <2>1, <2>5, <1>r, NoConn DEF Reconnects
    <3> QED BY <3>1, <2>1, <2>5 DEF LossKept
  <2>7. m \in Range(v) \ {0}
    BY <2>1, <2>6 DEF LossKept
  <2>8. Heard' = Range(got) \cup Range(buffer) \cup Range(u)
    BY <2>1, <2>5 DEF Heard
  <2> QED BY <2>2, <2>3, <2>7, <2>8, <1>0, TailLater DEF Ordered
<1>2. CASE ClosePool
  <2>1. UNCHANGED <<eager_reconnect, missed, reported, cut, got, buffer, connection, lcall>> /\ closed'
    BY <1>2 DEF ClosePool
  <2>2. eager_reconnect /\ ~cut => Reconnects'
    BY <2>1 DEF Reconnects, LossKept
  <2>3. Heard' = Heard
    BY <2>1 DEF Heard
  <2> QED BY <2>1, <2>2, <2>3, LossFrame
<1>3. CASE CancelQuery
  <2>1. UNCHANGED <<eager_reconnect, missed, reported, cut>> /\ lcall.at = "run" /\ connection.up
    BY <1>3 DEF CancelQuery
  <2>2. connection'.tx = connection.tx
    BY <1>0, <1>3 DEF CancelQuery, AfterQuery, Conn
  <2>3. ~cut => Reconnects'
    BY <2>1, <2>2, <1>r, NoConn DEF Reconnects
  <2>4. eager_reconnect /\ ~cut => missed \subseteq reported
    BY <2>1 DEF LossKept
  <2> QED BY <2>1, <2>3, <2>4, LossFree
<1>4. CASE CancelWait
  <2>1. UNCHANGED <<eager_reconnect, missed, reported, cut, got, buffer, connection>> /\ lcall.at = "run"
    BY <1>4 DEF CancelWait, Waiting
  <2>2. ~cut => Reconnects'
    BY <2>1, <1>r, NoConn DEF Reconnects
  <2>3. Heard' = Heard
    BY <2>1 DEF Heard
  <2> QED BY <2>1, <2>2, <2>3, LossFrame
<1>5. ASSUME NEW failed, NEW listened, CutReconnect(failed, listened) PROVE LossKept'
  BY <1>5 DEF CutReconnect, LossKept
<1> QED BY <1>1, <1>2, <1>3, <1>4, <1>5 DEF Faults

\* A notification that no working connection hears is later than all that was heard.
LEMMA LossNotify ==
    ASSUME ListenerInv, LossKept, NEW ch \in Channels, Notify(ch)
    PROVE  LossKept'
<1>0. /\ Lists /\ Flags /\ Ordered /\ RegistrationsAgree /\ connection \in Conn /\ connection.wire \in Seq(Nat)
  BY DEF ListenerInv, Conns, Conn
<1>1. UNCHANGED <<eager_reconnect, reported, cut, got, buffer, lcall, closed>>
  BY DEF Notify
<1>2. PICK n : n = sent + 1
  OBVIOUS
<1>3. n \in Number /\ sent \in Nat
  BY <1>0, <1>2 DEF Flags, Number
<1>4. connection' = Told(connection, ch, n)
  BY <1>2 DEF Notify
<1>5. CASE connection.up
  <2>1. connection'.up
    BY <1>0, <1>3, <1>4, <1>5, ToldFacts
  <2>2. ~cut => missed' = missed
    BY <1>0, <1>2, <1>5 DEF Notify, RegistrationsAgree
  <2>3. eager_reconnect /\ ~cut => missed \subseteq reported
    BY <1>5 DEF LossKept
  <2> QED BY <2>1, <2>2, <2>3, <1>1, NoConn, LossFree DEF Reconnects
<1>6. CASE ~connection.up
  <2>1. connection' = connection
    BY <1>0, <1>3, <1>4, <1>6, ToldFacts
  <2>2. missed' \subseteq missed \cup {n}
    BY <1>2 DEF Notify
  <2>3. Heard' = Heard
    BY <1>1, <2>1 DEF Heard
  <2>4. ~cut => \A x \in Heard : x < n
    <3>1. ~cut => \A x \in Heard : x <= sent
      BY <1>0 DEF Ordered, Chain, Within, Heard, Range
    <3>2. Heard \subseteq Int
      BY <1>0 DEF Heard, Lists, Range, Number
    <3> QED BY <3>1, <3>2, <1>2, <1>3
  <2>5. eager_reconnect /\ ~cut => Reconnects'
    BY <1>1, <2>1 DEF LossKept, Reconnects
  <2> QED BY <2>1, <2>2, <2>3, <2>4, <2>5, <1>1, <1>3, <1>6 DEF LossKept
<1> QED BY <1>5, <1>6

\* Another user of the pool finds notifications only after a reconnect was cut off.
LEMMA LossPooled ==
    ASSUME ListenerInv, NEW c \in idle_conns, UsePooled(c)
    PROVE  LossKept'
<1>1. cut' = cut
  BY DEF UsePooled, history
<1>2. cut
  BY DEF ListenerInv, PoolQuiet, Quiet, UsePooled
<1> QED BY <1>1, <1>2 DEF LossKept

\* A step that returns a notification returns one that was heard.
LEMMA ReturnsHeard ==
    ASSUME ListenerInv, ListenerNext, got' # got
    PROVE  Last(got') \in Heard
<1>0. Lists /\ connection.wire \in Seq(Nat)
  BY DEF ListenerInv, Conns, Conn
<1>1. ASSUME NEW q \in Seq(Nat), q # <<>>, got' = Append(got, Head(q)), Range(q) \subseteq Heard
      PROVE  Last(got') \in Heard
  <2>1. Head(q) \in Range(q)
    <3>1. 1 \in DOMAIN q /\ Head(q) = q[1]
      BY <1>1
    <3> QED BY <3>1 DEF Range
  <2> PICK x : x = Head(q)
    OBVIOUS
  <2>2. x \in Nat /\ got \in Seq(Nat) /\ got' = Append(got, x)
    BY <1>0, <1>1 DEF Lists, Number
  <2>3. Last(got') = x
    BY <2>2 DEF Last
  <2> QED BY <2>1, <2>3, <1>1
<1>2. CASE TryRecvBuffered
  <2>1. buffer \in Seq(Nat) /\ Range(buffer) \subseteq Heard
    BY <1>0 DEF Lists, Number, Heard
  <2> QED BY <2>1, <1>1, <1>2 DEF TryRecvBuffered
<1>3. CASE ReceiveMessage
  <2>1. Range(connection.wire) \subseteq Heard
    BY DEF Heard
  <2> QED BY <2>1, <1>0, <1>1, <1>3 DEF ReceiveMessage
<1>4. TryRecvBuffered \/ ReceiveMessage
  <2> USE DEF code, world, history
  <2>1. ~Calls
    BY DEF Calls, Listen, Unlisten, ListenAll, UnlistenAll, DropTransaction, DropListener, Query
  <2>2. CASE Receives
    BY <2>2 DEF Receives, TryRecv
  <2>3. CASE Steps
    BY <2>3 DEF Steps, CloseEventListen, Acquire, Relisten, RunQuery, RunUnexpected, RunBroken, LoseConnection, ForwardError, PoolClosed
  <2>4. ~Faults
    BY DEF Faults, Break, ClosePool, CancelQuery, CancelWait, CutReconnect
  <2>5. ~\E ch \in Channels : Notify(ch)
    BY DEF Notify
  <2>6. ~\E c \in idle_conns : UsePooled(c)
    BY DEF UsePooled
  <2> QED BY <2>1, <2>2, <2>3, <2>4, <2>5, <2>6 DEF ListenerNext
<1> QED BY <1>2, <1>3, <1>4

\* With eager_reconnect, try_recv() tells the application of a lost connection, by
\* Ok(None) or an error, before it returns a notification sent after one that was missed:
\* whoever sees no report has missed nothing older than what it is given.
THEOREM LossIsReported == ListenerSpec => [][LossReported]_listenerVars
<1>1. ListenerInit => ListenerInv /\ LossKept
  BY ListenerStarts, LossStarts
<1>2. ListenerInv /\ LossKept /\ [ListenerNext]_listenerVars => ListenerInv' /\ LossKept'
  <2> SUFFICES ASSUME ListenerInv, LossKept, [ListenerNext]_listenerVars PROVE LossKept'
    BY ListenerSteps
  <2>1. CASE UNCHANGED listenerVars
    BY <2>1 DEF listenerVars, code, world, history, LossKept, Heard, Reconnects
  <2> QED BY <2>1, LossCalls, LossReceives, LossSteps, LossFaults, LossNotify, LossPooled DEF ListenerNext
<1>3. ListenerInv /\ LossKept /\ [ListenerNext]_listenerVars => [LossReported]_listenerVars
  <2> SUFFICES ASSUME ListenerInv, LossKept, ListenerNext, eager_reconnect, ~cut, got' # got,
                      NEW m \in missed \ reported
               PROVE  m > Last(got')
    BY DEF LossReported
  <2>1. m \in Number /\ Last(got') < m /\ Last(got') \in Heard
    BY ReturnsHeard DEF LossKept
  <2>2. Heard \subseteq Int
    BY DEF ListenerInv, Lists, Conns, Conn, Heard, Range, Number
  <2> QED BY <2>1, <2>2 DEF Number
<1> QED BY <1>1, <1>2, <1>3, PTL DEF ListenerSpec
=============================================================================
