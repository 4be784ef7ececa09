------------------------ MODULE BufferedSocketProofs ------------------------
(***************************************************************************)
(* Proof that the buffered socket passes every byte on once and in order,  *)
(* and frames whole, for any sizes of values, any initial capacity and any *)
(* sequence of frames.                                                     *)
(***************************************************************************)
EXTENDS BufferedSocket, WellFoundedInduction, TLAPS

-----------------------------------------------------------------------------
(* The inductive invariant.                                                *)

SocketType ==
    /\ buf \in Seq(Nat) /\ logical \in Seq(Nat) /\ out \in Seq(Nat)
    /\ bytes_written \in Nat /\ bytes_flushed \in Nat /\ capacity \in Nat
    /\ read \in Seq(Nat) /\ inflow \in Seq(Nat) /\ frames \in Seq(Nat)

\* Bytes are numbered in the order in which they were appended.
Numbered == \A i \in 1..Len(logical) : logical[i] = i

\* The peer has the first of them, and between the cursors are the next ones.
InOrderOut == \A i \in 1..Len(out) : out[i] = i
BetweenCursors ==
    \A j \in bytes_flushed + 1..bytes_written : buf[j] = Len(out) - bytes_flushed + j
NoneMissing == Len(logical) = Len(out) + bytes_written - bytes_flushed

\* Once something was written the vector is never empty again: shrink() leaves capacity.
NeverEmptied == logical # <<>> => Len(buf) >= 1

WriteInv == Numbered /\ InOrderOut /\ BetweenCursors /\ NoneMissing /\ NeverEmptied /\ SanityCheck

\* What was read and what is still to come are the frames that were not split off yet.
ReadInv ==
    /\ Len(frames) <= Len(Frames)
    /\ \A i \in 1..Len(frames) : frames[i] = Frames[i]
    /\ read \o inflow = LastBytes[Len(Frames) - Len(frames)]

SocketInv == SocketType /\ WriteInv /\ ReadInv

-----------------------------------------------------------------------------
(* Induction over the natural numbers, for a set.                          *)

\* A nonempty set of numbers has a least one.
LEMMA LeastNumber ==
    ASSUME NEW T, T \subseteq Nat, T # {}
    PROVE  \E n \in T : \A m \in T : n <= m
<1>1. PICK R : R = OpToRel(<, Nat)
  BY Zenon
<1>2. \E x \in T : \A y \in T : ~(<<y, x>> \in R)
  BY <1>1, NatLessThanWellFounded, WFMin, Zenon
<1>3. \A x, y \in Nat : <<y, x>> \in OpToRel(<, Nat) <=> <<y, x>> \in Nat \X Nat /\ <<y, x>>[1] < <<y, x>>[2]
  BY Zenon DEF OpToRel
<1>4. \A x, y \in Nat : <<y, x>> \in R <=> y < x
  BY Zenon, <1>3, <1>1
<1>5. \A x \in T : x \in Nat
  OBVIOUS
<1>6. \E x \in T : \A y \in T : ~(y < x)
  BY <1>2, <1>4, <1>5, Zenon
<1> QED
  BY <1>5, <1>6, SMT

\* A set that has 0 and with a number the next one has them all.
LEMMA SetInduction ==
    ASSUME NEW S, 0 \in S, \A n \in Nat : n \in S => n + 1 \in S
    PROVE  Nat \subseteq S
<1> SUFFICES ASSUME ~(Nat \subseteq S) PROVE FALSE
  OBVIOUS
<1> PICK T : T = {n \in Nat : n \notin S}
  OBVIOUS
<1>1. PICK n \in T : \A m \in T : n <= m
  BY LeastNumber
<1>2. n # 0 /\ n - 1 \in Nat
  OBVIOUS
<1>3. n - 1 \in S
  BY <1>2, <1>1
<1> QED
  BY <1>2, <1>3

-----------------------------------------------------------------------------
(* The bytes of the frames.                                                *)

\* The bytes of a frame: its length, and that many in all.
LEMMA FrameBytesType ==
    ASSUME NEW n \in Nat \ {0}
    PROVE  FrameBytes(n) \in Seq(Nat) /\ Len(FrameBytes(n)) = n /\ FrameBytes(n)[1] = n
<1> PICK z : z = [i \in 1..n - 1 |-> 0]
  OBVIOUS
<1>1. z \in Seq(Nat) /\ Len(z) = n - 1
  OBVIOUS
<1>2. FrameBytes(n) = <<n>> \o z
  BY DEF FrameBytes
<1> QED
  BY <1>1, <1>2

\* One step of LastBytes from a function that has the shorter ones.
Longer(g, k) == IF k = 0 THEN <<>> ELSE FrameBytes(Frames[Len(Frames) - k + 1]) \o g[k - 1]

Unfolds(g, k) == DOMAIN g = 0..k /\ \A i \in 0..k : g[i] = Longer(g, i)

\* There is a function as LastBytes is defined.
LEMMA LastBytesExists == \E g : g = [k \in 0..Len(Frames) |-> Longer(g, k)]
<1> PICK S : S = {k \in Nat : \E g : g = [i \in 0..k |-> Longer(g, i)]}
  BY Zenon
<1>1. 0 \in S
  <2>1. PICK g : g = [i \in 0..0 |-> <<>>]
    BY Zenon
  <2>2. \A i \in 0..0 : Longer(g, i) = <<>>
    BY DEF Longer
  <2>3. g = [i \in 0..0 |-> Longer(g, i)]
    BY <2>1, <2>2
  <2> QED
    BY <2>3
<1>2. ASSUME NEW n \in Nat, n \in S
      PROVE  n + 1 \in S
  <2>1. PICK g : g = [i \in 0..n |-> Longer(g, i)]
    BY <1>2
  <2>2. PICK h : h = [i \in 0..n + 1 |-> IF i = n + 1 THEN Longer(g, n + 1) ELSE g[i]]
    BY Zenon
  <2>3. \A i \in 0..n + 1 : i # 0 => h[i - 1] = g[i - 1]
    BY <2>2
  <2>4. \A i \in 0..n + 1 : Longer(h, i) = Longer(g, i)
    BY <2>3 DEF Longer
  <2>5. \A i \in 0..n + 1 : h[i] = Longer(g, i)
    <3>1. \A i \in 0..n : g[i] = Longer(g, i)
      BY <2>1, Zenon
    <3>2. \A i \in 0..n : h[i] = g[i]
      BY <2>2
    <3>3. h[n + 1] = Longer(g, n + 1)
      BY <2>2
    <3>4. \A i \in 0..n + 1 : i = n + 1 \/ i \in 0..n
      OBVIOUS
    <3> QED
      BY <3>1, <3>2, <3>3, <3>4, Zenon
  <2>6. h = [i \in 0..n + 1 |-> Longer(h, i)]
    BY <2>2, <2>4, <2>5
  <2> QED
    BY <2>6
<1>3. Nat \subseteq S
  BY <1>1, <1>2, SetInduction
<1>4. Len(Frames) \in Nat
  BY FramesAssumption
<1> QED
  BY <1>3, <1>4

\* So LastBytes is that function.
LEMMA LastBytesIs == LastBytes = [k \in 0..Len(Frames) |-> Longer(LastBytes, k)]
<1>1. LastBytes = CHOOSE g : g = [k \in 0..Len(Frames) |-> Longer(g, k)]
  BY Zenon DEF LastBytes, Longer
<1> QED
  BY <1>1, LastBytesExists, Zenon

\* LastBytes, unfolded once, and its type.
LEMMA LastBytesUnfold ==
    /\ LastBytes[0] = <<>>
    /\ \A k \in 1..Len(Frames) :
         LastBytes[k] = FrameBytes(Frames[Len(Frames) - k + 1]) \o LastBytes[k - 1]
    /\ \A k \in 0..Len(Frames) : LastBytes[k] \in Seq(Nat)
<1>0. Len(Frames) \in Nat
  BY FramesAssumption
<1>1. LastBytes[0] = <<>>
  BY <1>0, LastBytesIs DEF Longer
<1>2. \A k \in 1..Len(Frames) :
         LastBytes[k] = FrameBytes(Frames[Len(Frames) - k + 1]) \o LastBytes[k - 1]
  BY <1>0, LastBytesIs DEF Longer
<1> PICK S : S = {k \in Nat : k <= Len(Frames) => LastBytes[k] \in Seq(Nat)}
  BY Zenon
<1>3. 0 \in S
  <2>1. <<>> \in Seq(Nat)
    OBVIOUS
  <2> QED
    BY <1>1, <2>1, Zenon
<1>4. ASSUME NEW n \in Nat, n \in S
      PROVE  n + 1 \in S
  <2> SUFFICES ASSUME n + 1 <= Len(Frames) PROVE LastBytes[n + 1] \in Seq(Nat)
    OBVIOUS
  <2>1. LastBytes[n] \in Seq(Nat)
    BY <1>4, <1>0
  <2>2. Frames[Len(Frames) - (n + 1) + 1] \in Nat \ {0}
    BY <1>0, FramesAssumption
  <2>3. FrameBytes(Frames[Len(Frames) - (n + 1) + 1]) \in Seq(Nat)
    BY <2>2, FrameBytesType
  <2>4. LastBytes[n + 1] = FrameBytes(Frames[Len(Frames) - (n + 1) + 1]) \o LastBytes[n]
    <3>1. PICK m : m = n + 1
      OBVIOUS
    <3>2. m \in 1..Len(Frames) /\ m - 1 = n
      BY <1>0, <3>1
    <3>3. LastBytes[m] = FrameBytes(Frames[Len(Frames) - m + 1]) \o LastBytes[m - 1]
      BY <1>2, <3>2, Zenon
    <3> QED
      BY <3>1, <3>2, <3>3
  <2> QED
    BY <2>1, <2>3, <2>4
<1>5. Nat \subseteq S
  BY <1>3, <1>4, SetInduction
<1>6. \A k \in 0..Len(Frames) : LastBytes[k] \in Seq(Nat)
  <2>1. \A k \in 0..Len(Frames) : k \in Nat /\ k <= Len(Frames)
    BY <1>0
  <2> QED
    BY <2>1, <1>5, Zenon
<1> QED
  BY <1>1, <1>2, <1>6, Zenon

-----------------------------------------------------------------------------
(* Sequences.                                                              *)

\* A concatenation, element by element.
LEMMA ConcatIs ==
    ASSUME NEW s \in Seq(Nat), NEW t \in Seq(Nat)
    PROVE  /\ s \o t \in Seq(Nat) /\ Len(s \o t) = Len(s) + Len(t)
           /\ \A i \in 1..Len(s) : (s \o t)[i] = s[i]
           /\ \A i \in Len(s) + 1..Len(s) + Len(t) : (s \o t)[i] = t[i - Len(s)]
OBVIOUS

\* A part of a sequence, element by element.
LEMMA SubSeqIs ==
    ASSUME NEW s \in Seq(Nat), NEW m \in Nat \ {0}, NEW n \in Nat, m <= n + 1, n <= Len(s)
    PROVE  /\ SubSeq(s, m, n) \in Seq(Nat) /\ Len(SubSeq(s, m, n)) = n - m + 1
           /\ \A i \in 1..n - m + 1 : SubSeq(s, m, n)[i] = s[m + i - 1]
OBVIOUS

\* The part of a sequence behind its first k elements, up to the n-th.
LEMMA PartIs ==
    ASSUME NEW s \in Seq(Nat), NEW k \in Nat, NEW n \in Nat, k <= n, n <= Len(s),
           NEW a, a = SubSeq(s, k + 1, n)
    PROVE  a \in Seq(Nat) /\ Len(a) = n - k /\ \A i \in 1..n - k : a[i] = s[k + i]
<1> PICK m : m = k + 1
  OBVIOUS
<1>1. m \in Nat \ {0} /\ m <= n + 1 /\ a = SubSeq(s, m, n) /\ n - m + 1 = n - k
  OBVIOUS
<1>2. a \in Seq(Nat) /\ Len(a) = n - m + 1 /\ \A i \in 1..n - m + 1 : a[i] = s[m + i - 1]
  BY <1>1, SubSeqIs
<1>3. \A i \in 1..n - k : m + i - 1 = k + i
  OBVIOUS
<1>4. a \in Seq(Nat) /\ Len(a) = n - k /\ \A i \in 1..n - k : a[i] = s[m + i - 1]
  BY ONLY <1>1, <1>2
<1> QED
  BY <1>3, <1>4

\* Sequences with the same elements are the same.
LEMMA SameElements ==
    ASSUME NEW s \in Seq(Nat), NEW t \in Seq(Nat), Len(s) = Len(t),
           \A i \in 1..Len(s) : s[i] = t[i]
    PROVE  s = t
OBVIOUS

\* The larger of two numbers.
LEMMA MaxIs ==
    ASSUME NEW a \in Nat, NEW b \in Nat
    PROVE  Max({a, b}) \in Nat /\ Max({a, b}) >= a /\ Max({a, b}) >= b /\ Max({a, b}) \in {a, b}
<1>1. \E x \in {a, b} : \A y \in {a, b} : x >= y
  OBVIOUS
<1>2. Max({a, b}) = CHOOSE x \in {a, b} : \A y \in {a, b} : x >= y
  BY Zenon DEF Max
<1>3. Max({a, b}) \in {a, b} /\ \A y \in {a, b} : Max({a, b}) >= y
  BY <1>1, <1>2, Zenon
<1> QED
  BY <1>3

\* The smaller of two numbers.
LEMMA MinIs ==
    ASSUME NEW a \in Nat, NEW b \in Nat
    PROVE  Min({a, b}) \in Nat /\ Min({a, b}) <= a /\ Min({a, b}) <= b /\ Min({a, b}) \in {a, b}
<1>1. \E x \in {a, b} : \A y \in {a, b} : x <= y
  OBVIOUS
<1>2. Min({a, b}) = CHOOSE x \in {a, b} : \A y \in {a, b} : x <= y
  BY Zenon DEF Min
<1>3. Min({a, b}) \in {a, b} /\ \A y \in {a, b} : Min({a, b}) <= y
  BY <1>1, <1>2, Zenon
<1> QED
  BY <1>3

-----------------------------------------------------------------------------
(* The write buffer.                                                       *)

\* A step that leaves the read side alone keeps what is said of it.
LEMMA ReadKept ==
    ASSUME ReadInv, UNCHANGED readVars
    PROVE  ReadInv'
BY DEF ReadInv, readVars

\* Every operation that appends writes the next bytes behind the cursor and keeps what is
\* in front of it.
LEMMA AppendedInv ==
    ASSUME SocketInv, NEW n \in Sizes, NEW b \in Seq(Nat), Appended(n, b),
           Len(b) >= bytes_written + n,
           \A j \in 1..bytes_written : b[j] = buf[j],
           \A j \in bytes_written + 1..bytes_written + n : b[j] = Len(logical) + j - bytes_written,
           capacity' \in Nat, Len(b) <= capacity', capacity' >= 1
    PROVE  SocketInv'
<1> PICK t : t = New(n)
  OBVIOUS
<1>1. n \in Nat /\ n >= 1
  BY SizesAssumption
<1>2. SocketType /\ WriteInv /\ ReadInv
  BY DEF SocketInv
<1>3. t \in Seq(Nat) /\ Len(t) = n /\ \A i \in 1..n : t[i] = Len(logical) + i
  BY <1>1, <1>2 DEF New, SocketType
<1>4. /\ buf' = b /\ bytes_written' = bytes_written + n /\ logical' = logical \o t
      /\ bytes_flushed' = bytes_flushed /\ out' = out /\ UNCHANGED readVars
  BY DEF Appended
<1>5. /\ logical' \in Seq(Nat) /\ Len(logical') = Len(logical) + n
      /\ \A i \in 1..Len(logical) : logical'[i] = logical[i]
      /\ \A i \in Len(logical) + 1..Len(logical) + n : logical'[i] = t[i - Len(logical)]
  <2>1. logical \in Seq(Nat) /\ t \in Seq(Nat) /\ logical' = logical \o t /\ Len(t) = n
    BY <1>2, <1>3, <1>4 DEF SocketType
  <2> QED
    BY ONLY <2>1, ConcatIs
<1>0. /\ logical \in Seq(Nat) /\ Len(logical) \in Nat /\ bytes_written \in Nat /\ bytes_flushed \in Nat
      /\ out \in Seq(Nat) /\ Len(out) \in Nat /\ Len(b) \in Nat /\ buf \in Seq(Nat) /\ Len(buf) \in Nat
  BY <1>2 DEF SocketType
<1>6. SocketType'
  <2>1. bytes_written' \in Nat
    BY <1>0, <1>1, <1>4
  <2> QED
    BY <1>2, <1>4, <1>5, <2>1 DEF SocketType, readVars
<1>7. Numbered'
  <2> SUFFICES ASSUME NEW i \in 1..Len(logical) + n PROVE logical'[i] = i
    BY <1>5 DEF Numbered
  <2>1. CASE i <= Len(logical)
    <3>1. i \in 1..Len(logical)
      BY <2>1, <1>0, <1>1
    <3>2. logical[i] = i
      BY <3>1, <1>2 DEF WriteInv, Numbered
    <3> QED
      BY <3>1, <3>2, <1>5
  <2>2. CASE i > Len(logical)
    <3>1. i - Len(logical) \in 1..n /\ i \in Len(logical) + 1..Len(logical) + n
      BY <2>2, <1>0, <1>1
    <3>2. logical'[i] = t[i - Len(logical)] /\ t[i - Len(logical)] = Len(logical) + (i - Len(logical))
      BY <3>1, <1>3, <1>5
    <3> QED
      BY <3>2, <1>0
  <2> QED
    BY <2>1, <2>2, <1>0, <1>1
<1>8. InOrderOut'
  BY <1>2, <1>4 DEF WriteInv, InOrderOut
<1>9. BetweenCursors'
  BY <1>1, <1>2, <1>4 DEF WriteInv, BetweenCursors, NoneMissing, SanityCheck, SocketType
<1>10. NoneMissing' /\ NeverEmptied' /\ SanityCheck'
  <2>1. NoneMissing'
    BY <1>0, <1>1, <1>2, <1>4, <1>5 DEF WriteInv, NoneMissing
  <2>2. NeverEmptied' /\ SanityCheck'
    <3>1. bytes_flushed <= bytes_written
      BY <1>2 DEF WriteInv, SanityCheck
    <3>2. Len(b) >= 1 /\ bytes_flushed <= bytes_written + n /\ capacity' # 0
      BY ONLY <3>1, <1>0, <1>1, Len(b) >= bytes_written + n, capacity' >= 1, capacity' \in Nat
    <3> QED
      BY <3>2, <1>4 DEF NeverEmptied, SanityCheck
  <2> QED
    BY <2>1, <2>2
<1>11. ReadInv'
  BY <1>2, <1>4, ReadKept
<1> QED
  BY <1>6, <1>7, <1>8, <1>9, <1>10, <1>11 DEF SocketInv, WriteInv

\* What is written, with n bytes behind it, element by element.
LEMMA WrittenThen ==
    ASSUME SocketInv, NEW t \in Seq(Nat)
    PROVE  /\ Written \o t \in Seq(Nat) /\ Len(Written \o t) = bytes_written + Len(t)
           /\ \A j \in 1..bytes_written : (Written \o t)[j] = buf[j]
           /\ \A j \in bytes_written + 1..bytes_written + Len(t) : (Written \o t)[j] = t[j - bytes_written]
<1>1. buf \in Seq(Nat) /\ bytes_written \in Nat /\ bytes_written <= Len(buf) /\ 1 \in Nat \ {0}
  BY DEF SocketInv, SocketType, WriteInv, SanityCheck
<1> PICK w : w = Written
  OBVIOUS
<1>2. /\ w \in Seq(Nat) /\ Len(w) = bytes_written
      /\ \A j \in 1..bytes_written : w[j] = buf[j]
  <2>1. w = SubSeq(buf, 1, bytes_written)
    BY DEF Written
  <2> QED
    BY ONLY <1>1, <2>1
<1>3. /\ w \o t \in Seq(Nat) /\ Len(w \o t) = Len(w) + Len(t)
      /\ \A i \in 1..Len(w) : (w \o t)[i] = w[i]
      /\ \A i \in Len(w) + 1..Len(w) + Len(t) : (w \o t)[i] = t[i - Len(w)]
  BY ONLY <1>2, ConcatIs
<1>4. /\ w \o t \in Seq(Nat) /\ Len(w \o t) = bytes_written + Len(t)
      /\ \A i \in 1..bytes_written : (w \o t)[i] = w[i]
      /\ \A i \in bytes_written + 1..bytes_written + Len(t) : (w \o t)[i] = t[i - bytes_written]
  BY ONLY <1>2, <1>3
<1> QED
  BY <1>2, <1>4

\* The bytes to append.
LEMMA NewIs ==
    ASSUME SocketInv, NEW n \in Sizes
    PROVE  /\ n \in Nat /\ n >= 1 /\ New(n) \in Seq(Nat) /\ Len(New(n)) = n
           /\ \A i \in 1..n : New(n)[i] = Len(logical) + i
           /\ Grown(bytes_written + n) \in Nat /\ Grown(bytes_written + n) >= 1
           /\ Grown(bytes_written + n) >= bytes_written + n /\ Grown(bytes_written + n) >= capacity
<1>1. n \in Nat /\ n >= 1 /\ bytes_written \in Nat /\ capacity \in Nat /\ Len(logical) \in Nat
  BY SizesAssumption DEF SocketInv, SocketType
<1>2. New(n) \in Seq(Nat) /\ Len(New(n)) = n /\ \A i \in 1..n : New(n)[i] = Len(logical) + i
  BY <1>1 DEF New
<1> PICK m : m = bytes_written + n
  OBVIOUS
<1>3. m \in Nat /\ m >= 1
  BY <1>1
<1>4. Grown(m) \in Nat /\ Grown(m) >= m /\ Grown(m) >= capacity
  BY <1>1, <1>3, MaxIs DEF Grown
<1> QED
  BY <1>1, <1>2, <1>3, <1>4

\* What is written and the new bytes behind it.
LEMMA WrittenNew ==
    ASSUME SocketInv, NEW n \in Sizes
    PROVE  /\ Written \o New(n) \in Seq(Nat) /\ Len(Written \o New(n)) = bytes_written + n
           /\ \A j \in 1..bytes_written : (Written \o New(n))[j] = buf[j]
           /\ \A j \in bytes_written + 1..bytes_written + n :
                (Written \o New(n))[j] = Len(logical) + j - bytes_written
<1> PICK t : t = New(n)
  OBVIOUS
<1>1. t \in Seq(Nat) /\ Len(t) = n /\ n \in Nat /\ \A i \in 1..n : t[i] = Len(logical) + i
  BY NewIs
<1>2. /\ Written \o t \in Seq(Nat) /\ Len(Written \o t) = bytes_written + n
      /\ \A j \in 1..bytes_written : (Written \o t)[j] = buf[j]
      /\ \A j \in bytes_written + 1..bytes_written + n : (Written \o t)[j] = t[j - bytes_written]
  BY <1>1, WrittenThen
<1>3. bytes_written \in Nat /\ Len(logical) \in Nat
  BY DEF SocketInv, SocketType
<1>4. \A j \in bytes_written + 1..bytes_written + n :
        j - bytes_written \in 1..n /\ Len(logical) + (j - bytes_written) = Len(logical) + j - bytes_written
  BY <1>1, <1>3
<1>5. \A j \in bytes_written + 1..bytes_written + n : t[j - bytes_written] = Len(logical) + j - bytes_written
  BY <1>1, <1>4
<1> QED
  BY <1>2, <1>5

LEMMA WriteWithInv ==
    ASSUME SocketInv, NEW n \in Sizes, WriteWith(n)
    PROVE  SocketInv'
<1> PICK b : b = Written \o New(n)
  OBVIOUS
<1>1. Appended(n, b) /\ capacity' = Grown(bytes_written + n)
  BY DEF WriteWith
<1>2. /\ b \in Seq(Nat) /\ Len(b) = bytes_written + n
      /\ \A j \in 1..bytes_written : b[j] = buf[j]
      /\ \A j \in bytes_written + 1..bytes_written + n : b[j] = Len(logical) + j - bytes_written
  BY WrittenNew
<1>3. capacity' \in Nat /\ capacity' >= 1 /\ Len(b) <= capacity' /\ Len(b) >= bytes_written + n
  BY <1>1, <1>2, NewIs DEF SocketInv, SocketType
<1> QED
  BY <1>1, <1>2, <1>3, AppendedInv

\* Whatever is behind the new bytes.
LEMMA WrittenNewThen ==
    ASSUME SocketInv, NEW n \in Sizes, NEW x \in Seq(Nat)
    PROVE  /\ Written \o New(n) \o x \in Seq(Nat)
           /\ Len(Written \o New(n) \o x) = bytes_written + n + Len(x)
           /\ \A j \in 1..bytes_written : (Written \o New(n) \o x)[j] = buf[j]
           /\ \A j \in bytes_written + 1..bytes_written + n :
                (Written \o New(n) \o x)[j] = Len(logical) + j - bytes_written
<1> PICK b : b = Written \o New(n)
  OBVIOUS
<1>1. /\ b \in Seq(Nat) /\ Len(b) = bytes_written + n
      /\ \A j \in 1..bytes_written : b[j] = buf[j]
      /\ \A j \in bytes_written + 1..bytes_written + n : b[j] = Len(logical) + j - bytes_written
  BY WrittenNew
<1>2. /\ b \o x \in Seq(Nat) /\ Len(b \o x) = Len(b) + Len(x)
      /\ \A i \in 1..Len(b) : (b \o x)[i] = b[i]
  BY ONLY <1>1, ConcatIs
<1>3. bytes_written \in Nat /\ n \in Nat
  BY SizesAssumption DEF SocketInv, SocketType
<1>4. \A j \in 1..bytes_written : j \in 1..Len(b)
  BY <1>1, <1>3
<1>5. \A j \in bytes_written + 1..bytes_written + n : j \in 1..Len(b)
  BY <1>1, <1>3
<1>6. /\ \A j \in 1..bytes_written : (b \o x)[j] = buf[j]
      /\ \A j \in bytes_written + 1..bytes_written + n : (b \o x)[j] = Len(logical) + j - bytes_written
  BY <1>1, <1>2, <1>4, <1>5
<1>7. Len(b \o x) = bytes_written + n + Len(x)
  BY <1>1, <1>2
<1> QED
  BY <1>2, <1>6, <1>7

\* Zeroes.
LEMMA JunkIs ==
    ASSUME NEW n \in Nat
    PROVE  Junk(n) \in Seq(Nat) /\ Len(Junk(n)) = n
BY DEF Junk

LEMMA PutSliceInv ==
    ASSUME SocketInv, NEW n \in Sizes, PutSlice(n)
    PROVE  SocketInv'
<1>1. /\ bytes_written \in Nat /\ n \in Nat /\ n >= 1 /\ buf \in Seq(Nat) /\ Len(buf) \in Nat
      /\ capacity \in Nat /\ Len(buf) <= capacity /\ capacity' = Grown(bytes_written + n)
  <2>1. bytes_written \in Nat /\ n \in Nat /\ n >= 1 /\ buf \in Seq(Nat) /\ Len(buf) \in Nat /\ capacity \in Nat
    BY SizesAssumption DEF SocketInv, SocketType
  <2>2. Len(buf) <= capacity
    BY DEF SocketInv, WriteInv, SanityCheck
  <2>3. capacity' = Grown(bytes_written + n)
    BY DEF PutSlice
  <2> QED
    BY <2>1, <2>2, <2>3
<1>2. /\ capacity' \in Nat /\ capacity' >= 1 /\ bytes_written + n <= capacity' /\ Len(buf) <= capacity'
  <2>1. capacity' \in Nat /\ capacity' >= 1 /\ capacity' >= bytes_written + n /\ capacity' >= capacity
    BY <1>1, NewIs
  <2> QED
    BY <1>1, <2>1
<1>3. CASE Len(buf) - bytes_written >= n
  <2> PICK x : x = SubSeq(buf, bytes_written + n + 1, Len(buf))
    OBVIOUS
  <2>1. x \in Seq(Nat) /\ Len(x) = Len(buf) - bytes_written - n
    BY ONLY <1>1, <1>3, x = SubSeq(buf, bytes_written + n + 1, Len(buf))
  <2> PICK b : b = Written \o New(n) \o x
    OBVIOUS
  <2>2. Appended(n, b)
    BY <1>3 DEF PutSlice
  <2>3. /\ b \in Seq(Nat) /\ Len(b) = bytes_written + n + Len(x)
        /\ \A j \in 1..bytes_written : b[j] = buf[j]
        /\ \A j \in bytes_written + 1..bytes_written + n : b[j] = Len(logical) + j - bytes_written
    BY <2>1, WrittenNewThen
  <2>4. Len(b) = Len(buf) /\ Len(b) >= bytes_written + n /\ Len(b) <= capacity'
    <3>1. Len(b) = bytes_written + n + Len(x) /\ Len(x) = Len(buf) - bytes_written - n
      BY <2>1, <2>3
    <3>2. Len(b) = Len(buf)
      BY ONLY <3>1, <1>1
    <3> QED
      BY ONLY <3>2, <1>1, <1>2, <1>3
  <2> QED
    BY <1>2, <2>2, <2>3, <2>4, AppendedInv
<1>4. CASE ~(Len(buf) - bytes_written >= n)
  <2> PICK b : b = Written \o New(n)
    OBVIOUS
  <2>2. Appended(n, b)
    BY <1>4 DEF PutSlice
  <2>3. /\ b \in Seq(Nat) /\ Len(b) = bytes_written + n
        /\ \A j \in 1..bytes_written : b[j] = buf[j]
        /\ \A j \in bytes_written + 1..bytes_written + n : b[j] = Len(logical) + j - bytes_written
    BY WrittenNew
  <2>4. Len(b) >= bytes_written + n /\ Len(b) <= capacity'
    BY <1>1, <1>2, <2>3
  <2> QED
    BY <1>2, <2>2, <2>3, <2>4, AppendedInv
<1> QED
  BY <1>3, <1>4

LEMMA ReadFromInv ==
    ASSUME SocketInv, NEW n \in Sizes, NEW tokio \in BOOLEAN, ReadFrom(n, tokio)
    PROVE  SocketInv'
<1>1. /\ bytes_written \in Nat /\ n \in Nat /\ n >= 1 /\ capacity \in Nat
      /\ capacity' = Grown(bytes_written + n)
  BY SizesAssumption DEF SocketInv, SocketType, ReadFrom
<1>2. capacity' \in Nat /\ capacity' >= 1 /\ bytes_written + n <= capacity' /\ capacity <= capacity'
  BY <1>1, NewIs
<1>3. CASE ~tokio
  <2>0. n <= capacity - bytes_written
    BY <1>3 DEF ReadFrom
  <2> PICK d : d = capacity - bytes_written - n
    OBVIOUS
  <2> PICK x : x = Junk(d)
    OBVIOUS
  <2>1. x \in Seq(Nat) /\ Len(x) = capacity - bytes_written - n
    <3>1. d \in Nat
      BY <1>1, <2>0
    <3> QED
      BY <3>1, JunkIs
  <2> PICK b : b = Written \o New(n) \o x
    OBVIOUS
  <2>2. Appended(n, b)
    BY <1>3 DEF ReadFrom
  <2>3. /\ b \in Seq(Nat) /\ Len(b) = bytes_written + n + Len(x)
        /\ \A j \in 1..bytes_written : b[j] = buf[j]
        /\ \A j \in bytes_written + 1..bytes_written + n : b[j] = Len(logical) + j - bytes_written
    BY <2>1, WrittenNewThen
  <2>4. Len(b) >= bytes_written + n /\ Len(b) <= capacity'
    BY <1>1, <1>2, <2>0, <2>1, <2>3
  <2> QED
    BY <1>2, <2>2, <2>3, <2>4, AppendedInv
<1>4. CASE tokio
  <2> PICK b : b = Written \o New(n)
    OBVIOUS
  <2>2. Appended(n, b)
    BY <1>4 DEF ReadFrom
  <2>3. /\ b \in Seq(Nat) /\ Len(b) = bytes_written + n
        /\ \A j \in 1..bytes_written : b[j] = buf[j]
        /\ \A j \in bytes_written + 1..bytes_written + n : b[j] = Len(logical) + j - bytes_written
    BY WrittenNew
  <2>4. Len(b) >= bytes_written + n /\ Len(b) <= capacity'
    BY <1>1, <1>2, <2>3
  <2> QED
    BY <1>2, <2>2, <2>3, <2>4, AppendedInv
<1> QED
  BY <1>3, <1>4

\* A failed encoding: what it wrote is behind the cursor.
LEMMA WriteFailsInv ==
    ASSUME SocketInv, NEW n \in Sizes, WriteFails(n)
    PROVE  SocketInv'
<1> PICK x : x = Junk(n)
  OBVIOUS
<1> PICK b : b = Written \o x
  OBVIOUS
<1>1. /\ bytes_written \in Nat /\ bytes_flushed \in Nat /\ n \in Nat /\ n >= 1
      /\ capacity \in Nat /\ capacity' = Grown(bytes_written + n)
      /\ buf' = b /\ UNCHANGED <<bytes_written, bytes_flushed, logical, out, readVars>>
  BY SizesAssumption DEF SocketInv, SocketType, WriteFails
<1>2. capacity' \in Nat /\ capacity' >= 1 /\ bytes_written + n <= capacity'
  BY <1>1, NewIs
<1>3. /\ b \in Seq(Nat) /\ Len(b) = bytes_written + n
      /\ \A j \in 1..bytes_written : b[j] = buf[j]
  BY <1>1, JunkIs, WrittenThen
<1>4. SocketType'
  BY <1>1, <1>2, <1>3 DEF SocketInv, SocketType, readVars
<1>5. BetweenCursors'
  BY <1>1, <1>3 DEF SocketInv, WriteInv, BetweenCursors, SanityCheck
<1>6. NeverEmptied' /\ SanityCheck'
  BY <1>1, <1>2, <1>3 DEF SocketInv, WriteInv, NeverEmptied, SanityCheck
<1>7. Numbered' /\ InOrderOut' /\ NoneMissing'
  BY <1>1 DEF SocketInv, WriteInv, Numbered, InOrderOut, NoneMissing
<1>8. ReadInv'
  BY <1>1, ReadKept DEF SocketInv
<1> QED
  BY <1>4, <1>5, <1>6, <1>7, <1>8 DEF SocketInv, WriteInv

\* The socket takes the first k bytes between the cursors.
LEMMA FlushSomeInv ==
    ASSUME SocketInv, NEW k \in Nat, FlushSome(k)
    PROVE  SocketInv'
<1> PICK x : x = SubSeq(buf, bytes_flushed + 1, bytes_flushed + k)
  OBVIOUS
<1>1. /\ bytes_written \in Nat /\ bytes_flushed \in Nat /\ buf \in Seq(Nat) /\ Len(buf) \in Nat
      /\ out \in Seq(Nat) /\ Len(out) \in Nat /\ logical \in Seq(Nat) /\ Len(logical) \in Nat
      /\ bytes_written <= Len(buf) /\ bytes_flushed <= bytes_written
  BY DEF SocketInv, SocketType, WriteInv, SanityCheck
<1>2. /\ k >= 1 /\ bytes_flushed + k <= bytes_written
      /\ out' = out \o x /\ bytes_flushed' = Consumed(k)
      /\ bytes_written' = IF Consumed(k) = 0 THEN 0 ELSE bytes_written
      /\ UNCHANGED <<buf, capacity, logical, readVars>>
  BY <1>1 DEF FlushSome
<1>3. /\ x \in Seq(Nat) /\ Len(x) = k
      /\ \A i \in 1..k : x[i] = buf[bytes_flushed + i]
  <2>1. bytes_flushed + k <= Len(buf)
    BY <1>1, <1>2
  <2> QED
    <3> PICK n : n = bytes_flushed + k
      OBVIOUS
    <3>1. n \in Nat /\ bytes_flushed <= n /\ n <= Len(buf) /\ n - bytes_flushed = k
      BY <1>1, <1>2, <2>1
    <3>2. /\ x \in Seq(Nat) /\ Len(x) = n - bytes_flushed
          /\ \A i \in 1..n - bytes_flushed : x[i] = buf[bytes_flushed + i]
      BY <1>1, <3>1, PartIs
    <3> QED
      BY <3>1, <3>2, Zenon
<1>4. /\ out' \in Seq(Nat) /\ Len(out') = Len(out) + k
      /\ \A i \in 1..Len(out) : out'[i] = out[i]
      /\ \A i \in Len(out) + 1..Len(out) + k : out'[i] = x[i - Len(out)]
  <2>1. out \in Seq(Nat) /\ x \in Seq(Nat) /\ out' = out \o x /\ Len(x) = k
    BY <1>1, <1>2, <1>3
  <2> QED
    BY ONLY <2>1, ConcatIs
<1>5. \/ bytes_flushed' = 0 /\ bytes_written' = 0 /\ bytes_flushed + k = bytes_written
      \/ bytes_flushed' = bytes_flushed + k /\ bytes_written' = bytes_written
  BY <1>1, <1>2 DEF Consumed
<1>6. SocketType'
  <2>1. bytes_flushed' \in Nat /\ bytes_written' \in Nat
    BY <1>1, <1>5
  <2> QED
    BY <1>2, <1>4, <2>1 DEF SocketInv, SocketType, readVars
<1>7. InOrderOut'
  <2> SUFFICES ASSUME NEW i \in 1..Len(out) + k PROVE out'[i] = i
    BY <1>4 DEF InOrderOut
  <2>1. CASE i <= Len(out)
    <3>1. i \in 1..Len(out)
      BY <2>1, <1>1
    <3>2. out[i] = i
      BY <3>1 DEF SocketInv, WriteInv, InOrderOut
    <3> QED
      BY <3>1, <3>2, <1>4
  <2>2. CASE i > Len(out)
    <3> PICK j : j = bytes_flushed + (i - Len(out))
      OBVIOUS
    <3>1. /\ i \in Len(out) + 1..Len(out) + k /\ i - Len(out) \in 1..k
          /\ j \in bytes_flushed + 1..bytes_written /\ Len(out) - bytes_flushed + j = i
      BY <2>2, <1>1, <1>2
    <3>2. out'[i] = buf[j]
      BY <3>1, <1>3, <1>4
    <3>3. buf[j] = Len(out) - bytes_flushed + j
      BY <3>1 DEF SocketInv, WriteInv, BetweenCursors
    <3> QED
      BY <3>1, <3>2, <3>3
  <2> QED
    BY <2>1, <2>2, <1>1
<1>8. BetweenCursors'
  <2>1. CASE bytes_flushed' = 0 /\ bytes_written' = 0
    BY <2>1 DEF BetweenCursors
  <2>2. CASE bytes_flushed' = bytes_flushed + k /\ bytes_written' = bytes_written
    <3> SUFFICES ASSUME NEW j \in bytes_flushed + k + 1..bytes_written
                 PROVE  buf[j] = Len(out) + k - (bytes_flushed + k) + j
      BY <1>2, <1>4, <2>2 DEF BetweenCursors
    <3>1. j \in bytes_flushed + 1..bytes_written
      BY <1>1
    <3>2. buf[j] = Len(out) - bytes_flushed + j
      BY <3>1 DEF SocketInv, WriteInv, BetweenCursors
    <3> QED
      BY <3>2, <1>1
  <2> QED
    BY <2>1, <2>2, <1>5
<1>9. NoneMissing'
  <2>1. Len(logical) = Len(out) + bytes_written - bytes_flushed
    BY DEF SocketInv, WriteInv, NoneMissing
  <2>2. Len(logical') = Len(logical) /\ Len(out') = Len(out) + k
    BY <1>2, <1>4
  <2>3. Len(logical') = Len(out') + bytes_written' - bytes_flushed'
    BY ONLY <1>1, <1>5, <2>1, <2>2, k \in Nat
  <2> QED
    BY <2>3 DEF NoneMissing
<1>10. NeverEmptied' /\ Numbered'
  BY <1>2 DEF SocketInv, WriteInv, NeverEmptied, Numbered
<1>11. SanityCheck'
  BY <1>1, <1>2, <1>5 DEF SocketInv, WriteInv, SanityCheck
<1>12. ReadInv'
  BY <1>2, ReadKept DEF SocketInv
<1> QED
  BY <1>6, <1>7, <1>8, <1>9, <1>10, <1>11, <1>12 DEF SocketInv, WriteInv

\* shrink() moves what is between the cursors to the front and truncates behind it.
LEMMA ShrinkInv ==
    ASSUME SocketInv, Shrink
    PROVE  SocketInv'
<1> PICK w : w = bytes_written - bytes_flushed
  OBVIOUS
<1> PICK a : a = SubSeq(buf, bytes_flushed + 1, bytes_written)
  OBVIOUS
<1> PICK z : z = SubSeq(buf, w + 1, Len(buf))
  OBVIOUS
<1> PICK moved : moved = a \o z
  OBVIOUS
<1> PICK top : top = Max({w, InitCap})
  OBVIOUS
<1> PICK cut : cut = Min({Len(moved), top})
  OBVIOUS
<1> PICK kept : kept = SubSeq(moved, 1, cut)
  OBVIOUS
<1>1. /\ bytes_written \in Nat /\ bytes_flushed \in Nat /\ buf \in Seq(Nat) /\ Len(buf) \in Nat
      /\ out \in Seq(Nat) /\ Len(out) \in Nat /\ logical \in Seq(Nat) /\ Len(logical) \in Nat
      /\ bytes_written <= Len(buf) /\ bytes_flushed <= bytes_written /\ InitCap \in Nat /\ InitCap >= 1
  BY SizesAssumption DEF SocketInv, SocketType, WriteInv, SanityCheck
<1>2. /\ bytes_written' = w /\ bytes_flushed' = 0 /\ buf' = kept /\ capacity' = Len(kept)
      /\ logical # <<>> /\ UNCHANGED <<logical, out, readVars>>
  BY DEF Shrink, Smaller
<1>3. w \in Nat /\ w <= Len(buf)
  BY <1>1
<1>4. /\ a \in Seq(Nat) /\ Len(a) = w
      /\ \A i \in 1..w : a[i] = buf[bytes_flushed + i]
  <2>1. /\ buf \in Seq(Nat) /\ bytes_flushed \in Nat /\ bytes_written \in Nat
        /\ bytes_flushed <= bytes_written /\ bytes_written <= Len(buf)
    BY <1>1
  <2> QED
    BY ONLY <2>1, a = SubSeq(buf, bytes_flushed + 1, bytes_written), w = bytes_written - bytes_flushed, PartIs
<1>5. z \in Seq(Nat) /\ Len(z) = Len(buf) - w
  <2>1. buf \in Seq(Nat) /\ w \in Nat /\ Len(buf) \in Nat /\ w <= Len(buf) /\ Len(buf) <= Len(buf)
    BY <1>1, <1>3
  <2> QED
    BY ONLY <2>1, z = SubSeq(buf, w + 1, Len(buf)), PartIs
<1>6. /\ moved \in Seq(Nat) /\ Len(moved) = Len(buf)
      /\ \A i \in 1..w : moved[i] = a[i]
  <2>1. /\ moved \in Seq(Nat) /\ Len(moved) = Len(a) + Len(z)
        /\ \A i \in 1..Len(a) : moved[i] = a[i]
    <3>1. a \in Seq(Nat) /\ z \in Seq(Nat)
      BY <1>4, <1>5
    <3> QED
      BY ONLY <3>1, ConcatIs, moved = a \o z
  <2>2. Len(moved) = Len(buf)
    BY ONLY <2>1, <1>1, <1>3, <1>4, <1>5
  <2> QED
    BY <2>1, <2>2, <1>4
<1>7. top \in Nat /\ top >= w /\ top >= 1
  <2>1. top \in Nat /\ top >= w /\ top >= InitCap
    BY <1>1, <1>3, MaxIs
  <2> QED
    BY <2>1, <1>1
<1>8. cut \in Nat /\ cut >= w /\ cut <= Len(buf) /\ cut \in {Len(buf), top}
  <2>1. Len(buf) \in Nat /\ top \in Nat /\ cut = Min({Len(buf), top})
    BY <1>1, <1>6, <1>7
  <2>2. cut \in Nat /\ cut <= Len(buf) /\ cut \in {Len(buf), top}
    BY ONLY <2>1, MinIs
  <2>3. Len(buf) >= w /\ top >= w
    BY <1>3, <1>7
  <2> QED
    BY <2>2, <2>3
<1>9. /\ kept \in Seq(Nat) /\ Len(kept) = cut
      /\ \A i \in 1..w : kept[i] = moved[i]
  <2>1. /\ kept \in Seq(Nat) /\ Len(kept) = cut
        /\ \A i \in 1..cut : kept[i] = moved[i]
    <3>1. moved \in Seq(Nat) /\ cut \in Nat /\ cut <= Len(moved)
      BY <1>6, <1>8
    <3> QED
      BY ONLY <3>1, kept = SubSeq(moved, 1, cut)
  <2>2. \A i \in 1..w : i \in 1..cut
    <3>1. w \in Nat /\ cut \in Nat /\ w <= cut
      BY <1>3, <1>8
    <3> QED
      BY ONLY <3>1
  <2> QED
    BY <2>1, <2>2
<1>10. Len(kept) >= 1
  <2>1. Len(buf) >= 1
    BY <1>2 DEF SocketInv, WriteInv, NeverEmptied
  <2> QED
    BY <2>1, <1>7, <1>8, <1>9
<1>11. SocketType'
  <2>1. Len(kept) \in Nat /\ 0 \in Nat
    BY <1>8, <1>9
  <2> QED
    BY <1>2, <1>3, <1>9, <2>1 DEF SocketInv, SocketType, readVars
<1>12. BetweenCursors'
  <2> SUFFICES ASSUME NEW j \in 1..w PROVE kept[j] = Len(out) + j
    <3>1. \A j \in 0 + 1..w : j \in 1..w /\ Len(out) - 0 + j = Len(out) + j
      BY ONLY <1>1, <1>3
    <3>2. \A j \in 0 + 1..w : kept[j] = Len(out) - 0 + j
      BY <3>1
    <3> QED
      BY <3>2, <1>2 DEF BetweenCursors
  <2> PICK i : i = bytes_flushed + j
    OBVIOUS
  <2>1. i \in bytes_flushed + 1..bytes_written /\ Len(out) - bytes_flushed + i = Len(out) + j
    BY <1>1, <1>3
  <2>2. kept[j] = buf[i]
    BY <1>4, <1>6, <1>9
  <2>3. buf[i] = Len(out) - bytes_flushed + i
    BY <2>1 DEF SocketInv, WriteInv, BetweenCursors
  <2> QED
    BY <2>1, <2>2, <2>3
<1>13. NoneMissing'
  <2>1. Len(logical) = Len(out) + bytes_written - bytes_flushed
    BY DEF SocketInv, WriteInv, NoneMissing
  <2>2. Len(logical) = Len(out) + w - 0
    BY <1>1, <2>1
  <2> QED
    BY <1>2, <2>2 DEF NoneMissing
<1>14. NeverEmptied' /\ SanityCheck'
  <2>1. w <= Len(kept) /\ Len(kept) \in Nat /\ Len(kept) # 0 /\ 0 <= w
    <3>1. w \in Nat /\ cut \in Nat /\ w <= cut /\ Len(kept) = cut
      BY <1>3, <1>8, <1>9
    <3> QED
      BY ONLY <3>1, <1>10
  <2>2. capacity' # 0 /\ Len(buf') <= capacity' /\ bytes_written' <= Len(buf') /\ bytes_flushed' <= bytes_written'
    BY ONLY <1>2, <2>1
  <2> QED
    BY <1>2, <1>10, <2>2 DEF NeverEmptied, SanityCheck
<1>15. Numbered' /\ InOrderOut'
  BY <1>2 DEF SocketInv, WriteInv, Numbered, InOrderOut
<1>16. ReadInv'
  BY <1>2, ReadKept DEF SocketInv
<1> QED
  BY <1>11, <1>12, <1>13, <1>14, <1>15, <1>16 DEF SocketInv, WriteInv

-----------------------------------------------------------------------------
(* The read buffer.                                                        *)

\* Bytes move from the front of one sequence to the end of the other.
LEMMA MovedOver ==
    ASSUME NEW s \in Seq(Nat), NEW t \in Seq(Nat), NEW k \in 1..Len(t)
    PROVE  /\ s \o SubSeq(t, 1, k) \in Seq(Nat) /\ SubSeq(t, k + 1, Len(t)) \in Seq(Nat)
           /\ (s \o SubSeq(t, 1, k)) \o SubSeq(t, k + 1, Len(t)) = s \o t
<1> PICK a : a = SubSeq(t, 1, k)
  OBVIOUS
<1> PICK b : b = SubSeq(t, k + 1, Len(t))
  OBVIOUS
<1>0. Len(t) \in Nat /\ Len(s) \in Nat /\ k \in Nat /\ k <= Len(t)
  OBVIOUS
<1>1. a \in Seq(Nat) /\ Len(a) = k /\ \A i \in 1..k : a[i] = t[i]
  OBVIOUS
<1>2. b \in Seq(Nat) /\ Len(b) = Len(t) - k /\ \A i \in 1..Len(t) - k : b[i] = t[k + i]
  OBVIOUS
<1> PICK c : c = s \o a
  OBVIOUS
<1>3. /\ c \in Seq(Nat) /\ Len(c) = Len(s) + k
      /\ \A i \in 1..Len(s) : c[i] = s[i]
      /\ \A i \in Len(s) + 1..Len(s) + k : c[i] = a[i - Len(s)]
  <2>1. /\ c \in Seq(Nat) /\ Len(c) = Len(s) + Len(a)
        /\ \A i \in 1..Len(s) : c[i] = s[i]
        /\ \A i \in Len(s) + 1..Len(s) + Len(a) : c[i] = a[i - Len(s)]
    BY <1>1, ConcatIs
  <2>2. Len(a) = k
    BY <1>1
  <2> QED
    BY ONLY <2>1, <2>2
<1> PICK d : d = c \o b
  OBVIOUS
<1>4. /\ d \in Seq(Nat) /\ Len(d) = Len(s) + k + (Len(t) - k)
      /\ \A i \in 1..Len(s) + k : d[i] = c[i]
      /\ \A i \in Len(s) + k + 1..Len(s) + k + (Len(t) - k) : d[i] = b[i - (Len(s) + k)]
  <2>1. /\ d \in Seq(Nat) /\ Len(d) = Len(c) + Len(b)
        /\ \A i \in 1..Len(c) : d[i] = c[i]
        /\ \A i \in Len(c) + 1..Len(c) + Len(b) : d[i] = b[i - Len(c)]
    <3>1. c \in Seq(Nat) /\ b \in Seq(Nat)
      BY <1>2, <1>3
    <3> QED
      BY ONLY <3>1, ConcatIs, d = c \o b
  <2>2. Len(c) = Len(s) + k /\ Len(b) = Len(t) - k
    BY <1>2, <1>3
  <2> QED
    BY ONLY <2>1, <2>2
<1> PICK e : e = s \o t
  OBVIOUS
<1>5. /\ e \in Seq(Nat) /\ Len(e) = Len(s) + Len(t)
      /\ \A i \in 1..Len(s) : e[i] = s[i]
      /\ \A i \in Len(s) + 1..Len(s) + Len(t) : e[i] = t[i - Len(s)]
  BY ConcatIs
<1>6. ASSUME NEW i \in 1..Len(e) PROVE d[i] = e[i]
  <2>1. CASE i <= Len(s)
    <3>1. i \in 1..Len(s) /\ i \in 1..Len(s) + k
      BY <2>1, <1>0
    <3> QED
      BY <3>1, <1>3, <1>4, <1>5
  <2>2. CASE i > Len(s) /\ i <= Len(s) + k
    <3>1. i \in Len(s) + 1..Len(s) + k /\ i \in 1..Len(s) + k /\ i \in Len(s) + 1..Len(s) + Len(t) /\ i - Len(s) \in 1..k
      BY <2>2, <1>0, <1>5
    <3> QED
      BY <3>1, <1>1, <1>3, <1>4, <1>5
  <2>3. CASE i > Len(s) + k
    <3>1. /\ i \in Len(s) + k + 1..Len(s) + k + (Len(t) - k) /\ i \in Len(s) + 1..Len(s) + Len(t)
          /\ i - (Len(s) + k) \in 1..Len(t) - k /\ k + (i - (Len(s) + k)) = i - Len(s)
      BY <2>3, <1>0, <1>5
    <3>2. d[i] = b[i - (Len(s) + k)] /\ e[i] = t[i - Len(s)]
      BY <3>1, <1>4, <1>5
    <3>3. b[i - (Len(s) + k)] = t[k + (i - (Len(s) + k))]
      BY <3>1, <1>2
    <3> QED
      BY <3>1, <3>2, <3>3
  <2>4. i \in Nat
    BY <1>0, <1>5
  <2>5. i <= Len(s) \/ (i > Len(s) /\ i <= Len(s) + k) \/ i > Len(s) + k
    BY ONLY <2>4, <1>0
  <2> QED
    BY <2>1, <2>2, <2>3, <2>5
<1>7. Len(d) = Len(e)
  BY ONLY <1>0, <1>4, <1>5
<1>8. d = e
  BY <1>4, <1>5, <1>6, <1>7, SameElements
<1> QED
  BY <1>2, <1>3, <1>8

\* Two ways to count what is left.
LEMMA SameRest ==
    ASSUME NEW S \in Nat, NEW T \in Nat, NEW k \in Nat, NEW V \in Nat, NEW D, NEW E,
           D = S - k + T, E = S + T, E = k + V
    PROVE  D = V
OBVIOUS

\* What is left of a concatenation once its first part is split off.
LEMMA SplitOff ==
    ASSUME NEW s \in Seq(Nat), NEW t \in Seq(Nat), NEW u \in Seq(Nat), NEW v \in Seq(Nat),
           s \o t = u \o v, Len(u) <= Len(s)
    PROVE  SubSeq(s, Len(u) + 1, Len(s)) \in Seq(Nat) /\ SubSeq(s, Len(u) + 1, Len(s)) \o t = v
<1> PICK k : k = Len(u)
  OBVIOUS
<1> PICK a : a = SubSeq(s, k + 1, Len(s))
  OBVIOUS
<1>0. Len(s) \in Nat /\ Len(t) \in Nat /\ k \in Nat /\ k <= Len(s) /\ Len(v) \in Nat
  OBVIOUS
<1>1. a \in Seq(Nat) /\ Len(a) = Len(s) - k /\ \A i \in 1..Len(s) - k : a[i] = s[k + i]
  <2>1. s \in Seq(Nat) /\ k \in Nat /\ Len(s) \in Nat /\ k <= Len(s) /\ Len(s) <= Len(s)
    BY <1>0
  <2> QED
    BY ONLY <2>1, a = SubSeq(s, k + 1, Len(s)), PartIs
<1> PICK d : d = a \o t
  OBVIOUS
<1>2. /\ d \in Seq(Nat) /\ Len(d) = Len(s) - k + Len(t)
      /\ \A i \in 1..Len(s) - k : d[i] = a[i]
      /\ \A i \in Len(s) - k + 1..Len(s) - k + Len(t) : d[i] = t[i - (Len(s) - k)]
  <2>1. /\ d \in Seq(Nat) /\ Len(d) = Len(a) + Len(t)
        /\ \A i \in 1..Len(a) : d[i] = a[i]
        /\ \A i \in Len(a) + 1..Len(a) + Len(t) : d[i] = t[i - Len(a)]
    <3>1. a \in Seq(Nat) /\ t \in Seq(Nat)
      BY <1>1
    <3> QED
      BY ONLY <3>1, ConcatIs, d = a \o t
  <2>2. Len(a) = Len(s) - k
    BY <1>1
  <2> QED
    BY ONLY <2>1, <2>2
<1> PICK e : e = s \o t
  OBVIOUS
<1>3. /\ e \in Seq(Nat) /\ Len(e) = Len(s) + Len(t)
      /\ \A i \in 1..Len(s) : e[i] = s[i]
      /\ \A i \in Len(s) + 1..Len(s) + Len(t) : e[i] = t[i - Len(s)]
  BY ONLY s \in Seq(Nat), t \in Seq(Nat), e = s \o t, ConcatIs
<1>4. /\ Len(e) = k + Len(v)
      /\ \A i \in k + 1..k + Len(v) : e[i] = v[i - k]
  <2>1. e = u \o v
    OBVIOUS
  <2> QED
    BY <2>1, ConcatIs
<1>5. Len(d) = Len(v)
  <2>1. Len(d) = Len(s) - k + Len(t) /\ Len(e) = Len(s) + Len(t) /\ Len(e) = k + Len(v)
    BY <1>2, <1>3, <1>4
  <2> QED
    BY <2>1, <1>0, SameRest
<1>6. ASSUME NEW i \in 1..Len(d) PROVE d[i] = v[i]
  <2>0. i \in Nat /\ i >= 1 /\ i <= Len(v) /\ i <= Len(s) - k + Len(t)
    BY <1>0, <1>2, <1>5
  <2>1. k + i \in k + 1..k + Len(v) /\ k + i - k = i
    BY ONLY <2>0, <1>0
  <2>2. e[k + i] = v[i]
    BY <2>1, <1>4
  <2>3. CASE i <= Len(s) - k
    <3>1. i \in 1..Len(s) - k /\ k + i \in 1..Len(s)
      BY ONLY <2>0, <2>3, <1>0
    <3>2. d[i] = s[k + i]
      BY <3>1, <1>1, <1>2
    <3> QED
      BY <3>1, <3>2, <2>2, <1>3
  <2>4. CASE i > Len(s) - k
    <3>1. /\ i \in Len(s) - k + 1..Len(s) - k + Len(t) /\ k + i \in Len(s) + 1..Len(s) + Len(t)
          /\ i - (Len(s) - k) = k + i - Len(s)
      BY ONLY <2>0, <2>4, <1>0
    <3>2. d[i] = t[i - (Len(s) - k)]
      BY <3>1, <1>2
    <3>3. e[k + i] = t[k + i - Len(s)]
      <4> PICK j : j = k + i
        OBVIOUS
      <4>1. j \in Len(s) + 1..Len(s) + Len(t)
        BY <3>1
      <4>2. e[j] = t[j - Len(s)]
        BY <4>1, <1>3
      <4> QED
        BY <4>2
    <3> QED
      BY <3>1, <3>2, <3>3, <2>2
  <2>5. i <= Len(s) - k \/ i > Len(s) - k
    BY ONLY <2>0, <1>0
  <2> QED
    BY <2>3, <2>4, <2>5
<1>7. d = v
  BY <1>2, <1>5, <1>6, SameElements
<1> QED
  BY <1>1, <1>7

\* A step that leaves the write side alone keeps what is said of it.
LEMMA WriteKept ==
    ASSUME WriteInv, UNCHANGED writeVars
    PROVE  WriteInv'
BY DEF WriteInv, writeVars, Numbered, InOrderOut, BetweenCursors, NoneMissing, NeverEmptied, SanityCheck

LEMMA ArriveInv ==
    ASSUME SocketInv, NEW k \in 1..Len(inflow), Arrive(k)
    PROVE  SocketInv'
<1>1. read \in Seq(Nat) /\ inflow \in Seq(Nat)
  BY DEF SocketInv, SocketType
<1>2. /\ read' = read \o SubSeq(inflow, 1, k) /\ inflow' = SubSeq(inflow, k + 1, Len(inflow))
      /\ UNCHANGED <<writeVars, frames>>
  BY DEF Arrive
<1>3. read' \in Seq(Nat) /\ inflow' \in Seq(Nat) /\ read' \o inflow' = read \o inflow
  BY <1>1, <1>2, MovedOver
<1>4. SocketType'
  BY <1>2, <1>3 DEF SocketInv, SocketType, writeVars
<1>5. ReadInv'
  BY <1>2, <1>3 DEF SocketInv, ReadInv
<1> QED
  BY <1>2, <1>4, <1>5, WriteKept DEF SocketInv

\* The length in front is the length of the next frame, so what is split off is one frame.
LEMMA TryReadInv ==
    ASSUME SocketInv, TryRead
    PROVE  SocketInv'
<1> PICK n : n = Len(frames)
  OBVIOUS
<1> PICK m : m = Len(Frames) - n
  OBVIOUS
<1>1. /\ read \in Seq(Nat) /\ inflow \in Seq(Nat) /\ frames \in Seq(Nat) /\ n \in Nat
      /\ Len(Frames) \in Nat /\ n <= Len(Frames) /\ m \in Nat /\ m <= Len(Frames)
      /\ read \o inflow = LastBytes[m] /\ \A i \in 1..n : frames[i] = Frames[i]
  BY FramesAssumption DEF SocketInv, SocketType, ReadInv
<1>2. /\ read # <<>> /\ Len(read) >= read[1] /\ frames' = frames \o <<read[1]>>
      /\ read' = SubSeq(read, read[1] + 1, Len(read)) /\ UNCHANGED <<writeVars, inflow>>
  BY DEF TryRead
<1>3. Len(read) \in Nat /\ Len(read) >= 1 /\ Len(read \o inflow) >= 1 /\ (read \o inflow)[1] = read[1]
  <2>1. read \in Seq(Nat) /\ inflow \in Seq(Nat) /\ read # <<>>
    BY <1>1, <1>2
  <2> QED
    BY ONLY <2>1
<1>4. m # 0
  <2>1. Len(LastBytes[0]) = 0
    BY LastBytesUnfold
  <2> QED
    BY <2>1, <1>1, <1>3
<1> PICK f : f = Frames[n + 1]
  OBVIOUS
<1>5. n + 1 \in 1..Len(Frames) /\ Len(Frames) - m + 1 = n + 1 /\ f \in Nat \ {0}
  BY <1>1, <1>4, FramesAssumption
<1> PICK u, v : u = FrameBytes(f) /\ v = LastBytes[m - 1]
  OBVIOUS
<1>6. u \in Seq(Nat) /\ Len(u) = f /\ u[1] = f
  BY <1>5, FrameBytesType
<1>7. m \in 1..Len(Frames) /\ m - 1 \in 0..Len(Frames)
  BY <1>1, <1>4
<1>8. v \in Seq(Nat) /\ LastBytes[m] = u \o v
  BY <1>5, <1>7, LastBytesUnfold
<1>9. read \o inflow = u \o v
  BY <1>1, <1>8
<1>10. read[1] = f
  <2>1. (u \o v)[1] = f
    <3>1. 1 \in 1..Len(u)
      BY <1>5, <1>6
    <3>2. (u \o v)[1] = u[1]
      BY ONLY <3>1, <1>6, <1>8, ConcatIs
    <3> QED
      BY <3>2, <1>6
  <2> QED
    BY <2>1, <1>3, <1>9
<1>11. read' \in Seq(Nat) /\ read' \o inflow = v
  <2>1. Len(u) <= Len(read)
    BY <1>2, <1>6, <1>10
  <2> QED
    <3>1. read' = SubSeq(read, Len(u) + 1, Len(read))
      BY <1>2, <1>6, <1>10
    <3>2. read \in Seq(Nat) /\ inflow \in Seq(Nat) /\ u \in Seq(Nat) /\ v \in Seq(Nat)
      BY <1>1, <1>6, <1>8
    <3>3. SubSeq(read, Len(u) + 1, Len(read)) \in Seq(Nat) /\ SubSeq(read, Len(u) + 1, Len(read)) \o inflow = v
      BY ONLY <2>1, <3>2, <1>9, SplitOff
    <3> QED
      BY <3>1, <3>3
<1>12. /\ frames' \in Seq(Nat) /\ Len(frames') = n + 1
       /\ \A i \in 1..n : frames'[i] = frames[i]
       /\ frames'[n + 1] = f
  BY <1>1, <1>2, <1>5, <1>10
<1>13. ReadInv'
  <2>1. Len(frames') <= Len(Frames) /\ Len(Frames) - Len(frames') = m - 1
    <3>1. Len(frames') = n + 1 /\ n + 1 <= Len(Frames)
      BY <1>5, <1>12
    <3>2. Len(Frames) - (n + 1) = m - 1
      BY <1>1
    <3>3. Len(frames') <= Len(Frames)
      BY ONLY <3>1
    <3> QED
      BY <3>1, <3>2, <3>3, Zenon
  <2>2. \A i \in 1..Len(frames') : frames'[i] = Frames[i]
    <3> SUFFICES ASSUME NEW i \in 1..n + 1 PROVE frames'[i] = Frames[i]
      BY <1>12
    <3>1. i \in 1..n \/ i = n + 1
      BY <1>1
    <3> QED
      BY <3>1, <1>1, <1>12
  <2>3. read' \o inflow' = LastBytes[Len(Frames) - Len(frames')]
    BY <1>2, <1>11, <2>1
  <2> QED
    BY <2>1, <2>2, <2>3 DEF ReadInv
<1>14. SocketType'
  BY <1>2, <1>11, <1>12 DEF SocketInv, SocketType, writeVars
<1> QED
  BY <1>2, <1>13, <1>14, WriteKept DEF SocketInv

-----------------------------------------------------------------------------
(* The theorem.                                                            *)

LEMMA SocketInitInv == SocketInit => SocketInv
<1> SUFFICES ASSUME SocketInit PROVE SocketInv
  OBVIOUS
<1>1. /\ buf = <<>> /\ bytes_written = 0 /\ bytes_flushed = 0 /\ capacity = InitCap
      /\ logical = <<>> /\ out = <<>> /\ read = <<>> /\ frames = <<>>
      /\ inflow = LastBytes[Len(Frames)]
  BY DEF SocketInit
<1>2. Len(Frames) \in Nat /\ Len(Frames) \in 0..Len(Frames) /\ Len(Frames) - 0 = Len(Frames)
  BY FramesAssumption
<1>3. inflow \in Seq(Nat)
  BY <1>1, <1>2, LastBytesUnfold
<1>4. SocketType
  BY <1>1, <1>3, SizesAssumption DEF SocketType
<1>5. WriteInv
  BY <1>1, SizesAssumption DEF WriteInv, Numbered, InOrderOut, BetweenCursors, NoneMissing, NeverEmptied, SanityCheck
<1>6. ReadInv
  <2>1. Len(frames) = 0 /\ read \o inflow = inflow
    BY <1>1, <1>3
  <2> QED
    BY <1>1, <1>2, <2>1 DEF ReadInv
<1> QED
  BY <1>4, <1>5, <1>6 DEF SocketInv

LEMMA SocketNextInv == SocketInv /\ [SocketNext]_socketVars => SocketInv'
<1> SUFFICES ASSUME SocketInv, [SocketNext]_socketVars PROVE SocketInv'
  OBVIOUS
<1>1. CASE \E n \in Sizes : WriteWith(n) \/ WriteFails(n) \/ PutSlice(n)
  BY <1>1, WriteWithInv, WriteFailsInv, PutSliceInv
<1>2. CASE \E n \in Sizes, tokio \in BOOLEAN : ReadFrom(n, tokio)
  BY <1>2, ReadFromInv
<1>3. CASE \E k \in 1..MaxBytes : FlushSome(k)
  <2>1. \A k \in 1..MaxBytes : k \in Nat
    BY SizesAssumption
  <2> QED
    BY <1>3, <2>1, FlushSomeInv
<1>4. CASE \E k \in 1..Len(inflow) : Arrive(k)
  BY <1>4, ArriveInv
<1>5. CASE Shrink
  BY <1>5, ShrinkInv
<1>6. CASE TryRead
  BY <1>6, TryReadInv
<1>7. CASE UNCHANGED socketVars
  <2>1. UNCHANGED writeVars /\ UNCHANGED readVars
    BY <1>7 DEF socketVars, writeVars, readVars
  <2>2. SocketType'
    BY <2>1 DEF SocketInv, SocketType, writeVars, readVars
  <2> QED
    BY <2>1, <2>2, WriteKept, ReadKept DEF SocketInv
<1> QED
  BY <1>1, <1>2, <1>3, <1>4, <1>5, <1>6, <1>7 DEF SocketNext

LEMMA SocketInvFaithful == SocketInv => TransportFaithful
<1> SUFFICES ASSUME SocketInv PROVE TransportFaithful
  OBVIOUS
<1>1. /\ bytes_written \in Nat /\ bytes_flushed \in Nat /\ buf \in Seq(Nat) /\ Len(buf) \in Nat
      /\ out \in Seq(Nat) /\ Len(out) \in Nat /\ logical \in Seq(Nat) /\ Len(logical) \in Nat
      /\ bytes_written <= Len(buf) /\ bytes_flushed <= bytes_written
      /\ Len(logical) = Len(out) + bytes_written - bytes_flushed
  BY DEF SocketInv, SocketType, WriteInv, SanityCheck, NoneMissing
<1> PICK w : w = bytes_written - bytes_flushed
  OBVIOUS
<1> PICK a : a = SubSeq(buf, bytes_flushed + 1, bytes_written)
  OBVIOUS
<1>2. w \in Nat /\ Len(logical) = Len(out) + w
  BY <1>1
<1>3. a \in Seq(Nat) /\ Len(a) = w /\ \A i \in 1..w : a[i] = buf[bytes_flushed + i]
  <2>1. /\ buf \in Seq(Nat) /\ bytes_flushed \in Nat /\ bytes_written \in Nat
        /\ bytes_flushed <= bytes_written /\ bytes_written <= Len(buf)
    BY <1>1
  <2> QED
    BY ONLY <2>1, a = SubSeq(buf, bytes_flushed + 1, bytes_written), w = bytes_written - bytes_flushed, PartIs
<1> PICK d : d = out \o a
  OBVIOUS
<1>4. /\ d \in Seq(Nat) /\ Len(d) = Len(out) + w
      /\ \A i \in 1..Len(out) : d[i] = out[i]
      /\ \A i \in Len(out) + 1..Len(out) + w : d[i] = a[i - Len(out)]
  <2>1. out \in Seq(Nat) /\ a \in Seq(Nat) /\ Len(a) = w
    BY <1>1, <1>3
  <2> QED
    BY ONLY <2>1, ConcatIs, d = out \o a
<1>5. ASSUME NEW i \in 1..Len(d) PROVE d[i] = logical[i]
  <2>1. i \in 1..Len(logical) /\ i \in Nat
    BY <1>1, <1>2, <1>4
  <2>2. logical[i] = i
    BY <2>1 DEF SocketInv, WriteInv, Numbered
  <2>3. CASE i <= Len(out)
    <3>1. i \in 1..Len(out)
      BY <2>1, <2>3, <1>1
    <3>2. out[i] = i
      BY <3>1 DEF SocketInv, WriteInv, InOrderOut
    <3> QED
      BY <2>2, <3>1, <3>2, <1>4
  <2>4. CASE i > Len(out)
    <3> PICK j : j = i - Len(out)
      OBVIOUS
    <3> PICK h : h = bytes_flushed + j
      OBVIOUS
    <3>1. /\ i \in Len(out) + 1..Len(out) + w /\ j \in 1..w /\ h \in bytes_flushed + 1..bytes_written
          /\ Len(out) - bytes_flushed + h = i
      <4>1. i <= Len(out) + w /\ h = bytes_flushed + j /\ j = i - Len(out)
        BY <2>1, <1>2
      <4>2. i \in Len(out) + 1..Len(out) + w /\ j \in 1..w
        BY ONLY <4>1, <2>1, <2>4, <1>1, <1>2
      <4> QED
        BY ONLY <4>1, <4>2, <1>1, w = bytes_written - bytes_flushed
    <3>2. d[i] = buf[h]
      BY <3>1, <1>3, <1>4
    <3>3. buf[h] = Len(out) - bytes_flushed + h
      BY <3>1 DEF SocketInv, WriteInv, BetweenCursors
    <3> QED
      BY <2>2, <3>1, <3>2, <3>3
  <2>5. i <= Len(out) \/ i > Len(out)
    BY ONLY <2>1, <1>1
  <2> QED
    BY <2>3, <2>4, <2>5
<1>6. d = logical
  <2>1. Len(d) = Len(logical)
    BY <1>2, <1>4
  <2> QED
    BY <2>1, <1>1, <1>4, <1>5, SameElements
<1>7. StreamFaithful
  BY <1>6 DEF StreamFaithful
<1>8. FramesWhole
  <2>1. /\ frames \in Seq(Nat) /\ Len(frames) <= Len(Frames)
        /\ \A i \in 1..Len(frames) : frames[i] = Frames[i]
    BY DEF SocketInv, SocketType, ReadInv
  <2>2. Frames \in Seq(Nat)
    BY FramesAssumption
  <2>3. SubSeq(frames, 1, Len(frames)) = SubSeq(Frames, 1, Len(frames))
    BY ONLY <2>1, <2>2
  <2> QED
    BY <2>1, <2>3 DEF FramesWhole, IsPrefix
<1> QED
  BY <1>7, <1>8 DEF TransportFaithful, SocketInv, WriteInv

\* Through failed encodings, partial writes, dropped flushes and reads and shrink_buffers(),
\* for any sizes, capacity and frames, every byte that was appended reaches the peer once
\* and in order, sanity_check() never panics and frames are read whole.
THEOREM SocketFaithful == SocketSpec => []TransportFaithful
BY SocketInitInv, SocketNextInv, SocketInvFaithful, PTL DEF SocketSpec
=============================================================================
