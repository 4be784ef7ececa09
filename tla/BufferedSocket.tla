--------------------------- MODULE BufferedSocket ---------------------------
(***************************************************************************)
(* BufferedSocket of sqlx-core/src/net/socket/buffered.rs: the write       *)
(* buffer with its two cursors and the read buffer, over a socket that     *)
(* takes and gives any number of bytes at a time.  Every await may be the  *)
(* last poll of a dropped future, so the steps of a flush or of a read     *)
(* interleave with whatever the connection does next.  Bytes written are   *)
(* numbered; 0 is a byte that no cursor covers.  A frame on the way in is  *)
(* its length followed by that many bytes less one.                        *)
(***************************************************************************)
EXTENDS Integers, Sequences, SequencesExt, FiniteSetsExt

CONSTANTS
    Sizes,      \* sizes of the values written
    MaxBytes,   \* bound: bytes written in all
    InitCap,    \* DEFAULT_BUF_SIZE
    Frames      \* lengths of the frames the peer sends

\* Whatever is encoded starts with the byte of its format or with its header, so even a
\* failed encoding has written something.
ASSUME SizesAssumption == Sizes \subseteq Nat \ {0} /\ MaxBytes \in Nat /\ InitCap \in Nat \ {0}
ASSUME FramesAssumption == Frames \in Seq(Nat \ {0})

VARIABLES
    buf, bytes_written, bytes_flushed, capacity,   \* WriteBuffer
    logical, out,                                  \* bytes appended; bytes the peer has
    read, inflow, frames                           \* ReadBuffer; bytes to come; frames read

socketVars == <<buf, bytes_written, bytes_flushed, capacity, logical, out, read, inflow, frames>>
writeVars == <<buf, bytes_written, bytes_flushed, capacity, logical, out>>
readVars == <<read, inflow, frames>>

FrameBytes(n) == <<n>> \o [i \in 1..n - 1 |-> 0]

\* The bytes of the last k frames.
LastBytes[k \in 0..Len(Frames)] ==
    IF k = 0 THEN <<>> ELSE FrameBytes(Frames[Len(Frames) - k + 1]) \o LastBytes[k - 1]

SocketInit ==
    /\ buf = <<>> /\ bytes_written = 0 /\ bytes_flushed = 0 /\ capacity = InitCap
    /\ logical = <<>> /\ out = <<>> /\ read = <<>> /\ frames = <<>>
    /\ inflow = LastBytes[Len(Frames)]

Junk(n) == [i \in 1..n |-> 0]
New(n) == [i \in 1..n |-> Len(logical) + i]
Written == SubSeq(buf, 1, bytes_written)
Grown(n) == Max({capacity, n})

Appended(n, b) ==
    /\ buf' = b
    /\ bytes_written' = bytes_written + n
    /\ logical' = logical \o New(n)
    /\ UNCHANGED <<bytes_flushed, out, readVars>>

\* Mutant: what a failed encoding left is not truncated.
WriteWithBehind(n) ==
    /\ Len(logical) + n <= MaxBytes
    /\ Appended(n, buf \o New(n))
    /\ capacity' = Grown(bytes_written + n)

\* write_with(): buf_mut() truncates to what was written, the value is encoded behind it.
WriteWith(n) ==
    /\ Len(logical) + n <= MaxBytes
    /\ Appended(n, Written \o New(n))
    /\ capacity' = Grown(bytes_written + n)

\* The value cannot be encoded: what it wrote is behind the cursor.
WriteFails(n) ==
    /\ buf' = Written \o Junk(n)
    /\ capacity' = Grown(bytes_written + n)
    /\ UNCHANGED <<bytes_written, bytes_flushed, logical, out, readVars>>

\* put_slice(): into the initialised area if it fits, otherwise at the end.
PutSlice(n) ==
    /\ Len(logical) + n <= MaxBytes
    /\ Appended(n, IF Len(buf) - bytes_written >= n
                      THEN Written \o New(n) \o SubSeq(buf, bytes_written + n + 1, Len(buf))
                      ELSE Written \o New(n))
    /\ capacity' = Grown(bytes_written + n)

\* read_from() on tokio appends to the vector; elsewhere it fills the vector to its
\* capacity and reads into the part that is not written.
ReadFrom(n, tokio) ==
    /\ Len(logical) + n <= MaxBytes
    /\ tokio \/ n <= capacity - bytes_written
    /\ Appended(n, IF tokio THEN Written \o New(n)
                 ELSE Written \o New(n) \o Junk(capacity - bytes_written - n))
    /\ capacity' = Grown(bytes_written + n)

Consumed(k) == IF bytes_flushed + k = bytes_written THEN 0 ELSE bytes_flushed + k

\* One turn of the loop of flush(): the socket takes k bytes of get().
FlushSome(k) ==
    /\ k \in 1..bytes_written - bytes_flushed
    /\ out' = out \o SubSeq(buf, bytes_flushed + 1, bytes_flushed + k)
    /\ bytes_flushed' = Consumed(k)
    /\ bytes_written' = IF Consumed(k) = 0 THEN 0 ELSE bytes_written
    /\ UNCHANGED <<buf, capacity, logical, readVars>>

Smaller(b, n) == SubSeq(b, 1, Min({Len(b), n}))

\* shrink(): the rest moves to the front, over what was flushed.
Shrink ==
    LET w == bytes_written - bytes_flushed
        moved == SubSeq(buf, bytes_flushed + 1, bytes_written)
                   \o SubSeq(buf, w + 1, Len(buf))
        kept == Smaller(moved, Max({w, InitCap}))
    IN
    /\ bytes_written' = w /\ bytes_flushed' = 0
    /\ buf' = kept /\ capacity' = Len(kept)
    /\ logical # <<>>
    /\ UNCHANGED <<logical, out, readVars>>

\* ReadBuffer::read(): some bytes arrive.
Arrive(k) ==
    /\ k \in 1..Len(inflow)
    /\ Len(read) < (IF read = <<>> THEN 1 ELSE read[1])
    /\ read' = read \o SubSeq(inflow, 1, k)
    /\ inflow' = SubSeq(inflow, k + 1, Len(inflow))
    /\ UNCHANGED <<writeVars, frames>>

\* try_read(): a frame is split off once all of it is there, and nothing is touched before.
TryRead ==
    /\ read # <<>> /\ Len(read) >= read[1]
    /\ frames' = frames \o <<read[1]>>
    /\ read' = SubSeq(read, read[1] + 1, Len(read))
    /\ UNCHANGED <<writeVars, inflow>>

SocketNext ==
    \/ \E n \in Sizes : WriteWith(n) \/ WriteFails(n) \/ PutSlice(n)
    \/ \E n \in Sizes, tokio \in BOOLEAN : ReadFrom(n, tokio)
    \/ \E k \in 1..MaxBytes : FlushSome(k)
    \/ \E k \in 1..Len(inflow) : Arrive(k)
    \/ Shrink \/ TryRead

SocketSpec == SocketInit /\ [][SocketNext]_socketVars

-----------------------------------------------------------------------------
(* Properties.                                                             *)

\* The peer gets every byte that was appended, once and in order, and no other byte,
\* through failed encodings, partial writes, dropped flushes and shrink_buffers().
StreamFaithful == out \o SubSeq(buf, bytes_flushed + 1, bytes_written) = logical

\* The assertions of sanity_check() hold after every step, so that none of them panics,
\* and the vector never holds more than its capacity.
SanityCheck ==
    /\ capacity # 0
    /\ bytes_written <= Len(buf) /\ bytes_flushed <= bytes_written
    /\ Len(buf) <= capacity

\* Frames are read whole and in order, however the bytes arrive.
FramesWhole == IsPrefix(frames, Frames)

\* Nothing is lost, doubled or torn between the buffers and the socket, whatever part of
\* a flush or of a read a dropped future has done.
TransportFaithful == StreamFaithful /\ SanityCheck /\ FramesWhole
=============================================================================
