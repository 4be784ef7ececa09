----------------------------- MODULE AsyncStream -----------------------------
(***************************************************************************)
(* TryAsyncStream of sqlx-core/src/ext/async_stream.rs.  The generating    *)
(* future is a script of steps: "io" waits for an event, "yield" hands a   *)
(* value over through a cell that the future shares with the stream, and   *)
(* the script ends with "ok" or "err".  The stream is polled by a consumer *)
(* that waits for a wakeup after Pending, and may be polled without one.   *)
(***************************************************************************)
EXTENDS Integers, Sequences, SequencesExt, FiniteSets

CONSTANTS MaxSteps   \* bound: steps of the generating future

VARIABLES
    script,     \* what the future has left to do
    value,      \* Yielder::value, 0 for None
    yielded,    \* the flag of the poll_fn in yield(): the value was handed over
    terminated, \* Fuse: the future has returned
    event,      \* the event the future waits for has happened
    waker,      \* the consumer has been registered to be woken
    woken,      \* the consumer will poll again
    passed,     \* number of values yielded
    taken,      \* what the consumer got: values, Failed, Finished
    replaced    \* yield() found a value that was not taken

Finished == -1
Failed == -2

streamVars == <<script, value, yielded, terminated, event, waker, woken, passed, taken, replaced>>

Scripts ==
    {s \in SeqOf({"io", "yield", "ok", "err"}, MaxSteps) :
       /\ s # <<>> /\ Last(s) \in {"ok", "err"}
       /\ \A i \in 1..Len(s) - 1 : s[i] \in {"io", "yield"}}

StreamInit ==
    /\ script \in Scripts
    /\ value = 0 /\ yielded = FALSE /\ terminated = FALSE
    /\ event = FALSE /\ waker = FALSE /\ woken = TRUE
    /\ passed = 0 /\ taken = <<>> /\ replaced = FALSE

ScriptStep == Head(script)

\* Polling the future runs it to its next suspension.  f: what is left of it after this
\* poll, the value in the cell, the flag of yield(), and what poll() returned.
Poll ==
    CASE ScriptStep = "yield" /\ ~yielded ->
           [script |-> script, value |-> passed + 1, yielded |-> TRUE, result |-> "pending"]
      [] ScriptStep = "yield" /\ yielded ->
           [script |-> Tail(script), value |-> value, yielded |-> FALSE, result |-> "more"]
      [] ScriptStep = "io" ->
           IF event
             THEN [script |-> Tail(script), value |-> value, yielded |-> FALSE, result |-> "more"]
             ELSE [script |-> script, value |-> value, yielded |-> FALSE, result |-> "pending"]
      [] OTHER ->
           [script |-> script, value |-> value, yielded |-> FALSE, result |-> ScriptStep]

\* The part of a poll that runs on without suspending: a resumed yield, an event that has
\* happened.
Resume ==
    /\ woken /\ ~terminated /\ Poll.result = "more"
    /\ script' = Poll.script /\ yielded' = Poll.yielded
    /\ event' = (event /\ ScriptStep # "io")
    /\ UNCHANGED <<value, terminated, waker, woken, passed, taken, replaced>>

\* Mutant: the consumer is not registered to be woken.
PollNextUnregistered ==
    /\ woken
    /\ IF terminated
         THEN /\ taken' = Append(taken, Finished)
              /\ woken' = FALSE
              /\ UNCHANGED <<value, yielded, terminated, waker, passed, replaced>>
         ELSE /\ Poll.result # "more"
              /\ yielded' = Poll.yielded
              /\ passed' = IF ScriptStep = "yield" THEN passed + 1 ELSE passed
              /\ replaced' = (replaced \/ (ScriptStep = "yield" /\ value # 0))
              /\ terminated' = (Poll.result \in {"ok", "err"})
              /\ IF Poll.result = "pending"
                   THEN /\ value' = 0
                        /\ taken' = IF Poll.value = 0 THEN taken ELSE Append(taken, Poll.value)
                        /\ woken' = (Poll.value # 0)
                        /\ UNCHANGED waker
                   ELSE /\ taken' = Append(taken, IF Poll.result = "ok" THEN Finished ELSE Failed)
                        /\ woken' = (Poll.result = "err")
                        /\ UNCHANGED <<value, waker>>
    /\ UNCHANGED <<script, event>>

\* poll_next(): what the poll of the future amounts to for the consumer.
PollNext ==
    /\ woken
    /\ IF terminated
         THEN /\ taken' = Append(taken, Finished)
              /\ woken' = FALSE
              /\ UNCHANGED <<value, yielded, terminated, waker, passed, replaced>>
         ELSE /\ Poll.result # "more"
              /\ yielded' = Poll.yielded
              /\ passed' = IF ScriptStep = "yield" THEN passed + 1 ELSE passed
              /\ replaced' = (replaced \/ (ScriptStep = "yield" /\ value # 0))
              /\ terminated' = (Poll.result \in {"ok", "err"})
              /\ IF Poll.result = "pending"
                   THEN /\ value' = 0
                        /\ taken' = IF Poll.value = 0 THEN taken ELSE Append(taken, Poll.value)
                        /\ woken' = (Poll.value # 0)
                        /\ waker' = (ScriptStep = "io")
                   ELSE /\ taken' = Append(taken, IF Poll.result = "ok" THEN Finished ELSE Failed)
                        /\ woken' = (Poll.result = "err")
                        /\ UNCHANGED <<value, waker>>
    /\ UNCHANGED <<script, event>>

\* The event happens and wakes whoever registered.
Event ==
    /\ ~terminated /\ ScriptStep = "io" /\ ~event
    /\ event' = TRUE
    /\ woken' = (woken \/ waker) /\ waker' = FALSE
    /\ UNCHANGED <<script, value, yielded, terminated, passed, taken, replaced>>

\* A combinator polls again without being woken.
SpuriousPoll ==
    /\ ~woken /\ ~terminated
    /\ woken' = TRUE
    /\ UNCHANGED <<script, value, yielded, terminated, event, waker, passed, taken, replaced>>

StreamNext == Resume \/ PollNext \/ Event \/ SpuriousPoll

StreamSpec == StreamInit /\ [][StreamNext]_streamVars

-----------------------------------------------------------------------------
(* Properties.                                                             *)

\* The debug assertion of yield(): no value is overwritten before it was taken.
NeverReplaced == ~replaced

Values == SelectSeq(taken, LAMBDA x : x > 0)

\* The consumer gets every value the future has handed over, once and in order.
YieldedInOrder == Values = [i \in 1..passed |-> i]

\* The stream ends: the consumer that polls when it is woken sees the end.
StreamEnds == <>(taken # <<>> /\ Last(taken) = Finished)
=============================================================================
