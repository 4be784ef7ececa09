---------------------------- MODULE QueryBuilder ----------------------------
(***************************************************************************)
(* QueryBuilder and the Query it builds (sqlx-core/src/query_builder.rs,   *)
(* query.rs): the text and the arguments grow side by side, a Separated    *)
(* puts separators between what is pushed through it, build() takes the    *)
(* arguments away until reset(), and bind() keeps an encoding error for    *)
(* the execution.                                                          *)
(*                                                                         *)
(* The text is a sequence of tokens; a placeholder carries the number that *)
(* PostgreSQL's format_placeholder() writes.  An argument that cannot be   *)
(* encoded makes push_bind() panic, which the caller may catch.            *)
(***************************************************************************)
EXTENDS Naturals, Sequences, SequencesExt

CONSTANTS
    MaxTokens,  \* bound: tokens of a text when another call is made
    MaxResets,  \* bound: calls of reset()
    TupleLists  \* the lists of tuples that are pushed: sequences of sequences of items

VARIABLES
    builder,    \* the QueryBuilder: text, initial text, arguments; made by with_arguments(), torn by a panic
    handle,     \* the Separated that borrows it
    query,      \* the Query that build() returned
    sent,       \* how the built query was executed
    resets      \* calls of reset()

builder_vars == <<builder, handle, query, sent, resets>>

Token(t) == [t |-> t, n |-> 0]
Placeholder(n) == [t |-> "?", n |-> n]
Placeholders(text) == SelectSeq(text, LAMBDA token : token.t = "?")

NoHandle == [open |-> FALSE, push_separator |-> FALSE]
NoQuery == [open |-> FALSE, text |-> <<>>, arguments |-> 0, failed |-> FALSE, refused |-> FALSE, persistent |-> TRUE, mapped |-> FALSE]
NothingSent == [done |-> FALSE, error |-> FALSE, cached |-> FALSE, mapped |-> FALSE, asked |-> TRUE, refused |-> FALSE]

\* sanity_check(): the arguments are there.
Sane == ~builder.taken

-----------------------------------------------------------------------------
(* What each call does to a builder b, as a function of b.                 *)

\* push().
Pushed(b, t) == [b EXCEPT !.text = Append(@, Token(t))]

\* Mutant: the placeholder is written before the argument is added.
BoundEarly(b) == [b EXCEPT !.text = Append(@, Placeholder(b.arguments)), !.arguments = @ + 1]

\* push_bind(): add(), then format_placeholder() with the new count.
Bound(b) == [b EXCEPT !.arguments = @ + 1, !.text = Append(@, Placeholder(b.arguments + 1))]

\* Separated::push() and push_bind(): the separator goes before all but the
\* first; s is the builder with the state of the Separated.
SeparatedItem(s, item) ==
    LET b == IF s.push_separator THEN Pushed(s.b, ",") ELSE s.b
    IN [b |-> IF item = "bind" THEN Bound(b) ELSE Pushed(b, item), push_separator |-> TRUE]

\* push_unseparated(), push_bind_unseparated(): the state is left alone.
UnseparatedItem(s, item) == [s EXCEPT !.b = IF item = "bind" THEN Bound(@) ELSE Pushed(@, item)]

\* One tuple of push_values() and push_tuples(): its items go through a
\* Separated of their own, the parentheses through the outer one.
PushTuple(s, items) ==
    LET opened == SeparatedItem(s, "(")
        inner == FoldLeft(SeparatedItem, [b |-> opened.b, push_separator |-> FALSE], items)
    IN UnseparatedItem([opened EXCEPT !.b = inner.b], ")")

PushTuplesInto(b, tuples) == FoldLeft(PushTuple, [b |-> b, push_separator |-> FALSE], tuples)

-----------------------------------------------------------------------------
(* Calls.                                                                  *)

\* new(), or with_arguments() with a text that has a placeholder already.
BuilderInit ==
    /\ \E given \in BOOLEAN :
          LET init == IF given THEN <<Token("sql"), Placeholder(1)>> ELSE <<Token("sql")>>
          IN builder = [text |-> init, init |-> init, arguments |-> IF given THEN 1 ELSE 0, taken |-> FALSE, given |-> given, torn |-> FALSE]
    /\ handle = NoHandle
    /\ query = NoQuery
    /\ sent = NothingSent
    /\ resets = 0

\* The builder is free: no Separated and no Query borrow it.
Free == ~handle.open /\ ~query.open

Push ==
    /\ Free /\ Sane
    /\ builder' = Pushed(builder, "sql")
    /\ UNCHANGED <<handle, query, sent, resets>>

\* A value that cannot be encoded: add() restores the arguments, the panic
\* comes before the placeholder.
PushBind(encodes) ==
    /\ Free /\ Sane
    /\ builder' = IF encodes THEN Bound(builder) ELSE builder
    /\ UNCHANGED <<handle, query, sent, resets>>

PushValues(tuples) ==
    /\ Free /\ Sane
    /\ tuples # <<>>
    /\ builder' = PushTuplesInto(Pushed(builder, "VALUES"), tuples).b
    /\ UNCHANGED <<handle, query, sent, resets>>

PushTuples(tuples) ==
    /\ Free /\ Sane
    /\ builder' = Pushed(PushTuplesInto(Pushed(builder, "(("), tuples).b, "))")
    /\ UNCHANGED <<handle, query, sent, resets>>

OpenSeparated ==
    /\ Free /\ Sane
    /\ builder' = Pushed(builder, "IN")
    /\ handle' = [open |-> TRUE, push_separator |-> FALSE]
    /\ UNCHANGED <<query, sent, resets>>

ThroughSeparated(item) ==
    /\ handle.open
    /\ LET s == SeparatedItem([b |-> builder, push_separator |-> handle.push_separator], item)
       IN builder' = s.b /\ handle' = [handle EXCEPT !.push_separator = s.push_separator]
    /\ UNCHANGED <<query, sent, resets>>

\* push_bind() of a Separated panics after it pushed the separator.
SeparatedBindPanics ==
    /\ handle.open /\ handle.push_separator
    /\ builder' = [Pushed(builder, ",") EXCEPT !.torn = TRUE]
    /\ UNCHANGED <<handle, query, sent, resets>>

\* A suffix of the last item.
ThroughUnseparated ==
    /\ handle.open /\ handle.push_separator
    /\ builder' = UnseparatedItem([b |-> builder, push_separator |-> handle.push_separator], "cast").b
    /\ UNCHANGED <<handle, query, sent, resets>>

DropSeparated ==
    /\ handle.open
    /\ builder' = Pushed(builder, "sql")
    /\ handle' = NoHandle
    /\ UNCHANGED <<query, sent, resets>>

\* build(), build_query_as(), build_query_scalar(): the arguments move on.
Build ==
    /\ Free /\ Sane
    /\ builder' = [builder EXCEPT !.taken = TRUE, !.arguments = 0]
    /\ query' = [NoQuery EXCEPT !.open = TRUE, !.text = builder.text, !.arguments = builder.arguments]
    /\ sent' = NothingSent
    /\ UNCHANGED <<handle, resets>>

\* Query::bind(): after an error nothing more is added.
Bind(q, encodes) ==
    IF q.failed THEN q
    ELSE IF encodes THEN [q EXCEPT !.arguments = @ + 1] ELSE [q EXCEPT !.failed = TRUE, !.arguments = 0]

\* Calls on the Query: bind(), persistent(), map().  refused remembers that a
\* value could not be encoded.
OnQuery ==
    /\ query.open
    /\ \/ /\ ~query.mapped
          /\ query.arguments <= Len(Placeholders(query.text))
          /\ \E encodes \in BOOLEAN : query' = [Bind(query, encodes) EXCEPT !.refused = @ \/ ~encodes]
       \/ ~query.mapped /\ query' = [query EXCEPT !.persistent = FALSE]
       \/ query' = [query EXCEPT !.mapped = TRUE]
    /\ UNCHANGED <<builder, handle, sent, resets>>

\* take_arguments(): the error of bind(), if there was one, and no arguments.
TakeArguments(q) == q.failed

\* persistent(), which the executors ask after take_arguments(): Map's looks
\* at the arguments, which are gone by then.
Persistent(q, direct) == ~direct /\ q.persistent

\* Executor::fetch_many(query) and the like: the Query is handed over itself,
\* or as a Map (direct), or by Map's own methods, which hand over its inner Query.
Execute(direct) ==
    /\ query.open
    /\ direct => query.mapped
    /\ sent' = [done |-> TRUE, error |-> TakeArguments(query),
                cached |-> Persistent(query, direct),
                mapped |-> direct, asked |-> query.persistent, refused |-> query.refused]
    /\ query' = NoQuery
    /\ UNCHANGED <<builder, handle, resets>>

\* reset(): the text is truncated to init_len, the arguments are empty.
Resetted(b) == [b EXCEPT !.text = b.init, !.taken = FALSE, !.torn = FALSE, !.arguments = 0]

Reset ==
    /\ Free
    /\ resets < MaxResets
    /\ builder' = Resetted(builder)
    /\ resets' = resets + 1
    /\ sent' = NothingSent
    /\ UNCHANGED <<handle, query>>

BuilderNext ==
    \/ /\ Len(builder.text) <= MaxTokens
       /\ \/ Push
          \/ \E encodes \in BOOLEAN : PushBind(encodes)
          \/ \E tuples \in TupleLists : PushValues(tuples) \/ PushTuples(tuples)
          \/ OpenSeparated
          \/ \E item \in {"bind", "item"} : ThroughSeparated(item)
          \/ ThroughUnseparated
          \/ SeparatedBindPanics
    \/ DropSeparated
    \/ Build
    \/ OnQuery
    \/ \E direct \in BOOLEAN : Execute(direct)
    \/ Reset

BuilderSpec == BuilderInit /\ [][BuilderNext]_builder_vars

-----------------------------------------------------------------------------
(* Properties.                                                             *)

\* The placeholders of the text are numbered 1, 2, ... and the builder holds
\* an argument for each, through nested Separated, panics of push_bind() and
\* resets; a builder made by with_arguments() until its first reset.
PlaceholdersAgree ==
    LET p == Placeholders(builder.text) IN
    Sane /\ ~(builder.given /\ resets > 0) => Len(p) = builder.arguments /\ \A i \in 1..Len(p) : p[i].n = i

\* Items of tuples and of a Separated have one separator between them, and
\* none before the first or after the last; a push_bind() that panicked
\* through a Separated may leave one behind.
SeparatorsBetween ==
    ~builder.torn => \A i \in 2..Len(builder.text) :
        LET before == builder.text[i - 1].t here == builder.text[i].t IN
        /\ here = "item" => before \in {"IN", "(", ","}
        /\ here = "(" => before \in {"VALUES", "((", ","}
        /\ here = "," => before \in {"?", "item", "cast", ")"}
        /\ before = "," => here \in {"?", "item", "("}

\* A query one of whose bind() calls failed is never sent, whatever is bound
\* after it.
BindErrorSticks == sent.done /\ sent.refused => sent.error

\* persistent(false), and only that, keeps a statement out of the cache, for a
\* query that is executed by its own methods; a Map handed to an executor is
\* the exception.
PersistentKept == sent.done /\ ~sent.mapped => sent.cached = sent.asked

=============================================================================
