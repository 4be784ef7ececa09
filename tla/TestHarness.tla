----------------------------- MODULE TestHarness -----------------------------
(***************************************************************************)
(* The #[sqlx::test] harness: sqlx-core/src/testing/mod.rs with the        *)
(* PostgreSQL and the SQLite TestSupport.  Several test processes and one  *)
(* cleanup_test_dbs() share a server.  The name of a test's database is a  *)
(* function of its path (db_name), so a path is also the name of a         *)
(* database here.  SQLite has no bookkeeping table: a database is a file   *)
(* that appears when it is opened.                                         *)
(*                                                                         *)
(* Assumed of the environment: one path is run by one process at a time.   *)
(***************************************************************************)
EXTENDS Naturals, FiniteSets

CONSTANTS
    Runners,     \* test processes
    Paths,       \* test paths
    MaxRuns,     \* bound: invocations of tests
    MaxCleanups  \* bound: calls of cleanup_test_dbs()

VARIABLES
    backend,     \* the TestSupport in use
    dbs,         \* path -> its database: who created it, which runs wrote to it
    bookkept,        \* _sqlx_test.databases
    runs,        \* runner -> the run_test() in progress
    lingering,        \* <<runner, path>>: connections a test left open behind it
    cleaner,     \* the cleanup_test_dbs() in progress
    begun,       \* number of invocations so far
    cleanups,    \* number of cleanup_test_dbs() so far
    raced,       \* paths whose row a cleanup_test_dbs() deleted under a running test;
                 \* with SQLite, paths whose directory it removed
    kept         \* paths whose last test failed after it was set up

harness_vars == <<backend, dbs, bookkept, runs, lingering, cleaner, begun, cleanups, raced, kept>>

NoDatabase == [by |-> 0, wrote |-> {}]
NoRun == [at |-> "idle", path |-> CHOOSE p \in Paths : TRUE, id |-> 0, open |-> FALSE]
Resting == [at |-> "idle", names |-> {}, dropped |-> {}]

HarnessInit ==
    /\ backend \in {"postgres", "sqlite"}
    /\ dbs = [p \in Paths |-> NoDatabase]
    /\ bookkept = {} /\ lingering = {} /\ raced = {} /\ kept = {}
    /\ runs = [r \in Runners |-> NoRun]
    /\ cleaner = Resting
    /\ begun = 0 /\ cleanups = 0

At(r, stage) == runs[r].at = stage
Goes(r, stage) == runs' = [runs EXCEPT ![r].at = stage]
Ends(r) == runs' = [runs EXCEPT ![r] = NoRun]
PathOf(r) == runs[r].path
Exists(p) == dbs[p] # NoDatabase

\* PostgreSQL refuses to drop a database somebody is connected to; a file can
\* always be removed.
InUse(p) ==
    /\ backend = "postgres"
    /\ \/ \E r \in Runners : runs[r].open /\ PathOf(r) = p
       \/ \E h \in lingering : h[2] = p

-----------------------------------------------------------------------------
(* run_test(): test_context(), setup_test_db(), the test, cleanup_test().  *)

\* do_cleanup() of an earlier run's database comes first.
StartTest(r, p) ==
    /\ At(r, "idle") /\ begun < MaxRuns
    /\ \A q \in Runners : ~At(q, "idle") => PathOf(q) # p
    /\ begun' = begun + 1
    /\ runs' = [runs EXCEPT ![r] = [at |-> "drop", path |-> p, id |-> begun + 1, open |-> FALSE]]
    /\ UNCHANGED <<backend, dbs, bookkept, lingering, cleaner, cleanups, raced, kept>>

\* Mutant: the database of an earlier run is left in place.
DropEffectKept(r) == IF At(r, "drop") THEN dbs ELSE [dbs EXCEPT ![PathOf(r)] = NoDatabase]

DropEffect(r) == [dbs EXCEPT ![PathOf(r)] = NoDatabase]

\* `drop database if exists`, or remove_file().
HarnessDrop(r) ==
    /\ At(r, "drop") \/ At(r, "cleanup")
    /\ IF InUse(PathOf(r))
       THEN Ends(r) /\ UNCHANGED <<dbs, kept, raced>>
       ELSE /\ dbs' = DropEffect(r)
            /\ kept' = kept \ {PathOf(r)} /\ raced' = raced \ {PathOf(r)}
            /\ IF backend = "sqlite"
               THEN runs' = [runs EXCEPT ![r] = IF At(r, "drop") THEN [@ EXCEPT !.at = "setup"] ELSE NoRun]
               ELSE Goes(r, IF At(r, "drop") THEN "delete" ELSE "cleanup_delete")
    /\ UNCHANGED <<backend, bookkept, lingering, cleaner, begun, cleanups>>

\* `delete from _sqlx_test.databases`.
HarnessDelete(r) ==
    /\ At(r, "delete") \/ At(r, "cleanup_delete")
    /\ bookkept' = bookkept \ {PathOf(r)}
    /\ IF At(r, "delete") THEN Goes(r, "insert") ELSE Ends(r)
    /\ UNCHANGED <<backend, dbs, lingering, cleaner, begun, cleanups, raced, kept>>

\* `insert into _sqlx_test.databases`, before the database exists.
HarnessInsert(r) ==
    /\ At(r, "insert")
    /\ bookkept' = bookkept \cup {PathOf(r)}
    /\ Goes(r, "create")
    /\ UNCHANGED <<backend, dbs, lingering, cleaner, begun, cleanups, raced, kept>>

\* `create database`.
HarnessCreate(r) ==
    /\ At(r, "create")
    /\ IF Exists(PathOf(r))
       THEN Ends(r) /\ UNCHANGED dbs
       ELSE Goes(r, "setup") /\ dbs' = [dbs EXCEPT ![PathOf(r)] = [by |-> runs[r].id, wrote |-> {}]]
    /\ UNCHANGED <<backend, bookkept, lingering, cleaner, begun, cleanups, raced, kept>>

\* connect() to the test database: PostgreSQL needs it to exist, SQLite
\* creates the file (create_if_missing) but not its directory.
Reachable(p) == IF backend = "sqlite" THEN p \notin raced ELSE Exists(p)
Opened(r) ==
    IF Exists(PathOf(r)) THEN dbs[PathOf(r)] ELSE [by |-> runs[r].id, wrote |-> {}]
WrittenBy(r) == [Opened(r) EXCEPT !.wrote = @ \cup {runs[r].id}]

\* setup_test_db(): migrations and fixtures on a connection that is closed
\* again; any failure panics and leaves the database behind.
Setup(r) ==
    /\ At(r, "setup")
    /\ \/ ~Reachable(PathOf(r)) /\ Ends(r) /\ UNCHANGED <<dbs, kept>>
       \/ /\ Reachable(PathOf(r))
          /\ dbs' = [dbs EXCEPT ![PathOf(r)] = WrittenBy(r)]
          /\ \/ Goes(r, "connect") /\ UNCHANGED kept
             \/ Ends(r) /\ kept' = kept \cup {PathOf(r)}
    /\ UNCHANGED <<backend, bookkept, lingering, cleaner, begun, cleanups, raced>>

\* The test's own pool connects, and connects again after its idle timeout.
TestConnect(r) ==
    /\ At(r, "connect") \/ (At(r, "body") /\ ~runs[r].open)
    /\ \/ ~Reachable(PathOf(r)) /\ Ends(r) /\ UNCHANGED dbs
       \/ /\ Reachable(PathOf(r))
          /\ dbs' = [dbs EXCEPT ![PathOf(r)] = WrittenBy(r)]
          /\ runs' = [runs EXCEPT ![r].at = "body", ![r].open = TRUE]
    /\ UNCHANGED <<backend, bookkept, lingering, cleaner, begun, cleanups, raced, kept>>

IdleTimeout(r) ==
    /\ At(r, "body") /\ runs[r].open
    /\ runs' = [runs EXCEPT ![r].open = FALSE]
    /\ UNCHANGED <<backend, dbs, bookkept, lingering, cleaner, begun, cleanups, raced, kept>>

\* The test returns or panics; pool.close() finishes or times out after ten
\* seconds.  cleanup_test() runs only when the result is_success().
FinishTest(r, success) ==
    /\ At(r, "body")
    /\ lingering' \in {lingering, lingering \cup {<<r, PathOf(r)>>}}
    /\ IF success
       THEN runs' = [runs EXCEPT ![r].at = "cleanup", ![r].open = FALSE] /\ UNCHANGED kept
       ELSE Ends(r) /\ kept' = IF Exists(PathOf(r)) THEN kept \cup {PathOf(r)} ELSE kept
    /\ UNCHANGED <<backend, dbs, bookkept, cleaner, begun, cleanups, raced>>

\* A connection a test held onto is closed at last.
Release(h) ==
    /\ h \in lingering /\ lingering' = lingering \ {h}
    /\ UNCHANGED <<backend, dbs, bookkept, runs, cleaner, begun, cleanups, raced, kept>>

\* The process of a runner is killed.
Killed(r) ==
    /\ ~At(r, "idle") /\ Ends(r)
    /\ lingering' = {h \in lingering : h[1] # r}
    /\ UNCHANGED <<backend, dbs, bookkept, cleaner, begun, cleanups, raced, kept>>

-----------------------------------------------------------------------------
(* cleanup_test_dbs(), from another process.                               *)

CleanupBegin ==
    /\ cleaner.at = "idle" /\ cleanups < MaxCleanups
    /\ cleanups' = cleanups + 1
    /\ IF backend = "sqlite"
       THEN /\ dbs' = [p \in Paths |-> NoDatabase]
            /\ kept' = {}
            /\ raced' = Paths
            /\ UNCHANGED cleaner
       ELSE /\ cleaner' = IF bookkept = {} THEN Resting ELSE [at |-> "drop", names |-> bookkept, dropped |-> {}]
            /\ UNCHANGED <<dbs, raced, kept>>
    /\ UNCHANGED <<backend, bookkept, runs, lingering, begun>>

\* One `drop database if exists` per name read; an error of the database is
\* taken to mean that it is in use.
CleanupDrop(p) ==
    /\ cleaner.at = "drop" /\ p \in cleaner.names
    /\ IF InUse(p)
       THEN cleaner' = [cleaner EXCEPT !.names = @ \ {p}] /\ UNCHANGED <<dbs, kept>>
       ELSE /\ cleaner' = [cleaner EXCEPT !.names = @ \ {p}, !.dropped = @ \cup {p}]
            /\ dbs' = [dbs EXCEPT ![p] = NoDatabase]
            /\ kept' = kept \ {p}
    /\ UNCHANGED <<backend, bookkept, runs, lingering, begun, cleanups, raced>>

\* The rows of the databases dropped, in one statement at the end.
CleanupDelete ==
    /\ cleaner.at = "drop" /\ cleaner.names = {}
    /\ bookkept' = bookkept \ cleaner.dropped
    /\ raced' = raced \cup {p \in cleaner.dropped :
                              Exists(p) \/ \E r \in Runners : At(r, "create") /\ PathOf(r) = p}
    /\ cleaner' = Resting
    /\ UNCHANGED <<backend, dbs, runs, lingering, begun, cleanups, kept>>

\* Any other error bubbles up, and the rows stay.
CleanupError ==
    /\ cleaner.at = "drop" /\ cleaner' = Resting
    /\ UNCHANGED <<backend, dbs, bookkept, runs, lingering, begun, cleanups, raced, kept>>

HarnessNext ==
    \/ \E r \in Runners :
        \/ \E p \in Paths : StartTest(r, p)
        \/ HarnessDrop(r) \/ HarnessDelete(r) \/ HarnessInsert(r) \/ HarnessCreate(r)
        \/ Setup(r) \/ TestConnect(r) \/ IdleTimeout(r) \/ Killed(r)
        \/ \E success \in BOOLEAN : FinishTest(r, success)
    \/ \E h \in lingering : Release(h)
    \/ CleanupBegin \/ CleanupDelete \/ CleanupError
    \/ \E p \in Paths : CleanupDrop(p)

HarnessSpec == HarnessInit /\ [][HarnessNext]_harness_vars

-----------------------------------------------------------------------------
\* While a test is connected, the database it works on holds what its own run
\* put there and nothing else: leftovers of killed, failed or cleaned-up runs
\* of the same path never reach it.
DatabaseFresh ==
    \A r \in Runners : runs[r].open =>
        dbs[PathOf(r)].by \in {0, runs[r].id} /\ dbs[PathOf(r)].wrote \subseteq {runs[r].id}

\* Wherever a process is killed, a database on the server has its row in
\* _sqlx_test.databases, so that cleanup_test_dbs() can find it; only a
\* cleanup_test_dbs() whose final delete meets a database created since its
\* drop can lose the row.
DatabaseBookkept ==
    backend = "postgres" => \A p \in Paths : Exists(p) => p \in bookkept \cup raced

\* The database of a failed test stays for inspection until the same test is
\* run again or cleanup_test_dbs() is called.
FailureKept ==
    \A p \in kept : (Exists(p) /\ dbs'[p] = NoDatabase) =>
        \/ cleaner.at = "drop" \/ cleanups' # cleanups
        \/ \E r \in Runners : At(r, "drop") /\ PathOf(r) = p
=============================================================================
