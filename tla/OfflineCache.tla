----------------------------- MODULE OfflineCache -----------------------------
(***************************************************************************)
(* The query macros and their cache of descriptions.  A macro describes    *)
(* its query on the database or looks it up in a `query-<hash>.json` file  *)
(* (sqlx-macros-core/src/query/mod.rs, data.rs); `cargo sqlx prepare`      *)
(* empties the directory of these files, makes cargo compile the packages  *)
(* that use macros again, and lets the macros fill it; `prepare --check`   *)
(* does so in a directory of its own and compares                          *)
(* (sqlx-cli/src/prepare.rs, metadata.rs).                                 *)
(*                                                                         *)
(* A description is the number of the schema it was read from.  Compilers  *)
(* of different packages run at the same time and may save the same file.  *)
(***************************************************************************)
EXTENDS Integers, FiniteSets, Relation

CONSTANTS
    Packages,      \* crates of the dependency graph
    Depends,       \* pairs <<a, b>>: a depends on b
    Members,       \* the packages of the workspace
    QueriesOf,     \* package |-> the queries of its macros
    Scopes,        \* the scopes of `prepare` a project may use
    MaxAlters,        \* bound: schema changes
    MaxJobs        \* bound: commands started

Macros == "sqlx-macros"
AllQueries == UNION {QueriesOf[p] : p \in Packages}

ASSUME OfflineAssumption ==
    /\ Depends \subseteq Packages \X Packages /\ Members \subseteq Packages
    /\ DOMAIN QueriesOf = Packages /\ Macros \in Packages
    /\ Scopes \subseteq {"workspace", "package"}
    /\ MaxAlters \in Nat /\ MaxJobs \in Nat

VARIABLES
    alters,       \* schema changes so far
    scope,     \* how the project runs `prepare`
    saved,     \* directory |-> query |-> the file
    fresh,     \* packages that cargo need not compile again
    job,       \* the command that runs
    rustc,     \* package |-> its compiler
    memory,    \* OFFLINE_DATA_CACHE of a long-lived macro server
    offline_got,      \* what the last offline expansion got after a check
    agreed,    \* a check has passed, and nothing has changed since
    jobs

offline_vars == <<alters, scope, saved, fresh, job, rustc, memory, offline_got, agreed, jobs>>

\* Package mode is used in the package "app".
Here == "app"
Directories == Packages \cup {"workspace", "check"}

\* A file: the process that created it, 0 for none, and what is written.
Absent == -2
Empty == -1
NoFile == [by |-> "none", data |-> Absent]
NoCompiler == [todo |-> {}, at |-> "idle", query |-> "none", got |-> Absent, failed |-> FALSE]
Broken == [NoCompiler EXCEPT !.failed = TRUE]
NoJob == [name |-> "none", at |-> "idle", all |-> FALSE, url |-> FALSE, since |-> 0, ok |-> FALSE]
NothingSeen == [package |-> "none", query |-> "none", data |-> Absent, remembered |-> FALSE]

-----------------------------------------------------------------------------
(* What is to be compiled again.                                           *)

\* all_dependents_of(): direct and transitive dependents.
AllDependents ==
    LET edge == [e \in Packages \X Packages |-> e \in Depends]
        closure == TransitiveClosure(edge, Packages)
    IN {d \in Packages : closure[d, Macros]}

\* Mutant: direct dependents only.
RecompileDirect(all) ==
    LET dependents == {d \in Packages : <<d, Macros>> \in Depends}
    IN IF scope = "package" THEN {Here}
       ELSE (dependents \cap Members) \cup IF all THEN dependents \ (Members \cup {"sqlx"}) ELSE {}

\* minimal_project_recompile_action(): members are touched, with --all the
\* others are cleaned; in package mode the current package is touched.
Recompile(all) ==
    LET dependents == AllDependents
    IN IF scope = "package" THEN {Here}
       ELSE (dependents \cap Members) \cup IF all THEN dependents \ (Members \cup {"sqlx"}) ELSE {}

\* prepare_dir() and the directory of a check.
PrepareDir == IF scope = "workspace" THEN "workspace" ELSE Here
JobDir == IF job.name = "check" THEN "check" ELSE PrepareDir

-----------------------------------------------------------------------------
(* cargo sqlx prepare [--check], cargo check.                              *)

\* url: whether DATABASE_URL is known, from the environment or an .env file.
StartJob(name, all, url) ==
    /\ job.at = "idle" /\ jobs < MaxJobs
    /\ all => scope = "workspace" /\ name # "build"
    /\ jobs' = jobs + 1
    /\ job' = [name |-> name, at |-> IF name = "build" THEN "compile" ELSE "empty", all |-> all, url |-> url, since |-> alters, ok |-> FALSE]
    /\ UNCHANGED <<alters, scope, saved, fresh, rustc, memory, offline_got, agreed>>

\* run_prepare_step() deletes the query files; the clean-up may fail, then
\* everything is cleaned.
EmptyDirectory ==
    /\ job.at = "empty"
    /\ saved' = [saved EXCEPT ![JobDir] = [q \in AllQueries |-> NoFile]]
    /\ \E failed \in BOOLEAN : fresh' = IF failed THEN {} ELSE fresh \ Recompile(job.all)
    /\ job' = [job EXCEPT !.at = "compile"]
    /\ agreed' = (agreed /\ job.name = "check")
    /\ UNCHANGED <<alters, scope, rustc, memory, offline_got, jobs>>

\* cargo compiles what is not fresh, in parallel.
Compile ==
    /\ job.at = "compile"
    /\ rustc' = [p \in Packages |-> [NoCompiler EXCEPT !.todo = IF p \in fresh THEN {} ELSE QueriesOf[p],
                                                       !.at = IF p \in fresh \/ QueriesOf[p] = {} THEN "idle" ELSE "expand"]]
    /\ job' = [job EXCEPT !.at = "wait"]
    /\ UNCHANGED <<alters, scope, saved, fresh, memory, offline_got, agreed, jobs>>

\* cargo check ends when its compilers have ended.
Compiled ==
    /\ job.at = "wait" /\ \A p \in Packages : rustc[p].at = "idle"
    /\ LET failed == {p \in Packages : rustc[p].failed}
       IN /\ fresh' = Packages \ failed
          /\ job' = IF failed # {} THEN NoJob
                    ELSE [job EXCEPT !.at = IF job.name = "check" THEN "compare" ELSE "end", !.ok = job.name # "check"]
    /\ rustc' = [p \in Packages |-> NoCompiler]
    /\ UNCHANGED <<alters, scope, saved, memory, offline_got, agreed, jobs>>

NamedFiles(dir) == {q \in AllQueries : saved[dir][q] # NoFile}

\* prepare_check(): a file that .sqlx lacks, then one that differs.
Agrees ==
    /\ NamedFiles("check") \subseteq NamedFiles(PrepareDir)
    /\ \A q \in NamedFiles("check") : saved[PrepareDir][q].data = saved["check"][q].data

CompareData ==
    /\ job.at = "compare"
    /\ job' = [job EXCEPT !.at = "end", !.ok = Agrees]
    /\ agreed' = (Agrees /\ job.url /\ job.since = alters)
    /\ offline_got' = NothingSeen
    /\ UNCHANGED <<alters, scope, saved, fresh, rustc, memory, jobs>>

EndJob ==
    /\ job.at = "end"
    /\ job' = NoJob
    /\ UNCHANGED <<alters, scope, saved, fresh, rustc, memory, offline_got, agreed, jobs>>

-----------------------------------------------------------------------------
(* One macro in one compiler.                                              *)

\* expand_input(): the first of SQLX_OFFLINE_DIR, the package's directory and
\* the workspace's that has the file.
LookedIn(p, q, own) ==
    {d \in own \cup {p, "workspace"} :
        /\ saved[d][q] # NoFile
        /\ d \in own \/ \A e \in own : saved[e][q] = NoFile
        /\ d = "workspace" /\ d \notin own => saved[p][q] = NoFile}

Saving == job.name # "build" /\ job.url

\* expand_with(): live, with a description of the schema as it is; or cached.
ExpandMacro(p, q) ==
    /\ rustc[p].at = "expand" /\ q \in rustc[p].todo
    /\ IF job.url
       THEN \E answer \in {Broken, IF Saving THEN [rustc[p] EXCEPT !.query = q, !.got = alters, !.todo = @ \ {q}, !.at = "remove"]
                                   ELSE [rustc[p] EXCEPT !.todo = @ \ {q}]} :
              rustc' = [rustc EXCEPT ![p] = answer]
       ELSE LET own == IF job.name = "build" THEN {} ELSE {JobDir}
                whole == \E d \in LookedIn(p, q, own) : saved[d][q].data # Empty
            IN rustc' = [rustc EXCEPT ![p] = IF whole THEN [@ EXCEPT !.todo = @ \ {q}] ELSE Broken]
    /\ UNCHANGED <<alters, scope, saved, fresh, job, memory, offline_got, agreed, jobs>>

\* save_in(): an old file is removed, unless that is denied, which is no
\* error (a compiler may hold the file open),
RemoveFile(p) ==
    /\ rustc[p].at = "remove"
    /\ \E denied \in {FALSE, saved[JobDir][rustc[p].query] # NoFile} :
         saved' = IF denied THEN saved ELSE [saved EXCEPT ![JobDir][rustc[p].query] = NoFile]
    /\ rustc' = [rustc EXCEPT ![p].at = "create"]
    /\ UNCHANGED <<alters, scope, fresh, job, memory, offline_got, agreed, jobs>>

\* a new one created, unless another compiler was faster,
Create(p) ==
    /\ rustc[p].at = "create"
    /\ IF saved[JobDir][rustc[p].query] # NoFile
       THEN rustc' = [rustc EXCEPT ![p] = [NoCompiler EXCEPT !.at = "expand", !.todo = rustc[p].todo]] /\ UNCHANGED saved
       ELSE /\ saved' = [saved EXCEPT ![JobDir][rustc[p].query] = [by |-> p, data |-> Empty]]
            /\ rustc' = [rustc EXCEPT ![p].at = "write"]
    /\ UNCHANGED <<alters, scope, fresh, job, memory, offline_got, agreed, jobs>>

\* and written; a file that was removed meanwhile is written unseen.
Write(p) ==
    /\ rustc[p].at = "write"
    /\ saved' = [saved EXCEPT ![JobDir][rustc[p].query] = IF @.by = p THEN [@ EXCEPT !.data = rustc[p].got] ELSE @]
    /\ rustc' = [rustc EXCEPT ![p] = [NoCompiler EXCEPT !.at = "expand", !.todo = rustc[p].todo]]
    /\ UNCHANGED <<alters, scope, fresh, job, memory, offline_got, agreed, jobs>>

\* A write may fail, and the macro with it: the file stays behind empty.
\* (Where the others fail the macro has expanded to an error and left no file.)
SaveFails(p) ==
    /\ rustc[p].at = "write"
    /\ rustc' = [rustc EXCEPT ![p] = Broken]
    /\ UNCHANGED <<alters, scope, saved, fresh, job, memory, offline_got, agreed, jobs>>

Expanded(p) ==
    /\ rustc[p].at = "expand" /\ rustc[p].todo = {}
    /\ rustc' = [rustc EXCEPT ![p] = NoCompiler]
    /\ UNCHANGED <<alters, scope, saved, fresh, job, memory, offline_got, agreed, jobs>>

-----------------------------------------------------------------------------
(* A macro server with SQLX_OFFLINE=true, at any time.                     *)

Remembered(d, q) == \E m \in memory : m[1] = d /\ m[2] = q

\* from_data_file(): the cache of the process first, then the file; a file
\* that is not whole does not parse.
OfflineExpand(p, q) ==
    /\ p \in Members /\ q \in QueriesOf[p]
    /\ \E d \in LookedIn(p, q, {}) :
         IF Remembered(d, q)
         THEN \E m \in memory : /\ m[1] = d /\ m[2] = q
                                /\ offline_got' = IF agreed THEN [package |-> p, query |-> q, data |-> m[3], remembered |-> TRUE] ELSE offline_got
                                /\ UNCHANGED memory
         ELSE /\ saved[d][q].data # Empty
              /\ memory' = memory \cup {<<d, q, saved[d][q].data>>}
              /\ offline_got' = IF agreed THEN [package |-> p, query |-> q, data |-> saved[d][q].data, remembered |-> FALSE] ELSE offline_got
    /\ UNCHANGED <<alters, scope, saved, fresh, job, rustc, agreed, jobs>>

ServerRestarts ==
    /\ memory # {}
    /\ memory' = {} /\ offline_got' = NothingSeen
    /\ UNCHANGED <<alters, scope, saved, fresh, job, rustc, agreed, jobs>>

\* The database is migrated.
AlterSchema ==
    /\ alters < MaxAlters
    /\ alters' = alters + 1 /\ agreed' = FALSE /\ offline_got' = NothingSeen
    /\ UNCHANGED <<scope, saved, fresh, job, rustc, memory, jobs>>

-----------------------------------------------------------------------------

OfflineInit ==
    /\ alters = 0 /\ scope \in Scopes
    /\ saved = [d \in Directories |-> [q \in AllQueries |-> NoFile]]
    /\ fresh \in {{}, Packages} /\ job = NoJob /\ rustc = [p \in Packages |-> NoCompiler]
    /\ memory = {} /\ offline_got = NothingSeen /\ agreed = FALSE /\ jobs = 0

OfflineNext ==
    \/ \E name \in {"build", "prepare", "check"}, all \in BOOLEAN, url \in BOOLEAN : StartJob(name, all, url)
    \/ EmptyDirectory \/ Compile \/ Compiled \/ CompareData \/ EndJob
    \/ \E p \in Packages :
        \/ \E q \in AllQueries : ExpandMacro(p, q) \/ OfflineExpand(p, q)
        \/ RemoveFile(p) \/ Create(p) \/ Write(p) \/ SaveFails(p) \/ Expanded(p)
    \/ ServerRestarts
    \/ AlterSchema

OfflineSpec == OfflineInit /\ [][OfflineNext]_offline_vars

-----------------------------------------------------------------------------
(* Properties.                                                             *)

\* The packages that a command answers for.
Answerable(all) ==
    IF scope = "package" THEN {Here}
    ELSE {p \in AllDependents : p \in Members \/ all}

\* A `prepare` with a database that returns Ok has saved, whole, the
\* description of every query of its packages, read while it ran: no file is
\* left torn by compilers saving it together, and no package is left out
\* because cargo takes it for fresh (run_prepare_step, save_in).
PreparedIsComplete ==
    job.at = "end" /\ job.name = "prepare" /\ job.url =>
        \A p \in Answerable(job.all) : \A q \in QueriesOf[p] :
            saved[PrepareDir][q].data \in job.since..alters

\* A `prepare --check` with a database that returns Ok vouches for every query
\* of its packages (prepare_check).
CheckedAgrees ==
    job.at = "end" /\ job.name = "check" /\ job.ok /\ job.url =>
        \A p \in Answerable(job.all) : \A q \in QueriesOf[p] :
            saved[PrepareDir][q].data \in job.since..alters

\* After a check has passed, a macro that reads a file offline gets what the
\* database would answer, unless the process remembers an older file
\* (expand_input, from_data_file).
OfflineIsLive ==
    agreed /\ offline_got.package \in Answerable(FALSE) /\ ~offline_got.remembered => offline_got.data = alters

=============================================================================
