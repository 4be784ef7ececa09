------------------------------ MODULE CliMigrate ------------------------------
(***************************************************************************)
(* The commands of sqlx-cli around the migrations themselves: `migrate     *)
(* add`, which names the files of a new migration                          *)
(* (sqlx-cli/src/migrate.rs), and `database create`, `drop`, `setup` and   *)
(* `reset` (database.rs), whose first contact with the server is repeated  *)
(* while it refuses connections (lib.rs).  The loop of `migrate run` has a *)
(* module of its own, Migrator; here it applies the files in one step.     *)
(***************************************************************************)
EXTENDS Integers, FiniteSets, FiniteSetsExt, Sequences

CONSTANTS
    Habits,      \* the sets of flags a user of `migrate add` sticks to
    MaxAdds,     \* bound: migrations added
    MaxSeconds,  \* bound: seconds that pass
    MaxCommands, \* bound: database commands started
    MaxOutages   \* bound: times the server goes away

ASSUME CliAssumption ==
    /\ Habits \subseteq SUBSET {"sequential", "timestamp", "infer"}
    /\ MaxAdds \in Nat /\ MaxSeconds \in Nat /\ MaxCommands \in Nat /\ MaxOutages \in Nat

VARIABLES
    habit,     \* the flags the user gives
    files,     \* the directory: pairs of a version and a kind
    named,     \* the version of the newest `migrate add`, 0 before any
    clock,     \* the second that Utc::now() is in
    adds,
    halved,    \* versions whose `migrate add` failed between its two files
    server,    \* whether the server accepts connections
    exists,    \* the database exists
    rows_applied,   \* versions whose rows are in the database
    command,   \* the database command under way
    commands, outages

add_vars == <<habit, files, named, clock, adds, halved>>
database_vars == <<server, exists, rows_applied, command, commands, outages>>
cli_vars == <<add_vars, database_vars>>

-----------------------------------------------------------------------------
(* sqlx migrate add.                                                       *)

\* Timestamps are far above the numbers of a sequence.
FirstSecond == 100

VersionsOf(kinds) == {f[1] : f \in {g \in files : g[2] \in kinds}}
AllVersions == VersionsOf({"simple", "up", "down"})
UpVersions == VersionsOf({"simple", "up"})

\* MigrationType::infer(): the kind of the first file, else the flag.
InferKind(reversible) ==
    IF files = {} THEN reversible
    ELSE \E f \in files : f[1] = Min(AllVersions) /\ f[2] # "simple"

\* MigrationOrdering::infer() without a flag: the two newest up migrations.
Inferred ==
    LET last == Max(UpVersions)
        older == UpVersions \ {last}
    IN IF UpVersions # {} /\ (IF older # {} THEN last - Max(older) = 1 ELSE last \in {0, 1})
       THEN last + 1
       ELSE clock

Ordering(flag) ==
    CASE flag = "timestamp" -> clock
      [] flag = "sequential" -> IF AllVersions = {} THEN 1 ELSE Max(AllVersions) + 1
      [] flag = "infer" -> Inferred

\* add() and create_file(), each call of which may fail and leave what was
\* created before it; the user does not add twice in one second.
Add(reversible, flag) ==
    /\ adds < MaxAdds /\ command.at = "idle"
    /\ flag \in habit
    /\ named' = Ordering(flag)
    /\ \E created \in IF InferKind(reversible) THEN {{}, {"up"}, {"up", "down"}} ELSE {{}, {"simple"}} :
         /\ files' = files \cup {<<named', kind>> : kind \in created}
         /\ halved' = IF created = {"up"} THEN halved \cup {named'} ELSE halved
    /\ adds' = adds + 1
    /\ clock' = clock + 1
    /\ UNCHANGED <<habit, database_vars>>

\* The newest migration is given up: its files are deleted.
RemoveNewest ==
    /\ files # {} /\ command.at = "idle"
    /\ Max(AllVersions) \notin rows_applied
    /\ files' = {f \in files : f[1] # Max(AllVersions)}
    /\ UNCHANGED <<habit, named, clock, adds, halved, database_vars>>

Second ==
    /\ clock < FirstSecond + MaxSeconds
    /\ clock' = clock + 1
    /\ UNCHANGED <<habit, files, named, adds, halved, database_vars>>

-----------------------------------------------------------------------------
(* sqlx database create, drop, setup, reset.                               *)

Quiet == [name |-> "none", at |-> "idle", ok |-> FALSE]

\* do_run(): `drop` and `reset` ask first, unless -y was given.
Command(name, answer) ==
    /\ command.at = "idle" /\ commands < MaxCommands
    /\ commands' = commands + 1
    /\ command' = [name |-> name, ok |-> FALSE,
                   at |-> CASE name \in {"drop", "reset"} /\ answer -> "exists?"
                            [] name = "reset" /\ ~answer -> "there?"
                            [] name = "drop" /\ ~answer -> "end"
                            [] OTHER -> "there?"]
    /\ UNCHANGED <<add_vars, server, exists, rows_applied, outages>>

\* retry_connect_errors(): a refused connection is tried again until
\* connect_timeout; then the command ends with the error.
RetryConnect ==
    /\ command.at \in {"exists?", "there?", "connect"} /\ ~server
    /\ command' = Quiet
    /\ UNCHANGED <<add_vars, server, exists, rows_applied, commands, outages>>

\* The attempts after the check are not repeated.
NotRetried ==
    /\ command.at \in {"drop", "create", "run"} /\ ~server
    /\ command' = Quiet
    /\ UNCHANGED <<add_vars, server, exists, rows_applied, commands, outages>>

Proceed(at) == command' = [command EXCEPT !.at = at]

AfterDrop == IF command.name = "reset" THEN "there?" ELSE "end"

AfterCreate == IF command.name \in {"setup", "reset"} THEN "connect" ELSE "end"

\* drop(): only a database that exists is dropped.
DropExists == /\ command.at = "exists?" /\ server /\ Proceed(IF exists THEN "drop" ELSE AfterDrop)
              /\ UNCHANGED <<add_vars, server, exists, rows_applied, commands, outages>>
DropDatabase ==
    /\ command.at = "drop" /\ server
    /\ exists' = FALSE /\ rows_applied' = {}
    /\ Proceed(AfterDrop)
    /\ UNCHANGED <<add_vars, server, commands, outages>>

\* create(): only a database that does not exist is created.
CreateExists == /\ command.at = "there?" /\ server /\ Proceed(IF exists THEN AfterCreate ELSE "create")
                /\ UNCHANGED <<add_vars, server, exists, rows_applied, commands, outages>>
CreateDatabase ==
    /\ command.at = "create" /\ server
    /\ exists' = TRUE
    /\ Proceed(AfterCreate)
    /\ UNCHANGED <<add_vars, server, rows_applied, commands, outages>>

\* setup() ends with migrate::run().
ConnectToMigrate == /\ command.at = "connect" /\ server /\ exists /\ Proceed("run")
                    /\ UNCHANGED <<add_vars, server, exists, rows_applied, commands, outages>>

\* run(): a row without a file ends it (VersionMissing), else each missing
\* version is applied; a script that fails leaves the ones before it.
MigrateRun ==
    /\ command.at = "run" /\ server
    /\ IF ~(rows_applied \subseteq AllVersions) THEN command' = Quiet /\ UNCHANGED rows_applied
       ELSE \E upto \in {Max(AllVersions \cup {0})} \cup {v - 1 : v \in UpVersions \ rows_applied} :
              /\ rows_applied' = rows_applied \cup {v \in UpVersions : v <= upto}
              /\ IF upto = Max(AllVersions \cup {0}) THEN Proceed("end") ELSE command' = Quiet
    /\ UNCHANGED <<add_vars, server, exists, commands, outages>>

\* The command returns Ok.
CommandEnds ==
    /\ command.at = "end" /\ ~command.ok
    /\ command' = [command EXCEPT !.ok = TRUE]
    /\ UNCHANGED <<add_vars, server, exists, rows_applied, commands, outages>>

NextPrompt ==
    /\ command.ok
    /\ command' = Quiet
    /\ UNCHANGED <<add_vars, server, exists, rows_applied, commands, outages>>

\* Ctrl-C: run() drops the future of the command and exits.
Interrupt ==
    /\ command.at \notin {"idle", "end"}
    /\ command' = Quiet
    /\ UNCHANGED <<add_vars, server, exists, rows_applied, commands, outages>>

ServerAway ==
    /\ server /\ outages < MaxOutages
    /\ server' = FALSE /\ outages' = outages + 1
    /\ UNCHANGED <<add_vars, exists, rows_applied, command, commands>>
ServerBack ==
    /\ ~server /\ server' = TRUE
    /\ UNCHANGED <<add_vars, exists, rows_applied, command, commands, outages>>

-----------------------------------------------------------------------------

CliInit ==
    /\ habit \in Habits /\ files = {} /\ named = 0 /\ clock = FirstSecond /\ adds = 0 /\ halved = {}
    /\ server = TRUE /\ exists = FALSE /\ rows_applied = {} /\ command = Quiet /\ commands = 0 /\ outages = 0

CliNext ==
    \/ \E reversible \in BOOLEAN, flag \in habit : Add(reversible, flag)
    \/ RemoveNewest
    \/ Second
    \/ \E name \in {"create", "drop", "setup", "reset"}, answer \in BOOLEAN : Command(name, answer)
    \/ RetryConnect \/ NotRetried
    \/ DropExists \/ DropDatabase \/ CreateExists \/ CreateDatabase
    \/ ConnectToMigrate \/ MigrateRun
    \/ CommandEnds \/ NextPrompt \/ Interrupt
    \/ ServerAway \/ ServerBack

CliSpec == CliInit /\ [][CliNext]_cli_vars

-----------------------------------------------------------------------------
(* Properties.                                                             *)

\* A new migration runs after every migration of the directory: whatever its
\* version is inferred from, it is above all others (MigrationOrdering::infer).
NewestSortsLast ==
    adds' > adds => \A v \in AllVersions : named' > v

\* A directory is reversible as a whole or not at all, so that `migrate
\* revert`, which passes over simple migrations, undoes the newest one;
\* except a migration whose `add` failed between its up and its down file,
\* which nobody completes (MigrationType::infer, add).
AllOrNoneReversible ==
    \/ \A f \in files : f[2] = "simple"
    \/ \A f \in files : f[2] # "simple" /\ (f[1] \in halved \/ {<<f[1], "up">>, <<f[1], "down">>} \subseteq files)

\* `setup` and `reset` that return Ok leave a database with every migration of
\* the directory applied, in order, whatever was there before, however often
\* the server went away or an earlier command was interrupted (setup, reset).
SetUpMeansMigrated ==
    command.ok /\ command.name \in {"setup", "reset"} => exists /\ UpVersions \subseteq rows_applied

=============================================================================
