-------------------------------- MODULE Migrator -------------------------------
(***************************************************************************)
(* The schema migrator (src/migrate/maos_migrate.go) as src/app/migrate    *)
(* runs it: over a pool, so that every statement commits by itself.  The   *)
(* SQL of a version runs whole or not at all; it fails when it has been    *)
(* run already (up) or is not in force (down).  Version 1 is the table     *)
(* _migration itself.                                                      *)
(***************************************************************************)
EXTENDS Integers, FiniteSets

CONSTANTS
    Runs,       \* the processes that migrate, one call of Migrate after another
    Newest,     \* the migrations are 1 .. Newest (ValidateAndInit)
    Options,    \* the MigrateOpts that are passed
    MaxFaults   \* bound: statements that fail, processes that die

Versions  == 1 .. Newest
Direction == {"up", "down"}

\* nil: no options are passed, which stand for zero values.
Opts == [nil : BOOLEAN, DryRun : BOOLEAN, MaxSteps : Int, TargetVersion : Int]

ASSUME NewestAssumption == Newest \in Nat \ {0} /\ MaxFaults \in Nat
ASSUME OptionsAssumption ==
    /\ Options \subseteq Opts /\ Options # {}
    /\ \A o \in Options : o.nil => ~o.DryRun /\ o.MaxSteps = 0 /\ o.TargetVersion = 0

VARIABLES
    applied,    \* the versions in force in the schema
    rows,       \* the versions that _migration holds
    run,        \* the state of each run
    clean,      \* history: no run failed, and no two overlapped
    faults

vars == <<applied, rows, run, clean, faults>>

Run == [pc : {"idle", "apply"}, dir : Direction, opts : Options,
        todo : SUBSET Versions, did : SUBSET Versions, from : SUBSET Versions,
        result : {"none", "ok", "error", "panic"}]

Idle(result) == [pc |-> "idle", dir |-> "up", opts |-> CHOOSE o \in Options : TRUE,
                 todo |-> {}, did |-> {}, from |-> {}, result |-> result]

TypeOK ==
    /\ applied \subseteq Versions
    /\ rows \subseteq Versions /\ (1 \notin applied => rows = {})
    /\ run \in [Runs -> Run]
    /\ clean \in BOOLEAN /\ faults \in 0 .. MaxFaults

Init ==
    /\ applied = {} /\ rows = {}
    /\ run = [p \in Runs |-> Idle("none")]
    /\ clean = TRUE /\ faults = 0

-------------------------------------------------------------------------------
(* Which versions a run applies.  An operator Op_Variant states Op with one *)
(* mistake in it; nothing uses it.                                          *)

\* The known versions that are not recorded, or that are.
Candidates(dir) == IF dir = "up" THEN Versions \ rows ELSE Versions \cap rows

\* Up, they are sorted by version, down, the other way round.
Before(dir, v, w) == IF dir = "up" THEN v < w ELSE v > w
First(dir, S)     == CHOOSE v \in S : \A w \in S : w = v \/ Before(dir, v, w)

Smaller(i, j) == IF i < j THEN i ELSE j

\* 0 is no limit: but by default one step down.
Steps(dir, o) == IF o.MaxSteps # 0 THEN o.MaxSteps
                 ELSE IF dir = "down" /\ o.TargetVersion = 0 THEN 1 ELSE 0

Limited(dir, S, n) == CASE n < 0 -> {}
                        [] n = 0 -> S
                        [] n > 0 -> {v \in S : Cardinality({w \in S : Before(dir, w, v)}) < n}

\* Up to the target; down, the target itself stays.
UpTo_Inclusive(dir, S, t) == {v \in S : v = t \/ Before(dir, v, t)}
UpTo(dir, S, t)           == {v \in S : Before(dir, v, t) \/ (dir = "up" /\ v = t)}

Within(dir, o)  == Limited(dir, Candidates(dir), Steps(dir, o))
Invalid(dir, o) == o.TargetVersion > 0 /\ o.TargetVersion \notin Within(dir, o)
Targets(dir, o) == IF o.TargetVersion > 0 THEN UpTo(dir, Within(dir, o), o.TargetVersion)
                                          ELSE Within(dir, o)

-------------------------------------------------------------------------------
Active == {p \in Runs : run[p].pc = "apply"}

Ends(p, result) == run' = [run EXCEPT ![p] = Idle(result)]

\* existingMigrations, then what applyMigrations does before its loop.
Begin(p, dir, o) ==
    /\ run[p].pc = "idle"
    /\ IF Invalid(dir, o) THEN Ends(p, "error")
       ELSE run' = [run EXCEPT ![p] =
               [pc |-> "apply", dir |-> dir, opts |-> o, todo |-> Targets(dir, o), did |-> {},
                from |-> applied, result |-> "none"]]
    /\ clean' = (clean /\ Active = {})
    /\ UNCHANGED <<applied, rows, faults>>

Version(p) == First(run[p].dir, run[p].todo)
Did(p)     == [run EXCEPT ![p].todo = @ \ {Version(p)}, ![p].did = @ \cup {Version(p)}]
Applying(p) == run[p].pc = "apply" /\ run[p].todo # {}

ApplyDry(p) ==
    /\ Applying(p) /\ run[p].opts.DryRun
    /\ run' = Did(p)
    /\ UNCHANGED <<applied, rows, clean, faults>>

ApplyUp(p) ==
    /\ Applying(p) /\ ~run[p].opts.DryRun /\ run[p].dir = "up"
    /\ Version(p) \notin applied
    /\ applied' = applied \cup {Version(p)}
    /\ run' = Did(p)
    /\ UNCHANGED <<rows, clean, faults>>

ApplyDown(p) ==                     \* version 1 takes the rows along
    /\ Applying(p) /\ ~run[p].opts.DryRun /\ run[p].dir = "down"
    /\ Version(p) \in applied
    /\ applied' = applied \ {Version(p)}
    /\ rows' = IF Version(p) = 1 THEN {} ELSE rows
    /\ run' = Did(p)
    /\ UNCHANGED <<clean, faults>>

\* The SQL fails: what this run has applied before stays, and is not recorded.
ApplyFails(p) ==
    /\ Applying(p) /\ ~run[p].opts.DryRun
    /\ (run[p].dir = "up") <=> Version(p) \in applied
    /\ Ends(p, "error") /\ clean' = FALSE
    /\ UNCHANGED <<applied, rows, faults>>

Applied(p) == run[p].pc = "apply" /\ run[p].todo = {}
Done(p)    == run[p].did

DryRuns_Never(p) == FALSE
DryRuns(p)       == run[p].opts.DryRun

Skips(p) == DryRuns(p) \/ (run[p].dir = "down" /\ (Done(p) = {} \/ 1 \in Done(p)))

NothingToRecord(p) ==
    /\ Applied(p) /\ Skips(p)
    /\ Ends(p, "ok")
    /\ UNCHANGED <<applied, rows, clean, faults>>

\* opts.DryRun is read down as well when there are no options.
NilOpts(p) ==
    /\ Applied(p) /\ ~Skips(p) /\ run[p].dir = "down" /\ run[p].opts.nil
    /\ Ends(p, "panic") /\ clean' = FALSE
    /\ UNCHANGED <<applied, rows, faults>>

\* MigrationInsertMany: the version is unique, and the table must exist.
Refused_Duplicates(p) == Done(p) \cap rows # {}
Refused(p)            == 1 \notin applied \/ Done(p) \cap rows # {}

InsertRows(p) ==
    /\ Applied(p) /\ ~Skips(p) /\ run[p].dir = "up"
    /\ IF Refused(p) THEN Ends(p, "error") /\ clean' = FALSE /\ UNCHANGED rows
       ELSE rows' = rows \cup Done(p) /\ Ends(p, "ok") /\ UNCHANGED clean
    /\ UNCHANGED <<applied, faults>>

DeleteRows(p) ==                    \* MigrationDeleteByVersionMany
    /\ Applied(p) /\ ~Skips(p) /\ run[p].dir = "down"
    /\ ~run[p].opts.nil
    /\ IF 1 \in applied THEN rows' = rows \ Done(p) /\ Ends(p, "ok") /\ UNCHANGED clean
                        ELSE Ends(p, "error") /\ clean' = FALSE /\ UNCHANGED rows
    /\ UNCHANGED <<applied, faults>>

Fails(p) ==                         \* a statement fails or the process dies
    /\ p \in Active
    /\ faults < MaxFaults /\ faults' = faults + 1
    /\ Ends(p, "error") /\ clean' = FALSE
    /\ UNCHANGED <<applied, rows>>

Next ==
    \E p \in Runs :
        \/ \E dir \in Direction, o \in Options : Begin(p, dir, o)
        \/ ApplyDry(p) \/ ApplyUp(p) \/ ApplyDown(p) \/ ApplyFails(p)
        \/ NothingToRecord(p) \/ NilOpts(p) \/ InsertRows(p) \/ DeleteRows(p)
        \/ Fails(p)

Spec == Init /\ [][Next]_vars

-------------------------------------------------------------------------------
(* Properties *)

\* When runs neither failed nor overlapped, _migration tells what is in force
\* whenever none is under way, and that is 1 .. k: through dry runs, options that
\* stop early, and the removal of the table itself (migrateUp, migrateDown).
InStep ==
    clean /\ Active = {} => rows = applied /\ applied = 1 .. Cardinality(applied)

\* The version a run that found version k should leave, in so many words of
\* MigrateOpts: steps forward or back, all of them, or to the target.
Expected(dir, o, k) ==
    LET limit == IF dir = "up" THEN Newest - k ELSE k
        steps == CASE o.MaxSteps < 0                     -> 0
                   [] o.MaxSteps > 0                     -> Smaller(o.MaxSteps, limit)
                   [] o.MaxSteps = 0 /\ o.TargetVersion > 0 ->
                          IF dir = "up" THEN o.TargetVersion - k ELSE k - o.TargetVersion
                   [] o.MaxSteps = 0 /\ o.TargetVersion < 0 -> limit
                   [] o.MaxSteps = 0 /\ o.TargetVersion = 0 ->
                          IF dir = "up" THEN limit ELSE Smaller(1, limit)
    IN  IF o.DryRun THEN k ELSE IF dir = "up" THEN k + steps ELSE k - steps

\* A run that returns without an error has taken the schema from where it found
\* it to where its options say (with a limit and a target: to the target).
OptionsAreMet ==
    [][\A p \in Runs :
          clean' /\ run[p].pc = "apply" /\ run'[p].pc = "idle" /\ run'[p].result = "ok" =>
              LET o == run[p].opts
              IN  Cardinality(applied) =
                      IF o.TargetVersion > 0 /\ o.MaxSteps # 0 /\ ~o.DryRun
                      THEN o.TargetVersion
                      ELSE Expected(run[p].dir, o, Cardinality(run[p].from))]_vars
===============================================================================
