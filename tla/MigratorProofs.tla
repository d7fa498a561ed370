----------------------------- MODULE MigratorProofs ----------------------------
(***************************************************************************)
(* Proofs about Migrator for every number of processes and of migrations,  *)
(* every set of options and every bound on the faults.                     *)
(***************************************************************************)
EXTENDS Migrator, FiniteSetTheorems, WellFoundedInduction, TLAPS

-------------------------------------------------------------------------------
(* The inductive invariant *)

Levels == 0 .. Newest       \* how many of the migrations are in force

\* The level that a run should leave, which found level k (MigrateOpts).
Goal(dir, o, k) ==
    IF o.TargetVersion > 0 /\ o.MaxSteps # 0 /\ ~o.DryRun THEN o.TargetVersion
    ELSE Expected(dir, o, k)

\* A run of state r, that found level k and has come to level i: what is in force and what is
\* recorded, what it has done and what it still has to do.
Rises(r, a, m, k, i) ==
    /\ Goal(r.dir, r.opts, k) \in Levels /\ k <= i /\ i <= Goal(r.dir, r.opts, k)
    /\ a = 1 .. i /\ m = 1 .. k
    /\ r.did = (k + 1) .. i /\ r.todo = (i + 1) .. Goal(r.dir, r.opts, k)
Sinks(r, a, m, k, i) ==
    /\ Goal(r.dir, r.opts, k) \in Levels /\ Goal(r.dir, r.opts, k) <= i /\ i <= k
    /\ a = 1 .. i /\ m = (IF i = 0 THEN {} ELSE 1 .. k)
    /\ r.did = (i + 1) .. k /\ r.todo = (Goal(r.dir, r.opts, k) + 1) .. i
Stands(r, a, m, k, i) ==
    i = k /\ a = 1 .. k /\ m = 1 .. k

Between(r, a, m, k, i) ==
    /\ r.from = 1 .. k
    /\ r.opts.DryRun => Stands(r, a, m, k, i)
    /\ ~r.opts.DryRun /\ r.dir = "up" => Rises(r, a, m, k, i)
    /\ ~r.opts.DryRun /\ r.dir = "down" => Sinks(r, a, m, k, i)

\* While no run has failed or overlapped another, one at most is under way, and what it has
\* done lies between the level it found and the one it should leave.
OrderInv ==
    clean => /\ \A p, q \in Active : p = q
             /\ Active = {} => \E k \in Levels : applied = 1 .. k /\ rows = 1 .. k
             /\ \A p \in Active : \E k, i \in Levels : Between(run[p], applied, rows, k, i)

IInv == TypeOK /\ OrderInv

-------------------------------------------------------------------------------
(* Which versions a run applies *)

\* The level is the number of the migrations in force (the rows of _migration).
LEMMA LevelIs ==
    ASSUME NEW k \in Nat
    PROVE  Cardinality(1 .. k) = k /\ IsFiniteSet(1 .. k)
<1>1. Cardinality(1 .. k) = (IF 1 > k THEN 0 ELSE k - 1 + 1) /\ IsFiniteSet(1 .. k)
  BY FS_Interval
<1> QED  BY <1>1

\* Nothing lies between a level and itself.
LEMMA NothingAbove ==
    ASSUME NEW k \in Nat
    PROVE  (k + 1) .. k = {}
OBVIOUS

\* The levels are numbers up to the newest version (ValidateAndInit).
LEMMA LevelsAreNumbers == Levels \subseteq Nat /\ Newest \in Nat /\ \A k \in Levels : k <= Newest
BY NewestAssumption DEF Levels

\* The options are numbers and booleans (MigrateOpts).
LEMMA OptionTypes ==
    ASSUME NEW o \in Options
    PROVE  /\ o.MaxSteps \in Int /\ o.TargetVersion \in Int
           /\ o.DryRun \in BOOLEAN /\ o.nil \in BOOLEAN
BY OptionsAssumption DEF Opts

\* Going up, the smallest version comes first (the loop over sortedTargetMigrations).
LEMMA FirstUp ==
    ASSUME NEW i \in Nat, NEW g \in Nat, i < g
    PROVE  First("up", (i + 1) .. g) = i + 1
<1> DEFINE S == (i + 1) .. g
<1>1. i + 1 \in S /\ \A w \in S : w = i + 1 \/ Before("up", i + 1, w)
  BY DEF Before
<1>2. ASSUME NEW v \in S, \A w \in S : w = v \/ Before("up", v, w) PROVE v = i + 1
  BY <1>1, <1>2 DEF Before
<1> HIDE DEF S
<1>3. First("up", S) = i + 1
  BY <1>1, <1>2 DEF First
<1> QED  BY <1>3 DEF S

\* Going down, the largest.
LEMMA FirstDown ==
    ASSUME NEW i \in Nat, NEW g \in Nat, g < i
    PROVE  First("down", (g + 1) .. i) = i
<1> DEFINE S == (g + 1) .. i
<1>1. i \in S /\ \A w \in S : w = i \/ Before("down", i, w)
  BY DEF Before
<1>2. ASSUME NEW v \in S, \A w \in S : w = v \/ Before("down", v, w) PROVE v = i
  BY <1>1, <1>2 DEF Before
<1> HIDE DEF S
<1>3. First("down", S) = i
  BY <1>1, <1>2 DEF First
<1> QED  BY <1>3 DEF S

\* Without a limit all of them are left, and none with one below zero (MaxSteps).
LEMMA NoLimit ==
    ASSUME NEW dir, NEW S
    PROVE  Limited(dir, S, 0) = S
BY DEF Limited

\* A limit below zero leaves none.
LEMMA NoneLeft ==
    ASSUME NEW dir, NEW S, NEW n \in Int, n < 0
    PROVE  Limited(dir, S, n) = {}
BY DEF Limited

\* A limit keeps the versions next to the level (MaxSteps), going up
LEMMA LimitUp ==
    ASSUME NEW k \in Levels, NEW n \in Nat, n > 0
    PROVE  Limited("up", (k + 1) .. Newest, n) = (k + 1) .. (k + Smaller(n, Newest - k))
<1> DEFINE S == (k + 1) .. Newest
<1>k. k \in Nat /\ Newest \in Nat /\ k <= Newest
  BY LevelsAreNumbers
<1>1. ASSUME NEW v \in S
      PROVE  Cardinality({w \in S : Before("up", w, v)}) < n
                 <=> v \in (k + 1) .. (k + Smaller(n, Newest - k))
  <2>1. {w \in S : Before("up", w, v)} = (k + 1) .. (v - 1)
    BY <1>k DEF Before
  <2>2. Cardinality((k + 1) .. (v - 1)) = IF k + 1 > v - 1 THEN 0 ELSE (v - 1) - (k + 1) + 1
    BY <1>k, FS_Interval
  <2>5. Cardinality((k + 1) .. (v - 1)) = v - 1 - k
    BY <1>k, <2>2
  <2>3. Cardinality({w \in S : Before("up", w, v)}) = v - 1 - k
    BY <2>1, <2>5
  <2>4. v - 1 - k < n <=> v \in (k + 1) .. (k + Smaller(n, Newest - k))
    <3>1. v \in Nat /\ k + 1 <= v /\ v <= Newest
      BY <1>k
    <3>2. CASE n < Newest - k
      BY <1>k, <3>1, <3>2 DEF Smaller
    <3>3. CASE ~(n < Newest - k)
      BY <1>k, <3>1, <3>3 DEF Smaller
    <3> QED  BY <3>2, <3>3
  <2> QED  BY <2>3, <2>4
<1>2. Limited("up", S, n) = {v \in S : Cardinality({w \in S : Before("up", w, v)}) < n}
  BY DEF Limited
<1>3. (k + 1) .. (k + Smaller(n, Newest - k)) \subseteq S
  BY <1>k DEF Smaller
<1> HIDE DEF S
<1>4. Limited("up", S, n) = (k + 1) .. (k + Smaller(n, Newest - k))
  BY <1>1, <1>2, <1>3
<1> QED  BY <1>4 DEF S

\* and going down.
LEMMA LimitDown ==
    ASSUME NEW k \in Levels, NEW n \in Nat, n > 0
    PROVE  Limited("down", 1 .. k, n) = (k - Smaller(n, k) + 1) .. k
<1> DEFINE S == 1 .. k
<1>k. k \in Nat
  BY LevelsAreNumbers
<1>1. ASSUME NEW v \in S
      PROVE  Cardinality({w \in S : Before("down", w, v)}) < n
                 <=> v \in (k - Smaller(n, k) + 1) .. k
  <2>1. {w \in S : Before("down", w, v)} = (v + 1) .. k
    BY <1>k DEF Before
  <2>2. Cardinality((v + 1) .. k) = IF v + 1 > k THEN 0 ELSE k - (v + 1) + 1
    BY <1>k, FS_Interval
  <2>5. Cardinality((v + 1) .. k) = k - v
    BY <1>k, <2>2
  <2>3. Cardinality({w \in S : Before("down", w, v)}) = k - v
    BY <2>1, <2>5
  <2>4. k - v < n <=> v \in (k - Smaller(n, k) + 1) .. k
    <3>1. v \in Nat /\ 1 <= v /\ v <= k
      BY <1>k
    <3>2. CASE n < k
      BY <1>k, <3>1, <3>2 DEF Smaller
    <3>3. CASE ~(n < k)
      BY <1>k, <3>1, <3>3 DEF Smaller
    <3> QED  BY <3>2, <3>3
  <2> QED  BY <2>3, <2>4
<1>2. Limited("down", S, n) = {v \in S : Cardinality({w \in S : Before("down", w, v)}) < n}
  BY DEF Limited
<1>3. (k - Smaller(n, k) + 1) .. k \subseteq S
  BY <1>k DEF Smaller
<1> HIDE DEF S
<1>4. Limited("down", S, n) = (k - Smaller(n, k) + 1) .. k
  BY <1>1, <1>2, <1>3
<1> QED  BY <1>4 DEF S

\* The level a run should leave that goes up, case by case (MigrateOpts),
LEMMA GoalUp ==
    ASSUME NEW k \in Levels, NEW o \in Options, ~o.DryRun,
           NEW n \in Int, n = o.MaxSteps, NEW t \in Int, t = o.TargetVersion
    PROVE  /\ t > 0 => Goal("up", o, k) = t
           /\ t <= 0 /\ n < 0 => Goal("up", o, k) = k
           /\ t <= 0 /\ n > 0 => Goal("up", o, k) = k + Smaller(n, Newest - k)
           /\ t < 0 /\ n = 0 => Goal("up", o, k) = Newest
           /\ t = 0 /\ n = 0 => Goal("up", o, k) = Newest
<1>k. k \in Nat /\ Newest \in Nat /\ k <= Newest
  BY LevelsAreNumbers
<1>1. t > 0 /\ n # 0 => Goal("up", o, k) = t
  BY DEF Goal
<1>2. t > 0 /\ n = 0 => Goal("up", o, k) = t
  BY <1>k DEF Goal, Expected
<1>3. t <= 0 /\ n < 0 => Goal("up", o, k) = k
  BY <1>k DEF Goal, Expected
<1>4. t <= 0 /\ n > 0 => Goal("up", o, k) = k + Smaller(n, Newest - k)
  BY <1>k DEF Goal, Expected
<1>5. t < 0 /\ n = 0 => Goal("up", o, k) = Newest
  BY <1>k DEF Goal, Expected
<1>6. t = 0 /\ n = 0 => Goal("up", o, k) = Newest
  BY <1>k DEF Goal, Expected
<1> QED  BY <1>1, <1>2, <1>3, <1>4, <1>5, <1>6

\* and down.
LEMMA GoalDown ==
    ASSUME NEW k \in Levels, NEW o \in Options, ~o.DryRun,
           NEW n \in Int, n = o.MaxSteps, NEW t \in Int, t = o.TargetVersion
    PROVE  /\ t > 0 => Goal("down", o, k) = t
           /\ t <= 0 /\ n < 0 => Goal("down", o, k) = k
           /\ t <= 0 /\ n > 0 => Goal("down", o, k) = k - Smaller(n, k)
           /\ t < 0 /\ n = 0 => Goal("down", o, k) = 0
           /\ t = 0 /\ n = 0 => Goal("down", o, k) = k - Smaller(1, k)
<1>k. k \in Nat /\ Newest \in Nat /\ k <= Newest
  BY LevelsAreNumbers
<1>1. t > 0 /\ n # 0 => Goal("down", o, k) = t
  BY DEF Goal
<1>2. t > 0 /\ n = 0 => Goal("down", o, k) = t
  BY <1>k DEF Goal, Expected
<1>3. t <= 0 /\ n < 0 => Goal("down", o, k) = k
  BY <1>k DEF Goal, Expected
<1>4. t <= 0 /\ n > 0 => Goal("down", o, k) = k - Smaller(n, k)
  BY <1>k DEF Goal, Expected
<1>5. t < 0 /\ n = 0 => Goal("down", o, k) = 0
  BY <1>k DEF Goal, Expected
<1>6. t = 0 /\ n = 0 => Goal("down", o, k) = k - Smaller(1, k)
  BY <1>k DEF Goal, Expected
<1> QED  BY <1>1, <1>2, <1>3, <1>4, <1>5, <1>6

\* The versions of a run that goes up lead from the level it finds to its goal (migrateUp,
\* applyMigrations before its loop).
LEMMA TargetsUp ==
    ASSUME NEW k \in Levels, rows = 1 .. k, NEW o \in Options, ~Invalid("up", o), ~o.DryRun
    PROVE  /\ Goal("up", o, k) \in Levels /\ k <= Goal("up", o, k)
           /\ Targets("up", o) = (k + 1) .. Goal("up", o, k)
<1>k. k \in Nat /\ Newest \in Nat /\ k <= Newest
  BY LevelsAreNumbers
<1>n. PICK n : n \in Int /\ n = o.MaxSteps
  BY OptionTypes
<1>t. PICK t : t \in Int /\ t = o.TargetVersion
  BY OptionTypes
<1>g. PICK g : g = Goal("up", o, k)
  OBVIOUS
<1>1. Candidates("up") = (k + 1) .. Newest
  BY <1>k DEF Candidates, Versions
<1>2. Steps("up", o) = n
  BY <1>n DEF Steps
<1>3. Within("up", o) = Limited("up", (k + 1) .. Newest, n)
  BY <1>1, <1>2 DEF Within
<1>c. /\ t > 0 => g = t
      /\ t <= 0 /\ n < 0 => g = k
      /\ t <= 0 /\ n > 0 => g = k + Smaller(n, Newest - k)
      /\ t < 0 /\ n = 0 => g = Newest
      /\ t = 0 /\ n = 0 => g = Newest
  BY <1>n, <1>t, <1>g, GoalUp
<1>4. PICK top \in Nat : /\ Within("up", o) = (k + 1) .. top
                         /\ k <= top /\ top <= Newest /\ (t <= 0 => g = top)
  <2>1. CASE n < 0
    <3>1. Within("up", o) = (k + 1) .. k
      <4>1. Within("up", o) = {}
        BY <1>n, <1>t, <1>3, <2>1, NoneLeft
      <4> QED  BY <1>k, <4>1, NothingAbove
    <3>2. k \in Nat /\ k <= k /\ k <= Newest /\ (t <= 0 => g = k)
      BY <1>k, <1>c, <2>1
    <3> QED  BY <3>1, <3>2
  <2>2. CASE n = 0
    <3>1. Within("up", o) = (k + 1) .. Newest
      BY <1>3, <2>2, NoLimit
    <3>2. Newest \in Nat /\ k <= Newest /\ Newest <= Newest /\ (t <= 0 => g = Newest)
      BY <1>n, <1>t, <1>k, <1>c, <2>2
    <3> QED  BY <3>1, <3>2
  <2>3. CASE n > 0
    <3>1. Within("up", o) = (k + 1) .. (k + Smaller(n, Newest - k))
      <4>1. n \in Nat
        BY <1>n, <1>t, <2>3
      <4> QED  BY <1>3, <2>3, <4>1, LimitUp
    <3>2. k + Smaller(n, Newest - k) \in Nat /\ k <= k + Smaller(n, Newest - k)
          /\ k + Smaller(n, Newest - k) <= Newest
      BY <1>n, <1>t, <1>k, <2>3 DEF Smaller
    <3>3. t <= 0 => g = k + Smaller(n, Newest - k)
      BY <1>c, <2>3
    <3> QED  BY <3>1, <3>2, <3>3
  <2> QED  BY <1>n, <1>t, <2>1, <2>2, <2>3
<1>5. CASE t > 0
  <2>1. t \in (k + 1) .. top
    BY <1>4, <1>5, <1>t DEF Invalid
  <2>2. Targets("up", o) = UpTo("up", (k + 1) .. top, t)
    BY <1>4, <1>5, <1>t DEF Targets
  <2>3. UpTo("up", (k + 1) .. top, t) = (k + 1) .. t
    BY <1>k, <1>4, <2>1 DEF UpTo, Before
  <2>4. t \in Levels /\ k <= t
    BY <1>k, <1>4, <2>1 DEF Levels
  <2> QED  BY <1>5, <1>c, <1>g, <2>2, <2>3, <2>4
<1>6. CASE t <= 0
  <2>1. Targets("up", o) = (k + 1) .. top
    BY <1>n, <1>t, <1>4, <1>6 DEF Targets
  <2>2. top \in Levels
    BY <1>k, <1>4 DEF Levels
  <2> QED  BY <1>4, <1>6, <1>g, <2>1, <2>2
<1> QED  BY <1>n, <1>t, <1>5, <1>6

\* Those of a run that goes down as well (migrateDown).
LEMMA TargetsDown ==
    ASSUME NEW k \in Levels, rows = 1 .. k, NEW o \in Options, ~Invalid("down", o), ~o.DryRun
    PROVE  /\ Goal("down", o, k) \in Levels /\ Goal("down", o, k) <= k
           /\ Targets("down", o) = (Goal("down", o, k) + 1) .. k
<1>k. k \in Nat /\ Newest \in Nat /\ k <= Newest
  BY LevelsAreNumbers
<1>n. PICK n : n \in Int /\ n = o.MaxSteps
  BY OptionTypes
<1>t. PICK t : t \in Int /\ t = o.TargetVersion
  BY OptionTypes
<1>g. PICK g : g = Goal("down", o, k)
  OBVIOUS
<1>1. Candidates("down") = 1 .. k
  BY <1>k DEF Candidates, Versions
<1>2. Steps("down", o) = IF n # 0 THEN n ELSE IF t = 0 THEN 1 ELSE 0
  BY <1>n, <1>t DEF Steps
<1>3. Within("down", o) = Limited("down", 1 .. k, Steps("down", o))
  BY <1>1 DEF Within
<1>c. /\ t > 0 => g = t
      /\ t <= 0 /\ n < 0 => g = k
      /\ t <= 0 /\ n > 0 => g = k - Smaller(n, k)
      /\ t < 0 /\ n = 0 => g = 0
      /\ t = 0 /\ n = 0 => g = k - Smaller(1, k)
  BY <1>n, <1>t, <1>g, GoalDown
<1>d. \A m \in Nat : m > 0 => k - Smaller(m, k) \in Nat /\ k - Smaller(m, k) <= k
  BY <1>k DEF Smaller
<1>4. PICK low \in Nat : /\ Within("down", o) = (low + 1) .. k
                         /\ low <= k /\ (t <= 0 => g = low)
  <2>1. CASE n < 0
    <3>1. Limited("down", 1 .. k, n) = {} /\ Steps("down", o) = n
      BY <1>n, <1>t, <1>2, <2>1, NoneLeft
    <3>2. Within("down", o) = (k + 1) .. k
      <4>1. Within("down", o) = {}
        BY <1>3, <3>1
      <4> QED  BY <1>k, <4>1, NothingAbove
    <3>3. k \in Nat /\ k <= k /\ (t <= 0 => g = k)
      BY <1>k, <1>c, <2>1
    <3> QED  BY <3>2, <3>3
  <2>2. CASE n = 0 /\ t # 0
    <3>1. Steps("down", o) = 0
      BY <1>2, <2>2
    <3>2. Within("down", o) = (0 + 1) .. k
      <4>1. Within("down", o) = 1 .. k
        BY <1>3, <3>1, NoLimit
      <4> QED  BY <1>n, <1>t, <4>1
    <3>3. 0 \in Nat /\ 0 <= k /\ (t <= 0 => g = 0)
      BY <1>n, <1>t, <1>k, <1>c, <2>2
    <3> QED  BY <3>2, <3>3
  <2>3. CASE n = 0 /\ t = 0
    <3>1. Steps("down", o) = 1 /\ 1 \in Nat /\ 1 > 0
      BY <1>n, <1>t, <1>2, <2>3
    <3>2. Within("down", o) = (k - Smaller(1, k) + 1) .. k
      BY <1>3, <3>1, LimitDown
    <3>3. k - Smaller(1, k) \in Nat /\ k - Smaller(1, k) <= k
      BY <1>d, <3>1
    <3>4. t <= 0 => g = k - Smaller(1, k)
      BY <1>c, <2>3
    <3> QED  BY <3>2, <3>3, <3>4
  <2>4. CASE n > 0
    <3>1. Steps("down", o) = n /\ n \in Nat
      BY <1>n, <1>t, <1>2, <2>4
    <3>2. Within("down", o) = (k - Smaller(n, k) + 1) .. k
      BY <1>3, <2>4, <3>1, LimitDown
    <3>3. k - Smaller(n, k) \in Nat /\ k - Smaller(n, k) <= k
      BY <1>d, <2>4, <3>1
    <3>4. t <= 0 => g = k - Smaller(n, k)
      BY <1>c, <2>4
    <3> QED  BY <3>2, <3>3, <3>4
  <2> QED  BY <1>n, <1>t, <2>1, <2>2, <2>3, <2>4
<1>5. CASE t > 0
  <2>1. t \in (low + 1) .. k
    BY <1>4, <1>5, <1>t DEF Invalid
  <2>2. Targets("down", o) = UpTo("down", (low + 1) .. k, t)
    BY <1>4, <1>5, <1>t DEF Targets
  <2>3. UpTo("down", (low + 1) .. k, t) = (t + 1) .. k
    BY <1>k, <1>4, <2>1 DEF UpTo, Before
  <2>4. t \in Levels /\ t <= k
    BY <1>k, <1>4, <2>1 DEF Levels
  <2> QED  BY <1>5, <1>c, <1>g, <2>2, <2>3, <2>4
<1>6. CASE t <= 0
  <2>1. Targets("down", o) = (low + 1) .. k
    BY <1>n, <1>t, <1>4, <1>6 DEF Targets
  <2>2. low \in Levels
    BY <1>k, <1>4 DEF Levels
  <2> QED  BY <1>4, <1>6, <1>g, <2>1, <2>2
<1> QED  BY <1>n, <1>t, <1>5, <1>6

-------------------------------------------------------------------------------
(* Types *)

\* A run that is not under way (before Migrate, and after it).
LEMMA IdleTyped ==
    ASSUME NEW result \in {"none", "ok", "error", "panic"}
    PROVE  Idle(result) \in Run /\ Idle(result).pc = "idle" /\ Idle(result).result = result
<1>1. (CHOOSE o \in Options : TRUE) \in Options
  BY OptionsAssumption
<1> QED  BY <1>1 DEF Idle, Run, Direction

\* The fields of the state of a run.
LEMMA RunTypes ==
    ASSUME TypeOK, NEW p \in Runs
    PROVE  /\ run[p] \in Run /\ run[p].dir \in {"up", "down"} /\ run[p].opts \in Options
           /\ run[p].todo \subseteq Versions /\ run[p].did \subseteq Versions
           /\ run[p].pc \in {"idle", "apply"}
BY DEF TypeOK, Run, Direction

\* The run that ends is idle then, and the others go on (the return of Migrate).
LEMMA EndsRun ==
    ASSUME TypeOK, NEW p \in Runs, NEW result \in {"none", "ok", "error", "panic"},
           Ends(p, result)
    PROVE  /\ run' \in [Runs -> Run]
           /\ run'[p].pc = "idle" /\ run'[p].result = result
           /\ \A q \in Runs : q # p => run'[q] = run[q]
BY IdleTyped DEF TypeOK, Ends

\* A version that has been applied goes from what is to be done to what is done
\* (res.Versions).
LEMMA DidRun ==
    ASSUME TypeOK, NEW p \in Runs, run' = Did(p), Version(p) \in Versions
    PROVE  /\ run' \in [Runs -> Run]
           /\ run'[p].pc = run[p].pc /\ run'[p].dir = run[p].dir
           /\ run'[p].opts = run[p].opts /\ run'[p].from = run[p].from
           /\ run'[p].todo = run[p].todo \ {Version(p)}
           /\ run'[p].did = run[p].did \cup {Version(p)}
           /\ \A q \in Runs : q # p => run'[q] = run[q]
<1>1. PICK v \in Versions : v = Version(p)
  OBVIOUS
<1>2. run' = [run EXCEPT ![p].todo = @ \ {v}, ![p].did = @ \cup {v}]
  BY <1>1 DEF Did
<1>3. run \in [Runs -> Run] /\ run[p] \in Run
  BY DEF TypeOK
<1>4. run' = [run EXCEPT ![p] = [run[p] EXCEPT !.todo = @ \ {v}, !.did = @ \cup {v}]]
  BY <1>2, <1>3 DEF Run
<1>5. [run[p] EXCEPT !.todo = @ \ {v}, !.did = @ \cup {v}] \in Run
  BY <1>1, <1>3 DEF Run
<1>6. run'[p] = [run[p] EXCEPT !.todo = @ \ {v}, !.did = @ \cup {v}]
  BY <1>3, <1>4
<1>7. /\ run' \in [Runs -> Run]
      /\ \A q \in Runs : q # p => run'[q] = run[q]
  BY <1>3, <1>4, <1>5
<1>8. /\ run'[p].pc = run[p].pc /\ run'[p].dir = run[p].dir
      /\ run'[p].opts = run[p].opts /\ run'[p].from = run[p].from
      /\ run'[p].todo = run[p].todo \ {v}
      /\ run'[p].did = run[p].did \cup {v}
  BY <1>3, <1>6 DEF Run
<1> QED  BY <1>1, <1>7, <1>8

\* Some version of those to be done comes first (sortedTargetMigrations).
LEMMA FirstOfSome ==
    ASSUME NEW dir \in {"up", "down"}, NEW S \in SUBSET Versions, S # {}
    PROVE  First(dir, S) \in S
<1>v. Versions \subseteq Nat /\ IsFiniteSet(Versions)
  BY NewestAssumption, FS_Interval DEF Versions
<1>1. \E v \in S : \A w \in S : w = v \/ Before("up", v, w)
  <2> DEFINE R == {ss \in Nat \X Nat : ss[1] < ss[2]}
  <2>1. IsWellFoundedOn(R, Nat)
    BY NatLessThanWellFounded DEF OpToRel
  <2>2. ASSUME NEW x \in Nat, NEW y \in Nat, ~(<<y, x>> \in R) PROVE y = x \/ x < y
    BY <2>2
  <2> HIDE DEF R
  <2>3. PICK v \in S : \A w \in S : ~(<<w, v>> \in R)
    BY <1>v, <2>1, WFMin
  <2>4. ASSUME NEW w \in S PROVE w = v \/ Before("up", v, w)
    BY <1>v, <2>2, <2>3 DEF Before
  <2> QED  BY <2>4
<1>2. \E v \in S : \A w \in S : w = v \/ Before("down", v, w)
  <2> DEFINE R == {ss \in Nat \X Nat : ss[1] < ss[2]}
             T == {Newest - v : v \in S}
  <2>1. IsWellFoundedOn(R, Nat)
    BY NatLessThanWellFounded DEF OpToRel
  <2>2. ASSUME NEW x \in Nat, NEW y \in Nat, ~(<<y, x>> \in R) PROVE y = x \/ x < y
    BY <2>2
  <2>t. T \subseteq Nat /\ T # {}
    <3>1. T \subseteq Nat
      BY NewestAssumption DEF Versions
    <3>2. PICK v : v \in S
      OBVIOUS
    <3>3. Newest - v \in T
      BY <3>2
    <3> QED  BY <3>1, <3>3
  <2> HIDE DEF R
  <2>3. PICK x \in T : \A y \in T : ~(<<y, x>> \in R)
    <3> HIDE DEF T
    <3> QED  BY <2>1, <2>t, WFMin
  <2>4. PICK v \in S : x = Newest - v
    OBVIOUS
  <2>5. ASSUME NEW w \in S PROVE w = v \/ Before("down", v, w)
    <3>1. Newest - w \in T
      OBVIOUS
    <3>2. Newest - w \in Nat /\ x \in Nat
      BY <2>t, <3>1
    <3>3. Newest - w = x \/ x < Newest - w
      BY <2>2, <2>3, <3>1, <3>2
    <3>4. w \in Nat /\ v \in Nat /\ Newest \in Nat
      BY <1>v, NewestAssumption
    <3> QED  BY <2>4, <3>3, <3>4 DEF Before
  <2> QED  BY <2>5
<1>3. CASE dir = "up"
  BY <1>1, <1>3 DEF First
<1>4. CASE dir = "down"
  BY <1>2, <1>4 DEF First
<1> QED  BY <1>3, <1>4

\* What a run applies is a version (ValidateAndInit).
LEMMA VersionListed ==
    ASSUME TypeOK, NEW p \in Runs, Applying(p)
    PROVE  Version(p) \in run[p].todo /\ Version(p) \in Versions
<1>1. run[p].dir \in {"up", "down"} /\ run[p].todo \in SUBSET Versions /\ run[p].todo # {}
  BY RunTypes DEF Applying
<1> QED  BY <1>1, FirstOfSome DEF Version

\* The versions that are chosen are known ones.
LEMMA TargetsKnown ==
    ASSUME NEW dir \in Direction, NEW o \in Options, TypeOK
    PROVE  Targets(dir, o) \subseteq Versions
<1>1. Candidates(dir) \subseteq Versions
  BY DEF Candidates
<1>2. Steps(dir, o) \in Int
  BY OptionTypes DEF Steps
<1>3. Within(dir, o) \subseteq Versions
  <2> DEFINE C == Candidates(dir)
             n == Steps(dir, o)
  <2> HIDE DEF C, n
  <2>1. C \subseteq Versions /\ n \in Int
    BY <1>1, <1>2 DEF C, n
  <2>2. Limited(dir, C, n) \subseteq C
    BY <2>1 DEF Limited
  <2> QED  BY <2>1, <2>2 DEF Within, C, n
<1> QED  BY <1>3 DEF Targets, UpTo

\* Which step of a run ends it, and how.
LEMMA EndsHow ==
    ASSUME NEW p \in Runs,
           ApplyFails(p) \/ NothingToRecord(p) \/ NilOpts(p) \/ InsertRows(p) \/ DeleteRows(p)
           \/ Fails(p)
    PROVE  \E result \in {"none", "ok", "error", "panic"} : Ends(p, result)
BY DEF ApplyFails, NothingToRecord, NilOpts, InsertRows, DeleteRows, Fails

\* Every step keeps the types, and no rows without their table.
LEMMA TypeStep ==
    ASSUME TypeOK, [Next]_vars
    PROVE  TypeOK'
<1>t. /\ applied \subseteq Versions /\ rows \subseteq Versions
      /\ 1 \notin applied => rows = {}
      /\ run \in [Runs -> Run] /\ clean \in BOOLEAN /\ faults \in 0 .. MaxFaults
  BY DEF TypeOK
<1>1. ASSUME NEW p \in Runs, NEW dir \in Direction, NEW o \in Options, Begin(p, dir, o)
      PROVE  TypeOK'
  <2>1. run' \in [Runs -> Run]
    <3>1. CASE Invalid(dir, o)
      <4>1. Ends(p, "error")
        BY <1>1, <3>1 DEF Begin
      <4> QED  BY <4>1, EndsRun
    <3>2. CASE ~Invalid(dir, o)
      <4> DEFINE r == [pc |-> "apply", dir |-> dir, opts |-> o, todo |-> Targets(dir, o),
                       did |-> {}, from |-> applied, result |-> "none"]
      <4>1. r \in Run
        BY <1>t, TargetsKnown DEF Run
      <4>2. run' = [run EXCEPT ![p] = r]
        BY <1>1, <3>2 DEF Begin
      <4> HIDE DEF r
      <4> QED  BY <1>t, <4>1, <4>2
    <3> QED  BY <3>1, <3>2
  <2>2. applied' = applied /\ rows' = rows /\ faults' = faults
    BY <1>1 DEF Begin
  <2>3. clean' \in BOOLEAN
    BY <1>1, <1>t DEF Begin
  <2> QED  BY <1>t, <2>1, <2>2, <2>3 DEF TypeOK
<1>2. ASSUME NEW p \in Runs, ApplyDry(p) \/ ApplyUp(p) \/ ApplyDown(p) PROVE TypeOK'
  <2>1. Version(p) \in Versions /\ run' = Did(p)
    BY <1>2, VersionListed DEF ApplyDry, ApplyUp, ApplyDown
  <2>2. run' \in [Runs -> Run]
    BY <2>1, DidRun
  <2>3. /\ applied' \subseteq Versions /\ rows' \subseteq Versions
        /\ 1 \notin applied' => rows' = {}
    BY <1>2, <1>t, <2>1 DEF ApplyDry, ApplyUp, ApplyDown
  <2>4. clean' = clean /\ faults' = faults
    BY <1>2 DEF ApplyDry, ApplyUp, ApplyDown
  <2> QED  BY <1>t, <2>2, <2>3, <2>4 DEF TypeOK
<1>3. ASSUME NEW p \in Runs,
             ApplyFails(p) \/ NothingToRecord(p) \/ NilOpts(p) \/ InsertRows(p)
             \/ DeleteRows(p) \/ Fails(p)
      PROVE  TypeOK'
  <2>1. run' \in [Runs -> Run]
    BY <1>3, EndsHow, EndsRun
  <2>2. applied' = applied
    BY <1>3 DEF ApplyFails, NothingToRecord, NilOpts, InsertRows, DeleteRows, Fails
  <2>3. run[p].did \subseteq Versions
    BY RunTypes
  <2>4. /\ rows' \subseteq Versions
        /\ 1 \notin applied => rows' = {}
    <3>1. CASE InsertRows(p)
      BY <1>t, <2>3, <3>1 DEF InsertRows, Refused, Done
    <3>2. CASE DeleteRows(p)
      BY <1>t, <3>2 DEF DeleteRows, Done
    <3> QED  BY <1>3, <1>t, <3>1, <3>2 DEF ApplyFails, NothingToRecord, NilOpts, Fails
  <2>5. clean' \in BOOLEAN
    BY <1>3, <1>t DEF ApplyFails, NothingToRecord, NilOpts, InsertRows, DeleteRows, Fails
  <2>6. faults' = faults \/ (faults < MaxFaults /\ faults' = faults + 1)
    BY <1>3 DEF ApplyFails, NothingToRecord, NilOpts, InsertRows, DeleteRows, Fails
  <2>7. faults' \in 0 .. MaxFaults
    BY <1>t, <2>6, NewestAssumption
  <2> QED  BY <2>1, <2>2, <1>t, <2>4, <2>5, <2>7 DEF TypeOK
<1>4. CASE UNCHANGED vars
  BY <1>4, <1>t DEF vars, TypeOK
<1> QED  BY <1>1, <1>2, <1>3, <1>4 DEF Next

-------------------------------------------------------------------------------
(* What is in force while a run goes on *)

\* One version more, and one less.
LEMMA OneUp ==
    ASSUME NEW i \in Nat, NEW k \in Nat, NEW g \in Nat, k <= i, i < g
    PROVE  /\ (1 .. i) \cup {i + 1} = 1 .. (i + 1)
           /\ ((k + 1) .. i) \cup {i + 1} = (k + 1) .. (i + 1)
           /\ ((i + 1) .. g) \ {i + 1} = ((i + 1) + 1) .. g
<1>1. (1 .. i) \cup {i + 1} = 1 .. (i + 1)
  OBVIOUS
<1>2. ((k + 1) .. i) \cup {i + 1} = (k + 1) .. (i + 1)
  OBVIOUS
<1>3. ((i + 1) .. g) \ {i + 1} = ((i + 1) + 1) .. g
  OBVIOUS
<1> QED  BY <1>1, <1>2, <1>3

\* Undoing the highest version takes it from one interval to the next.
LEMMA OneDown ==
    ASSUME NEW i \in Nat, NEW k \in Nat, NEW g \in Nat, g < i, i <= k
    PROVE  /\ (1 .. i) \ {i} = 1 .. (i - 1)
           /\ ((i + 1) .. k) \cup {i} = ((i - 1) + 1) .. k
           /\ ((g + 1) .. i) \ {i} = (g + 1) .. (i - 1)
<1>1. (1 .. i) \ {i} = 1 .. (i - 1)
  OBVIOUS
<1>2. ((i + 1) .. k) \cup {i} = ((i - 1) + 1) .. k
  OBVIOUS
<1>3. ((g + 1) .. i) \ {i} = (g + 1) .. (i - 1)
  OBVIOUS
<1> QED  BY <1>1, <1>2, <1>3

\* Once a run that does not only pretend has nothing left to do it is at its goal (the end of
\* applyMigrations).
LEMMA AtGoal ==
    ASSUME TypeOK, NEW p \in Runs, NEW k \in Levels, NEW i \in Levels,
           Between(run[p], applied, rows, k, i), run[p].todo = {}, ~run[p].opts.DryRun
    PROVE  i = Goal(run[p].dir, run[p].opts, k)
<1>1. k \in Nat /\ i \in Nat
  BY LevelsAreNumbers
<1>2. PICK g : g = Goal(run[p].dir, run[p].opts, k)
  OBVIOUS
<1>3. CASE run[p].dir = "up"
  <2>1. i <= g /\ g \in Levels /\ (i + 1) .. g = {}
    BY <1>2, <1>3 DEF Between, Rises
  <2>2. g \in Nat
    BY <2>1, LevelsAreNumbers
  <2>3. ~(i < g)
    BY <1>1, <2>1, <2>2
  <2> QED  BY <1>1, <1>2, <2>1, <2>2, <2>3
<1>4. CASE run[p].dir = "down"
  <2>1. g <= i /\ g \in Levels /\ (g + 1) .. i = {}
    BY <1>2, <1>4 DEF Between, Sinks
  <2>2. g \in Nat
    BY <2>1, LevelsAreNumbers
  <2>3. ~(g < i)
    BY <1>1, <2>1, <2>2
  <2> QED  BY <1>1, <1>2, <2>1, <2>2, <2>3
<1> QED  BY <1>3, <1>4, RunTypes

\* What a run that ends has recorded is what is in force (migrateUp and migrateDown after
\* applyMigrations).
LEMMA RecordedIsInForce ==
    ASSUME TypeOK, NEW p \in Runs, NEW k \in Levels, NEW i \in Levels,
           Between(run[p], applied, rows, k, i), clean',
           NothingToRecord(p) \/ InsertRows(p) \/ DeleteRows(p)
    PROVE  applied = 1 .. i /\ rows' = 1 .. i
<1>k. k \in Nat /\ i \in Nat
  BY LevelsAreNumbers
<1>d. run[p].opts.DryRun \in BOOLEAN /\ run[p].dir \in {"up", "down"}
  BY RunTypes, OptionTypes
<1>1. CASE run[p].opts.DryRun
  <2>1. NothingToRecord(p)
    BY <1>1 DEF InsertRows, DeleteRows, Skips, DryRuns
  <2>2. rows' = rows
    BY <2>1 DEF NothingToRecord
  <2> QED  BY <1>1, <2>2 DEF Between, Stands
<1>2. CASE ~run[p].opts.DryRun /\ run[p].dir = "up"
  <2>1. Rises(run[p], applied, rows, k, i)
    BY <1>2 DEF Between
  <2>2. InsertRows(p)
    BY <1>2 DEF NothingToRecord, DeleteRows, Skips, DryRuns
  <2>3. rows' = rows \cup run[p].did
    BY <2>2 DEF InsertRows, Done
  <2>4. (1 .. k) \cup ((k + 1) .. i) = 1 .. i
    BY <1>k, <2>1 DEF Rises
  <2> QED  BY <2>1, <2>3, <2>4 DEF Rises
<1>3. CASE ~run[p].opts.DryRun /\ run[p].dir = "down"
  <2>1. Sinks(run[p], applied, rows, k, i)
    BY <1>3 DEF Between
  <2>d. run[p].did = (i + 1) .. k /\ i <= k
    BY <2>1 DEF Sinks
  <2>2. CASE NothingToRecord(p)
    <3>1. rows' = rows /\ (run[p].did = {} \/ 1 \in run[p].did)
      BY <1>3, <2>2 DEF NothingToRecord, Skips, DryRuns, Done
    <3>2. CASE run[p].did = {}
      <4>1. i = k
        BY <1>k, <2>d, <3>2
      <4>2. i = 0 => 1 .. i = {}
        OBVIOUS
      <4> QED  BY <2>1, <3>1, <4>1, <4>2 DEF Sinks
    <3>3. CASE 1 \in run[p].did
      <4>1. i = 0
        BY <1>k, <2>d, <3>3
      <4>2. 1 .. 0 = {}
        OBVIOUS
      <4> QED  BY <2>1, <3>1, <4>1, <4>2 DEF Sinks
    <3> QED  BY <3>1, <3>2, <3>3
  <2>3. CASE DeleteRows(p)
    <3>1. run[p].did # {} /\ 1 \notin run[p].did
      BY <2>3 DEF DeleteRows, Skips, Done
    <3>2. i # 0
      BY <1>k, <2>d, <3>1
    <3>3. rows = 1 .. k
      BY <2>1, <3>2 DEF Sinks
    <3>4. rows' = rows \ run[p].did
      BY <2>3 DEF DeleteRows, Done
    <3>5. (1 .. k) \ ((i + 1) .. k) = 1 .. i
      BY <1>k, <2>d
    <3> QED  BY <2>1, <2>d, <3>3, <3>4, <3>5 DEF Sinks
  <2>4. ~InsertRows(p)
    BY <1>3 DEF InsertRows
  <2> QED  BY <2>2, <2>3, <2>4
<1> QED  BY <1>1, <1>2, <1>3, <1>d

\* A run that is under way while no run has failed or overlapped another is alone.
LEMMA Alone ==
    ASSUME OrderInv, clean, NEW p \in Runs, run[p].pc = "apply"
    PROVE  /\ \A q \in Runs : run[q].pc = "apply" => q = p
           /\ \E k, i \in Levels : Between(run[p], applied, rows, k, i)
<1>1. p \in Active /\ \A q \in Runs : run[q].pc = "apply" => q \in Active
  BY DEF Active
<1> QED  BY <1>1 DEF OrderInv

\* A run begins at the level that is recorded (existingMigrations).
LEMMA OrderBegin ==
    ASSUME TypeOK, OrderInv, NEW p \in Runs, NEW dir \in Direction, NEW o \in Options,
           Begin(p, dir, o)
    PROVE  OrderInv'
<1> SUFFICES ASSUME clean'
             PROVE  OrderInv'
  BY DEF OrderInv
<1>1. clean /\ Active = {} /\ applied' = applied /\ rows' = rows
  BY DEF Begin
<1>2. PICK k \in Levels : applied = 1 .. k /\ rows = 1 .. k
  BY <1>1 DEF OrderInv
<1>k. k \in Nat
  BY LevelsAreNumbers
<1>3. \A q \in Runs : run[q].pc # "apply"
  BY <1>1 DEF Active
<1>4. CASE Invalid(dir, o)
  <2>1. Ends(p, "error")
    BY <1>4 DEF Begin
  <2>2. \A q \in Runs : run'[q].pc # "apply"
    BY <1>3, <2>1, EndsRun
  <2>3. Active' = {}
    BY <2>2 DEF Active
  <2> QED  BY <1>1, <1>2, <2>3 DEF OrderInv
<1>5. CASE ~Invalid(dir, o)
  <2> DEFINE r == [pc |-> "apply", dir |-> dir, opts |-> o, todo |-> Targets(dir, o),
                   did |-> {}, from |-> applied, result |-> "none"]
  <2>1. run' = [run EXCEPT ![p] = r]
    BY <1>5 DEF Begin
  <2>2. r.dir = dir /\ r.opts = o /\ r.todo = Targets(dir, o) /\ r.did = {}
        /\ r.from = applied /\ r.pc = "apply"
    OBVIOUS
  <2> HIDE DEF r
  <2>3. run'[p] = r /\ \A q \in Runs : q # p => run'[q] = run[q]
    BY <2>1 DEF TypeOK
  <2>4. Active' = {p}
    BY <1>3, <2>2, <2>3 DEF Active
  <2>5. Between(r, applied, rows, k, k)
    <3>1. o.DryRun => Stands(r, applied, rows, k, k)
      BY <1>2 DEF Stands
    <3>2. (k + 1) .. k = {}
      BY <1>k, NothingAbove
    <3>3. ASSUME ~o.DryRun, dir = "up" PROVE Rises(r, applied, rows, k, k)
      <4>1. /\ Goal("up", o, k) \in Levels /\ k <= Goal("up", o, k)
            /\ Targets("up", o) = (k + 1) .. Goal("up", o, k)
        BY <1>2, <1>5, <3>3, TargetsUp
      <4> QED  BY <1>2, <1>k, <2>2, <3>2, <3>3, <4>1 DEF Rises
    <3>4. ASSUME ~o.DryRun, dir = "down" PROVE Sinks(r, applied, rows, k, k)
      <4>1. /\ Goal("down", o, k) \in Levels /\ Goal("down", o, k) <= k
            /\ Targets("down", o) = (Goal("down", o, k) + 1) .. k
        BY <1>2, <1>5, <3>4, TargetsDown
      <4>2. k = 0 => 1 .. k = {}
        OBVIOUS
      <4> QED  BY <1>2, <1>k, <2>2, <3>2, <3>4, <4>1, <4>2 DEF Sinks
    <3> QED  BY <1>2, <2>2, <3>1, <3>3, <3>4 DEF Between
  <2>6. \A q \in Active' : Between(run'[q], applied', rows', k, k)
    BY <1>1, <2>3, <2>4, <2>5
  <2> QED  BY <2>4, <2>6 DEF OrderInv
<1> QED  BY <1>4, <1>5

\* A run that applies a version is one level further.
LEMMA OrderApply ==
    ASSUME TypeOK, OrderInv, NEW p \in Runs, ApplyDry(p) \/ ApplyUp(p) \/ ApplyDown(p)
    PROVE  OrderInv'
<1> SUFFICES ASSUME clean'
             PROVE  OrderInv'
  BY DEF OrderInv
<1>1. clean /\ run' = Did(p) /\ Applying(p) /\ run[p].pc = "apply" /\ run[p].todo # {}
  BY DEF ApplyDry, ApplyUp, ApplyDown, Applying
<1>2. PICK k \in Levels, i \in Levels : Between(run[p], applied, rows, k, i)
  BY <1>1, Alone
<1>k. k \in Nat /\ i \in Nat /\ i <= Newest /\ Newest \in Nat
  BY LevelsAreNumbers
<1>3. /\ run'[p].pc = "apply" /\ run'[p].dir = run[p].dir
      /\ run'[p].opts = run[p].opts /\ run'[p].from = run[p].from
      /\ run'[p].todo = run[p].todo \ {Version(p)}
      /\ run'[p].did = run[p].did \cup {Version(p)}
      /\ \A q \in Runs : q # p => run'[q] = run[q]
  BY <1>1, DidRun, VersionListed
<1>4. Active' = {p}
  BY <1>1, <1>3, Alone DEF Active
<1>5. \E j \in Levels : Between(run'[p], applied', rows', k, j)
  <2>1. CASE ApplyDry(p)
    <3>1. run[p].opts.DryRun /\ applied' = applied /\ rows' = rows
      BY <2>1 DEF ApplyDry
    <3>2. Between(run'[p], applied', rows', k, i)
      BY <1>2, <1>3, <3>1 DEF Between, Stands
    <3> QED  BY <3>2
  <2>2. CASE ApplyUp(p)
    <3>1. ~run[p].opts.DryRun /\ run[p].dir = "up" /\ rows' = rows
          /\ applied' = applied \cup {Version(p)}
      BY <2>2 DEF ApplyUp
    <3>2. Rises(run[p], applied, rows, k, i) /\ run[p].from = 1 .. k
      BY <1>2, <3>1 DEF Between
    <3>3. PICK g \in Levels : g = Goal(run[p].dir, run[p].opts, k)
      BY <3>2 DEF Rises
    <3>4. k <= i /\ i <= g /\ run[p].todo = (i + 1) .. g /\ run[p].did = (k + 1) .. i
          /\ applied = 1 .. i /\ rows = 1 .. k
      BY <3>2, <3>3 DEF Rises
    <3>5. g \in Nat /\ g <= Newest
      BY LevelsAreNumbers
    <3>6. i < g
      BY <1>1, <1>k, <3>4, <3>5
    <3>7. Version(p) = i + 1
      BY <1>k, <3>1, <3>4, <3>5, <3>6, FirstUp DEF Version
    <3>8. i + 1 \in Levels /\ k <= i + 1 /\ i + 1 <= g
      BY <1>k, <3>4, <3>5, <3>6 DEF Levels
    <3>9. /\ applied' = 1 .. (i + 1)
          /\ run'[p].did = (k + 1) .. (i + 1)
          /\ run'[p].todo = ((i + 1) + 1) .. g
      BY <1>3, <1>k, <3>1, <3>4, <3>5, <3>6, <3>7, OneUp
    <3>10. Rises(run'[p], applied', rows', k, i + 1)
      BY <1>3, <3>1, <3>3, <3>4, <3>8, <3>9 DEF Rises
    <3>11. Between(run'[p], applied', rows', k, i + 1)
      BY <1>3, <3>1, <3>2, <3>10 DEF Between
    <3> QED  BY <3>8, <3>11
  <2>3. CASE ApplyDown(p)
    <3>1. ~run[p].opts.DryRun /\ run[p].dir = "down"
          /\ applied' = applied \ {Version(p)}
          /\ rows' = IF Version(p) = 1 THEN {} ELSE rows
      BY <2>3 DEF ApplyDown
    <3>2. Sinks(run[p], applied, rows, k, i) /\ run[p].from = 1 .. k
      BY <1>2, <3>1 DEF Between
    <3>3. PICK g \in Levels : g = Goal(run[p].dir, run[p].opts, k)
      BY <3>2 DEF Sinks
    <3>4. g <= i /\ i <= k /\ run[p].todo = (g + 1) .. i /\ run[p].did = (i + 1) .. k
          /\ applied = 1 .. i /\ rows = (IF i = 0 THEN {} ELSE 1 .. k)
      BY <3>2, <3>3 DEF Sinks
    <3>5. g \in Nat
      BY LevelsAreNumbers
    <3>6. g < i
      BY <1>1, <1>k, <3>4, <3>5
    <3>7. Version(p) = i
      BY <1>k, <3>1, <3>4, <3>5, <3>6, FirstDown DEF Version
    <3>8. i - 1 \in Levels /\ i - 1 <= k /\ g <= i - 1 /\ i # 0
      BY <1>k, <3>4, <3>5, <3>6 DEF Levels
    <3>9. /\ applied' = 1 .. (i - 1)
          /\ run'[p].did = ((i - 1) + 1) .. k
          /\ run'[p].todo = (g + 1) .. (i - 1)
      BY <1>3, <1>k, <3>1, <3>4, <3>5, <3>6, <3>7, OneDown
    <3>10. rows' = IF i - 1 = 0 THEN {} ELSE 1 .. k
      <4>1. i = 1 <=> i - 1 = 0
        BY <1>k
      <4> QED  BY <3>1, <3>4, <3>7, <3>8, <4>1
    <3>11. Sinks(run'[p], applied', rows', k, i - 1)
      BY <1>3, <3>1, <3>3, <3>4, <3>8, <3>9, <3>10 DEF Sinks
    <3>12. Between(run'[p], applied', rows', k, i - 1)
      BY <1>3, <3>1, <3>2, <3>11 DEF Between
    <3> QED  BY <3>8, <3>12
  <2> QED  BY <2>1, <2>2, <2>3
<1> QED  BY <1>4, <1>5 DEF OrderInv

\* A run that ends well leaves what is recorded in force, and one that fails is remembered.
LEMMA OrderEnds ==
    ASSUME TypeOK, OrderInv, NEW p \in Runs,
           ApplyFails(p) \/ NothingToRecord(p) \/ NilOpts(p) \/ InsertRows(p) \/ DeleteRows(p)
           \/ Fails(p)
    PROVE  OrderInv'
<1> SUFFICES ASSUME clean'
             PROVE  OrderInv'
  BY DEF OrderInv
<1>1. NothingToRecord(p) \/ InsertRows(p) \/ DeleteRows(p)
  BY DEF ApplyFails, NilOpts, Fails
<1>2. clean /\ run[p].pc = "apply" /\ applied' = applied
  BY <1>1 DEF NothingToRecord, InsertRows, DeleteRows, Applied
<1>3. PICK k \in Levels, i \in Levels : Between(run[p], applied, rows, k, i)
  BY <1>2, Alone
<1>4. applied = 1 .. i /\ rows' = 1 .. i
  BY <1>1, <1>3, RecordedIsInForce
<1>5. \A q \in Runs : run'[q].pc # "apply"
  BY <1>2, Alone, EndsHow, EndsRun
<1>6. Active' = {}
  BY <1>5 DEF Active
<1> QED  BY <1>2, <1>4, <1>6 DEF OrderInv

-------------------------------------------------------------------------------
(* The theorems *)

\* Every step of the processes keeps the invariant.
LEMMA Step == IInv /\ [Next]_vars => IInv'
<1> SUFFICES ASSUME TypeOK, OrderInv, [Next]_vars
             PROVE  TypeOK' /\ OrderInv'
  BY DEF IInv
<1>1. ASSUME NEW p \in Runs, NEW dir \in Direction, NEW o \in Options, Begin(p, dir, o)
      PROVE  OrderInv'
  BY <1>1, OrderBegin
<1>2. ASSUME NEW p \in Runs, ApplyDry(p) \/ ApplyUp(p) \/ ApplyDown(p)
      PROVE  OrderInv'
  BY <1>2, OrderApply
<1>3. ASSUME NEW p \in Runs,
             ApplyFails(p) \/ NothingToRecord(p) \/ NilOpts(p) \/ InsertRows(p)
             \/ DeleteRows(p) \/ Fails(p)
      PROVE  OrderInv'
  BY <1>3, OrderEnds
<1>4. ASSUME UNCHANGED vars PROVE OrderInv'
  <2>1. applied' = applied /\ rows' = rows /\ run' = run /\ clean' = clean
    BY <1>4 DEF vars
  <2>2. Active' = Active
    BY <2>1 DEF Active
  <2> QED  BY <2>1, <2>2 DEF OrderInv
<1> QED  BY <1>1, <1>2, <1>3, <1>4, TypeStep DEF Next

\* An empty database, and no run (TableExists of existingMigrations).
LEMMA Initially == Init => IInv
<1> SUFFICES ASSUME Init PROVE IInv
  OBVIOUS
<1>1. TypeOK
  <2>1. 0 \in 0 .. MaxFaults
    BY NewestAssumption
  <2> QED  BY <2>1, IdleTyped DEF Init, TypeOK
<1>2. OrderInv
  <2>1. \A p \in Runs : run[p].pc = "idle"
    BY IdleTyped DEF Init
  <2>2. Active = {}
    BY <2>1 DEF Active
  <2>3. 0 \in Levels /\ applied = 1 .. 0 /\ rows = 1 .. 0
    BY NewestAssumption DEF Levels, Init
  <2> QED  BY <2>2, <2>3 DEF OrderInv
<1> QED  BY <1>1, <1>2 DEF IInv

\* The invariant, for any number of processes, migrations and options.
THEOREM Inductive == Spec => []IInv
BY Initially, Step, PTL DEF Spec

\* The runs, the schema and _migration keep their types (ExtendedMigrator).
THEOREM Types == Spec => []TypeOK
<1>1. IInv => TypeOK
  BY DEF IInv
<1> QED  BY Inductive, <1>1, PTL

\* _migration tells what is in force whenever no run is under way, none having failed or
\* overlapped another, and that is 1 .. k (migrateUp, migrateDown).
THEOREM RowsAreInForce == Spec => []InStep
<1>1. IInv => InStep
  <2> SUFFICES ASSUME IInv, clean, Active = {}
               PROVE  rows = applied /\ applied = 1 .. Cardinality(applied)
    BY DEF InStep
  <2>1. PICK k \in Levels : applied = 1 .. k /\ rows = 1 .. k
    BY DEF IInv, OrderInv
  <2>2. Cardinality(1 .. k) = k
    BY LevelIs, LevelsAreNumbers
  <2> QED  BY <2>1, <2>2
<1> QED  BY Inductive, <1>1, PTL

Met(p) ==
    clean' /\ run[p].pc = "apply" /\ run'[p].pc = "idle" /\ run'[p].result = "ok" =>
        Cardinality(applied) = Goal(run[p].dir, run[p].opts, Cardinality(run[p].from))

\* A run that ends well has gone to where its options say (Migrate).
LEMMA EndsMet ==
    ASSUME IInv, [Next]_vars, NEW p \in Runs
    PROVE  Met(p)
<1> SUFFICES ASSUME clean', run[p].pc = "apply", run'[p].pc = "idle", run'[p].result = "ok"
             PROVE  Cardinality(applied) = Goal(run[p].dir, run[p].opts, Cardinality(run[p].from))
  BY DEF Met
<1>t. TypeOK /\ OrderInv
  BY DEF IInv
<1>1. NothingToRecord(p) \/ InsertRows(p) \/ DeleteRows(p)
  <2>1. ASSUME NEW q \in Runs, NEW dir \in Direction, NEW o \in Options, Begin(q, dir, o)
        PROVE  FALSE
    <3>1. q # p
      BY <2>1 DEF Begin
    <3>2. Active = {}
      BY <2>1 DEF Begin
    <3> QED  BY <3>2 DEF Active
  <2>2. ASSUME NEW q \in Runs, ApplyDry(q) \/ ApplyUp(q) \/ ApplyDown(q)
        PROVE  FALSE
    <3>1. run' = Did(q) /\ Version(q) \in Versions
      BY <1>t, <2>2, VersionListed DEF ApplyDry, ApplyUp, ApplyDown
    <3>2. run'[p].pc = run[p].pc
      BY <1>t, <3>1, DidRun
    <3> QED  BY <3>2
  <2>3. ASSUME NEW q \in Runs, ApplyFails(q) \/ NilOpts(q) \/ Fails(q)
        PROVE  FALSE
    BY <2>3 DEF ApplyFails, NilOpts, Fails
  <2>4. ASSUME NEW q \in Runs, q # p, NothingToRecord(q) \/ InsertRows(q) \/ DeleteRows(q)
        PROVE  FALSE
    <3>1. run'[p] = run[p]
      BY <1>t, <2>4, EndsHow, EndsRun
    <3> QED  BY <3>1
  <2>5. ~UNCHANGED vars
    BY DEF vars
  <2> QED  BY <2>1, <2>2, <2>3, <2>4, <2>5 DEF Next
<1>2. clean /\ run[p].todo = {}
  BY <1>1 DEF NothingToRecord, InsertRows, DeleteRows, Applied
<1>3. PICK k \in Levels, i \in Levels : Between(run[p], applied, rows, k, i)
  BY <1>2, <1>t, Alone
<1>4. applied = 1 .. i
  BY <1>1, <1>3, <1>t, RecordedIsInForce
<1>5. Cardinality(applied) = i /\ Cardinality(run[p].from) = k
  BY <1>3, <1>4, LevelIs, LevelsAreNumbers DEF Between
<1>6. i = Goal(run[p].dir, run[p].opts, k)
  <2>1. CASE run[p].opts.DryRun
    <3>1. i = k
      BY <1>3, <2>1 DEF Between, Stands
    <3>2. Goal(run[p].dir, run[p].opts, k) = k
      BY <2>1 DEF Goal, Expected
    <3> QED  BY <3>1, <3>2
  <2>2. CASE ~run[p].opts.DryRun
    BY <1>2, <1>3, <1>t, <2>2, AtGoal
  <2> QED  BY <2>1, <2>2
<1> QED  BY <1>5, <1>6

\* A run that returns without an error has taken the schema from where it found it to where
\* its options say (MigrateOpts).
THEOREM OptionsMet == Spec => OptionsAreMet
<1>1. IInv /\ [Next]_vars =>
          [\A p \in Runs :
              clean' /\ run[p].pc = "apply" /\ run'[p].pc = "idle" /\ run'[p].result = "ok" =>
                  LET o == run[p].opts
                  IN  Cardinality(applied) =
                          IF o.TargetVersion > 0 /\ o.MaxSteps # 0 /\ ~o.DryRun
                          THEN o.TargetVersion
                          ELSE Expected(run[p].dir, o, Cardinality(run[p].from))]_vars
  BY EndsMet DEF Met, Goal
<1> QED  BY Inductive, <1>1, PTL DEF OptionsAreMet, Spec
===============================================================================
