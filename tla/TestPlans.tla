------------------------------ MODULE TestPlans ------------------------------
(***************************************************************************)
(* What the test drivers decide before they start anything: the Foundry     *)
(* runner's groups, shards, selection and batches, the Hardhat runner's     *)
(* selection and forwarded options, and the deep invariant matrix of CI.    *)
(***************************************************************************)
EXTENDS Integers, Sequences, SequencesExt, FiniteSets, FiniteSetsExt, Functions, Rounds, Totals

CONSTANTS
  Catalog,            \* test sources that may exist, in path order
  InvariantShards,    \* INVARIANT_SHARDS
  IntegrationShards,  \* INTEGRATION_SHARDS
  DefaultCap,         \* DEFAULT_BATCH_SOURCES
  MaxMoved,           \* bound: sources missing from the catalog, or all there are
  HardhatTests,       \* scripts of the Hardhat suite, in path order: the folders each is under
  MaxTokens,          \* bound: forwarded command-line words, and files named explicitly
  AdvancePartitions   \* ADVANCE_PARTITIONS

ASSUME PlansAssumption ==
  /\ InvariantShards \in Nat \ {0} /\ IntegrationShards \in Nat \ {0} /\ DefaultCap \in Nat \ {0}
  /\ MaxTokens \in Nat /\ AdvancePartitions \in Nat \ {0}
  /\ Catalog \in Seq([dir : STRING, test : BOOLEAN, cost : Nat, cold : BOOLEAN, mock : BOOLEAN])
  /\ HardhatTests \in Seq(SUBSET UNION Range(HardhatTests))

VARIABLE plan  \* the decision under way: its kind, inputs and result

PlanIdle == [kind |-> "idle"]

Dir(p) == Catalog[p].dir
IsTest(p) == Catalog[p].test

\* Positions in a set put in order, and the sequence of its elements.
Rank(S, order, p) == Cardinality({q \in S : <<q, p>> \in order})
Ordered(S, order) == [k \in 1..Cardinality(S) |-> CHOOSE p \in S : Rank(S, order, p) = k]

ByPath(S) == {e \in S \X S : e[1] <= e[2]}
Slice(S, i, size) == {p \in S : (Rank(S, ByPath(S), p) - 1) \div size = i - 1}
Ceiling(n, d) == (n + d - 1) \div d

Joined(seqs) == Scanned(\o, <<>>, seqs)[Len(seqs)]

-----------------------------------------------------------------------------
(* scripts/test-foundry-groups.py: groups.                                   *)

IsFork(p) == Dir(p) = "fork"
IsolatedDirectories == {"craps", "gas", "invariant"}
HelperDirectories == {"fuzz/helpers", "fuzz/handlers", "helpers"}

Support(files) == {p \in files : ~IsFork(p) /\ (~IsTest(p) \/ Dir(p) \in HelperDirectories)}

Tests(S) == {p \in S : IsTest(p)}

FuzzChunk(files, i) ==
  LET fuzz == {p \in files : Dir(p) = "fuzz" /\ IsTest(p)}
  IN Slice(fuzz, i, Max({1, (Cardinality(fuzz) + 3) \div 4}))

Invariants(files) == {p \in files : Dir(p) = "fuzz/invariant"}
Integration(files) == {p \in files : Dir(p) \in IsolatedDirectories}

Cost(p) == Catalog[p].cost

\* The heaviest roots first, equal ones in path order, each onto the first of the lightest shards.
Lightest(loads) == Min({i \in DOMAIN loads : \A j \in DOMAIN loads : loads[i] <= loads[j]})

\* Mutant: the load is the number of roots.
PlacedByCount(s, p) ==
  LET i == Lightest(s.loads)
  IN [shards |-> [s.shards EXCEPT ![i] = @ \cup {p}], loads |-> [s.loads EXCEPT ![i] = @ + 1]]

Placed(s, p) ==
  LET i == Lightest(s.loads)
  IN [shards |-> [s.shards EXCEPT ![i] = @ \cup {p}], loads |-> [s.loads EXCEPT ![i] = @ + Cost(p)]]

HeaviestFirst(S) == {e \in S \X S : Cost(e[1]) > Cost(e[2]) \/ (Cost(e[1]) = Cost(e[2]) /\ e[1] <= e[2])}

NoneFilled == [shards |-> [i \in 1..InvariantShards |-> {}], loads |-> [i \in 1..InvariantShards |-> 0]]

Filled(files) ==
  LET roots == Tests(Invariants(files))
  IN Scanned(Placed, NoneFilled, Ordered(roots, HeaviestFirst(roots)))[Cardinality(roots)]

IntegrationShard(files, i) ==
  LET roots == Tests(Integration(files))
  IN Slice(roots, i, Ceiling(Cardinality(roots), IntegrationShards))

ShardNames == ({"invariants"} \X (1..InvariantShards)) \cup ({"integration-gas"} \X (1..IntegrationShards))
PlainNames ==
  ({"integration-gas", "repro-symbolic", "census", "invariants", "fork"} \X {0}) \cup ({"fuzz"} \X (1..4))
GroupNames == ShardNames \cup PlainNames

Group(files, name) ==
  CASE name = <<"integration-gas", 0>> -> Integration(files)
    [] name = <<"repro-symbolic", 0>> -> {p \in files : Dir(p) = "repro" \/ (Dir(p) = "unit" /\ IsTest(p))}
    [] name = <<"census", 0>> -> {p \in files : Dir(p) = "census" /\ IsTest(p)}
    [] name[1] = "fuzz" -> FuzzChunk(files, name[2])
    [] name = <<"invariants", 0>> -> Invariants(files)
    [] name = <<"fork", 0>> -> {p \in files : IsFork(p)}
    [] name[1] = "invariants" /\ name[2] > 0 -> Filled(files).shards[name[2]]
    [] name[1] = "integration-gas" /\ name[2] > 0 -> IntegrationShard(files, name[2])

Groups(files) == [name \in GroupNames |-> Group(files, name)]

Unassigned(files) == (files \ Support(files)) \ UNION Range(Groups(files))

-----------------------------------------------------------------------------
(* main's selection, and split_batches.                                      *)

Excluded(profile) == {p \in DOMAIN Catalog : profile = "glamsterdam" /\ Catalog[p].mock}

Focused == <<"focused", 0>>

\* Mutant: shards are not taken out of a full-tree run.
WholeTreeWithShards == GroupNames \ {<<"fork", 0>>}

\* A full-tree run takes whole groups, and never the fork suite.
WholeTree == PlainNames \ {<<"fork", 0>>}

Selected(files, args) ==
  LET groups == [name \in GroupNames |-> Group(files, name) \ Excluded(args.profile)]
      base == IF args.file # {} THEN [name \in {Focused} |-> args.file] ELSE groups
  IN IF args.group # {} THEN Restrict(base, args.group \cap DOMAIN base)
     ELSE IF args.file # {} THEN base
     ELSE Restrict(base, WholeTree)

Refused(files, args) ==
  LET s == Selected(files, args)
      chosen == UNION Range(s)
  IN \/ Unassigned(files) # {}
     \/ ~(args.file \subseteq files)
     \/ args.file # {} /\ args.group # {}  \* no group is called "focused"
     \/ (\E p \in chosen : IsFork(p)) /\ (\E p \in chosen : ~IsFork(p))
     \/ args.group # {} /\ \E name \in DOMAIN s : s[name] = {}
     \/ chosen = {}

\* With the fork patch, suites among the helpers are importable but not executed.
SupportFor(files, args) ==
  LET fork == \E p \in UNION Range(Selected(files, args)) : IsFork(p)
  IN {p \in Support(files) \ Excluded(args.profile) : fork => ~IsTest(p)}

SourceIsolation(p) == Dir(p) \in IsolatedDirectories \/ Catalog[p].cold

\* Mutant: a batch mixes the two isolation modes.
PartitionsMixed(sources, automatic) == <<sources>>

Partitions(sources, automatic) ==
  IF automatic
  THEN <<{p \in sources : ~SourceIsolation(p)}, {p \in sources : SourceIsolation(p)}>>
  ELSE <<sources>>

Cap(name, maximum, sources) ==
  IF maximum > 0 THEN maximum
  ELSE IF name[1] = "integration-gas" THEN DefaultCap ELSE Cardinality(sources)

SplitGroup(name, sources, args) ==
  LET cap == Cap(name, args.maximum, sources)
      pieces(k, part) ==
        {[group |-> name, part |-> k, number |-> i, keep |-> Slice(part, i, cap)] : i \in 1..Ceiling(Cardinality(part), cap)}
  IN UNION {pieces(k, Partitions(sources, args.auto)[k]) : k \in DOMAIN Partitions(sources, args.auto)}

\* The order of the batches is left out.
SplitBatches(files, args) ==
  LET s == Selected(files, args)
  IN UNION {SplitGroup(name, s[name], args) : name \in {n \in DOMAIN s : s[n] # {}}}

FullTree == [group |-> {}, file |-> {}, profile |-> "eip170", maximum |-> 0, auto |-> TRUE]
WholeTreeRun(profile, maximum, auto) == [FullTree EXCEPT !.profile = profile, !.maximum = maximum, !.auto = auto]
WholeTreeRuns == {WholeTreeRun(pr, m, a) : pr \in {"eip170", "glamsterdam"}, m \in {0, 1, 2}, a \in BOOLEAN}
GroupRuns == {[FullTree EXCEPT !.group = {g}] : g \in GroupNames}
FileRuns == {[FullTree EXCEPT !.file = {p, q}] : p \in DOMAIN Catalog, q \in DOMAIN Catalog}
Arguments == WholeTreeRuns \cup GroupRuns \cup FileRuns

FoundryPlan ==
  /\ plan.kind = "files"
  /\ \E args \in Arguments :
       plan' = IF Refused(plan.files, args) THEN [kind |-> "refused"]
               ELSE [kind |-> "foundry", files |-> plan.files, args |-> args,
                     support |-> SupportFor(plan.files, args), batches |-> SplitBatches(plan.files, args)]

FoundryFiles ==
  /\ plan = PlanIdle
  /\ \E few \in UNION {kSubset(k, DOMAIN Catalog) : k \in 0..MaxMoved}, whole \in BOOLEAN :
       plan' = [kind |-> "files", files |-> IF whole THEN DOMAIN Catalog \ few ELSE few]
-----------------------------------------------------------------------------
(* scripts/test-hardhat-groups.py: discover, split_forwarded, main.          *)

Folders == UNION Range(HardhatTests)

\* TEST_DIR_ORDER, one folder after the other; a folder holds what is below it too.
Discovered(order, present) ==
  LET below(k) == {t \in present : order[k] \in HardhatTests[t]}
  IN Joined([k \in DOMAIN order |-> Ordered(below(k), ByPath(below(k)))])

Undiscovered(order, present) == present \ Range(Discovered(order, present))

\* Mutant: repeated files are run again.
RepeatsAllowed(files) == FALSE

Repeats(files) == Cardinality(Range(files)) # Len(files)

Chosen(order, present, explicit) == IF explicit = <<>> THEN Discovered(order, present) ELSE explicit

HardhatBatches(selected, size) ==
  [i \in 1..Ceiling(Len(selected), size) |->
     SubSeq(selected, (i - 1) * size + 1, Min({i * size, Len(selected)}))]

HardhatRefuses(order, present, explicit) ==
  LET selected == Chosen(order, present, explicit)
  IN order = <<>> \/ Repeats(order) \/ Undiscovered(order, present) # {}
     \/ selected = <<>> \/ ~(Range(selected) \subseteq present) \/ Repeats(selected)

HardhatPlan ==
  /\ plan = PlanIdle
  /\ \E order \in BoundedSeq(Folders, 3), present \in SUBSET DOMAIN HardhatTests,
        explicit \in BoundedSeq(DOMAIN HardhatTests, 2), size \in {1, 2} :
       plan' = IF HardhatRefuses(order, present, explicit) THEN [kind |-> "refused"]
               ELSE [kind |-> "hardhat", present |-> present, explicit |-> explicit, order |-> order,
                     batches |-> HardhatBatches(Chosen(order, present, explicit), size)]

\* Words after the driver's own options: options that take a value, others, test paths, the rest.
ForwardedWords == {"--value", "--option", "--boolean", "--assigned", "path", "word"}
IsOption(w) == w \notin {"path", "word"}

\* Mutant: a path is taken for an option's value, whatever the option.
AmbiguousNever(s, w) == FALSE

Ambiguous(s, w) == s.wants = "--option" /\ w = "path"

\* One word: the value an option still wants, an option, a path, or a mistake.  Positions stand for
\* the words.
Forwarded(s, w) ==
  LET i == s.at
      n == [s EXCEPT !.at = i + 1]
  IN IF s.wants # "none" /\ ~IsOption(w)
     THEN [n EXCEPT !.flags = Append(@, i), !.wants = "none", !.ok = @ /\ ~Ambiguous(s, w)]
     ELSE IF IsOption(w)
     THEN [n EXCEPT !.flags = Append(@, i), !.ok = @ /\ s.wants # "--value",
                    !.wants = IF w \in {"--value", "--option"} THEN w ELSE "none"]
     ELSE IF w = "path" THEN [n EXCEPT !.files = Append(@, i)]
     ELSE [n EXCEPT !.ok = FALSE]

NoneForwarded == [at |-> 1, files |-> <<>>, flags |-> <<>>, wants |-> "none", ok |-> TRUE]

SplitForwarded(args) == Scanned(Forwarded, NoneForwarded, args)[Len(args)]

ForwardedPlan ==
  /\ plan = PlanIdle
  /\ \E args \in BoundedSeq(ForwardedWords, MaxTokens) :
       LET s == SplitForwarded(args)
       IN plan' = IF s.ok /\ s.wants # "--value"
                  THEN [kind |-> "forwarded", args |-> args, files |-> s.files, flags |-> s.flags]
                  ELSE [kind |-> "refused"]

-----------------------------------------------------------------------------
(* scripts/deep-invariant-matrix.py.                                         *)

Properties == {"advance", "own", "base"}  \* invariant tests of a suite, by name
Everything == Properties \cup {"other"}   \* and the ones its text does not show

\* partition_seed: the run's own seed, or one of the partition's.
PartitionSeed(partition) == IF partition = 0 THEN <<"run">> ELSE <<"run", "attempt", partition>>

Job(match, exclude, partition) ==
  [match |-> match, exclude |-> exclude, seed |-> PartitionSeed(partition)]

\* Mutant: the complementary job excludes nothing.
ExcludedByNone(names) == {}

ExcludedBy(names) == names

\* Properties named in a heavy suite's text, or in the invariant suites it imports, get a job each;
\* one more job takes every test without one.
Matrix(suite) ==
  LET names == suite.text \cup suite.imports
  IN CASE suite.weight = "advance" ->
            {Job({"advance"}, {}, i) : i \in 1..AdvancePartitions}
            \cup {Job(Everything, ExcludedBy({"advance"}), 0)}
       [] suite.weight = "heavy" ->
            {Job({n}, {}, 0) : n \in names} \cup {Job(Everything, ExcludedBy(names), 0)}
       [] suite.weight = "plain" -> {Job(Everything, {}, 0)}

MatrixRefused(suite) ==
  \/ suite.weight = "advance" /\ "advance" \notin suite.text
  \/ suite.weight = "heavy" /\ suite.text \cup suite.imports = {}

MatrixPlan ==
  /\ plan = PlanIdle
  /\ \E weight \in {"advance", "heavy", "plain"}, text \in SUBSET Properties,
        imports \in SUBSET Properties, hidden \in SUBSET Everything :
       LET suite == [weight |-> weight, text |-> text, imports |-> imports, tests |-> text \cup hidden]
       IN plan' = IF MatrixRefused(suite) THEN [kind |-> "refused"]
                  ELSE [kind |-> "matrix", suite |-> suite, jobs |-> Matrix(suite)]

PlanNext == FoundryFiles \/ FoundryPlan \/ HardhatPlan \/ ForwardedPlan \/ MatrixPlan

-----------------------------------------------------------------------------
(* Properties.                                                               *)

Kept == UNION {b.keep : b \in plan.batches}

(* A full-tree run executes every test of the profile exactly once, helpers' own suites apart, and
   nothing of the fork suite; files named explicitly are the ones that run. *)
FoundryRunsOnce ==
  plan.kind = "foundry" =>
    LET due == IF plan.args.file # {} THEN plan.args.file
               ELSE Tests(plan.files \ Support(plan.files)) \ (Excluded(plan.args.profile) \cup {p \in plan.files : IsFork(p)})
    IN /\ plan.args.group = {} => due \subseteq Kept
       /\ plan.args.group = {} /\ plan.args.file = {} =>
            (Kept \cup plan.support) \cap (Excluded(plan.args.profile) \cup {p \in plan.files : IsFork(p)}) = {}
       /\ \A a, b \in plan.batches : a # b => a.keep \cap b.keep = {}

(* Every batch keeps its cap, is of one isolation mode unless the caller chose it, and never mixes
   fork sources with others. *)
BatchesUniform ==
  plan.kind = "foundry" =>
    \A b \in plan.batches :
      /\ b.keep # {}
      /\ plan.args.auto => \A p, q \in b.keep : SourceIsolation(p) = SourceIsolation(q)
      /\ plan.args.maximum > 0 => Cardinality(b.keep) <= plan.args.maximum
      /\ b.group[1] = "integration-gas" /\ plan.args.maximum = 0 => Cardinality(b.keep) <= DefaultCap
      /\ \A p \in b.keep, q \in b.keep \cup plan.support : IsFork(p) => IsFork(q) \/ ~IsTest(q)

(* The shards CI runs instead of a group hold each of its tests once, and no shard is heavier than
   the lightest one by more than its own cheapest root. *)
ShardsReplaceGroups ==
  plan.kind = "files" =>
    LET load(i) == Total([p \in Group(plan.files, <<"invariants", i>>) |-> Cost(p)])
    IN /\ \A g \in {"invariants", "integration-gas"} :
            LET shards == {name \in ShardNames : name[1] = g}
            IN /\ UNION {Group(plan.files, name) : name \in shards} = Tests(Group(plan.files, <<g, 0>>))
               /\ \A a, b \in shards : a # b => Group(plan.files, a) \cap Group(plan.files, b) = {}
       /\ \A i, j \in 1..InvariantShards :
            \A p \in Group(plan.files, <<"invariants", i>>) : load(i) - Cost(p) <= load(j)

(* Hardhat's batches are the selected files, each once and in order: all there are, or the ones named. *)
HardhatRunsOnce ==
  plan.kind = "hardhat" =>
    LET run == Joined(plan.batches)
    IN /\ Cardinality(Range(run)) = Len(run)
       /\ IF plan.explicit # <<>> THEN run = plan.explicit
          ELSE /\ Range(run) = plan.present
               /\ \A i, j \in DOMAIN run : i < j =>
                    \E k, l \in DOMAIN plan.order :
                      k <= l /\ plan.order[k] \in HardhatTests[run[i]] /\ plan.order[l] \in HardhatTests[run[j]]

(* No word is lost or moved, and no test path is passed on to every batch except as the value of an
   option known to take one. *)
ForwardedIntact ==
  plan.kind = "forwarded" =>
    /\ Range(plan.files) \cup Range(plan.flags) = DOMAIN plan.args
    /\ Len(plan.files) + Len(plan.flags) = Len(plan.args)
    /\ \A s \in {plan.files, plan.flags} : \A i, j \in DOMAIN s : i < j => s[i] < s[j]
    /\ \A i \in DOMAIN plan.args :
         plan.args[i] = "path" =>
           (i \in Range(plan.flags) <=> i > 1 /\ plan.args[i - 1] = "--value")

Selects(job, test) == test \in job.match /\ test \notin job.exclude

(* Every test of a suite, found in its text or not, is run by exactly one job, the advance property by
   one job of each partition with a seed of its own. *)
JobsCoverTests ==
  plan.kind = "matrix" =>
    \A t \in plan.suite.tests :
      LET jobs == {j \in plan.jobs : Selects(j, t)}
          times == IF plan.suite.weight = "advance" /\ t = "advance" THEN AdvancePartitions ELSE 1
      IN Cardinality(jobs) = times /\ Cardinality({j.seed : j \in jobs}) = times

=============================================================================
