------------------------------- MODULE Closures -------------------------------
(***************************************************************************)
(* The files a test run depends on: the walk over linked dependency          *)
(* directories, the closure of imports that decides tracing and the audit    *)
(* scope, and the identity the runners compare before and after.             *)
(***************************************************************************)
EXTENDS Integers, Sequences, SequencesExt, FiniteSets, FiniteSetsExt, Rounds

CONSTANTS
  Dirs,       \* directories, a link being one more way into the directory it names
  PlainFiles,     \* files
  Top,        \* the directory a walk begins at
  Sources,    \* Solidity sources
  Missing,    \* an import of no file
  Elsewhere   \* a dependency root outside the captured ones

ASSUME ClosuresAssumption ==
  /\ Top \in Dirs /\ Dirs \cap PlainFiles = {} /\ Missing \notin Sources
  /\ IsFiniteSet(Dirs) /\ IsFiniteSet(PlainFiles) /\ IsFiniteSet(Sources)

VARIABLES
  walk,      \* captured_files: the tree, the paths still to visit and the ones yielded
  imports,   \* the import closure: the graph, the files still to read and the outcome
  identity   \* the inputs of a build: its layout, the identity captured, and what was edited since

closures == <<walk, imports, identity>>

-----------------------------------------------------------------------------
(* captured_files.  A path is the directories it passes through; its ancestors are the resolved ones. *)

WalkIdle == [tool |-> "idle", tree |-> <<>>, pending |-> <<>>, yielded |-> {}]

\* Mutant: a directory is left out if it was seen anywhere before.
SeenBefore(path) == Last(path) \in (UNION {Range(Front(p)) : p \in walk.yielded}) \cup Range(Front(path))

\* A directory is not entered again below itself.
Cyclic(path) == Last(path) \in Range(Front(path))

\* The last path waiting is a directory, and its children wait; or a file, and it is yielded.
Walk(tool) ==
  /\ walk.tool = tool /\ walk.pending # <<>>
  /\ LET path == Last(walk.pending)
         rest == Front(walk.pending)
     IN \/ /\ Last(path) \in Dirs /\ ~Cyclic(path)
           /\ walk' = [walk EXCEPT !.pending =
                         rest \o SetToSeq({Append(path, child) : child \in walk.tree[Last(path)]})]
        \/ Last(path) \in Dirs /\ Cyclic(path) /\ walk' = [walk EXCEPT !.pending = rest]
        \/ Last(path) \in PlainFiles /\ walk' = [walk EXCEPT !.pending = rest, !.yielded = @ \cup {path}]

FoundryWalk == Walk("foundry")
HardhatWalk == Walk("hardhat")

WalkNext ==
  \/ /\ walk = WalkIdle
     /\ \E tool \in {"foundry", "hardhat"}, tree \in [Dirs -> SUBSET (Dirs \cup PlainFiles)] :
          walk' = [WalkIdle EXCEPT !.tool = tool, !.tree = tree, !.pending = <<<<Top>>>>]
  \/ FoundryWalk \/ HardhatWalk

-----------------------------------------------------------------------------
(* Closures of imports.                                                      *)

ImportsIdle ==
  [job |-> "idle", graph |-> <<>>, marked |-> {}, roots |-> {}, listed |-> {}, waived |-> {},
   todo |-> <<>>, seen |-> {}, outcome |-> "none"]

NextFile == Last(imports.todo)

\* Mutant: only the files a job starts from are searched.
NoImports == <<>>

Imports == SetToSeq(imports.graph[NextFile])

\* A file met again, or not there, is passed over; one that uses the tracer decides.
RequiresDebugTrace ==
  /\ imports.job = "trace" /\ imports.outcome = "none"
  /\ \/ imports.todo = <<>> /\ imports' = [imports EXCEPT !.outcome = "untraced"]
     \/ /\ imports.todo # <<>> /\ NextFile \in imports.seen \cup {Missing}
        /\ imports' = [imports EXCEPT !.todo = Front(@)]
     \/ /\ imports.todo # <<>> /\ NextFile \notin imports.seen \cup {Missing}
        /\ IF NextFile \in imports.marked
           THEN imports' = [imports EXCEPT !.outcome = "traced"]
           ELSE imports' = [imports EXCEPT !.seen = @ \cup {NextFile},
                                           !.todo = Front(@) \o Imports]

\* Mutant: the sources that nothing deployed reaches need no exclusion.
NothingExcluded == TRUE

\* What is not reached is under a prefix that is declared out of scope.
Classified == Sources \ imports.seen \subseteq imports.waived

\* The audit scope: the sources that deployed roots reach, all of them there, and all of them listed.
ScopeInventory ==
  /\ imports.job = "scope" /\ imports.outcome = "none"
  /\ \/ /\ imports.todo # <<>> /\ NextFile \in imports.seen
        /\ imports' = [imports EXCEPT !.todo = Front(@)]
     \/ imports.todo # <<>> /\ NextFile = Missing /\ imports' = [imports EXCEPT !.outcome = "error"]
     \/ /\ imports.todo # <<>> /\ NextFile \notin imports.seen \cup {Missing}
        /\ imports' = [imports EXCEPT !.seen = @ \cup {NextFile},
                                      !.todo = Front(@) \o Imports]

\* audit-snapshot's scope_files, when the inventory is complete.
ScopeFiles ==
  /\ imports.job = "scope" /\ imports.outcome = "none" /\ imports.todo = <<>>
  /\ imports' = [imports EXCEPT !.outcome =
                   IF imports.listed = imports.seen /\ Classified THEN "match" ELSE "error"]

ImportsNext ==
  \/ /\ imports = ImportsIdle
     /\ \E graph \in [Sources -> SUBSET (Sources \cup {Missing})],
          roots, named, waived \in SUBSET Sources, job \in {"trace", "scope"} :
          /\ roots # {} /\ (job = "trace" => waived = {})
          /\ imports' = [ImportsIdle EXCEPT !.job = job, !.graph = graph, !.roots = roots, !.waived = waived,
                           !.marked = IF job = "trace" THEN named ELSE {},
                           !.listed = IF job = "scope" THEN named ELSE {}, !.todo = SetToSeq(roots)]
  \/ RequiresDebugTrace \/ ScopeInventory \/ ScopeFiles

-----------------------------------------------------------------------------
(* The identity of a build's inputs.                                         *)

DepRoots == {"contracts", "test", "lib", "node_modules"}

\* The source of the pinned addresses, which a Hardhat run patches itself and follows apart.
Pins == <<"contracts", "pins">>

\* Folders and kinds of file a build may read.
Files == (DepRoots \cup {"scripts", "audit", Elsewhere}) \X {".sol", ".hex", ".js", ".json"} \cup {Pins, <<"top", "config">>}

IdentityIdle ==
  [tool |-> "idle", src |-> "contracts", deps |-> {}, moved |-> FALSE, phase |-> "idle", edited |-> {}]

\* Mutant: where remappings lead is not looked at.
DepsUnchecked(deps) == TRUE

DepsCaptured(deps) == deps \subseteq DepRoots

\* The Foundry runner takes no relocated source root and no dependency outside the captured ones.
ValidateSourceLayout ==
  /\ identity.tool = "foundry" /\ identity.phase = "idle"
  /\ identity' = [identity EXCEPT !.phase =
       IF ~identity.moved /\ identity.src = "contracts" /\ DepsCaptured(identity.deps) THEN "captured" ELSE "refused"]

FoundryIdentity ==
       DepRoots \X {".sol"} \cup {<<"audit", ".sol">>, <<"contracts", ".hex">>, <<"test", ".hex">>}
  \cup {<<"scripts", ".js">>, Pins, <<"top", "config">>}

HardhatIdentity ==
       {<<"contracts", ".sol">>, <<"lib", ".sol">>, <<"node_modules", ".sol">>, <<"top", "config">>}
  \cup {"test"} \X {".sol", ".hex", ".js", ".json"} \cup {"scripts"} \X {".js", ".json"}

Identity == IF identity.tool = "foundry" THEN FoundryIdentity ELSE HardhatIdentity

\* What a build compiles, and what its tests read.
BuildInputs ==
  IF identity.tool = "foundry"
  THEN ({identity.src, "test"} \cup identity.deps) \X {".sol"}
       \cup {<<"contracts", ".hex">>, <<"test", ".hex">>, Pins, <<"top", "config">>}
  ELSE ({"contracts"} \cup identity.deps) \X {".sol"} \cup {"test"} \X {".js", ".json", ".hex"} \cup {<<"top", "config">>}

\* Both runners compare what they captured with what is there, digest for digest.
Unchanged == identity.edited \cap Identity = {}

IdentityNext ==
  \/ /\ identity = IdentityIdle
     /\ \E src \in {"contracts", Elsewhere}, moved \in BOOLEAN, deps \in SUBSET (DepRoots \cup {Elsewhere}) :
          identity' = [identity EXCEPT !.tool = "foundry", !.src = src, !.moved = moved, !.deps = deps]
  \/ /\ identity = IdentityIdle
     /\ \E deps \in SUBSET {"lib", "node_modules"} :
          identity' = [identity EXCEPT !.tool = "hardhat", !.deps = deps, !.phase = "captured"]
  \/ ValidateSourceLayout
  \/ /\ identity.phase = "captured" /\ Cardinality(identity.edited) < 2
     /\ \E f \in Files \ identity.edited : identity' = [identity EXCEPT !.edited = @ \cup {f}]

ClosuresIdle == walk = WalkIdle /\ imports = ImportsIdle /\ identity = IdentityIdle

ClosuresNext ==
  \/ imports = ImportsIdle /\ identity = IdentityIdle /\ WalkNext /\ UNCHANGED <<imports, identity>>
  \/ walk = WalkIdle /\ identity = IdentityIdle /\ ImportsNext /\ UNCHANGED <<walk, identity>>
  \/ walk = WalkIdle /\ imports = ImportsIdle /\ IdentityNext /\ UNCHANGED <<walk, imports>>

-----------------------------------------------------------------------------
(* Properties.                                                               *)

\* The paths from the top that pass through no directory twice and end in a file.
SimplePaths(tree) ==
  LET longer == [seen \in SUBSET Seq(Dirs \cup PlainFiles) |->
        seen \cup UNION {{Append(p, c) : c \in (tree[Last(p)] \ Range(p))} : p \in {q \in seen : Last(q) \in Dirs}}]
  IN {p \in Grown({<<Top>>}, longer, Cardinality(Dirs)) : Last(p) \in PlainFiles}

(* A walk, links and cycles or not, yields each file under every path that enters no directory twice. *)
AliasesRetained == walk.pending = <<>> /\ walk.tool # "idle" => walk.yielded = SimplePaths(walk.tree)

Reached(graph, roots) ==
  LET further == [seen \in SUBSET (Sources \cup {Missing}) |-> seen \cup UNION {graph[s] : s \in seen \ {Missing}}]
  IN Grown(roots, further, Cardinality(Sources) + 1)

(* A run is traced exactly if a file its tests import, at any distance, uses the tracer. *)
TracedIfImported ==
  imports.outcome \in {"traced", "untraced"} =>
    (imports.outcome = "traced") = (imports.marked \cap Reached(imports.graph, imports.roots) # {})

(* The audit scope matches only if it is the closure of the deployed roots, with no import missing and
   every other source under a declared exclusion. *)
ScopeIsClosure ==
  imports.outcome = "match" =>
    LET reached == Reached(imports.graph, imports.roots)
    IN /\ imports.listed = reached /\ Missing \notin reached
       /\ Sources \ reached \subseteq imports.waived

(* Two equal identities are of the same build: nothing it reads changed between them. *)
IdentityIsTheBuild == identity.phase = "captured" /\ Unchanged => BuildInputs \cap identity.edited = {}
=============================================================================
