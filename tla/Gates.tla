------------------------------- MODULE Gates -------------------------------
(***************************************************************************)
(* The checks and generators of the Makefile, each started by itself: none  *)
(* reads another's state, so a behaviour is one tool's.                     *)
(***************************************************************************)
EXTENDS Masking, Scopes, TestPlans, SourceRows, CallSites, Closures, CallGraph, Census,
        Degenerette, SitePins, MemoryGuard, BuildInputs, QueueCodec, MoneyModels

VARIABLE tool  \* the tool that was started

rowvars == <<window, taint, blocks>>
graphvars == <<calls, route>>
censusvars == <<runs, layout>>
spins == <<joint, reel>>
pins == <<shape, gas>>
memory == <<prologue, guard>>
inputs == <<disk, slither, ledger>>
money == <<split, loan>>

texts == <<mask, scopes, callsites, rowvars, queue>>
graphs == <<closures, graphvars, pins, memory>>
data == <<plan, censusvars, spins, inputs, money>>

gatevars == <<tool, texts, graphs, data>>

Tools ==
  {"masks", "scopes", "sites", "rows", "queue", "closures", "graph", "pins", "memory",
   "plans", "census", "spins", "inputs", "money"}

GatesInit ==
  /\ tool \in Tools
  /\ mask = MaskIdle /\ ScopesIdle /\ SitesIdle /\ RowsIdleAll /\ QueueCodecIdle
  /\ ClosuresIdle /\ GraphIdle /\ SitePinsIdle /\ MemoryGuardIdle
  /\ plan = PlanIdle /\ CensusIdle /\ DegeneretteIdle /\ BuildInputsIdle /\ MoneyIdle

TextStep ==
  \/ tool = "masks" /\ MaskNext /\ UNCHANGED <<scopes, callsites, rowvars, queue>>
  \/ tool = "scopes" /\ ScopesNext /\ UNCHANGED <<mask, callsites, rowvars, queue>>
  \/ tool = "sites" /\ SitesNext /\ UNCHANGED <<mask, scopes, rowvars, queue>>
  \/ tool = "rows" /\ RowsNext /\ UNCHANGED <<mask, scopes, callsites, queue>>
  \/ tool = "queue" /\ QueueCodecNext /\ UNCHANGED <<mask, scopes, callsites, rowvars>>

GraphStep ==
  \/ tool = "closures" /\ ClosuresNext /\ UNCHANGED <<graphvars, pins, memory>>
  \/ tool = "graph" /\ GraphNext /\ UNCHANGED <<closures, pins, memory>>
  \/ tool = "pins" /\ SitePinsNext /\ UNCHANGED <<closures, graphvars, memory>>
  \/ tool = "memory" /\ MemoryGuardNext /\ UNCHANGED <<closures, graphvars, pins>>

DataStep ==
  \/ tool = "plans" /\ PlanNext /\ UNCHANGED <<censusvars, spins, inputs, money>>
  \/ tool = "census" /\ CensusNext /\ UNCHANGED <<plan, spins, inputs, money>>
  \/ tool = "spins" /\ DegeneretteNext /\ UNCHANGED <<plan, censusvars, inputs, money>>
  \/ tool = "inputs" /\ BuildInputsNext /\ UNCHANGED <<plan, censusvars, spins, money>>
  \/ tool = "money" /\ MoneyNext /\ UNCHANGED <<plan, censusvars, spins, inputs>>

GatesNext ==
  /\ UNCHANGED tool
  /\ \/ TextStep /\ UNCHANGED <<graphs, data>>
     \/ GraphStep /\ UNCHANGED <<texts, data>>
     \/ DataStep /\ UNCHANGED <<texts, graphs>>

GatesSpec == GatesInit /\ [][GatesNext]_gatevars

-----------------------------------------------------------------------------
(* Properties: what each family of tools owes its reader.                    *)

(* A scanner's idea of where it is in a source is true at every line: the braces open, the function it
   is in, the names that wait for a body, and so the function it charges a use to. *)
ScopesExact == ScopesFollowBraces /\ UsesAttributed

(* Every test selected is run, once, in the mode and with the arguments it was written for: however
   the suites are grouped, sharded, batched, excluded by profile or split into jobs. *)
RunAsSelected ==
  /\ FoundryRunsOnce /\ BatchesUniform /\ ShardsReplaceGroups
  /\ HardhatRunsOnce /\ ForwardedIntact /\ JobsCoverTests

(* No change passes the manifest gates with a storage access, a word or an unchecked block that was
   not reviewed in the function that has it, nor with a row whose line is gone. *)
RowsReviewed == WritesReviewed /\ WordsReviewed /\ BlocksReviewed

(* Of the calls of a file exactly those are listed, and in the mode, that CallsListed names, which says in
   what layouts the extractor misses a call. No recipient's call behind an override or a pointer and no delegatecall behind a
   route escapes review, and a dispatch is charged to the target its block sets. *)
CallsReviewed == CallsListed /\ TargetIsLexical /\ RecipientsReviewed /\ RoutesSound

(* Nothing pinned to a site changes unseen: hash preimages and tags, gas reads, the memory a prologue
   spills over, native queue operations. *)
SitesReviewed ==
  PreimagesApart /\ CopiesReviewed /\ PointerIsReal /\ SpillsMeasured /\ NoNativeOperation

(* What a tool says of a tree it says of the files it read: through linked directories, imports of
   imports, remapped dependencies, and edits and rebuilds while it works. *)
InputsCaptured ==
  /\ AliasesRetained /\ TracedIfImported /\ ScopeIsClosure /\ IdentityIsTheBuild
  /\ AnalysedIsCurrent /\ EvidenceOfTheCopy

(* The census counts each slot's life once, over interleaved and repeated logs, and under the names of
   what is in the slot. *)
CensusTrue == CensusExact /\ LabelsExact

(* The published odds are those of the reels: by convolution or enumeration, helped or rigged, and to
   the unit paid. *)
OddsTrue == ConvolutionIsEnumeration /\ HelpIsFair /\ ReelsFollowTheModel /\ PaidIsExact

(* Splits and loans neither create nor lose money for any pool, price or quantity, beyond the levels
   the scripts try. *)
MoneyConserved == SplitConserves /\ LoanBelowCost /\ OnePeriodCovers
=============================================================================
