----------------------------- MODULE BuildInputs -----------------------------
(***************************************************************************)
(* Two scripts whose evidence is about sources that somebody may be editing *)
(* and rebuilding meanwhile: check-slither.py, which validates the build    *)
(* info before and after a long analysis, and prove-eth-ledgers.py, which   *)
(* proves a copy.                                                           *)
(***************************************************************************)
EXTENDS Integers, FiniteSets

CONSTANTS
  SourceUnits, Scoped,   \* sources, and those of scope.txt
  MaxChanges       \* bound: edits and builds by someone else

ASSUME BuildInputsAssumption == Scoped \subseteq SourceUnits /\ Scoped # {} /\ MaxChanges \in Nat

VARIABLES
  disk,    \* each file's version, the build-info files, and the changes to come
  slither, \* the gate's stage, and what Slither was given
  ledger   \* the proof's stage, its copies and the hashes it has recorded

DiskIdle == [tree |-> [f \in SourceUnits |-> 0], infos |-> {}, changes |-> MaxChanges]
SlitherIdle == [stage |-> "idle", given |-> {}, rebuilt |-> FALSE]
LedgerIdle == [stage |-> "idle", left |-> {}, copy |-> [f \in SourceUnits |-> 0], hashes |-> [f \in SourceUnits |-> 0]]
BuildInputsIdle == disk = DiskIdle /\ slither = SlitherIdle /\ ledger = LedgerIdle

-----------------------------------------------------------------------------
(* Somebody else.                                                          *)

\* Changes after the verdict are no concern of it.
Undecided == slither.stage \notin {"passed", "failed"} /\ ledger.stage # "proving"

Edit(f) ==
  /\ disk.changes > 0 /\ Undecided
  /\ disk' = [disk EXCEPT !.tree[f] = 1 - @, !.changes = @ - 1]
  /\ UNCHANGED <<slither, ledger>>

\* An incremental build adds a build-info file of what it compiled; a clean one leaves no other.
Build(compiled, clean, complete) ==
  /\ disk.changes > 0 /\ Undecided /\ ledger = LedgerIdle
  /\ LET info == [sources |-> {<<f, disk.tree[f]>> : f \in compiled}, complete |-> complete]
     IN disk' = [disk EXCEPT !.infos = (IF clean THEN {} ELSE @) \cup {info}, !.changes = @ - 1]
  /\ slither' = [slither EXCEPT !.rebuilt = slither.stage # "idle"]
  /\ UNCHANGED ledger

-----------------------------------------------------------------------------
(* check-slither.                                                          *)

Compiled == UNION {info.sources : info \in disk.infos}

\* Mutant: a scope file compiled by any build-info file will do.
InputsCover ==
  /\ \A info \in disk.infos : info.complete
  /\ \A f \in Scoped : <<f, disk.tree[f]>> \in Compiled

\* validate_inputs: every source of every build-info file is as it is on disk, and scope is covered.
InputsValid ==
  /\ disk.infos # {}
  /\ \A info \in disk.infos : info.complete /\ info.sources # {}
  /\ \A source \in Compiled : source[2] = disk.tree[source[1]]
  /\ Scoped \subseteq {source[1] : source \in Compiled}

SlitherStart ==
  /\ ledger = LedgerIdle /\ slither.stage = "idle"
  /\ slither' = [slither EXCEPT !.stage = IF InputsValid THEN "analyzing" ELSE "failed", !.rebuilt = FALSE]
  /\ UNCHANGED <<disk, ledger>>

\* The analysis reads the build info; a logged error or a partial contract fails it.
Analyze(complete) ==
  /\ slither.stage = "analyzing"
  /\ slither' = [slither EXCEPT !.stage = IF complete THEN "analyzed" ELSE "failed", !.given = Compiled]
  /\ UNCHANGED <<disk, ledger>>

\* Mutant: the inputs are not validated again.
InputsUnchecked == TRUE

InputsStillValid == InputsValid

SlitherEnd ==
  /\ slither.stage = "analyzed"
  /\ slither' = [slither EXCEPT !.stage = IF InputsStillValid THEN "passed" ELSE "failed"]
  /\ UNCHANGED <<disk, ledger>>

SlitherOver ==
  /\ slither.stage \in {"passed", "failed"} /\ slither' = SlitherIdle
  /\ disk' = DiskIdle /\ UNCHANGED ledger

-----------------------------------------------------------------------------
(* prove-eth-ledgers.                                                      *)

LedgerStart ==
  /\ slither = SlitherIdle /\ disk.infos = {} /\ ledger.stage = "idle"
  /\ ledger' = [ledger EXCEPT !.stage = "copying", !.left = SourceUnits]
  /\ UNCHANGED <<disk, slither>>

CopyFile(f) ==
  /\ ledger.stage = "copying" /\ f \in ledger.left
  /\ ledger' = [ledger EXCEPT !.left = @ \ {f}, !.copy[f] = disk.tree[f],
                              !.stage = IF ledger.left = {f} THEN "copied" ELSE "copying"]
  /\ UNCHANGED <<disk, slither>>

\* Mutant: the checkout is hashed.
HashedFromTree == disk.tree

Hashed == ledger.copy

\* The copies are hashed; the provers then run in the copy.
HashCopies ==
  /\ ledger.stage = "copied"
  /\ ledger' = [ledger EXCEPT !.stage = "proving", !.hashes = Hashed]
  /\ UNCHANGED <<disk, slither>>

LedgerOver ==
  /\ ledger.stage = "proving" /\ ledger' = LedgerIdle
  /\ disk' = DiskIdle /\ UNCHANGED slither

BuildInputsNext ==
  \/ \E f \in SourceUnits : Edit(f)
  \/ \E compiled \in (SUBSET SourceUnits) \ {{}}, clean, complete \in BOOLEAN : Build(compiled, clean, complete)
  \/ SlitherStart \/ \E complete \in BOOLEAN : Analyze(complete)
  \/ SlitherEnd \/ SlitherOver
  \/ LedgerStart \/ \E f \in SourceUnits : CopyFile(f)
  \/ HashCopies \/ LedgerOver

-----------------------------------------------------------------------------
(* Properties.                                                              *)

(* "Reject edits made while analysis was running too": what a passing gate had analysed is what is on
   disk, every file of the scope among it, whoever edited or built before and during the analysis.  The
   one exception is a rebuild in the middle of it: the second validation then looks at the new build. *)
AnalysedIsCurrent ==
  slither.stage = "passed" /\ ~slither.rebuilt =>
    /\ \A source \in slither.given : source[2] = disk.tree[source[1]]
    /\ Scoped \subseteq {source[1] : source \in slither.given}

(* The hashes kept with a proof are those of the files the provers are given, though the checkout was
   edited while it was copied or before it was hashed. *)
EvidenceOfTheCopy ==
  ledger.stage = "proving" => ledger.hashes = ledger.copy
=============================================================================
