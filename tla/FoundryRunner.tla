---------------------------- MODULE FoundryRunner ----------------------------
(***************************************************************************)
(* scripts/test-foundry-groups.py: patch the pins, then one forge process a *)
(* batch, a row each, and the backed-up files again whatever happened.      *)
(***************************************************************************)
EXTENDS Checkout

IsFoundry(r) == Kind(r) = "foundry"

\* main up to the handlers: the pins and profile files are backed up; no lock is taken.
FoundryStart(r) ==
  /\ IsFoundry(r) /\ At(r, "starting")
  /\ proc' = [proc EXCEPT ![r] =
       [@ EXCEPT !.pc = "spawning", !.job = "patch", !.backup = tree[Home(r)]]]
  /\ UNCHANGED <<child, rows, tree, source, owner, summary, flock, faults, seen>>

\* A failed patch raises CalledProcessError.
FoundryPatched(r) ==
  /\ IsFoundry(r) /\ At(r, "returned") /\ proc[r].job = "patch"
  /\ Goto(r, IF child[r].outcome = "passed" THEN "ready" ELSE "failing")
  /\ UNCHANGED <<child, rows, tree, source, owner, summary, flock, faults, seen>>

\* The batch's source identity is taken with the pins patched, and its row is the one pending.
FoundryBatch(r) ==
  /\ IsFoundry(r) /\ At(r, "ready")
  /\ proc' = [proc EXCEPT ![r] =
       [@ EXCEPT !.pc = "spawning", !.job = "batch", !.pending = TRUE, !.identity = source[Home(r)]]]
  /\ UNCHANGED <<child, rows, tree, source, owner, summary, flock, faults, seen>>

\* forge's exit code and totals, and the identity once more.
FoundryErrors(r) == child[r].outcome # "passed" \/ source[Home(r)] # proc[r].identity

FoundryEvaluate(r) ==
  /\ IsFoundry(r) /\ At(r, "returned") /\ proc[r].job = "batch"
  /\ proc' = [proc EXCEPT ![r].pc = "appending", ![r].row = proc[r].batch]
  /\ rows' = [rows EXCEPT ![r].exit[proc[r].batch] = IF FoundryErrors(r) THEN 1 ELSE 0]
  /\ UNCHANGED <<child, tree, source, owner, summary, flock, faults, seen>>

\* The run's own summary is written and no row is pending; after a failure row comes the end.
FoundryRecorded(r) ==
  /\ IsFoundry(r) /\ At(r, "recorded")
  /\ proc' = [proc EXCEPT ![r] =
       IF @.body = "try" /\ @.batch < @.total
       THEN [@ EXCEPT !.pc = "ready", !.batch = proc[r].batch + 1, !.pending = FALSE]
       ELSE [Finally(r) EXCEPT !.pending = FALSE]]
  /\ UNCHANGED <<child, rows, tree, source, owner, summary, flock, faults, seen>>

Failing(r) == \E i \in DOMAIN rows[r].current : rows[r].exit[rows[r].current[i]] # 0

FoundryExit(r) ==
  /\ IsFoundry(r) /\ At(r, "restoring") /\ proc[r].left = <<>>
  /\ Exits(r, IF proc[r].body = "escape" \/ rows[r].current = <<>> \/ Failing(r) THEN 1 ELSE 0)

\* The parts the scripts have in common, as this one has them.
FoundryRunChild(r) == IsFoundry(r) /\ RunChild(r)
FoundryGroupExit(r) == IsFoundry(r) /\ GroupExit(r)
FoundryRecord(r) == IsFoundry(r) /\ Record(r)
FoundryFailed(r) == IsFoundry(r) /\ Failed(r)
FoundryRestore(r) == IsFoundry(r) /\ Restore(r)

FoundryStep(r) ==
  \/ FoundryRunChild(r) \/ FoundryGroupExit(r) \/ FoundryRecord(r) \/ FoundryFailed(r) \/ FoundryRestore(r)
  \/ FoundryStart(r) \/ FoundryPatched(r) \/ FoundryBatch(r)
  \/ FoundryEvaluate(r) \/ FoundryRecorded(r) \/ FoundryExit(r)
=============================================================================
