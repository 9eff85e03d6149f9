---------------------------- MODULE HardhatRunner ----------------------------
(***************************************************************************)
(* scripts/test-hardhat-groups.py: the owner of a checkout's lock selects   *)
(* the profile, fixes a source baseline, and runs one hardhat process a     *)
(* batch whose compiler inputs are compared with that baseline.             *)
(***************************************************************************)
EXTENDS Checkout

IsHardhat(r) == Kind(r) = "hardhat"

\* Mutant: the lock is taken, by whoever asks.
TreeUnownedAlways(r) == TRUE

TreeUnowned(r) == owner[Home(r)] = Nobody

\* Another runner owns this checkout: argparse ends the process with status 2.
HardhatRefused(r) ==
  /\ IsHardhat(r) /\ At(r, "starting") /\ ~TreeUnowned(r) /\ Exits(r, 2)

\* The lock comes before the backup; the first children are version queries.
HardhatStart(r) ==
  /\ IsHardhat(r) /\ At(r, "starting") /\ TreeUnowned(r)
  /\ owner' = [owner EXCEPT ![Home(r)] = r]
  /\ proc' = [proc EXCEPT ![r] =
       [@ EXCEPT !.pc = "spawning", !.job = "version", !.backup = tree[Home(r)]]]
  /\ UNCHANGED <<child, rows, tree, source, summary, flock, faults, seen>>

HardhatVersioned(r) ==
  /\ IsHardhat(r) /\ At(r, "returned") /\ proc[r].job = "version" /\ Goto(r, "selecting")
  /\ UNCHANGED <<child, rows, tree, source, owner, summary, flock, faults, seen>>

\* select-profile writes the profile files; its CalledProcessError is not one the except clause takes.
HardhatProfile(r, ok) ==
  /\ IsHardhat(r) /\ At(r, "selecting")
  /\ proc' = [proc EXCEPT ![r] =
       IF ok THEN [@ EXCEPT !.pc = "baselining"] ELSE [Finally(r) EXCEPT !.body = "escape"]]
  /\ tree' = [tree EXCEPT ![Home(r)]["profile"] = IF ok THEN Run ELSE Torn]
  /\ UNCHANGED <<child, rows, source, owner, summary, flock, faults, seen>>

HardhatBaseline(r) ==
  /\ IsHardhat(r) /\ At(r, "baselining")
  /\ proc' = [proc EXCEPT ![r].pc = "ready", ![r].identity = source[Home(r)]]
  /\ UNCHANGED <<child, rows, tree, source, owner, summary, flock, faults, seen>>

\* Sources that moved before the batch end the run with a failure row of the batch.
HardhatBatch(r) ==
  /\ IsHardhat(r) /\ At(r, "ready")
  /\ proc' = [proc EXCEPT ![r] =
       [@ EXCEPT !.pc = IF source[Home(r)] = proc[r].identity THEN "spawning" ELSE "failing",
                 !.job = "batch", !.pending = TRUE]]
  /\ UNCHANGED <<child, rows, tree, source, owner, summary, flock, faults, seen>>

\* Mutant: only the files on disk are compared, not what the compiler was given.
HardhatDriftOnDisk(r) == source[Home(r)] # proc[r].identity

\* A live compiler input or the final identity differs from the baseline.
HardhatDrift(r) ==
  \/ source[Home(r)] # proc[r].identity
  \/ \E i \in seen[r][proc[r].batch].inputs : i.source # proc[r].identity

HardhatEvaluate(r) ==
  /\ IsHardhat(r) /\ At(r, "returned") /\ proc[r].job = "batch"
  /\ LET errors == child[r].outcome # "passed" \/ HardhatDrift(r)
     IN rows' = [rows EXCEPT ![r].exit[proc[r].batch] = IF errors THEN 1 ELSE 0]
  /\ proc' = [proc EXCEPT ![r].pc = "appending", ![r].row = proc[r].batch, ![r].drift = HardhatDrift(r)]
  /\ UNCHANGED <<child, tree, source, owner, summary, flock, faults, seen>>

\* Drift ends the loop.
HardhatRecorded(r) ==
  /\ IsHardhat(r) /\ At(r, "recorded")
  /\ proc' = [proc EXCEPT ![r] =
       IF @.body = "try" /\ @.batch < @.total /\ ~@.drift
       THEN [@ EXCEPT !.pc = "ready", !.batch = proc[r].batch + 1, !.pending = FALSE]
       ELSE [Finally(r) EXCEPT !.pending = FALSE]]
  /\ UNCHANGED <<child, rows, tree, source, owner, summary, flock, faults, seen>>

HardhatMissing(r) == Len(rows[r].current) # proc[r].total

HardhatExit(r) ==
  /\ IsHardhat(r) /\ At(r, "restoring") /\ proc[r].left = <<>>
  /\ LET failing == \E i \in DOMAIN rows[r].current : rows[r].exit[rows[r].current[i]] # 0
     IN Exits(r, IF proc[r].body = "escape" \/ HardhatMissing(r) \/ failing THEN 1 ELSE 0)

\* The parts the scripts have in common, as this one has them.
HardhatRunChild(r) == IsHardhat(r) /\ RunChild(r)
HardhatGroupExit(r) == IsHardhat(r) /\ GroupExit(r)
HardhatRecord(r) == IsHardhat(r) /\ Record(r)
HardhatFailed(r) == IsHardhat(r) /\ Failed(r)
HardhatRestore(r) == IsHardhat(r) /\ Restore(r)

HardhatStep(r) ==
  \/ HardhatRunChild(r) \/ HardhatGroupExit(r) \/ HardhatRecord(r) \/ HardhatFailed(r) \/ HardhatRestore(r)
  \/ HardhatRefused(r) \/ HardhatStart(r) \/ HardhatVersioned(r)
  \/ \E ok \in BOOLEAN : HardhatProfile(r, ok)
  \/ HardhatBaseline(r) \/ HardhatBatch(r) \/ HardhatEvaluate(r) \/ HardhatRecorded(r) \/ HardhatExit(r)
=============================================================================
