-------------------------- MODULE MutationCampaign --------------------------
(***************************************************************************)
(* scripts/audit/mutate-storage-reuse.py: in a disposable worktree equal to *)
(* the reviewed sources, each named test must pass on the original and then *)
(* fail, on its own assertion, on each mutant of the target.                *)
(***************************************************************************)
EXTENDS Checkout

IsCampaign(r) == Kind(r) = "campaign"

\* The named test a mutant is to be caught by.
TestOf(b) == (b + 1) \div 2

\* The worktree must be the reviewed one, byte for byte, before anything is backed up.
Reviewed(c) == source[c] = 0 /\ \A f \in Files : tree[c][f] = User

\* The lock is not waited for; a difference ends the process with status 2.
CampaignRefused(r) ==
  /\ IsCampaign(r) /\ At(r, "starting")
  /\ owner[Home(r)] # Nobody \/ ~Reviewed(Home(r))
  /\ Exits(r, 2)

\* Lock, backup and checks; the disposable configuration is installed and the pins are patched.
CampaignStart(r) ==
  /\ IsCampaign(r) /\ At(r, "starting") /\ owner[Home(r)] = Nobody /\ Reviewed(Home(r))
  /\ owner' = [owner EXCEPT ![Home(r)] = r]
  /\ tree' = [tree EXCEPT ![Home(r)]["config"] = Run]
  /\ proc' = [proc EXCEPT ![r] =
       [@ EXCEPT !.pc = "spawning", !.job = "patch", !.backup = tree[Home(r)]]]
  /\ UNCHANGED <<child, rows, source, summary, flock, faults, seen>>

CampaignPatched(r) ==
  /\ IsCampaign(r) /\ At(r, "returned") /\ proc[r].job = "patch"
  /\ Goto(r, IF child[r].outcome = "passed" THEN "ready" ELSE "failing")
  /\ UNCHANGED <<child, rows, tree, source, owner, summary, flock, faults, seen>>

BaselineDue(r) == TestOf(proc[r].batch) \notin proc[r].based

\* run: the target is the original for a test's baseline, and the next mutant after it.
CampaignRun(r) ==
  /\ IsCampaign(r) /\ At(r, "ready") /\ proc[r].batch <= proc[r].total
  /\ tree' = [tree EXCEPT ![Home(r)]["target"] =
       IF BaselineDue(r) THEN proc[r].backup["target"] ELSE Mutant(proc[r].batch)]
  /\ seen' = [seen EXCEPT ![r][proc[r].batch].inputs = {}]
  /\ proc' = [proc EXCEPT ![r] = [@ EXCEPT !.pc = "spawning", !.job = "batch", !.base = BaselineDue(r)]]
  /\ UNCHANGED <<child, rows, source, owner, summary, flock, faults>>

\* The compiler's inputs are compared with the files as they are now.
CompiledOther(r) ==
  \E i \in seen[r][proc[r].batch].inputs :
    i # [source |-> source[Home(r)], target |-> tree[Home(r)]["target"]]

\* classify_result: the named test alone ran, and passed, or failed on its own assertion.
Conclusive(r) ==
  /\ seen[r][proc[r].batch].inputs # {}
  /\ child[r].outcome = (IF proc[r].base THEN "passed" ELSE "asserted")

CampaignEvaluate(r) ==
  /\ IsCampaign(r) /\ At(r, "returned") /\ proc[r].job = "batch"
  /\ LET b == proc[r].batch
         good == Conclusive(r)
     IN \/ /\ CompiledOther(r) \/ (proc[r].base /\ ~good)
           /\ Goto(r, "failing") /\ UNCHANGED rows
        \/ /\ ~CompiledOther(r) /\ proc[r].base /\ good /\ UNCHANGED rows
           /\ proc' = [proc EXCEPT ![r] = [@ EXCEPT !.pc = "ready", !.based = proc[r].based \cup {TestOf(b)}]]
        \/ /\ ~CompiledOther(r) /\ ~proc[r].base
           /\ proc' = [proc EXCEPT ![r] = [@ EXCEPT !.pc = "ready", !.batch = b + 1]]
           /\ rows' = [rows EXCEPT ![r] = [current |-> Append(@.current, b),
                                           exit |-> [@.exit EXCEPT ![b] = IF good THEN 0 ELSE 1]]]
  /\ UNCHANGED <<child, tree, source, owner, summary, flock, faults, seen>>

\* wait's timeout takes run_child's cleanup path, like a signal.
CampaignTimeout(r) ==
  /\ IsCampaign(r) /\ At(r, "waiting") /\ Goto(r, "terminating")
  /\ UNCHANGED <<child, rows, tree, source, owner, summary, flock, faults, seen>>

\* The loop's end, or the except clause, which reports the error and fails the campaign.
CampaignDone(r) ==
  /\ IsCampaign(r)
  /\ \/ At(r, "ready") /\ proc[r].batch > proc[r].total /\ proc' = [proc EXCEPT ![r] = Finally(r)]
     \/ At(r, "failing") /\ proc' = [proc EXCEPT ![r] = [Finally(r) EXCEPT !.body = "except"]]
  /\ UNCHANGED <<child, rows, tree, source, owner, summary, flock, faults, seen>>

CampaignExit(r) ==
  /\ IsCampaign(r) /\ At(r, "restoring") /\ proc[r].left = <<>>
  /\ Exits(r, IF proc[r].body = "try" /\ \A b \in 1..proc[r].total : rows[r].exit[b] = 0 THEN 0 ELSE 1)

\* The parts the scripts have in common, as this one has them.
CampaignRunChild(r) == IsCampaign(r) /\ RunChild(r)
CampaignGroupExit(r) == IsCampaign(r) /\ GroupExit(r)
CampaignRestore(r) == IsCampaign(r) /\ Restore(r)

CampaignStep(r) ==
  \/ CampaignRunChild(r) \/ CampaignGroupExit(r) \/ CampaignRestore(r)
  \/ CampaignRefused(r) \/ CampaignStart(r) \/ CampaignPatched(r) \/ CampaignRun(r)
  \/ CampaignEvaluate(r) \/ CampaignTimeout(r) \/ CampaignDone(r) \/ CampaignExit(r)
=============================================================================
