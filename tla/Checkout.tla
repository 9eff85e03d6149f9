------------------------------ MODULE Checkout ------------------------------
(***************************************************************************)
(* What the three scripts that rewrite a working tree have in common: the   *)
(* Foundry and Hardhat runners and the storage-reuse mutation campaign.     *)
(* Each backs files up, lets child processes patch and compile the tree,    *)
(* stops a child's whole process group before it goes on (run_child),       *)
(* records rows, and restores what it backed up in a finally block.         *)
(* Children, signals, SIGKILL, editors and the kernel are the environment.  *)
(***************************************************************************)
EXTENDS Integers, Sequences, FiniteSets, SequencesExt

CONSTANTS
  Runners,      \* processes of the scripts
  Trees,        \* checkouts
  Nobody,       \* no process
  Batches,      \* bound: batches (or mutants) of a script
  MaxFaults     \* bound: signals delivered, edits by someone else and SIGKILLs, in all

ASSUME CheckoutAssumption ==
  /\ Nobody \notin Runners /\ Batches \in Nat \ {0}
  /\ MaxFaults \in Nat

VARIABLES
  proc,         \* each script's program counter and locals
  child,        \* its child's process group, alive whatever becomes of the script
  rows,         \* the rows it has appended and each row object's exit code
  tree,         \* the files it rewrites, by checkout
  source,       \* the version of everything a source identity covers, by checkout
  owner,        \* flock of each checkout
  summary,      \* the shared summary.json
  flock,        \* flock of summary.lock
  faults,       \* signals, edits and kills still to come at most
  seen          \* what the compilers of each batch read, and how its wrapper ended

vars == <<proc, child, rows, tree, source, owner, summary, flock, faults, seen>>

BatchNumbers == 1..Batches
Versions == {0, 1}
Members == {"wrapper", "compiler"}
NoGroup == [m \in Members |-> "gone"]
Gone(r) == child[r].group = NoGroup
NewChild == [group |-> [NoGroup EXCEPT !["wrapper"] = "live"], outcome |-> "none"]

\* What a restore writes, in order.
Restored(kind) ==
  IF kind = "campaign" THEN <<"target", "pins", "config">> ELSE <<"pins", "profile">>
Files == {"pins", "profile", "target", "config"}

\* What a file holds: the user's bytes, a script's, a mutant's, or what an unfinished write left.
User == 0
Run == 1
Torn == 2
Mutant(b) == 2 + b

InChild == {"waiting", "draining"}
Stopping == {"terminating", "reaping"}
Restoring == {"restoring", "writing"}
Over == {"exited", "killed"}

Kind(r) == proc[r].kind
Home(r) == proc[r].home
At(r, l) == proc[r].pc = l
Goto(r, l) == proc' = [proc EXCEPT ![r].pc = l]

-----------------------------------------------------------------------------
(* run_child.                                                              *)

\* Popen returns; the interpreter has not entered the try block yet.
Spawned(r) ==
  /\ At(r, "spawning") /\ Goto(r, "waiting")
  /\ child' = [child EXCEPT ![r] = NewChild]
  /\ UNCHANGED <<rows, tree, source, owner, summary, flock, faults, seen>>

\* Mutant: only the wrapper is sent SIGKILL.
KillWrapper(r) ==
  child' = [child EXCEPT ![r].group["wrapper"] = IF @ = "gone" THEN "gone" ELSE "dying"]

\* SIGKILL to the group: its members die, but not at once.
KillGroup(r) ==
  child' = [child EXCEPT ![r].group = [m \in Members |-> IF @[m] = "gone" THEN "gone" ELSE "dying"]]

\* wait returns: the wrapper is gone, but not what it started.
Waited(r) ==
  /\ At(r, "waiting") /\ child[r].group["wrapper"] = "gone"
  /\ Goto(r, "draining") /\ KillGroup(r)
  /\ UNCHANGED <<rows, tree, source, owner, summary, flock, faults, seen>>

\* Mutant: goes on as soon as the kill was sent.
DrainedAtOnce(r) == TRUE

\* wait_for_process_group_exit, process_group_running
Drained(r) == Gone(r)

Returned(r) ==
  /\ At(r, "draining") /\ Drained(r) /\ Goto(r, "returned")
  /\ UNCHANGED <<child, rows, tree, source, owner, summary, flock, faults, seen>>

\* The except clause, further signals ignored: SIGTERM, on which members may end or not, three
\* seconds at most, then SIGKILL.
Terminated(r) ==
  /\ At(r, "terminating") /\ Goto(r, "reaping") /\ KillGroup(r)
  /\ UNCHANGED <<rows, tree, source, owner, summary, flock, faults, seen>>

Reraised(r) ==
  /\ At(r, "reaping") /\ Drained(r) /\ Goto(r, "failing")
  /\ UNCHANGED <<child, rows, tree, source, owner, summary, flock, faults, seen>>

RunChild(r) == Spawned(r) \/ Waited(r) \/ Terminated(r)

\* The group has gone: run_child returns, or raises again what it was interrupted by.
GroupExit(r) == Returned(r) \/ Reraised(r)

-----------------------------------------------------------------------------
(* Recording a row.                                                         *)

\* Mutant: the summary is rewritten without its lock.
LockFree(r) == TRUE

LockAvailable(r) == flock = Nobody

Appended(r) ==
  /\ At(r, "appending") /\ Goto(r, "locking")
  /\ rows' = [rows EXCEPT ![r].current = Append(@, proc[r].row)]
  /\ UNCHANGED <<child, tree, source, owner, summary, flock, faults, seen>>

\* flock, then the history is read.
Locked(r) ==
  /\ At(r, "locking") /\ LockAvailable(r)
  /\ flock' = r /\ proc' = [proc EXCEPT ![r].pc = "replacing", ![r].history = summary]
  /\ UNCHANGED <<child, rows, tree, source, owner, summary, faults, seen>>

SummaryRow(r) == [run |-> r, batch |-> proc[r].row, exit |-> rows[r].exit[proc[r].row]]

\* write_json replaces the file by a complete one; closing the lock file releases the lock.
Replaced(r) ==
  /\ At(r, "replacing")
  /\ summary' = Append(proc[r].history, SummaryRow(r)) /\ flock' = Nobody
  /\ proc' = [proc EXCEPT ![r].pc = "recorded", ![r].history = <<>>]
  /\ UNCHANGED <<child, rows, tree, source, owner, faults, seen>>

Record(r) == Appended(r) \/ Locked(r) \/ Replaced(r)

\* The except clause's row: the batch under way, else one for the runner (batch 0).  It is the same
\* object as the batch's row, so a row already appended changes its exit code too.
Failed(r) ==
  /\ At(r, "failing") /\ Kind(r) # "campaign"
  /\ LET id == IF proc[r].pending THEN proc[r].batch ELSE 0
     IN /\ proc' = [proc EXCEPT ![r].pc = "appending", ![r].row = id, ![r].body = "except"]
        /\ rows' = [rows EXCEPT ![r].exit[id] = 1]
  /\ UNCHANGED <<child, tree, source, owner, summary, flock, faults, seen>>

-----------------------------------------------------------------------------
(* The finally block.                                                       *)

\* Hardhat alone ignores signals before it restores.
FirstOfFinally(kind) == IF kind = "hardhat" THEN "ignoring" ELSE "restoring"

Finally(r) == [proc[r] EXCEPT !.pc = FirstOfFinally(Kind(r)), !.left = Restored(Kind(r))]

Ignored(r) ==
  /\ At(r, "ignoring") /\ Goto(r, "restoring")
  /\ UNCHANGED <<child, rows, tree, source, owner, summary, flock, faults, seen>>

\* write_bytes opens the file, which empties it, and then writes it.
Opened(r) ==
  /\ At(r, "restoring") /\ proc[r].left # <<>> /\ Goto(r, "writing")
  /\ tree' = [tree EXCEPT ![Home(r)][Head(proc[r].left)] = Torn]
  /\ UNCHANGED <<child, rows, source, owner, summary, flock, faults, seen>>

Written(r) ==
  /\ At(r, "writing")
  /\ LET f == Head(proc[r].left)
     IN tree' = [tree EXCEPT ![Home(r)][f] = proc[r].backup[f]]
  /\ proc' = [proc EXCEPT ![r].pc = "restoring", ![r].left = Tail(@)]
  /\ UNCHANGED <<child, rows, source, owner, summary, flock, faults, seen>>

Restore(r) == Ignored(r) \/ Opened(r) \/ Written(r)

Unlocked(r) == [c \in Trees |-> IF owner[c] = r THEN Nobody ELSE owner[c]]
Released(r) == IF flock = r THEN Nobody ELSE flock

\* The process ends: its locks go with it.
Exits(r, status) ==
  /\ proc' = [proc EXCEPT ![r].pc = "exited", ![r].status = status]
  /\ owner' = Unlocked(r)
  /\ UNCHANGED <<child, rows, tree, source, summary, flock, faults, seen>>

-----------------------------------------------------------------------------
(* Interruption.                                                            *)

\* Where the handler's exception is raised: handlers are installed and signals not ignored.
Interruptible(r) ==
  /\ proc[r].pc \notin {"starting"} \cup Stopping \cup Over
  /\ Kind(r) = "hardhat" => proc[r].pc \notin Restoring

\* Where it leads: out of run_child through its cleanup, from the try body to the except clause, from
\* the except clause to the finally block, and out of the finally block to the end.
Unwound(r) ==
  IF proc[r].pc \in InChild THEN [proc[r] EXCEPT !.pc = "terminating"]
  ELSE IF proc[r].pc \in {"ignoring"} \cup Restoring
    THEN [proc[r] EXCEPT !.pc = "exited", !.status = 1, !.cut = TRUE]
  ELSE IF proc[r].body = "try" THEN [proc[r] EXCEPT !.pc = "failing", !.history = <<>>]
  ELSE [Finally(r) EXCEPT !.body = "escape", !.history = <<>>]

Interrupted(r) ==
  /\ Interruptible(r) /\ faults > 0
  /\ faults' = faults - 1
  /\ proc' = [proc EXCEPT ![r] = Unwound(r)]
  /\ flock' = Released(r)
  /\ owner' = IF Unwound(r).pc = "exited" THEN Unlocked(r) ELSE owner
  /\ UNCHANGED <<child, rows, tree, source, summary, seen>>

\* Inside Popen the child may be running already, and no except clause of run_child covers it.
InterruptedInPopen(r) ==
  /\ At(r, "spawning") /\ faults > 0
  /\ faults' = faults - 1
  /\ proc' = [proc EXCEPT ![r] = [Unwound(r) EXCEPT !.leaked = TRUE]]
  /\ child' = [child EXCEPT ![r] = NewChild]
  /\ UNCHANGED <<rows, tree, source, owner, summary, flock, seen>>

\* SIGKILL, or the machine's out-of-memory killer: only the kernel cleans up.
Killed(r) ==
  /\ proc[r].pc \notin Over /\ faults > 0
  /\ faults' = faults - 1
  /\ proc' = [proc EXCEPT ![r].pc = "killed", ![r].history = <<>>]
  /\ owner' = Unlocked(r) /\ flock' = Released(r)
  /\ UNCHANGED <<child, rows, tree, source, summary, seen>>

-----------------------------------------------------------------------------
(* Children, editors and the kernel.                                        *)

Live(r, m) == child[r].group[m] = "live"

StartCompiler(r) ==
  /\ Live(r, "wrapper") /\ child[r].group["compiler"] = "gone" /\ proc[r].job = "batch"
  /\ child' = [child EXCEPT ![r].group["compiler"] = "live"]
  /\ UNCHANGED <<proc, rows, tree, source, owner, summary, flock, faults, seen>>

\* A compiler reads the tree, which the capture hook or the build info keeps; one that was sent
\* SIGKILL may still finish a read.
Compile(r) ==
  /\ child[r].group["compiler"] # "gone" /\ Kind(r) # "foundry"
  /\ seen' = [seen EXCEPT ![r][proc[r].batch].inputs =
       @ \cup {[source |-> source[Home(r)], target |-> tree[Home(r)]["target"]]}]
  /\ UNCHANGED <<proc, child, rows, tree, source, owner, summary, flock, faults>>

\* patchForFoundry.js writes the pins; a Hardhat batch patches them while it runs.
PatchingJob(kind) == IF kind = "hardhat" THEN "batch" ELSE "patch"

Patch(r) ==
  /\ child[r].group["wrapper"] # "gone" /\ proc[r].job = PatchingJob(Kind(r))
  /\ tree' = [tree EXCEPT ![Home(r)]["pins"] = Run]
  /\ UNCHANGED <<proc, child, rows, source, owner, summary, flock, faults, seen>>

\* How a wrapper ends: exit code 0 and complete totals, the selected test's own assertion, or anything
\* else (a compiler error, no tests, other failures, a signal).
Outcomes(kind) == {"passed", "broke"} \cup IF kind = "campaign" THEN {"asserted"} ELSE {}

EndWrapper(r, outcome) ==
  /\ child[r].group["wrapper"] # "gone"
  /\ child[r].group["wrapper"] = "dying" => outcome = "broke"
  /\ child' = [child EXCEPT ![r].group["wrapper"] = "gone", ![r].outcome = outcome]
  /\ seen' = IF proc[r].job = "batch" THEN [seen EXCEPT ![r][proc[r].batch].ended = outcome] ELSE seen
  /\ UNCHANGED <<proc, rows, tree, source, owner, summary, flock, faults>>

EndCompiler(r) ==
  /\ child[r].group["compiler"] # "gone"
  /\ child' = [child EXCEPT ![r].group["compiler"] = "gone"]
  /\ UNCHANGED <<proc, rows, tree, source, owner, summary, flock, faults, seen>>

\* An edit that some script may still see.
Edit(c) ==
  /\ \E r \in Runners : Home(r) = c /\ proc[r].pc \notin Over
  /\ faults > 0 /\ faults' = faults - 1
  /\ source' = [source EXCEPT ![c] = 1 - @]
  /\ UNCHANGED <<proc, child, rows, tree, owner, summary, flock, seen>>

Environment ==
  \/ \E r \in Runners :
       \/ Interrupted(r) \/ InterruptedInPopen(r) \/ Killed(r)
       \/ StartCompiler(r) \/ Compile(r) \/ Patch(r)
       \/ EndCompiler(r) \/ \E outcome \in Outcomes(Kind(r)) : EndWrapper(r, outcome)
  \/ \E c \in Trees : Edit(c)
=============================================================================
