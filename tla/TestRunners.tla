----------------------------- MODULE TestRunners -----------------------------
(***************************************************************************)
(* The three scripts together, as their comments allow them to be run: a    *)
(* Foundry runner alone in its checkout, Hardhat runners and campaigns side *)
(* by side in one because they lock it, and all of them with one log        *)
(* directory.                                                               *)
(***************************************************************************)
EXTENDS FoundryRunner, HardhatRunner, MutationCampaign

CONSTANT Casts  \* what runs: one script with all its batches, or two with one batch each

CastNames == {"foundry", "hardhat", "campaign", "foundries", "hardhats"}

First == CHOOSE r \in Runners : TRUE
FirstTree == CHOOSE c \in Trees : TRUE
OtherTree == CHOOSE c \in Trees : Trees = {FirstTree} \/ c # FirstTree

\* Two Foundry runners that share the log directory have a checkout each.
ASSUME CastAssumption ==
  /\ Casts \subseteq CastNames /\ Trees # {}
  /\ "foundries" \in Casts => OtherTree # FirstTree /\ \E r \in Runners : r # First

Alone(name) == name \notin {"foundries", "hardhats"}
KindIn(name, r) ==
  IF Alone(name) THEN IF r = First THEN name ELSE "absent"
  ELSE IF name = "foundries" THEN "foundry" ELSE "hardhat"
HomeIn(name, r) == IF r # First /\ name = "foundries" THEN OtherTree ELSE FirstTree

\* The other Foundry runner is met where it matters to the first, with its batch passed and its row
\* to be recorded.
LateIn(name, r) == name = "foundries" /\ r # First

Rows == [run : Runners, batch : 0..Batches, exit : {0, 1}]

UserFiles == [f \in Files |-> User]

ProcIn(name, r) ==
  [kind |-> KindIn(name, r), home |-> HomeIn(name, r), total |-> IF Alone(name) THEN Batches ELSE 1,
   pc |-> IF KindIn(name, r) = "absent" THEN "exited"
          ELSE IF LateIn(name, r) THEN "appending" ELSE "starting",
   body |-> "try", job |-> IF LateIn(name, r) THEN "batch" ELSE "none", batch |-> 1,
   pending |-> LateIn(name, r), row |-> IF LateIn(name, r) THEN 1 ELSE 0,
   history |-> <<>>, left |-> <<>>, backup |-> UserFiles, identity |-> 0, drift |-> FALSE,
   base |-> FALSE, based |-> {}, leaked |-> FALSE, cut |-> FALSE, status |-> -1]

OutcomeIn(name, r) == IF LateIn(name, r) THEN "passed" ELSE "none"

Init ==
  /\ \E name \in Casts :
       /\ proc = [r \in Runners |-> ProcIn(name, r)]
       /\ child = [r \in Runners |-> [group |-> NoGroup, outcome |-> OutcomeIn(name, r)]]
       /\ seen = [r \in Runners |->
            [b \in BatchNumbers |-> [inputs |-> {}, ended |-> OutcomeIn(name, r)]]]
       /\ tree = [c \in Trees |->
            IF name = "foundries" /\ c = OtherTree THEN [UserFiles EXCEPT !["pins"] = Run]
            ELSE UserFiles]
       /\ faults = IF Alone(name) THEN MaxFaults ELSE 1
  /\ rows = [r \in Runners |-> [current |-> <<>>, exit |-> [b \in 0..Batches |-> 0]]]
  /\ source = [c \in Trees |-> 0]
  /\ owner = [c \in Trees |-> Nobody]
  /\ summary = <<>> /\ flock = Nobody

\* A script's own steps.
Step(r) == FoundryStep(r) \/ HardhatStep(r) \/ CampaignStep(r)

Next == (\E r \in Runners : Step(r)) \/ Environment

Spec == Init /\ [][Next]_vars

\* While a script can go on, or something was sent SIGKILL, one of them does or goes, whichever the
\* system chooses; nothing makes a child finish, and nobody has to send a signal.
Reap(r) ==
  \/ child[r].group["wrapper"] = "dying" /\ EndWrapper(r, "broke")
  \/ child[r].group["compiler"] = "dying" /\ EndCompiler(r)

FairSpec == Spec /\ WF_vars(\E r \in Runners : Step(r) \/ Reap(r))

-----------------------------------------------------------------------------
(* Properties.                                                              *)

ProcessType ==
  [kind : {"foundry", "hardhat", "campaign", "absent"}, home : Trees, total : BatchNumbers,
   pc : {"starting", "spawning", "returned", "ready", "selecting", "baselining", "appending",
         "locking", "replacing", "recorded", "failing", "ignoring"}
        \cup InChild \cup Stopping \cup Restoring \cup Over,
   body : {"try", "except", "escape"}, job : {"none", "patch", "version", "batch"},
   batch : Nat, pending : BOOLEAN, row : 0..Batches, history : Seq(Rows),
   left : Seq(Files), backup : [Files -> Nat], identity : Versions, drift : BOOLEAN,
   base : BOOLEAN, based : SUBSET Nat, leaked : BOOLEAN, cut : BOOLEAN, status : -1..2]

TypeOK ==
  /\ proc \in [Runners -> ProcessType]
  /\ \A r \in Runners : Kind(r) # "campaign" => proc[r].batch \in 1..proc[r].total
  /\ child \in [Runners -> [group : [Members -> {"gone", "live", "dying"}], outcome : {"none", "passed", "asserted", "broke"}]]
  /\ rows \in [Runners -> [current : Seq(Nat), exit : [0..Batches -> {0, 1}]]]
  /\ tree \in [Trees -> [Files -> Nat]] /\ source \in [Trees -> Versions]
  /\ owner \in [Trees -> Runners \cup {Nobody}] /\ flock \in Runners \cup {Nobody}
  /\ summary \in Seq(Rows) /\ faults \in Nat

(* The inductive invariant of the theorems: a child's group outlives run_child only if a signal struck
   inside Popen or the script was killed, who is about to replace the summary holds its lock and has
   read all of it, and who writes a file has one left to restore. *)
RunnerInv ==
  /\ TypeOK
  /\ \A r \in Runners :
       /\ Gone(r) \/ proc[r].leaked \/ proc[r].pc \in InChild \cup Stopping \cup {"killed"}
       /\ At(r, "replacing") => flock = r /\ proc[r].history = summary
       /\ At(r, "writing") => proc[r].left # <<>>

(* The comments of run_child: the compilers are stopped before their inputs are restored.  The one
   exception is a signal inside Popen. *)
ReadersStopped ==
  \A r \in Runners : proc[r].pc \in Restoring => Gone(r) \/ proc[r].leaked

Idle(c) == \A r \in Runners : Home(r) = c => proc[r].pc \in {"starting", "exited"}

\* A script of this checkout was killed, or left a child behind.
Abandoned(c) ==
  \E r \in Runners : Home(r) = c /\ (proc[r].leaked \/ proc[r].pc = "killed")

Cut(c) == \E r \in Runners : Home(r) = c /\ proc[r].cut

(* Between scripts the user's files are the user's, whatever failed, raised or was interrupted: no
   backup is ever taken of another script's patched files (the locks before the backup, the finally
   blocks).  Except after a kill, or a signal that cut a finally block short. *)
UserFilesBack ==
  \A c \in Trees : Idle(c) /\ ~Abandoned(c) /\ ~Cut(c) => tree[c] = UserFiles

RowsOf(r) == {i \in DOMAIN summary : summary[i].run = r}
Summarised(r) == proc[r].kind \in {"foundry", "hardhat"} /\ proc[r].status = 0

(* Status 0 means the shared summary holds one row of each batch and no failure: none was lost to
   another writer, skipped after an exception or written twice. *)
GreenIsRecorded ==
  \A r \in Runners : Summarised(r) =>
    /\ Cardinality(RowsOf(r)) = proc[r].total
    /\ \A b \in 1..proc[r].total : \E i \in RowsOf(r) : summary[i].batch = b
    /\ \A i \in RowsOf(r) : summary[i].exit = 0

(* Status 0 means every batch's process passed, on the baseline when Hardhat vouches for it, though
   sources may have changed and changed back; and every mutant was compiled and caught by its own
   assertion, after the original passed. *)
GreenIsReal ==
  \A r \in Runners : proc[r].status = 0 =>
    \A b \in 1..proc[r].total :
      LET s == seen[r][b]
      IN /\ s.ended = (IF Kind(r) = "campaign" THEN "asserted" ELSE "passed")
         /\ Kind(r) = "hardhat" => \A i \in s.inputs : i.source = proc[r].identity
         /\ Kind(r) = "campaign" => /\ TestOf(b) \in proc[r].based /\ s.inputs # {}
                                    /\ \A i \in s.inputs : i.target = Mutant(b)

Evidence == INSTANCE EvidenceLog WITH Rows <- Rows, log <- summary

(* The shared summary is an append-only log, with any number of writers, signals and kills. *)
AppendOnly == Evidence!Spec

(* A script that was interrupted ends: cleaning up waits for nothing that may never come. *)
InterruptedEnds ==
  \A r \in Runners :
    proc[r].pc = "terminating" \/ proc[r].body # "try" ~> proc[r].pc \in Over
=============================================================================
