---------------------------- MODULE RunnerProofs ----------------------------
(***************************************************************************)
(* Theorems about the scripts of TestRunners, for any number of processes,  *)
(* checkouts, batches and faults.  First RunnerInv: one lemma shows per kind *)
(* of step that it is kept, Going, Move and OwnStep for a script that moves *)
(* while its child's group stays as it is, GroupMoves and GroupOnly for the *)
(* steps that change the group, SelfKeeps for the rest.                     *)
(* Then what the scripts' evidence is worth, UserFilesBack, GreenIsReal and *)
(* GreenIsRecorded, which ScriptsInv makes inductive.  Its parts are kept   *)
(* one after the other: EvidenceInv, what a script knows of its own batches *)
(* (one lemma ...Vouches per step of a script); then, from the way a step   *)
(* may change the processes (Conduct), the locks, the casts and the files   *)
(* still to be restored; last, one script's rows in the summary, whichever  *)
(* script steps.                                                            *)
(***************************************************************************)
EXTENDS TestRunners, FiniteSetTheorems, TLAPS

USE CheckoutAssumption, CastAssumption

\* The program counters.
PcType ==
  {"starting", "spawning", "returned", "ready", "selecting", "baselining", "appending",
   "locking", "replacing", "recorded", "failing", "ignoring"}
  \cup InChild \cup Stopping \cup Restoring \cup Over

\* The types of the variables no lemma about control speaks of.
DataOK ==
  /\ rows \in [Runners -> [current : Seq(Nat), exit : [0..Batches -> {0, 1}]]]
  /\ tree \in [Trees -> [Files -> Nat]] /\ source \in [Trees -> Versions]
  /\ owner \in [Trees -> Runners \cup {Nobody}] /\ faults \in Nat

\* Where a script is certain that its child's group has gone.
Outside(p) == p.pc \notin InChild \cup Stopping \cup {"killed"}

\* A script's process record changes to p, with whatever p says of its group true already.
LEMMA Move ==
  ASSUME RunnerInv, NEW r \in Runners, NEW p \in ProcessType,
         proc' = [proc EXCEPT ![r] = p], child' = child, summary' = summary,
         p.kind = proc[r].kind, p.kind # "campaign" => p.batch \in 1..p.total,
         proc[r].leaked => p.leaked,
         Outside(p) => Gone(r) \/ p.leaked,
         p.pc # "replacing",
         p.pc = "writing" => p.left # <<>>,
         \/ flock' = flock
         \/ flock = r /\ flock' = Nobody,
         DataOK'
  PROVE  RunnerInv'
<1>1. proc' \in [Runners -> ProcessType]
  BY DEF RunnerInv, TypeOK
<1>2. \A q \in Runners : proc'[q] = IF q = r THEN p ELSE proc[q]
  BY DEF RunnerInv, TypeOK
<1>3. \A q \in Runners : Kind(q)' # "campaign" => proc'[q].batch \in 1..proc'[q].total
  BY <1>2 DEF RunnerInv, TypeOK, Kind
<1>4. flock' \in Runners \cup {Nobody}
  BY DEF RunnerInv, TypeOK
<1>5. TypeOK'
  BY <1>1, <1>3, <1>4 DEF RunnerInv, TypeOK, DataOK
<1>6. ASSUME NEW q \in Runners
      PROVE  Gone(q)' \/ proc'[q].leaked \/ proc'[q].pc \in InChild \cup Stopping \cup {"killed"}
  <2>1. Gone(q)' <=> Gone(q)
    BY DEF Gone
  <2> QED
    BY <1>2, <2>1 DEF RunnerInv, Outside
<1>7. ASSUME NEW q \in Runners, At(q, "replacing")'
      PROVE  flock' = q /\ proc'[q].history = summary'
  <2>1. q # r /\ proc'[q] = proc[q]
    BY <1>2, <1>7 DEF At
  <2>2. flock = q /\ proc[q].history = summary
    BY <2>1, <1>7 DEF RunnerInv, At
  <2> QED
    BY <2>1, <2>2
<1>8. ASSUME NEW q \in Runners, At(q, "writing")'
      PROVE  proc'[q].left # <<>>
  BY <1>2, <1>8 DEF RunnerInv, At
<1> QED
  BY <1>5, <1>6, <1>7, <1>8 DEF RunnerInv

\* Only the program counter changes.
LEMMA Going ==
  ASSUME RunnerInv, NEW r \in Runners, NEW l \in PcType,
         Goto(r, l), child' = child, summary' = summary, flock' = flock, DataOK',
         l # "replacing", l = "writing" => proc[r].left # <<>>,
         Gone(r) \/ proc[r].leaked \/ l \in InChild \cup Stopping \cup {"killed"}
  PROVE  RunnerInv'
<1> DEFINE p == [proc[r] EXCEPT !.pc = l]
<1>1. proc[r] \in ProcessType
  BY DEF RunnerInv, TypeOK
<1>2. p \in ProcessType
  BY <1>1 DEF ProcessType, PcType
<1>3. /\ p.pc = l /\ p.kind = proc[r].kind /\ p.batch = proc[r].batch /\ p.total = proc[r].total
      /\ p.leaked = proc[r].leaked /\ p.left = proc[r].left
  BY <1>1 DEF ProcessType
<1>4. proc' = [proc EXCEPT ![r] = p]
  BY DEF Goto
<1>5. p.kind # "campaign" => p.batch \in 1..p.total
  BY <1>3 DEF RunnerInv, TypeOK, Kind
<1> HIDE DEF p
<1> QED
  BY <1>2, <1>3, <1>4, <1>5, Move DEF Outside

LEMMA ReturnedKeeps ==
  ASSUME RunnerInv, NEW r \in Runners, Returned(r)
  PROVE  RunnerInv'
<1>1. Goto(r, "returned") /\ child' = child /\ summary' = summary /\ flock' = flock /\ proc[r].pc = "draining"
  BY DEF Returned, At
<1>2. DataOK'
  BY DEF Returned, RunnerInv, TypeOK, DataOK
<1>3. Gone(r) \/ proc[r].leaked \/ "returned" \in Stopping
  BY <1>1 DEF Returned, Drained, RunnerInv, InChild, Stopping
<1> QED
  BY <1>1, <1>2, <1>3, Going DEF PcType, Stopping, Restoring

LEMMA ReraisedKeeps ==
  ASSUME RunnerInv, NEW r \in Runners, Reraised(r)
  PROVE  RunnerInv'
<1>1. Goto(r, "failing") /\ child' = child /\ summary' = summary /\ flock' = flock /\ proc[r].pc = "reaping"
  BY DEF Reraised, At
<1>2. DataOK'
  BY DEF Reraised, RunnerInv, TypeOK, DataOK
<1>3. Gone(r) \/ proc[r].leaked \/ "failing" \in Stopping
  BY <1>1 DEF Reraised, Drained, RunnerInv, InChild, Stopping
<1> QED
  BY <1>1, <1>2, <1>3, Going DEF PcType, Stopping, Restoring

LEMMA IgnoredKeeps ==
  ASSUME RunnerInv, NEW r \in Runners, Ignored(r)
  PROVE  RunnerInv'
<1>1. Goto(r, "restoring") /\ child' = child /\ summary' = summary /\ flock' = flock /\ proc[r].pc = "ignoring"
  BY DEF Ignored, At
<1>2. DataOK'
  BY DEF Ignored, RunnerInv, TypeOK, DataOK
<1>3. Gone(r) \/ proc[r].leaked \/ "restoring" \in Stopping
  BY <1>1 DEF Ignored, RunnerInv, InChild, Stopping
<1> QED
  BY <1>1, <1>2, <1>3, Going DEF PcType, Stopping, Restoring

LEMMA HardhatVersionedKeeps ==
  ASSUME RunnerInv, NEW r \in Runners, HardhatVersioned(r)
  PROVE  RunnerInv'
<1>1. Goto(r, "selecting") /\ child' = child /\ summary' = summary /\ flock' = flock /\ proc[r].pc = "returned"
  BY DEF HardhatVersioned, At
<1>2. DataOK'
  BY DEF HardhatVersioned, RunnerInv, TypeOK, DataOK
<1>3. Gone(r) \/ proc[r].leaked \/ "selecting" \in Stopping
  BY <1>1 DEF HardhatVersioned, RunnerInv, InChild, Stopping
<1> QED
  BY <1>1, <1>2, <1>3, Going DEF PcType, Stopping, Restoring

LEMMA CampaignTimeoutKeeps ==
  ASSUME RunnerInv, NEW r \in Runners, CampaignTimeout(r)
  PROVE  RunnerInv'
<1>1. Goto(r, "terminating") /\ child' = child /\ summary' = summary /\ flock' = flock /\ proc[r].pc = "waiting"
  BY DEF CampaignTimeout, At
<1>2. DataOK'
  BY DEF CampaignTimeout, RunnerInv, TypeOK, DataOK
<1>3. Gone(r) \/ proc[r].leaked \/ "terminating" \in Stopping
  BY <1>1 DEF CampaignTimeout, RunnerInv, InChild, Stopping
<1> QED
  BY <1>1, <1>2, <1>3, Going DEF PcType, Stopping, Restoring

LEMMA FoundryPatchedKeeps ==
  ASSUME RunnerInv, NEW r \in Runners, FoundryPatched(r)
  PROVE  RunnerInv'
<1> DEFINE l == IF child[r].outcome = "passed" THEN "ready" ELSE "failing"
<1>1. Goto(r, l) /\ child' = child /\ summary' = summary /\ flock' = flock /\ proc[r].pc = "returned"
  BY DEF FoundryPatched, At
<1>2. DataOK'
  BY DEF FoundryPatched, RunnerInv, TypeOK, DataOK
<1>3. Gone(r) \/ proc[r].leaked
  BY <1>1 DEF RunnerInv, InChild, Stopping
<1>4. l \in {"ready", "failing"}
  OBVIOUS
<1> HIDE DEF l
<1> QED
  BY <1>1, <1>2, <1>3, <1>4, Going DEF PcType

LEMMA CampaignPatchedKeeps ==
  ASSUME RunnerInv, NEW r \in Runners, CampaignPatched(r)
  PROVE  RunnerInv'
<1> DEFINE l == IF child[r].outcome = "passed" THEN "ready" ELSE "failing"
<1>1. Goto(r, l) /\ child' = child /\ summary' = summary /\ flock' = flock /\ proc[r].pc = "returned"
  BY DEF CampaignPatched, At
<1>2. DataOK'
  BY DEF CampaignPatched, RunnerInv, TypeOK, DataOK
<1>3. Gone(r) \/ proc[r].leaked
  BY <1>1 DEF RunnerInv, InChild, Stopping
<1>4. l \in {"ready", "failing"}
  OBVIOUS
<1> HIDE DEF l
<1> QED
  BY <1>1, <1>2, <1>3, <1>4, Going DEF PcType

LEMMA AppendedKeeps ==
  ASSUME RunnerInv, NEW r \in Runners, Appended(r)
  PROVE  RunnerInv'
<1>1. Goto(r, "locking") /\ child' = child /\ summary' = summary /\ flock' = flock /\ proc[r].pc = "appending"
  BY DEF Appended, At
<1>2. proc[r].row \in Nat
  BY DEF RunnerInv, TypeOK, ProcessType
<1>3. Append(rows[r].current, proc[r].row) \in Seq(Nat)
  BY <1>2 DEF RunnerInv, TypeOK
<1>4. DataOK'
  BY <1>3 DEF Appended, RunnerInv, TypeOK, DataOK
<1>5. Gone(r) \/ proc[r].leaked
  BY <1>1 DEF RunnerInv, InChild, Stopping
<1> QED
  BY <1>1, <1>4, <1>5, Going DEF PcType

\* A file is written.
LEMMA TreeWrite ==
  ASSUME NEW c, NEW f, NEW v \in Nat, tree \in [Trees -> [Files -> Nat]],
         tree' = [tree EXCEPT ![c][f] = v]
  PROVE  tree' \in [Trees -> [Files -> Nat]]
<1>1. c \in Trees => [tree[c] EXCEPT ![f] = v] \in [Files -> Nat]
  OBVIOUS
<1> QED
  BY <1>1

LEMMA OpenedKeeps ==
  ASSUME RunnerInv, NEW r \in Runners, Opened(r)
  PROVE  RunnerInv'
<1>1. /\ Goto(r, "writing") /\ child' = child /\ summary' = summary /\ flock' = flock
      /\ proc[r].pc = "restoring" /\ proc[r].left # <<>>
  BY DEF Opened, At
<1>2. tree' \in [Trees -> [Files -> Nat]]
  <2>1. tree' = [tree EXCEPT ![Home(r)][Head(proc[r].left)] = Torn]
    BY DEF Opened
  <2>2. tree \in [Trees -> [Files -> Nat]]
    BY DEF RunnerInv, TypeOK
  <2>3. Torn \in Nat
    BY DEF Torn
  <2> QED
    BY <2>1, <2>2, <2>3, TreeWrite, Zenon
<1>4. DataOK'
  BY <1>2 DEF Opened, RunnerInv, TypeOK, DataOK
<1>3. Gone(r) \/ proc[r].leaked
  BY <1>1 DEF RunnerInv, InChild, Stopping
<1> QED
  BY <1>1, <1>3, <1>4, Going DEF PcType, Restoring

\* Only data changes.
LEMMA SelfKeeps ==
  ASSUME RunnerInv, proc' = proc, child' = child, summary' = summary, flock' = flock, DataOK'
  PROVE  RunnerInv'
<1>1. TypeOK'
  BY DEF RunnerInv, TypeOK, DataOK, Kind
<1> QED
  BY <1>1 DEF RunnerInv, Gone, At

\* One process moves and only its group changes, in one of the ways run_child allows.
LEMMA GroupMoves ==
  ASSUME RunnerInv, NEW r \in Runners, NEW p \in ProcessType, NEW g,
         proc' = [proc EXCEPT ![r] = p], child' = [child EXCEPT ![r] = g],
         g \in [group : [Members -> {"gone", "live", "dying"}],
                outcome : {"none", "passed", "asserted", "broke"}],
         summary' = summary, flock' = flock,
         p.kind = proc[r].kind, p.batch = proc[r].batch, p.total = proc[r].total,
         p.pc = "replacing" => At(r, "replacing") /\ p.history = proc[r].history,
         p.pc = "writing" => p.left # <<>>,
         Outside(p) => g.group = NoGroup \/ p.leaked,
         DataOK'
  PROVE  RunnerInv'
<1>1. \A q \in Runners : proc'[q] = (IF q = r THEN p ELSE proc[q]) /\ child'[q] = (IF q = r THEN g ELSE child[q])
  BY DEF RunnerInv, TypeOK
<1>2. proc' \in [Runners -> ProcessType]
  BY DEF RunnerInv, TypeOK
<1>3. child' \in [Runners -> [group : [Members -> {"gone", "live", "dying"}],
                              outcome : {"none", "passed", "asserted", "broke"}]]
  BY DEF RunnerInv, TypeOK
<1>4. \A q \in Runners : Kind(q)' # "campaign" => proc'[q].batch \in 1..proc'[q].total
  BY <1>1 DEF RunnerInv, TypeOK, Kind
<1>5. TypeOK'
  BY <1>2, <1>3, <1>4 DEF RunnerInv, TypeOK, DataOK
<1>6. ASSUME NEW q \in Runners
      PROVE  Gone(q)' \/ proc'[q].leaked \/ proc'[q].pc \in InChild \cup Stopping \cup {"killed"}
  BY <1>1 DEF RunnerInv, Outside, Gone
<1>7. ASSUME NEW q \in Runners, At(q, "replacing")'
      PROVE  flock' = q /\ proc'[q].history = summary'
  BY <1>1, <1>7 DEF RunnerInv, At
<1>8. ASSUME NEW q \in Runners, At(q, "writing")'
      PROVE  proc'[q].left # <<>>
  BY <1>1, <1>8 DEF RunnerInv, At
<1> QED
  BY <1>5, <1>6, <1>7, <1>8 DEF RunnerInv

\* flock has one holder, so the history read under it stays the summary until it is replaced.
LEMMA LockedKeeps ==
  ASSUME RunnerInv, NEW r \in Runners, Locked(r)
  PROVE  RunnerInv'
<1> DEFINE p == [proc[r] EXCEPT !.pc = "replacing", !.history = summary]
<1>1. proc[r] \in ProcessType /\ summary \in Seq(Rows) /\ proc \in [Runners -> ProcessType]
  BY DEF RunnerInv, TypeOK
<1>2. p \in ProcessType
  BY <1>1 DEF ProcessType
<1>3. /\ p.kind = proc[r].kind /\ p.batch = proc[r].batch /\ p.total = proc[r].total
      /\ p.leaked = proc[r].leaked /\ p.pc = "replacing" /\ p.history = summary
  BY <1>1 DEF ProcessType
<1>4. proc' = [proc EXCEPT ![r] = p]
  BY <1>1 DEF Locked
<1>5. Gone(r) \/ p.leaked
  BY <1>3 DEF Locked, RunnerInv, At, InChild, Stopping
<1> HIDE DEF p
<1>6. \A q \in Runners : proc'[q] = IF q = r THEN p ELSE proc[q]
  BY <1>1, <1>4
<1>7. TypeOK'
  <2>1. proc' \in [Runners -> ProcessType]
    BY <1>1, <1>2, <1>4
  <2>2. \A q \in Runners : Kind(q)' # "campaign" => proc'[q].batch \in 1..proc'[q].total
    BY <1>3, <1>6 DEF RunnerInv, TypeOK, Kind
  <2> QED
    BY <2>1, <2>2 DEF Locked, RunnerInv, TypeOK
<1>8. ASSUME NEW q \in Runners
      PROVE  Gone(q)' \/ proc'[q].leaked \/ proc'[q].pc \in InChild \cup Stopping \cup {"killed"}
  BY <1>3, <1>5, <1>6 DEF Locked, RunnerInv, Gone
<1>9. ASSUME NEW q \in Runners, At(q, "replacing")'
      PROVE  flock' = q /\ proc'[q].history = summary'
  <2>1. CASE q = r
    BY <1>3, <1>6, <2>1 DEF Locked
  <2>2. CASE q # r
    BY <1>6, <1>9, <2>2, CheckoutAssumption DEF Locked, LockAvailable, RunnerInv, At
  <2> QED
    BY <2>1, <2>2
<1>10. ASSUME NEW q \in Runners, At(q, "writing")'
      PROVE  proc'[q].left # <<>>
  BY <1>3, <1>6, <1>10 DEF RunnerInv, At
<1> QED
  BY <1>7, <1>8, <1>9, <1>10 DEF RunnerInv

LEMMA ReplacedKeeps ==
  ASSUME RunnerInv, NEW r \in Runners, Replaced(r)
  PROVE  RunnerInv' /\ \E row \in Rows : summary' = Append(summary, row)
<1> DEFINE p == [proc[r] EXCEPT !.pc = "recorded", !.history = <<>>]
<1>1. proc[r] \in ProcessType /\ summary \in Seq(Rows) /\ proc \in [Runners -> ProcessType]
  BY DEF RunnerInv, TypeOK
<1>2. p \in ProcessType
  <2>1. <<>> \in Seq(Rows)
    OBVIOUS
  <2> QED
    BY <1>1, <2>1 DEF ProcessType
<1>3. /\ p.kind = proc[r].kind /\ p.batch = proc[r].batch /\ p.total = proc[r].total
      /\ p.leaked = proc[r].leaked /\ p.pc = "recorded"
  BY <1>1 DEF ProcessType
<1>4. proc' = [proc EXCEPT ![r] = p]
  BY <1>1 DEF Replaced
<1>5. Gone(r) \/ p.leaked
  BY <1>3 DEF Replaced, RunnerInv, At, InChild, Stopping
<1> HIDE DEF p
<1>6. \A q \in Runners : proc'[q] = IF q = r THEN p ELSE proc[q]
  BY <1>1, <1>4
<1>7. flock = r /\ proc[r].history = summary
  BY DEF RunnerInv, Replaced, At
<1>8. SummaryRow(r) \in Rows
  <2>1. proc[r].row \in 0..Batches
    BY <1>1 DEF ProcessType
  <2>2. rows[r].exit[proc[r].row] \in {0, 1}
    BY <2>1 DEF RunnerInv, TypeOK
  <2> QED
    BY <2>1, <2>2 DEF SummaryRow, Rows
<1>9. summary' = Append(summary, SummaryRow(r)) /\ summary' \in Seq(Rows)
  BY <1>1, <1>7, <1>8 DEF Replaced
<1>10. TypeOK'
  <2>1. proc' \in [Runners -> ProcessType]
    BY <1>1, <1>2, <1>4
  <2>2. \A q \in Runners : Kind(q)' # "campaign" => proc'[q].batch \in 1..proc'[q].total
    BY <1>3, <1>6 DEF RunnerInv, TypeOK, Kind
  <2> QED
    BY <1>9, <2>1, <2>2 DEF Replaced, RunnerInv, TypeOK
<1>11. ASSUME NEW q \in Runners
      PROVE  Gone(q)' \/ proc'[q].leaked \/ proc'[q].pc \in InChild \cup Stopping \cup {"killed"}
  BY <1>3, <1>5, <1>6 DEF Replaced, RunnerInv, Gone
<1>12. ASSUME NEW q \in Runners
      PROVE  ~At(q, "replacing")'
  BY <1>3, <1>6, <1>7 DEF RunnerInv, At
<1>13. ASSUME NEW q \in Runners, At(q, "writing")'
      PROVE  proc'[q].left # <<>>
  BY <1>3, <1>6, <1>13 DEF RunnerInv, At
<1> QED
  BY <1>8, <1>9, <1>10, <1>11, <1>12, <1>13 DEF RunnerInv

LEMMA FailedKeeps ==
  ASSUME RunnerInv, NEW r \in Runners, Failed(r)
  PROVE  RunnerInv'
<1> DEFINE id == IF proc[r].pending THEN proc[r].batch ELSE 0
           p == [proc[r] EXCEPT !.pc = "appending", !.row = id, !.body = "except"]
<1>1. proc[r] \in ProcessType /\ proc \in [Runners -> ProcessType]
  BY DEF RunnerInv, TypeOK
<1>2. id \in 0..Batches
  BY <1>1 DEF Failed, RunnerInv, TypeOK, ProcessType, BatchNumbers
<1>3. proc' = [proc EXCEPT ![r] = p] /\ rows' = [rows EXCEPT ![r].exit[id] = 1]
  BY <1>1 DEF Failed
<1> HIDE DEF id
<1>4. p \in ProcessType
  BY <1>1, <1>2 DEF ProcessType
<1>5. /\ p.kind = proc[r].kind /\ p.batch = proc[r].batch /\ p.total = proc[r].total
      /\ p.leaked = proc[r].leaked /\ p.pc = "appending"
  BY <1>1 DEF ProcessType
<1> HIDE DEF p
<1>6. Gone(r) \/ p.leaked
  BY <1>5 DEF Failed, RunnerInv, At, InChild, Stopping
<1>7. DataOK'
  <2>1. rows' \in [Runners -> [current : Seq(Nat), exit : [0..Batches -> {0, 1}]]]
    BY <1>2, <1>3, ZenonT(60) DEF RunnerInv, TypeOK
  <2> QED
    BY <2>1 DEF Failed, RunnerInv, TypeOK, DataOK
<1>8. p.kind # "campaign" => p.batch \in 1..p.total
  BY <1>5 DEF RunnerInv, TypeOK, Kind
<1> QED
  BY <1>3, <1>4, <1>5, <1>6, <1>7, <1>8, Move DEF Failed

LEMMA FinallyType ==
  ASSUME RunnerInv, NEW r \in Runners
  PROVE  /\ Finally(r) \in ProcessType /\ Finally(r).pc \in {"ignoring", "restoring"}
         /\ Finally(r).kind = proc[r].kind /\ Finally(r).batch = proc[r].batch
         /\ Finally(r).total = proc[r].total /\ Finally(r).leaked = proc[r].leaked
<1>1. proc[r] \in ProcessType
  BY DEF RunnerInv, TypeOK
<1>2. Restored(Kind(r)) \in Seq(Files)
  <2>1. {"target", "pins", "config", "profile"} = Files
    BY DEF Files
  <2>2. <<"target", "pins", "config">> \in Seq(Files)
    BY <2>1
  <2>3. <<"pins", "profile">> \in Seq(Files)
    BY <2>1
  <2> QED
    BY <2>2, <2>3 DEF Restored
<1>3. FirstOfFinally(Kind(r)) \in {"ignoring", "restoring"}
  BY DEF FirstOfFinally
<1> QED
  BY <1>1, <1>2, <1>3 DEF Finally, ProcessType, Restoring

LEMMA UnlockedType ==
  ASSUME RunnerInv, NEW r \in Runners
  PROVE  Unlocked(r) \in [Trees -> Runners \cup {Nobody}]
BY DEF RunnerInv, TypeOK, Unlocked

LEMMA HomeType ==
  ASSUME RunnerInv, NEW r \in Runners
  PROVE  Home(r) \in Trees /\ source[Home(r)] \in Versions /\ tree[Home(r)] \in [Files -> Nat]
<1>1. Home(r) \in Trees
  BY DEF RunnerInv, TypeOK, Home, ProcessType
<1> QED
  BY <1>1 DEF RunnerInv, TypeOK

LEMMA WrittenKeeps ==
  ASSUME RunnerInv, NEW r \in Runners, Written(r)
  PROVE  RunnerInv'
<1> DEFINE f == Head(proc[r].left)
           p == [proc[r] EXCEPT !.pc = "restoring", !.left = Tail(@)]
<1>1. proc[r] \in ProcessType /\ proc \in [Runners -> ProcessType]
  BY DEF RunnerInv, TypeOK
<1>2. /\ proc[r].left \in Seq(Files) /\ proc[r].left # <<>> /\ proc[r].backup \in [Files -> Nat]
  BY <1>1 DEF Written, RunnerInv, At, ProcessType
<1>3. f \in Files /\ Tail(proc[r].left) \in Seq(Files)
  BY <1>2
<1>4. proc' = [proc EXCEPT ![r] = p] /\ tree' = [tree EXCEPT ![Home(r)][f] = proc[r].backup[f]]
  BY <1>1 DEF Written
<1>5. p \in ProcessType
  BY <1>1, <1>3 DEF ProcessType, Restoring
<1>6. /\ p.kind = proc[r].kind /\ p.batch = proc[r].batch /\ p.total = proc[r].total
      /\ p.leaked = proc[r].leaked /\ p.pc = "restoring"
  BY <1>1 DEF ProcessType
<1> HIDE DEF p, f
<1>7. DataOK'
  <2>1. proc[r].backup[f] \in Nat /\ tree \in [Trees -> [Files -> Nat]]
    BY <1>2, <1>3 DEF RunnerInv, TypeOK
  <2>2. tree' \in [Trees -> [Files -> Nat]]
    BY <1>4, <2>1, TreeWrite, Zenon
  <2> QED
    BY <2>2 DEF Written, RunnerInv, TypeOK, DataOK
<1>8. Gone(r) \/ p.leaked
  BY <1>6 DEF Written, RunnerInv, At, InChild, Stopping
<1>9. p.kind # "campaign" => p.batch \in 1..p.total
  BY <1>6 DEF RunnerInv, TypeOK, Kind
<1> QED
  BY <1>4, <1>5, <1>6, <1>7, <1>8, <1>9, Move DEF Written

LEMMA ChildType ==
  ASSUME RunnerInv, NEW r \in Runners
  PROVE  /\ child[r] \in [group : [Members -> {"gone", "live", "dying"}],
                          outcome : {"none", "passed", "asserted", "broke"}]
         /\ child[r].group \in [Members -> {"gone", "live", "dying"}]
BY DEF RunnerInv, TypeOK

LEMMA NewChildType ==
  NewChild \in [group : [Members -> {"gone", "live", "dying"}],
                outcome : {"none", "passed", "asserted", "broke"}]
BY DEF NewChild, NoGroup, Members

LEMMA SpawnedKeeps ==
  ASSUME RunnerInv, NEW r \in Runners, Spawned(r)
  PROVE  RunnerInv'
<1> DEFINE p == [proc[r] EXCEPT !.pc = "waiting"]
<1>1. proc[r] \in ProcessType /\ proc \in [Runners -> ProcessType]
  BY DEF RunnerInv, TypeOK
<1>2. p \in ProcessType
  BY <1>1 DEF ProcessType, InChild
<1>3. /\ p.kind = proc[r].kind /\ p.batch = proc[r].batch /\ p.total = proc[r].total
      /\ p.pc = "waiting"
  BY <1>1 DEF ProcessType
<1>4. proc' = [proc EXCEPT ![r] = p]
  BY DEF Spawned, Goto
<1> HIDE DEF p
<1>5. DataOK'
  BY DEF Spawned, RunnerInv, TypeOK, DataOK
<1> QED
  BY <1>2, <1>3, <1>4, <1>5, NewChildType, GroupMoves DEF Spawned, Outside, InChild

\* Who is being stopped: a group in which SIGKILL was sent to all.
DyingGroup(r) == [m \in Members |-> IF child[r].group[m] = "gone" THEN "gone" ELSE "dying"]

LEMMA KillType ==
  ASSUME RunnerInv, NEW r \in Runners, KillGroup(r)
  PROVE  /\ child' = [child EXCEPT ![r] = [@ EXCEPT !.group = DyingGroup(r)]]
         /\ [child[r] EXCEPT !.group = DyingGroup(r)]
              \in [group : [Members -> {"gone", "live", "dying"}],
                   outcome : {"none", "passed", "asserted", "broke"}]
<1>1. DyingGroup(r) \in [Members -> {"gone", "live", "dying"}]
  BY DEF DyingGroup
<1>2. child' = [child EXCEPT ![r] = [@ EXCEPT !.group = DyingGroup(r)]]
  BY DEF KillGroup, DyingGroup
<1> QED
  BY <1>1, <1>2, ChildType

LEMMA StopKeeps ==
  ASSUME RunnerInv, NEW r \in Runners, NEW l \in {"draining", "reaping"}, Goto(r, l), KillGroup(r),
         summary' = summary, flock' = flock, DataOK'
  PROVE  RunnerInv'
<1> DEFINE p == [proc[r] EXCEPT !.pc = l]
           g == [child[r] EXCEPT !.group = DyingGroup(r)]
<1>1. proc[r] \in ProcessType /\ proc \in [Runners -> ProcessType]
  BY DEF RunnerInv, TypeOK
<1>2. p \in ProcessType
  BY <1>1 DEF ProcessType, InChild, Stopping
<1>3. /\ p.kind = proc[r].kind /\ p.batch = proc[r].batch /\ p.total = proc[r].total
      /\ p.pc = l
  BY <1>1 DEF ProcessType
<1>4. proc' = [proc EXCEPT ![r] = p]
  BY DEF Goto
<1>5. /\ child' = [child EXCEPT ![r] = g]
      /\ g \in [group : [Members -> {"gone", "live", "dying"}],
                outcome : {"none", "passed", "asserted", "broke"}]
  BY KillType
<1> HIDE DEF p, g
<1>6. ~Outside(p)
  BY <1>3 DEF Outside, InChild, Stopping
<1> QED
  BY <1>2, <1>3, <1>4, <1>5, <1>6, GroupMoves

LEMMA WaitedKeeps ==
  ASSUME RunnerInv, NEW r \in Runners, Waited(r)
  PROVE  RunnerInv'
<1>1. DataOK'
  BY DEF Waited, RunnerInv, TypeOK, DataOK
<1> QED
  BY <1>1, StopKeeps DEF Waited

LEMMA TerminatedKeeps ==
  ASSUME RunnerInv, NEW r \in Runners, Terminated(r)
  PROVE  RunnerInv'
<1>1. DataOK'
  BY DEF Terminated, RunnerInv, TypeOK, DataOK
<1> QED
  BY <1>1, StopKeeps DEF Terminated

LEMMA Settled ==
  ASSUME RunnerInv, NEW r \in Runners, proc[r].pc \notin InChild \cup Stopping \cup {"killed"}
  PROVE  Gone(r) \/ proc[r].leaked
BY DEF RunnerInv

LEMMA ProcType ==
  ASSUME RunnerInv, NEW r \in Runners
  PROVE  /\ proc[r] \in ProcessType /\ proc \in [Runners -> ProcessType]
         /\ Kind(r) # "campaign" => proc[r].batch \in 1..proc[r].total
BY DEF RunnerInv, TypeOK

\* A script's own step from a point outside run_child: the group is not involved.
LEMMA OwnStep ==
  ASSUME RunnerInv, NEW r \in Runners, NEW p \in ProcessType,
         proc[r].pc \notin InChild \cup Stopping \cup {"killed"},
         proc' = [proc EXCEPT ![r] = p], child' = child, summary' = summary, flock' = flock,
         p.kind = proc[r].kind, p.leaked = proc[r].leaked, p.pc \notin {"replacing", "writing"},
         p.kind # "campaign" => p.batch \in 1..p.total,
         DataOK'
  PROVE  RunnerInv'
BY Settled, Move

LEMMA FoundryStartKeeps ==
  ASSUME RunnerInv, NEW r \in Runners, FoundryStart(r)
  PROVE  RunnerInv'
<1>proc. /\ proc[r] \in ProcessType /\ proc \in [Runners -> ProcessType]
         /\ Kind(r) # "campaign" => proc[r].batch \in 1..proc[r].total
  BY ProcType
<1>home. source[Home(r)] \in Versions /\ tree[Home(r)] \in [Files -> Nat]
  BY HomeType
<1> DEFINE p == [proc[r] EXCEPT !.pc = "spawning", !.job = "patch", !.backup = tree[Home(r)]]
<1>1. proc' = [proc EXCEPT ![r] = p]
  BY <1>proc DEF FoundryStart
<1>2. p \in ProcessType
  BY <1>proc, <1>home DEF ProcessType
<1>3. /\ p.kind = proc[r].kind /\ p.batch = proc[r].batch /\ p.total = proc[r].total
      /\ p.leaked = proc[r].leaked /\ p.pc = "spawning"
  BY <1>proc DEF ProcessType
<1> HIDE DEF p
<1>4. DataOK'
  BY DEF FoundryStart, RunnerInv, TypeOK, DataOK
<1>from. proc[r].pc \notin InChild \cup Stopping \cup {"killed"}
  BY DEF FoundryStart, At, InChild, Stopping
<1>counter. p.kind # "campaign" => p.batch \in 1..p.total
  BY <1>proc, <1>3 DEF Kind
<1>rest. child' = child /\ summary' = summary /\ flock' = flock
  BY DEF FoundryStart
<1> QED
  BY <1>1, <1>2, <1>3, <1>4, <1>from, <1>counter, <1>rest, OwnStep

LEMMA FoundryBatchKeeps ==
  ASSUME RunnerInv, NEW r \in Runners, FoundryBatch(r)
  PROVE  RunnerInv'
<1>proc. /\ proc[r] \in ProcessType /\ proc \in [Runners -> ProcessType]
         /\ Kind(r) # "campaign" => proc[r].batch \in 1..proc[r].total
  BY ProcType
<1>home. source[Home(r)] \in Versions /\ tree[Home(r)] \in [Files -> Nat]
  BY HomeType
<1> DEFINE p == [proc[r] EXCEPT !.pc = "spawning", !.job = "batch", !.pending = TRUE, !.identity = source[Home(r)]]
<1>1. proc' = [proc EXCEPT ![r] = p]
  BY <1>proc DEF FoundryBatch
<1>2. p \in ProcessType
  BY <1>proc, <1>home DEF ProcessType
<1>3. /\ p.kind = proc[r].kind /\ p.batch = proc[r].batch /\ p.total = proc[r].total
      /\ p.leaked = proc[r].leaked /\ p.pc = "spawning"
  BY <1>proc DEF ProcessType
<1> HIDE DEF p
<1>4. DataOK'
  BY DEF FoundryBatch, RunnerInv, TypeOK, DataOK
<1>from. proc[r].pc \notin InChild \cup Stopping \cup {"killed"}
  BY DEF FoundryBatch, At, InChild, Stopping
<1>counter. p.kind # "campaign" => p.batch \in 1..p.total
  BY <1>proc, <1>3 DEF Kind
<1>rest. child' = child /\ summary' = summary /\ flock' = flock
  BY DEF FoundryBatch
<1> QED
  BY <1>1, <1>2, <1>3, <1>4, <1>from, <1>counter, <1>rest, OwnStep

LEMMA FoundryEvaluateKeeps ==
  ASSUME RunnerInv, NEW r \in Runners, FoundryEvaluate(r)
  PROVE  RunnerInv'
<1>proc. /\ proc[r] \in ProcessType /\ proc \in [Runners -> ProcessType]
         /\ Kind(r) # "campaign" => proc[r].batch \in 1..proc[r].total
  BY ProcType
<1> DEFINE p == [proc[r] EXCEPT !.pc = "appending", !.row = proc[r].batch]
<1>1. proc' = [proc EXCEPT ![r] = p]
  BY <1>proc DEF FoundryEvaluate
<1>2. proc[r].batch \in 0..Batches
  BY <1>proc DEF FoundryEvaluate, IsFoundry, ProcessType, BatchNumbers
<1>3. p \in ProcessType
  BY <1>2, <1>proc DEF ProcessType
<1>4. /\ p.kind = proc[r].kind /\ p.batch = proc[r].batch /\ p.total = proc[r].total
      /\ p.leaked = proc[r].leaked /\ p.pc = "appending"
  BY <1>proc DEF ProcessType
<1> HIDE DEF p
<1>5. DataOK'
  <2>1. rows' \in [Runners -> [current : Seq(Nat), exit : [0..Batches -> {0, 1}]]]
    BY <1>2, ZenonT(60) DEF FoundryEvaluate, RunnerInv, TypeOK
  <2> QED
    BY <2>1 DEF FoundryEvaluate, RunnerInv, TypeOK, DataOK
<1>from. proc[r].pc \notin InChild \cup Stopping \cup {"killed"}
  BY DEF FoundryEvaluate, At, InChild, Stopping
<1>counter. p.kind # "campaign" => p.batch \in 1..p.total
  BY <1>proc, <1>4 DEF Kind
<1>rest. child' = child /\ summary' = summary /\ flock' = flock
  BY DEF FoundryEvaluate
<1> QED
  BY <1>1, <1>3, <1>4, <1>5, <1>from, <1>counter, <1>rest, OwnStep

LEMMA FoundryRecordedKeeps ==
  ASSUME RunnerInv, NEW r \in Runners, FoundryRecorded(r)
  PROVE  RunnerInv'
<1>proc. /\ proc[r] \in ProcessType /\ proc \in [Runners -> ProcessType]
         /\ Kind(r) # "campaign" => proc[r].batch \in 1..proc[r].total
  BY ProcType
<1>end. /\ Finally(r) \in ProcessType /\ Finally(r).pc \in {"ignoring", "restoring"}
        /\ Finally(r).kind = proc[r].kind /\ Finally(r).batch = proc[r].batch
        /\ Finally(r).total = proc[r].total /\ Finally(r).leaked = proc[r].leaked
  BY FinallyType
<1> DEFINE more == proc[r].body = "try" /\ proc[r].batch < proc[r].total
           next == [proc[r] EXCEPT !.pc = "ready", !.batch = proc[r].batch + 1, !.pending = FALSE]
           last == [Finally(r) EXCEPT !.pending = FALSE]
           p == IF more THEN next ELSE last
<1>1. proc' = [proc EXCEPT ![r] = p]
  BY <1>proc, Zenon DEF FoundryRecorded
<1>2. next \in ProcessType
  <2>1. proc[r].batch + 1 \in Nat
    BY <1>proc DEF ProcessType
  <2> QED
    BY <1>proc, <2>1 DEF ProcessType
<1>3. last \in ProcessType
  BY <1>end DEF ProcessType
<1>4. /\ next.kind = proc[r].kind /\ next.batch = proc[r].batch + 1 /\ next.total = proc[r].total
      /\ next.leaked = proc[r].leaked /\ next.pc = "ready"
  BY <1>proc DEF ProcessType
<1>5. /\ last.kind = proc[r].kind /\ last.batch = proc[r].batch /\ last.total = proc[r].total
      /\ last.leaked = proc[r].leaked /\ last.pc \in {"ignoring", "restoring"}
  BY <1>end DEF ProcessType
<1>6. proc[r].batch \in 1..proc[r].total
  BY <1>proc DEF FoundryRecorded, IsFoundry, Kind
<1> HIDE DEF next, last
<1>7. /\ p \in ProcessType /\ p.kind = proc[r].kind /\ p.leaked = proc[r].leaked
      /\ p.pc \in {"ready", "ignoring", "restoring"} /\ p.batch \in 1..p.total
  <2>1. CASE more
    <3>1. proc[r].total \in Nat
      BY <1>proc DEF ProcessType, BatchNumbers
    <3> QED
      BY <1>2, <1>4, <1>6, <2>1, <3>1
  <2>2. CASE ~more
    BY <1>3, <1>5, <1>6, <2>2
  <2> QED
    BY <2>1, <2>2
<1> HIDE DEF p
<1>8. DataOK'
  BY DEF FoundryRecorded, RunnerInv, TypeOK, DataOK
<1>from. proc[r].pc \notin InChild \cup Stopping \cup {"killed"}
  BY DEF FoundryRecorded, At, InChild, Stopping
<1>rest. child' = child /\ summary' = summary /\ flock' = flock
  BY DEF FoundryRecorded
<1> QED
  BY <1>1, <1>7, <1>8, <1>from, <1>rest, OwnStep

LEMMA ExitsKeeps ==
  ASSUME RunnerInv, NEW r \in Runners, NEW status \in {0, 1, 2}, Exits(r, status),
         proc[r].pc \in {"starting", "restoring"}
  PROVE  RunnerInv'
<1>proc. /\ proc[r] \in ProcessType /\ proc \in [Runners -> ProcessType]
         /\ Kind(r) # "campaign" => proc[r].batch \in 1..proc[r].total
  BY ProcType
<1> DEFINE p == [proc[r] EXCEPT !.pc = "exited", !.status = status]
<1>1. proc' = [proc EXCEPT ![r] = p]
  BY <1>proc DEF Exits
<1>2. p \in ProcessType
  <2>1. status \in -1..2
    OBVIOUS
  <2> QED
    BY <1>proc, <2>1 DEF ProcessType, Over
<1>3. /\ p.kind = proc[r].kind /\ p.batch = proc[r].batch /\ p.total = proc[r].total
      /\ p.leaked = proc[r].leaked /\ p.pc = "exited"
  BY <1>proc DEF ProcessType
<1> HIDE DEF p
<1>4. DataOK'
  BY UnlockedType DEF Exits, RunnerInv, TypeOK, DataOK
<1>from. proc[r].pc \notin InChild \cup Stopping \cup {"killed"}
  BY DEF Exits, InChild, Stopping
<1>counter. p.kind # "campaign" => p.batch \in 1..p.total
  BY <1>proc, <1>3 DEF Kind
<1>rest. child' = child /\ summary' = summary /\ flock' = flock
  BY DEF Exits
<1> QED
  BY <1>1, <1>2, <1>3, <1>4, <1>from, <1>counter, <1>rest, OwnStep

LEMMA FoundryExitKeeps ==
  ASSUME RunnerInv, NEW r \in Runners, FoundryExit(r)
  PROVE  RunnerInv'
<1> DEFINE status == IF proc[r].body = "escape" \/ rows[r].current = <<>> \/ Failing(r) THEN 1 ELSE 0
<1>1. status \in {0, 1, 2} /\ Exits(r, status) /\ proc[r].pc = "restoring"
  BY DEF FoundryExit, At
<1> QED
  BY <1>1, ExitsKeeps

LEMMA HardhatRefusedKeeps ==
  ASSUME RunnerInv, NEW r \in Runners, HardhatRefused(r)
  PROVE  RunnerInv'
BY ExitsKeeps DEF HardhatRefused, At

LEMMA HardhatStartKeeps ==
  ASSUME RunnerInv, NEW r \in Runners, HardhatStart(r)
  PROVE  RunnerInv'
<1>proc. /\ proc[r] \in ProcessType /\ proc \in [Runners -> ProcessType]
         /\ Kind(r) # "campaign" => proc[r].batch \in 1..proc[r].total
  BY ProcType
<1>home. source[Home(r)] \in Versions /\ tree[Home(r)] \in [Files -> Nat]
  BY HomeType
<1> DEFINE p == [proc[r] EXCEPT !.pc = "spawning", !.job = "version", !.backup = tree[Home(r)]]
<1>1. proc' = [proc EXCEPT ![r] = p]
  BY <1>proc DEF HardhatStart
<1>2. p \in ProcessType
  BY <1>proc, <1>home DEF ProcessType
<1>3. /\ p.kind = proc[r].kind /\ p.batch = proc[r].batch /\ p.total = proc[r].total
      /\ p.leaked = proc[r].leaked /\ p.pc = "spawning"
  BY <1>proc DEF ProcessType
<1> HIDE DEF p
<1>4. DataOK'
  BY DEF HardhatStart, RunnerInv, TypeOK, DataOK
<1>from. proc[r].pc \notin InChild \cup Stopping \cup {"killed"}
  BY DEF HardhatStart, At, InChild, Stopping
<1>counter. p.kind # "campaign" => p.batch \in 1..p.total
  BY <1>proc, <1>3 DEF Kind
<1>rest. child' = child /\ summary' = summary /\ flock' = flock
  BY DEF HardhatStart
<1> QED
  BY <1>1, <1>2, <1>3, <1>4, <1>from, <1>counter, <1>rest, OwnStep

LEMMA HardhatProfileKeeps ==
  ASSUME RunnerInv, NEW r \in Runners, NEW ok \in BOOLEAN, HardhatProfile(r, ok)
  PROVE  RunnerInv'
<1>proc. /\ proc[r] \in ProcessType /\ proc \in [Runners -> ProcessType]
         /\ Kind(r) # "campaign" => proc[r].batch \in 1..proc[r].total
  BY ProcType
<1>end. /\ Finally(r) \in ProcessType /\ Finally(r).pc \in {"ignoring", "restoring"}
        /\ Finally(r).kind = proc[r].kind /\ Finally(r).batch = proc[r].batch
        /\ Finally(r).total = proc[r].total /\ Finally(r).leaked = proc[r].leaked
  BY FinallyType
<1> DEFINE next == [proc[r] EXCEPT !.pc = "baselining"]
           last == [Finally(r) EXCEPT !.body = "escape"]
           p == IF ok THEN next ELSE last
           v == IF ok THEN Run ELSE Torn
<1>1. /\ proc' = [proc EXCEPT ![r] = p] /\ tree' = [tree EXCEPT ![Home(r)]["profile"] = v]
  BY <1>proc DEF HardhatProfile
<1>2. next \in ProcessType
  BY <1>proc DEF ProcessType
<1>3. last \in ProcessType
  BY <1>end DEF ProcessType
<1>4. /\ next.kind = proc[r].kind /\ next.batch = proc[r].batch /\ next.total = proc[r].total
      /\ next.leaked = proc[r].leaked /\ next.pc = "baselining"
  BY <1>proc DEF ProcessType
<1>5. /\ last.kind = proc[r].kind /\ last.batch = proc[r].batch /\ last.total = proc[r].total
      /\ last.leaked = proc[r].leaked /\ last.pc \in {"ignoring", "restoring"}
  BY <1>end DEF ProcessType
<1>6. v \in Nat
  BY DEF Run, Torn
<1> HIDE DEF next, last, v
<1>7. /\ p \in ProcessType /\ p.kind = proc[r].kind /\ p.leaked = proc[r].leaked
      /\ p.pc \in {"baselining", "ignoring", "restoring"} /\ p.batch = proc[r].batch /\ p.total = proc[r].total
  BY <1>2, <1>3, <1>4, <1>5
<1> HIDE DEF p
<1>8. DataOK'
  <2>1. tree \in [Trees -> [Files -> Nat]]
    BY DEF RunnerInv, TypeOK
  <2>2. tree' \in [Trees -> [Files -> Nat]]
    BY <1>1, <1>6, <2>1, TreeWrite, Zenon
  <2> QED
    BY <2>2 DEF HardhatProfile, RunnerInv, TypeOK, DataOK
<1>from. proc[r].pc \notin InChild \cup Stopping \cup {"killed"}
  BY DEF HardhatProfile, At, InChild, Stopping
<1>counter. p.kind # "campaign" => p.batch \in 1..p.total
  BY <1>proc, <1>7 DEF Kind
<1>rest. child' = child /\ summary' = summary /\ flock' = flock
  BY DEF HardhatProfile
<1> QED
  BY <1>1, <1>7, <1>8, <1>from, <1>counter, <1>rest, OwnStep

LEMMA HardhatBaselineKeeps ==
  ASSUME RunnerInv, NEW r \in Runners, HardhatBaseline(r)
  PROVE  RunnerInv'
<1>proc. /\ proc[r] \in ProcessType /\ proc \in [Runners -> ProcessType]
         /\ Kind(r) # "campaign" => proc[r].batch \in 1..proc[r].total
  BY ProcType
<1>home. source[Home(r)] \in Versions /\ tree[Home(r)] \in [Files -> Nat]
  BY HomeType
<1> DEFINE p == [proc[r] EXCEPT !.pc = "ready", !.identity = source[Home(r)]]
<1>1. proc' = [proc EXCEPT ![r] = p]
  BY <1>proc DEF HardhatBaseline
<1>2. p \in ProcessType
  BY <1>proc, <1>home DEF ProcessType
<1>3. /\ p.kind = proc[r].kind /\ p.batch = proc[r].batch /\ p.total = proc[r].total
      /\ p.leaked = proc[r].leaked /\ p.pc = "ready"
  BY <1>proc DEF ProcessType
<1> HIDE DEF p
<1>4. DataOK'
  BY DEF HardhatBaseline, RunnerInv, TypeOK, DataOK
<1>from. proc[r].pc \notin InChild \cup Stopping \cup {"killed"}
  BY DEF HardhatBaseline, At, InChild, Stopping
<1>counter. p.kind # "campaign" => p.batch \in 1..p.total
  BY <1>proc, <1>3 DEF Kind
<1>rest. child' = child /\ summary' = summary /\ flock' = flock
  BY DEF HardhatBaseline
<1> QED
  BY <1>1, <1>2, <1>3, <1>4, <1>from, <1>counter, <1>rest, OwnStep

LEMMA HardhatBatchKeeps ==
  ASSUME RunnerInv, NEW r \in Runners, HardhatBatch(r)
  PROVE  RunnerInv'
<1>proc. /\ proc[r] \in ProcessType /\ proc \in [Runners -> ProcessType]
         /\ Kind(r) # "campaign" => proc[r].batch \in 1..proc[r].total
  BY ProcType
<1> DEFINE l == IF source[Home(r)] = proc[r].identity THEN "spawning" ELSE "failing"
           p == [proc[r] EXCEPT !.pc = l, !.job = "batch", !.pending = TRUE]
<1>1. proc' = [proc EXCEPT ![r] = p]
  BY <1>proc DEF HardhatBatch
<1>2. l \in {"spawning", "failing"}
  OBVIOUS
<1> HIDE DEF l
<1>3. p \in ProcessType
  BY <1>2, <1>proc DEF ProcessType
<1>4. /\ p.kind = proc[r].kind /\ p.batch = proc[r].batch /\ p.total = proc[r].total
      /\ p.leaked = proc[r].leaked /\ p.pc = l
  BY <1>proc DEF ProcessType
<1> HIDE DEF p
<1>5. DataOK'
  BY DEF HardhatBatch, RunnerInv, TypeOK, DataOK
<1>from. proc[r].pc \notin InChild \cup Stopping \cup {"killed"}
  BY DEF HardhatBatch, At, InChild, Stopping
<1>counter. p.kind # "campaign" => p.batch \in 1..p.total
  BY <1>proc, <1>4 DEF Kind
<1>rest. child' = child /\ summary' = summary /\ flock' = flock
  BY DEF HardhatBatch
<1> QED
  BY <1>1, <1>2, <1>3, <1>4, <1>5, <1>from, <1>counter, <1>rest, OwnStep

LEMMA HardhatEvaluateKeeps ==
  ASSUME RunnerInv, NEW r \in Runners, HardhatEvaluate(r)
  PROVE  RunnerInv'
<1>proc. /\ proc[r] \in ProcessType /\ proc \in [Runners -> ProcessType]
         /\ Kind(r) # "campaign" => proc[r].batch \in 1..proc[r].total
  BY ProcType
<1> DEFINE p == [proc[r] EXCEPT !.pc = "appending", !.row = proc[r].batch, !.drift = HardhatDrift(r)]
<1>1. proc' = [proc EXCEPT ![r] = p]
  BY <1>proc DEF HardhatEvaluate
<1>2. proc[r].batch \in 0..Batches
  BY <1>proc DEF HardhatEvaluate, IsHardhat, ProcessType, BatchNumbers
<1>3. HardhatDrift(r) \in BOOLEAN
  BY DEF HardhatDrift
<1>4. p \in ProcessType
  BY <1>2, <1>3, <1>proc DEF ProcessType
<1>5. /\ p.kind = proc[r].kind /\ p.batch = proc[r].batch /\ p.total = proc[r].total
      /\ p.leaked = proc[r].leaked /\ p.pc = "appending"
  BY <1>proc DEF ProcessType
<1> HIDE DEF p
<1>6. DataOK'
  <2>1. rows' \in [Runners -> [current : Seq(Nat), exit : [0..Batches -> {0, 1}]]]
    BY <1>2, ZenonT(60) DEF HardhatEvaluate, RunnerInv, TypeOK
  <2> QED
    BY <2>1 DEF HardhatEvaluate, RunnerInv, TypeOK, DataOK
<1>from. proc[r].pc \notin InChild \cup Stopping \cup {"killed"}
  BY DEF HardhatEvaluate, At, InChild, Stopping
<1>counter. p.kind # "campaign" => p.batch \in 1..p.total
  BY <1>proc, <1>5 DEF Kind
<1>rest. child' = child /\ summary' = summary /\ flock' = flock
  BY DEF HardhatEvaluate
<1> QED
  BY <1>1, <1>4, <1>5, <1>6, <1>from, <1>counter, <1>rest, OwnStep

LEMMA HardhatRecordedKeeps ==
  ASSUME RunnerInv, NEW r \in Runners, HardhatRecorded(r)
  PROVE  RunnerInv'
<1>proc. /\ proc[r] \in ProcessType /\ proc \in [Runners -> ProcessType]
         /\ Kind(r) # "campaign" => proc[r].batch \in 1..proc[r].total
  BY ProcType
<1>end. /\ Finally(r) \in ProcessType /\ Finally(r).pc \in {"ignoring", "restoring"}
        /\ Finally(r).kind = proc[r].kind /\ Finally(r).batch = proc[r].batch
        /\ Finally(r).total = proc[r].total /\ Finally(r).leaked = proc[r].leaked
  BY FinallyType
<1> DEFINE more == proc[r].body = "try" /\ proc[r].batch < proc[r].total /\ ~proc[r].drift
           next == [proc[r] EXCEPT !.pc = "ready", !.batch = proc[r].batch + 1, !.pending = FALSE]
           last == [Finally(r) EXCEPT !.pending = FALSE]
           p == IF more THEN next ELSE last
<1>1. proc' = [proc EXCEPT ![r] = p]
  BY <1>proc, Zenon DEF HardhatRecorded
<1>2. next \in ProcessType
  <2>1. proc[r].batch + 1 \in Nat
    BY <1>proc DEF ProcessType
  <2> QED
    BY <1>proc, <2>1 DEF ProcessType
<1>3. last \in ProcessType
  BY <1>end DEF ProcessType
<1>4. /\ next.kind = proc[r].kind /\ next.batch = proc[r].batch + 1 /\ next.total = proc[r].total
      /\ next.leaked = proc[r].leaked /\ next.pc = "ready"
  BY <1>proc DEF ProcessType
<1>5. /\ last.kind = proc[r].kind /\ last.batch = proc[r].batch /\ last.total = proc[r].total
      /\ last.leaked = proc[r].leaked /\ last.pc \in {"ignoring", "restoring"}
  BY <1>end DEF ProcessType
<1>6. proc[r].batch \in 1..proc[r].total
  BY <1>proc DEF HardhatRecorded, IsHardhat, Kind
<1> HIDE DEF next, last
<1>7. /\ p \in ProcessType /\ p.kind = proc[r].kind /\ p.leaked = proc[r].leaked
      /\ p.pc \in {"ready", "ignoring", "restoring"} /\ p.batch \in 1..p.total
  <2>1. CASE more
    <3>1. proc[r].total \in Nat
      BY <1>proc DEF ProcessType, BatchNumbers
    <3> QED
      BY <1>2, <1>4, <1>6, <2>1, <3>1
  <2>2. CASE ~more
    BY <1>3, <1>5, <1>6, <2>2
  <2> QED
    BY <2>1, <2>2
<1> HIDE DEF p
<1>8. DataOK'
  BY DEF HardhatRecorded, RunnerInv, TypeOK, DataOK
<1>from. proc[r].pc \notin InChild \cup Stopping \cup {"killed"}
  BY DEF HardhatRecorded, At, InChild, Stopping
<1>rest. child' = child /\ summary' = summary /\ flock' = flock
  BY DEF HardhatRecorded
<1> QED
  BY <1>1, <1>7, <1>8, <1>from, <1>rest, OwnStep

LEMMA HardhatExitKeeps ==
  ASSUME RunnerInv, NEW r \in Runners, HardhatExit(r)
  PROVE  RunnerInv'
<1> DEFINE failing == \E i \in DOMAIN rows[r].current : rows[r].exit[rows[r].current[i]] # 0
           status == IF proc[r].body = "escape" \/ HardhatMissing(r) \/ failing THEN 1 ELSE 0
<1>1. status \in {0, 1, 2} /\ Exits(r, status) /\ proc[r].pc = "restoring"
  BY DEF HardhatExit, At
<1> QED
  BY <1>1, ExitsKeeps

LEMMA CampaignRefusedKeeps ==
  ASSUME RunnerInv, NEW r \in Runners, CampaignRefused(r)
  PROVE  RunnerInv'
BY ExitsKeeps DEF CampaignRefused, At

LEMMA CampaignStartKeeps ==
  ASSUME RunnerInv, NEW r \in Runners, CampaignStart(r)
  PROVE  RunnerInv'
<1>proc. /\ proc[r] \in ProcessType /\ proc \in [Runners -> ProcessType]
         /\ Kind(r) # "campaign" => proc[r].batch \in 1..proc[r].total
  BY ProcType
<1>home. source[Home(r)] \in Versions /\ tree[Home(r)] \in [Files -> Nat]
  BY HomeType
<1> DEFINE p == [proc[r] EXCEPT !.pc = "spawning", !.job = "patch", !.backup = tree[Home(r)]]
<1>1. proc' = [proc EXCEPT ![r] = p]
  BY <1>proc DEF CampaignStart
<1>2. p \in ProcessType
  BY <1>proc, <1>home DEF ProcessType
<1>3. /\ p.kind = proc[r].kind /\ p.batch = proc[r].batch /\ p.total = proc[r].total
      /\ p.leaked = proc[r].leaked /\ p.pc = "spawning"
  BY <1>proc DEF ProcessType
<1> HIDE DEF p
<1>4. DataOK'
  <2>1. tree' = [tree EXCEPT ![Home(r)]["config"] = Run] /\ tree \in [Trees -> [Files -> Nat]] /\ Run \in Nat
    BY DEF CampaignStart, RunnerInv, TypeOK, Run
  <2>2. tree' \in [Trees -> [Files -> Nat]]
    BY <2>1, TreeWrite, Zenon
  <2> QED
    BY <2>2 DEF CampaignStart, RunnerInv, TypeOK, DataOK
<1>from. proc[r].pc \notin InChild \cup Stopping \cup {"killed"}
  BY DEF CampaignStart, At, InChild, Stopping
<1>counter. p.kind # "campaign" => p.batch \in 1..p.total
  BY <1>proc, <1>3 DEF Kind
<1>rest. child' = child /\ summary' = summary /\ flock' = flock
  BY DEF CampaignStart
<1> QED
  BY <1>1, <1>2, <1>3, <1>4, <1>from, <1>counter, <1>rest, OwnStep

LEMMA CampaignRunKeeps ==
  ASSUME RunnerInv, NEW r \in Runners, CampaignRun(r)
  PROVE  RunnerInv'
<1>proc. /\ proc[r] \in ProcessType /\ proc \in [Runners -> ProcessType]
         /\ Kind(r) # "campaign" => proc[r].batch \in 1..proc[r].total
  BY ProcType
<1> DEFINE p == [proc[r] EXCEPT !.pc = "spawning", !.job = "batch", !.base = BaselineDue(r)]
           v == IF BaselineDue(r) THEN proc[r].backup["target"] ELSE Mutant(proc[r].batch)
<1>1. proc' = [proc EXCEPT ![r] = p] /\ tree' = [tree EXCEPT ![Home(r)]["target"] = v]
  BY <1>proc DEF CampaignRun
<1>2. BaselineDue(r) \in BOOLEAN
  BY DEF BaselineDue
<1>3. p \in ProcessType
  BY <1>proc, <1>2 DEF ProcessType
<1>4. /\ p.kind = proc[r].kind /\ p.batch = proc[r].batch /\ p.total = proc[r].total
      /\ p.leaked = proc[r].leaked /\ p.pc = "spawning"
  BY <1>proc DEF ProcessType
<1>5. v \in Nat
  <2>1. proc[r].batch \in Nat /\ proc[r].backup \in [Files -> Nat]
    BY <1>proc DEF ProcessType
  <2> QED
    BY <2>1 DEF Mutant, Files
<1> HIDE DEF p, v
<1>6. DataOK'
  <2>1. tree \in [Trees -> [Files -> Nat]]
    BY DEF RunnerInv, TypeOK
  <2>2. tree' \in [Trees -> [Files -> Nat]]
    BY <1>1, <1>5, <2>1, TreeWrite, Zenon
  <2> QED
    BY <2>2 DEF CampaignRun, RunnerInv, TypeOK, DataOK
<1>from. proc[r].pc \notin InChild \cup Stopping \cup {"killed"}
  BY DEF CampaignRun, At, InChild, Stopping
<1>counter. p.kind # "campaign" => p.batch \in 1..p.total
  BY <1>proc, <1>4 DEF Kind
<1>rest. child' = child /\ summary' = summary /\ flock' = flock
  BY DEF CampaignRun
<1> QED
  BY <1>1, <1>3, <1>4, <1>6, <1>from, <1>counter, <1>rest, OwnStep

LEMMA CampaignEvaluateKeeps ==
  ASSUME RunnerInv, NEW r \in Runners, CampaignEvaluate(r)
  PROVE  RunnerInv'
<1>proc. /\ proc[r] \in ProcessType /\ proc \in [Runners -> ProcessType]
         /\ Kind(r) # "campaign" => proc[r].batch \in 1..proc[r].total
  BY ProcType
<1> DEFINE b == proc[r].batch
<1>from. proc[r].pc \notin InChild \cup Stopping \cup {"killed"} /\ Kind(r) = "campaign"
  BY DEF CampaignEvaluate, At, InChild, Stopping, IsCampaign
<1>rest. child' = child /\ summary' = summary /\ flock' = flock
  BY DEF CampaignEvaluate
<1>1. b \in Nat /\ TestOf(b) \in Nat
  BY <1>proc DEF ProcessType, TestOf
<1>2. CASE Goto(r, "failing") /\ UNCHANGED rows
  <2>1. DataOK'
    BY <1>2 DEF CampaignEvaluate, RunnerInv, TypeOK, DataOK
  <2> QED
    BY <1>2, <1>from, <1>rest, <2>1, Settled, Going DEF PcType
<1>3. CASE UNCHANGED rows /\ proc' = [proc EXCEPT ![r] = [@ EXCEPT !.pc = "ready", !.based = proc[r].based \cup {TestOf(b)}]]
  <2> DEFINE p == [proc[r] EXCEPT !.pc = "ready", !.based = proc[r].based \cup {TestOf(b)}]
  <2>1. proc' = [proc EXCEPT ![r] = p]
    BY <1>3, <1>proc
  <2>2. p \in ProcessType
    <3>1. proc[r].based \cup {TestOf(b)} \in SUBSET Nat
      BY <1>proc, <1>1 DEF ProcessType
    <3> QED
      BY <1>proc, <3>1 DEF ProcessType
  <2>3. p.kind = proc[r].kind /\ p.leaked = proc[r].leaked /\ p.pc = "ready"
    BY <1>proc DEF ProcessType
  <2>4. DataOK'
    BY <1>3 DEF CampaignEvaluate, RunnerInv, TypeOK, DataOK
  <2> HIDE DEF p
  <2> QED
    BY <1>from, <1>rest, <2>1, <2>2, <2>3, <2>4, OwnStep DEF Kind
<1>4. CASE /\ proc' = [proc EXCEPT ![r] = [@ EXCEPT !.pc = "ready", !.batch = b + 1]]
           /\ \E e \in {0, 1} : rows' = [rows EXCEPT ![r] = [current |-> Append(@.current, b), exit |-> [@.exit EXCEPT ![b] = e]]]
  <2> DEFINE p == [proc[r] EXCEPT !.pc = "ready", !.batch = b + 1]
  <2>1. proc' = [proc EXCEPT ![r] = p]
    BY <1>4, <1>proc
  <2>2. p \in ProcessType
    <3>1. b + 1 \in Nat
      BY <1>1
    <3> QED
      BY <1>proc, <3>1 DEF ProcessType
  <2>3. p.kind = proc[r].kind /\ p.leaked = proc[r].leaked /\ p.pc = "ready"
    BY <1>proc DEF ProcessType
  <2>4. DataOK'
    <3>1. PICK e \in {0, 1} : rows' = [rows EXCEPT ![r] = [current |-> Append(rows[r].current, b), exit |-> [rows[r].exit EXCEPT ![b] = e]]]
      BY <1>4
    <3>2. Append(rows[r].current, b) \in Seq(Nat)
      BY <1>1 DEF RunnerInv, TypeOK
    <3>3. [rows[r].exit EXCEPT ![b] = e] \in [0..Batches -> {0, 1}]
      BY DEF RunnerInv, TypeOK
    <3>4. rows' \in [Runners -> [current : Seq(Nat), exit : [0..Batches -> {0, 1}]]]
      BY <3>1, <3>2, <3>3 DEF RunnerInv, TypeOK
    <3> QED
      BY <3>4 DEF CampaignEvaluate, RunnerInv, TypeOK, DataOK
  <2> HIDE DEF p
  <2> QED
    BY <1>from, <1>rest, <2>1, <2>2, <2>3, <2>4, OwnStep DEF Kind
<1> QED
  BY <1>2, <1>3, <1>4 DEF CampaignEvaluate

LEMMA CampaignDoneKeeps ==
  ASSUME RunnerInv, NEW r \in Runners, CampaignDone(r)
  PROVE  RunnerInv'
<1>proc. /\ proc[r] \in ProcessType /\ proc \in [Runners -> ProcessType]
         /\ Kind(r) # "campaign" => proc[r].batch \in 1..proc[r].total
  BY ProcType
<1>end. /\ Finally(r) \in ProcessType /\ Finally(r).pc \in {"ignoring", "restoring"}
        /\ Finally(r).kind = proc[r].kind /\ Finally(r).batch = proc[r].batch
        /\ Finally(r).total = proc[r].total /\ Finally(r).leaked = proc[r].leaked
  BY FinallyType
<1> DEFINE failed == [Finally(r) EXCEPT !.body = "except"]
<1>from. proc[r].pc \notin InChild \cup Stopping \cup {"killed"} /\ Kind(r) = "campaign"
  BY DEF CampaignDone, At, InChild, Stopping, IsCampaign
<1>rest. child' = child /\ summary' = summary /\ flock' = flock
  BY DEF CampaignDone
<1>1. DataOK'
  BY DEF CampaignDone, RunnerInv, TypeOK, DataOK
<1>2. failed \in ProcessType
  BY <1>end DEF ProcessType
<1>3. failed.kind = proc[r].kind /\ failed.leaked = proc[r].leaked /\ failed.pc \in {"ignoring", "restoring"}
  BY <1>end DEF ProcessType
<1>4. CASE proc' = [proc EXCEPT ![r] = Finally(r)]
  BY <1>from, <1>rest, <1>1, <1>4, <1>end, OwnStep DEF Kind
<1>5. CASE proc' = [proc EXCEPT ![r] = failed]
  <2> HIDE DEF failed
  <2> QED
    BY <1>from, <1>rest, <1>1, <1>2, <1>3, <1>5, OwnStep DEF Kind
<1> QED
  BY <1>4, <1>5 DEF CampaignDone

LEMMA CampaignExitKeeps ==
  ASSUME RunnerInv, NEW r \in Runners, CampaignExit(r)
  PROVE  RunnerInv'
<1> DEFINE status == IF proc[r].body = "try" /\ \A b \in 1..proc[r].total : rows[r].exit[b] = 0 THEN 0 ELSE 1
<1>1. status \in {0, 1, 2} /\ Exits(r, status) /\ proc[r].pc = "restoring"
  BY DEF CampaignExit, At
<1> QED
  BY <1>1, ExitsKeeps

LEMMA UnwoundType ==
  ASSUME RunnerInv, NEW r \in Runners
  PROVE  /\ Unwound(r) \in ProcessType /\ Unwound(r).kind = proc[r].kind
         /\ Unwound(r).batch = proc[r].batch /\ Unwound(r).total = proc[r].total
         /\ Unwound(r).leaked = proc[r].leaked
         /\ Unwound(r).pc \in {"terminating", "exited", "failing", "ignoring", "restoring"}
         /\ proc[r].pc \in InChild => Unwound(r).pc = "terminating"
<1>proc. /\ proc[r] \in ProcessType /\ proc \in [Runners -> ProcessType]
         /\ Kind(r) # "campaign" => proc[r].batch \in 1..proc[r].total
  BY ProcType
<1>end. /\ Finally(r) \in ProcessType /\ Finally(r).pc \in {"ignoring", "restoring"}
        /\ Finally(r).kind = proc[r].kind /\ Finally(r).batch = proc[r].batch
        /\ Finally(r).total = proc[r].total /\ Finally(r).leaked = proc[r].leaked
  BY FinallyType
<1>0. <<>> \in Seq(Rows)
  OBVIOUS
<1>1. CASE proc[r].pc \in InChild
  <2>1. Unwound(r) = [proc[r] EXCEPT !.pc = "terminating"]
    BY <1>1 DEF Unwound
  <2> QED
    BY <1>proc, <2>1 DEF ProcessType, Stopping
<1>2. CASE proc[r].pc \notin InChild /\ proc[r].pc \in {"ignoring"} \cup Restoring
  <2>1. Unwound(r) = [proc[r] EXCEPT !.pc = "exited", !.status = 1, !.cut = TRUE]
    BY <1>2 DEF Unwound
  <2>2. 1 \in -1..2
    OBVIOUS
  <2> QED
    BY <1>proc, <1>2, <2>1, <2>2 DEF ProcessType, Over
<1>3. CASE proc[r].pc \notin InChild /\ proc[r].pc \notin {"ignoring"} \cup Restoring /\ proc[r].body = "try"
  <2>1. Unwound(r) = [proc[r] EXCEPT !.pc = "failing", !.history = <<>>]
    BY <1>3 DEF Unwound
  <2> QED
    BY <1>proc, <1>0, <1>3, <2>1, ZenonT(60) DEF ProcessType
<1>4. CASE proc[r].pc \notin InChild /\ proc[r].pc \notin {"ignoring"} \cup Restoring /\ proc[r].body # "try"
  <2>1. Unwound(r) = [Finally(r) EXCEPT !.body = "escape", !.history = <<>>]
    BY <1>4 DEF Unwound
  <2> QED
    BY <1>end, <1>0, <1>4, <2>1, ZenonT(60) DEF ProcessType
<1> QED
  BY <1>1, <1>2, <1>3, <1>4

LEMMA InterruptedKeeps ==
  ASSUME RunnerInv, NEW r \in Runners, Interrupted(r)
  PROVE  RunnerInv'
<1>proc. /\ proc[r] \in ProcessType /\ proc \in [Runners -> ProcessType]
         /\ Kind(r) # "campaign" => proc[r].batch \in 1..proc[r].total
  BY ProcType
<1>1. /\ Unwound(r) \in ProcessType /\ Unwound(r).kind = proc[r].kind
      /\ Unwound(r).batch = proc[r].batch /\ Unwound(r).total = proc[r].total
      /\ Unwound(r).leaked = proc[r].leaked
      /\ Unwound(r).pc \in {"terminating", "exited", "failing", "ignoring", "restoring"}
      /\ proc[r].pc \in InChild => Unwound(r).pc = "terminating"
  BY UnwoundType
<1>2. proc' = [proc EXCEPT ![r] = Unwound(r)] /\ child' = child /\ summary' = summary
  BY DEF Interrupted
<1>3. flock' = flock \/ (flock = r /\ flock' = Nobody)
  <2>1. flock' = Released(r)
    BY DEF Interrupted
  <2> QED
    BY <2>1 DEF Released
<1>4. Outside(Unwound(r)) => Gone(r) \/ Unwound(r).leaked
  BY <1>1, Settled DEF Interrupted, Interruptible, Outside, Stopping, Over
<1>5. DataOK'
  BY UnlockedType DEF Interrupted, RunnerInv, TypeOK, DataOK
<1>6. Unwound(r).kind # "campaign" => Unwound(r).batch \in 1..Unwound(r).total
  BY <1>proc, <1>1 DEF Kind
<1> QED
  BY <1>1, <1>2, <1>3, <1>4, <1>5, <1>6, Move

LEMMA InterruptedInPopenKeeps ==
  ASSUME RunnerInv, NEW r \in Runners, InterruptedInPopen(r)
  PROVE  RunnerInv'
<1> DEFINE p == [Unwound(r) EXCEPT !.leaked = TRUE]
<1>1. /\ Unwound(r) \in ProcessType /\ Unwound(r).kind = proc[r].kind
      /\ Unwound(r).batch = proc[r].batch /\ Unwound(r).total = proc[r].total
      /\ Unwound(r).pc \in {"terminating", "exited", "failing", "ignoring", "restoring"}
  BY UnwoundType
<1>2. p \in ProcessType
  BY <1>1 DEF ProcessType
<1>3. /\ p.kind = proc[r].kind /\ p.batch = proc[r].batch /\ p.total = proc[r].total
      /\ p.leaked /\ p.pc = Unwound(r).pc
  BY <1>1 DEF ProcessType
<1>4. /\ proc' = [proc EXCEPT ![r] = p] /\ child' = [child EXCEPT ![r] = NewChild]
      /\ summary' = summary /\ flock' = flock
  BY DEF InterruptedInPopen
<1> HIDE DEF p
<1>5. DataOK'
  BY DEF InterruptedInPopen, RunnerInv, TypeOK, DataOK
<1> QED
  BY <1>1, <1>2, <1>3, <1>4, <1>5, NewChildType, GroupMoves

LEMMA KilledKeeps ==
  ASSUME RunnerInv, NEW r \in Runners, Killed(r)
  PROVE  RunnerInv'
<1>proc. /\ proc[r] \in ProcessType /\ proc \in [Runners -> ProcessType]
         /\ Kind(r) # "campaign" => proc[r].batch \in 1..proc[r].total
  BY ProcType
<1> DEFINE p == [proc[r] EXCEPT !.pc = "killed", !.history = <<>>]
<1>1. proc' = [proc EXCEPT ![r] = p]
  BY <1>proc DEF Killed
<1>2. p \in ProcessType
  <2>1. <<>> \in Seq(Rows)
    OBVIOUS
  <2> QED
    BY <1>proc, <2>1 DEF ProcessType, Over
<1>3. /\ p.kind = proc[r].kind /\ p.batch = proc[r].batch /\ p.total = proc[r].total
      /\ p.leaked = proc[r].leaked /\ p.pc = "killed"
  BY <1>proc DEF ProcessType
<1> HIDE DEF p
<1>4. DataOK'
  BY UnlockedType DEF Killed, RunnerInv, TypeOK, DataOK
<1>5. child' = child /\ summary' = summary
  BY DEF Killed
<1>6. flock' = flock \/ (flock = r /\ flock' = Nobody)
  <2>1. flock' = Released(r)
    BY DEF Killed
  <2> QED
    BY <2>1 DEF Released
<1>7. p.kind # "campaign" => p.batch \in 1..p.total
  BY <1>proc, <1>3 DEF Kind
<1> QED
  BY <1>1, <1>2, <1>3, <1>4, <1>5, <1>6, <1>7, Move DEF Outside

\* A living group changes and no script moves.
LEMMA GroupOnly ==
  ASSUME RunnerInv, NEW r \in Runners, ~Gone(r),
         NEW g \in [group : [Members -> {"gone", "live", "dying"}],
                    outcome : {"none", "passed", "asserted", "broke"}],
         child' = [child EXCEPT ![r] = g], proc' = proc, summary' = summary, flock' = flock, DataOK'
  PROVE  RunnerInv'
<1>1. proc[r] \in ProcessType /\ proc' = [proc EXCEPT ![r] = proc[r]]
  BY DEF RunnerInv, TypeOK
<1>2. Outside(proc[r]) => proc[r].leaked
  BY DEF RunnerInv, Outside
<1>3. proc[r].pc = "replacing" => At(r, "replacing")
  BY DEF At
<1>4. proc[r].pc = "writing" => proc[r].left # <<>>
  BY DEF RunnerInv, At
<1> QED
  BY <1>1, <1>2, <1>3, <1>4, GroupMoves

LEMMA StartCompilerKeeps ==
  ASSUME RunnerInv, NEW r \in Runners, StartCompiler(r)
  PROVE  RunnerInv'
<1> DEFINE group == [child[r].group EXCEPT !["compiler"] = "live"]
           g == [child[r] EXCEPT !.group = group]
<1>1. child[r] \in [group : [Members -> {"gone", "live", "dying"}],
                    outcome : {"none", "passed", "asserted", "broke"}]
      /\ child[r].group \in [Members -> {"gone", "live", "dying"}]
  BY ChildType
<1>2. child' = [child EXCEPT ![r] = g]
  BY DEF StartCompiler
<1>3. group \in [Members -> {"gone", "live", "dying"}]
  BY <1>1
<1>4. g \in [group : [Members -> {"gone", "live", "dying"}],
             outcome : {"none", "passed", "asserted", "broke"}]
  BY <1>1, <1>3
<1>5. ~Gone(r)
  BY DEF StartCompiler, Live, Gone, NoGroup, Members
<1>6. DataOK'
  BY DEF StartCompiler, RunnerInv, TypeOK, DataOK
<1> HIDE DEF g
<1> QED
  BY <1>2, <1>4, <1>5, <1>6, GroupOnly DEF StartCompiler

LEMMA EndWrapperKeeps ==
  ASSUME RunnerInv, NEW r \in Runners, NEW outcome \in Outcomes(Kind(r)), EndWrapper(r, outcome)
  PROVE  RunnerInv'
<1> DEFINE group == [child[r].group EXCEPT !["wrapper"] = "gone"]
           g == [child[r] EXCEPT !.group = group, !.outcome = outcome]
<1>1. child[r] \in [group : [Members -> {"gone", "live", "dying"}],
                    outcome : {"none", "passed", "asserted", "broke"}]
      /\ child[r].group \in [Members -> {"gone", "live", "dying"}]
  BY ChildType
<1>2. child' = [child EXCEPT ![r] = g]
  BY DEF EndWrapper
<1>3. group \in [Members -> {"gone", "live", "dying"}]
  BY <1>1
<1>4. outcome \in {"none", "passed", "asserted", "broke"}
  BY DEF Outcomes
<1>5. g \in [group : [Members -> {"gone", "live", "dying"}],
             outcome : {"none", "passed", "asserted", "broke"}]
  BY <1>1, <1>3, <1>4
<1>6. ~Gone(r)
  BY DEF EndWrapper, Gone, NoGroup, Members
<1>7. DataOK'
  BY DEF EndWrapper, RunnerInv, TypeOK, DataOK
<1> HIDE DEF g
<1> QED
  BY <1>2, <1>5, <1>6, <1>7, GroupOnly DEF EndWrapper

LEMMA EndCompilerKeeps ==
  ASSUME RunnerInv, NEW r \in Runners, EndCompiler(r)
  PROVE  RunnerInv'
<1> DEFINE group == [child[r].group EXCEPT !["compiler"] = "gone"]
           g == [child[r] EXCEPT !.group = group]
<1>1. child[r] \in [group : [Members -> {"gone", "live", "dying"}],
                    outcome : {"none", "passed", "asserted", "broke"}]
      /\ child[r].group \in [Members -> {"gone", "live", "dying"}]
  BY ChildType
<1>2. child' = [child EXCEPT ![r] = g]
  BY DEF EndCompiler
<1>3. group \in [Members -> {"gone", "live", "dying"}]
  BY <1>1
<1>4. g \in [group : [Members -> {"gone", "live", "dying"}],
             outcome : {"none", "passed", "asserted", "broke"}]
  BY <1>1, <1>3
<1>5. ~Gone(r)
  BY DEF EndCompiler, Gone, NoGroup, Members
<1>6. DataOK'
  BY DEF EndCompiler, RunnerInv, TypeOK, DataOK
<1> HIDE DEF g
<1> QED
  BY <1>2, <1>4, <1>5, <1>6, GroupOnly DEF EndCompiler

LEMMA CompileKeeps ==
  ASSUME RunnerInv, NEW r \in Runners, Compile(r)
  PROVE  RunnerInv'
<1>1. DataOK'
  BY DEF Compile, RunnerInv, TypeOK, DataOK
<1> QED
  BY <1>1, SelfKeeps DEF Compile

LEMMA PatchKeeps ==
  ASSUME RunnerInv, NEW r \in Runners, Patch(r)
  PROVE  RunnerInv'
<1>1. tree' = [tree EXCEPT ![Home(r)]["pins"] = Run] /\ tree \in [Trees -> [Files -> Nat]] /\ Run \in Nat
  BY DEF Patch, RunnerInv, TypeOK, Run
<1>2. tree' \in [Trees -> [Files -> Nat]]
  BY <1>1, TreeWrite, Zenon
<1>3. DataOK'
  BY <1>2 DEF Patch, RunnerInv, TypeOK, DataOK
<1> QED
  BY <1>3, SelfKeeps DEF Patch

LEMMA EditKeeps ==
  ASSUME RunnerInv, NEW c \in Trees, Edit(c)
  PROVE  RunnerInv'
<1>1. source' \in [Trees -> Versions]
  <2>1. 1 - source[c] \in Versions
    <3>1. source[c] \in {0, 1}
      BY DEF RunnerInv, TypeOK, Versions
    <3> QED
      BY <3>1 DEF Versions
  <2> QED
    BY <2>1 DEF Edit, RunnerInv, TypeOK
<1>2. DataOK'
  BY <1>1 DEF Edit, RunnerInv, TypeOK, DataOK
<1> QED
  BY <1>2, SelfKeeps DEF Edit

\* What the scripts have in common keeps the invariant, and only Replaced writes the summary.
LEMMA RunChildKeeps ==
  ASSUME RunnerInv, NEW r \in Runners, RunChild(r) \/ GroupExit(r)
  PROVE  RunnerInv' /\ summary' = summary
<1>1. CASE RunChild(r)
  BY <1>1, SpawnedKeeps, WaitedKeeps, TerminatedKeeps DEF RunChild, Spawned, Waited, Terminated
<1>2. CASE GroupExit(r)
  BY <1>2, ReturnedKeeps, ReraisedKeeps DEF GroupExit, Returned, Reraised
<1> QED
  BY <1>1, <1>2

LEMMA RecordKeeps ==
  ASSUME RunnerInv, NEW r \in Runners, Record(r)
  PROVE  RunnerInv' /\ (summary' = summary \/ \E row \in Rows : summary' = Append(summary, row))
<1>1. CASE Appended(r)
  BY <1>1, AppendedKeeps DEF Appended
<1>2. CASE Locked(r)
  BY <1>2, LockedKeeps DEF Locked
<1>3. CASE Replaced(r)
  BY <1>3, ReplacedKeeps
<1> QED
  BY <1>1, <1>2, <1>3 DEF Record

LEMMA RestoreKeeps ==
  ASSUME RunnerInv, NEW r \in Runners, Restore(r)
  PROVE  RunnerInv' /\ summary' = summary
BY IgnoredKeeps, OpenedKeeps, WrittenKeeps DEF Restore, Ignored, Opened, Written

\* What a step may do to the summary.
Logged == summary' = summary \/ \E row \in Rows : summary' = Append(summary, row)

LEMMA FoundryKeeps ==
  ASSUME RunnerInv, NEW r \in Runners, FoundryStep(r)
  PROVE  RunnerInv' /\ Logged
<1>1. CASE FoundryRunChild(r) \/ FoundryGroupExit(r)
  BY <1>1, RunChildKeeps DEF FoundryRunChild, FoundryGroupExit, Logged
<1>2. CASE FoundryRecord(r)
  BY <1>2, RecordKeeps DEF FoundryRecord, Logged
<1>3. CASE FoundryFailed(r)
  BY <1>3, FailedKeeps DEF FoundryFailed, Failed, Logged
<1>4. CASE FoundryRestore(r)
  BY <1>4, RestoreKeeps DEF FoundryRestore, Logged
<1>5. CASE FoundryStart(r)
  BY <1>5, FoundryStartKeeps DEF FoundryStart, Logged
<1>6. CASE FoundryPatched(r)
  BY <1>6, FoundryPatchedKeeps DEF FoundryPatched, Logged
<1>7. CASE FoundryBatch(r)
  BY <1>7, FoundryBatchKeeps DEF FoundryBatch, Logged
<1>8. CASE FoundryEvaluate(r)
  BY <1>8, FoundryEvaluateKeeps DEF FoundryEvaluate, Logged
<1>9. CASE FoundryRecorded(r)
  BY <1>9, FoundryRecordedKeeps DEF FoundryRecorded, Logged
<1>10. CASE FoundryExit(r)
  BY <1>10, FoundryExitKeeps DEF FoundryExit, Exits, Logged
<1> QED
  BY <1>1, <1>2, <1>3, <1>4, <1>5, <1>6, <1>7, <1>8, <1>9, <1>10 DEF FoundryStep

LEMMA HardhatKeeps ==
  ASSUME RunnerInv, NEW r \in Runners, HardhatStep(r)
  PROVE  RunnerInv' /\ Logged
<1>1. CASE HardhatRunChild(r) \/ HardhatGroupExit(r)
  BY <1>1, RunChildKeeps DEF HardhatRunChild, HardhatGroupExit, Logged
<1>2. CASE HardhatRecord(r)
  BY <1>2, RecordKeeps DEF HardhatRecord, Logged
<1>3. CASE HardhatFailed(r)
  BY <1>3, FailedKeeps DEF HardhatFailed, Failed, Logged
<1>4. CASE HardhatRestore(r)
  BY <1>4, RestoreKeeps DEF HardhatRestore, Logged
<1>5. CASE HardhatRefused(r)
  BY <1>5, HardhatRefusedKeeps DEF HardhatRefused, Exits, Logged
<1>6. CASE HardhatStart(r)
  BY <1>6, HardhatStartKeeps DEF HardhatStart, Logged
<1>7. CASE HardhatVersioned(r)
  BY <1>7, HardhatVersionedKeeps DEF HardhatVersioned, Logged
<1>8. ASSUME NEW ok \in BOOLEAN, HardhatProfile(r, ok)
      PROVE  RunnerInv' /\ Logged
  BY <1>8, HardhatProfileKeeps DEF HardhatProfile, Logged
<1>9. CASE HardhatBaseline(r)
  BY <1>9, HardhatBaselineKeeps DEF HardhatBaseline, Logged
<1>10. CASE HardhatBatch(r)
  BY <1>10, HardhatBatchKeeps DEF HardhatBatch, Logged
<1>11. CASE HardhatEvaluate(r)
  BY <1>11, HardhatEvaluateKeeps DEF HardhatEvaluate, Logged
<1>12. CASE HardhatRecorded(r)
  BY <1>12, HardhatRecordedKeeps DEF HardhatRecorded, Logged
<1>13. CASE HardhatExit(r)
  BY <1>13, HardhatExitKeeps DEF HardhatExit, Exits, Logged
<1> QED
  BY <1>1, <1>2, <1>3, <1>4, <1>5, <1>6, <1>7, <1>8, <1>9, <1>10, <1>11, <1>12, <1>13 DEF HardhatStep

LEMMA CampaignKeeps ==
  ASSUME RunnerInv, NEW r \in Runners, CampaignStep(r)
  PROVE  RunnerInv' /\ Logged
<1>1. CASE CampaignRunChild(r) \/ CampaignGroupExit(r)
  BY <1>1, RunChildKeeps DEF CampaignRunChild, CampaignGroupExit, Logged
<1>2. CASE CampaignRestore(r)
  BY <1>2, RestoreKeeps DEF CampaignRestore, Logged
<1>3. CASE CampaignRefused(r)
  BY <1>3, CampaignRefusedKeeps DEF CampaignRefused, Exits, Logged
<1>4. CASE CampaignStart(r)
  BY <1>4, CampaignStartKeeps DEF CampaignStart, Logged
<1>5. CASE CampaignPatched(r)
  BY <1>5, CampaignPatchedKeeps DEF CampaignPatched, Logged
<1>6. CASE CampaignRun(r)
  BY <1>6, CampaignRunKeeps DEF CampaignRun, Logged
<1>7. CASE CampaignEvaluate(r)
  BY <1>7, CampaignEvaluateKeeps DEF CampaignEvaluate, Logged
<1>8. CASE CampaignTimeout(r)
  BY <1>8, CampaignTimeoutKeeps DEF CampaignTimeout, Logged
<1>9. CASE CampaignDone(r)
  BY <1>9, CampaignDoneKeeps DEF CampaignDone, Logged
<1>10. CASE CampaignExit(r)
  BY <1>10, CampaignExitKeeps DEF CampaignExit, Exits, Logged
<1> QED
  BY <1>1, <1>2, <1>3, <1>4, <1>5, <1>6, <1>7, <1>8, <1>9, <1>10 DEF CampaignStep

LEMMA EnvironmentKeeps ==
  ASSUME RunnerInv, Environment
  PROVE  RunnerInv' /\ Logged
<1>1. ASSUME NEW r \in Runners, Interrupted(r) \/ InterruptedInPopen(r) \/ Killed(r)
      PROVE  RunnerInv' /\ Logged
  BY <1>1, InterruptedKeeps, InterruptedInPopenKeeps, KilledKeeps
     DEF Interrupted, InterruptedInPopen, Killed, Logged
<1>2. ASSUME NEW r \in Runners, StartCompiler(r) \/ Compile(r) \/ Patch(r) \/ EndCompiler(r)
      PROVE  RunnerInv' /\ Logged
  BY <1>2, StartCompilerKeeps, CompileKeeps, PatchKeeps, EndCompilerKeeps
     DEF StartCompiler, Compile, Patch, EndCompiler, Logged
<1>3. ASSUME NEW r \in Runners, NEW outcome \in Outcomes(Kind(r)), EndWrapper(r, outcome)
      PROVE  RunnerInv' /\ Logged
  BY <1>3, EndWrapperKeeps DEF EndWrapper, Logged
<1>4. ASSUME NEW c \in Trees, Edit(c)
      PROVE  RunnerInv' /\ Logged
  BY <1>4, EditKeeps DEF Edit, Logged
<1> QED
  BY <1>1, <1>2, <1>3, <1>4 DEF Environment

LEMMA StepKeeps ==
  ASSUME RunnerInv, [Next]_vars
  PROVE  RunnerInv' /\ Logged
<1>1. CASE UNCHANGED vars
  <2>1. DataOK'
    BY <1>1 DEF vars, RunnerInv, TypeOK, DataOK
  <2> QED
    BY <1>1, <2>1, SelfKeeps DEF vars, Logged
<1>2. CASE Next
  BY <1>2, FoundryKeeps, HardhatKeeps, CampaignKeeps, EnvironmentKeeps DEF Next, Step
<1> QED
  BY <1>1, <1>2

LEMMA Homes ==
  ASSUME NEW name, NEW r
  PROVE  HomeIn(name, r) \in Trees
<1>1. \E c \in Trees : TRUE
  BY DEF CastAssumption
<1>2. FirstTree \in Trees
  BY <1>1 DEF FirstTree
<1>3. \E c \in Trees : Trees = {FirstTree} \/ c # FirstTree
  BY <1>2
<1>4. OtherTree \in Trees
  BY <1>3 DEF OtherTree
<1> QED
  BY <1>2, <1>4 DEF HomeIn

LEMMA ProcInType ==
  ASSUME NEW name \in Casts, NEW r \in Runners
  PROVE  /\ ProcIn(name, r) \in ProcessType
         /\ ProcIn(name, r).batch = 1 /\ ProcIn(name, r).total \in 1..Batches
         /\ ProcIn(name, r).pc \in {"exited", "appending", "starting"}
<1>1. name \in {"foundry", "hardhat", "campaign", "foundries", "hardhats"}
  BY DEF CastAssumption, CastNames
<1>2. KindIn(name, r) \in {"foundry", "hardhat", "campaign", "absent"}
  BY <1>1 DEF KindIn, Alone
<1>3. <<>> \in Seq(Files) /\ <<>> \in Seq(Rows)
  OBVIOUS
<1>4. UserFiles \in [Files -> Nat]
  BY DEF UserFiles, User
<1>5. (IF Alone(name) THEN Batches ELSE 1) \in 1..Batches
  BY DEF CheckoutAssumption
<1>6. LateIn(name, r) \in BOOLEAN
  BY DEF LateIn
<1>7. 1 \in 0..Batches /\ 0 \in 0..Batches /\ -1 \in -1..2
  BY DEF CheckoutAssumption
<1>8. (IF LateIn(name, r) THEN 1 ELSE 0) \in 0..Batches
  BY <1>7
<1> HIDE DEF UserFiles
<1> QED
  BY <1>2, <1>3, <1>4, <1>5, <1>6, <1>7, <1>8, Homes DEF ProcIn, ProcessType, Over, BatchNumbers, Versions

LEMMA InitHolds ==
  ASSUME Init
  PROVE  RunnerInv
<1>1. PICK name \in Casts :
        /\ proc = [r \in Runners |-> ProcIn(name, r)]
        /\ child = [r \in Runners |-> [group |-> NoGroup, outcome |-> OutcomeIn(name, r)]]
        /\ tree = [c \in Trees |-> IF name = "foundries" /\ c = OtherTree
                                   THEN [UserFiles EXCEPT !["pins"] = Run] ELSE UserFiles]
        /\ faults = IF Alone(name) THEN MaxFaults ELSE 1
  BY DEF Init
<1>2. \A r \in Runners : /\ proc[r] \in ProcessType /\ proc[r].batch = 1 /\ proc[r].total \in 1..Batches
                         /\ proc[r].pc \in {"exited", "appending", "starting"}
  BY <1>1, ProcInType
<1>3. proc \in [Runners -> ProcessType]
  BY <1>1, <1>2
<1>4. \A r \in Runners : child[r].group = NoGroup
  BY <1>1
<1>5. child \in [Runners -> [group : [Members -> {"gone", "live", "dying"}],
                             outcome : {"none", "passed", "asserted", "broke"}]]
  <2>1. NoGroup \in [Members -> {"gone", "live", "dying"}]
    BY DEF NoGroup
  <2>2. \A r \in Runners : OutcomeIn(name, r) \in {"none", "passed", "asserted", "broke"}
    BY DEF OutcomeIn
  <2> QED
    BY <1>1, <2>1, <2>2
<1>6. tree \in [Trees -> [Files -> Nat]]
  <2>1. UserFiles \in [Files -> Nat] /\ [UserFiles EXCEPT !["pins"] = Run] \in [Files -> Nat]
    BY DEF UserFiles, User, Run
  <2> QED
    BY <1>1, <2>1
<1>7. rows \in [Runners -> [current : Seq(Nat), exit : [0..Batches -> {0, 1}]]]
  <2>1. <<>> \in Seq(Nat) /\ [b \in 0..Batches |-> 0] \in [0..Batches -> {0, 1}]
    OBVIOUS
  <2>2. rows = [r \in Runners |-> [current |-> <<>>, exit |-> [b \in 0..Batches |-> 0]]]
    BY DEF Init
  <2> QED
    BY <2>1, <2>2
<1>8. /\ source \in [Trees -> Versions] /\ owner \in [Trees -> Runners \cup {Nobody}]
      /\ flock \in Runners \cup {Nobody} /\ summary \in Seq(Rows) /\ faults \in Nat
  <2>1. source = [c \in Trees |-> 0] /\ owner = [c \in Trees |-> Nobody] /\ flock = Nobody /\ summary = <<>>
    BY DEF Init
  <2>2. faults \in Nat
    BY <1>1 DEF CheckoutAssumption
  <2>3. <<>> \in Seq(Rows)
    OBVIOUS
  <2> QED
    BY <2>1, <2>2, <2>3 DEF Versions
<1>9. TypeOK
  BY <1>2, <1>3, <1>5, <1>6, <1>7, <1>8 DEF TypeOK
<1> QED
  BY <1>2, <1>4, <1>9 DEF RunnerInv, Gone, At

(* In every reachable state the scripts' variables have their types, a living child belongs to a script
   that is inside run_child, was killed or lost it inside Popen, and whoever is about to replace
   summary.json holds its lock and has read all of it. *)
THEOREM RunnerInvariant == Spec => []RunnerInv
<1>1. Init => RunnerInv
  BY InitHolds
<1>2. RunnerInv /\ [Next]_vars => RunnerInv'
  BY StepKeeps
<1> QED
  BY <1>1, <1>2, PTL DEF Spec

(* No script restores a file while a process of its batch may still read it, for any number of scripts,
   batches, checkouts, signals, edits and kills (the killpg and the wait of run_child). *)
THEOREM StoppedBeforeRestore == Spec => []ReadersStopped
<1>1. RunnerInv => ReadersStopped
  BY DEF RunnerInv, ReadersStopped, Restoring, InChild, Stopping
<1> QED
  BY <1>1, RunnerInvariant, PTL

(* summary.json grows by one row at a time and never loses one: the scripts implement EvidenceLog, for
   any number of them, of batches and of faults (write_json under the summary's flock). *)
THEOREM LogOnlyGrows == Spec => AppendOnly
<1>1. Init => Evidence!Init
  BY DEF Init, Evidence!Init
<1>2. RunnerInv /\ [Next]_vars => [Evidence!Next]_summary
  BY StepKeeps DEF Logged, Evidence!Next
<1> QED
  BY <1>1, <1>2, RunnerInvariant, PTL DEF Spec, AppendOnly, Evidence!Spec

-----------------------------------------------------------------------------
(* The scripts' evidence. *)

\* Who locks its checkout, and who writes to the shared summary.
Lockers == {"hardhat", "campaign"}
Loggers == {"foundry", "hardhat"}

\* The try body, as long as nothing has been raised in it.
OnCourse(p) == p.body = "try" /\ p.pc \notin {"failing"} \cup Stopping \cup Over

\* Once evaluated, and once its row is among the run's rows, the batch under way counts.
Evaluated == {"appending", "locking", "replacing", "recorded", "ignoring"} \cup Restoring
Listed == Evaluated \ {"appending"}
Finishing == {"ignoring"} \cup Restoring
Counted(p, points) == IF p.pc \in points THEN p.batch ELSE p.batch - 1

\* A command is about to run, runs, or has returned.
AtWork == {"spawning", "returned"} \cup InChild

\* What a batch's compilers have read, and how its process ended.
SeenType ==
  [inputs : SUBSET [source : Versions, target : Nat],
   ended : {"none", "passed", "asserted", "broke"}]

\* Batch b passed, for Hardhat on the baseline the run vouches for.
Passed(p, s, b) ==
  /\ s[b].ended = "passed"
  /\ p.kind = "hardhat" => \A i \in s[b].inputs : i.source = p.identity

(* Mutant b was caught: its suite, green on the baseline, failed an assertion, and nothing was compiled
   but that mutant. *)
Caught(p, s, b) ==
  /\ s[b].ended = "asserted" /\ TestOf(b) \in p.based /\ s[b].inputs # {}
  /\ \A i \in s[b].inputs : i.target = Mutant(b)

\* Where the try body still is, and that a script that left a child behind does not end with status 0.
Course(p) ==
  /\ p.pc \in {"starting", "spawning", "returned", "ready", "selecting", "baselining", "failing"}
              \cup InChild \cup Stopping => p.body = "try"
  /\ p.leaked => ~OnCourse(p)
  /\ p.status = 0 => p.pc = "exited" /\ ~p.leaked
  /\ p.kind = "campaign" => p.batch \in 1..(p.total + 1)

\* Hardhat versions its sources and selects its suites before its first batch.
Fresh(p) ==
  p.kind = "hardhat"
  /\ (p.pc \in {"starting", "selecting", "baselining"} \/ (p.pc \in AtWork /\ p.job # "batch"))
    => p.batch = 1

(* On course, the run has a row of each evaluated batch in order, and a row without a failure is of a batch
   that passed. *)
Ledger(p, w, s) ==
  p.kind \in Loggers /\ OnCourse(p) =>
    /\ Len(w.current) = Counted(p, Listed)
    /\ \A i \in 1..Len(w.current) : w.current[i] = i
    /\ p.pc \in {"appending", "locking", "replacing", "recorded"} => p.row = p.batch
    /\ \A b \in 1..Counted(p, Evaluated) : w.exit[b] = 0 => Passed(p, s, b)
    /\ p.kind = "foundry" /\ p.pc \in Finishing => p.batch = p.total

\* An exception leaves a row that says so: the row of the batch under way, then one among the run's rows.
Blamed(p, w) ==
  p.kind \in Loggers /\ p.body = "except" =>
    /\ p.pc = "appending" => w.exit[p.row] = 1
    /\ p.pc \in Listed => \E i \in DOMAIN w.current : w.exit[w.current[i]] # 0

\* What run_child returns is what the wrapper of the batch under way reported.
Reported(p, c, s) ==
  OnCourse(p) /\ p.job = "batch" /\ p.pc \in InChild \cup {"returned"} /\ c.group["wrapper"] = "gone"
    => s[p.batch].ended = c.outcome

(* The campaign's counterpart of Ledger: a mutant counted as caught was, and no mutant's suite runs before
   its baseline. *)
Trials(p, w, s) ==
  p.kind = "campaign" /\ OnCourse(p) =>
    /\ \A b \in 1..(p.batch - 1) : w.exit[b] = 0 => Caught(p, s, b)
    /\ p.pc \in Finishing => p.batch > p.total
    /\ p.job = "batch" /\ p.pc \in AtWork =>
         p.batch <= p.total /\ (~p.base => TestOf(p.batch) \in p.based)

\* What status 0 stands for, one script's part of GreenIsReal.
Green(p, w, s) ==
  p.status = 0 =>
    \A b \in 1..p.total :
      /\ p.kind = "campaign" => Caught(p, s, b)
      /\ p.kind \in Loggers => w.exit[b] = 0 /\ Passed(p, s, b)

\* All that is known of one script's evidence.
Vouched(r) ==
  /\ Course(proc[r]) /\ Fresh(proc[r])
  /\ Ledger(proc[r], rows[r], seen[r]) /\ Blamed(proc[r], rows[r])
  /\ Reported(proc[r], child[r], seen[r])
  /\ Trials(proc[r], rows[r], seen[r]) /\ Green(proc[r], rows[r], seen[r])

SeenOK == seen \in [Runners -> [BatchNumbers -> SeenType]]

\* Every script's evidence is what its processes did: the inductive part of GreenIsReal.
EvidenceInv == SeenOK /\ \A r \in Runners : Vouched(r)

\* A script that has taken its backup and has not ended.
Active(r) == proc[r].pc \notin {"starting"} \cup Over

\* The files a script of this kind patches, hence backs up.
Backed(kind) == IF kind = "campaign" THEN {"target", "pins", "config"} ELSE {"pins", "profile"}

\* A Hardhat runner or campaign that is active holds its checkout's lock.
LockInv == \A r \in Runners : Kind(r) \in Lockers /\ Active(r) => owner[Home(r)] = r

\* What is left to restore is what was backed up.
LeftInv == \A r \in Runners : \A i \in DOMAIN proc[r].left : proc[r].left[i] \in Backed(Kind(r))

\* While a mutant's suite is at work the target is that mutant.
TargetInv == \A r \in Runners :
  Kind(r) = "campaign" /\ OnCourse(proc[r]) /\ proc[r].job = "batch" /\ ~proc[r].base
  /\ proc[r].pc \in {"spawning", "returned"} \cup InChild
   => tree[Home(r)]["target"] = Mutant(proc[r].batch)

\* Scripts that share a checkout lock it, but for a Foundry runner, which starts where nobody else does.
CastInv == \A r \in Runners :
  /\ Kind(r) = "absent" => At(r, "exited") /\ proc[r].status # 0
  /\ \A q \in Runners \ {r} : Home(q) = Home(r) =>
    /\ Kind(r) = "foundry" /\ At(r, "starting") => Kind(q) = "absent"
    /\ Kind(r) \in Lockers => Kind(q) # "foundry"

\* f is still to be restored by r.
Owes(r, f) ==
  /\ Active(r) /\ f \in Backed(Kind(r))
  /\ proc[r].pc \in Finishing => \E i \in DOMAIN proc[r].left : proc[r].left[i] = f

(* In a checkout that was not abandoned every active script has backed up the user's own files, and a file
   that is not the user's is one that some script owes: the inductive part of UserFilesBack. *)
FilesInv == \A c \in Trees : ~Abandoned(c) /\ ~Cut(c) =>
  /\ \A r \in Runners : Home(r) = c /\ Active(r) => \A f \in Backed(Kind(r)) : proc[r].backup[f] = User
  /\ \A f \in Files : tree[c][f] # User => \E r \in Runners : Home(r) = c /\ Owes(r, f)

\* A script whose rows are all of batches without an exception, and how many of them are in the summary.
Counts(p) == p.kind \in Loggers /\ (OnCourse(p) \/ p.status = 0)
Entered(p) == IF p.status = 0 THEN p.total ELSE Counted(p, {"recorded"} \cup Finishing)

\* Places in a log that hold one row of each of the first n batches, with the exit codes given.
Account(places, log, exits, n) ==
  /\ \A i \in places : log[i].batch \in 1..n /\ log[i].exit = exits[log[i].batch]
  /\ \A b \in 1..n : \E i \in places : log[i].batch = b
  /\ \A i, j \in places : log[i].batch = log[j].batch => i = j

\* The shared summary has one row of each of r's first n batches.
Booked(r, n) == Account(RowsOf(r), summary, rows[r].exit, n)

\* No writer has lost another's row, or written one of its own twice: the inductive part of GreenIsRecorded.
SummaryInv == \A r \in Runners : Counts(proc[r]) => Booked(r, Entered(proc[r]))

\* What a process record says that the evidence depends on, but for its program counter and its job.
Alike(p, q) ==
  /\ q.kind = p.kind /\ q.total = p.total /\ q.body = p.body /\ q.batch = p.batch /\ q.row = p.row
  /\ q.based = p.based /\ q.leaked = p.leaked /\ q.status = p.status
  /\ p.kind = "hardhat" => q.identity = p.identity

SameJob(p, q) == q.job = p.job /\ q.base = p.base

LEMMA Typed ==
  ASSUME RunnerInv, EvidenceInv, NEW r \in Runners
  PROVE  /\ proc \in [Runners -> ProcessType] /\ proc[r] \in ProcessType
         /\ rows \in [Runners -> [current : Seq(Nat), exit : [0..Batches -> {0, 1}]]]
         /\ rows[r] \in [current : Seq(Nat), exit : [0..Batches -> {0, 1}]]
         /\ child \in [Runners -> [group : [Members -> {"gone", "live", "dying"}], outcome : {"none", "passed", "asserted", "broke"}]]
         /\ child[r].group \in [Members -> {"gone", "live", "dying"}]
         /\ seen \in [Runners -> [BatchNumbers -> SeenType]] /\ seen[r] \in [BatchNumbers -> SeenType]
         /\ Kind(r) # "campaign" => proc[r].batch \in 1..proc[r].total
         /\ proc[r].batch \in Nat /\ proc[r].total \in 1..Batches /\ proc[r].row \in 0..Batches
         /\ Vouched(r)
<1>1. /\ proc \in [Runners -> ProcessType] /\ proc[r] \in ProcessType
      /\ rows \in [Runners -> [current : Seq(Nat), exit : [0..Batches -> {0, 1}]]]
      /\ child \in [Runners -> [group : [Members -> {"gone", "live", "dying"}], outcome : {"none", "passed", "asserted", "broke"}]]
      /\ Kind(r) # "campaign" => proc[r].batch \in 1..proc[r].total
  BY DEF RunnerInv, TypeOK
<1>2. /\ seen \in [Runners -> [BatchNumbers -> SeenType]] /\ seen[r] \in [BatchNumbers -> SeenType]
      /\ Vouched(r)
  BY DEF EvidenceInv, SeenOK
<1>3. proc[r].batch \in Nat /\ proc[r].total \in 1..Batches /\ proc[r].row \in 0..Batches
  BY <1>1 DEF ProcessType, BatchNumbers
<1> QED
  BY <1>1, <1>2, <1>3

\* Only the program counter moves.
LEMMA Steered ==
  ASSUME RunnerInv, EvidenceInv, NEW r \in Runners, NEW l \in PcType, Goto(r, l)
  PROVE  Alike(proc[r], proc'[r]) /\ SameJob(proc[r], proc'[r]) /\ proc'[r].pc = l
<1>1. proc \in [Runners -> ProcessType] /\ proc[r] \in ProcessType
  BY Typed
<1>2. proc'[r] = [proc[r] EXCEPT !.pc = l]
  BY <1>1 DEF Goto
<1> QED
  BY <1>1, <1>2 DEF ProcessType, Alike, SameJob

Early == {"starting", "spawning", "returned", "ready", "selecting", "baselining"} \cup InChild

\* A script goes on, or falls out of its course, with its rows and what its compilers read as they were.
LEMMA Onward ==
  ASSUME RunnerInv, EvidenceInv, NEW r \in Runners,
         Alike(proc[r], proc'[r]), rows'[r] = rows[r], seen'[r] = seen[r],
         \/ proc[r].pc \in Early /\ proc'[r].pc \in Early
         \/ proc[r].pc \in {"locking", "replacing"} /\ proc'[r].pc \in {"replacing", "recorded"}
         \/ proc[r].pc \in Finishing /\ proc'[r].pc \in Finishing
         \/ proc[r].pc \notin Over /\ proc[r].body = "try" /\ proc'[r].pc \in {"failing"} \cup Stopping
         \/ proc[r].pc \notin Over /\ proc'[r].pc = "killed",
         proc'[r].kind = "campaign" /\ proc'[r].pc \in AtWork /\ proc'[r].job = "batch" =>
           proc[r].pc \in AtWork /\ SameJob(proc[r], proc'[r]),
         Fresh(proc'[r]),
         Reported(proc'[r], child'[r], seen'[r])
  PROVE  Vouched(r)'
<1>1. Vouched(r) /\ proc[r].batch \in Nat /\ proc[r].total \in 1..Batches
  BY Typed
<1>2. Course(proc'[r])
  BY <1>1 DEF Vouched, Course, Alike, OnCourse, Early, Finishing, InChild, Stopping, Restoring, Over
<1>3. Ledger(proc'[r], rows'[r], seen'[r])
  BY <1>1 DEF Vouched, Ledger, Alike, OnCourse, Counted, Listed, Evaluated, Early, Finishing, InChild,
              Stopping, Restoring, Over, Passed
<1>4. Blamed(proc'[r], rows'[r])
  BY <1>1 DEF Vouched, Blamed, Alike, Early, Listed, Evaluated, Finishing, InChild, Stopping, Restoring, Over
<1>5. Trials(proc'[r], rows'[r], seen'[r])
  BY <1>1 DEF Vouched, Trials, Alike, SameJob, OnCourse, Early, AtWork, Finishing, InChild, Stopping, Restoring, Over, Caught
<1>6. Green(proc'[r], rows'[r], seen'[r])
  BY <1>1 DEF Vouched, Course, Green, Alike, Early, Finishing, InChild, Stopping, Restoring, Over
<1> QED
  BY <1>2, <1>3, <1>4, <1>5, <1>6 DEF Vouched

LEMMA SpawnedVouches ==
  ASSUME RunnerInv, EvidenceInv, NEW r \in Runners, Spawned(r)
  PROVE  Vouched(r)'
<1>1. /\ Alike(proc[r], proc'[r]) /\ SameJob(proc[r], proc'[r]) /\ proc'[r].pc = "waiting" /\ rows' = rows /\ seen' = seen
      /\ child'[r] = NewChild /\ proc[r].pc = "spawning"
  BY Steered, Typed DEF Spawned, PcType, InChild, At
<1>2. NewChild.group["wrapper"] = "live"
  BY DEF NewChild, NoGroup, Members
<1>fresh. Fresh(proc'[r])
  BY <1>1, Typed DEF Vouched, Fresh, Alike, SameJob, AtWork, InChild
<1>3. Reported(proc'[r], child'[r], seen'[r])
  BY <1>1, <1>2 DEF Reported
<1> QED
  BY <1>1, <1>3, <1>fresh, Onward DEF Early, AtWork, InChild

\* SIGKILL changes neither whether the wrapper has gone nor how it ended.
LEMMA KilledChild ==
  ASSUME RunnerInv, EvidenceInv, NEW r \in Runners, KillGroup(r)
  PROVE  /\ child'[r].group["wrapper"] = "gone" <=> child[r].group["wrapper"] = "gone"
         /\ child'[r].outcome = child[r].outcome
<1>1. child'[r] = [child[r] EXCEPT !.group = DyingGroup(r)]
  <2>1. child' = [child EXCEPT ![r] = [@ EXCEPT !.group = DyingGroup(r)]]
    BY KillType, Zenon
  <2>2. r \in DOMAIN child
    BY Typed
  <2> QED BY <2>1, <2>2
<1> QED
  BY <1>1, ChildType DEF DyingGroup, Members

LEMMA WaitedVouches ==
  ASSUME RunnerInv, EvidenceInv, NEW r \in Runners, Waited(r)
  PROVE  Vouched(r)'
<1>1. /\ Alike(proc[r], proc'[r]) /\ SameJob(proc[r], proc'[r]) /\ proc'[r].pc = "draining" /\ rows' = rows /\ seen' = seen
      /\ KillGroup(r) /\ proc[r].pc = "waiting"
  BY Steered, Typed DEF Waited, PcType, InChild, At
<1>2. Reported(proc[r], child[r], seen[r])
  BY Typed DEF Vouched
<1>fresh. Fresh(proc'[r])
  BY <1>1, Typed DEF Vouched, Fresh, Alike, SameJob, AtWork, InChild
<1>3. Reported(proc'[r], child'[r], seen'[r])
  BY <1>1, <1>2, KilledChild DEF Reported, Alike, SameJob, OnCourse, InChild, Stopping, Over
<1> QED
  BY <1>1, <1>3, <1>fresh, Onward DEF Early, AtWork, InChild

LEMMA ReturnedVouches ==
  ASSUME RunnerInv, EvidenceInv, NEW r \in Runners, Returned(r)
  PROVE  Vouched(r)'
<1>1. /\ Alike(proc[r], proc'[r]) /\ SameJob(proc[r], proc'[r]) /\ proc'[r].pc = "returned" /\ rows' = rows /\ seen' = seen
      /\ child' = child /\ proc[r].pc = "draining"
  BY Steered, Typed DEF Returned, PcType, At
<1>2. Reported(proc[r], child[r], seen[r])
  BY Typed DEF Vouched
<1>fresh. Fresh(proc'[r])
  BY <1>1, Typed DEF Vouched, Fresh, Alike, SameJob, AtWork, InChild
<1>3. Reported(proc'[r], child'[r], seen'[r])
  BY <1>1, <1>2 DEF Reported, Alike, SameJob, OnCourse, InChild, Stopping, Over
<1> QED
  BY <1>1, <1>3, <1>fresh, Onward DEF Early, AtWork, InChild

\* The same where neither a child's end nor a first batch matters.
LEMMA Leaving ==
  ASSUME RunnerInv, EvidenceInv, NEW r \in Runners,
         Alike(proc[r], proc'[r]), rows'[r] = rows[r], seen'[r] = seen[r],
         \/ proc[r].pc \in Early /\ proc'[r].pc = "ready"
         \/ proc[r].pc \in {"locking", "replacing"} /\ proc'[r].pc \in {"replacing", "recorded"}
         \/ proc[r].pc \in Finishing /\ proc'[r].pc \in Finishing
         \/ proc[r].pc \notin Over /\ proc[r].body = "try" /\ proc'[r].pc \in {"failing"} \cup Stopping
         \/ proc[r].pc \notin Over /\ proc'[r].pc = "killed"
  PROVE  Vouched(r)'
<1>1. proc'[r].pc \notin AtWork \cup {"starting", "selecting", "baselining"}
  BY DEF AtWork, InChild, Finishing, Restoring, Stopping
<1>2. Reported(proc'[r], child'[r], seen'[r]) /\ Fresh(proc'[r])
  BY <1>1 DEF Reported, Fresh, AtWork
<1> QED
  BY <1>1, <1>2, Onward DEF Early

LEMMA TerminatedVouches ==
  ASSUME RunnerInv, EvidenceInv, NEW r \in Runners, Terminated(r)
  PROVE  Vouched(r)'
<1>1. /\ Alike(proc[r], proc'[r]) /\ proc'[r].pc = "reaping" /\ rows' = rows /\ seen' = seen
      /\ proc[r].pc = "terminating"
  BY Steered, Typed DEF Terminated, PcType, Stopping, At
<1>2. proc[r].body = "try"
  BY <1>1, Typed DEF Vouched, Course, Stopping
<1> QED
  BY <1>1, <1>2, Leaving DEF Stopping, Over

LEMMA ReraisedVouches ==
  ASSUME RunnerInv, EvidenceInv, NEW r \in Runners, Reraised(r)
  PROVE  Vouched(r)'
<1>1. /\ Alike(proc[r], proc'[r]) /\ proc'[r].pc = "failing" /\ rows' = rows /\ seen' = seen
      /\ proc[r].pc = "reaping"
  BY Steered, Typed DEF Reraised, PcType, At
<1>2. proc[r].body = "try"
  BY <1>1, Typed DEF Vouched, Course, Stopping
<1> QED
  BY <1>1, <1>2, Leaving DEF Over

LEMMA CampaignTimeoutVouches ==
  ASSUME RunnerInv, EvidenceInv, NEW r \in Runners, CampaignTimeout(r)
  PROVE  Vouched(r)'
<1>1. /\ Alike(proc[r], proc'[r]) /\ proc'[r].pc = "terminating" /\ rows' = rows /\ seen' = seen
      /\ proc[r].pc = "waiting"
  BY Steered, Typed DEF CampaignTimeout, PcType, Stopping, At
<1>2. proc[r].body = "try"
  BY <1>1, Typed DEF Vouched, Course, InChild
<1> QED
  BY <1>1, <1>2, Leaving DEF Stopping, Over

LEMMA PatchedVouches ==
  ASSUME RunnerInv, EvidenceInv, NEW r \in Runners, FoundryPatched(r) \/ CampaignPatched(r)
  PROVE  Vouched(r)'
<1> DEFINE l == IF child[r].outcome = "passed" THEN "ready" ELSE "failing"
<1>1. l \in {"ready", "failing"}
  OBVIOUS
<1>2. Goto(r, l) /\ rows' = rows /\ seen' = seen /\ proc[r].pc = "returned"
  BY DEF FoundryPatched, CampaignPatched, At
<1> HIDE DEF l
<1>3. Alike(proc[r], proc'[r]) /\ proc'[r].pc \in {"ready", "failing"}
  BY <1>1, <1>2, Steered DEF PcType
<1>4. proc[r].body = "try"
  BY <1>2, Typed DEF Vouched, Course
<1> QED
  BY <1>2, <1>3, <1>4, Leaving DEF Early, Over

LEMMA HardhatVersionedVouches ==
  ASSUME RunnerInv, EvidenceInv, NEW r \in Runners, HardhatVersioned(r)
  PROVE  Vouched(r)'
<1>1. /\ Alike(proc[r], proc'[r]) /\ proc'[r].pc = "selecting" /\ rows' = rows /\ seen' = seen
      /\ proc[r].pc = "returned" /\ proc[r].job = "version"
  BY Steered, Typed DEF HardhatVersioned, PcType, At
<1>2. Reported(proc'[r], child'[r], seen'[r])
  BY <1>1 DEF Reported, InChild
<1>3. Fresh(proc'[r])
  BY <1>1, Typed DEF Vouched, Fresh, AtWork, Alike
<1> QED
  BY <1>1, <1>2, <1>3, Onward DEF Early, AtWork, InChild

LEMMA IgnoredVouches ==
  ASSUME RunnerInv, EvidenceInv, NEW r \in Runners, Ignored(r)
  PROVE  Vouched(r)'
<1>1. /\ Alike(proc[r], proc'[r]) /\ proc'[r].pc = "restoring" /\ rows' = rows /\ seen' = seen
      /\ proc[r].pc = "ignoring"
  BY Steered, Typed DEF Ignored, PcType, Restoring, At
<1> QED
  BY <1>1, Leaving DEF Finishing, Restoring

LEMMA OpenedVouches ==
  ASSUME RunnerInv, EvidenceInv, NEW r \in Runners, Opened(r)
  PROVE  Vouched(r)'
<1>1. /\ Alike(proc[r], proc'[r]) /\ proc'[r].pc = "writing" /\ rows' = rows /\ seen' = seen
      /\ proc[r].pc = "restoring"
  BY Steered, Typed DEF Opened, PcType, Restoring, At
<1> QED
  BY <1>1, Leaving DEF Finishing, Restoring

LEMMA WrittenVouches ==
  ASSUME RunnerInv, EvidenceInv, NEW r \in Runners, Written(r)
  PROVE  Vouched(r)'
<1>1. /\ proc'[r] = [proc[r] EXCEPT !.pc = "restoring", !.left = Tail(@)] /\ rows' = rows /\ seen' = seen
      /\ proc[r].pc = "writing"
  BY Typed DEF Written, At
<1>2. Alike(proc[r], proc'[r]) /\ proc'[r].pc = "restoring"
  BY <1>1, Typed DEF ProcessType, Alike
<1> QED
  BY <1>1, <1>2, Leaving DEF Finishing, Restoring

LEMMA LockedVouches ==
  ASSUME RunnerInv, EvidenceInv, NEW r \in Runners, Locked(r)
  PROVE  Vouched(r)'
<1>1. /\ proc'[r] = [proc[r] EXCEPT !.pc = "replacing", !.history = summary] /\ rows' = rows /\ seen' = seen
      /\ proc[r].pc = "locking"
  BY Typed DEF Locked, At
<1>2. Alike(proc[r], proc'[r]) /\ proc'[r].pc = "replacing"
  BY <1>1, Typed DEF ProcessType, Alike
<1> QED
  BY <1>1, <1>2, Leaving

LEMMA ReplacedVouches ==
  ASSUME RunnerInv, EvidenceInv, NEW r \in Runners, Replaced(r)
  PROVE  Vouched(r)'
<1>1. /\ proc'[r] = [proc[r] EXCEPT !.pc = "recorded", !.history = <<>>] /\ rows' = rows /\ seen' = seen
      /\ proc[r].pc = "replacing"
  BY Typed DEF Replaced, At
<1>2. Alike(proc[r], proc'[r]) /\ proc'[r].pc = "recorded"
  BY <1>1, Typed DEF ProcessType, Alike
<1> QED
  BY <1>1, <1>2, Leaving

LEMMA ListedRow ==
  ASSUME NEW s \in Seq(Nat), NEW x \in Nat
  PROVE  Len(s) + 1 \in DOMAIN Append(s, x) /\ Append(s, x)[Len(s) + 1] = x
OBVIOUS

LEMMA AppendedVouches ==
  ASSUME RunnerInv, EvidenceInv, NEW r \in Runners, Appended(r)
  PROVE  Vouched(r)'
<1>1. /\ Alike(proc[r], proc'[r]) /\ proc'[r].pc = "locking" /\ seen' = seen /\ child' = child
      /\ rows'[r] = [rows[r] EXCEPT !.current = Append(@, proc[r].row)] /\ proc[r].pc = "appending"
  BY Steered, Typed DEF Appended, PcType, At
<1>2. Vouched(r) /\ proc[r].batch \in Nat /\ proc[r].total \in 1..Batches /\ proc[r].row \in Nat
  BY Typed
<1>3. /\ rows'[r].exit = rows[r].exit /\ rows'[r].current = Append(rows[r].current, proc[r].row)
      /\ rows[r].current \in Seq(Nat)
  BY <1>1, Typed
<1>4. Course(proc'[r])
  BY <1>1, <1>2 DEF Vouched, Course, Alike, OnCourse, InChild, Stopping, Over
<1>fresh. Fresh(proc'[r])
  BY <1>1 DEF Fresh, AtWork, InChild
<1>5. Ledger(proc'[r], rows'[r], seen'[r])
  <2>1. SUFFICES ASSUME proc[r].kind \in Loggers, OnCourse(proc'[r])
                 PROVE  Ledger(proc'[r], rows'[r], seen'[r])
    BY <1>1 DEF Ledger, Alike
  <2>2. OnCourse(proc[r]) /\ proc[r].row = proc[r].batch /\ Len(rows[r].current) = proc[r].batch - 1
    BY <1>1, <1>2, <2>1 DEF Vouched, Ledger, Alike, OnCourse, Counted, Listed, Evaluated, InChild, Stopping, Restoring, Over
  <2>3. \A i \in 1..Len(rows[r].current) : rows[r].current[i] = i
    BY <1>2, <2>1, <2>2 DEF Vouched, Ledger
  <2>4. /\ Len(rows'[r].current) = proc'[r].batch
        /\ \A i \in 1..Len(rows'[r].current) : rows'[r].current[i] = i
    <3>1. proc'[r].batch = proc[r].batch
      BY <1>1 DEF Alike
    <3>2. Len(rows'[r].current) = Len(rows[r].current) + 1
      BY <1>2, <1>3
    <3>3. \A i \in 1..Len(rows[r].current) : rows'[r].current[i] = rows[r].current[i]
      BY <1>2, <1>3
    <3>4. rows'[r].current[Len(rows[r].current) + 1] = proc[r].row
      BY <1>2, <1>3
    <3>5. Len(rows[r].current) \in Nat
      BY <1>3
    <3>6. Len(rows'[r].current) = proc'[r].batch
      BY <1>2, <2>2, <3>1, <3>2
    <3>7. ASSUME NEW i \in 1..Len(rows'[r].current) PROVE rows'[r].current[i] = i
      <4>1. CASE i \in 1..Len(rows[r].current)
        BY <2>3, <3>3, <4>1
      <4>2. CASE i = Len(rows[r].current) + 1
        BY <1>2, <2>2, <3>4, <4>2
      <4> QED BY <3>2, <3>5, <4>1, <4>2
    <3> QED BY <3>6, <3>7
  <2>5. \A b \in 1..proc[r].batch : rows[r].exit[b] = 0 => Passed(proc[r], seen[r], b)
    BY <1>1, <1>2, <2>1, <2>2 DEF Vouched, Ledger, Counted, Evaluated
  <2>6. Counted(proc'[r], Listed) = proc'[r].batch /\ Counted(proc'[r], Evaluated) = proc'[r].batch
    BY <1>1 DEF Counted, Listed, Evaluated
  <2>7. \A b \in 1..proc'[r].batch : rows'[r].exit[b] = 0 => Passed(proc'[r], seen'[r], b)
    BY <1>1, <1>3, <2>5 DEF Alike, Passed
  <2>8. proc'[r].row = proc'[r].batch /\ proc'[r].pc \notin Finishing
    BY <1>1, <2>2 DEF Alike, Finishing, Restoring
  <2> QED
    BY <2>4, <2>6, <2>7, <2>8 DEF Ledger
<1>6. Blamed(proc'[r], rows'[r])
  <2> DEFINE i == Len(rows[r].current) + 1
  <2>1. i \in DOMAIN rows'[r].current /\ rows'[r].current[i] = proc[r].row
    BY <1>2, <1>3, ListedRow
  <2>2. proc[r].kind \in Loggers /\ proc[r].body = "except" => rows[r].exit[proc[r].row] = 1
    BY <1>1, <1>2 DEF Vouched, Blamed
  <2> HIDE DEF i
  <2>3. proc[r].kind \in Loggers /\ proc[r].body = "except" =>
          \E j \in DOMAIN rows'[r].current : rows'[r].exit[rows'[r].current[j]] # 0
    <3>1. proc[r].kind \in Loggers /\ proc[r].body = "except" => rows'[r].exit[rows'[r].current[i]] = 1
      BY <1>3, <2>1, <2>2
    <3> QED
      BY <2>1, <3>1
  <2> QED
    BY <1>1, <2>3 DEF Blamed, Alike
<1>7. Reported(proc'[r], child'[r], seen'[r])
  BY <1>1 DEF Reported, InChild
<1>8. Trials(proc'[r], rows'[r], seen'[r])
  <2>1. Trials(proc[r], rows[r], seen[r]) /\ (OnCourse(proc'[r]) => OnCourse(proc[r]))
    BY <1>1, <1>2 DEF Vouched, Alike, OnCourse, Stopping, Over
  <2> QED
    BY <1>1, <1>3, <2>1 DEF Trials, Alike, Finishing, AtWork, InChild, Restoring, Caught
<1>9. Green(proc'[r], rows'[r], seen'[r])
  BY <1>1, <1>2 DEF Vouched, Course, Green, Alike
<1> QED
  BY <1>4, <1>fresh, <1>5, <1>6, <1>7, <1>8, <1>9 DEF Vouched

LEMMA StartVouches ==
  ASSUME RunnerInv, EvidenceInv, NEW r \in Runners, FoundryStart(r) \/ HardhatStart(r) \/ CampaignStart(r)
  PROVE  Vouched(r)'
<1>1. PICK job \in {"patch", "version"} :
        /\ proc'[r] = [proc[r] EXCEPT !.pc = "spawning", !.job = job, !.backup = tree[Home(r)]]
        /\ rows' = rows /\ seen' = seen /\ proc[r].pc = "starting"
  <2>1. CASE FoundryStart(r)
    BY <2>1, Typed DEF FoundryStart, At
  <2>2. CASE HardhatStart(r)
    BY <2>2, Typed DEF HardhatStart, At
  <2>3. CASE CampaignStart(r)
    BY <2>3, Typed DEF CampaignStart, At
  <2> QED
    BY <2>1, <2>2, <2>3
<1>2. Alike(proc[r], proc'[r]) /\ proc'[r].pc = "spawning" /\ proc'[r].job = job
  BY <1>1, Typed DEF ProcessType, Alike
<1>3. Reported(proc'[r], child'[r], seen'[r])
  BY <1>2 DEF Reported
<1>4. Fresh(proc'[r])
  BY <1>1, <1>2, Typed DEF Vouched, Fresh, Alike
<1> QED
  BY <1>1, <1>2, <1>3, <1>4, Onward DEF Early

LEMMA FoundryBatchVouches ==
  ASSUME RunnerInv, EvidenceInv, NEW r \in Runners, FoundryBatch(r)
  PROVE  Vouched(r)'
<1>1. /\ proc'[r] = [proc[r] EXCEPT !.pc = "spawning", !.job = "batch", !.pending = TRUE,
                                    !.identity = source[Home(r)]]
      /\ rows' = rows /\ seen' = seen /\ proc[r].pc = "ready" /\ proc[r].kind = "foundry"
  BY Typed DEF FoundryBatch, At, IsFoundry, Kind
<1>2. Alike(proc[r], proc'[r]) /\ proc'[r].pc = "spawning" /\ proc'[r].kind = "foundry"
  BY <1>1, Typed DEF ProcessType, Alike
<1>3. Reported(proc'[r], child'[r], seen'[r]) /\ Fresh(proc'[r])
  BY <1>2 DEF Reported, Fresh, InChild
<1> QED
  BY <1>1, <1>2, <1>3, Onward DEF Early

LEMMA HardhatBatchVouches ==
  ASSUME RunnerInv, EvidenceInv, NEW r \in Runners, HardhatBatch(r)
  PROVE  Vouched(r)'
<1> DEFINE l == IF source[Home(r)] = proc[r].identity THEN "spawning" ELSE "failing"
<1>1. /\ proc'[r] = [proc[r] EXCEPT !.pc = l, !.job = "batch", !.pending = TRUE]
      /\ rows' = rows /\ seen' = seen /\ proc[r].pc = "ready" /\ proc[r].kind = "hardhat"
  BY Typed DEF HardhatBatch, At, IsHardhat, Kind
<1>2. l \in {"spawning", "failing"}
  OBVIOUS
<1> HIDE DEF l
<1>3. Alike(proc[r], proc'[r]) /\ proc'[r].pc = l /\ proc'[r].kind = "hardhat" /\ proc'[r].job = "batch"
  BY <1>1, Typed DEF ProcessType, Alike
<1>4. Reported(proc'[r], child'[r], seen'[r]) /\ Fresh(proc'[r])
  BY <1>2, <1>3 DEF Reported, Fresh, InChild
<1>5. proc[r].body = "try"
  BY <1>1, Typed DEF Vouched, Course
<1> QED
  BY <1>1, <1>2, <1>3, <1>4, <1>5, Onward DEF Early, Over

LEMMA HardhatBaselineVouches ==
  ASSUME RunnerInv, EvidenceInv, NEW r \in Runners, HardhatBaseline(r)
  PROVE  Vouched(r)'
<1>1. /\ proc'[r] = [proc[r] EXCEPT !.pc = "ready", !.identity = source[Home(r)]]
      /\ rows' = rows /\ seen' = seen /\ proc[r].pc = "baselining" /\ proc[r].kind = "hardhat"
  BY Typed DEF HardhatBaseline, At, IsHardhat, Kind
<1>2. /\ proc'[r].pc = "ready" /\ proc'[r].kind = "hardhat" /\ proc'[r].body = proc[r].body
      /\ proc'[r].batch = proc[r].batch /\ proc'[r].leaked = proc[r].leaked /\ proc'[r].status = proc[r].status
      /\ proc'[r].total = proc[r].total
  BY <1>1, Typed DEF ProcessType
<1>3. proc[r].batch = 1 /\ proc[r].body = "try" /\ Vouched(r)
  BY <1>1, Typed DEF Vouched, Fresh, Course
<1>4. Course(proc'[r]) /\ Fresh(proc'[r])
  BY <1>1, <1>2, <1>3 DEF Vouched, Course, Fresh, OnCourse, Stopping, Over, AtWork, InChild
<1>5. Ledger(proc'[r], rows'[r], seen'[r])
  BY <1>1, <1>2, <1>3
  DEF Vouched, Ledger, Loggers, OnCourse, Counted, Listed, Evaluated, Finishing, Stopping, Restoring, Over
<1>6. Blamed(proc'[r], rows'[r]) /\ Reported(proc'[r], child'[r], seen'[r]) /\ Trials(proc'[r], rows'[r], seen'[r])
  BY <1>2, <1>3 DEF Blamed, Reported, Trials, InChild
<1>7. Green(proc'[r], rows'[r], seen'[r])
  BY <1>1, <1>2, <1>3 DEF Vouched, Course, Green
<1> QED
  BY <1>4, <1>5, <1>6, <1>7 DEF Vouched

\* A script enters its finally block because of a failure, which decides its status.
LEMMA Escaping ==
  ASSUME RunnerInv, EvidenceInv, NEW r \in Runners, proc[r].pc \notin Over,
         rows'[r] = rows[r], seen'[r] = seen[r],
         proc'[r].kind = proc[r].kind, proc'[r].total = proc[r].total, proc'[r].batch = proc[r].batch,
         proc'[r].status = proc[r].status,
         proc'[r].pc \in Finishing, proc'[r].body # "try",
         proc'[r].body = "except" => proc[r].kind = "campaign"
  PROVE  Vouched(r)'
<1>1. Vouched(r)
  BY Typed
<1>2. Course(proc'[r]) /\ Fresh(proc'[r])
  BY <1>1 DEF Vouched, Course, Fresh, OnCourse, Finishing, Stopping, Restoring, Over, AtWork, InChild
<1>3. /\ Ledger(proc'[r], rows'[r], seen'[r]) /\ Blamed(proc'[r], rows'[r])
      /\ Reported(proc'[r], child'[r], seen'[r]) /\ Trials(proc'[r], rows'[r], seen'[r])
  BY DEF Ledger, Blamed, Reported, Trials, OnCourse, Loggers
<1>4. Green(proc'[r], rows'[r], seen'[r])
  BY <1>1 DEF Vouched, Course, Green, Over
<1> QED
  BY <1>2, <1>3, <1>4 DEF Vouched

\* What Finally keeps.
LEMMA FinallyFields ==
  ASSUME RunnerInv, EvidenceInv, NEW r \in Runners
  PROVE  /\ Alike(proc[r], Finally(r)) /\ Finally(r).pc \in {"ignoring", "restoring"} /\ Finally(r) \in ProcessType
         /\ Finally(r).left = Restored(Kind(r)) /\ Finally(r).job = proc[r].job
<1>1. proc[r] \in ProcessType
  BY Typed
<1>2. FirstOfFinally(Kind(r)) \in {"ignoring", "restoring"}
  BY DEF FirstOfFinally
<1>3. Finally(r) \in ProcessType
  BY FinallyType, Zenon
<1>4. Alike(proc[r], Finally(r)) /\ Finally(r).pc = FirstOfFinally(Kind(r))
      /\ Finally(r).left = Restored(Kind(r)) /\ Finally(r).job = proc[r].job
  BY <1>1 DEF Finally, ProcessType, Alike
<1> QED
  BY <1>2, <1>3, <1>4

LEMMA HardhatProfileVouches ==
  ASSUME RunnerInv, EvidenceInv, NEW r \in Runners, NEW ok \in BOOLEAN, HardhatProfile(r, ok)
  PROVE  Vouched(r)'
<1>1. /\ proc'[r] = IF ok THEN [proc[r] EXCEPT !.pc = "baselining"] ELSE [Finally(r) EXCEPT !.body = "escape"]
      /\ rows' = rows /\ seen' = seen /\ proc[r].pc = "selecting"
  BY Typed DEF HardhatProfile, At
<1>2. CASE ok
  <2>1. Alike(proc[r], proc'[r]) /\ proc'[r].pc = "baselining"
    BY <1>1, <1>2, Typed DEF ProcessType, Alike
  <2>2. Reported(proc'[r], child'[r], seen'[r])
    BY <2>1 DEF Reported, InChild
  <2>3. Fresh(proc'[r])
    BY <1>1, <2>1, Typed DEF Vouched, Fresh, Alike
  <2> QED
    BY <1>1, <2>1, <2>2, <2>3, Onward DEF Early, AtWork, InChild
<1>3. CASE ~ok
  <2>1. proc'[r] = [Finally(r) EXCEPT !.body = "escape"]
    BY <1>1, <1>3
  <2>2. /\ proc'[r].kind = proc[r].kind /\ proc'[r].total = proc[r].total /\ proc'[r].batch = proc[r].batch
        /\ proc'[r].status = proc[r].status /\ proc'[r].pc \in Finishing /\ proc'[r].body = "escape"
    BY <2>1, FinallyFields DEF ProcessType, Alike, Finishing, Restoring
  <2> QED
    BY <1>1, <2>2, Escaping DEF Over
<1> QED
  BY <1>2, <1>3

LEMMA CampaignDoneVouches ==
  ASSUME RunnerInv, EvidenceInv, NEW r \in Runners, CampaignDone(r)
  PROVE  Vouched(r)'
<1>1. rows' = rows /\ seen' = seen /\ proc[r].kind = "campaign"
  BY DEF CampaignDone, IsCampaign, Kind
<1>2. CASE proc[r].pc = "ready" /\ proc[r].batch > proc[r].total /\ proc' = [proc EXCEPT ![r] = Finally(r)]
  <2>1. Alike(proc[r], proc'[r]) /\ proc'[r].pc \in {"ignoring", "restoring"}
    BY <1>2, Typed, FinallyFields
  <2>2. Vouched(r) /\ proc[r].body = "try"
    BY <1>2, Typed DEF Vouched, Course
  <2>3. OnCourse(proc[r])
    BY <1>2, <2>2 DEF OnCourse, Stopping, Over
  <2>4. Course(proc'[r]) /\ Fresh(proc'[r])
    BY <1>1, <2>1, <2>2, <2>3 DEF Vouched, Course, Fresh, Alike, OnCourse, Finishing, InChild, Stopping, Restoring, Over
  <2>5. Ledger(proc'[r], rows'[r], seen'[r]) /\ Blamed(proc'[r], rows'[r]) /\ Reported(proc'[r], child'[r], seen'[r])
    BY <1>1, <2>1 DEF Ledger, Blamed, Reported, Alike, Loggers, InChild
  <2>6. Trials(proc'[r], rows'[r], seen'[r])
    BY <1>1, <1>2, <2>1, <2>2, <2>3 DEF Vouched, Trials, Alike, AtWork, InChild, Caught
  <2>7. Green(proc'[r], rows'[r], seen'[r])
    BY <1>2, <2>1, <2>2 DEF Vouched, Course, Green, Alike
  <2> QED
    BY <2>4, <2>5, <2>6, <2>7 DEF Vouched
<1>3. CASE proc[r].pc = "failing" /\ proc' = [proc EXCEPT ![r] = [Finally(r) EXCEPT !.body = "except"]]
  <2>1. proc'[r] = [Finally(r) EXCEPT !.body = "except"]
    BY <1>3, Typed
  <2>2. /\ proc'[r].kind = proc[r].kind /\ proc'[r].total = proc[r].total /\ proc'[r].batch = proc[r].batch
        /\ proc'[r].status = proc[r].status /\ proc'[r].pc \in Finishing /\ proc'[r].body = "except"
    BY <2>1, FinallyFields DEF ProcessType, Alike, Finishing, Restoring
  <2> QED
    BY <1>1, <1>3, <2>2, Escaping DEF Over
<1> QED
  BY <1>2, <1>3 DEF CampaignDone, At

LEMMA FailedVouches ==
  ASSUME RunnerInv, EvidenceInv, NEW r \in Runners, Failed(r)
  PROVE  Vouched(r)'
<1> DEFINE id == IF proc[r].pending THEN proc[r].batch ELSE 0
<1>1. /\ proc'[r] = [proc[r] EXCEPT !.pc = "appending", !.row = id, !.body = "except"]
      /\ rows' = [rows EXCEPT ![r].exit[id] = 1] /\ seen' = seen
      /\ proc[r].pc = "failing" /\ proc[r].kind # "campaign"
  BY Typed DEF Failed, At, Kind
<1>2. id \in 0..Batches
  <2>1. proc[r].batch \in 1..proc[r].total /\ proc[r].total \in 1..Batches
    BY <1>1, Typed DEF Kind
  <2>2. proc[r].batch \in 0..Batches /\ 0 \in 0..Batches
    BY <2>1, CheckoutAssumption
  <2> QED
    BY <2>2
<1> HIDE DEF id
<1>3. /\ proc'[r].pc = "appending" /\ proc'[r].row = id /\ proc'[r].body = "except" /\ proc'[r].kind = proc[r].kind
      /\ proc'[r].status = proc[r].status
  BY <1>1, Typed DEF ProcessType
<1>4. rows'[r].exit[id] = 1
  BY <1>1, <1>2, Typed
<1>5. Vouched(r)
  BY Typed
<1>6. Course(proc'[r]) /\ Fresh(proc'[r]) /\ Blamed(proc'[r], rows'[r])
  BY <1>1, <1>3, <1>4, <1>5 DEF Vouched, Course, Fresh, Blamed, OnCourse, Listed, Stopping, AtWork, InChild
<1>7. /\ Ledger(proc'[r], rows'[r], seen'[r]) /\ Reported(proc'[r], child'[r], seen'[r])
      /\ Trials(proc'[r], rows'[r], seen'[r])
  BY <1>3 DEF Ledger, Reported, Trials, OnCourse
<1>8. Green(proc'[r], rows'[r], seen'[r])
  BY <1>1, <1>3, <1>5 DEF Vouched, Course, Green
<1> QED
  BY <1>6, <1>7, <1>8 DEF Vouched

\* One exit code is set.
LEMMA OneExit ==
  ASSUME NEW f \in [0..Batches -> {0, 1}], NEW n \in 0..Batches, NEW e
  PROVE  /\ [f EXCEPT ![n] = e][n] = e
         /\ \A b \in (0..Batches) \ {n} : [f EXCEPT ![n] = e][b] = f[b]
OBVIOUS

\* A batch is evaluated: its row fails unless it passed.
LEMMA Evaluating ==
  ASSUME RunnerInv, EvidenceInv, NEW r \in Runners, NEW e \in {0, 1},
         proc[r].kind \in Loggers, proc[r].pc = "returned",
         proc'[r].pc = "appending", proc'[r].row = proc[r].batch,
         proc'[r].kind = proc[r].kind, proc'[r].total = proc[r].total, proc'[r].body = proc[r].body,
         proc'[r].batch = proc[r].batch, proc'[r].leaked = proc[r].leaked, proc'[r].status = proc[r].status,
         proc'[r].identity = proc[r].identity,
         rows' = [rows EXCEPT ![r].exit[proc[r].batch] = e], seen' = seen,
         e = 0 => Passed(proc[r], seen[r], proc[r].batch)
  PROVE  Vouched(r)'
<1>1. /\ Vouched(r) /\ proc[r].batch \in 1..proc[r].total /\ proc[r].total \in 1..Batches
      /\ rows[r].exit \in [0..Batches -> {0, 1}] /\ r \in DOMAIN rows
  BY Typed DEF Kind, Loggers
<1>2. /\ rows'[r].current = rows[r].current
      /\ rows'[r].exit = [rows[r].exit EXCEPT ![proc[r].batch] = e]
  BY <1>1, Typed
<1>3. /\ rows'[r].exit[proc[r].batch] = e
      /\ \A b \in 1..(proc[r].batch - 1) : rows'[r].exit[b] = rows[r].exit[b]
  <2>1. proc[r].batch \in 0..Batches
    BY <1>1, CheckoutAssumption
  <2>2. \A b \in 1..(proc[r].batch - 1) : b \in (0..Batches) \ {proc[r].batch}
    BY <2>1, CheckoutAssumption
  <2>3. /\ [rows[r].exit EXCEPT ![proc[r].batch] = e][proc[r].batch] = e
        /\ \A b \in (0..Batches) \ {proc[r].batch} : [rows[r].exit EXCEPT ![proc[r].batch] = e][b] = rows[r].exit[b]
    BY <1>1, <2>1, OneExit
  <2> QED
    BY <1>2, <2>2, <2>3
<1>4. proc[r].body = "try" /\ OnCourse(proc[r])
  BY <1>1 DEF Vouched, Course, OnCourse, Stopping, Over
<1>5. Course(proc'[r]) /\ Fresh(proc'[r])
  BY <1>1, <1>4 DEF Vouched, Course, Fresh, OnCourse, Loggers, AtWork, InChild
<1>6. Ledger(proc'[r], rows'[r], seen'[r])
  <2>1. /\ Len(rows[r].current) = proc[r].batch - 1
        /\ \A i \in 1..Len(rows[r].current) : rows[r].current[i] = i
        /\ \A b \in 1..(proc[r].batch - 1) : rows[r].exit[b] = 0 => Passed(proc[r], seen[r], b)
    BY <1>1, <1>4 DEF Vouched, Ledger, Counted, Listed, Evaluated, Restoring
  <2>2. ASSUME NEW b \in 1..proc[r].batch, rows'[r].exit[b] = 0
        PROVE  Passed(proc[r], seen[r], b)
    <3>1. CASE b = proc[r].batch
      BY <1>3, <2>2, <3>1
    <3>2. CASE b # proc[r].batch
      <4>1. b \in 1..(proc[r].batch - 1)
        BY <1>1, <3>2
      <4> QED
        BY <1>3, <2>1, <2>2, <4>1
    <3> QED
      BY <3>1, <3>2
  <2>3. \A b \in 1..proc[r].batch : rows'[r].exit[b] = 0 => Passed(proc'[r], seen'[r], b)
    BY <2>2 DEF Passed
  <2> QED
    BY <1>2, <2>1, <2>3 DEF Ledger, Counted, Listed, Evaluated, Finishing, Restoring
<1>7. /\ Blamed(proc'[r], rows'[r]) /\ Reported(proc'[r], child'[r], seen'[r]) /\ Trials(proc'[r], rows'[r], seen'[r])
  BY <1>4 DEF Blamed, Reported, Trials, InChild, Loggers
<1>8. Green(proc'[r], rows'[r], seen'[r])
  BY <1>1 DEF Vouched, Course, Green
<1> QED
  BY <1>5, <1>6, <1>7, <1>8 DEF Vouched

\* The child has returned: how it ended is what its wrapper reported.
LEMMA ReturnedOutcome ==
  ASSUME RunnerInv, EvidenceInv, NEW r \in Runners, proc[r].pc = "returned", proc[r].job = "batch"
  PROVE  /\ OnCourse(proc[r]) /\ Gone(r) /\ seen[r][proc[r].batch].ended = child[r].outcome
<1>1. Vouched(r) /\ (Gone(r) \/ proc[r].leaked)
  BY Typed, Settled DEF InChild, Stopping
<1>2. OnCourse(proc[r])
  BY <1>1 DEF Vouched, Course, OnCourse, Stopping, Over
<1>3. Gone(r)
  BY <1>1, <1>2 DEF Vouched, Course
<1>4. child[r].group["wrapper"] = "gone"
  BY <1>3 DEF Gone, NoGroup, Members
<1> QED
  BY <1>1, <1>2, <1>3, <1>4 DEF Vouched, Reported

LEMMA FoundryEvaluateVouches ==
  ASSUME RunnerInv, EvidenceInv, NEW r \in Runners, FoundryEvaluate(r)
  PROVE  Vouched(r)'
<1> DEFINE e == IF FoundryErrors(r) THEN 1 ELSE 0
<1>1. /\ proc'[r] = [proc[r] EXCEPT !.pc = "appending", !.row = proc[r].batch]
      /\ rows' = [rows EXCEPT ![r].exit[proc[r].batch] = e] /\ seen' = seen
      /\ proc[r].pc = "returned" /\ proc[r].job = "batch" /\ proc[r].kind = "foundry"
  BY Typed DEF FoundryEvaluate, At, IsFoundry, Kind
<1>2. e \in {0, 1} /\ (e = 0 => child[r].outcome = "passed")
  BY DEF FoundryErrors
<1> HIDE DEF e
<1>3. /\ proc'[r].pc = "appending" /\ proc'[r].row = proc[r].batch
      /\ proc'[r].kind = proc[r].kind /\ proc'[r].total = proc[r].total /\ proc'[r].body = proc[r].body
      /\ proc'[r].batch = proc[r].batch /\ proc'[r].leaked = proc[r].leaked /\ proc'[r].status = proc[r].status
      /\ proc'[r].identity = proc[r].identity
  BY <1>1, Typed DEF ProcessType
<1>4. e = 0 => Passed(proc[r], seen[r], proc[r].batch)
  BY <1>1, <1>2, ReturnedOutcome DEF Passed
<1> QED
  BY <1>1, <1>2, <1>3, <1>4, Evaluating DEF Loggers

LEMMA HardhatEvaluateVouches ==
  ASSUME RunnerInv, EvidenceInv, NEW r \in Runners, HardhatEvaluate(r)
  PROVE  Vouched(r)'
<1> DEFINE e == IF child[r].outcome # "passed" \/ HardhatDrift(r) THEN 1 ELSE 0
<1>1. /\ proc'[r] = [proc[r] EXCEPT !.pc = "appending", !.row = proc[r].batch, !.drift = HardhatDrift(r)]
      /\ rows' = [rows EXCEPT ![r].exit[proc[r].batch] = e] /\ seen' = seen
      /\ proc[r].pc = "returned" /\ proc[r].job = "batch" /\ proc[r].kind = "hardhat"
  BY Typed DEF HardhatEvaluate, At, IsHardhat, Kind
<1>2. e \in {0, 1} /\ (e = 0 => child[r].outcome = "passed" /\ ~HardhatDrift(r))
  OBVIOUS
<1> HIDE DEF e
<1>3. /\ proc'[r].pc = "appending" /\ proc'[r].row = proc[r].batch
      /\ proc'[r].kind = proc[r].kind /\ proc'[r].total = proc[r].total /\ proc'[r].body = proc[r].body
      /\ proc'[r].batch = proc[r].batch /\ proc'[r].leaked = proc[r].leaked /\ proc'[r].status = proc[r].status
      /\ proc'[r].identity = proc[r].identity
  BY <1>1, Typed DEF ProcessType
<1>4. e = 0 => Passed(proc[r], seen[r], proc[r].batch)
  BY <1>1, <1>2, ReturnedOutcome DEF Passed, HardhatDrift
<1> QED
  BY <1>1, <1>2, <1>3, <1>4, Evaluating DEF Loggers

LEMMA RecordedVouches ==
  ASSUME RunnerInv, EvidenceInv, NEW r \in Runners, FoundryRecorded(r) \/ HardhatRecorded(r)
  PROVE  Vouched(r)'
<1>1. /\ rows' = rows /\ seen' = seen /\ proc[r].pc = "recorded" /\ proc[r].kind \in Loggers
      /\ \/ /\ proc[r].body = "try" /\ proc[r].batch < proc[r].total
            /\ proc' = [proc EXCEPT ![r] = [proc[r] EXCEPT !.pc = "ready", !.batch = proc[r].batch + 1, !.pending = FALSE]]
         \/ /\ proc[r].kind = "foundry" => ~(proc[r].body = "try" /\ proc[r].batch < proc[r].total)
            /\ proc' = [proc EXCEPT ![r] = [Finally(r) EXCEPT !.pending = FALSE]]
  <2>1. CASE FoundryRecorded(r)
    BY <2>1, Zenon DEF FoundryRecorded, At, IsFoundry, Kind, Loggers
  <2>2. CASE HardhatRecorded(r)
    <3>1. proc[r].kind = "hardhat" /\ "hardhat" # "foundry"
      BY <2>2 DEF HardhatRecorded, IsHardhat, Kind
    <3> QED
      BY <2>2, <3>1, Zenon DEF HardhatRecorded, At, Loggers
  <2> QED
    BY <2>1, <2>2
<1>2. /\ Vouched(r) /\ proc[r].batch \in 1..proc[r].total /\ proc[r].total \in 1..Batches
  BY <1>1, Typed DEF Kind, Loggers
<1>3. ASSUME proc[r].body = "try" PROVE OnCourse(proc[r])
  BY <1>1, <1>3 DEF OnCourse, Stopping, Over
<1>4. CASE /\ proc[r].body = "try" /\ proc[r].batch < proc[r].total
           /\ proc' = [proc EXCEPT ![r] = [proc[r] EXCEPT !.pc = "ready", !.batch = proc[r].batch + 1, !.pending = FALSE]]
  <2>1. /\ proc'[r].pc = "ready" /\ proc'[r].batch = proc[r].batch + 1
        /\ proc'[r].kind = proc[r].kind /\ proc'[r].total = proc[r].total /\ proc'[r].body = proc[r].body
        /\ proc'[r].leaked = proc[r].leaked /\ proc'[r].status = proc[r].status /\ proc'[r].identity = proc[r].identity
    BY <1>4, Typed DEF ProcessType
  <2>2. Course(proc'[r]) /\ Fresh(proc'[r])
    BY <1>1, <1>2, <1>3, <1>4, <2>1 DEF Vouched, Course, Fresh, OnCourse, Loggers, AtWork, InChild
  <2>3. Ledger(proc'[r], rows'[r], seen'[r])
    BY <1>1, <1>2, <1>3, <1>4, <2>1 DEF Vouched, Ledger, Counted, Listed, Evaluated, Finishing, Restoring, Passed
  <2>4. /\ Blamed(proc'[r], rows'[r]) /\ Reported(proc'[r], child'[r], seen'[r]) /\ Trials(proc'[r], rows'[r], seen'[r])
    BY <1>1, <1>4, <2>1 DEF Blamed, Reported, Trials, InChild, Loggers
  <2>5. Green(proc'[r], rows'[r], seen'[r])
    BY <1>1, <1>2, <2>1 DEF Vouched, Course, Green
  <2> QED
    BY <2>2, <2>3, <2>4, <2>5 DEF Vouched
<1>5. CASE /\ proc[r].kind = "foundry" => ~(proc[r].body = "try" /\ proc[r].batch < proc[r].total)
           /\ proc' = [proc EXCEPT ![r] = [Finally(r) EXCEPT !.pending = FALSE]]
  <2>1. proc'[r] = [Finally(r) EXCEPT !.pending = FALSE]
    BY <1>5, Typed
  <2>2. Alike(proc[r], proc'[r]) /\ proc'[r].pc \in {"ignoring", "restoring"}
    BY <2>1, FinallyFields DEF ProcessType, Alike
  <2>3. Course(proc'[r]) /\ Fresh(proc'[r])
    BY <1>1, <1>2, <2>2 DEF Vouched, Course, Fresh, Alike, OnCourse, Loggers, AtWork, InChild, Stopping, Over
  <2>4. Ledger(proc'[r], rows'[r], seen'[r])
    <3>1. SUFFICES ASSUME proc[r].body = "try" PROVE Ledger(proc'[r], rows'[r], seen'[r])
      BY <2>2 DEF Ledger, Alike, OnCourse
    <3>2. Ledger(proc[r], rows[r], seen[r]) /\ OnCourse(proc[r])
      BY <1>2, <1>3, <3>1 DEF Vouched
    <3>3. proc[r].kind = "foundry" => proc[r].batch = proc[r].total
      BY <1>2, <1>5, <3>1
    <3> QED
      BY <1>1, <1>2, <2>2, <3>2, <3>3 DEF Ledger, Alike, Counted, Listed, Evaluated, Finishing, Restoring, Passed
  <2>5. Blamed(proc'[r], rows'[r])
    BY <1>1, <1>2, <2>2 DEF Vouched, Blamed, Alike, Listed, Evaluated, Restoring
  <2>6. Reported(proc'[r], child'[r], seen'[r]) /\ Trials(proc'[r], rows'[r], seen'[r])
    BY <1>1, <2>2 DEF Reported, Trials, Alike, Loggers, InChild
  <2>7. Green(proc'[r], rows'[r], seen'[r])
    BY <1>1, <1>2, <2>2 DEF Vouched, Course, Green, Alike
  <2> QED
    BY <2>3, <2>4, <2>5, <2>6, <2>7 DEF Vouched
<1> QED
  BY <1>1, <1>4, <1>5

\* A script ends: a status of 0 needs what Green says.
LEMMA Ended ==
  ASSUME RunnerInv, EvidenceInv, NEW r \in Runners, proc[r].pc \notin Over,
         rows'[r] = rows[r], seen'[r] = seen[r], proc'[r].pc = "exited",
         proc'[r].kind = proc[r].kind, proc'[r].total = proc[r].total, proc'[r].body = proc[r].body,
         proc'[r].leaked = proc[r].leaked, proc'[r].batch = proc[r].batch, proc'[r].based = proc[r].based,
         proc'[r].identity = proc[r].identity,
         proc'[r].status = 0 =>
           /\ ~proc[r].leaked
           /\ \A b \in 1..proc[r].total :
                /\ proc[r].kind = "campaign" => Caught(proc[r], seen[r], b)
                /\ proc[r].kind \in Loggers => rows[r].exit[b] = 0 /\ Passed(proc[r], seen[r], b)
  PROVE  Vouched(r)'
<1>1. Vouched(r)
  BY Typed
<1>2. Course(proc'[r]) /\ Fresh(proc'[r])
  BY <1>1 DEF Vouched, Course, Fresh, OnCourse, AtWork, InChild, Stopping, Over
<1>3. /\ Ledger(proc'[r], rows'[r], seen'[r]) /\ Blamed(proc'[r], rows'[r])
      /\ Reported(proc'[r], child'[r], seen'[r]) /\ Trials(proc'[r], rows'[r], seen'[r])
  BY DEF Ledger, Blamed, Reported, Trials, OnCourse, InChild, Over, Listed, Evaluated, Restoring
<1>4. Green(proc'[r], rows'[r], seen'[r])
  BY DEF Green, Caught, Passed
<1> QED
  BY <1>1, <1>2, <1>3, <1>4 DEF Vouched

LEMMA Exiting ==
  ASSUME RunnerInv, EvidenceInv, NEW r \in Runners, NEW e \in {0, 1, 2}, Exits(r, e), proc[r].pc \notin Over,
         e = 0 => /\ ~proc[r].leaked
                  /\ \A b \in 1..proc[r].total :
                       /\ proc[r].kind = "campaign" => Caught(proc[r], seen[r], b)
                       /\ proc[r].kind \in Loggers => rows[r].exit[b] = 0 /\ Passed(proc[r], seen[r], b)
  PROVE  Vouched(r)'
<1>1. proc'[r] = [proc[r] EXCEPT !.pc = "exited", !.status = e] /\ rows' = rows /\ seen' = seen
  BY Typed DEF Exits
<1>2. /\ proc'[r].pc = "exited" /\ proc'[r].status = e
      /\ proc'[r].kind = proc[r].kind /\ proc'[r].total = proc[r].total /\ proc'[r].body = proc[r].body
      /\ proc'[r].leaked = proc[r].leaked /\ proc'[r].batch = proc[r].batch /\ proc'[r].based = proc[r].based
      /\ proc'[r].identity = proc[r].identity
  BY <1>1, Typed DEF ProcessType
<1> QED
  BY <1>1, <1>2, Ended

LEMMA RefusedVouches ==
  ASSUME RunnerInv, EvidenceInv, NEW r \in Runners, HardhatRefused(r) \/ CampaignRefused(r)
  PROVE  Vouched(r)'
<1>1. Exits(r, 2) /\ proc[r].pc = "starting"
  BY DEF HardhatRefused, CampaignRefused, At
<1> QED
  BY <1>1, Exiting DEF Over

\* The try body has come to its end: the rows are those of all batches, in order.
LEMMA Complete ==
  ASSUME RunnerInv, EvidenceInv, NEW r \in Runners, proc[r].kind \in Loggers, proc[r].body = "try",
         proc[r].pc = "restoring", Len(rows[r].current) = proc[r].total \/ proc[r].kind = "foundry",
         \A i \in DOMAIN rows[r].current : rows[r].exit[rows[r].current[i]] = 0
  PROVE  \A b \in 1..proc[r].total : rows[r].exit[b] = 0 /\ Passed(proc[r], seen[r], b)
<1>1. Vouched(r) /\ OnCourse(proc[r]) /\ rows[r].current \in Seq(Nat) /\ proc[r].total \in 1..Batches
  BY Typed DEF OnCourse, Stopping, Over
<1>2. /\ Len(rows[r].current) = proc[r].batch
      /\ \A i \in 1..Len(rows[r].current) : rows[r].current[i] = i
      /\ \A b \in 1..proc[r].batch : rows[r].exit[b] = 0 => Passed(proc[r], seen[r], b)
      /\ proc[r].kind = "foundry" => proc[r].batch = proc[r].total
  BY <1>1 DEF Vouched, Ledger, Counted, Listed, Evaluated, Finishing, Restoring
<1>3. proc[r].batch = proc[r].total
  BY <1>2
<1>4. ASSUME NEW b \in 1..proc[r].total
      PROVE  rows[r].exit[b] = 0
  <2>1. b \in DOMAIN rows[r].current /\ rows[r].current[b] = b
    BY <1>1, <1>2, <1>3
  <2> QED
    BY <2>1
<1> QED
  BY <1>2, <1>3, <1>4

\* After a failure the status is not 0.
LEMMA Condemned ==
  ASSUME RunnerInv, EvidenceInv, NEW r \in Runners, proc[r].kind \in Loggers, proc[r].body = "except",
         proc[r].pc = "restoring"
  PROVE  \E i \in DOMAIN rows[r].current : rows[r].exit[rows[r].current[i]] # 0
BY Typed DEF Vouched, Blamed, Listed, Evaluated, Restoring

LEMMA NotLeaked ==
  ASSUME RunnerInv, EvidenceInv, NEW r \in Runners, proc[r].body = "try", proc[r].pc = "restoring"
  PROVE  ~proc[r].leaked
BY Typed DEF Vouched, Course, OnCourse, Stopping, Over

LEMMA FoundryExitVouches ==
  ASSUME RunnerInv, EvidenceInv, NEW r \in Runners, FoundryExit(r)
  PROVE  Vouched(r)'
<1> DEFINE e == IF proc[r].body = "escape" \/ rows[r].current = <<>> \/ Failing(r) THEN 1 ELSE 0
<1>1. Exits(r, e) /\ proc[r].pc = "restoring" /\ proc[r].kind = "foundry"
  BY DEF FoundryExit, At, IsFoundry, Kind
<1>2. e \in {0, 1, 2} /\ (e = 0 => proc[r].body # "escape" /\ ~Failing(r))
  OBVIOUS
<1> HIDE DEF e
<1>3. ASSUME e = 0
      PROVE  ~proc[r].leaked /\ \A b \in 1..proc[r].total : rows[r].exit[b] = 0 /\ Passed(proc[r], seen[r], b)
  <2>1. \A i \in DOMAIN rows[r].current : rows[r].exit[rows[r].current[i]] = 0
    BY <1>2, <1>3 DEF Failing
  <2>2. proc[r].body \in {"try", "except"}
    BY <1>2, <1>3, Typed DEF ProcessType
  <2>body. proc[r].body = "try"
    BY <1>1, <2>1, <2>2, Condemned DEF Loggers
  <2> QED
    BY <1>1, <2>1, <2>body, Complete, NotLeaked DEF Loggers
<1> QED
  BY <1>1, <1>2, <1>3, Exiting DEF Over

LEMMA HardhatExitVouches ==
  ASSUME RunnerInv, EvidenceInv, NEW r \in Runners, HardhatExit(r)
  PROVE  Vouched(r)'
<1> DEFINE failing == \E i \in DOMAIN rows[r].current : rows[r].exit[rows[r].current[i]] # 0
           e == IF proc[r].body = "escape" \/ HardhatMissing(r) \/ failing THEN 1 ELSE 0
<1>1. Exits(r, e) /\ proc[r].pc = "restoring" /\ proc[r].kind = "hardhat"
  BY DEF HardhatExit, At, IsHardhat, Kind
<1>2. e \in {0, 1, 2} /\ (e = 0 => proc[r].body # "escape" /\ ~HardhatMissing(r) /\ ~failing)
  OBVIOUS
<1> HIDE DEF e
<1>3. ASSUME e = 0
      PROVE  ~proc[r].leaked /\ \A b \in 1..proc[r].total : rows[r].exit[b] = 0 /\ Passed(proc[r], seen[r], b)
  <2>1. \A i \in DOMAIN rows[r].current : rows[r].exit[rows[r].current[i]] = 0
    BY <1>2, <1>3
  <2>2. proc[r].body \in {"try", "except"}
    BY <1>2, <1>3, Typed DEF ProcessType
  <2>body. proc[r].body = "try"
    BY <1>1, <2>1, <2>2, Condemned DEF Loggers
  <2>3. Len(rows[r].current) = proc[r].total
    BY <1>2, <1>3 DEF HardhatMissing
  <2> QED
    BY <1>1, <2>1, <2>body, <2>3, Complete, NotLeaked DEF Loggers
<1> QED
  BY <1>1, <1>2, <1>3, Exiting DEF Over

LEMMA CampaignExitVouches ==
  ASSUME RunnerInv, EvidenceInv, NEW r \in Runners, CampaignExit(r)
  PROVE  Vouched(r)'
<1> DEFINE caught == proc[r].body = "try" /\ \A b \in 1..proc[r].total : rows[r].exit[b] = 0
           e == IF caught THEN 0 ELSE 1
<1>1. Exits(r, e) /\ proc[r].pc = "restoring" /\ proc[r].kind = "campaign"
  BY DEF CampaignExit, At, IsCampaign, Kind
<1>2. e \in {0, 1, 2} /\ (e = 0 => caught)
  OBVIOUS
<1> HIDE DEF e
<1>3. ASSUME e = 0
      PROVE  ~proc[r].leaked /\ \A b \in 1..proc[r].total : Caught(proc[r], seen[r], b)
  <2>1. proc[r].body = "try" /\ \A b \in 1..proc[r].total : rows[r].exit[b] = 0
    BY <1>2, <1>3
  <2>2. Vouched(r) /\ OnCourse(proc[r]) /\ proc[r].total \in 1..Batches
    BY <1>1, <2>1, Typed DEF OnCourse, Stopping, Over
  <2>3. /\ proc[r].batch > proc[r].total /\ proc[r].batch \in 1..(proc[r].total + 1)
        /\ \A b \in 1..(proc[r].batch - 1) : rows[r].exit[b] = 0 => Caught(proc[r], seen[r], b)
    BY <1>1, <2>2 DEF Vouched, Trials, Course, Finishing, Restoring
  <2>4. proc[r].batch - 1 = proc[r].total
    BY <2>2, <2>3
  <2> QED
    BY <1>1, <2>1, <2>3, <2>4, NotLeaked
<1> QED
  BY <1>1, <1>2, <1>3, Exiting DEF Over, Loggers

\* One batch's entry changes.
LEMMA SeenElsewhere ==
  ASSUME RunnerInv, EvidenceInv, NEW r \in Runners, NEW n \in Nat, NEW v,
         seen'[r] = [seen[r] EXCEPT ![n] = v]
  PROVE  /\ \A b \in BatchNumbers \ {n} : seen'[r][b] = seen[r][b]
         /\ n \in BatchNumbers => seen'[r][n] = v
BY Typed

LEMMA CampaignRunVouches ==
  ASSUME RunnerInv, EvidenceInv, NEW r \in Runners, CampaignRun(r)
  PROVE  Vouched(r)'
<1> DEFINE v == [seen[r][proc[r].batch] EXCEPT !.inputs = {}]
<1>seen. seen'[r] = [seen[r] EXCEPT ![proc[r].batch] = v]
  BY Typed DEF CampaignRun
<1> HIDE DEF v
<1>1. /\ proc'[r] = [proc[r] EXCEPT !.pc = "spawning", !.job = "batch", !.base = BaselineDue(r)]
      /\ rows' = rows /\ proc[r].pc = "ready" /\ proc[r].kind = "campaign" /\ proc[r].batch <= proc[r].total
  BY Typed DEF CampaignRun, At, IsCampaign, Kind
<1>2. Alike(proc[r], proc'[r]) /\ proc'[r].pc = "spawning" /\ proc'[r].base = BaselineDue(r)
  BY <1>1, Typed DEF ProcessType, Alike
<1>3. /\ Vouched(r) /\ proc[r].batch \in Nat /\ proc[r].total \in 1..Batches
  BY Typed
<1>4. OnCourse(proc[r])
  BY <1>1, <1>3 DEF Vouched, Course, OnCourse, Stopping, Over
<1>5. Course(proc'[r]) /\ Fresh(proc'[r])
  BY <1>1, <1>2, <1>3, <1>4 DEF Vouched, Course, Fresh, Alike, OnCourse
<1>6. /\ Ledger(proc'[r], rows'[r], seen'[r]) /\ Blamed(proc'[r], rows'[r]) /\ Reported(proc'[r], child'[r], seen'[r])
  BY <1>1, <1>2 DEF Ledger, Blamed, Reported, Alike, Loggers, InChild
<1>7. Trials(proc'[r], rows'[r], seen'[r])
  <2>1. \A b \in 1..(proc[r].batch - 1) : b \in BatchNumbers \ {proc[r].batch}
    BY <1>1, <1>3, CheckoutAssumption DEF BatchNumbers
  <2>2. \A b \in 1..(proc[r].batch - 1) : seen'[r][b] = seen[r][b]
    BY <1>seen, <1>3, <2>1, SeenElsewhere
  <2>3. \A b \in 1..(proc[r].batch - 1) : rows[r].exit[b] = 0 => Caught(proc[r], seen[r], b)
    BY <1>1, <1>3, <1>4 DEF Vouched, Trials
  <2>4. \A b \in 1..(proc'[r].batch - 1) : rows'[r].exit[b] = 0 => Caught(proc'[r], seen'[r], b)
    BY <1>1, <1>2, <2>2, <2>3 DEF Alike, Caught
  <2>5. ~proc'[r].base => TestOf(proc'[r].batch) \in proc'[r].based
    BY <1>2 DEF BaselineDue, Alike
  <2> QED
    BY <1>1, <1>2, <2>4, <2>5 DEF Trials, Alike, Finishing, Restoring
<1>8. Green(proc'[r], rows'[r], seen'[r])
  BY <1>1, <1>2, <1>3 DEF Vouched, Course, Green, Alike
<1> QED
  BY <1>5, <1>6, <1>7, <1>8 DEF Vouched

LEMMA CampaignEvaluateVouches ==
  ASSUME RunnerInv, EvidenceInv, NEW r \in Runners, CampaignEvaluate(r),
         ~proc[r].base => tree[Home(r)]["target"] = Mutant(proc[r].batch)
  PROVE  Vouched(r)'
<1>1. seen' = seen /\ proc[r].pc = "returned" /\ proc[r].job = "batch" /\ proc[r].kind = "campaign"
  BY DEF CampaignEvaluate, At, IsCampaign, Kind
<1>2. /\ Vouched(r) /\ OnCourse(proc[r]) /\ seen[r][proc[r].batch].ended = child[r].outcome
      /\ proc[r].batch \in Nat /\ proc[r].total \in 1..Batches
  BY <1>1, Typed, ReturnedOutcome
<1>3. /\ \A b \in 1..(proc[r].batch - 1) : rows[r].exit[b] = 0 => Caught(proc[r], seen[r], b)
      /\ proc[r].batch <= proc[r].total /\ proc[r].batch \in 1..Batches
      /\ ~proc[r].base => TestOf(proc[r].batch) \in proc[r].based
  BY <1>1, <1>2, CheckoutAssumption DEF Vouched, Trials, Course, AtWork
<1>4. CASE Goto(r, "failing") /\ UNCHANGED rows
  <2>1. Alike(proc[r], proc'[r]) /\ proc'[r].pc = "failing"
    BY <1>4, Steered DEF PcType
  <2> QED
    BY <1>1, <1>2, <1>4, <2>1, Leaving DEF OnCourse, Over
<1>5. CASE /\ UNCHANGED rows
           /\ proc' = [proc EXCEPT ![r] = [@ EXCEPT !.pc = "ready", !.based = proc[r].based \cup {TestOf(proc[r].batch)}]]
  <2>1. proc'[r] = [proc[r] EXCEPT !.pc = "ready", !.based = proc[r].based \cup {TestOf(proc[r].batch)}]
    BY <1>5, Typed
  <2>2. /\ proc'[r].pc = "ready" /\ proc'[r].based = proc[r].based \cup {TestOf(proc[r].batch)}
        /\ proc'[r].kind = proc[r].kind /\ proc'[r].total = proc[r].total /\ proc'[r].body = proc[r].body
        /\ proc'[r].leaked = proc[r].leaked /\ proc'[r].batch = proc[r].batch /\ proc'[r].status = proc[r].status
    BY <2>1, Typed DEF ProcessType
  <2>3. Course(proc'[r]) /\ Fresh(proc'[r])
    BY <1>1, <1>2, <2>2 DEF Vouched, Course, Fresh, OnCourse
  <2>4. /\ Ledger(proc'[r], rows'[r], seen'[r]) /\ Blamed(proc'[r], rows'[r]) /\ Reported(proc'[r], child'[r], seen'[r])
    BY <1>1, <2>2 DEF Ledger, Blamed, Reported, Loggers, InChild
  <2>5. Trials(proc'[r], rows'[r], seen'[r])
    BY <1>1, <1>3, <1>5, <2>2 DEF Trials, Caught, Finishing, AtWork, InChild, Restoring
  <2>6. Green(proc'[r], rows'[r], seen'[r])
    BY <1>1, <1>2, <2>2 DEF Vouched, Course, Green
  <2> QED
    BY <2>3, <2>4, <2>5, <2>6 DEF Vouched
<1>6. CASE /\ ~CompiledOther(r) /\ ~proc[r].base
           /\ proc' = [proc EXCEPT ![r] = [@ EXCEPT !.pc = "ready", !.batch = proc[r].batch + 1]]
           /\ rows' = [rows EXCEPT ![r] = [current |-> Append(@.current, proc[r].batch),
                         exit |-> [@.exit EXCEPT ![proc[r].batch] = IF Conclusive(r) THEN 0 ELSE 1]]]
  <2> DEFINE e == IF Conclusive(r) THEN 0 ELSE 1
  <2>1. proc'[r] = [proc[r] EXCEPT !.pc = "ready", !.batch = proc[r].batch + 1]
    BY <1>6, Typed
  <2>2. /\ proc'[r].pc = "ready" /\ proc'[r].batch = proc[r].batch + 1 /\ proc'[r].based = proc[r].based
        /\ proc'[r].kind = proc[r].kind /\ proc'[r].total = proc[r].total /\ proc'[r].body = proc[r].body
        /\ proc'[r].leaked = proc[r].leaked /\ proc'[r].status = proc[r].status
    BY <2>1, Typed DEF ProcessType
  <2>3. rows'[r].exit = [rows[r].exit EXCEPT ![proc[r].batch] = e]
    BY <1>6, Typed
  <2>4. e = 0 => Caught(proc[r], seen[r], proc[r].batch)
    BY <1>2, <1>3, <1>6 DEF Conclusive, CompiledOther, Caught
  <2> HIDE DEF e
  <2>5. rows[r].exit \in [0..Batches -> {0, 1}] /\ proc[r].batch \in 0..Batches
    BY <1>3, Typed
  <2>6. /\ rows'[r].exit[proc[r].batch] = e
        /\ \A b \in (0..Batches) \ {proc[r].batch} : rows'[r].exit[b] = rows[r].exit[b]
    BY <2>3, <2>5, OneExit
  <2>7. Course(proc'[r]) /\ Fresh(proc'[r])
    BY <1>1, <1>2, <1>3, <2>2 DEF Vouched, Course, Fresh, OnCourse
  <2>8. /\ Ledger(proc'[r], rows'[r], seen'[r]) /\ Blamed(proc'[r], rows'[r]) /\ Reported(proc'[r], child'[r], seen'[r])
    BY <1>1, <2>2 DEF Ledger, Blamed, Reported, Loggers, InChild
  <2>9. ASSUME NEW b \in 1..proc[r].batch, rows'[r].exit[b] = 0
        PROVE  Caught(proc'[r], seen'[r], b)
    <3>1. Caught(proc[r], seen[r], b)
      <4>1. CASE b = proc[r].batch
        BY <2>4, <2>6, <2>9, <4>1
      <4>2. CASE b # proc[r].batch
        <5>1. b \in 1..(proc[r].batch - 1) /\ b \in (0..Batches) \ {proc[r].batch}
          BY <1>3, <4>2, CheckoutAssumption
        <5> QED
          BY <1>3, <2>6, <2>9, <5>1
      <4> QED
        BY <4>1, <4>2
    <3> QED
      BY <1>1, <2>2, <3>1 DEF Caught
  <2>10. Trials(proc'[r], rows'[r], seen'[r])
    <3>1. \A b \in 1..(proc'[r].batch - 1) : b \in 1..proc[r].batch
      BY <1>2, <2>2
    <3> QED
      BY <2>2, <2>9, <3>1 DEF Trials, Finishing, AtWork, InChild, Restoring
  <2>11. Green(proc'[r], rows'[r], seen'[r])
    BY <1>1, <1>2, <2>2 DEF Vouched, Course, Green
  <2> QED
    BY <2>7, <2>8, <2>10, <2>11 DEF Vouched
<1> QED
  BY <1>4, <1>5, <1>6 DEF CampaignEvaluate

LEMMA InterruptedVouches ==
  ASSUME RunnerInv, EvidenceInv, NEW r \in Runners, Interrupted(r)
  PROVE  Vouched(r)'
<1>1. /\ proc'[r] = Unwound(r) /\ rows' = rows /\ seen' = seen
      /\ proc[r].pc \notin {"starting"} \cup Stopping \cup Over
  BY Typed DEF Interrupted, Interruptible
<1>2. Vouched(r) /\ proc[r] \in ProcessType
  BY Typed
<1>3. CASE proc[r].pc \in InChild
  <2>1. proc'[r] = [proc[r] EXCEPT !.pc = "terminating"]
    BY <1>1, <1>3 DEF Unwound
  <2>2. Alike(proc[r], proc'[r]) /\ proc'[r].pc = "terminating"
    BY <1>2, <2>1 DEF ProcessType, Alike
  <2>3. proc[r].body = "try"
    BY <1>2, <1>3 DEF Vouched, Course
  <2> QED
    BY <1>1, <2>2, <2>3, Leaving DEF Stopping
<1>4. CASE proc[r].pc \in {"ignoring"} \cup Restoring
  <2>1. proc'[r] = [proc[r] EXCEPT !.pc = "exited", !.status = 1, !.cut = TRUE]
    BY <1>1, <1>4 DEF Unwound, InChild, Restoring
  <2>2. /\ proc'[r].pc = "exited" /\ proc'[r].status = 1
        /\ proc'[r].kind = proc[r].kind /\ proc'[r].total = proc[r].total /\ proc'[r].body = proc[r].body
        /\ proc'[r].leaked = proc[r].leaked /\ proc'[r].batch = proc[r].batch /\ proc'[r].based = proc[r].based
        /\ proc'[r].identity = proc[r].identity
    BY <1>2, <2>1 DEF ProcessType
  <2> QED
    BY <1>1, <2>2, Ended
<1>5. CASE proc[r].pc \notin InChild \cup {"ignoring"} \cup Restoring /\ proc[r].body = "try"
  <2>1. proc'[r] = [proc[r] EXCEPT !.pc = "failing", !.history = <<>>]
    BY <1>1, <1>5 DEF Unwound
  <2>2. Alike(proc[r], proc'[r]) /\ proc'[r].pc = "failing"
    BY <1>2, <2>1 DEF ProcessType, Alike
  <2> QED
    BY <1>1, <1>5, <2>2, Leaving
<1>6. CASE proc[r].pc \notin InChild \cup {"ignoring"} \cup Restoring /\ proc[r].body # "try"
  <2>1. proc'[r] = [Finally(r) EXCEPT !.body = "escape", !.history = <<>>]
    BY <1>1, <1>6 DEF Unwound
  <2>2. /\ proc'[r].kind = proc[r].kind /\ proc'[r].total = proc[r].total /\ proc'[r].batch = proc[r].batch
        /\ proc'[r].status = proc[r].status /\ proc'[r].pc \in Finishing /\ proc'[r].body = "escape"
    BY <2>1, FinallyFields DEF ProcessType, Alike, Finishing, Restoring
  <2> QED
    BY <1>1, <2>2, Escaping
<1> QED
  BY <1>3, <1>4, <1>5, <1>6

LEMMA InterruptedInPopenVouches ==
  ASSUME RunnerInv, EvidenceInv, NEW r \in Runners, InterruptedInPopen(r)
  PROVE  Vouched(r)'
<1>1. /\ proc'[r] = [Unwound(r) EXCEPT !.leaked = TRUE] /\ rows' = rows /\ seen' = seen /\ proc[r].pc = "spawning"
  BY Typed DEF InterruptedInPopen, At
<1>2. Vouched(r) /\ proc[r] \in ProcessType
  BY Typed
<1>3. proc[r].body = "try"
  BY <1>1, <1>2 DEF Vouched, Course
<1>4. proc'[r] = [[proc[r] EXCEPT !.pc = "failing", !.history = <<>>] EXCEPT !.leaked = TRUE]
  BY <1>1, <1>3 DEF Unwound, InChild, Restoring
<1>5. /\ proc'[r].pc = "failing" /\ proc'[r].leaked /\ proc'[r].body = "try" /\ proc'[r].kind = proc[r].kind
      /\ proc'[r].total = proc[r].total /\ proc'[r].batch = proc[r].batch /\ proc'[r].status = proc[r].status
  BY <1>2, <1>3, <1>4 DEF ProcessType
<1>6. Course(proc'[r]) /\ Fresh(proc'[r])
  BY <1>1, <1>2, <1>5 DEF Vouched, Course, Fresh, OnCourse, AtWork, InChild
<1>7. /\ Ledger(proc'[r], rows'[r], seen'[r]) /\ Blamed(proc'[r], rows'[r])
      /\ Reported(proc'[r], child'[r], seen'[r]) /\ Trials(proc'[r], rows'[r], seen'[r])
  BY <1>5 DEF Ledger, Blamed, Reported, Trials, OnCourse
<1>8. Green(proc'[r], rows'[r], seen'[r])
  BY <1>1, <1>2, <1>5 DEF Vouched, Course, Green
<1> QED
  BY <1>6, <1>7, <1>8 DEF Vouched

LEMMA KilledVouches ==
  ASSUME RunnerInv, EvidenceInv, NEW r \in Runners, Killed(r)
  PROVE  Vouched(r)'
<1>1. /\ proc'[r] = [proc[r] EXCEPT !.pc = "killed", !.history = <<>>] /\ rows' = rows /\ seen' = seen
      /\ proc[r].pc \notin Over
  BY Typed DEF Killed
<1>2. Alike(proc[r], proc'[r]) /\ proc'[r].pc = "killed"
  BY <1>1, Typed DEF ProcessType, Alike
<1> QED
  BY <1>1, <1>2, Leaving

\* The scripts' own records stay, and so do their children as far as the scripts ask about them.
LEMMA Unmoved ==
  ASSUME RunnerInv, EvidenceInv, NEW r \in Runners, proc'[r] = proc[r], rows'[r] = rows[r], seen'[r] = seen[r],
         child'[r].group["wrapper"] = child[r].group["wrapper"], child'[r].outcome = child[r].outcome
  PROVE  Vouched(r)'
BY Typed DEF Vouched, Reported

LEMMA CompilerVouches ==
  ASSUME RunnerInv, EvidenceInv, NEW r \in Runners, StartCompiler(r) \/ EndCompiler(r)
  PROVE  Vouched(r)'
<1>1. PICK state \in {"gone", "live"} :
        child' = [child EXCEPT ![r].group["compiler"] = state]
  BY DEF StartCompiler, EndCompiler
<1>2. /\ proc' = proc /\ rows' = rows /\ seen' = seen
  BY DEF StartCompiler, EndCompiler
<1>3. child'[r].group["wrapper"] = child[r].group["wrapper"] /\ child'[r].outcome = child[r].outcome
  BY <1>1, Typed DEF Members
<1> QED
  BY <1>2, <1>3, Unmoved

\* Whose group is still there: a script in run_child, or one that has given up.
LEMMA AliveWhere ==
  ASSUME RunnerInv, EvidenceInv, NEW r \in Runners, ~Gone(r)
  PROVE  proc[r].status # 0 /\ (OnCourse(proc[r]) => proc[r].pc \in InChild)
BY Typed, Settled DEF Vouched, Course, OnCourse, Stopping, Over, InChild

\* What the compilers and the wrapper of the batch under way leave concerns that batch alone.
LEMMA Observing ==
  ASSUME RunnerInv, EvidenceInv, NEW r \in Runners, ~Gone(r), NEW v,
         seen'[r] = [seen[r] EXCEPT ![proc[r].batch] = v],
         proc'[r] = proc[r], rows'[r] = rows[r],
         Reported(proc[r], child'[r], seen'[r])
  PROVE  Vouched(r)'
<1>1. /\ Vouched(r) /\ proc[r].batch \in Nat /\ proc[r].total \in 1..Batches
      /\ proc[r].kind # "campaign" => proc[r].batch \in 1..proc[r].total
  BY Typed DEF Kind
<1>2. proc[r].status # 0 /\ (OnCourse(proc[r]) => proc[r].pc \in InChild)
  BY AliveWhere
<1>3. proc[r].batch \in 1..(proc[r].total + 1)
  BY <1>1 DEF Vouched, Course
<1>4. \A b \in 1..(proc[r].batch - 1) : seen'[r][b] = seen[r][b]
  <2>1. \A b \in 1..(proc[r].batch - 1) : b \in BatchNumbers \ {proc[r].batch}
    BY <1>1, <1>3, CheckoutAssumption DEF BatchNumbers
  <2> QED
    BY <1>1, <2>1, SeenElsewhere
<1>5. Ledger(proc'[r], rows'[r], seen'[r])
  <2>1. SUFFICES ASSUME proc[r].kind \in Loggers, OnCourse(proc[r])
                 PROVE  Ledger(proc'[r], rows'[r], seen'[r])
    BY DEF Ledger
  <2>2. proc[r].pc \in InChild /\ Ledger(proc[r], rows[r], seen[r])
    BY <1>1, <1>2, <2>1 DEF Vouched
  <2>3. \A b \in 1..(proc[r].batch - 1) : rows[r].exit[b] = 0 => Passed(proc[r], seen'[r], b)
    BY <1>4, <2>1, <2>2 DEF Ledger, Counted, Evaluated, InChild, Restoring, Passed
  <2> QED
    BY <2>1, <2>2, <2>3 DEF Ledger, Counted, Listed, Evaluated, Finishing, InChild, Restoring
<1>6. Trials(proc'[r], rows'[r], seen'[r])
  BY <1>1, <1>4 DEF Vouched, Trials, Caught
<1>7. Green(proc'[r], rows'[r], seen'[r])
  BY <1>2 DEF Green
<1> QED
  BY <1>1, <1>5, <1>6, <1>7 DEF Vouched

LEMMA CompileVouches ==
  ASSUME RunnerInv, EvidenceInv, NEW r \in Runners, Compile(r)
  PROVE  Vouched(r)'
<1> DEFINE n == proc[r].batch
           more == {[source |-> source[Home(r)], target |-> tree[Home(r)]["target"]]}
           v == [seen[r][n] EXCEPT !.inputs = @ \cup more]
<1>1. seen'[r] = [seen[r] EXCEPT ![n] = v] /\ proc' = proc /\ rows' = rows /\ child' = child
  BY Typed DEF Compile
<1>2. ~Gone(r)
  BY DEF Compile, Gone, NoGroup, Members
<1>3. n \in BatchNumbers => v.ended = seen[r][n].ended
  BY Typed DEF SeenType
<1> HIDE DEF v
<1>4. Reported(proc[r], child'[r], seen'[r])
  <2>1. SUFFICES ASSUME OnCourse(proc[r]), proc[r].pc \in InChild \cup {"returned"}, proc[r].job = "batch",
                        child[r].group["wrapper"] = "gone"
                 PROVE  seen'[r][n].ended = child[r].outcome
    BY <1>1 DEF Reported
  <2>2. Vouched(r) /\ seen[r][n].ended = child[r].outcome
    BY <2>1, Typed DEF Vouched, Reported
  <2>3. n \in BatchNumbers
    <3>1. proc[r].kind = "campaign" => proc[r].batch <= proc[r].total /\ proc[r].batch \in 1..(proc[r].total + 1)
      BY <2>1, <2>2 DEF Vouched, Trials, Course, AtWork
    <3>2. proc[r].kind # "campaign" => proc[r].batch \in 1..proc[r].total
      BY Typed DEF Kind
    <3>3. proc[r].batch \in Nat /\ proc[r].total \in 1..Batches
      BY Typed
    <3> QED
      BY <3>1, <3>2, <3>3, CheckoutAssumption DEF BatchNumbers
  <2>4. n \in Nat /\ seen'[r][n] = v
    BY <1>1, <2>3, SeenElsewhere DEF BatchNumbers
  <2> QED
    BY <1>3, <2>2, <2>3, <2>4
<1> HIDE DEF n
<1> QED
  BY <1>1, <1>2, <1>4, Observing DEF n

LEMMA EndWrapperVouches ==
  ASSUME RunnerInv, EvidenceInv, NEW r \in Runners, NEW outcome \in Outcomes(Kind(r)), EndWrapper(r, outcome)
  PROVE  Vouched(r)'
<1> DEFINE n == proc[r].batch
           v == IF proc[r].job = "batch" THEN [seen[r][n] EXCEPT !.ended = outcome] ELSE seen[r][n]
<1>1. /\ seen'[r] = IF proc[r].job = "batch" THEN [seen[r] EXCEPT ![n] = v] ELSE seen[r]
      /\ proc' = proc /\ rows' = rows
  BY Typed DEF EndWrapper
<1>2. ~Gone(r)
  BY DEF EndWrapper, Gone, NoGroup, Members
<1>3. child'[r].outcome = outcome
  BY Typed DEF EndWrapper
<1>4. n \in BatchNumbers /\ proc[r].job = "batch" => v.ended = outcome
  BY Typed DEF SeenType
<1>5. seen'[r] = [seen[r] EXCEPT ![n] = v]
  BY <1>1, Typed
<1> HIDE DEF v
<1>6. Reported(proc[r], child'[r], seen'[r])
  <2>1. SUFFICES ASSUME OnCourse(proc[r]), proc[r].pc \in InChild \cup {"returned"}, proc[r].job = "batch"
                 PROVE  seen'[r][n].ended = outcome
    BY <1>3 DEF Reported
  <2>3. n \in BatchNumbers
    <3>1. proc[r].kind = "campaign" => proc[r].batch <= proc[r].total /\ proc[r].batch \in 1..(proc[r].total + 1)
      BY <2>1, Typed DEF Vouched, Trials, Course, AtWork
    <3>2. proc[r].kind # "campaign" => proc[r].batch \in 1..proc[r].total
      BY Typed DEF Kind
    <3>3. proc[r].batch \in Nat /\ proc[r].total \in 1..Batches
      BY Typed
    <3> QED
      BY <3>1, <3>2, <3>3, CheckoutAssumption DEF BatchNumbers
  <2>4. n \in Nat /\ seen'[r][n] = v
    BY <1>5, <2>3, SeenElsewhere DEF BatchNumbers
  <2> QED
    BY <1>4, <2>1, <2>3, <2>4
<1> HIDE DEF n
<1> QED
  BY <1>1, <1>2, <1>5, <1>6, Observing DEF n

-----------------------------------------------------------------------------
(* A step of one script leaves the others' records, children and evidence alone, and never turns a
   script into another one. *)

\* The other scripts.
Others(r) == Runners \ {r}

\* A step of one script leaves every other one's own records alone.
Apart(r) ==
  \A q \in Others(r) :
    proc'[q] = proc[q] /\ child'[q] = child[q] /\ rows'[q] = rows[q] /\ seen'[q] = seen[q]

\* What p had to restore q still has to, but for what it has just written, and unless it was killed or
\* cut short.
Duty(p, q) ==
  \/ p.pc = "starting" \/ q.pc = "killed" \/ q.cut
  \/ q.pc \notin Finishing \cup Over
  \/ q.pc \in Finishing /\ q.left = Restored(p.kind)
  \/ p.pc \in Finishing /\ q.pc \in Finishing /\ q.left = p.left
  \/ p.pc = "writing" /\ q.pc = "restoring" /\ q.left = Tail(p.left)
  \/ p.pc = "restoring" /\ p.left = <<>>

\* A campaign at work on a mutant goes on with it.
Work(p, q) ==
  q.kind = "campaign" /\ q.pc \in AtWork /\ q.job = "batch"
    => p.pc = "ready" \/ (p.pc \in AtWork /\ SameJob(p, q) /\ q.batch = p.batch /\ q.body = p.body)

\* q is what p becomes by a step of its own.
Successor(p, q) ==
  \/ q = p
  \/ /\ q.kind = p.kind /\ q.home = p.home /\ q.total = p.total
     /\ p.pc \notin Over /\ q.pc # "starting"
     /\ p.leaked => q.leaked
     /\ p.cut => q.cut
     /\ p.pc = "starting" \/ q.backup = p.backup
     /\ q.left = p.left \/ q.left = Restored(p.kind) \/ (p.pc = "writing" /\ q.left = Tail(p.left))
     /\ Duty(p, q) /\ Work(p, q)

\* How a script's step may change the processes.
Conduct(r) == Apart(r) /\ Successor(proc[r], proc'[r])

LEMMA RunChildConducts ==
  ASSUME RunnerInv, EvidenceInv, NEW r \in Runners, RunChild(r) \/ GroupExit(r) \/ CampaignTimeout(r)
  PROVE  Conduct(r)
<1>1. PICK l \in {"waiting", "draining", "reaping", "returned", "failing", "terminating"} :
        Goto(r, l) /\ (l \in AtWork => proc[r].pc \in AtWork) /\ proc[r].pc \in AtWork \cup Stopping
  BY DEF RunChild, GroupExit, Spawned, Waited, Terminated, Returned, Reraised, CampaignTimeout, AtWork, InChild, Stopping, At
<1>2. /\ rows' = rows /\ seen' = seen
      /\ child' = [child EXCEPT ![r] = NewChild] \/ KillGroup(r) \/ child' = child
  BY DEF RunChild, GroupExit, Spawned, Waited, Terminated, Returned, Reraised, CampaignTimeout
<1>3. \A q \in Others(r) : child'[q] = child[q]
  BY <1>2, Typed DEF KillGroup, Others
<1>4. proc'[r] = [proc[r] EXCEPT !.pc = l] /\ \A q \in Others(r) : proc'[q] = proc[q]
  BY <1>1, Typed DEF Goto, Others
<1>5. Successor(proc[r], proc'[r])
  <2>1. proc[r].pc \notin Over /\ l \notin Finishing \cup Over \cup {"starting"}
    BY <1>1 DEF AtWork, InChild, Stopping, Over, Finishing, Restoring
  <2> QED
    BY <1>1, <1>4, <2>1, Typed DEF ProcessType, Successor, Duty, Work, SameJob
<1> QED
  BY <1>2, <1>3, <1>4, <1>5 DEF Conduct, Apart

LEMMA RecordConducts ==
  ASSUME RunnerInv, EvidenceInv, NEW r \in Runners, Record(r) \/ Failed(r)
  PROVE  Conduct(r)
<1>1. /\ \A q \in Others(r) : proc'[q] = proc[q] /\ rows'[q] = rows[q]
      /\ child' = child /\ seen' = seen
  BY Typed DEF Record, Appended, Locked, Replaced, Failed, Goto, Others
<1>2. Successor(proc[r], proc'[r])
  <2>1. CASE Appended(r)
    <3>1. proc'[r] = [proc[r] EXCEPT !.pc = "locking"] /\ proc[r].pc = "appending"
      BY <2>1, Typed DEF Appended, Goto, At
    <3> QED
      BY <3>1, Typed DEF Successor, ProcessType, Duty, Work, SameJob, AtWork, InChild, Finishing, Restoring, Over
  <2>2. CASE Locked(r)
    <3>1. proc'[r] = [proc[r] EXCEPT !.pc = "replacing", !.history = summary] /\ proc[r].pc = "locking"
      BY <2>2, Typed DEF Locked, At
    <3> QED
      BY <3>1, Typed DEF Successor, ProcessType, Duty, Work, SameJob, AtWork, InChild, Finishing, Restoring, Over
  <2>3. CASE Replaced(r)
    <3>1. proc'[r] = [proc[r] EXCEPT !.pc = "recorded", !.history = <<>>] /\ proc[r].pc = "replacing"
      BY <2>3, Typed DEF Replaced, At
    <3> QED
      BY <3>1, Typed DEF Successor, ProcessType, Duty, Work, SameJob, AtWork, InChild, Finishing, Restoring, Over
  <2>4. CASE Failed(r)
    <3>1. proc'[r] = [proc[r] EXCEPT !.pc = "appending", !.row = IF proc[r].pending THEN proc[r].batch ELSE 0, !.body = "except"] /\ proc[r].pc = "failing" /\ proc[r].kind # "campaign"
      BY <2>4, Typed DEF Failed, At, Kind
    <3> QED
      BY <3>1, Typed DEF Successor, ProcessType, Duty, Work, SameJob, AtWork, InChild, Finishing, Restoring, Over
  <2> QED
    BY <2>1, <2>2, <2>3, <2>4 DEF Record
<1> QED
  BY <1>1, <1>2 DEF Conduct, Apart

LEMMA RestoreConducts ==
  ASSUME RunnerInv, EvidenceInv, NEW r \in Runners, Restore(r)
  PROVE  Conduct(r)
<1>1. /\ \A q \in Others(r) : proc'[q] = proc[q]
      /\ child' = child /\ seen' = seen /\ rows' = rows
  BY Typed DEF Restore, Ignored, Opened, Written, Goto, Others
<1>2. Successor(proc[r], proc'[r])
  <2>1. CASE Ignored(r)
    <3>1. proc'[r] = [proc[r] EXCEPT !.pc = "restoring"] /\ proc[r].pc = "ignoring"
      BY <2>1, Typed DEF Ignored, Goto, At
    <3> QED
      BY <3>1, Typed DEF Successor, ProcessType, Duty, Work, SameJob, AtWork, InChild, Finishing, Restoring, Over
  <2>2. CASE Opened(r)
    <3>1. proc'[r] = [proc[r] EXCEPT !.pc = "writing"] /\ proc[r].pc = "restoring"
      BY <2>2, Typed DEF Opened, Goto, At
    <3> QED
      BY <3>1, Typed DEF Successor, ProcessType, Duty, Work, SameJob, AtWork, InChild, Finishing, Restoring, Over
  <2>3. CASE Written(r)
    <3>1. proc'[r] = [proc[r] EXCEPT !.pc = "restoring", !.left = Tail(proc[r].left)] /\ proc[r].pc = "writing"
      BY <2>3, Typed DEF Written, At
    <3> QED
      BY <3>1, Typed DEF Successor, ProcessType, Duty, Work, SameJob, AtWork, InChild, Finishing, Restoring, Over
  <2> QED
    BY <2>1, <2>2, <2>3 DEF Restore
<1> QED
  BY <1>1, <1>2 DEF Conduct, Apart

LEMMA ExitsConducts ==
  ASSUME RunnerInv, EvidenceInv, NEW r \in Runners, NEW status \in -1..2, Exits(r, status),
         At(r, "starting") \/ (At(r, "restoring") /\ proc[r].left = <<>>)
  PROVE  Conduct(r)
<1>1. /\ \A q \in Others(r) : proc'[q] = proc[q]
      /\ child' = child /\ seen' = seen /\ rows' = rows
  BY Typed DEF Exits, Others
<1>2. proc'[r] = [proc[r] EXCEPT !.pc = "exited", !.status = status]
  BY Typed DEF Exits
<1>3. Successor(proc[r], proc'[r])
  BY <1>2, Typed DEF Successor, ProcessType, At, Duty, Work, AtWork, InChild, Over
<1> QED
  BY <1>1, <1>3 DEF Conduct, Apart

LEMMA FoundryConducts ==
  ASSUME RunnerInv, EvidenceInv, NEW r \in Runners, FoundryStep(r)
  PROVE  Conduct(r)
<1>1. CASE FoundryStart(r) \/ FoundryPatched(r) \/ FoundryBatch(r)
  <2>1. /\ \A q \in Others(r) : proc'[q] = proc[q]
        /\ child' = child /\ seen' = seen /\ rows' = rows
    BY <1>1, Typed DEF FoundryStart, FoundryPatched, FoundryBatch, Goto, Others
  <2>2. Successor(proc[r], proc'[r])
    <3>1. CASE FoundryStart(r)
      <4>1. proc'[r] = [proc[r] EXCEPT !.pc = "spawning", !.job = "patch", !.backup = tree[Home(r)]] /\ proc[r].pc = "starting" /\ proc[r].kind = "foundry"
        BY <3>1, Typed DEF FoundryStart, At, IsFoundry, Kind
      <4> QED
        BY <4>1, Typed DEF Successor, ProcessType, Duty, Work, SameJob, AtWork, InChild, Finishing, Restoring, Over
    <3>2. CASE FoundryPatched(r)
      <4>1. proc'[r] = [proc[r] EXCEPT !.pc = IF child[r].outcome = "passed" THEN "ready" ELSE "failing"] /\ proc[r].pc = "returned" /\ proc[r].kind = "foundry"
        BY <3>2, Typed DEF FoundryPatched, Goto, At, IsFoundry, Kind
      <4> QED
        BY <4>1, Typed DEF Successor, ProcessType, Duty, Work, SameJob, AtWork, InChild, Finishing, Restoring, Over
    <3>3. CASE FoundryBatch(r)
      <4>1. proc'[r] = [proc[r] EXCEPT !.pc = "spawning", !.job = "batch", !.pending = TRUE, !.identity = source[Home(r)]] /\ proc[r].pc = "ready" /\ proc[r].kind = "foundry"
        BY <3>3, Typed DEF FoundryBatch, At, IsFoundry, Kind
      <4> QED
        BY <4>1, Typed DEF Successor, ProcessType, Duty, Work, SameJob, AtWork, InChild, Finishing, Restoring, Over
    <3> QED
      BY <1>1, <3>1, <3>2, <3>3
  <2> QED
    BY <2>1, <2>2 DEF Conduct, Apart
<1>2. CASE FoundryEvaluate(r) \/ FoundryRecorded(r)
  <2>1. /\ \A q \in Others(r) : proc'[q] = proc[q] /\ rows'[q] = rows[q]
        /\ child' = child /\ seen' = seen
    BY <1>2, Typed DEF FoundryEvaluate, FoundryRecorded, Others
  <2>2. Successor(proc[r], proc'[r])
    <3>1. CASE FoundryEvaluate(r)
      <4>1. proc'[r] = [proc[r] EXCEPT !.pc = "appending", !.row = proc[r].batch] /\ proc[r].pc = "returned" /\ proc[r].kind = "foundry"
        BY <3>1, Typed DEF FoundryEvaluate, At, IsFoundry, Kind
      <4> QED
        BY <4>1, Typed DEF Successor, ProcessType, Duty, Work, SameJob, AtWork, InChild, Finishing, Restoring, Over
    <3>2. CASE FoundryRecorded(r)
      <4>1. proc'[r] = (IF proc[r].body = "try" /\ proc[r].batch < proc[r].total
           THEN [proc[r] EXCEPT !.pc = "ready", !.batch = proc[r].batch + 1, !.pending = FALSE]
           ELSE [Finally(r) EXCEPT !.pending = FALSE]) /\ proc[r].pc = "recorded" /\ proc[r].kind = "foundry"
        BY <3>2, Typed DEF FoundryRecorded, At, IsFoundry, Kind
      <4> QED
        BY <4>1, Typed DEF Successor, ProcessType, Finally, FirstOfFinally, Kind, Duty, Work, SameJob, AtWork, InChild, Finishing, Restoring, Over
    <3> QED
      BY <1>2, <3>1, <3>2
  <2> QED
    BY <2>1, <2>2 DEF Conduct, Apart
<1>3. CASE FoundryExit(r)
  <2>1. PICK status \in -1..2 : Exits(r, status)
    BY <1>3 DEF FoundryExit
  <2> QED
    BY <1>3, <2>1, ExitsConducts DEF FoundryExit, At
<1> QED
  BY <1>1, <1>2, <1>3, RunChildConducts, RecordConducts, RestoreConducts
  DEF FoundryStep, FoundryRunChild, FoundryGroupExit, FoundryRecord, FoundryFailed, FoundryRestore

LEMMA HardhatConducts ==
  ASSUME RunnerInv, EvidenceInv, NEW r \in Runners, HardhatStep(r)
  PROVE  Conduct(r)
<1>1. CASE HardhatStart(r) \/ HardhatVersioned(r) \/ HardhatBaseline(r) \/ HardhatBatch(r)
  <2>1. /\ \A q \in Others(r) : proc'[q] = proc[q]
        /\ child' = child /\ seen' = seen /\ rows' = rows
    BY <1>1, Typed DEF HardhatStart, HardhatVersioned, HardhatBaseline, HardhatBatch, Goto, Others
  <2>2. Successor(proc[r], proc'[r])
    <3>1. CASE HardhatStart(r)
      <4>1. proc'[r] = [proc[r] EXCEPT !.pc = "spawning", !.job = "version", !.backup = tree[Home(r)]] /\ proc[r].pc = "starting" /\ proc[r].kind = "hardhat"
        BY <3>1, Typed DEF HardhatStart, At, IsHardhat, Kind
      <4> QED
        BY <4>1, Typed DEF Successor, ProcessType, Duty, Work, SameJob, AtWork, InChild, Finishing, Restoring, Over
    <3>2. CASE HardhatVersioned(r)
      <4>1. proc'[r] = [proc[r] EXCEPT !.pc = "selecting"] /\ proc[r].pc = "returned" /\ proc[r].kind = "hardhat"
        BY <3>2, Typed DEF HardhatVersioned, Goto, At, IsHardhat, Kind
      <4> QED
        BY <4>1, Typed DEF Successor, ProcessType, Duty, Work, SameJob, AtWork, InChild, Finishing, Restoring, Over
    <3>3. CASE HardhatBaseline(r)
      <4>1. proc'[r] = [proc[r] EXCEPT !.pc = "ready", !.identity = source[Home(r)]] /\ proc[r].pc = "baselining" /\ proc[r].kind = "hardhat"
        BY <3>3, Typed DEF HardhatBaseline, At, IsHardhat, Kind
      <4> QED
        BY <4>1, Typed DEF Successor, ProcessType, Duty, Work, SameJob, AtWork, InChild, Finishing, Restoring, Over
    <3>4. CASE HardhatBatch(r)
      <4>1. proc'[r] = [proc[r] EXCEPT !.pc = IF source[Home(r)] = proc[r].identity THEN "spawning" ELSE "failing",
                                    !.job = "batch", !.pending = TRUE] /\ proc[r].pc = "ready" /\ proc[r].kind = "hardhat"
        BY <3>4, Typed DEF HardhatBatch, At, IsHardhat, Kind
      <4> QED
        BY <4>1, Typed DEF Successor, ProcessType, Duty, Work, SameJob, AtWork, InChild, Finishing, Restoring, Over
    <3> QED
      BY <1>1, <3>1, <3>2, <3>3, <3>4
  <2> QED
    BY <2>1, <2>2 DEF Conduct, Apart
<1>2. CASE HardhatEvaluate(r) \/ HardhatRecorded(r) \/ \E ok \in BOOLEAN : HardhatProfile(r, ok)
  <2>1. /\ \A q \in Others(r) : proc'[q] = proc[q] /\ rows'[q] = rows[q]
        /\ child' = child /\ seen' = seen
    BY <1>2, Typed DEF HardhatEvaluate, HardhatRecorded, HardhatProfile, Others
  <2>2. Successor(proc[r], proc'[r])
    <3>1. CASE HardhatEvaluate(r)
      <4>1. proc'[r] = [proc[r] EXCEPT !.pc = "appending", !.row = proc[r].batch, !.drift = HardhatDrift(r)] /\ proc[r].pc = "returned" /\ proc[r].kind = "hardhat"
        BY <3>1, Typed DEF HardhatEvaluate, At, IsHardhat, Kind
      <4> QED
        BY <4>1, Typed DEF Successor, ProcessType, Duty, Work, SameJob, AtWork, InChild, Finishing, Restoring, Over
    <3>2. CASE HardhatRecorded(r)
      <4>1. proc'[r] = (IF proc[r].body = "try" /\ proc[r].batch < proc[r].total /\ ~proc[r].drift
           THEN [proc[r] EXCEPT !.pc = "ready", !.batch = proc[r].batch + 1, !.pending = FALSE]
           ELSE [Finally(r) EXCEPT !.pending = FALSE]) /\ proc[r].pc = "recorded" /\ proc[r].kind = "hardhat"
        BY <3>2, Typed DEF HardhatRecorded, At, IsHardhat, Kind
      <4> QED
        BY <4>1, Typed DEF Successor, ProcessType, Finally, FirstOfFinally, Kind, Duty, Work, SameJob, AtWork, InChild, Finishing, Restoring, Over
    <3>3. CASE \E ok \in BOOLEAN : HardhatProfile(r, ok)
      <4>1. proc'[r] \in {[proc[r] EXCEPT !.pc = "baselining"], [Finally(r) EXCEPT !.body = "escape"]} /\ proc[r].pc = "selecting" /\ proc[r].kind = "hardhat"
        BY <3>3, Typed DEF HardhatProfile, At, IsHardhat, Kind
      <4> QED
        <5>1. CASE proc'[r] = [proc[r] EXCEPT !.pc = "baselining"]
          BY <4>1, <5>1, Typed DEF Successor, ProcessType, Finally, FirstOfFinally, Kind, Duty, Work, SameJob, AtWork, InChild, Finishing, Restoring, Over
        <5>2. CASE proc'[r] = [Finally(r) EXCEPT !.body = "escape"]
          BY <4>1, <5>2, Typed DEF Successor, ProcessType, Finally, FirstOfFinally, Kind, Duty, Work, SameJob, AtWork, InChild, Finishing, Restoring, Over
        <5> QED
          BY <4>1, <5>1, <5>2
    <3> QED
      BY <1>2, <3>1, <3>2, <3>3
  <2> QED
    BY <2>1, <2>2 DEF Conduct, Apart
<1>3. CASE HardhatExit(r) \/ HardhatRefused(r)
  <2>1. PICK status \in -1..2 : Exits(r, status)
    BY <1>3 DEF HardhatExit, HardhatRefused
  <2> QED
    BY <1>3, <2>1, ExitsConducts DEF HardhatExit, HardhatRefused, At
<1> QED
  BY <1>1, <1>2, <1>3, RunChildConducts, RecordConducts, RestoreConducts
  DEF HardhatStep, HardhatRunChild, HardhatGroupExit, HardhatRecord, HardhatFailed, HardhatRestore

LEMMA CampaignConducts ==
  ASSUME RunnerInv, EvidenceInv, NEW r \in Runners, CampaignStep(r)
  PROVE  Conduct(r)
<1>1. CASE CampaignStart(r) \/ CampaignPatched(r) \/ CampaignRun(r) \/ CampaignDone(r)
  <2>1. /\ \A q \in Others(r) : proc'[q] = proc[q] /\ seen'[q] = seen[q]
        /\ child' = child /\ rows' = rows
    BY <1>1, Typed DEF CampaignStart, CampaignPatched, CampaignRun, CampaignDone, Goto, Others
  <2>2. Successor(proc[r], proc'[r])
    <3>1. CASE CampaignStart(r)
      <4>1. proc'[r] = [proc[r] EXCEPT !.pc = "spawning", !.job = "patch", !.backup = tree[Home(r)]] /\ proc[r].pc = "starting"
        BY <3>1, Typed DEF CampaignStart, At
      <4> QED
        BY <4>1, Typed DEF Successor, ProcessType, Duty, Work, SameJob, AtWork, InChild, Finishing, Restoring, Over
    <3>2. CASE CampaignPatched(r)
      <4>1. proc'[r] = [proc[r] EXCEPT !.pc = IF child[r].outcome = "passed" THEN "ready" ELSE "failing"] /\ proc[r].pc = "returned"
        BY <3>2, Typed DEF CampaignPatched, Goto, At
      <4> QED
        BY <4>1, Typed DEF Successor, ProcessType, Duty, Work, SameJob, AtWork, InChild, Finishing, Restoring, Over
    <3>3. CASE CampaignRun(r)
      <4>1. proc'[r] = [proc[r] EXCEPT !.pc = "spawning", !.job = "batch", !.base = BaselineDue(r)] /\ proc[r].pc = "ready"
        BY <3>3, Typed DEF CampaignRun, At
      <4> QED
        BY <4>1, Typed DEF Successor, ProcessType, Duty, Work, SameJob, AtWork, InChild, Finishing, Restoring, Over
    <3>4. CASE CampaignDone(r)
      <4>1. proc'[r] \in {Finally(r), [Finally(r) EXCEPT !.body = "except"]} /\ proc[r].pc \in {"ready", "failing"}
        BY <3>4, Typed DEF CampaignDone, At
      <4> QED
        <5>1. CASE proc'[r] = Finally(r)
          BY <4>1, <5>1, Typed DEF Successor, ProcessType, Finally, FirstOfFinally, Kind, Duty, Work, SameJob, AtWork, InChild, Finishing, Restoring, Over
        <5>2. CASE proc'[r] = [Finally(r) EXCEPT !.body = "except"]
          BY <4>1, <5>2, Typed DEF Successor, ProcessType, Finally, FirstOfFinally, Kind, Duty, Work, SameJob, AtWork, InChild, Finishing, Restoring, Over
        <5> QED
          BY <4>1, <5>1, <5>2
    <3> QED
      BY <1>1, <3>1, <3>2, <3>3, <3>4
  <2> QED
    BY <2>1, <2>2 DEF Conduct, Apart
<1>2. CASE CampaignEvaluate(r)
  <2>1. /\ \A q \in Others(r) : proc'[q] = proc[q] /\ rows'[q] = rows[q]
        /\ child' = child /\ seen' = seen
    BY <1>2, Typed DEF CampaignEvaluate, Goto, Others
  <2>2. Successor(proc[r], proc'[r])
    <3>1. CASE CampaignEvaluate(r)
      <4>1. /\ proc[r].pc = "returned"
            /\ \/ proc'[r] = [proc[r] EXCEPT !.pc = "failing"]
               \/ proc'[r] = [proc[r] EXCEPT !.pc = "ready", !.based = proc[r].based \cup {TestOf(proc[r].batch)}]
               \/ proc'[r] = [proc[r] EXCEPT !.pc = "ready", !.batch = proc[r].batch + 1]
        BY <3>1, Typed DEF CampaignEvaluate, Goto, At
      <4> QED
        <5>1. CASE proc'[r] = [proc[r] EXCEPT !.pc = "failing"]
          BY <4>1, <5>1, Typed DEF Successor, ProcessType, Duty, Work, SameJob, AtWork, InChild, Finishing, Restoring, Over
        <5>2. CASE proc'[r] = [proc[r] EXCEPT !.pc = "ready", !.based = proc[r].based \cup {TestOf(proc[r].batch)}]
          BY <4>1, <5>2, Typed DEF Successor, ProcessType, Duty, Work, SameJob, AtWork, InChild, Finishing, Restoring, Over
        <5>3. CASE proc'[r] = [proc[r] EXCEPT !.pc = "ready", !.batch = proc[r].batch + 1]
          BY <4>1, <5>3, Typed DEF Successor, ProcessType, Duty, Work, SameJob, AtWork, InChild, Finishing, Restoring, Over
        <5> QED
          BY <4>1, <5>1, <5>2, <5>3
    <3> QED
      BY <1>2, <3>1
  <2> QED
    BY <2>1, <2>2 DEF Conduct, Apart
<1>3. CASE CampaignExit(r) \/ CampaignRefused(r)
  <2>1. PICK status \in -1..2 : Exits(r, status)
    BY <1>3 DEF CampaignExit, CampaignRefused
  <2> QED
    BY <1>3, <2>1, ExitsConducts DEF CampaignExit, CampaignRefused, At
<1> QED
  BY <1>1, <1>2, <1>3, RunChildConducts, RestoreConducts
  DEF CampaignStep, CampaignRunChild, CampaignGroupExit, CampaignRestore

\* What the environment does to one script.
Befalls(r) ==
  \/ Interrupted(r) \/ InterruptedInPopen(r) \/ Killed(r)
  \/ StartCompiler(r) \/ Compile(r) \/ Patch(r)
  \/ EndCompiler(r) \/ \E outcome \in Outcomes(Kind(r)) : EndWrapper(r, outcome)

LEMMA UnwoundSuccessor ==
  ASSUME RunnerInv, EvidenceInv, NEW r \in Runners, proc[r].pc \notin {"starting"} \cup Over
  PROVE  Successor(proc[r], Unwound(r))
<1>1. proc[r] \in ProcessType
  BY Typed
<1>2. CASE proc[r].pc \in InChild
  <2>1. Unwound(r) = [proc[r] EXCEPT !.pc = "terminating"]
    BY <1>2 DEF Unwound
  <2> QED
    BY <1>1, <1>2, <2>1 DEF Successor, ProcessType, Duty, Work, AtWork, InChild, Finishing, Restoring, Over
<1>3. CASE proc[r].pc \in Finishing
  <2>1. Unwound(r) = [proc[r] EXCEPT !.pc = "exited", !.status = 1, !.cut = TRUE]
    BY <1>3 DEF Unwound, InChild, Finishing, Restoring
  <2> QED
    BY <1>1, <1>3, <2>1 DEF Successor, ProcessType, Duty, Work, AtWork, InChild, Finishing, Restoring, Over
<1>4. CASE proc[r].pc \notin InChild \cup Finishing /\ proc[r].body = "try"
  <2>1. Unwound(r) = [proc[r] EXCEPT !.pc = "failing", !.history = <<>>]
    BY <1>4 DEF Unwound, Finishing
  <2> QED
    BY <1>1, <1>4, <2>1 DEF Successor, ProcessType, Duty, Work, AtWork, InChild, Finishing, Restoring, Over
<1>5. CASE proc[r].pc \notin InChild \cup Finishing /\ proc[r].body # "try"
  <2>1. Unwound(r) = [Finally(r) EXCEPT !.body = "escape", !.history = <<>>]
    BY <1>5 DEF Unwound, Finishing
  <2> QED
    BY <1>1, <1>5, <2>1
    DEF Finally, FirstOfFinally, Kind, Successor, ProcessType, Duty, Work, AtWork, InChild, Finishing, Restoring, Over
<1> QED
  BY <1>2, <1>3, <1>4, <1>5

LEMMA BefallsConducts ==
  ASSUME RunnerInv, EvidenceInv, NEW r \in Runners, Befalls(r)
  PROVE  Conduct(r)
<1>1. CASE Interrupted(r)
  <2>1. /\ \A q \in Others(r) : proc'[q] = proc[q]
        /\ child' = child /\ seen' = seen /\ rows' = rows
        /\ proc'[r] = Unwound(r) /\ proc[r].pc \notin {"starting"} \cup Over
    BY <1>1, Typed DEF Interrupted, Interruptible, Others
  <2> QED
    BY <2>1, UnwoundSuccessor DEF Conduct, Apart
<1>2. CASE InterruptedInPopen(r)
  <2>1. /\ \A q \in Others(r) : proc'[q] = proc[q] /\ child'[q] = child[q]
        /\ seen' = seen /\ rows' = rows
        /\ proc'[r] = [Unwound(r) EXCEPT !.leaked = TRUE] /\ proc[r].pc = "spawning"
    BY <1>2, Typed DEF InterruptedInPopen, Others, At
  <2>2. Unwound(r) = [proc[r] EXCEPT !.pc = "failing", !.history = <<>>]
    BY <2>1, Typed DEF Vouched, Course, Unwound, InChild, Restoring
  <2>3. /\ proc'[r].pc = "failing" /\ proc'[r].leaked
        /\ proc'[r].kind = proc[r].kind /\ proc'[r].home = proc[r].home /\ proc'[r].total = proc[r].total
        /\ proc'[r].cut = proc[r].cut /\ proc'[r].backup = proc[r].backup /\ proc'[r].left = proc[r].left
    BY <2>1, <2>2, Typed DEF ProcessType
  <2>4. Successor(proc[r], proc'[r])
    BY <2>1, <2>3 DEF Successor, Duty, Work, AtWork, InChild, Finishing, Restoring, Over
  <2> QED
    BY <2>1, <2>4 DEF Conduct, Apart
<1>5. CASE Killed(r)
  <2>1. /\ \A q \in Others(r) : proc'[q] = proc[q]
        /\ child' = child /\ seen' = seen /\ rows' = rows
        /\ proc'[r] = [proc[r] EXCEPT !.pc = "killed", !.history = <<>>] /\ proc[r].pc \notin Over
    BY <1>5, Typed DEF Killed, Others
  <2>2. Successor(proc[r], proc'[r])
    BY <2>1, Typed DEF Successor, ProcessType, Duty, Work, AtWork, InChild
  <2> QED
    BY <2>1, <2>2 DEF Conduct, Apart
<1>3. ASSUME NEW outcome \in Outcomes(Kind(r)), EndWrapper(r, outcome) PROVE Conduct(r)
  <2>1. /\ \A q \in Others(r) : child'[q] = child[q] /\ seen'[q] = seen[q]
        /\ proc' = proc /\ rows' = rows
    BY <1>3, Typed DEF EndWrapper, Others
  <2> QED
    BY <2>1 DEF Conduct, Apart, Successor
<1>4. CASE StartCompiler(r) \/ Compile(r) \/ Patch(r) \/ EndCompiler(r)
  <2>1. /\ \A q \in Others(r) : child'[q] = child[q] /\ seen'[q] = seen[q]
        /\ proc' = proc /\ rows' = rows
    BY <1>4, Typed DEF StartCompiler, Compile, Patch, EndCompiler, Others
  <2> QED
    BY <2>1 DEF Conduct, Apart, Successor
<1> QED
  BY <1>1, <1>2, <1>3, <1>4, <1>5 DEF Befalls

-----------------------------------------------------------------------------
(* Every step keeps every script's word. *)

LEMMA SeenKept ==
  ASSUME RunnerInv, EvidenceInv, NEW r \in Runners, FoundryStep(r) \/ HardhatStep(r) \/ CampaignStep(r) \/ Befalls(r)
  PROVE  SeenOK'
<1>1. seen \in [Runners -> [BatchNumbers -> SeenType]] /\ seen[r] \in [BatchNumbers -> SeenType]
  BY Typed
<1> DEFINE b == proc[r].batch
<1>2. ASSUME NEW v, seen' = [seen EXCEPT ![r] = [seen[r] EXCEPT ![b] = v]], b \in BatchNumbers => v \in SeenType
      PROVE  SeenOK'
  BY <1>1, <1>2 DEF SeenOK
<1> HIDE DEF b
<1>3. CASE CampaignRun(r)
  <2> DEFINE v == [seen[r][b] EXCEPT !.inputs = {}]
  <2>1. seen' = [seen EXCEPT ![r] = [seen[r] EXCEPT ![b] = v]]
    BY <1>1, <1>3 DEF CampaignRun, b
  <2>2. b \in BatchNumbers => v \in SeenType
    BY <1>1 DEF SeenType
  <2> HIDE DEF v
  <2> QED
    BY <1>2, <2>1, <2>2
<1>4. CASE Compile(r)
  <2> DEFINE i == [source |-> source[Home(r)], target |-> tree[Home(r)]["target"]]
             v == [seen[r][b] EXCEPT !.inputs = @ \cup {i}]
  <2>1. seen' = [seen EXCEPT ![r] = [seen[r] EXCEPT ![b] = v]]
    BY <1>1, <1>4 DEF Compile, b
  <2>2. i \in [source : Versions, target : Nat]
    <3>1. Home(r) \in Trees
      BY Typed DEF ProcessType, Home
    <3> QED
      BY <3>1 DEF RunnerInv, TypeOK, Files
  <2> HIDE DEF i
  <2>3. b \in BatchNumbers => v \in SeenType
    BY <1>1, <2>2 DEF SeenType
  <2> HIDE DEF v
  <2> QED
    BY <1>2, <2>1, <2>3
<1>5. ASSUME NEW outcome \in Outcomes(Kind(r)), EndWrapper(r, outcome) PROVE SeenOK'
  <2> DEFINE v == IF proc[r].job = "batch" THEN [seen[r][b] EXCEPT !.ended = outcome] ELSE seen[r][b]
  <2>1. seen' = [seen EXCEPT ![r] = [seen[r] EXCEPT ![b] = v]]
    BY <1>1, <1>5 DEF EndWrapper, b
  <2>2. b \in BatchNumbers => v \in SeenType
    BY <1>1, <1>5 DEF SeenType, Outcomes
  <2> HIDE DEF v
  <2> QED
    BY <1>2, <2>1, <2>2
<1>6. CASE seen' = seen
  BY <1>1, <1>6 DEF SeenOK
<1>7. FoundryStep(r) => seen' = seen
  BY DEF FoundryStep, FoundryRunChild, FoundryGroupExit, FoundryRecord, FoundryFailed, FoundryRestore,
         RunChild, GroupExit, Record, Failed, Restore, Spawned, Waited, Terminated, Returned, Reraised,
         Appended, Locked, Replaced, Ignored, Opened, Written, FoundryStart, FoundryPatched, FoundryBatch,
         FoundryEvaluate, FoundryRecorded, FoundryExit, Exits
<1>8. HardhatStep(r) => seen' = seen
  BY DEF HardhatStep, HardhatRunChild, HardhatGroupExit, HardhatRecord, HardhatFailed, HardhatRestore,
         RunChild, GroupExit, Record, Failed, Restore, Spawned, Waited, Terminated, Returned, Reraised,
         Appended, Locked, Replaced, Ignored, Opened, Written, HardhatRefused, HardhatStart, HardhatVersioned,
         HardhatProfile, HardhatBaseline, HardhatBatch, HardhatEvaluate, HardhatRecorded, HardhatExit, Exits
<1>9. CampaignStep(r) => seen' = seen \/ CampaignRun(r)
  BY DEF CampaignStep, CampaignRunChild, CampaignGroupExit, CampaignRestore,
         RunChild, GroupExit, Restore, Spawned, Waited, Terminated, Returned, Reraised,
         Ignored, Opened, Written, CampaignRefused, CampaignStart, CampaignPatched,
         CampaignEvaluate, CampaignTimeout, CampaignDone, CampaignExit, Exits
<1>10. Befalls(r) => \/ seen' = seen \/ Compile(r)
                     \/ \E outcome \in Outcomes(Kind(r)) : EndWrapper(r, outcome)
  BY DEF Befalls, Interrupted, InterruptedInPopen, Killed, StartCompiler, Patch, EndCompiler
<1> QED
  BY <1>3, <1>4, <1>5, <1>6, <1>7, <1>8, <1>9, <1>10

LEMMA SharedVouches ==
  ASSUME RunnerInv, EvidenceInv, NEW r \in Runners,
         RunChild(r) \/ GroupExit(r) \/ Record(r) \/ Failed(r) \/ Restore(r)
  PROVE  Vouched(r)'
BY SpawnedVouches, WaitedVouches, TerminatedVouches, ReturnedVouches, ReraisedVouches, AppendedVouches,
   LockedVouches, ReplacedVouches, FailedVouches, IgnoredVouches, OpenedVouches, WrittenVouches
DEF RunChild, GroupExit, Record, Restore

LEMMA OwnStepVouches ==
  ASSUME RunnerInv, EvidenceInv, TargetInv, NEW r \in Runners, FoundryStep(r) \/ HardhatStep(r) \/ CampaignStep(r)
  PROVE  Vouched(r)'
<1>1. CASE FoundryStep(r)
  BY <1>1, SharedVouches, StartVouches, PatchedVouches, FoundryBatchVouches, FoundryEvaluateVouches,
     RecordedVouches, FoundryExitVouches
  DEF FoundryStep, FoundryRunChild, FoundryGroupExit, FoundryRecord, FoundryFailed, FoundryRestore
<1>2. CASE HardhatStep(r)
  BY <1>2, SharedVouches, RefusedVouches, StartVouches, HardhatVersionedVouches, HardhatProfileVouches,
     HardhatBaselineVouches, HardhatBatchVouches, HardhatEvaluateVouches, RecordedVouches, HardhatExitVouches
  DEF HardhatStep, HardhatRunChild, HardhatGroupExit, HardhatRecord, HardhatFailed, HardhatRestore
<1>3. CASE CampaignEvaluate(r)
  <2>1. ~proc[r].base => tree[Home(r)]["target"] = Mutant(proc[r].batch)
    <3>1. /\ proc[r].pc = "returned" /\ proc[r].job = "batch" /\ proc[r].kind = "campaign"
      BY <1>3 DEF CampaignEvaluate, At, IsCampaign, Kind
    <3> QED
      BY <3>1, ReturnedOutcome DEF TargetInv, Kind
  <2> QED
    BY <1>3, <2>1, CampaignEvaluateVouches
<1>4. CASE CampaignStep(r) /\ ~CampaignEvaluate(r)
  BY <1>4, SharedVouches, RefusedVouches, StartVouches, PatchedVouches, CampaignRunVouches,
     CampaignTimeoutVouches, CampaignDoneVouches, CampaignExitVouches
  DEF CampaignStep, CampaignRunChild, CampaignGroupExit, CampaignRestore
<1> QED
  BY <1>1, <1>2, <1>3, <1>4

LEMMA BefallsVouches ==
  ASSUME RunnerInv, EvidenceInv, NEW r \in Runners, Befalls(r)
  PROVE  Vouched(r)'
<1>1. CASE Patch(r)
  BY <1>1, Unmoved DEF Patch
<1> QED
  BY <1>1, InterruptedVouches, InterruptedInPopenVouches, KilledVouches, CompilerVouches, CompileVouches, EndWrapperVouches
  DEF Befalls

\* A step of Next is one of a script, something that befalls one, an edit, or nothing.
LEMMA StepKinds ==
  ASSUME [Next]_vars
  PROVE  \/ \E r \in Runners : FoundryStep(r) \/ HardhatStep(r) \/ CampaignStep(r) \/ Befalls(r)
         \/ \E c \in Trees : Edit(c)
         \/ UNCHANGED vars
BY DEF Next, Step, Environment, Befalls

LEMMA EvidenceKept ==
  ASSUME RunnerInv, EvidenceInv, TargetInv, [Next]_vars
  PROVE  EvidenceInv'
<1>1. ASSUME NEW r \in Runners, FoundryStep(r) \/ HardhatStep(r) \/ CampaignStep(r) \/ Befalls(r)
      PROVE  EvidenceInv'
  <2>1. SeenOK' /\ Vouched(r)'
    BY <1>1, SeenKept, OwnStepVouches, BefallsVouches
  <2>2. Conduct(r)
    BY <1>1, FoundryConducts, HardhatConducts, CampaignConducts, BefallsConducts
  <2>3. ASSUME NEW q \in Runners, q # r PROVE Vouched(q)'
    BY <2>2, <2>3, Unmoved DEF Conduct, Apart, Others
  <2> QED
    BY <2>1, <2>3 DEF EvidenceInv
<1>2. ASSUME proc' = proc, child' = child, rows' = rows, seen' = seen
      PROVE  EvidenceInv'
  <2>1. SeenOK'
    BY <1>2 DEF EvidenceInv, SeenOK
  <2>2. ASSUME NEW q \in Runners PROVE Vouched(q)'
    BY <1>2, Unmoved
  <2> QED
    BY <2>1, <2>2 DEF EvidenceInv
<1>3. (\E c \in Trees : Edit(c)) \/ UNCHANGED vars => proc' = proc /\ child' = child /\ rows' = rows /\ seen' = seen
  BY DEF Edit, vars
<1> QED
  BY <1>1, <1>2, <1>3, StepKinds

-----------------------------------------------------------------------------
(* Locks, the cast, and what is left to restore. *)

LEMMA AllConduct ==
  ASSUME RunnerInv, EvidenceInv, [Next]_vars
  PROVE  /\ \A q \in Runners : Successor(proc[q], proc'[q])
         /\ \/ \E r \in Runners : /\ FoundryStep(r) \/ HardhatStep(r) \/ CampaignStep(r) \/ Befalls(r)
                                  /\ Conduct(r)
            \/ proc' = proc /\ child' = child /\ rows' = rows /\ tree' = tree /\ owner' = owner /\ summary' = summary
<1>1. ASSUME NEW r \in Runners, FoundryStep(r) \/ HardhatStep(r) \/ CampaignStep(r) \/ Befalls(r)
      PROVE  Conduct(r) /\ \A q \in Runners : Successor(proc[q], proc'[q])
  <2>1. Conduct(r)
    BY <1>1, FoundryConducts, HardhatConducts, CampaignConducts, BefallsConducts
  <2>2. ASSUME NEW q \in Runners PROVE Successor(proc[q], proc'[q])
    BY <2>1 DEF Conduct, Apart, Others, Successor
  <2> QED
    BY <2>1, <2>2
<1>2. CASE proc' = proc /\ child' = child /\ rows' = rows /\ tree' = tree /\ owner' = owner /\ summary' = summary
  BY <1>2 DEF Successor
<1>3. (\E c \in Trees : Edit(c)) \/ UNCHANGED vars
        => proc' = proc /\ child' = child /\ rows' = rows /\ tree' = tree /\ owner' = owner /\ summary' = summary
  BY DEF Edit, vars
<1> QED
  BY <1>1, <1>2, <1>3, StepKinds

LEMMA Restorable ==
  ASSUME NEW kind
  PROVE  /\ \A i \in DOMAIN Restored(kind) : Restored(kind)[i] \in Backed(kind)
         /\ \A f \in Backed(kind) : \E i \in DOMAIN Restored(kind) : Restored(kind)[i] = f
<1>1. CASE kind = "campaign"
  <2>1. Restored(kind) = <<"target", "pins", "config">>
    BY <1>1 DEF Restored
  <2>2. /\ Restored(kind)[1] = "target" /\ Restored(kind)[2] = "pins" /\ Restored(kind)[3] = "config"
        /\ DOMAIN Restored(kind) = {1, 2, 3}
    BY <2>1
  <2> QED
    BY <1>1, <2>2 DEF Backed
<1>2. CASE kind # "campaign"
  <2>1. Restored(kind) = <<"pins", "profile">>
    BY <1>2 DEF Restored
  <2>2. /\ Restored(kind)[1] = "pins" /\ Restored(kind)[2] = "profile" /\ DOMAIN Restored(kind) = {1, 2}
    BY <2>1
  <2> QED
    BY <1>2, <2>2 DEF Backed
<1> QED
  BY <1>1, <1>2

\* What is left of a sequence without its first element.
LEMMA Tails ==
  ASSUME NEW S, NEW s \in Seq(S), s # <<>>
  PROVE  /\ Tail(s) \in Seq(S) /\ 1 \in DOMAIN s /\ Head(s) = s[1] /\ Head(s) \in S
         /\ \A i \in DOMAIN Tail(s) : i + 1 \in DOMAIN s /\ Tail(s)[i] = s[i + 1]
         /\ \A i \in DOMAIN s \ {1} : i - 1 \in DOMAIN Tail(s) /\ Tail(s)[i - 1] = s[i]
OBVIOUS

LEMMA LeftKept ==
  ASSUME RunnerInv, EvidenceInv, LeftInv, [Next]_vars
  PROVE  LeftInv'
<1>1. SUFFICES ASSUME NEW r \in Runners
               PROVE  \A i \in DOMAIN proc'[r].left : proc'[r].left[i] \in Backed(proc'[r].kind)
  BY DEF LeftInv, Kind
<1>2. Successor(proc[r], proc'[r]) /\ proc[r].left \in Seq(Files)
  BY AllConduct, Typed DEF ProcessType
<1>3. \A i \in DOMAIN proc[r].left : proc[r].left[i] \in Backed(proc[r].kind)
  BY DEF LeftInv, Kind
<1>4. CASE proc'[r].left = proc[r].left /\ proc'[r].kind = proc[r].kind
  BY <1>3, <1>4
<1>5. CASE proc'[r].left = Restored(proc[r].kind) /\ proc'[r].kind = proc[r].kind
  BY <1>5, Restorable
<1>6. CASE proc[r].pc = "writing" /\ proc'[r].left = Tail(proc[r].left) /\ proc'[r].kind = proc[r].kind
  <2>1. proc[r].left # <<>>
    BY <1>6 DEF RunnerInv, At
  <2> QED
    BY <1>2, <1>3, <1>6, <2>1, Tails
<1> QED
  BY <1>2, <1>4, <1>5, <1>6 DEF Successor

LEMMA CastKept ==
  ASSUME RunnerInv, EvidenceInv, CastInv, [Next]_vars
  PROVE  CastInv'
<1>1. \A r \in Runners : /\ Successor(proc[r], proc'[r])
                         /\ proc'[r].kind = proc[r].kind /\ proc'[r].home = proc[r].home
                         /\ proc'[r].pc = "starting" => proc[r].pc = "starting"
                         /\ proc[r].pc = "exited" => proc'[r] = proc[r]
  BY AllConduct DEF Successor, Over
<1> QED
  BY <1>1 DEF CastInv, Kind, Home, At

-----------------------------------------------------------------------------
(* Who owns a checkout. *)

\* A script takes its checkout's lock when it is free, and gives it up when it ends.
Locking(r) ==
  \/ owner' = owner /\ (Kind(r) \in Lockers => Active(r) \/ proc' = proc)
  \/ owner' = Unlocked(r) /\ proc'[r].pc \in Over
  \/ owner[Home(r)] = Nobody /\ owner' = [owner EXCEPT ![Home(r)] = r]

LEMMA SharedLocking ==
  ASSUME RunnerInv, EvidenceInv, NEW r \in Runners,
         RunChild(r) \/ GroupExit(r) \/ Record(r) \/ Failed(r) \/ Restore(r) \/ CampaignTimeout(r)
  PROVE  Locking(r)
BY DEF RunChild, GroupExit, Record, Restore, Spawned, Waited, Terminated, Returned, Reraised, Appended, Locked,
       Replaced, Failed, Ignored, Opened, Written, CampaignTimeout, Locking, Active, At, Over

LEMMA ExitLocking ==
  ASSUME RunnerInv, EvidenceInv, NEW r \in Runners, NEW status, Exits(r, status)
  PROVE  Locking(r)
BY Typed DEF Exits, Locking, Over

LEMMA StepLocking ==
  ASSUME RunnerInv, EvidenceInv, NEW r \in Runners, FoundryStep(r) \/ HardhatStep(r) \/ CampaignStep(r) \/ Befalls(r)
  PROVE  Locking(r)
<1>1. CASE FoundryStep(r)
  <2>1. CASE FoundryStart(r) \/ FoundryPatched(r) \/ FoundryBatch(r) \/ FoundryEvaluate(r) \/ FoundryRecorded(r)
    BY <2>1 DEF FoundryStart, FoundryPatched, FoundryBatch, FoundryEvaluate, FoundryRecorded, IsFoundry,
                Locking, Lockers
  <2> QED
    BY <1>1, <2>1, SharedLocking, ExitLocking
    DEF FoundryStep, FoundryRunChild, FoundryGroupExit, FoundryRecord, FoundryFailed, FoundryRestore, FoundryExit
<1>2. CASE HardhatStep(r)
  <2>1. CASE HardhatVersioned(r) \/ HardhatBaseline(r) \/ HardhatBatch(r) \/ HardhatEvaluate(r)
             \/ HardhatRecorded(r) \/ (\E ok \in BOOLEAN : HardhatProfile(r, ok))
    BY <2>1 DEF HardhatVersioned, HardhatBaseline, HardhatBatch, HardhatEvaluate, HardhatRecorded, HardhatProfile,
                Locking, Active, At, Over
  <2>2. CASE HardhatStart(r)
    BY <2>2 DEF HardhatStart, TreeUnowned, Locking
  <2> QED
    BY <1>2, <2>1, <2>2, SharedLocking, ExitLocking
    DEF HardhatStep, HardhatRunChild, HardhatGroupExit, HardhatRecord, HardhatFailed, HardhatRestore, HardhatExit,
        HardhatRefused
<1>3. CASE CampaignStep(r)
  <2>1. CASE CampaignPatched(r) \/ CampaignRun(r) \/ CampaignEvaluate(r) \/ CampaignDone(r)
    BY <2>1 DEF CampaignPatched, CampaignRun, CampaignEvaluate, CampaignDone, Locking, Active, At, Over
  <2>2. CASE CampaignStart(r)
    BY <2>2 DEF CampaignStart, Locking
  <2> QED
    BY <1>3, <2>1, <2>2, SharedLocking, ExitLocking
    DEF CampaignStep, CampaignRunChild, CampaignGroupExit, CampaignRestore, CampaignExit, CampaignRefused
<1>4. CASE Befalls(r)
  <2>1. CASE Interrupted(r)
    <3>1. /\ proc'[r] = Unwound(r) /\ owner' = (IF Unwound(r).pc = "exited" THEN Unlocked(r) ELSE owner)
          /\ proc[r].pc \notin {"starting"} \cup Over
      BY <2>1, Typed DEF Interrupted, Interruptible
    <3> QED
      BY <3>1 DEF Locking, Active, Over
  <2>2. CASE InterruptedInPopen(r)
    BY <2>2 DEF InterruptedInPopen, Locking, Active, At, Over
  <2>3. CASE Killed(r)
    <3>1. proc'[r].pc = "killed" /\ owner' = Unlocked(r)
      BY <2>3, Typed DEF Killed
    <3> QED
      BY <3>1 DEF Locking, Over
  <2>4. CASE proc' = proc /\ owner' = owner
    BY <2>4 DEF Locking
  <2> QED
    BY <1>4, <2>1, <2>2, <2>3, <2>4 DEF Befalls, StartCompiler, Compile, Patch, EndCompiler, EndWrapper
<1> QED
  BY <1>1, <1>2, <1>3, <1>4

LEMMA LockKept ==
  ASSUME RunnerInv, EvidenceInv, LockInv, [Next]_vars
  PROVE  LockInv'
<1>1. CASE proc' = proc /\ owner' = owner
  BY <1>1 DEF LockInv, Kind, Active, Home
<1>2. ASSUME NEW r \in Runners, FoundryStep(r) \/ HardhatStep(r) \/ CampaignStep(r) \/ Befalls(r), Conduct(r)
      PROVE  LockInv'
  <2>1. SUFFICES ASSUME NEW q \in Runners, proc'[q].kind \in Lockers, proc'[q].pc \notin {"starting"} \cup Over
                 PROVE  owner'[proc'[q].home] = q
    BY DEF LockInv, Kind, Active, Home
  <2>2. Locking(r)
    BY <1>2, StepLocking
  <2>3. /\ owner \in [Trees -> Runners \cup {Nobody}] /\ proc[q].home \in Trees /\ proc[r].home \in Trees
    BY Typed DEF RunnerInv, TypeOK, ProcessType
  <2>4. CASE q # r
    <3>1. proc'[q] = proc[q] /\ owner[proc[q].home] = q
      BY <1>2, <2>1, <2>4 DEF Conduct, Apart, Others, LockInv, Kind, Active, Home
    <3> QED
      BY <2>2, <2>3, <2>4, <3>1, CheckoutAssumption DEF Locking, Unlocked, Home
  <2>5. CASE q = r
    <3>1. proc'[r].kind = proc[r].kind /\ proc'[r].home = proc[r].home
      BY <1>2 DEF Conduct, Successor
    <3>2. CASE owner' = owner /\ (Active(r) \/ proc' = proc)
      BY <2>1, <2>5, <3>1, <3>2 DEF LockInv, Kind, Active, Home
    <3>3. CASE owner' = [owner EXCEPT ![Home(r)] = r]
      BY <2>3, <2>5, <3>1, <3>3 DEF Home
    <3> QED
      BY <2>1, <2>2, <2>5, <3>1, <3>2, <3>3 DEF Locking, Kind
  <2> QED
    BY <2>4, <2>5
<1> QED
  BY <1>1, <1>2, AllConduct

-----------------------------------------------------------------------------
(* Who writes which file of a checkout. *)

\* r writes v to file f of its checkout.
Puts(r, f, v) == tree' = [tree EXCEPT ![Home(r)] = [tree[Home(r)] EXCEPT ![f] = v]]

LEMMA Putting ==
  ASSUME RunnerInv, EvidenceInv, NEW r \in Runners, NEW f \in Files, NEW v, Puts(r, f, v)
  PROVE  /\ tree'[Home(r)][f] = v
         /\ \A c \in Trees, g \in Files : c # Home(r) \/ g # f => tree'[c][g] = tree[c][g]
<1>1. tree \in [Trees -> [Files -> Nat]] /\ Home(r) \in Trees
  BY Typed DEF RunnerInv, TypeOK, ProcessType, Home
<1> QED
  BY <1>1 DEF Puts

\* The steps that may write a file.
Writers(r) ==
  \/ Opened(r) \/ Written(r) \/ (\E ok \in BOOLEAN : HardhatProfile(r, ok))
  \/ CampaignStart(r) \/ CampaignRun(r) \/ Patch(r)

LEMMA SharedWrites ==
  ASSUME NEW r \in Runners,
         RunChild(r) \/ GroupExit(r) \/ Record(r) \/ Failed(r) \/ Restore(r) \/ CampaignTimeout(r)
  PROVE  tree' = tree \/ Writers(r)
BY DEF RunChild, GroupExit, Record, Restore, Spawned, Waited, Terminated, Returned, Reraised, Appended, Locked,
       Replaced, Failed, Ignored, CampaignTimeout, Writers

LEMMA StepWrites ==
  ASSUME NEW r \in Runners, FoundryStep(r) \/ HardhatStep(r) \/ CampaignStep(r) \/ Befalls(r)
  PROVE  tree' = tree \/ Writers(r)
<1>1. CASE FoundryStep(r)
  BY <1>1, SharedWrites
  DEF FoundryStep, FoundryRunChild, FoundryGroupExit, FoundryRecord, FoundryFailed, FoundryRestore,
      FoundryStart, FoundryPatched, FoundryBatch, FoundryEvaluate, FoundryRecorded, FoundryExit, Exits
<1>2. CASE HardhatStep(r)
  BY <1>2, SharedWrites
  DEF HardhatStep, HardhatRunChild, HardhatGroupExit, HardhatRecord, HardhatFailed, HardhatRestore,
      HardhatRefused, HardhatStart, HardhatVersioned, HardhatBaseline, HardhatBatch, HardhatEvaluate,
      HardhatRecorded, HardhatExit, Exits, Writers
<1>3. CASE CampaignStep(r)
  BY <1>3, SharedWrites
  DEF CampaignStep, CampaignRunChild, CampaignGroupExit, CampaignRestore, CampaignRefused, CampaignPatched,
      CampaignEvaluate, CampaignDone, CampaignExit, Exits, Writers
<1>4. CASE Befalls(r)
  BY <1>4
  DEF Befalls, Interrupted, InterruptedInPopen, Killed, StartCompiler, Compile, EndCompiler, EndWrapper, Writers
<1> QED
  BY <1>1, <1>2, <1>3, <1>4

\* What a restore has before it.
LEMMA NextLeft ==
  ASSUME RunnerInv, EvidenceInv, LeftInv, NEW r \in Runners, proc[r].left # <<>>
  PROVE  /\ Head(proc[r].left) \in Backed(Kind(r)) /\ Head(proc[r].left) \in Files
         /\ 1 \in DOMAIN proc[r].left /\ Head(proc[r].left) = proc[r].left[1]
<1>1. proc[r].left \in Seq(Files)
  BY Typed DEF ProcessType
<1> QED
  BY <1>1, Tails DEF LeftInv

\* Each write concerns one file that the script has backed up, or backs up in the same step.
LEMMA Writing ==
  ASSUME RunnerInv, EvidenceInv, LeftInv, NEW r \in Runners, Writers(r)
  PROVE  \E f \in Files, v \in Nat :
           /\ Puts(r, f, v) /\ f \in Backed(Kind(r))
           /\ \/ /\ Opened(r) \/ Written(r)
                 /\ f = Head(proc[r].left)
                 /\ Written(r) => v = proc[r].backup[f]
              \/ f = "pins" /\ Patch(r)
              \/ f = "profile" /\ \E ok \in BOOLEAN : HardhatProfile(r, ok)
              \/ f = "config" /\ CampaignStart(r)
              \/ /\ f = "target" /\ CampaignRun(r)
                 /\ ~proc'[r].base => v = Mutant(proc'[r].batch)
<1>1. /\ tree \in [Trees -> [Files -> Nat]] /\ Home(r) \in Trees
      /\ proc[r].backup \in [Files -> Nat] /\ proc[r].batch \in Nat
  BY Typed DEF RunnerInv, TypeOK, ProcessType, Home
<1>2. CASE Opened(r)
  <2>1. proc[r].left # <<>> /\ Puts(r, Head(proc[r].left), Torn)
    BY <1>1, <1>2 DEF Opened, Puts
  <2> QED
    BY <1>2, <2>1, NextLeft DEF Opened, Written, At, Torn
<1>3. CASE Written(r)
  <2>1. proc[r].left # <<>> /\ Puts(r, Head(proc[r].left), proc[r].backup[Head(proc[r].left)])
    BY <1>1, <1>3 DEF Written, Puts, RunnerInv
  <2> QED
    BY <1>1, <1>3, <2>1, NextLeft
<1>4. CASE Patch(r)
  <2>1. Puts(r, "pins", Run)
    BY <1>1, <1>4 DEF Patch, Puts
  <2> QED
    BY <1>4, <2>1 DEF Files, Backed, Run
<1>5. ASSUME NEW ok \in BOOLEAN, HardhatProfile(r, ok)
      PROVE  \E v \in Nat : Puts(r, "profile", v) /\ "profile" \in Files \cap Backed(Kind(r))
  <2>1. Puts(r, "profile", IF ok THEN Run ELSE Torn)
    BY <1>1, <1>5 DEF HardhatProfile, Puts
  <2>2. (IF ok THEN Run ELSE Torn) \in Nat
    BY DEF Run, Torn
  <2> QED
    BY <1>5, <2>1, <2>2 DEF HardhatProfile, IsHardhat, Files, Backed
<1>6. CASE CampaignStart(r)
  <2>1. Puts(r, "config", Run)
    BY <1>1, <1>6 DEF CampaignStart, Puts
  <2> QED
    BY <1>6, <2>1 DEF CampaignStart, IsCampaign, Files, Backed, Run
<1>7. CASE CampaignRun(r)
  <2> DEFINE v == IF BaselineDue(r) THEN proc[r].backup["target"] ELSE Mutant(proc[r].batch)
  <2>1. Puts(r, "target", v)
    BY <1>1, <1>7 DEF CampaignRun, Puts
  <2>2. v \in Nat
    BY <1>1 DEF Files, Mutant
  <2>3. proc'[r] = [proc[r] EXCEPT !.pc = "spawning", !.job = "batch", !.base = BaselineDue(r)]
    BY <1>7, Typed DEF CampaignRun
  <2>4. proc'[r].base = BaselineDue(r) /\ proc'[r].batch = proc[r].batch
    BY <2>3, Typed DEF ProcessType
  <2>5. ~proc'[r].base => v = Mutant(proc'[r].batch)
    BY <2>4
  <2> HIDE DEF v
  <2> QED
    BY <1>7, <2>1, <2>2, <2>5 DEF CampaignRun, IsCampaign, Files, Backed
<1> QED
  BY <1>2, <1>3, <1>4, <1>5, <1>6, <1>7 DEF Writers

\* The script is one of a mutant's batch: what TargetInv is about.
OnMutant(p) ==
  p.kind = "campaign" /\ OnCourse(p) /\ p.job = "batch" /\ ~p.base /\ p.pc \in AtWork

LEMMA TargetKept ==
  ASSUME RunnerInv, EvidenceInv, LeftInv, LockInv, TargetInv, [Next]_vars
  PROVE  TargetInv'
<1>1. TargetInv <=> \A q \in Runners : OnMutant(proc[q]) => tree[proc[q].home]["target"] = Mutant(proc[q].batch)
  BY DEF TargetInv, OnMutant, Kind, Home, AtWork
<1>2. TargetInv' <=> \A q \in Runners : OnMutant(proc'[q]) => tree'[proc'[q].home]["target"] = Mutant(proc'[q].batch)
  BY DEF TargetInv, OnMutant, Kind, Home, AtWork, OnCourse
<1>3. CASE proc' = proc /\ tree' = tree
  BY <1>1, <1>2, <1>3
<1>4. ASSUME NEW r \in Runners, FoundryStep(r) \/ HardhatStep(r) \/ CampaignStep(r) \/ Befalls(r), Conduct(r)
      PROVE  TargetInv'
  <2>1. SUFFICES ASSUME NEW q \in Runners, OnMutant(proc'[q])
                 PROVE  tree'[proc'[q].home]["target"] = Mutant(proc'[q].batch)
    BY <1>2
  <2>2. tree' = tree \/ Writers(r)
    BY <1>4, StepWrites
  <2>3. proc[q].home \in Trees /\ "target" \in Files
    BY Typed DEF ProcessType, Files
  <2>4. CASE q # r
    <3>1. proc'[q] = proc[q] /\ tree[proc[q].home]["target"] = Mutant(proc[q].batch)
      BY <1>1, <1>4, <2>1, <2>4 DEF Conduct, Apart, Others
    <3>2. SUFFICES ASSUME Writers(r) PROVE tree'[proc[q].home]["target"] = tree[proc[q].home]["target"]
      BY <2>2, <3>1
    <3>3. PICK f \in Files, v \in Nat :
            /\ Puts(r, f, v) /\ f \in Backed(Kind(r))
            /\ f = "target" => Opened(r) \/ Written(r) \/ CampaignRun(r)
      BY <3>2, Writing
    <3>4. CASE f = "target" /\ proc[q].home = proc[r].home
      <4>1. Kind(r) = "campaign" /\ Active(r)
        BY <3>3, <3>4 DEF Backed, Active, Opened, Written, CampaignRun, At, Over
      <4>2. Kind(q) = "campaign" /\ Active(q)
        BY <2>1, <3>1 DEF OnMutant, OnCourse, Kind, Active, AtWork, InChild, Over
      <4> QED
        BY <2>4, <3>4, <4>1, <4>2 DEF LockInv, Lockers, Home
    <3>5. CASE f # "target" \/ proc[q].home # proc[r].home
      BY <2>3, <3>3, <3>5, Putting DEF Home
    <3> QED
      BY <3>4, <3>5
  <2>5. CASE q = r /\ CampaignRun(r)
    <3>1. Writers(r) /\ proc[r].pc = "ready" /\ ~proc'[r].base /\ proc'[r].home = proc[r].home
      BY <1>4, <2>1, <2>5 DEF Writers, CampaignRun, At, OnMutant, Conduct, Successor
    <3>2. PICK f \in Files, v \in Nat : Puts(r, f, v) /\ f = "target" /\ v = Mutant(proc'[r].batch)
      <4>1. ~Opened(r) /\ ~Written(r) /\ ~CampaignStart(r) /\ ~(\E ok \in BOOLEAN : HardhatProfile(r, ok))
        BY <3>1 DEF Opened, Written, CampaignStart, HardhatProfile, At
      <4>2. ~Patch(r)
        <5>1. proc'[r].pc = "spawning"
          BY <2>5, Typed DEF CampaignRun, ProcessType
        <5> QED
          BY <3>1, <5>1 DEF Patch
      <4> QED
        BY <3>1, <4>1, <4>2, Writing
    <3> QED
      BY <2>5, <3>1, <3>2, Putting DEF Home
  <2>6. CASE q = r /\ ~CampaignRun(r)
    <3>1. proc[r].pc \in AtWork /\ OnMutant(proc[r]) /\ proc'[r].home = proc[r].home /\ proc'[r].batch = proc[r].batch
      <4>1. proc'[r].kind = proc[r].kind /\ proc'[r].home = proc[r].home /\ proc'[r].pc \in AtWork
        BY <1>4, <2>1, <2>6 DEF Conduct, Successor, OnMutant
      <4>2. proc[r].pc # "ready"
        <5>1. SUFFICES ASSUME proc[r].pc = "ready" PROVE FALSE
          OBVIOUS
        <5>2. proc[r].kind = "campaign" /\ proc' # proc
          BY <2>1, <2>6, <4>1, <5>1 DEF OnMutant, AtWork, InChild
        <5>3. ~CampaignDone(r)
          <6>1. CampaignDone(r) => proc'[r] \in {Finally(r), [Finally(r) EXCEPT !.body = "except"]}
            BY Typed DEF CampaignDone
          <6>2. Finally(r).pc \notin AtWork /\ [Finally(r) EXCEPT !.body = "except"].pc \notin AtWork
            BY Typed DEF Finally, FirstOfFinally, ProcessType, AtWork, InChild
          <6> QED
            BY <4>1, <6>1, <6>2
        <5>4. ~Interrupted(r) /\ ~Killed(r)
          <6>1. Interrupted(r) => proc'[r] = Unwound(r)
            BY Typed DEF Interrupted
          <6>2. Killed(r) => proc'[r].pc = "killed"
            BY Typed DEF Killed
          <6>3. Unwound(r).pc \notin AtWork
            BY <5>1, Typed DEF Unwound, Finally, FirstOfFinally, ProcessType, AtWork, InChild, Restoring
          <6> QED
            BY <4>1, <6>1, <6>2, <6>3 DEF AtWork, InChild
        <5> QED
          BY <1>4, <2>6, <5>1, <5>2, <5>3, <5>4
          DEF FoundryStep, FoundryRunChild, FoundryGroupExit, FoundryRecord, FoundryFailed, FoundryRestore,
              FoundryStart, FoundryPatched, FoundryBatch, FoundryEvaluate, FoundryRecorded, FoundryExit, IsFoundry,
              HardhatStep, HardhatRunChild, HardhatGroupExit, HardhatRecord, HardhatFailed, HardhatRestore,
              HardhatRefused, HardhatStart, HardhatVersioned, HardhatBaseline, HardhatBatch, HardhatEvaluate,
              HardhatRecorded, HardhatExit, HardhatProfile, IsHardhat,
              CampaignStep, CampaignRunChild, CampaignGroupExit, CampaignRestore, CampaignRefused, CampaignStart,
              CampaignPatched, CampaignEvaluate, CampaignTimeout, CampaignExit,
              RunChild, GroupExit, Restore, Spawned, Waited, Terminated, Returned, Reraised, Ignored, Opened, Written,
              Kind, At, Befalls, InterruptedInPopen, StartCompiler, Compile, Patch, EndCompiler, EndWrapper
      <4> QED
        BY <1>4, <2>1, <2>6, <4>1, <4>2
        DEF Conduct, Successor, Work, SameJob, OnMutant, OnCourse, AtWork, InChild, Stopping, Over
    <3>2. tree[proc[r].home]["target"] = Mutant(proc[r].batch)
      BY <1>1, <3>1
    <3>3. SUFFICES ASSUME Writers(r) PROVE tree'[proc[r].home]["target"] = tree[proc[r].home]["target"]
      BY <2>2, <2>6, <3>1, <3>2
    <3>4. ~Opened(r) /\ ~Written(r) /\ ~CampaignStart(r) /\ ~(\E ok \in BOOLEAN : HardhatProfile(r, ok))
      BY <3>1 DEF Opened, Written, CampaignStart, HardhatProfile, At, AtWork, InChild
    <3>5. PICK f \in Files, v \in Nat : Puts(r, f, v) /\ f = "pins"
      BY <2>6, <3>3, <3>4, Writing
    <3> QED
      BY <2>3, <2>6, <3>5, Putting DEF Home
  <2> QED
    BY <2>4, <2>5, <2>6
<1> QED
  BY <1>3, <1>4, AllConduct

-----------------------------------------------------------------------------
(* The user's files. *)

\* A checkout where a script was killed, or cut short in its finally block: nothing is promised of it.
Spoiled(c) == Abandoned(c) \/ Cut(c)

LEMMA SpoiledStays ==
  ASSUME RunnerInv, EvidenceInv, [Next]_vars, NEW c \in Trees, Spoiled(c)
  PROVE  Spoiled(c)'
<1>1. PICK r \in Runners : proc[r].home = c /\ (proc[r].leaked \/ proc[r].pc = "killed" \/ proc[r].cut)
  BY DEF Spoiled, Abandoned, Cut, Home
<1>2. proc'[r].home = c /\ (proc'[r].leaked \/ proc'[r].pc = "killed" \/ proc'[r].cut)
  BY <1>1, AllConduct DEF Successor, Over
<1> QED
  BY <1>2 DEF Spoiled, Abandoned, Cut, Home

\* Only the write that restores a file ends the duty to restore it.
LEMMA DutyKept ==
  ASSUME RunnerInv, EvidenceInv, NEW r \in Runners, NEW f, Owes(r, f), Successor(proc[r], proc'[r]),
         FoundryStep(r) \/ HardhatStep(r) \/ CampaignStep(r) \/ Befalls(r),
         ~(proc'[r].pc = "killed") /\ ~proc'[r].cut
  PROVE  \/ Owes(r, f)'
         \/ Written(r) /\ f = Head(proc[r].left)
<1>1. /\ Active(r) /\ f \in Backed(proc[r].kind)
      /\ proc[r].pc \in Finishing => \E i \in DOMAIN proc[r].left : proc[r].left[i] = f
  BY DEF Owes, Kind
<1>2. Owes(r, f)' <=> /\ proc'[r].pc \notin {"starting"} \cup Over /\ f \in Backed(proc'[r].kind)
                      /\ proc'[r].pc \in Finishing => \E i \in DOMAIN proc'[r].left : proc'[r].left[i] = f
  BY DEF Owes, Active, Kind
<1>3. CASE proc'[r] = proc[r]
  BY <1>1, <1>2, <1>3 DEF Active
<1>4. ASSUME proc'[r] # proc[r] PROVE Owes(r, f)' \/ (Written(r) /\ f = Head(proc[r].left))
  <2>1. /\ proc'[r].kind = proc[r].kind /\ proc'[r].pc # "starting" /\ Duty(proc[r], proc'[r])
        /\ proc[r].pc # "starting" /\ proc[r].left \in Seq(Files)
    BY <1>1, <1>4, Typed DEF Successor, Active, ProcessType
  <2>2. CASE proc'[r].pc \notin Finishing \cup Over
    BY <1>1, <1>2, <2>1, <2>2
  <2>3. CASE proc'[r].pc \in Finishing /\ proc'[r].left = Restored(proc[r].kind)
    BY <1>1, <1>2, <2>1, <2>3, Restorable DEF Finishing, Restoring, Over
  <2>4. CASE proc[r].pc \in Finishing /\ proc'[r].pc \in Finishing /\ proc'[r].left = proc[r].left
    BY <1>1, <1>2, <2>1, <2>4 DEF Finishing, Restoring, Over
  <2>5. CASE proc[r].pc = "writing" /\ proc'[r].pc = "restoring" /\ proc'[r].left = Tail(proc[r].left)
    <3>1. Written(r)
      <4>1. ~Killed(r) /\ ~Interrupted(r)
        <5>1. Killed(r) => proc'[r].pc = "killed"
          BY Typed DEF Killed
        <5>2. Interrupted(r) => proc'[r] = [proc[r] EXCEPT !.pc = "exited", !.status = 1, !.cut = TRUE]
          BY <2>5, Typed DEF Interrupted, Unwound, InChild, Restoring
        <5>3. Interrupted(r) => proc'[r].pc = "exited"
          BY <5>2, Typed DEF ProcessType
        <5> QED
          BY <2>5, <5>1, <5>3
      <4> QED
        BY <1>4, <2>5, <4>1
        DEF FoundryStep, FoundryRunChild, FoundryGroupExit, FoundryRecord, FoundryFailed, FoundryRestore,
            FoundryStart, FoundryPatched, FoundryBatch, FoundryEvaluate, FoundryRecorded, FoundryExit,
            HardhatStep, HardhatRunChild, HardhatGroupExit, HardhatRecord, HardhatFailed, HardhatRestore,
            HardhatRefused, HardhatStart, HardhatVersioned, HardhatBaseline, HardhatBatch, HardhatEvaluate,
            HardhatRecorded, HardhatExit, HardhatProfile,
            CampaignStep, CampaignRunChild, CampaignGroupExit, CampaignRestore, CampaignRefused, CampaignStart,
            CampaignPatched, CampaignRun, CampaignEvaluate, CampaignTimeout, CampaignDone, CampaignExit,
            RunChild, GroupExit, Record, Failed, Restore, Spawned, Waited, Terminated, Returned, Reraised,
            Appended, Locked, Replaced, Ignored, Opened,
            At, Befalls, InterruptedInPopen, StartCompiler, Compile, Patch, EndCompiler, EndWrapper
    <3>2. proc[r].left # <<>>
      BY <2>5 DEF RunnerInv, At
    <3>3. PICK i \in DOMAIN proc[r].left : proc[r].left[i] = f
      BY <1>1, <2>5 DEF Finishing, Restoring
    <3>4. CASE i = 1
      BY <2>1, <3>1, <3>2, <3>3, <3>4, Tails
    <3>5. CASE i # 1
      <4>1. i - 1 \in DOMAIN Tail(proc[r].left) /\ Tail(proc[r].left)[i - 1] = f
        BY <2>1, <3>2, <3>3, <3>5, Tails
      <4> QED
        BY <1>1, <1>2, <2>1, <2>5, <4>1 DEF Over
    <3> QED
      BY <3>4, <3>5
  <2>6. CASE proc[r].pc = "restoring" /\ proc[r].left = <<>>
    BY <1>1, <2>6 DEF Finishing, Restoring
  <2> QED
    BY <2>1, <2>2, <2>3, <2>4, <2>5, <2>6 DEF Duty
<1> QED
  BY <1>3, <1>4

\* FilesInv's two parts: what was backed up is the user's, and what is not the user's is owed.
BackedUp(c) == \A r \in Runners : Home(r) = c /\ Active(r) => \A f \in Backed(Kind(r)) : proc[r].backup[f] = User
Owed(c) == \A f \in Files : tree[c][f] # User => \E r \in Runners : Home(r) = c /\ Owes(r, f)

\* A script that starts finds nothing in its checkout that another one has yet to restore.
LEMMA StartsClean ==
  ASSUME RunnerInv, EvidenceInv, CastInv, LockInv, NEW r \in Runners,
         FoundryStart(r) \/ HardhatStart(r) \/ CampaignStart(r), Owed(Home(r)), NEW f \in Files
  PROVE  tree[Home(r)][f] = User
<1>1. SUFFICES ASSUME NEW q \in Runners, Home(q) = Home(r), Active(q) PROVE FALSE
  BY DEF Owed, Owes
<1>2. q # r
  BY <1>1 DEF Active, FoundryStart, HardhatStart, CampaignStart, At
<1>3. Kind(q) # "absent"
  BY <1>1 DEF CastInv, Active, At, Over
<1>4. CASE FoundryStart(r)
  BY <1>1, <1>2, <1>3, <1>4 DEF CastInv, FoundryStart, IsFoundry
<1>5. CASE HardhatStart(r) \/ CampaignStart(r)
  <2>1. Kind(r) \in Lockers /\ owner[Home(r)] = Nobody
    BY <1>5 DEF HardhatStart, CampaignStart, IsHardhat, IsCampaign, TreeUnowned, Lockers
  <2>2. Kind(q) \in Lockers
    <3>1. Kind(q) \in {"foundry", "hardhat", "campaign", "absent"}
      BY Typed DEF ProcessType, Kind
    <3> QED
      BY <1>1, <1>2, <1>3, <2>1, <3>1 DEF CastInv, Lockers
  <2> QED
    BY <1>1, <2>1, <2>2, CheckoutAssumption DEF LockInv
<1> QED
  BY <1>4, <1>5

\* Where a script starts to be active it starts.
LEMMA Starting ==
  ASSUME RunnerInv, EvidenceInv, NEW r \in Runners, FoundryStep(r) \/ HardhatStep(r) \/ CampaignStep(r) \/ Befalls(r),
         proc[r].pc = "starting", proc'[r].pc \notin {"starting"} \cup Over
  PROVE  /\ FoundryStart(r) \/ HardhatStart(r) \/ CampaignStart(r)
         /\ proc'[r].backup = tree[Home(r)] /\ proc'[r].pc = "spawning"
<1>1. FoundryStart(r) \/ HardhatStart(r) \/ CampaignStart(r)
  <2>1. \A e \in {0, 1, 2} : ~Exits(r, e)
    <3>1. \A e \in {0, 1, 2} : Exits(r, e) => proc'[r].pc = "exited"
      BY Typed DEF Exits
    <3> QED
      BY <3>1 DEF Over
  <2>2. ~Killed(r) /\ ~Interrupted(r) /\ proc' # proc
    <3>1. Killed(r) => proc'[r].pc = "killed"
      BY Typed DEF Killed
    <3> QED
      BY <3>1 DEF Interrupted, Interruptible, Over
  <2> QED
    BY <2>1, <2>2
    DEF FoundryStep, FoundryRunChild, FoundryGroupExit, FoundryRecord, FoundryFailed, FoundryRestore,
        FoundryPatched, FoundryBatch, FoundryEvaluate, FoundryRecorded, FoundryExit,
        HardhatStep, HardhatRunChild, HardhatGroupExit, HardhatRecord, HardhatFailed, HardhatRestore,
        HardhatRefused, HardhatVersioned, HardhatBaseline, HardhatBatch, HardhatEvaluate,
        HardhatRecorded, HardhatExit, HardhatProfile,
        CampaignStep, CampaignRunChild, CampaignGroupExit, CampaignRestore, CampaignRefused,
        CampaignPatched, CampaignRun, CampaignEvaluate, CampaignTimeout, CampaignDone, CampaignExit,
        RunChild, GroupExit, Record, Failed, Restore, Spawned, Waited, Terminated, Returned, Reraised,
        Appended, Locked, Replaced, Ignored, Opened, Written,
        At, Befalls, InterruptedInPopen, StartCompiler, Compile, Patch, EndCompiler, EndWrapper
<1>2. PICK job \in {"patch", "version"} :
        proc'[r] = [proc[r] EXCEPT !.pc = "spawning", !.job = job, !.backup = tree[Home(r)]]
  BY <1>1, Typed DEF FoundryStart, HardhatStart, CampaignStart
<1> QED
  BY <1>1, <1>2, Typed DEF ProcessType

LEMMA BackedUpKept ==
  ASSUME RunnerInv, EvidenceInv, CastInv, LockInv, NEW c \in Trees, BackedUp(c), Owed(c),
         NEW r \in Runners, FoundryStep(r) \/ HardhatStep(r) \/ CampaignStep(r) \/ Befalls(r), Conduct(r)
  PROVE  BackedUp(c)'
<1>1. SUFFICES ASSUME NEW q \in Runners, proc'[q].home = c, proc'[q].pc \notin {"starting"} \cup Over,
                      NEW f \in Backed(proc'[q].kind)
               PROVE  proc'[q].backup[f] = User
  BY DEF BackedUp, Home, Kind, Active
<1>2. Successor(proc[q], proc'[q])
  BY DEF Conduct, Apart, Others, Successor
<1>3. proc'[q].home = proc[q].home /\ proc'[q].kind = proc[q].kind
  BY <1>2 DEF Successor
<1>4. CASE proc[q].pc # "starting"
  <2>1. Active(q) /\ proc'[q].backup = proc[q].backup
    BY <1>1, <1>2, <1>4 DEF Successor, Active
  <2> QED
    BY <1>1, <1>3, <2>1 DEF BackedUp, Home, Kind
<1>5. CASE proc[q].pc = "starting"
  <2>1. q = r
    BY <1>1, <1>5 DEF Conduct, Apart, Others
  <2>2. /\ FoundryStart(r) \/ HardhatStart(r) \/ CampaignStart(r)
        /\ proc'[r].backup = tree[Home(r)] /\ Home(r) = c
    BY <1>1, <1>3, <1>5, <2>1, Starting DEF Home
  <2>3. f \in Files
    BY DEF Backed, Files
  <2> QED
    BY <2>1, <2>2, <2>3, StartsClean
<1> QED
  BY <1>4, <1>5

LEMMA OwedKept ==
  ASSUME RunnerInv, EvidenceInv, LeftInv, NEW c \in Trees, BackedUp(c), Owed(c), ~Spoiled(c)',
         NEW r \in Runners, FoundryStep(r) \/ HardhatStep(r) \/ CampaignStep(r) \/ Befalls(r), Conduct(r)
  PROVE  Owed(c)'
<1>1. SUFFICES ASSUME NEW f \in Files, tree'[c][f] # User
               PROVE  \E q \in Runners : proc'[q].home = c /\ Owes(q, f)'
  BY DEF Owed, Home
<1>2. proc'[r].home = proc[r].home
  BY DEF Conduct, Successor
<1>3. CASE proc[r].home = c /\ Owes(r, f)
  <2>1. proc'[r].pc # "killed" /\ ~proc'[r].cut
    BY <1>2, <1>3 DEF Spoiled, Abandoned, Cut, Home
  <2>2. ~(Written(r) /\ f = Head(proc[r].left))
    <3>1. SUFFICES ASSUME Written(r), f = Head(proc[r].left) PROVE FALSE
      OBVIOUS
    <3>2. ~Opened(r) /\ ~CampaignStart(r) /\ ~CampaignRun(r) /\ ~(\E ok \in BOOLEAN : HardhatProfile(r, ok))
      BY <3>1 DEF Written, Opened, CampaignStart, CampaignRun, HardhatProfile, At
    <3>3. ~Patch(r)
      <4>1. proc'[r].pc = "restoring"
        BY <3>1, Typed DEF Written, ProcessType
      <4> QED
        BY <3>1, <4>1 DEF Patch, Written, At
    <3>4. PICK v : Puts(r, f, v) /\ v = proc[r].backup[f] /\ f \in Backed(Kind(r))
      BY <3>1, <3>2, <3>3, Writing DEF Writers
    <3>5. Active(r)
      BY <3>1 DEF Written, Active, At, Over
    <3> QED
      BY <1>1, <1>3, <3>4, <3>5, Putting DEF BackedUp, Home
  <2> QED
    BY <1>2, <1>3, <2>1, <2>2, DutyKept DEF Conduct
<1>4. ASSUME NEW q \in Runners, q # r, proc[q].home = c, Owes(q, f)
      PROVE  \E p \in Runners : proc'[p].home = c /\ Owes(p, f)'
  <2>1. proc'[q] = proc[q]
    BY <1>4 DEF Conduct, Apart, Others
  <2> QED
    BY <1>4, <2>1 DEF Owes, Active, Kind
<1>5. CASE tree[c][f] # User
  BY <1>3, <1>4, <1>5 DEF Owed, Home
<1>6. CASE tree[c][f] = User
  <2>1. Writers(r)
    BY <1>1, <1>6, StepWrites
  <2>2. PICK g \in Files, v \in Nat :
          /\ Puts(r, g, v) /\ g \in Backed(Kind(r))
          /\ \/ (Opened(r) \/ Written(r)) /\ g = Head(proc[r].left)
             \/ g = "pins" /\ Patch(r)
             \/ g = "profile" /\ \E ok \in BOOLEAN : HardhatProfile(r, ok)
             \/ g = "config" /\ CampaignStart(r)
             \/ g = "target" /\ CampaignRun(r)
    BY <2>1, Writing
  <2>3. g = f /\ proc[r].home = c
    BY <1>1, <1>6, <2>2, Putting DEF Home
  <2>4. CASE CampaignStart(r)
    <3>1. proc'[r].pc = "spawning" /\ proc'[r].kind = proc[r].kind
      BY <2>4, Typed DEF CampaignStart, ProcessType
    <3> QED
      BY <1>2, <2>2, <2>3, <3>1 DEF Owes, Active, Kind, Finishing, Restoring, Over
  <2>5. CASE Opened(r) \/ Written(r)
    <3>1. Active(r) /\ proc[r].left # <<>>
      BY <2>5 DEF Opened, Written, RunnerInv, Active, At, Over
    <3>2. ~Patch(r) /\ ~CampaignStart(r) /\ ~CampaignRun(r) /\ ~(\E ok \in BOOLEAN : HardhatProfile(r, ok))
      <4>1. proc'[r].pc # proc[r].pc /\ proc[r].pc \in Restoring
        <5>1. CASE Opened(r)
          BY <5>1, Steered DEF Opened, PcType, Restoring, At
        <5>2. CASE Written(r)
          BY <5>2, Typed DEF Written, ProcessType, Restoring, At
        <5> QED
          BY <2>5, <5>1, <5>2
      <4> QED
        BY <4>1 DEF Patch, CampaignStart, CampaignRun, HardhatProfile, Restoring, At
    <3>3. g = proc[r].left[1] /\ 1 \in DOMAIN proc[r].left
      BY <2>2, <3>1, <3>2, NextLeft
    <3> QED
      BY <1>3, <2>2, <2>3, <3>1, <3>3 DEF Owes
  <2>6. CASE (\E ok \in BOOLEAN : HardhatProfile(r, ok)) \/ CampaignRun(r)
    <3>1. proc[r].pc \in {"selecting", "ready"}
      BY <2>6 DEF HardhatProfile, CampaignRun, At
    <3> QED
      BY <1>3, <2>2, <2>3, <3>1 DEF Owes, Active, Finishing, Restoring, Over
  <2>7. CASE Patch(r)
    <3>1. ~Gone(r) /\ proc' = proc
      BY <2>7 DEF Patch, Gone, NoGroup, Members
    <3>2. ~proc[r].leaked /\ proc[r].pc # "killed"
      BY <2>3, <3>1 DEF Spoiled, Abandoned, Home
    <3>3. proc[r].pc \in InChild \cup Stopping
      BY <3>1, <3>2, Settled
    <3> QED
      BY <1>3, <2>2, <2>3, <3>3 DEF Owes, Active, InChild, Stopping, Finishing, Restoring, Over
  <2> QED
    BY <2>2, <2>4, <2>5, <2>6, <2>7
<1> QED
  BY <1>5, <1>6

LEMMA FilesKept ==
  ASSUME RunnerInv, EvidenceInv, LeftInv, CastInv, LockInv, FilesInv, [Next]_vars
  PROVE  FilesInv'
<1>1. FilesInv <=> \A c \in Trees : ~Spoiled(c) => BackedUp(c) /\ Owed(c)
  BY DEF FilesInv, Spoiled, BackedUp, Owed
<1>2. FilesInv' <=> \A c \in Trees : ~Spoiled(c)' => BackedUp(c)' /\ Owed(c)'
  BY DEF FilesInv, Spoiled, BackedUp, Owed
<1>3. SUFFICES ASSUME NEW c \in Trees, ~Spoiled(c)'
               PROVE  BackedUp(c)' /\ Owed(c)'
  BY <1>2
<1>4. BackedUp(c) /\ Owed(c)
  BY <1>1, <1>3, SpoiledStays
<1>5. CASE proc' = proc /\ tree' = tree
  BY <1>4, <1>5 DEF BackedUp, Owed, Home, Active, Kind, Owes
<1>6. ASSUME NEW r \in Runners, FoundryStep(r) \/ HardhatStep(r) \/ CampaignStep(r) \/ Befalls(r), Conduct(r)
      PROVE  BackedUp(c)' /\ Owed(c)'
  BY <1>3, <1>4, <1>6, BackedUpKept, OwedKept
<1> QED
  BY <1>5, <1>6, AllConduct

LEMMA FilesShow ==
  ASSUME RunnerInv, FilesInv
  PROVE  UserFilesBack
<1>1. SUFFICES ASSUME NEW c \in Trees, Idle(c), ~Abandoned(c), ~Cut(c)
               PROVE  tree[c] = UserFiles
  BY DEF UserFilesBack
<1>2. \A f \in Files : tree[c][f] = User
  BY <1>1 DEF FilesInv, Owes, Active, Idle, Over
<1>3. tree[c] \in [Files -> Nat]
  BY DEF RunnerInv, TypeOK
<1> QED
  BY <1>2, <1>3 DEF UserFiles

-----------------------------------------------------------------------------
(* The shared summary. *)

\* A step that keeps a counting script's account as it is.
Tally(r) ==
  Counts(proc'[r]) =>
    /\ Counts(proc[r]) /\ Entered(proc'[r]) = Entered(proc[r])
    /\ \A b \in 1..Entered(proc[r]) : rows'[r].exit[b] = rows[r].exit[b]

\* Where the row of the batch under way is in the summary already.
Entering == {"recorded"} \cup Finishing

LEMMA Tallied ==
  ASSUME RunnerInv, EvidenceInv, NEW r \in Runners, NEW l, proc[r].pc \notin Over,
         proc'[r].kind = proc[r].kind, proc'[r].total = proc[r].total, proc'[r].status = proc[r].status,
         proc'[r].batch = proc[r].batch, proc'[r].body = proc[r].body, rows'[r].exit = rows[r].exit,
         proc'[r].pc = l,
         \/ l \in {"failing"} \cup Stopping \cup Over
         \/ /\ proc[r].pc \notin {"failing"} \cup Stopping
            /\ l \in Entering <=> proc[r].pc \in Entering
  PROVE  Tally(r)
<1>1. proc[r].status # 0
  BY Typed DEF Vouched, Course, Over
<1> QED
  BY <1>1 DEF Tally, Counts, OnCourse, Entered, Counted, Entering

\* The same of a step that only moves the program counter.
LEMMA SteeredTally ==
  ASSUME RunnerInv, EvidenceInv, NEW r \in Runners, NEW l \in PcType, Goto(r, l), rows'[r].exit = rows[r].exit,
         proc[r].pc \notin Over,
         \/ l \in {"failing"} \cup Stopping \cup Over
         \/ /\ proc[r].pc \notin {"failing"} \cup Stopping
            /\ l \in Entering <=> proc[r].pc \in Entering
  PROVE  Tally(r)
BY Steered, Tallied DEF Alike

LEMMA SharedTally ==
  ASSUME RunnerInv, EvidenceInv, NEW r \in Runners,
         RunChild(r) \/ GroupExit(r) \/ Appended(r) \/ Locked(r) \/ Failed(r) \/ Restore(r)
  PROVE  Tally(r)
<1>1. CASE RunChild(r) \/ GroupExit(r)
  <2>1. PICK l \in {"waiting", "draining", "reaping", "returned", "failing"} :
          /\ Goto(r, l) /\ (l \in {"waiting", "draining", "returned"} => proc[r].pc \in AtWork)
          /\ proc[r].pc \in AtWork \cup Stopping
    BY <1>1 DEF RunChild, GroupExit, Spawned, Waited, Terminated, Returned, Reraised, AtWork, InChild, Stopping, At
  <2>2. rows' = rows /\ l \in PcType /\ proc[r].pc \notin Over
    BY <1>1, <2>1 DEF RunChild, GroupExit, Spawned, Waited, Terminated, Returned, Reraised, PcType, InChild, Stopping,
                      AtWork, Over
  <2>3. \/ l \in {"failing"} \cup Stopping \cup Over
        \/ /\ proc[r].pc \notin {"failing"} \cup Stopping
           /\ l \in Entering <=> proc[r].pc \in Entering
    BY <2>1 DEF AtWork, InChild, Stopping, Entering, Finishing, Restoring
  <2> QED
    BY <2>1, <2>2, <2>3, SteeredTally
<1>2. CASE Appended(r)
  <2>1. rows'[r].exit = rows[r].exit
    BY <1>2, Typed DEF Appended
  <2> QED
    BY <1>2, <2>1, SteeredTally DEF Appended, At, PcType, Stopping, Over, Entering, Finishing, Restoring
<1>3. CASE Locked(r)
  <2>1. proc'[r] = [proc[r] EXCEPT !.pc = "replacing", !.history = summary]
    BY <1>3, Typed DEF Locked
  <2>2. Alike(proc[r], proc'[r]) /\ proc'[r].pc = "replacing"
    BY <2>1, Typed DEF ProcessType, Alike
  <2> QED
    BY <1>3, <2>2, Tallied DEF Locked, At, Alike, Stopping, Over, Entering, Finishing, Restoring
<1>4. CASE Failed(r)
  <2>1. proc'[r].body = "except" /\ proc'[r].status = proc[r].status
    BY <1>4, Typed DEF Failed, ProcessType
  <2>2. proc[r].status # 0
    BY <1>4, Typed DEF Failed, Vouched, Course, At
  <2> QED
    BY <2>1, <2>2 DEF Tally, Counts, OnCourse
<1>5. CASE Ignored(r) \/ Opened(r)
  <2>1. PICK l \in {"restoring", "writing"} : Goto(r, l)
    BY <1>5 DEF Ignored, Opened
  <2>2. rows' = rows /\ proc[r].pc \in {"ignoring", "restoring"}
    BY <1>5 DEF Ignored, Opened, At
  <2> QED
    BY <2>1, <2>2, SteeredTally DEF PcType, Stopping, Over, Entering, Finishing, Restoring
<1>6. CASE Written(r)
  <2>1. proc'[r] = [proc[r] EXCEPT !.pc = "restoring", !.left = Tail(proc[r].left)]
    BY <1>6, Typed DEF Written
  <2>2. Alike(proc[r], proc'[r]) /\ proc'[r].pc = "restoring"
    BY <2>1, Typed DEF ProcessType, Alike
  <2> QED
    BY <1>6, <2>2, Tallied DEF Written, At, Alike, Stopping, Over, Entering, Finishing, Restoring
<1> QED
  BY <1>1, <1>2, <1>3, <1>4, <1>5, <1>6 DEF Restore

LEMMA StartTally ==
  ASSUME RunnerInv, EvidenceInv, NEW r \in Runners,
         FoundryStart(r) \/ FoundryPatched(r) \/ FoundryBatch(r) \/ HardhatStart(r) \/ HardhatVersioned(r)
         \/ HardhatBaseline(r) \/ HardhatBatch(r)
  PROVE  Tally(r)
<1>1. rows' = rows /\ proc[r].pc \in {"starting", "returned", "ready", "baselining"}
  BY DEF FoundryStart, FoundryPatched, FoundryBatch, HardhatStart, HardhatVersioned, HardhatBaseline, HardhatBatch, At
<1>2. /\ proc'[r].kind = proc[r].kind /\ proc'[r].total = proc[r].total /\ proc'[r].status = proc[r].status
      /\ proc'[r].batch = proc[r].batch /\ proc'[r].body = proc[r].body
      /\ proc'[r].pc \in {"spawning", "ready", "failing", "selecting"}
  <2>1. CASE FoundryStart(r)
    <3>1. proc'[r] = [proc[r] EXCEPT !.pc = "spawning", !.job = "patch", !.backup = tree[Home(r)]]
      BY <2>1, Typed DEF FoundryStart
    <3> QED
      BY <3>1, Typed DEF ProcessType
  <2>2. CASE FoundryPatched(r)
    <3>1. proc'[r] = [proc[r] EXCEPT !.pc = IF child[r].outcome = "passed" THEN "ready" ELSE "failing"]
      BY <2>2, Typed DEF FoundryPatched, Goto
    <3> QED
      BY <3>1, Typed DEF ProcessType
  <2>3. CASE FoundryBatch(r)
    <3>1. proc'[r] = [proc[r] EXCEPT !.pc = "spawning", !.job = "batch", !.pending = TRUE, !.identity = source[Home(r)]]
      BY <2>3, Typed DEF FoundryBatch
    <3> QED
      BY <3>1, Typed DEF ProcessType
  <2>4. CASE HardhatStart(r)
    <3>1. proc'[r] = [proc[r] EXCEPT !.pc = "spawning", !.job = "version", !.backup = tree[Home(r)]]
      BY <2>4, Typed DEF HardhatStart
    <3> QED
      BY <3>1, Typed DEF ProcessType
  <2>5. CASE HardhatVersioned(r)
    <3>1. proc'[r] = [proc[r] EXCEPT !.pc = "selecting"]
      BY <2>5, Typed DEF HardhatVersioned, Goto
    <3> QED
      BY <3>1, Typed DEF ProcessType
  <2>6. CASE HardhatBaseline(r)
    <3>1. proc'[r] = [proc[r] EXCEPT !.pc = "ready", !.identity = source[Home(r)]]
      BY <2>6, Typed DEF HardhatBaseline
    <3> QED
      BY <3>1, Typed DEF ProcessType
  <2>7. CASE HardhatBatch(r)
    <3>1. proc'[r] = [proc[r] EXCEPT !.pc = IF source[Home(r)] = proc[r].identity THEN "spawning" ELSE "failing",
                                      !.job = "batch", !.pending = TRUE]
      BY <2>7, Typed DEF HardhatBatch
    <3> QED
      BY <3>1, Typed DEF ProcessType
  <2> QED
    BY <2>1, <2>2, <2>3, <2>4, <2>5, <2>6, <2>7
<1> QED
  BY <1>1, <1>2, Tallied DEF Stopping, Over, Entering, Finishing, Restoring

LEMMA EvaluateTally ==
  ASSUME RunnerInv, EvidenceInv, NEW r \in Runners, FoundryEvaluate(r) \/ HardhatEvaluate(r)
  PROVE  Tally(r)
<1>1. /\ proc[r].pc = "returned" /\ proc[r].kind # "campaign"
      /\ \E e : rows' = [rows EXCEPT ![r].exit[proc[r].batch] = e]
  BY DEF FoundryEvaluate, HardhatEvaluate, At, IsFoundry, IsHardhat, Kind
<1>2. /\ proc'[r].kind = proc[r].kind /\ proc'[r].total = proc[r].total /\ proc'[r].status = proc[r].status
      /\ proc'[r].batch = proc[r].batch /\ proc'[r].body = proc[r].body /\ proc'[r].pc = "appending"
  <2>1. CASE FoundryEvaluate(r)
    <3>1. proc'[r] = [proc[r] EXCEPT !.pc = "appending", !.row = proc[r].batch]
      BY <2>1, Typed DEF FoundryEvaluate
    <3> QED
      BY <3>1, Typed DEF ProcessType
  <2>2. CASE HardhatEvaluate(r)
    <3>1. proc'[r] = [proc[r] EXCEPT !.pc = "appending", !.row = proc[r].batch, !.drift = HardhatDrift(r)]
      BY <2>2, Typed DEF HardhatEvaluate
    <3> QED
      BY <3>1, Typed DEF ProcessType
  <2> QED
    BY <2>1, <2>2
<1>3. PICK e : rows'[r].exit = [rows[r].exit EXCEPT ![proc[r].batch] = e]
  <2>1. PICK e : rows' = [rows EXCEPT ![r].exit[proc[r].batch] = e]
    BY <1>1
  <2>2. rows'[r].exit = [rows[r].exit EXCEPT ![proc[r].batch] = e]
    BY <2>1, Typed
  <2> QED
    BY <2>2
<1>4. /\ proc[r].batch \in 0..Batches
      /\ \A b \in 1..(proc[r].batch - 1) : b \in (0..Batches) \ {proc[r].batch}
  <2>1. proc[r].batch \in 1..proc[r].total /\ proc[r].total \in 1..Batches
    BY <1>1, Typed DEF Kind
  <2> QED
    BY <2>1, CheckoutAssumption
<1>5. \A b \in 1..(proc[r].batch - 1) : rows'[r].exit[b] = rows[r].exit[b]
  BY <1>3, <1>4, OneExit, Typed
<1>6. proc[r].status # 0 /\ Entered(proc[r]) = proc[r].batch - 1
  BY <1>1, Typed DEF Vouched, Course, Entered, Counted, Finishing, Restoring
<1> QED
  BY <1>1, <1>2, <1>5, <1>6 DEF Tally, Counts, OnCourse, Entered, Counted, Finishing, Restoring, Stopping, Over

LEMMA RecordedTally ==
  ASSUME RunnerInv, EvidenceInv, NEW r \in Runners, FoundryRecorded(r) \/ HardhatRecorded(r)
  PROVE  Tally(r)
<1>1. /\ rows' = rows /\ proc[r].pc = "recorded"
      /\ \/ proc'[r] = [proc[r] EXCEPT !.pc = "ready", !.batch = proc[r].batch + 1, !.pending = FALSE]
         \/ proc'[r] = [Finally(r) EXCEPT !.pending = FALSE]
  BY Typed DEF FoundryRecorded, HardhatRecorded, At
<1>2. /\ proc'[r].kind = proc[r].kind /\ proc'[r].total = proc[r].total /\ proc'[r].status = proc[r].status
      /\ proc'[r].body = proc[r].body
      /\ \/ proc'[r].pc = "ready" /\ proc'[r].batch = proc[r].batch + 1
         \/ proc'[r].pc \in {"ignoring", "restoring"} /\ proc'[r].batch = proc[r].batch
  <2>1. CASE proc'[r] = [proc[r] EXCEPT !.pc = "ready", !.batch = proc[r].batch + 1, !.pending = FALSE]
    BY <2>1, Typed DEF ProcessType
  <2>2. CASE proc'[r] = [Finally(r) EXCEPT !.pending = FALSE]
    BY <2>2, Typed DEF ProcessType, Finally, FirstOfFinally
  <2> QED
    BY <1>1, <2>1, <2>2
<1>3. proc[r].status # 0 /\ proc[r].batch \in Nat
  BY <1>1, Typed DEF Vouched, Course
<1> QED
  BY <1>1, <1>2, <1>3 DEF Tally, Counts, OnCourse, Entered, Counted, Finishing, Restoring, Stopping, Over

LEMMA ProfileTally ==
  ASSUME RunnerInv, EvidenceInv, NEW r \in Runners, NEW ok \in BOOLEAN, HardhatProfile(r, ok)
  PROVE  Tally(r)
<1>1. rows' = rows /\ proc[r].pc = "selecting" /\ proc[r].status # 0
  BY Typed DEF HardhatProfile, At, Vouched, Course
<1>2. CASE ok
  <2>1. proc'[r] = [proc[r] EXCEPT !.pc = "baselining"]
    BY <1>2, Typed DEF HardhatProfile
  <2>2. Alike(proc[r], proc'[r]) /\ proc'[r].pc = "baselining"
    BY <2>1, Typed DEF ProcessType, Alike
  <2> QED
    BY <1>1, <2>2, Tallied DEF Alike, Stopping, Over, Entering, Finishing, Restoring
<1>3. CASE ~ok
  <2>1. proc'[r] = [Finally(r) EXCEPT !.body = "escape"]
    BY <1>3, Typed DEF HardhatProfile
  <2>2. proc'[r].body = "escape" /\ proc'[r].status = proc[r].status
    BY <2>1, Typed DEF ProcessType, Finally, FirstOfFinally
  <2> QED
    BY <1>1, <2>2 DEF Tally, Counts, OnCourse
<1> QED
  BY <1>2, <1>3

\* A run that ends with status 0 has recorded its last batch.
LEMMA ExitTally ==
  ASSUME RunnerInv, EvidenceInv, NEW r \in Runners, FoundryExit(r) \/ HardhatExit(r) \/ HardhatRefused(r)
  PROVE  Tally(r)
<1>1. PICK e \in {0, 1, 2} : Exits(r, e) /\ (e = 0 => FoundryExit(r) \/ HardhatExit(r))
  BY DEF FoundryExit, HardhatExit, HardhatRefused
<1>2. proc'[r] = [proc[r] EXCEPT !.pc = "exited", !.status = e] /\ rows' = rows
  BY <1>1, Typed DEF Exits
<1>3. /\ proc'[r].pc = "exited" /\ proc'[r].status = e /\ proc'[r].kind = proc[r].kind
      /\ proc'[r].total = proc[r].total
  BY <1>2, Typed DEF ProcessType
<1>4. CASE e # 0
  BY <1>3, <1>4 DEF Tally, Counts, OnCourse, Over
<1>5. CASE e = 0
  <2>1. /\ proc[r].pc = "restoring" /\ proc[r].kind \in Loggers /\ proc[r].body # "escape"
        /\ \A i \in DOMAIN rows[r].current : rows[r].exit[rows[r].current[i]] = 0
        /\ proc[r].kind = "foundry" \/ Len(rows[r].current) = proc[r].total
    <3>1. CASE FoundryExit(r)
      <4>1. Exits(r, IF proc[r].body = "escape" \/ rows[r].current = <<>> \/ Failing(r) THEN 1 ELSE 0)
        BY <3>1 DEF FoundryExit
      <4>2. proc[r].body # "escape" /\ ~Failing(r)
        <5>1. proc'[r].status = IF proc[r].body = "escape" \/ rows[r].current = <<>> \/ Failing(r) THEN 1 ELSE 0
          BY <4>1, Typed DEF Exits, ProcessType
        <5> QED
          BY <1>3, <1>5, <5>1
      <4> QED
        BY <3>1, <4>2 DEF FoundryExit, At, IsFoundry, Kind, Loggers, Failing
    <3>2. CASE HardhatExit(r)
      <4> DEFINE failing == \E i \in DOMAIN rows[r].current : rows[r].exit[rows[r].current[i]] # 0
      <4>1. Exits(r, IF proc[r].body = "escape" \/ HardhatMissing(r) \/ failing THEN 1 ELSE 0)
        BY <3>2 DEF HardhatExit
      <4>2. proc[r].body # "escape" /\ ~HardhatMissing(r) /\ ~failing
        <5> HIDE DEF failing
        <5>1. proc'[r].status = IF proc[r].body = "escape" \/ HardhatMissing(r) \/ failing THEN 1 ELSE 0
          BY <4>1, Typed DEF Exits, ProcessType
        <5> QED
          BY <1>3, <1>5, <5>1
      <4> QED
        BY <3>2, <4>2 DEF HardhatExit, At, IsHardhat, Kind, Loggers, HardhatMissing
    <3> QED
      BY <1>1, <1>5, <3>1, <3>2
  <2>2. proc[r].body = "try"
    <3>1. proc[r].body \in {"try", "except", "escape"}
      BY Typed DEF ProcessType
    <3> QED
      BY <2>1, <3>1, Condemned
  <2>3. OnCourse(proc[r]) /\ Len(rows[r].current) = proc[r].batch
    BY <2>1, <2>2, Typed DEF Vouched, Ledger, OnCourse, Counted, Listed, Evaluated, Restoring, Stopping, Over
  <2>4. proc[r].batch = proc[r].total
    BY <2>1, <2>3, Typed DEF Vouched, Ledger, Finishing, Restoring
  <2>5. proc[r].status # 0
    BY <2>1, Typed DEF Vouched, Course
  <2> QED
    BY <1>2, <1>3, <1>5, <2>1, <2>3, <2>4, <2>5 DEF Tally, Counts, Entered, Counted, Finishing, Restoring
<1> QED
  BY <1>4, <1>5

LEMMA BefallsTally ==
  ASSUME RunnerInv, EvidenceInv, NEW r \in Runners, Befalls(r)
  PROVE  Tally(r)
<1>1. CASE Interrupted(r) \/ InterruptedInPopen(r)
  <2>1. /\ proc'[r] \in {Unwound(r), [Unwound(r) EXCEPT !.leaked = TRUE]}
        /\ proc[r].pc \notin Over
    BY <1>1, Typed DEF Interrupted, InterruptedInPopen, Interruptible, At, Over
  <2>2. proc[r].status # 0
    BY <2>1, Typed DEF Vouched, Course, Over
  <2>3. /\ ~OnCourse(Unwound(r)) /\ Unwound(r).status # 0 /\ Unwound(r) \in ProcessType
    <3>1. proc[r] \in ProcessType
      BY Typed
    <3>2. CASE proc[r].pc \in InChild
      <4>1. Unwound(r) = [proc[r] EXCEPT !.pc = "terminating"]
        BY <3>2 DEF Unwound
      <4> QED
        BY <2>2, <3>1, <4>1 DEF ProcessType, OnCourse, Stopping
    <3>3. CASE proc[r].pc \in Finishing
      <4>1. Unwound(r) = [proc[r] EXCEPT !.pc = "exited", !.status = 1, !.cut = TRUE]
        BY <3>3 DEF Unwound, InChild, Finishing, Restoring
      <4>2. Unwound(r).pc = "exited" /\ Unwound(r).status = 1
        BY <3>1, <4>1 DEF ProcessType
      <4> QED
        BY <3>3, <4>2, UnwoundType DEF OnCourse, Finishing, Restoring, Over, Stopping
    <3>4. CASE proc[r].pc \notin InChild \cup Finishing /\ proc[r].body = "try"
      <4>1. Unwound(r) = [proc[r] EXCEPT !.pc = "failing", !.history = <<>>]
        BY <3>4 DEF Unwound, Finishing
      <4>2. <<>> \in Seq(Rows)
        OBVIOUS
      <4> QED
        BY <2>2, <3>1, <4>1, <4>2 DEF ProcessType, OnCourse
    <3>5. CASE proc[r].pc \notin InChild \cup Finishing /\ proc[r].body # "try"
      <4>1. Unwound(r) = [Finally(r) EXCEPT !.body = "escape", !.history = <<>>]
        BY <3>5 DEF Unwound, Finishing
      <4>2. <<>> \in Seq(Rows) /\ Finally(r) \in ProcessType /\ Finally(r).status = proc[r].status
        BY FinallyFields DEF Alike
      <4> QED
        BY <2>2, <4>1, <4>2 DEF ProcessType, OnCourse
    <3> QED
      BY <3>2, <3>3, <3>4, <3>5
  <2>4. ~OnCourse(proc'[r]) /\ proc'[r].status # 0
    BY <2>1, <2>3 DEF OnCourse, ProcessType
  <2> QED
    BY <2>4 DEF Tally, Counts
<1>2. CASE Killed(r)
  <2>1. proc'[r] = [proc[r] EXCEPT !.pc = "killed", !.history = <<>>] /\ proc[r].pc \notin Over
    BY <1>2, Typed DEF Killed
  <2>2. Alike(proc[r], proc'[r]) /\ proc'[r].pc = "killed"
    BY <2>1, Typed DEF ProcessType, Alike
  <2> QED
    BY <1>2, <2>1, <2>2, Tallied DEF Alike, Over, Killed
<1>3. CASE proc' = proc /\ rows' = rows
  BY <1>3 DEF Tally
<1> QED
  BY <1>1, <1>2, <1>3 DEF Befalls, StartCompiler, Compile, Patch, EndCompiler, EndWrapper

LEMMA StepTally ==
  ASSUME RunnerInv, EvidenceInv, NEW r \in Runners, FoundryStep(r) \/ HardhatStep(r) \/ CampaignStep(r) \/ Befalls(r),
         ~Replaced(r)
  PROVE  Tally(r)
<1>1. CASE FoundryStep(r)
  BY <1>1, SharedTally, StartTally, EvaluateTally, RecordedTally, ExitTally
  DEF FoundryStep, FoundryRunChild, FoundryGroupExit, FoundryRecord, FoundryFailed, FoundryRestore, Record
<1>2. CASE HardhatStep(r)
  BY <1>2, SharedTally, StartTally, EvaluateTally, RecordedTally, ExitTally, ProfileTally
  DEF HardhatStep, HardhatRunChild, HardhatGroupExit, HardhatRecord, HardhatFailed, HardhatRestore, Record
<1>3. CASE CampaignStep(r)
  <2>1. proc[r].kind = "campaign"
    BY <1>3 DEF CampaignStep, CampaignRunChild, CampaignGroupExit, CampaignRestore, CampaignRefused, CampaignStart,
                CampaignPatched, CampaignRun, CampaignEvaluate, CampaignTimeout, CampaignDone, CampaignExit,
                IsCampaign, Kind
  <2>2. proc'[r].kind = "campaign"
    BY <1>3, <2>1, CampaignConducts DEF Conduct, Successor
  <2> QED
    BY <2>2 DEF Tally, Counts, Loggers
<1> QED
  BY <1>1, <1>2, <1>3, BefallsTally

LEMMA OneMore ==
  ASSUME NEW S, NEW s \in Seq(S), NEW x \in S
  PROVE  /\ DOMAIN Append(s, x) = DOMAIN s \cup {Len(s) + 1} /\ Len(s) + 1 \notin DOMAIN s
         /\ \A i \in DOMAIN s : Append(s, x)[i] = s[i]
         /\ Append(s, x)[Len(s) + 1] = x
OBVIOUS

LEMMA SameAccount ==
  ASSUME NEW A, NEW s, NEW t, NEW e, NEW f, NEW n \in Nat, Account(A, s, e, n),
         \A i \in A : t[i] = s[i], \A b \in 1..n : f[b] = e[b]
  PROVE  Account(A, t, f, n)
BY DEF Account

LEMMA NextAccount ==
  ASSUME NEW A, NEW k, NEW s, NEW t, NEW e, NEW f, NEW n \in Nat, Account(A, s, e, n),
         \A i \in A : t[i] = s[i], \A b \in 1..n : f[b] = e[b],
         t[k].batch = n + 1, t[k].exit = f[n + 1]
  PROVE  Account(A \cup {k}, t, f, n + 1)
<1>1. /\ \A i \in A : t[i].batch \in 1..n /\ t[i].exit = f[t[i].batch]
      /\ \A b \in 1..n : \E i \in A : t[i].batch = b
      /\ \A i, j \in A : t[i].batch = t[j].batch => i = j
  BY DEF Account
<1>2. \A i \in A \cup {k} : t[i].batch \in 1..(n + 1) /\ t[i].exit = f[t[i].batch]
  BY <1>1
<1>3. \A b \in 1..(n + 1) : \E i \in A \cup {k} : t[i].batch = b
  <2>1. \A b \in 1..(n + 1) : b \in 1..n \/ b = n + 1
    OBVIOUS
  <2> QED
    BY <1>1, <2>1
<1>4. \A i, j \in A \cup {k} : t[i].batch = t[j].batch => i = j
  <2>1. \A i \in A : t[i].batch # n + 1
    BY <1>1
  <2> QED
    BY <1>1, <2>1
<1> QED
  BY <1>2, <1>3, <1>4 DEF Account

\* The rows of a script when one is added.
LEMMA RowsAdded ==
  ASSUME RunnerInv, NEW q \in Runners, NEW row \in Rows, summary' = Append(summary, row)
  PROVE  /\ RowsOf(q)' = RowsOf(q) \cup IF row.run = q THEN {Len(summary) + 1} ELSE {}
         /\ \A i \in RowsOf(q) : summary'[i] = summary[i]
         /\ summary'[Len(summary) + 1] = row
<1>1. summary \in Seq(Rows)
  BY DEF RunnerInv, TypeOK
<1> DEFINE new == Len(summary) + 1
<1>2. /\ DOMAIN summary' = DOMAIN summary \cup {new} /\ new \notin DOMAIN summary
      /\ \A i \in DOMAIN summary : summary'[i] = summary[i]
      /\ summary'[new] = row
  BY <1>1, OneMore
<1> HIDE DEF new
<1>3. RowsOf(q)' = {i \in DOMAIN summary' : summary'[i].run = q}
  BY DEF RowsOf
<1>4. RowsOf(q)' = RowsOf(q) \cup (IF row.run = q THEN {new} ELSE {})
  BY <1>2, <1>3 DEF RowsOf
<1> QED
  BY <1>2, <1>4 DEF RowsOf, new

\* Another script's row changes nothing that a script's own rows say.
LEMMA OthersBooked ==
  ASSUME RunnerInv, NEW q \in Runners, NEW n \in Nat, Booked(q, n),
         NEW row \in Rows, row.run # q, summary' = Append(summary, row), rows'[q].exit = rows[q].exit
  PROVE  Booked(q, n)'
<1>1. Account(RowsOf(q), summary', rows'[q].exit, n)
  <2>1. \A i \in RowsOf(q) : summary'[i] = summary[i]
    BY RowsAdded
  <2> QED
    BY <2>1, SameAccount DEF Booked
<1>2. RowsOf(q)' = RowsOf(q)
  <2>1. RowsOf(q)' = RowsOf(q) \cup IF row.run = q THEN {Len(summary) + 1} ELSE {}
    BY RowsAdded
  <2> QED
    BY <2>1
<1> QED
  BY <1>1, <1>2 DEF Booked

\* A script's own row is the next batch's.
LEMMA OwnBooked ==
  ASSUME RunnerInv, NEW r \in Runners, NEW n \in Nat, Booked(r, n),
         NEW row \in Rows, row.run = r, row.batch = n + 1, row.exit = rows[r].exit[n + 1],
         summary' = Append(summary, row), rows'[r].exit = rows[r].exit
  PROVE  Booked(r, n + 1)'
<1>1. PICK new : new = Len(summary) + 1
  OBVIOUS
<1>2. /\ RowsOf(r)' = RowsOf(r) \cup {new}
      /\ \A i \in RowsOf(r) : summary'[i] = summary[i]
      /\ summary'[new] = row
  BY <1>1, RowsAdded
<1>3. PICK log : log = summary'
  OBVIOUS
<1>4. /\ \A i \in RowsOf(r) : log[i] = summary[i]
      /\ log[new].batch = n + 1 /\ log[new].exit = rows[r].exit[n + 1]
  BY <1>2, <1>3
<1>5. Account(RowsOf(r), summary, rows[r].exit, n)
  BY DEF Booked
<1>6. Account(RowsOf(r) \cup {new}, log, rows[r].exit, n + 1)
  BY <1>4, <1>5, NextAccount
<1> QED
  BY <1>2, <1>3, <1>6 DEF Booked

LEMMA SameBooked ==
  ASSUME NEW q \in Runners, NEW n \in Nat, Booked(q, n), summary' = summary,
         \A b \in 1..n : rows'[q].exit[b] = rows[q].exit[b]
  PROVE  Booked(q, n)'
<1>1. Account(RowsOf(q), summary, rows'[q].exit, n)
  BY SameAccount DEF Booked
<1> QED
  BY <1>1 DEF Booked, RowsOf

LEMMA SummaryKept ==
  ASSUME RunnerInv, EvidenceInv, SummaryInv, [Next]_vars
  PROVE  SummaryInv'
<1>1. CASE proc' = proc /\ rows' = rows /\ summary' = summary
  BY <1>1 DEF SummaryInv, Booked, RowsOf
<1>2. ASSUME NEW r \in Runners, FoundryStep(r) \/ HardhatStep(r) \/ CampaignStep(r) \/ Befalls(r), Conduct(r)
      PROVE  SummaryInv'
  <2>1. SUFFICES ASSUME NEW q \in Runners, Counts(proc'[q]), NEW m \in Nat, m = Entered(proc'[q])
                 PROVE  Booked(q, m)'
    <3>1. ASSUME NEW q \in Runners, Counts(proc'[q])
          PROVE  Booked(q, Entered(proc[q]))'
      <4>1. Entered(proc'[q]) \in Nat
        <5>1. RunnerInv'
          BY StepKeeps
        <5>2. /\ proc'[q] \in ProcessType
              /\ proc'[q].kind # "campaign" => proc'[q].batch \in 1..proc'[q].total
          BY <5>1 DEF RunnerInv, TypeOK, Kind
        <5>3. proc'[q].batch \in 1..proc'[q].total /\ proc'[q].total \in 1..Batches
          BY <3>1, <5>2 DEF Counts, Loggers, ProcessType, BatchNumbers
        <5> QED
          BY <5>3 DEF Entered, Counted
      <4>2. PICK m \in Nat : m = Entered(proc'[q])
        BY <4>1
      <4>3. Booked(q, m)'
        BY <2>1, <3>1, <4>2
      <4> QED
        BY <4>2, <4>3 DEF Booked
    <3> QED
      BY <3>1 DEF SummaryInv
  <2>2. CASE ~Replaced(r)
    <3>1. summary' = summary
      BY <1>2, <2>2
      DEF FoundryStep, FoundryRunChild, FoundryGroupExit, FoundryRecord, FoundryFailed, FoundryRestore,
          FoundryStart, FoundryPatched, FoundryBatch, FoundryEvaluate, FoundryRecorded, FoundryExit,
          HardhatStep, HardhatRunChild, HardhatGroupExit, HardhatRecord, HardhatFailed, HardhatRestore,
          HardhatRefused, HardhatStart, HardhatVersioned, HardhatBaseline, HardhatBatch, HardhatEvaluate,
          HardhatRecorded, HardhatExit, HardhatProfile,
          CampaignStep, CampaignRunChild, CampaignGroupExit, CampaignRestore, CampaignRefused, CampaignStart,
          CampaignPatched, CampaignRun, CampaignEvaluate, CampaignTimeout, CampaignDone, CampaignExit,
          RunChild, GroupExit, Record, Failed, Restore, Spawned, Waited, Terminated, Returned, Reraised,
          Appended, Locked, Ignored, Opened, Written, Exits, Befalls, Interrupted, InterruptedInPopen, Killed,
          StartCompiler, Compile, Patch, EndCompiler, EndWrapper
    <3>2. Counts(proc[q]) /\ Entered(proc'[q]) = Entered(proc[q])
          /\ \A b \in 1..Entered(proc[q]) : rows'[q].exit[b] = rows[q].exit[b]
      <4>1. CASE q = r
        BY <1>2, <2>1, <2>2, <4>1, StepTally DEF Tally
      <4>2. CASE q # r
        BY <1>2, <2>1, <4>2 DEF Conduct, Apart, Others
      <4> QED
        BY <4>1, <4>2
    <3>3. Booked(q, m)
      BY <2>1, <3>2 DEF SummaryInv
    <3> QED
      BY <2>1, <3>1, <3>2, <3>3, SameBooked
  <2>3. CASE Replaced(r)
    <3>1. /\ proc[r].pc = "replacing" /\ summary' = Append(summary, SummaryRow(r)) /\ rows' = rows
          /\ proc'[r] = [proc[r] EXCEPT !.pc = "recorded", !.history = <<>>]
      BY <2>3, Typed DEF Replaced, RunnerInv, At
    <3>2. SummaryRow(r) \in Rows /\ SummaryRow(r).run = r /\ SummaryRow(r).batch = proc[r].row
          /\ SummaryRow(r).exit = rows[r].exit[proc[r].row]
      BY Typed DEF SummaryRow, Rows
    <3>3. CASE q # r
      <4>1. proc'[q] = proc[q] /\ Booked(q, m)
        BY <1>2, <2>1, <3>3 DEF Conduct, Apart, Others, SummaryInv
      <4>2. PICK row \in Rows : row = SummaryRow(r)
        BY <3>2
      <4> QED
        BY <3>1, <3>2, <3>3, <4>1, <4>2, OthersBooked
    <3>4. CASE q = r
      <4>1. Alike(proc[r], proc'[r]) /\ proc'[r].pc = "recorded"
        BY <3>1, Typed DEF ProcessType, Alike
      <4>2. proc[r].status # 0 /\ proc[r].batch \in Nat \ {0}
        <5>1. proc[r].kind # "campaign"
          BY <2>1, <3>4, <4>1 DEF Counts, Loggers, Alike
        <5>2. proc[r].batch \in 1..proc[r].total /\ proc[r].total \in 1..Batches
          BY <5>1, Typed DEF Kind
        <5> QED
          BY <3>1, <5>2, Typed DEF Vouched, Course
      <4>3. Counts(proc[r]) /\ OnCourse(proc[r])
        BY <2>1, <3>1, <3>4, <4>1, <4>2 DEF Counts, OnCourse, Alike, Stopping, Over
      <4>4. proc[r].row = proc[r].batch
        BY <3>1, <4>3, Typed DEF Vouched, Ledger, Counts
      <4>5. m = proc[r].batch /\ Entered(proc[r]) = m - 1
        BY <2>1, <3>1, <3>4, <4>1, <4>2 DEF Entered, Counted, Alike, Finishing, Restoring
      <4>6. PICK n \in Nat : n = m - 1 /\ m = n + 1
        BY <4>2, <4>5
      <4>7. Booked(r, n)
        BY <4>3, <4>5, <4>6 DEF SummaryInv
      <4>8. PICK row \in Rows : row = SummaryRow(r)
        BY <3>2
      <4>9. Booked(r, n + 1)'
        BY <3>1, <3>2, <4>4, <4>5, <4>6, <4>7, <4>8, OwnBooked
      <4> QED
        BY <3>4, <4>6, <4>9
    <3> QED
      BY <3>3, <3>4
  <2> QED
    BY <2>2, <2>3
<1> QED
  BY <1>1, <1>2, AllConduct

-----------------------------------------------------------------------------
(* The initial states, and the theorems. *)

LEMMA InitFields ==
  ASSUME Init
  PROVE  \E name \in Casts : \A r \in Runners :
           /\ proc[r].kind = KindIn(name, r) /\ proc[r].home = HomeIn(name, r)
           /\ proc[r].pc = (IF KindIn(name, r) = "absent" THEN "exited"
                            ELSE IF LateIn(name, r) THEN "appending" ELSE "starting")
           /\ proc[r].body = "try" /\ proc[r].batch = 1 /\ proc[r].left = <<>> /\ proc[r].backup = UserFiles
           /\ proc[r].row = (IF LateIn(name, r) THEN 1 ELSE 0) /\ ~proc[r].leaked /\ proc[r].status = -1
           /\ LateIn(name, r) => proc[r].kind = "foundry" /\ proc[r].total = 1
           /\ rows[r].current = <<>> /\ child[r].group = NoGroup
           /\ \A b \in BatchNumbers : /\ seen[r][b].inputs = {}
                                      /\ seen[r][b].ended = OutcomeIn(name, r)
           /\ seen[r] \in [BatchNumbers -> SeenType]
<1>1. PICK name \in Casts :
        /\ proc = [r \in Runners |-> ProcIn(name, r)]
        /\ child = [r \in Runners |-> [group |-> NoGroup, outcome |-> OutcomeIn(name, r)]]
        /\ seen = [r \in Runners |-> [b \in BatchNumbers |-> [inputs |-> {}, ended |-> OutcomeIn(name, r)]]]
  BY DEF Init
<1>2. SUFFICES ASSUME NEW r \in Runners
               PROVE  /\ proc[r].kind = KindIn(name, r) /\ proc[r].home = HomeIn(name, r)
                      /\ proc[r].pc = (IF KindIn(name, r) = "absent" THEN "exited"
                                       ELSE IF LateIn(name, r) THEN "appending" ELSE "starting")
                      /\ proc[r].body = "try" /\ proc[r].batch = 1 /\ proc[r].left = <<>> /\ proc[r].backup = UserFiles
                      /\ proc[r].row = (IF LateIn(name, r) THEN 1 ELSE 0) /\ ~proc[r].leaked /\ proc[r].status = -1
                      /\ LateIn(name, r) => proc[r].kind = "foundry" /\ proc[r].total = 1
                      /\ rows[r].current = <<>> /\ child[r].group = NoGroup
                      /\ \A b \in BatchNumbers : /\ seen[r][b].inputs = {}
                                                 /\ seen[r][b].ended = OutcomeIn(name, r)
                      /\ seen[r] \in [BatchNumbers -> SeenType]
  OBVIOUS
<1>3. proc[r] = ProcIn(name, r)
  BY <1>1
<1>4. /\ proc[r].kind = KindIn(name, r) /\ proc[r].home = HomeIn(name, r)
      /\ proc[r].pc = (IF KindIn(name, r) = "absent" THEN "exited"
                       ELSE IF LateIn(name, r) THEN "appending" ELSE "starting")
      /\ proc[r].body = "try" /\ proc[r].batch = 1 /\ proc[r].left = <<>> /\ proc[r].backup = UserFiles
      /\ proc[r].row = (IF LateIn(name, r) THEN 1 ELSE 0) /\ ~proc[r].leaked /\ proc[r].status = -1
      /\ proc[r].total = IF Alone(name) THEN Batches ELSE 1
  BY <1>3 DEF ProcIn
<1>5. LateIn(name, r) => proc[r].kind = "foundry" /\ proc[r].total = 1
  BY <1>4 DEF LateIn, KindIn, Alone
<1>6. rows[r].current = <<>> /\ child[r].group = NoGroup
  BY <1>1 DEF Init
<1>7. OutcomeIn(name, r) \in {"none", "passed"}
  BY DEF OutcomeIn
<1>8. /\ \A b \in BatchNumbers : seen[r][b].inputs = {} /\ seen[r][b].ended = OutcomeIn(name, r)
      /\ seen[r] \in [BatchNumbers -> SeenType]
  BY <1>1, <1>7 DEF SeenType
<1> QED
  BY <1>4, <1>5, <1>6, <1>8

LEMMA InitEvidence ==
  ASSUME Init
  PROVE  EvidenceInv
<1>1. PICK name \in Casts : \A r \in Runners :
        /\ proc[r].kind = KindIn(name, r)
        /\ proc[r].pc = (IF KindIn(name, r) = "absent" THEN "exited"
                         ELSE IF LateIn(name, r) THEN "appending" ELSE "starting")
        /\ proc[r].body = "try" /\ proc[r].batch = 1
        /\ proc[r].row = (IF LateIn(name, r) THEN 1 ELSE 0) /\ ~proc[r].leaked /\ proc[r].status = -1
        /\ LateIn(name, r) => proc[r].kind = "foundry" /\ proc[r].total = 1
        /\ rows[r].current = <<>>
        /\ \A b \in BatchNumbers : seen[r][b].ended = OutcomeIn(name, r)
        /\ seen[r] \in [BatchNumbers -> SeenType]
  BY InitFields
<1>2. SeenOK
  BY <1>1 DEF Init, SeenOK
<1>3. ASSUME NEW r \in Runners PROVE Vouched(r)
  <2>1. /\ proc[r].pc \in {"starting", "appending", "exited"} /\ proc[r].body = "try" /\ proc[r].batch = 1
        /\ ~proc[r].leaked /\ proc[r].status = -1 /\ rows[r].current = <<>> /\ proc[r].total \in 1..Batches
        /\ proc[r].pc = "appending" => /\ proc[r].kind = "foundry" /\ proc[r].row = 1
                                       /\ seen[r][1].ended = "passed"
    <3>1. proc[r].total \in 1..Batches
      BY InitHolds DEF RunnerInv, TypeOK, ProcessType, BatchNumbers
    <3>2. 1 \in BatchNumbers
      BY CheckoutAssumption DEF BatchNumbers
    <3> QED
      BY <1>1, <3>1, <3>2 DEF OutcomeIn
  <2>2. Course(proc[r]) /\ Fresh(proc[r])
    BY <2>1 DEF Course, Fresh, OnCourse, AtWork, InChild, Stopping, Over
  <2>3. Ledger(proc[r], rows[r], seen[r])
    BY <2>1 DEF Ledger, OnCourse, Counted, Listed, Evaluated, Finishing, Restoring, Passed, Stopping, Over
  <2>4. Blamed(proc[r], rows[r]) /\ Reported(proc[r], child[r], seen[r]) /\ Green(proc[r], rows[r], seen[r])
    BY <2>1 DEF Blamed, Reported, Green, InChild
  <2>5. Trials(proc[r], rows[r], seen[r])
    BY <2>1 DEF Trials, Finishing, Restoring, AtWork, InChild
  <2> QED
    BY <2>2, <2>3, <2>4, <2>5 DEF Vouched
<1> QED
  BY <1>2, <1>3 DEF EvidenceInv

LEMMA InitShared ==
  ASSUME Init
  PROVE  LockInv /\ LeftInv /\ TargetInv /\ CastInv /\ SummaryInv
<1>1. PICK name \in Casts : \A r \in Runners :
        /\ proc[r].kind = KindIn(name, r) /\ proc[r].home = HomeIn(name, r)
        /\ proc[r].pc = (IF KindIn(name, r) = "absent" THEN "exited"
                         ELSE IF LateIn(name, r) THEN "appending" ELSE "starting")
        /\ proc[r].left = <<>> /\ proc[r].batch = 1 /\ proc[r].status = -1
        /\ LateIn(name, r) => proc[r].kind = "foundry" /\ proc[r].total = 1
  BY InitFields
<1>2. LockInv
  BY <1>1 DEF LockInv, Kind, Active, Lockers, Over
<1>3. LeftInv
  BY <1>1 DEF LeftInv
<1>4. TargetInv
  BY <1>1 DEF TargetInv, AtWork, InChild
<1>5. CastInv
  <2>1. \A r \in Runners : Kind(r) = "absent" => At(r, "exited") /\ proc[r].status # 0
    BY <1>1 DEF Kind, At
  <2>2. ASSUME NEW r \in Runners, NEW q \in Runners \ {r}, Home(q) = Home(r)
        PROVE  /\ Kind(r) = "foundry" /\ At(r, "starting") => Kind(q) = "absent"
               /\ Kind(r) \in Lockers => Kind(q) # "foundry"
    <3>1. name \in CastNames /\ ("foundries" \in Casts => OtherTree # FirstTree)
      BY CastAssumption
    <3>2. CASE Alone(name)
      BY <1>1, <2>2, <3>2 DEF Kind, KindIn, Lockers
    <3>3. CASE name = "foundries"
      <4>1. Kind(r) = "foundry" /\ Kind(q) = "foundry"
        BY <1>1, <2>2, <3>3 DEF Kind, KindIn, Alone
      <4>2. At(r, "starting") => r = First
        BY <1>1, <3>3, <4>1 DEF At, LateIn, Kind
      <4>3. r = First => Home(q) # Home(r)
        <5>1. ASSUME r = First
              PROVE  Home(q) # Home(r)
          <6>1. OtherTree # FirstTree
            BY <3>1, <3>3
          <6>2. HomeIn(name, r) = FirstTree /\ HomeIn(name, q) = OtherTree
            BY <2>2, <3>3, <5>1 DEF HomeIn
          <6>3. Home(r) = HomeIn(name, r) /\ Home(q) = HomeIn(name, q)
            BY <1>1, <2>2 DEF Home
          <6> QED
            BY <6>1, <6>2, <6>3
        <5> QED
          BY <5>1
      <4> QED
        BY <2>2, <4>1, <4>2, <4>3 DEF Lockers
    <3>4. CASE name = "hardhats"
      BY <1>1, <2>2, <3>4 DEF Kind, KindIn, Alone, Lockers
    <3> QED
      BY <3>1, <3>2, <3>3, <3>4 DEF CastNames, Alone
  <2> QED
    BY <2>1, <2>2 DEF CastInv
<1>6. SummaryInv
  <2>1. SUFFICES ASSUME NEW r \in Runners, Counts(proc[r])
                 PROVE  Booked(r, Entered(proc[r]))
    BY DEF SummaryInv
  <2>2. Entered(proc[r]) = 0
    BY <1>1, <2>1 DEF Counts, OnCourse, Entered, Counted, Finishing, Restoring, Over
  <2>3. RowsOf(r) = {}
    <3>1. summary = <<>>
      BY DEF Init
    <3>2. DOMAIN summary = {}
      BY <3>1
    <3> QED
      BY <3>2 DEF RowsOf
  <2> QED
    BY <2>2, <2>3 DEF Booked, Account
<1> QED
  BY <1>2, <1>3, <1>4, <1>5, <1>6

LEMMA InitFiles ==
  ASSUME Init
  PROVE  FilesInv
<1>1. PICK name \in Casts :
        /\ proc = [r \in Runners |-> ProcIn(name, r)]
        /\ tree = [c \in Trees |-> IF name = "foundries" /\ c = OtherTree
                                   THEN [UserFiles EXCEPT !["pins"] = Run] ELSE UserFiles]
  BY DEF Init
<1>2. \A r \in Runners : proc[r].backup = UserFiles
  BY <1>1 DEF ProcIn
<1>3. \A kind : Backed(kind) \subseteq Files
  BY DEF Backed, Files
<1>4. \A c \in Trees : BackedUp(c)
  BY <1>2, <1>3 DEF BackedUp, UserFiles
<1>5. ASSUME NEW c \in Trees, NEW f \in Files, tree[c][f] # User
      PROVE  \E r \in Runners : Home(r) = c /\ Owes(r, f)
  <2>1. name = "foundries" /\ c = OtherTree /\ f = "pins"
    BY <1>1, <1>5 DEF UserFiles, User
  <2>2. PICK r \in Runners : r # First
    BY <2>1, CastAssumption
  <2>3. proc[r] = ProcIn(name, r)
    BY <1>1
  <2>4. KindIn(name, r) = "foundry" /\ HomeIn(name, r) = OtherTree /\ LateIn(name, r)
    BY <2>1, <2>2 DEF KindIn, HomeIn, LateIn, Alone
  <2>5. /\ proc[r].kind = KindIn(name, r) /\ proc[r].home = HomeIn(name, r)
        /\ proc[r].pc = (IF KindIn(name, r) = "absent" THEN "exited"
                         ELSE IF LateIn(name, r) THEN "appending" ELSE "starting")
    BY <2>3 DEF ProcIn
  <2>6. Kind(r) = "foundry" /\ Home(r) = OtherTree /\ proc[r].pc = "appending"
    BY <2>4, <2>5 DEF Kind, Home
  <2> QED
    BY <2>1, <2>6 DEF Owes, Active, Backed, Finishing, Restoring, Over
<1> QED
  BY <1>4, <1>5 DEF FilesInv, BackedUp

\* The inductive invariant of the scripts.
ScriptsInv ==
  /\ RunnerInv /\ EvidenceInv
  /\ LockInv /\ LeftInv /\ TargetInv /\ CastInv /\ FilesInv /\ SummaryInv

(* In every reachable state each script's evidence, backup, lock, summary rows and files are what the
   invariant says, for any number of scripts, checkouts, batches and faults: the locks before the
   backup, the finally blocks and write_json under the summary's lock. *)
THEOREM ScriptsInvariant == Spec => []ScriptsInv
<1>1. Init => ScriptsInv
  BY InitHolds, InitEvidence, InitShared, InitFiles DEF ScriptsInv
<1>2. ScriptsInv /\ [Next]_vars => ScriptsInv'
  BY StepKeeps, EvidenceKept, LockKept, LeftKept, TargetKept, CastKept, FilesKept, SummaryKept DEF ScriptsInv
<1> QED
  BY <1>1, <1>2, PTL DEF Spec

(* The user's pins, profile, config and contracts are back in a checkout between scripts (the backup
   under the lock, and the restore in the finally block), unless a script there was killed, cut short
   in its finally block, or left a child behind. *)
THEOREM FilesComeBack == Spec => []UserFilesBack
<1>1. ScriptsInv => UserFilesBack
  BY FilesShow DEF ScriptsInv
<1> QED
  BY <1>1, ScriptsInvariant, PTL

(* Status 0 of a runner means that each batch's process passed, for Hardhat on the baseline's sources;
   status 0 of a campaign means that each mutant failed an assertion of a suite that is green on the
   baseline, and that its compilers read nothing but that mutant (run_child, the identity check before
   and after a batch, and the group kill before a restore). *)
THEOREM GreenMeansPassed == Spec => []GreenIsReal
<1>1. ScriptsInv => GreenIsReal
  <2>1. SUFFICES ASSUME ScriptsInv, NEW r \in Runners, proc[r].status = 0, NEW b \in 1..proc[r].total
                 PROVE  /\ seen[r][b].ended = (IF Kind(r) = "campaign" THEN "asserted" ELSE "passed")
                        /\ Kind(r) = "hardhat" => \A i \in seen[r][b].inputs : i.source = proc[r].identity
                        /\ Kind(r) = "campaign" => /\ TestOf(b) \in proc[r].based /\ seen[r][b].inputs # {}
                                                   /\ \A i \in seen[r][b].inputs : i.target = Mutant(b)
    BY DEF GreenIsReal
  <2>2. Green(proc[r], rows[r], seen[r])
    BY <2>1, Typed DEF ScriptsInv, Vouched
  <2>3. Kind(r) \in {"foundry", "hardhat", "campaign"}
    <3>1. Kind(r) \in {"foundry", "hardhat", "campaign", "absent"}
      BY <2>1, Typed DEF ScriptsInv, ProcessType, Kind
    <3> QED
      BY <2>1, <3>1 DEF ScriptsInv, CastInv
  <2> QED
    BY <2>1, <2>2, <2>3 DEF Green, Caught, Passed, Loggers, Kind
<1> QED
  BY <1>1, ScriptsInvariant, PTL

\* As many places as batches, when each batch has one of its own.
LEMMA OnePlaceEach ==
  ASSUME NEW A, NEW s, NEW e, NEW n \in Nat, Account(A, s, e, n)
  PROVE  Cardinality(A) = n
<1> DEFINE f == [b \in 1..n |-> CHOOSE i \in A : s[i].batch = b]
<1>1. \A b \in 1..n : f[b] \in A /\ s[f[b]].batch = b
  BY DEF Account
<1>2. \A i \in A : s[i].batch \in 1..n /\ f[s[i].batch] = i
  BY <1>1 DEF Account
<1>3. f \in [1..n -> A]
  BY <1>1
<1> HIDE DEF f
<1>4. \A a, b \in 1..n : f[a] = f[b] => a = b
  BY <1>1
<1>5. \A i \in A : \E b \in 1..n : f[b] = i
  BY <1>2
<1>6. f \in Bijection(1..n, A)
  BY <1>3, <1>4, <1>5 DEF Bijection, Injection, Surjection, IsInjective
<1> QED
  BY <1>6, FS_CountingElements DEF ExistsBijection

(* Status 0 of a runner means that the shared summary has one row of each of its batches and no failure
   among them, whoever else writes to it (write_json re-reads the summary under its lock). *)
THEOREM GreenMeansRecorded == Spec => []GreenIsRecorded
<1>1. ScriptsInv => GreenIsRecorded
  <2>1. SUFFICES ASSUME ScriptsInv, NEW r \in Runners, Summarised(r)
                 PROVE  /\ Cardinality(RowsOf(r)) = proc[r].total
                        /\ \A b \in 1..proc[r].total : \E i \in RowsOf(r) : summary[i].batch = b
                        /\ \A i \in RowsOf(r) : summary[i].exit = 0
    BY DEF GreenIsRecorded
  <2>2. Counts(proc[r]) /\ Entered(proc[r]) = proc[r].total
    BY <2>1 DEF Summarised, Counts, Entered, Loggers
  <2>3. Account(RowsOf(r), summary, rows[r].exit, proc[r].total)
    BY <2>1, <2>2 DEF ScriptsInv, SummaryInv, Booked
  <2>4. proc[r].total \in Nat
    BY <2>1, Typed DEF ScriptsInv
  <2>5. Cardinality(RowsOf(r)) = proc[r].total
    BY <2>3, <2>4, OnePlaceEach
  <2>6. \A b \in 1..proc[r].total : rows[r].exit[b] = 0
    BY <2>1, Typed DEF ScriptsInv, Vouched, Green, Summarised, Loggers
  <2> QED
    BY <2>3, <2>5, <2>6 DEF Account
<1> QED
  BY <1>1, ScriptsInvariant, PTL
=============================================================================
