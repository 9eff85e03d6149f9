------------------------------ MODULE QueueCodec ------------------------------
(***************************************************************************)
(* lib/check_ticket_queue_codec.py: the ticket queue packs several lanes in *)
(* a word, so no file may index, push to or pop from it, nor from a name    *)
(* that stands for it.                                                      *)
(***************************************************************************)
EXTENDS Naturals, Sequences, FiniteSets, Rounds

CONSTANTS
  StorageNames,          \* storage pointers of a file
  MaxDeclared     \* bound: declarations of a file

ASSUME QueueCodecAssumption == MaxDeclared \in Nat /\ IsFiniteSet(StorageNames)

VARIABLE queue    \* a file's declarations, whether it names ticketQueue, its native operations, the verdict

\* name = ticketQueue[..]; a uint256[] storage parameter; uint256[] storage name = from;
Declarations ==
  [kind : {"direct", "parameter"}, to : StorageNames, from : {"queue"}] \cup [kind : {"alias"}, to : StorageNames, from : StorageNames]

QueueIdle == [declared |-> <<>>, named |-> FALSE, native |-> {}, verdict |-> "none"]
QueueCodecIdle == queue = QueueIdle

QueueDeclarations == {queue.declared[i] : i \in DOMAIN queue.declared}

\* Storage parameters count only in a file that names the queue.
Seeds ==
  {d.to : d \in {d \in QueueDeclarations : d.kind = "direct" \/ (d.kind = "parameter" /\ queue.named)}}

OnePass(names) == names \cup {d.to : d \in {d \in QueueDeclarations : d.kind = "alias" /\ d.from \in names}}

\* Mutant: the declarations are gone through once.
QueueNamesOnce == OnePass(Seeds)

\* Passes until nothing is added.
QueueNames == Grown(Seeds, [names \in SUBSET StorageNames |-> OnePass(names)], Cardinality(StorageNames))

Declare(d) ==
  /\ queue.verdict = "none" /\ Len(queue.declared) < MaxDeclared /\ queue.native = {}
  /\ queue' = [queue EXCEPT !.declared = Append(@, d), !.named = @ \/ d.kind = "direct"]

NameQueue ==
  /\ queue.verdict = "none" /\ ~queue.named /\ queue.declared = <<>>
  /\ queue' = [queue EXCEPT !.named = TRUE]

\* Each operation is looked for by itself, so a file with one is enough.
Operate(name) ==
  /\ queue.verdict = "none" /\ queue.declared # <<>> /\ queue.native = {}
  /\ queue' = [queue EXCEPT !.native = {name}]

Violations ==
  /\ queue.verdict = "none" /\ queue.native # {}
  /\ queue' = [queue EXCEPT !.verdict = IF queue.native \cap QueueNames = {} THEN "pass" ELSE "fail"]

QueueCodecNext ==
  \/ \E d \in Declarations : Declare(d)
  \/ NameQueue
  \/ \E name \in StorageNames : Operate(name)
  \/ Violations

\* A chain of declarations from the queue to a name.
Stands(name) ==
  \E chain \in UNION {[1..n -> DOMAIN queue.declared] : n \in 1..Len(queue.declared)} :
    LET D(i) == queue.declared[chain[i]]
    IN /\ D(1).kind = "direct" \/ (D(1).kind = "parameter" /\ queue.named)
       /\ \A i \in 2..Len(chain) : D(i).kind = "alias" /\ D(i).from = D(i - 1).to
       /\ D(Len(chain)).to = name

(* "Native element operations on the logical-lane ticket queue and its aliases": a passing file operates on
   no name that a chain of declarations, in any order, makes stand for the queue, and none that a caller
   of the same file may have passed it as. *)
NoNativeOperation ==
  queue.verdict = "pass" => \A name \in queue.native : ~Stands(name)
=============================================================================
