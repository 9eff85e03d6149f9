-------------------------------- MODULE Census --------------------------------
(***************************************************************************)
(* The storage census: logs of slots that transactions created or cleared,   *)
(* counted per root variable, and the labels the counts are put under.       *)
(***************************************************************************)
EXTENDS Integers, Sequences, SequencesExt, FiniteSets, FiniteSetsExt, Rounds, Totals

CONSTANTS
  Slots,      \* slots of the census
  RootOf,     \* the root variable of each
  Scenarios,  \* census tests
  Window,     \* days of a window of the churn table
  MaxTxs,     \* bound: transactions of all runs
  MaxRuns,    \* bound: logged runs
  Widths,     \* sizes, in bytes, of a layout's value types
  Lengths     \* lengths of its fixed arrays

ASSUME CensusAssumption ==
  /\ IsFiniteSet(Slots) /\ DOMAIN RootOf = Slots
  /\ Window \in Nat \ {0}
  /\ Widths \subseteq 1..32 /\ Lengths \subseteq Nat \ {0}

VARIABLES
  runs,   \* the runs, oldest first: slots set at the start and now, log, and what was created again
  layout  \* a contract's storage: its variables in order

-----------------------------------------------------------------------------
(* The runs and their logs: a line for each slot a transaction leaves set that it found clear, or clear that
   it found set. *)

Payers == {"protocol", "player"}

NewRun(scenario, set) ==
  [scenario |-> scenario, start |-> set, set |-> set, txs |-> 0, log |-> <<>>, cleared |-> {},
   again |-> [s \in Slots |-> 0]]

Event(run, s, payer) ==
  [slot |-> s, seq |-> run.txs, payer |-> payer, kind |-> IF s \in run.set THEN "CLEAR" ELSE "CREATE"]

Transact(run, changed, payer) ==
  [run EXCEPT !.txs = @ + 1, !.set = (@ \ changed) \cup (changed \ @),
              !.log = @ \o SetToSeq({Event(run, s, payer) : s \in changed}),
              !.cleared = @ \cup (changed \cap run.set),
              !.again = [s \in Slots |-> @[s] + IF s \in (changed \ run.set) \cap run.cleared THEN 1 ELSE 0]]

RunsNext ==
  \/ /\ Len(runs) < MaxRuns
     /\ \E scenario \in Scenarios, set \in SUBSET Slots : runs' = Append(runs, NewRun(scenario, set))
  \/ /\ runs # <<>> /\ Total([i \in DOMAIN runs |-> runs[i].txs]) < MaxTxs
     /\ \E changed \in (SUBSET Slots) \ {{}}, payer \in Payers :
          runs' = [runs EXCEPT ![Len(runs)] = Transact(@, changed, payer)]

-----------------------------------------------------------------------------
(* The aggregator.                                                           *)

\* Mutant: every run that logged a scenario is counted.
EveryLine == {i \in DOMAIN runs : runs[i].txs > 0}

\* Of the runs that logged a scenario only the newest is read.
Parsed == {i \in DOMAIN runs : runs[i].txs > 0 /\ \A j \in (i + 1)..Len(runs) :
                                  runs[j].txs > 0 => runs[j].scenario # runs[i].scenario}

None == [creates |-> 0, clears |-> 0, recreates |-> 0, protocol |-> 0, player |-> 0]

\* Mutant: what one scenario cleared is remembered in the next.
ClearedBefore(count, run) == [rows |-> count.rows, cleared |-> count.cleared]

Fresh(count, run) == [rows |-> count.rows, cleared |-> {}]

\* A create is the payer's too, and one again if it is.
Created(row, payer, again) ==
  [row EXCEPT !.creates = @ + 1, ![payer] = @ + 1, !.recreates = @ + IF again THEN 1 ELSE 0]

\* One event: a create after a clear in an earlier transaction is one again.
Counted(count, e) ==
  LET root == RootOf[e.slot]
      again == \E c \in count.cleared : c[1] = e.slot /\ c[2] < e.seq
  IN IF e.kind = "CREATE"
     THEN [count EXCEPT !.rows[root] = Created(@, e.payer, again)]
     ELSE [rows |-> [count.rows EXCEPT ![root].clears = @ + 1],
           cleared |-> {c \in count.cleared : c[1] # e.slot} \cup {<<e.slot, e.seq>>}]

\* A run's events are counted in their order, and only if it is read.
CountedRun(count, i) ==
  IF i \in Parsed THEN LET log == runs[i].log IN Scanned(Counted, Fresh(count, runs[i]), log)[Len(log)]
  ELSE count

NothingCounted == [rows |-> [r \in Range(RootOf) |-> None], cleared |-> {}]

Aggregated == Scanned(CountedRun, NothingCounted, [i \in DOMAIN runs |-> i])[Len(runs)].rows

\* The churn table of a run: creates of a root in windows of days, a day for each transaction here.
Windows(run, root) ==
  [b \in {d \in 0..run.txs : d % Window = 0} |->
     Cardinality({i \in DOMAIN run.log : /\ run.log[i].kind = "CREATE" /\ RootOf[run.log[i].slot] = root
                                         /\ b <= run.log[i].seq /\ run.log[i].seq < b + Window})]

-----------------------------------------------------------------------------
(* Layouts, as the compiler lays them out.                                   *)

Scalar(bytes) == [kind |-> "value", bytes |-> bytes]
SlotsOf(type) == Max({1, (type.bytes + 31) \div 32})

\* A member starts a slot if it is no value, if the one before is none, or if it does not fit.
Field(members, type) ==
  LET p == Last(members)
      end == p.offset + p.type.bytes
  IN IF members = <<>> THEN [slot |-> 0, offset |-> 0, type |-> type]
     ELSE IF type.kind = "value" /\ p.type.kind = "value" /\ end + type.bytes <= 32
     THEN [slot |-> p.slot, offset |-> end, type |-> type]
     ELSE [slot |-> p.slot + SlotsOf(p.type), offset |-> 0, type |-> type]

LaidOut(members, type) == Append(members, Field(members, type))
Fields(types) == Scanned(LaidOut, <<>>, types)[Len(types)]

Struct(types) ==
  LET members == Fields(types)
  IN [kind |-> "struct", members |-> members, bytes |-> 32 * (Last(members).slot + SlotsOf(Last(members).type))]

Array(base, n) ==
  [kind |-> "array", base |-> base,
   bytes |-> 32 * IF base.bytes < 32 THEN (n + (32 \div base.bytes) - 1) \div (32 \div base.bytes) ELSE n * SlotsOf(base)]

Root(kind, type) == [kind |-> kind, bytes |-> 32, value |-> type]

Scalars == {Scalar(b) : b \in Widths}
Flat == Scalars \cup {Array(v, n) : v \in Scalars, n \in Lengths}
Structs == {Struct(types) : types \in Flat \X Flat} \cup {Struct(types) : types \in Scalars \X Scalars \X Scalars}
Nested == {Array(s, n) : s \in Structs, n \in Lengths} \cup {Struct(<<v, s>>) : v \in Scalars, s \in Structs}
Variables == Flat \cup Structs \cup Nested

LayoutNext ==
  /\ layout = <<>>
  /\ \E first \in Scalars, type \in Variables :
       layout' \in {<<first, type>>, <<first, Root("mapping", type)>>, <<first, Root("dynamic_array", type)>>}

\* by_slot: the variables a slot holds a part of.
BySlot(vars, slot) ==
  {i \in DOMAIN vars : /\ vars[i].slot <= slot
                       /\ slot < vars[i].slot + Max({1, (vars[i].offset + vars[i].type.bytes + 31) \div 32})}

\* Mutant: a word of an array of structs is taken for an element.
WordIsElement(base, word) == [at |-> word, rest |-> 0]

Element(base, word) == [at |-> word \div SlotsOf(base), rest |-> word % SlotsOf(base)]

\* One level of descend_word: a struct or an array, and what is below it.
WordNames(type, word, Below(_, _)) ==
  CASE type.kind = "struct" ->
         LET over == BySlot(type.members, word)
             best == type.members[CHOOSE i \in over :
                                    \A j \in over : type.members[i].offset <= type.members[j].offset]
         IN <<over>> \o Below(best.type, word - best.slot)
    [] type.kind = "array" ->
         IF type.base.bytes < 32 THEN <<{word}>>
         ELSE <<{Element(type.base, word).at}>> \o Below(type.base, Element(type.base, word).rest)
    [] OTHER -> <<>>

NoNames(type, word) == <<>>
FlatNames(type, word) == WordNames(type, word, NoNames)
MemberNames(type, word) == WordNames(type, word, FlatNames)

\* descend_word: the names of what is at a word of an in-place type, outermost first.
DescendWord(type, word) == WordNames(type, word, MemberNames)

\* resolve: the variables at a slot and, of one of more than a slot or of structs, what is inside.
Resolve(slot) ==
  LET vars == Fields(layout)
      over == BySlot(vars, slot)
      var == vars[CHOOSE i \in over : TRUE]
  IN IF Cardinality(over) > 1 THEN <<over>> ELSE <<over>> \o DescendWord(var.type, slot - var.slot)

\* A hop goes to a word of a mapping's value, or of an element of a list.
Hop(type, n) ==
  IF type.kind = "dynamic_array" /\ type.value.bytes < 32 THEN <<>>
  ELSE DescendWord(type.value, IF type.kind = "dynamic_array" THEN n % SlotsOf(type.value) ELSE n)

CensusIdle == runs = <<>> /\ layout = <<>>

CensusNext ==
  \/ layout = <<>> /\ RunsNext /\ UNCHANGED layout
  \/ runs = <<>> /\ LayoutNext /\ UNCHANGED runs

-----------------------------------------------------------------------------
(* Properties.                                                               *)

(* For each root the census counts, over the newest log of every scenario and no other, as many creates
   less clears as it has more slots set now; the creates by payer; every slot created that an earlier
   transaction of the same run cleared; and its windows have all its creates. *)
CensusExact ==
  LET counted == Aggregated
      newest == {i \in DOMAIN runs : runs[i].txs > 0 /\ ~\E j \in DOMAIN runs :
                                       j > i /\ runs[j].txs > 0 /\ runs[j].scenario = runs[i].scenario}
  IN \A root \in Range(RootOf) :
       LET row == counted[root]
           own == {s \in Slots : RootOf[s] = root}
       IN /\ row.creates + Total([i \in newest |-> Cardinality(runs[i].start \cap own)])
               = row.clears + Total([i \in newest |-> Cardinality(runs[i].set \cap own)])
          /\ row.recreates = Total([i \in newest |-> Total([s \in own |-> runs[i].again[s]])])
          /\ row.protocol + row.player = row.creates
          /\ row.creates = Total([i \in newest |-> Total(Windows(runs[i], root))])

\* Where the values of a type are: the slot of each, and the names to it.
Leaves(type, slot, Below(_, _)) ==
  CASE type.kind = "struct" ->
         UNION {{[l EXCEPT !.names = <<i>> \o @]
                 : l \in Below(type.members[i].type, slot + type.members[i].slot)} : i \in DOMAIN type.members}
    [] type.kind = "array" /\ type.base.bytes >= 32 ->
         UNION {{[l EXCEPT !.names = <<i>> \o @] : l \in Below(type.base, slot + i * SlotsOf(type.base))}
                : i \in 0..((type.bytes \div 32) \div SlotsOf(type.base) - 1)}
    [] type.kind = "array" /\ type.base.bytes < 32 ->
         {[slot |-> slot + i, names |-> <<i>>] : i \in 0..(type.bytes \div 32 - 1)}
    [] OTHER -> {[slot |-> slot, names |-> <<>>]}

\* The types of a layout nest three deep.
ValueLeaf(type, slot) == {[slot |-> slot, names |-> <<>>]}
FlatLeaves(type, slot) == Leaves(type, slot, ValueLeaf)
MemberLeaves(type, slot) == Leaves(type, slot, FlatLeaves)
LayoutLeaves(type, slot) == Leaves(type, slot, MemberLeaves)

\* A label names all of a set of values, each under one name of every step.
Named(label, values) ==
  /\ values # {}
  /\ \A v \in values : Len(v.names) = Len(label)
  /\ \A k \in DOMAIN label : {v.names[k] : v \in values} = label[k]

(* Every slot of the variables, every word of a mapping's value and of the first two elements of a list
   is put under the names of exactly the values in it. *)
LabelsExact ==
  layout # <<>> =>
    LET vars == Fields(layout)
        type == layout[2]
        values == Leaves([kind |-> "struct", members |-> vars], 0, LayoutLeaves)
    IN /\ \A slot \in 0..(Last(vars).slot + SlotsOf(type) - 1) :
            Named(Resolve(slot), {l \in values : l.slot = slot})
       /\ type.kind = "mapping" => \A w \in 0..(SlotsOf(type.value) - 1) :
            Named(Hop(type, w), {l \in LayoutLeaves(type.value, 0) : l.slot = w})
       /\ type.kind = "dynamic_array" => \A i \in 0..1, w \in 0..(SlotsOf(type.value) - 1) :
            Named(Hop(type, i * SlotsOf(type.value) + w), {l \in LayoutLeaves(type.value, 0) : l.slot = w})
=============================================================================
