------------------------------- MODULE SitePins -------------------------------
(***************************************************************************)
(* Two gates that pin occurrences in the source to a reviewed list:         *)
(* check-rng-shape.py every hash and its preimage, lib/check_gas_meter.py   *)
(* every statement that reads gas.  Both compare counts, not sets.          *)
(***************************************************************************)
EXTENDS Integers, Sequences, FiniteSets

CONSTANTS
  TagNames, TagValues,   \* constants of RngTags, and their literals; NoLiteral is any other form
  NoLiteral,
  Hashes,                \* bound: hash sites met
  GasLines,              \* bound: lines met, [fn, reads, ambient]
  Workers,               \* functions of the ticket worker
  MaxPinned              \* bound: occurrences in the source, and rows reviewed

ASSUME SitePinsAssumption ==
  /\ MaxPinned \in Nat /\ NoLiteral \notin Nat /\ "computed" \notin TagNames /\ TagValues \subseteq Nat \cup {NoLiteral}
  /\ Hashes \subseteq [call : {"keccak", "entropy"}, tag : TagNames \cup {"computed"},
                       width : 1..4, input : {"plain", "deployment"}]
  /\ \A l \in GasLines : l.reads \in BOOLEAN /\ l.ambient \in BOOLEAN

VARIABLES
  shape,  \* declared tags, hash sites, reviewed sites and the verdict
  gas     \* lines, reviewed lines and the verdict

Occurrences(rows, key) == Cardinality({i \in DOMAIN rows : rows[i] = key})
Keys(rows) == {rows[i] : i \in DOMAIN rows}

\* Mutant: rows are compared as sets.
SameSet(live, reviewed) == Keys(live) = Keys(reviewed)

\* Counter subtraction both ways: nothing unreviewed, nothing stale.
SameCounts(live, reviewed) ==
  \A key \in Keys(live) \cup Keys(reviewed) : Occurrences(live, key) = Occurrences(reviewed, key)

ShapeIdle == [tags |-> <<>>, sites |-> <<>>, reviewed |-> <<>>, verdict |-> "none"]
GasIdle == [lines |-> <<>>, reviewed |-> <<>>, verdict |-> "none"]
SitePinsIdle == shape = ShapeIdle /\ gas = GasIdle

-----------------------------------------------------------------------------
(* check-rng-shape.                                                        *)

TagValue(name) ==
  LET i == CHOOSE i \in DOMAIN shape.tags : shape.tags[i].name = name IN shape.tags[i].value

\* Mutant: two constants may share a value.
TagsNonzero ==
  /\ shape.tags # <<>>
  /\ \A i \in DOMAIN shape.tags : shape.tags[i].value # NoLiteral /\ shape.tags[i].value # 0

\* Named constants with literal values, nonzero and unique.
TagsValid ==
  /\ shape.tags # <<>>
  /\ \A i \in DOMAIN shape.tags :
       /\ shape.tags[i].value # NoLiteral /\ shape.tags[i].value # 0
       /\ \A j \in DOMAIN shape.tags : shape.tags[j].value = shape.tags[i].value => j = i

Literals == {shape.tags[i].name : i \in {i \in DOMAIN shape.tags : shape.tags[i].value # NoLiteral}}

\* An EntropyLib call has a constant tag, two to four words and no deployment or block input.
ShapeValid(site) ==
  site.call = "entropy" =>
    /\ site.tag \in Literals
    /\ site.width \in 2..4
    /\ site.input = "plain"

UsedTags == {s.tag : s \in {s \in Keys(shape.sites) : s.call = "entropy" /\ s.tag # "computed"}}

ShapeErrors ==
  \/ ~TagsValid
  \/ ~SameCounts(shape.sites, shape.reviewed)
  \/ \E site \in Keys(shape.sites) : ~ShapeValid(site)
  \/ Literals # UsedTags

DeclareTag(name, value) ==
  /\ gas = GasIdle /\ shape.verdict = "none" /\ shape.sites = <<>>
  /\ \A i \in DOMAIN shape.tags : shape.tags[i].name # name
  /\ shape' = [shape EXCEPT !.tags = Append(@, [name |-> name, value |-> value])]
  /\ UNCHANGED gas

WriteHash(site) ==
  /\ gas = GasIdle /\ shape.verdict = "none" /\ Len(shape.sites) < MaxPinned /\ shape.reviewed = <<>>
  /\ site.call = "entropy" /\ site.tag # "computed" => \E i \in DOMAIN shape.tags : shape.tags[i].name = site.tag
  /\ shape' = [shape EXCEPT !.sites = Append(@, site)]
  /\ UNCHANGED gas

ReviewHash(site) ==
  /\ shape.verdict = "none" /\ Len(shape.reviewed) < MaxPinned
  /\ site \in Keys(shape.sites)
  /\ shape' = [shape EXCEPT !.reviewed = Append(@, site)]
  /\ UNCHANGED gas

ValidateShapes ==
  /\ shape.verdict = "none" /\ shape.sites # <<>>
  /\ shape' = [shape EXCEPT !.verdict = IF ShapeErrors THEN "fail" ELSE "pass"]
  /\ UNCHANGED gas

-----------------------------------------------------------------------------
(* check_gas_meter.                                                        *)

GasReads == [i \in {j \in DOMAIN gas.lines : gas.lines[j].reads} |-> gas.lines[i]]

\* Reads as reviewed, and nothing ambient in the ticket worker.
GasErrors ==
  \/ ~SameCounts(GasReads, gas.reviewed)
  \/ \E l \in Keys(gas.lines) : l.ambient /\ l.fn \in Workers

WriteLine(line) ==
  /\ shape = ShapeIdle /\ gas.verdict = "none" /\ Len(gas.lines) < MaxPinned /\ gas.reviewed = <<>>
  /\ gas' = [gas EXCEPT !.lines = Append(@, line)]
  /\ UNCHANGED shape

ReviewLine(line) ==
  /\ gas.verdict = "none" /\ gas.lines # <<>> /\ Len(gas.reviewed) < MaxPinned /\ line.reads
  /\ gas' = [gas EXCEPT !.reviewed = Append(@, line)]
  /\ UNCHANGED shape

ScanGas ==
  /\ gas.verdict = "none" /\ gas.lines # <<>>
  /\ gas' = [gas EXCEPT !.verdict = IF GasErrors THEN "fail" ELSE "pass"]
  /\ UNCHANGED shape

SitePinsNext ==
  \/ \E name \in TagNames, value \in TagValues : DeclareTag(name, value)
  \/ \E site \in Hashes : WriteHash(site) \/ ReviewHash(site)
  \/ ValidateShapes
  \/ \E line \in GasLines : WriteLine(line) \/ ReviewLine(line)
  \/ ScanGas

-----------------------------------------------------------------------------
(* Properties.                                                              *)

\* What a hash is computed over at run time, each argument after the tag being any word.
RunWords == 0..2
Preimages(site) ==
  {p \in [1..site.width -> RunWords \cup Keys([i \in DOMAIN shape.tags |-> shape.tags[i].value])] :
     site.tag = "computed" \/ p[1] = TagValue(site.tag)}

(* What the tags are for: once the gate accepts the sources, two EntropyLib hashes with different tags or
   different widths are never taken over the same words, whatever their arguments are. *)
PreimagesApart ==
  shape.verdict = "pass" =>
    \A a, b \in {s \in Keys(shape.sites) : s.call = "entropy"} :
      a.tag # b.tag \/ a.width # b.width => Preimages(a) \cap Preimages(b) = {}

(* "Every production hash is registered", every gas read "pinned, rather than allowing arbitrary new uses
   in a function": a second copy of a reviewed expression in the same function is not accepted
   unreviewed, and neither is a row whose copy is gone. *)
CopiesReviewed ==
  /\ shape.verdict = "pass" =>
       \A s \in Hashes : Occurrences(shape.sites, s) = Occurrences(shape.reviewed, s)
  /\ gas.verdict = "pass" =>
       \A l \in GasLines : l.reads => Occurrences(gas.lines, l) = Occurrences(gas.reviewed, l)
=============================================================================
