------------------------------ MODULE SourceRows ------------------------------
(***************************************************************************)
(* Three drift gates.  An extractor lists the accesses of a source tree as     *)
(* rows, a reviewed manifest keeps their keys, and a change passes only if   *)
(* the keys are the same both ways.  One gate follows accesses to tracked    *)
(* storage variables, one the words that calls pass on, one the blocks of    *)
(* unchecked arithmetic.                                                     *)
(***************************************************************************)
EXTENDS Integers, Sequences, SequencesExt, FiniteSets, FiniteSetsExt, Rounds

CONSTANTS
  Functions,    \* functions of the file
  Roots,        \* tracked storage variables
  Aliases,      \* references to storage: their names, each with its type
  Takes,        \* the references each function has as parameters
  Words,        \* names shaped like a word
  OtherNames,   \* names that are not
  Satellites,   \* callees of other contracts
  Statements,   \* statements of unchecked blocks
  MaxReviewed,  \* bound: lines of the reviewed file
  MaxLines      \* bound: lines of the file under the gate

ASSUME RowsAssumption == /\ MaxReviewed \in Nat /\ MaxLines \in Nat /\ Words \cap OtherNames = {}
                          /\ IsFiniteSet(Functions) /\ IsFiniteSet(DOMAIN Aliases)

VARIABLES
  window,  \* the storage gate: the file, and the keys the manifest has
  taint,   \* the word gate: the same
  blocks   \* the unchecked gate: the file's blocks in order, the keys, and the blocks they were taken from

RowsIdle == [lines |-> {}, reviewed |-> {}, open |-> FALSE]

-----------------------------------------------------------------------------
(* Accesses to storage: what a line of a function does with a name.          *)

WriteForms == {"assign", "delete", "slotstore"}

Mention(form, name, to) == [form |-> form, name |-> name, to |-> to]
Line(f, mentions) == [fn |-> f, has |-> mentions]

\* A reference bound to a variable, or passed to a function; an assembly store at a computed slot and the
\* comment that declares it; plain accesses, alone or with a read beside them.
AccessLines ==
  LET names == Roots \cup DOMAIN Aliases
      plain == {Mention(form, n, "none") : form \in WriteForms \cup {"read"}, n \in names}
      read == {Mention("read", r, "none") : r \in Roots}
      written == {Mention("assign", a, "none") : a \in DOMAIN Aliases}
  IN UNION {    {Line(f, {m}) : m \in plain}
             \cup {Line(f, {m, n}) : m \in read, n \in written}
             \cup {Line(f, {Mention("bind", a, r)}) : a \in DOMAIN Aliases \ Takes[f], r \in Roots}
             \cup {Line(f, {Mention("pass", a, g)}) : a \in DOMAIN Aliases, g \in Functions \ {f}}
             \cup {Line(f, {Mention(form, r, "none")}) : form \in {"computed", "annotate"}, r \in Roots}
           : f \in Functions}

Mentions(F, f) == UNION {l.has : l \in {k \in F : k.fn = f}}
Has(F, f, form, name) == \E m \in Mentions(F, f) : m.form = form /\ m.name = name

\* The roots bound, anywhere in the file, to references of a type.
RootsByType(F, type) ==
  {m.to : m \in {n \in UNION {l.has : l \in F} : n.form = "bind" /\ Aliases[n.name] = type}}

\* Mutant: a reference that is a parameter has no roots.
LocalRoots(F, f, a) == {m.to : m \in {n \in Mentions(F, f) : n.form = "bind" /\ n.name = a}}

\* What a reference is held to stand for: its own bindings, and every root of its type for a parameter.
AliasRoots(F, f, a) ==
  {m.to : m \in {n \in Mentions(F, f) : n.form = "bind" /\ n.name = a}}
  \cup (IF a \in Takes[f] THEN RootsByType(F, Aliases[a]) ELSE {})

\* How a line uses a name: any write to it, or to a part of it, outweighs a read.
ClassifyMode(l, n) == IF \E m \in l.has : m.name = n /\ m.form \in WriteForms THEN "WRITE" ELSE "READ"

NamedBy(l) == {m.name : m \in l.has} \cup {m.to : m \in l.has}
Declares(l) == \E m \in l.has : m.form = "annotate"

\* A computed store is declared for a function that takes the root's slot and stores: a declaration that
\* is not stops the extractor, and the gate compares with no rows at all.
AnnotationInvalid(F) ==
  \E l \in F : \E m \in l.has : m.form = "annotate" /\ ~\E form \in {"slotstore", "computed"} : Has(F, l.fn, form, m.name)

\* The roots a line writes through references.
WrittenThrough(F, l) ==
  UNION {AliasRoots(F, l.fn, a) : a \in {b \in DOMAIN Aliases : ClassifyMode(l, b) = "WRITE"}}

LineRows(F, l) ==
  IF Declares(l) THEN {<<m.name, l.fn, "WRITE">> : m \in l.has}
  ELSE {<<r, l.fn, IF r \in WrittenThrough(F, l) THEN "WRITE" ELSE ClassifyMode(l, r)>>
        : r \in (Roots \cap NamedBy(l)) \cup WrittenThrough(F, l)}

WindowKeys(F) == IF AnnotationInvalid(F) THEN {} ELSE UNION {LineRows(F, l) : l \in F}

-----------------------------------------------------------------------------
(* Words: heads that declare a parameter, calls that pass a name on.         *)

HeadLine(f, p, body) == [form |-> "head", fn |-> f, name |-> p, body |-> body, callee |-> f]
CallLine(f, g, n) == [form |-> "call", fn |-> f, name |-> n, body |-> TRUE, callee |-> g]

PassedNames == Words \cup OtherNames

WordLines ==
       {HeadLine(f, p, body) : f \in Functions, p \in PassedNames, body \in BOOLEAN}
  \cup {CallLine(f, g, n) : f \in Functions, g \in Functions \cup Satellites, n \in PassedNames}

ParamRows(F) ==
  {<<"PARAM", l.name, l.fn>> : l \in {h \in F : h.form = "head" /\ h.body /\ h.name \in Words}}

\* Only calls of other contracts are rows: a callee of this one has its parameter's row.
ArgRows(F) ==
  {<<"ARG", l.callee, l.fn>>
   : l \in {c \in F : c.form = "call" /\ c.callee \in Satellites /\ c.name \in Words}}

TaintKeys(F) == ParamRows(F) \cup ArgRows(F)

-----------------------------------------------------------------------------
(* Unchecked blocks: the function, the first statement and whether more follow. *)

BlocksIdle == [list |-> <<>>, reviewed |-> {}, was |-> <<>>, open |-> FALSE]

UncheckedBlocks == [fn : Functions, first : Statements, more : BOOLEAN]

\* Mutant: blocks of a function are not told apart.
OrdinalNone(B, i) == 1

\* The how-manieth block of its function a block is.
Ordinal(B, i) == Cardinality({j \in 1..i : B[j].fn = B[i].fn})

UncheckedKeys(B) == {<<B[i].fn, Ordinal(B, i), B[i].first>> : i \in DOMAIN B}

-----------------------------------------------------------------------------
(* The gate, and a tree that changes under it.                               *)

\* Mutant: rows that no longer match anything are let through.
NoneUnregistered(keys, reviewed) == keys \subseteq reviewed

SameKeys(keys, reviewed) == keys = reviewed

WindowPasses == window.open /\ SameKeys(WindowKeys(window.lines), window.reviewed)
TaintPasses == taint.open /\ SameKeys(TaintKeys(taint.lines), taint.reviewed)
BlocksPass == blocks.open /\ SameKeys(UncheckedKeys(blocks.list), blocks.reviewed)

\* A line is written; with the manifest reviewed, one is also removed.
Written(g, l, bound) == Cardinality(g.lines) < bound /\ g.lines \cup {l} # g.lines

WindowNext ==
  \/ \E l \in AccessLines :
       /\ Written(window, l, IF window.open THEN MaxLines ELSE MaxReviewed)
       /\ window' = [window EXCEPT !.lines = @ \cup {l}]
  \/ \E l \in window.lines : window.open /\ window' = [window EXCEPT !.lines = @ \ {l}]
  \/ /\ ~window.open /\ WindowKeys(window.lines) # {}  \* a manifest is bootstrapped from rows
     /\ window' = [window EXCEPT !.open = TRUE, !.reviewed = WindowKeys(window.lines)]

TaintNext ==
  \/ \E l \in WordLines :
       /\ Written(taint, l, IF taint.open THEN MaxLines ELSE MaxReviewed)
       /\ taint' = [taint EXCEPT !.lines = @ \cup {l}]
  \/ \E l \in taint.lines : taint.open /\ taint' = [taint EXCEPT !.lines = @ \ {l}]
  \/ ~taint.open /\ taint' = [taint EXCEPT !.open = TRUE, !.reviewed = TaintKeys(taint.lines)]

BlocksNext ==
  \/ \E b \in UncheckedBlocks, i \in 1..(Len(blocks.list) + 1) :
       /\ Len(blocks.list) < IF blocks.open THEN MaxLines ELSE MaxReviewed
       /\ blocks' = [blocks EXCEPT !.list = InsertAt(@, i, b)]
  \/ \E i \in DOMAIN blocks.list : blocks.open /\ blocks' = [blocks EXCEPT !.list = RemoveAt(@, i)]
  \/ /\ ~blocks.open
     /\ blocks' = [blocks EXCEPT !.open = TRUE, !.was = blocks.list, !.reviewed = UncheckedKeys(blocks.list)]

RowsIdleAll == window = RowsIdle /\ taint = RowsIdle /\ blocks = BlocksIdle

\* One gate at a time.
RowsNext ==
  \/ taint = RowsIdle /\ blocks = BlocksIdle /\ WindowNext /\ UNCHANGED <<taint, blocks>>
  \/ window = RowsIdle /\ blocks = BlocksIdle /\ TaintNext /\ UNCHANGED <<window, blocks>>
  \/ window = RowsIdle /\ taint = RowsIdle /\ BlocksNext /\ UNCHANGED <<window, taint>>

-----------------------------------------------------------------------------
(* Properties.                                                               *)

\* Who hands a function the reference it takes under this name.
Passed(F, e) ==
  {d \in Functions \X DOMAIN Aliases :
     e[2] \in Takes[e[1]] /\ Aliases[d[2]] = Aliases[e[2]] /\ Mention("pass", d[2], e[1]) \in Mentions(F, d[1])}

\* What a reference may stand for when the file runs: bindings, carried along the calls that pass them.
Refers(F, f, a) ==
  LET back == [seen \in SUBSET (Functions \X DOMAIN Aliases) |-> seen \cup UNION {Passed(F, e) : e \in seen}]
  IN UNION {{m.to : m \in {x \in Mentions(F, e[1]) : x.form = "bind" /\ x.name = e[2]}}
            : e \in Grown({<<f, a>>}, back, Cardinality(Functions) * Cardinality(DOMAIN Aliases))}

\* The writes of a file: which function writes which root. A computed store counts where it is declared.
TrueWrites(F) ==
  UNION {UNION {{<<r, l.fn>> : r \in IF m.name \in Roots THEN {m.name} ELSE Refers(F, l.fn, m.name)}
                : m \in {x \in l.has : \/ x.form \in WriteForms
                                       \/ x.form = "computed" /\ Has(F, l.fn, "annotate", x.name)}}
         : l \in F}

(* A change the storage gate lets through writes no variable in a function that was not reviewed to write
   it, through whatever references and calls, and takes away no write that was. *)
WritesReviewed ==
  WindowPasses =>
    /\ \A w \in TrueWrites(window.lines) : <<w[1], w[2], "WRITE">> \in window.reviewed
    /\ \A k \in window.reviewed : k[3] = "WRITE" =>
         \E m \in Mentions(window.lines, k[2]) : m.form \in WriteForms \cup {"annotate"}

(* A change the word gate lets through passes a word to no other contract, and to no function of this one
   that names it as one, without a reviewed row for it; and every reviewed row still has its line. *)
WordsReviewed ==
  TaintPasses =>
    /\ \A c \in taint.lines : c.form = "call" /\ c.name \in Words =>
         IF c.callee \in Satellites THEN <<"ARG", c.callee, c.fn>> \in taint.reviewed
         ELSE \A h \in taint.lines : h.form = "head" /\ h.fn = c.callee /\ h.body /\ h.name \in Words =>
                <<"PARAM", h.name, h.fn>> \in taint.reviewed
    /\ \A k \in taint.reviewed : \E l \in taint.lines : l.fn = k[3] /\ k[2] \in {l.name, l.callee}

BlocksOf(B, f) == {i \in DOMAIN B : B[i].fn = f}

\* One for one, in the same order, with the same first statements.
SameBlocks(B, C, f) ==
  \E to \in Bijection(BlocksOf(B, f), BlocksOf(C, f)) : \A i \in BlocksOf(B, f) :
    B[i].first = C[to[i]].first /\ \A j \in BlocksOf(B, f) : i < j => to[i] < to[j]

(* A change the unchecked gate lets through leaves every function the blocks it was reviewed with, in
   their order and as many, as far as their first statements tell. *)
BlocksReviewed == BlocksPass => \A f \in Functions : SameBlocks(blocks.list, blocks.was, f)
=============================================================================
