------------------------------- MODULE Scopes -------------------------------
(***************************************************************************)
(* Which function the source extractors say a line, or a position, of a     *)
(* masked file belongs to: brace counting in three forms, over any file of  *)
(* well-formed lines.  The environment writes the file and knows the truth. *)
(***************************************************************************)
EXTENDS Integers, Sequences, SequencesExt, FiniteSets, FiniteSetsExt, Rounds

CONSTANTS
  Names,     \* functions, modifiers and constructors
  MaxDepth,  \* bound: nested braces
  MaxLine    \* bound: tokens of a line


VARIABLES
  nest,    \* the truth: the open braces, outermost first, by what they enclose
  head,    \* the truth: the signature whose body or semicolon is still to come
  tidy,    \* the truth: every line so far was laid out as a formatter leaves it
  braces,  \* enclosing_functions of the RNG extractors and enclosing of the unchecked one
  ext,     \* enclosing_functions of the external-call extractor
  uses     \* the last line's accesses: the function each is in and the ones recorded

scopes == <<nest, head, tidy, braces, ext, uses>>

FileScope == "file"

\* Braces, semicolons and names; "use" is a statement, with its semicolon, that accesses a tracked variable or passes a word on.
Tokens == Names \cup {"open", "close", "end", "use"}
Lines == BoundedSeq(Tokens, MaxLine)

ASSUME ScopesAssumption ==
  /\ MaxDepth \in Nat \ {0} /\ MaxLine \in Nat \ {0}
  /\ Names \cap ({FileScope, "contract", "struct", "block"} \cup {"open", "close", "end", "use"}) = {}

LastOr(s, default) == IF s = <<>> THEN default ELSE Last(s)
NamedIn(s) == {i \in DOMAIN s : s[i] \in Names}
Innermost(s) == IF NamedIn(s) = {} THEN FileScope ELSE s[Max(NamedIn(s))]

-----------------------------------------------------------------------------
(* The file.  Functions are declared in a contract, structs hold no code.    *)

Truth == [nest |-> nest, head |-> head, ok |-> TRUE]

Opened(t) ==
  IF t.head \in Names THEN t.head
  ELSE IF t.nest = <<>> THEN "contract"
  ELSE IF t.nest = <<"contract">> THEN "struct" ELSE "block"

Reads(t, tok) ==
  CASE tok \in Names -> [t EXCEPT !.head = tok, !.ok = @ /\ t.head = FileScope /\ t.nest = <<"contract">>]
    [] tok = "open" -> [nest |-> Append(t.nest, Opened(t)), head |-> FileScope,
                     ok |-> t.ok /\ Len(t.nest) < MaxDepth /\ LastOr(t.nest, "none") # "struct"]
    [] tok = "close" -> [t EXCEPT !.nest = IF @ = <<>> THEN @ ELSE Front(@),
                              !.ok = @ /\ t.head = FileScope /\ t.nest # <<>>]
    [] tok = "end" -> [t EXCEPT !.head = FileScope, !.ok = @ /\ t.nest # <<>>]
    [] tok = "use" -> [t EXCEPT !.ok = @ /\ t.head = FileScope /\ LastOr(t.nest, "struct") # "struct"]

-----------------------------------------------------------------------------
(* The extractors.                                                           *)

\* Mutant: a declaration's semicolon leaves its name waiting for a brace.
SemicolonIgnored(b) == b

Semicolon(b) == [b EXCEPT !.pending = FileScope]

\* One token of enclosing_functions: a name is latched at the brace that opens its body, which a
\* declaration's semicolon prevents, and every brace is on the stack with its depth.
Braced(b, tok) ==
  CASE tok \in Names -> [b EXCEPT !.pending = tok]
    [] tok = "open" -> [depth |-> b.depth + 1, pending |-> FileScope,
                     stack |-> Append(b.stack, [depth |-> b.depth + 1, name |-> b.pending])]
    [] tok = "close" -> [b EXCEPT !.depth = @ - 1,
                              !.stack = IF @ # <<>> /\ Last(@).depth = b.depth THEN Front(@) ELSE @]
    [] tok \in {"end", "use"} -> Semicolon(b)
    [] OTHER -> b

\* The innermost named scope.
Active(b) == Innermost([i \in DOMAIN b.stack |-> b.stack[i].name])

\* The scan before each token of a line, and after the last.
BracedAlong(line) == Scanned(Braced, braces, line)
After(line) == BracedAlong(line)[Len(line)]

\* rng_window_extract: every character of the line sets its function again, so the last one decides.
WindowFunction(line) == Active(After(line))

\* rng_taint_extract: the same, and a call recorded in no function is not a row.
TaintRow(line) == Active(After(line)) # FileScope

\* unchecked_extract: the scan stops at the position itself.
UncheckedFunction(line, i) == Active(BracedAlong(line)[i - 1])

\* external_call_extract: the first signature of a line at the contract's depth is pending, and only
\* named bodies are stacked, with the depth they are opened at.
Pending(line) ==
  IF NamedIn(line) # {} /\ ext.depth <= 1 /\ ext.pending = FileScope THEN line[Min(NamedIn(line))] ELSE ext.pending

ExternalFunction(line) == IF ext.stack # <<>> THEN Last(ext.stack).name ELSE Pending(line)

ExternalBraced(e, tok) ==
  CASE tok = "open" /\ e.pending # FileScope ->
         [depth |-> e.depth + 1, pending |-> FileScope,
          stack |-> Append(e.stack, [depth |-> e.depth, name |-> e.pending])]
    [] tok = "open" /\ e.pending = FileScope -> [e EXCEPT !.depth = @ + 1]
    [] tok = "close" -> [e EXCEPT !.depth = @ - 1,
                              !.stack = IF @ # <<>> /\ Last(@).depth = e.depth - 1 THEN Front(@) ELSE @]
    [] OTHER -> e

\* Mutant: a declaration without a body stays pending after its line.
DeclarationPending(e, line) == e

Declared(e, line) ==
  IF e.pending # FileScope /\ Range(line) \cap {"end", "use"} # {} /\ "open" \notin Range(line)
  THEN [e EXCEPT !.pending = FileScope] ELSE e

ExternalAlong(line) == Scanned(ExternalBraced, [ext EXCEPT !.pending = Pending(line)], line)
ExternalAfter(line) == Declared(ExternalAlong(line)[Len(line)], line)

-----------------------------------------------------------------------------

Nowhere == [depth |-> 0, pending |-> FileScope, stack |-> <<>>]

ScopesIdle ==
  nest = <<>> /\ head = FileScope /\ tidy = TRUE /\ braces = Nowhere /\ ext = Nowhere /\ uses = {}

\* The truth along a line, and before its i-th token.
ReadAlong(line) == Scanned(Reads, Truth, line)
Before(line, i) == ReadAlong(line)[i - 1]

\* A body is entered or left between position i and the end of the line.
LeavesBody(line, i) == Innermost(Before(line, i).nest) # Innermost(ReadAlong(line)[Len(line)].nest)

\* A signature that is not the first thing on its line, or an access after something has ended there.
Crowded(line) ==
  \E i, j \in DOMAIN line :
    i < j /\ \/ line[j] \in Names
             \/ line[i] \in {"close", "end"} /\ line[j] = "use"
             \/ line[i] = "end" /\ line[j] = "open"

ScanLine(line) ==
  LET t == ReadAlong(line)[Len(line)]
  IN /\ t.ok
     /\ nest' = t.nest /\ head' = t.head /\ tidy' = (tidy /\ ~Crowded(line))
     /\ braces' = After(line) /\ ext' = ExternalAfter(line)
     /\ uses' = {[truth |-> Innermost(Before(line, i).nest), leaves |-> LeavesBody(line, i),
                  window |-> WindowFunction(line), row |-> TaintRow(line),
                  unchecked |-> UncheckedFunction(line, i), external |-> ExternalFunction(line)]
                 : i \in {j \in DOMAIN line : line[j] = "use"}}

ScopesNext == \E line \in Lines : ScanLine(line)

ScopesSpec == ScopesIdle /\ [][ScopesNext]_scopes

-----------------------------------------------------------------------------
(* Properties.                                                               *)

(* Every scanner's idea of where a line ends is the truth: as many open braces, the same innermost
   function, and a name that waits for its body exactly while its signature does. *)
ScopesFollowBraces ==
  /\ braces.depth = Len(nest) /\ Active(braces) = Innermost(nest) /\ braces.pending = head
  /\ ext.depth = Len(nest)

(* An access is recorded under the function whose body it is in, unless that body ends, or another
   begins, further on in its line; the unchecked scan is exact; the external one is, on lines that
   hold code of one function only. *)
UsesAttributed ==
  \A u \in uses :
    /\ u.unchecked = u.truth
    /\ ~u.leaves => u.window = u.truth /\ u.row = (u.truth # FileScope)
    /\ tidy => u.external = u.truth

(* What the extractor's docstring says of every access: it is tagged with its enclosing function. *)
AccessTagged == \A u \in uses : u.truth # FileScope => u.window = u.truth
=============================================================================
