------------------------------ MODULE CallSites ------------------------------
(***************************************************************************)
(* The external calls of a file: which lines the call extractor lists, and   *)
(* whether under try; and the module a shared delegatecall dispatches to.    *)
(* The environment writes the file line by line and knows the truth.         *)
(***************************************************************************)
EXTENDS Integers, Sequences, SequencesExt, FiniteSets, FiniteSetsExt, Rounds

CONSTANTS
  DispatchTargets,   \* modules a dispatch may name, and any other expression
  Modules,   \* the ones named through ContractAddresses
  MaxWidth,  \* bound: tokens of a line
  MaxCarried,   \* bound: tokens of the statement a line goes on with
  MaxNest,   \* bound: nested braces
  MaxScanned  \* bound: tokens before a dispatch

ASSUME SitesAssumption == Modules \subseteq DispatchTargets /\ {"none", "open", "close"} \cap DispatchTargets = {} /\ MaxCarried \in Nat

VARIABLES
  code,     \* the truth: open braces and the statement under way
  asm,      \* assembly_lines: the brace depth and whether inside assembly
  carried,  \* the tokens of the lines since one that ended in a delimiter
  sites,    \* the calls of the last line and what is recorded of each
  dispatch  \* the tokens before a dispatch, and target_at's stack after them

callsites == <<code, asm, carried, sites, dispatch>>

\* "assembly" is the keyword with its brace; "apart" the keyword of a brace on the next line.
Delimiters == {"end", "open", "close", "assembly"}

\* "arg" is a call among the arguments of another, "split" one whose member begins a line below its receiver.
\* A receiver is one the patterns know; options in braces between member and arguments are left out.
Calls == {"call", "arg", "split", "yul"}
SiteTokens == Delimiters \cup Calls \cup {"try", "apart"}

-----------------------------------------------------------------------------
(* The file.                                                                 *)

InAsm(c) == Range(c.nest) \cap {"asm", "apart"} # {}

Follows(c, tok) ==
  CASE tok \in {"try", "apart"} -> c.last \in Delimiters /\ ~InAsm(c)
    [] tok = "assembly" -> c.last \in Delimiters /\ ~InAsm(c) /\ Len(c.nest) < MaxNest
    [] tok \in {"call", "split"} -> ~InAsm(c) /\ c.called = "no" /\ c.last # "apart"
    [] tok = "arg" -> c.called # "no"
    [] tok = "yul" -> InAsm(c) /\ c.last # "yul"
    [] tok = "open" -> c.last # "try" /\ Len(c.nest) < MaxNest
    [] tok = "close" -> c.last \in Delimiters \cup {"yul"} /\ c.nest # <<>>
    [] tok = "end" -> c.last \in Calls

\* called: whether the statement under way has its call, and whether a try tries that.
Extend(c, tok) ==
  [nest |-> CASE tok = "assembly" -> Append(c.nest, "asm")
              [] tok = "open" -> Append(c.nest, IF c.last = "apart" THEN "apart" ELSE "block")
              [] tok = "close" /\ c.nest # <<>> -> Front(c.nest)
              [] OTHER -> c.nest,
   last |-> tok,
   called |-> CASE tok \in Delimiters -> "no"
                [] tok \in {"call", "split"} -> IF c.last = "try" THEN "tried" ELSE "bare"
                [] OTHER -> c.called,
   ok |-> c.ok /\ Follows(c, tok)]

\* The state of the file along a line, and before its i-th token.
Along(line) == Scanned(Extend, code, line)
Upto(line, i) == Along(line)[i - 1]

\* Assembly opens on the line, or goes on past it.
OfAssembly(line) == "assembly" \in Range(line) \/ "asm" \in Range(Along(line)[Len(line)].nest)

\* A member below its receiver begins its line, a keyword above its brace ends its own.
Layout(line) ==
  \A i \in DOMAIN line : (line[i] = "split" => i = 1) /\ (line[i] = "apart" => i = Len(line))

-----------------------------------------------------------------------------
(* The extractor.                                                            *)

\* One token of assembly_lines; a keyword opens a block only with its brace on the same line.
AsmToken(a, tok) ==
  CASE tok = "assembly" /\ ~a.inside -> [depth |-> a.depth + 1, inside |-> TRUE, at |-> a.depth, opened |-> TRUE]
    [] tok = "open" \/ (tok = "assembly" /\ a.inside) -> [a EXCEPT !.depth = @ + 1]
    [] tok = "close" -> [a EXCEPT !.depth = @ - 1, !.inside = @ /\ a.depth - 1 # a.at]
    [] OTHER -> a

AsmAlong(line) == Scanned(AsmToken, [asm EXCEPT !.opened = FALSE], line)
AsmAfter(line) == AsmAlong(line)[Len(line)]

\* Mutant: only the state at the line's end counts, and a block within one line is forgotten.
StillInside(line) == AsmAfter(line).inside

AssemblyLine(line) == AsmAfter(line).opened \/ AsmAfter(line).inside

\* Mutant: only the call's own line is searched for its try.
OwnLine(before) == <<>>

\* The lines a call's statement began on.
StatementHead(before) == before

Wrapping(prefix) ==
  IF \E i \in DOMAIN prefix : prefix[i] = "try" /\ \A j \in (i + 1)..Len(prefix) : prefix[j] \notin Delimiters
  THEN "TRY" ELSE "BARE"

\* What is recorded of the i-th token of a line, which is a call.
Row(line, i) ==
  IF line[i] \in (IF AssemblyLine(line) THEN {"yul"} ELSE {"call", "arg"})
  THEN Wrapping(StatementHead(carried) \o SubSeq(line, 1, i - 1))
  ELSE "none"

CarriedAfter(line) == IF Last(line) \in Delimiters THEN <<>> ELSE carried \o line

-----------------------------------------------------------------------------
(* The dispatch target.                                                      *)

\* Mutant: a branch's assignment outlives its block.
PoppedKeeps(stack) == IF Len(stack) > 1 THEN Append(Front(Front(stack)), Last(stack)) ELSE stack

Popped(stack) == IF Len(stack) > 1 THEN Front(stack) ELSE stack

\* One token of target_at: a block inherits its parent's target; what is not a module constant is none.
Stacked(stack, tok) ==
  CASE tok = "open" -> Append(stack, Last(stack))
    [] tok = "close" -> Popped(stack)
    [] OTHER -> Append(Front(stack), IF tok \in Modules THEN tok ELSE "none")

-----------------------------------------------------------------------------

CodeIdle == [nest |-> <<>>, last |-> "end", called |-> "no", ok |-> TRUE]
AsmIdle == [depth |-> 0, inside |-> FALSE, at |-> 0, opened |-> FALSE]
DispatchIdle == [before |-> <<>>, stack |-> <<"none">>]

SitesIdle == code = CodeIdle /\ asm = AsmIdle /\ carried = <<>> /\ sites = {} /\ dispatch = DispatchIdle

ScanCalls ==
  \E line \in BoundedSeq(SiteTokens, MaxWidth) :
    /\ line # <<>> /\ Len(carried) + Len(line) <= MaxCarried
    /\ code' = Along(line)[Len(line)] /\ code'.ok /\ Layout(line)
    /\ asm' = [AsmAfter(line) EXCEPT !.opened = FALSE]
    /\ carried' = CarriedAfter(line)
    /\ sites' = {[call |-> line[i], row |-> Row(line, i), wrapped |-> Upto(line, i).last = "try",
                   within |-> Upto(line, i).called = "tried", assembly |-> OfAssembly(line)]
                 : i \in {j \in DOMAIN line : line[j] \in Calls}}
    /\ UNCHANGED dispatch

ReadTarget ==
  \E tok \in DispatchTargets \cup {"open", "close"} :
    /\ Len(dispatch.before) < MaxScanned
    /\ dispatch' = [before |-> Append(dispatch.before, tok), stack |-> Stacked(dispatch.stack, tok)]
    /\ UNCHANGED <<code, asm, carried, sites>>

SitesNext ==
  \/ dispatch = DispatchIdle /\ ScanCalls
  \/ carried = <<>> /\ code = CodeIdle /\ sites = {} /\ ReadTarget

-----------------------------------------------------------------------------
(* Properties.                                                               *)

(* Exactly which calls have a row: not every one, as the extractor's docstring claims. A Solidity call has
   one unless its member is on a line below its receiver, or assembly opens on its line or goes on past
   it; an opcode has one if assembly does, so not on a line that only ends its block, nor in a block whose
   brace is below the keyword. The row is TRY exactly if a try tries the call, or, which is not "directly
   under try", the call among whose arguments it stands: however many lines the statement spreads over. *)
CallsListed ==
  \A s \in sites :
    /\ s.row # "none" <=> s.call # "split" /\ (s.call = "yul" <=> s.assembly)
    /\ s.row # "none" => s.row = IF s.wrapped \/ s.within THEN "TRY" ELSE "BARE"

Depth(j) == Cardinality({i \in 1..j : dispatch.before[i] = "open"}) - Cardinality({i \in 1..j : dispatch.before[i] = "close"})

\* The assignments whose block is still open.
Visible ==
  {j \in DOMAIN dispatch.before :
     dispatch.before[j] \in DispatchTargets /\ \A k \in j..Len(dispatch.before) : Depth(k) >= Depth(j)}

(* The target of a dispatch is the one last assigned in a block that is still open, if that is a module:
   a branch hands its target to the branches in it and to no branch beside it. *)
TargetIsLexical ==
  (\A j \in DOMAIN dispatch.before : Depth(j) >= 0) =>
    Last(dispatch.stack) =
      IF Visible = {} THEN "none"
      ELSE LET t == dispatch.before[Max(Visible)] IN IF t \in Modules THEN t ELSE "none"
=============================================================================
