----------------------------- MODULE MemoryGuard -----------------------------
(***************************************************************************)
(* check-memory-guard.py: what a deployed runtime stores as its first free  *)
(* memory pointer, found by evaluating the constant prologue, and the       *)
(* allowlist of contracts that may reserve more than 0x80.                  *)
(***************************************************************************)
EXTENDS Integers, Sequences, SequencesExt, FiniteSets

CONSTANTS
  Pushed,        \* bound: constants a prologue pushes
  MaxOps,        \* bound: opcodes of a prologue (16 in the script)
  Contracts,
  Pointers       \* bound: entry pointers of runtimes and of the allowlist

Slot == 64       \* 0x40, where the free memory pointer is kept
Floor == 128     \* 0x80

ASSUME MemoryGuardAssumption ==
  /\ MaxOps \in Nat /\ Pushed \subseteq Nat
  /\ Pointers \subseteq {p \in Nat : p >= Floor /\ p % 32 = 0}

VARIABLES
  prologue,  \* the script's evaluation of a runtime, and the machine's own
  guard      \* each contract's entry pointer and allowance, and the verdict

-----------------------------------------------------------------------------
(* entry_pointer.                                                          *)

\* [op, n]: push the constant n, duplicate or swap with the n-th, store, or anything else.
Opcodes ==
  {[op |-> "push", n |-> v] : v \in Pushed} \cup [op : {"dup", "swap"}, n : {1, 2}]
  \cup {[op |-> "mstore", n |-> 0], [op |-> "other", n |-> 0]}

FromEnd(stack, n) == stack[Len(stack) + 1 - n]

\* Mutant: a swap exchanges the entry one too near.
SwappedNear(stack, n) ==
  [stack EXCEPT ![Len(stack)] = FromEnd(stack, n), ![Len(stack) + 1 - n] = FromEnd(stack, 1)]

\* SWAPn exchanges the last entry with the n-th before it.
Swapped(stack, n) ==
  [stack EXCEPT ![Len(stack)] = FromEnd(stack, n + 1), ![Len(stack) - n] = FromEnd(stack, 1)]

PrologueIdle == [ops |-> 0, stack |-> <<>>, machine |-> <<>>, memory |-> -1, verdict |-> "none", pointer |-> -1]
GuardIdle == [pointer |-> [c \in Contracts |-> 0], allowed |-> [c \in Contracts |-> 0], verdict |-> "none"]
MemoryGuardIdle == prologue = PrologueIdle /\ guard = GuardIdle

\* What the machine does, its top of stack first; -2 is an exceptional halt or code the gate refuses.
Machine(o) ==
  LET m == prologue.machine
  IN CASE o.op = "push" -> <<o.n>> \o m
       [] o.op = "dup" /\ Len(m) >= o.n -> <<m[o.n]>> \o m
       [] o.op = "swap" /\ Len(m) > o.n ->
            [i \in DOMAIN m |-> IF i = 1 THEN m[o.n + 1] ELSE IF i = o.n + 1 THEN m[1] ELSE m[i]]
       [] o.op = "mstore" /\ Len(m) >= 2 -> SubSeq(m, 3, Len(m))
       [] OTHER -> <<>>

Stored(o) ==
  LET m == prologue.machine
  IN IF o.op = "mstore" /\ Len(m) >= 2 /\ m[1] = Slot THEN m[2] ELSE prologue.memory

\* One opcode: an unfamiliar one, or a store that is no pointer initialisation, is refused.
Evaluate(o) ==
  LET s == prologue.stack
      To(stack) == [prologue EXCEPT !.ops = @ + 1, !.stack = stack, !.machine = Machine(o), !.memory = Stored(o)]
      Refused == [To(s) EXCEPT !.verdict = "refused"]
      offset == FromEnd(s, 1)
      value == FromEnd(s, 2)
  IN /\ guard = GuardIdle /\ prologue.verdict = "none" /\ prologue.ops < MaxOps
     /\ prologue' =
          CASE o.op = "push" -> To(Append(s, o.n))
            [] o.op = "dup" /\ Len(s) >= o.n -> To(Append(s, FromEnd(s, o.n)))
            [] o.op = "swap" /\ Len(s) > o.n -> To(Swapped(s, o.n))
            [] o.op = "mstore" /\ Len(s) >= 2 ->
                 IF offset # Slot \/ value < Floor \/ value % 32 # 0 THEN Refused
                 ELSE [To(SubSeq(s, 1, Len(s) - 2)) EXCEPT !.verdict = "found", !.pointer = value]
            [] OTHER -> Refused
     /\ UNCHANGED guard

-----------------------------------------------------------------------------
(* check, over the deployments and the allowlist.                           *)

\* No artifact, or a prologue that is refused.
Broken == -1

Deploy(c, pointer) ==
  /\ prologue = PrologueIdle /\ guard.verdict = "none" /\ guard.pointer[c] = 0
  /\ guard' = [guard EXCEPT !.pointer[c] = pointer] /\ UNCHANGED prologue

\* read_allowlist takes one entry a contract, above 0x80.
Allow(c, pointer) ==
  /\ prologue = PrologueIdle /\ guard.verdict = "none" /\ guard.allowed[c] = 0 /\ pointer > Floor
  /\ guard' = [guard EXCEPT !.allowed[c] = pointer] /\ UNCHANGED prologue

\* Mutant: an allowance nobody uses any more is left alone.
AllowanceStaleNever(c) == FALSE

AllowanceStale(c) == guard.pointer[c] = Floor

AllowanceErrors ==
  \E c \in Contracts :
    \/ guard.allowed[c] # 0 /\ guard.pointer[c] = 0
    \/ guard.pointer[c] = Broken
    \/ guard.pointer[c] > Floor /\ guard.pointer[c] > guard.allowed[c]
    \/ guard.allowed[c] # 0 /\ AllowanceStale(c)

CheckGuard ==
  /\ guard # GuardIdle /\ guard.verdict = "none"
  /\ guard' = [guard EXCEPT !.verdict = IF AllowanceErrors THEN "fail" ELSE "pass"]
  /\ UNCHANGED prologue

MemoryGuardNext ==
  \/ \E o \in Opcodes : Evaluate(o)
  \/ \E c \in Contracts : \E pointer \in Pointers \cup {Broken} : Deploy(c, pointer)
  \/ \E c \in Contracts, pointer \in Pointers : Allow(c, pointer)
  \/ CheckGuard

-----------------------------------------------------------------------------
(* Properties.                                                              *)

(* "Fail closed on an unfamiliar prologue": the pointer the script reports is the one the machine has
   stored at 0x40, however the prologue shuffles its stack before the store. *)
PointerIsReal ==
  prologue.verdict = "found" => prologue.memory = prologue.pointer

(* A passing allowlist leaves every deployed runtime within 0x80 or its own measured exception, and keeps
   no exception whose contract is gone or has stopped spilling. *)
SpillsMeasured ==
  guard.verdict = "pass" =>
    \A c \in Contracts :
      /\ guard.pointer[c] # 0 => guard.pointer[c] = Floor \/ guard.pointer[c] \in Floor..guard.allowed[c]
      /\ guard.allowed[c] # 0 => guard.pointer[c] > Floor
=============================================================================
