------------------------------ MODULE CallGraph ------------------------------
(***************************************************************************)
(* What the compiler's AST is searched for: the calls from which a recipient *)
(* may be reached, against a reviewed manifest; and the modules a deployed    *)
(* entry may delegate to, against what a run of it does.                      *)
(***************************************************************************)
EXTENDS Integers, Sequences, FiniteSets, FiniteSetsExt, Rounds

CONSTANTS
  Callables,   \* functions and modifiers of the program
  FnType,      \* the type of a reference to each
  Deployments,     \* deployed modules
  MaxBaseline, \* bound: expressions of the reviewed program
  MaxSites,    \* bound: expressions of the program under the gate
  MaxBody      \* bound: statements of a dispatching program

ASSUME GraphAssumption == /\ MaxBaseline \in Nat /\ MaxSites \in Nat /\ MaxBody \in Nat
                          /\ IsFiniteSet(Callables) /\ IsFiniteSet(Deployments)

VARIABLES
  calls,  \* the recipient gate: the program and the manifest
  route   \* the route generator: a program, and a run of it

-----------------------------------------------------------------------------
(* Recipients.  A function calls another, takes one as a value, calls through a pointer, does an external
   call of its own, or overrides another. *)

CallsIdle == [program |-> {}, reviewed |-> {}, open |-> FALSE]

Expression(f, form, to) == [owner |-> f, form |-> form, to |-> to]
Types == {FnType[f] : f \in Callables}

Expressions ==
       {Expression(f, form, g) : f \in Callables, form \in {"call", "value", "override"}, g \in Callables}
  \cup {Expression(f, "pointer", t) : f \in Callables, t \in Types}
  \cup {Expression(f, "external", "none") : f \in Callables}

\* Whatever is named by a call or as a value may be behind a pointer of its type.
ReferencesByType(P, t) == {x.to : x \in {y \in P : y.form \in {"call", "value"} /\ FnType[y.to] = t}}

\* What an expression may call, as far as the compiler tells.
Destinations(P, x) ==
  CASE x.form = "call" -> {x.to}
    [] x.form = "pointer" -> ReferencesByType(P, x.to)
    [] OTHER -> {}

\* Mutant: a call of a base function is not one of its overrides.
CallsOnly(P, f) == UNION {Destinations(P, x) : x \in {y \in P : y.owner = f}}

Edges(P, f) ==
  (UNION {Destinations(P, x) : x \in {y \in P : y.owner = f}})
  \cup {x.owner : x \in {y \in P : y.form = "override" /\ y.to = f}}

\* The functions from which an external call is reached, found by going round until nothing is added.
Dangerous(P) ==
  LET callers == [seen \in SUBSET Callables |-> seen \cup {f \in Callables : Edges(P, f) \cap seen # {}}]
  IN Grown({x.owner : x \in {y \in P : y.form = "external"}}, callers, Cardinality(Callables))

\* The inventory: the external calls, and the calls that lead to one.
ReachedCalls(P) ==
  LET dangerous == Dangerous(P) IN {x \in P : x.form = "external" \/ Destinations(P, x) \cap dangerous # {}}

RecipientsPass == calls.open /\ ReachedCalls(calls.program) = calls.reviewed

CallsNext ==
  \/ \E x \in Expressions :
       /\ Cardinality(calls.program) < (IF calls.open THEN MaxSites ELSE MaxBaseline) /\ x \notin calls.program
       /\ x.form = "override" => x.to # x.owner /\ FnType[x.to] = FnType[x.owner]
       /\ calls' = [calls EXCEPT !.program = @ \cup {x}]
  \/ \E x \in calls.program : calls.open /\ calls' = [calls EXCEPT !.program = @ \ {x}]
  \/ ~calls.open /\ calls' = [calls EXCEPT !.open = TRUE, !.reviewed = ReachedCalls(calls.program)]

-----------------------------------------------------------------------------
(* Routes.  Two functions of a host, each with a local variable and a parameter. *)

Entry == "entry"
Helper == "helper"
Local == "local"
Param == "param"

ASSUME RouteAssumption == {Local, Param} \cap Deployments = {}

Statement(f, form, x) == [fn |-> f, form |-> form, of |-> x]

\* A local is assigned, the other function is called with an argument, a delegatecall is made through a
\* name, or to a module outright with the call's own data.
BodyStatements ==
  UNION {   {Statement(f, "assign", x) : x \in Deployments \cup {Param}}
       \cup {Statement(f, "call", x) : x \in Deployments \cup {Local, Param}}
       \cup {Statement(f, "delegate", x) : x \in {Local, Param}}
       \cup {Statement(f, "forward", x) : x \in Deployments}
         : f \in {Entry, Helper}}

Other(f) == IF f = Entry THEN Helper ELSE Entry
Body(P, f, form) == {s.of : s \in {t \in P : t.fn = f /\ t.form = form}}

\* Mutant: of the assignments of a local only one counts.
OneAssigned(P, f) == LET all == Body(P, f, "assign") IN IF all = {} THEN {} ELSE {CHOOSE x \in all : TRUE}

\* The right-hand sides a local has anywhere in its function.
Assigned(P, f) == Body(P, f, "assign")

\* The modules a name may stand for, given those the parameter may.
Value(P, f, args, x) ==
  CASE x \in Deployments -> {x}
    [] x = Param -> args
    [] x = Local -> UNION {IF y = Param THEN args ELSE {y} : y \in Assigned(P, f)}

\* The functions a route passes through, each with its arguments; none is gone through twice with the same.
Visited(P) ==
  LET all == {Entry, Helper} \X SUBSET Deployments
      called == [seen \in SUBSET all |->
        seen \cup UNION {{<<Other(v[1]), Value(P, v[1], v[2], x)>> : x \in Body(P, v[1], "call")} : v \in seen}]
  IN Grown({<<Entry, {}>>}, called, Cardinality(all))

DelegateTargets(P) ==
  UNION {{Value(P, v[1], v[2], x) : x \in Body(P, v[1], "delegate") \cup Body(P, v[1], "forward")} : v \in Visited(P)}

\* The modules in the table: the targets whose host has the selector. It is an error if there is no target,
\* or none of them has it, except in the miner.
Routes(P, serving) == (UNION DelegateTargets(P)) \cap serving
Unresolved(P, serving, miner) ==
  \E targets \in DelegateTargets(P) : targets = {} \/ (~miner /\ targets \cap serving = {})

\* check-profile-routes: a forwarded call's own selector is one of its target's.
ForwardsChecked(P, serving) == \A s \in P : s.form = "forward" => s.of \in serving

RouteIdle ==
  [program |-> {}, serving |-> {}, miner |-> FALSE, fn |-> "none", local |-> "none", param |-> "none", delegated |-> {}]

Runs(form, x) == Statement(route.fn, form, x) \in route.program
Held(x) == IF x = Local THEN route.local ELSE IF x = Param THEN route.param ELSE x

\* A program is written, and then run: its statements in any order, on any branch.
RouteNext ==
  \/ /\ route.fn = "none" /\ Cardinality(route.program) < MaxBody
     /\ \E s \in BodyStatements \ route.program : route' = [route EXCEPT !.program = @ \cup {s}]
  \/ /\ route.fn = "none"
     /\ \E serving \in SUBSET Deployments, miner \in BOOLEAN :
          route' = [route EXCEPT !.fn = Entry, !.serving = serving, !.miner = miner]
  \/ \E x \in Deployments \cup {Param} : Runs("assign", x) /\ route' = [route EXCEPT !.local = Held(x)]
  \/ \E x \in Deployments \cup {Local, Param} :
       Runs("call", x) /\ route' = [route EXCEPT !.fn = Other(@), !.param = Held(x), !.local = "none"]
  \/ \E form \in {"delegate", "forward"}, x \in Deployments \cup {Local, Param} :
       Runs(form, x) /\ Held(x) # "none" /\ route' = [route EXCEPT !.delegated = {<<form, Held(x)>>}]

GraphIdle == calls = CallsIdle /\ route = RouteIdle

GraphNext ==
  \/ route = RouteIdle /\ CallsNext /\ UNCHANGED route
  \/ calls = CallsIdle /\ RouteNext /\ UNCHANGED calls

-----------------------------------------------------------------------------
(* Properties.                                                               *)

\* What a call may run: a pointer, any function taken as a value; a function, or what overrides it.
RunsOf(P, x) ==
  LET named == IF x.form = "call" THEN {x.to}
               ELSE IF x.form = "pointer" THEN {y.to : y \in {z \in P : z.form = "value" /\ FnType[z.to] = x.to}}
               ELSE {}
      overridden == [seen \in SUBSET Callables |->
        seen \cup {y.owner : y \in {z \in P : z.form = "override" /\ z.to \in seen}}]
  IN Grown(named, overridden, Cardinality(Callables))

\* The functions a run may come to from an expression.
Reaches(P, x) ==
  LET further == [seen \in SUBSET Callables |-> seen \cup UNION {RunsOf(P, y) : y \in {z \in P : z.owner \in seen}}]
  IN Grown(RunsOf(P, x), further, Cardinality(Callables))

(* A change the recipient gate lets through has no call that may come to an external call, by overrides and
   pointers too, but the reviewed ones. *)
RecipientsReviewed ==
  RecipientsPass =>
    \A x \in calls.program :
      x.form = "external" \/ (\E y \in calls.program : y.form = "external" /\ y.owner \in Reaches(calls.program, x))
      => x \in calls.reviewed

(* Wherever a run delegates to a module that has the selector, the table of routes has it or could not be
   generated; and if the profile's check passed, a forwarded call is never to a module without it. *)
RoutesSound ==
  \A d \in route.delegated :
    /\ d[2] \in route.serving =>
         d[2] \in Routes(route.program, route.serving) \/ Unresolved(route.program, route.serving, route.miner)
    /\ d[1] = "forward" /\ ForwardsChecked(route.program, route.serving) => d[2] \in route.serving
=============================================================================
