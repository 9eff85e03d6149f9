------------------------------ MODULE GateProofs ------------------------------
(***************************************************************************)
(* Theorems of Gates: what the checks and generators of the Makefile let     *)
(* through, for every source tree, manifest, import graph and call graph.    *)
(* Each tool works by itself, so its steps preserve its own invariant and    *)
(* every other tool's leave its variables alone.                             *)
(***************************************************************************)
EXTENDS Gates, DataProofs

-----------------------------------------------------------------------------
(* Stacks of things to visit, and closures in a bounded number of rounds.    *)

\* A listing of a finite set has its elements and no other.
LEMMA Listed ==
  ASSUME NEW S, IsFiniteSet(S)
  PROVE  SetToSeq(S) \in Seq(S) /\ Range(SetToSeq(S)) = S
<1> DEFINE list == SetToSeq(S)
<1>1. list \in Seq(S) /\ \A e \in S : \E i \in DOMAIN list : list[i] = e
  BY ListIs
<1>2. \A i \in DOMAIN list : list[i] \in S
  <2> HIDE DEF list
  <2> QED BY <1>1
<1> HIDE DEF list
<1>3. Range(list) = S
  BY <1>1, <1>2 DEF Range
<1> QED BY <1>1, <1>3 DEF list

LEMMA StackTop ==
  ASSUME NEW T, NEW s \in Seq(T), s # <<>>
  PROVE  Last(s) \in T /\ Front(s) \in Seq(T) /\ Range(s) = Range(Front(s)) \cup {Last(s)}
<1>1. Len(s) \in Nat \ {0} /\ Last(s) = s[Len(s)] /\ Front(s) = SubSeq(s, 1, Len(s) - 1)
  BY DEF Last, Front
<1>2. Last(s) \in T /\ Front(s) \in Seq(T) /\ Len(Front(s)) = Len(s) - 1
  <2>1. \A i \in 1..(Len(s) - 1) : s[i] \in T
    BY <1>1
  <2> DEFINE n == Len(s) - 1
             t == SubSeq(s, 1, n)
  <2>2. 1 \in Int /\ n \in Int /\ n \in Nat
    BY <1>1
  <2>3. \A i \in 1..n : s[i] \in T
    BY <2>1
  <2>4. Front(s) = t
    BY <1>1
  <2> HIDE DEF n
  <2>5. t \in Seq(T)
    BY <2>2, <2>3, SubSeqProperties
  <2>6. Len(t) = IF 1 <= n THEN n - 1 + 1 ELSE 0
    BY <2>2, <2>3, SubSeqProperties
  <2>7. Len(t) = n
    BY <2>2, <2>6
  <2> QED BY <1>1, <2>4, <2>5, <2>7 DEF n
<1>3. \A i \in 1..(Len(s) - 1) : Front(s)[i] = s[i]
  <2> SUFFICES ASSUME NEW i \in 1..(Len(s) - 1) PROVE Front(s)[i] = s[i]
    OBVIOUS
  <2>1. SubSeq(s, 1, Len(s) - 1)[i] = s[i]
    OBVIOUS
  <2> QED BY <1>1, <2>1
<1>4. DOMAIN Front(s) = 1..(Len(s) - 1) /\ DOMAIN s = 1..Len(s)
  BY <1>1, <1>2
<1>5. Range(s) \subseteq Range(Front(s)) \cup {Last(s)}
  <2>1. \A i \in DOMAIN s : i = Len(s) \/ (i \in DOMAIN Front(s) /\ s[i] = Front(s)[i])
    BY <1>1, <1>3, <1>4
  <2> QED BY <1>1, <2>1 DEF Range
<1>6. Range(Front(s)) \cup {Last(s)} \subseteq Range(s)
  <2>1. \A i \in DOMAIN Front(s) : i \in DOMAIN s /\ s[i] = Front(s)[i]
    BY <1>1, <1>3, <1>4
  <2>2. Len(s) \in DOMAIN s
    BY <1>1, <1>4
  <2> QED BY <1>1, <2>1, <2>2 DEF Range
<1> QED BY <1>2, <1>5, <1>6

\* A step that only adds, over a finite set, has added everything after as many rounds as there are elements.
LEMMA Saturates ==
  ASSUME NEW U, IsFiniteSet(U), NEW start \in SUBSET U, NEW step \in [SUBSET U -> SUBSET U],
         \A X \in SUBSET U : X \subseteq step[X], NEW k \in Nat, Cardinality(U) <= k
  PROVE  step[Grown(start, step, k)] = Grown(start, step, k)
<1> DEFINE f(n) == Grown(start, step, n)
           S == {n \in Nat : step[f(n)] = f(n) \/ Cardinality(f(n)) >= n}
<1>1. f(0) = start /\ \A n \in Nat : f(n) \in SUBSET U /\ f(n + 1) = step[f(n)]
  BY SetRounds
<1> HIDE DEF f
<1>2. \A X \in SUBSET U : IsFiniteSet(X) /\ Cardinality(X) \in Nat
  BY FS_Subset, FS_CardinalityType
<1>3. 0 \in S
  BY <1>1, <1>2
<1>4. ASSUME NEW n \in S PROVE n + 1 \in S
  <2>1. n \in Nat
    OBVIOUS
  <2>2. CASE step[f(n)] = f(n)
    BY <1>1, <2>1, <2>2
  <2>3. CASE step[f(n)] # f(n)
    <3>1. Cardinality(f(n)) >= n
      BY <2>3
    <3> HIDE DEF S
    <3>2. f(n) \in SUBSET f(n + 1) /\ f(n) # f(n + 1)
      BY <1>1, <2>1, <2>3
    <3>3. IsFiniteSet(f(n + 1)) /\ Cardinality(f(n + 1)) \in Nat /\ Cardinality(f(n)) \in Nat
      BY <1>1, <1>2, <2>1
    <3>4. Cardinality(f(n)) < Cardinality(f(n + 1))
      BY <3>2, <3>3, FS_Subset
    <3> QED BY <2>1, <3>1, <3>3, <3>4 DEF S
  <2> QED BY <2>2, <2>3
<1>5. S = Nat
  BY <1>3, <1>4, EveryNatural
<1>6. CASE Cardinality(f(k)) >= k
  <2>1. f(k) \in SUBSET U /\ Cardinality(f(k)) \in Nat /\ Cardinality(U) \in Nat
    BY <1>1, <1>2
  <2>2. Cardinality(f(k)) = Cardinality(U)
    BY <1>6, <2>1, FS_Subset
  <2>3. f(k) = U
    BY <2>1, <2>2, FS_Subset
  <2> QED BY <2>3 DEF f
<1> QED BY <1>5, <1>6 DEF f

\* The rounds stay within whatever the step does not leave, and hold what they start with.
StaysWithin(U, start, step, C) ==
  /\ start \in SUBSET U /\ step \in [SUBSET U -> SUBSET U] /\ start \subseteq C
  /\ \A X \in SUBSET U : X \subseteq C => step[X] \subseteq C

LEMMA RoundsStay ==
  ASSUME NEW U, NEW start, NEW step, NEW C, StaysWithin(U, start, step, C)
  PROVE  \A n \in Nat : Grown(start, step, n) \subseteq C
<1> USE DEF StaysWithin
<1> DEFINE f(n) == Grown(start, step, n)
           S == {n \in Nat : f(n) \subseteq C}
<1>1. f(0) = start /\ \A n \in Nat : f(n) \in SUBSET U /\ f(n + 1) = step[f(n)]
  BY SetRounds
<1> HIDE DEF f
<1>2. S = Nat
  <2>1. 0 \in S /\ \A n \in S : n + 1 \in S
    BY <1>1
  <2> QED BY <2>1, EveryNatural
<1> QED BY <1>2 DEF f

LEMMA RoundsHold ==
  ASSUME NEW U, NEW start \in SUBSET U, NEW step \in [SUBSET U -> SUBSET U],
         \A X \in SUBSET U : X \subseteq step[X]
  PROVE  \A n \in Nat : start \subseteq Grown(start, step, n) /\ Grown(start, step, n) \in SUBSET U
<1> DEFINE f(n) == Grown(start, step, n)
           S == {n \in Nat : start \subseteq f(n)}
<1>1. f(0) = start /\ \A n \in Nat : f(n) \in SUBSET U /\ f(n + 1) = step[f(n)]
  BY SetRounds
<1> HIDE DEF f
<1>2. S = Nat
  <2>1. 0 \in S /\ \A n \in S : n + 1 \in S
    BY <1>1
  <2> QED BY <2>1, EveryNatural
<1> QED BY <1>1, <1>2 DEF f

-----------------------------------------------------------------------------
(* Inputs of a long analysis, and of a proof.                                *)

SlitherSound ==
  /\ slither = [stage |-> slither.stage, given |-> slither.given, rebuilt |-> slither.rebuilt]
  /\ slither.stage = "analyzed" /\ ~slither.rebuilt => slither.given = Compiled

LedgerSound ==
  /\ ledger = [stage |-> ledger.stage, left |-> ledger.left, copy |-> ledger.copy, hashes |-> ledger.hashes]
  /\ ledger.copy \in [SourceUnits -> {0, 1}] /\ disk.tree \in [SourceUnits -> {0, 1}]

\* One tool at a time, and what has been analysed is the build that the second validation looks at.
InputsInv ==
  /\ disk = [tree |-> disk.tree, infos |-> disk.infos, changes |-> disk.changes]
  /\ slither = SlitherIdle \/ ledger = LedgerIdle
  /\ SlitherSound /\ LedgerSound
  /\ AnalysedIsCurrent /\ EvidenceOfTheCopy

LEMMA InputsInit == BuildInputsIdle => InputsInv
<1> SUFFICES ASSUME BuildInputsIdle PROVE InputsInv
  OBVIOUS
<1> USE DEF BuildInputsIdle, DiskIdle, SlitherIdle, LedgerIdle
<1>1. SlitherSound /\ LedgerSound
  BY DEF SlitherSound, LedgerSound
<1> QED BY <1>1 DEF InputsInv, AnalysedIsCurrent, EvidenceOfTheCopy

LEMMA InputsStep == InputsInv /\ [BuildInputsNext]_inputs => InputsInv'
<1> SUFFICES ASSUME InputsInv, [BuildInputsNext]_inputs PROVE InputsInv'
  OBVIOUS
<1> USE DEF InputsInv, SlitherSound, LedgerSound, AnalysedIsCurrent, EvidenceOfTheCopy
<1>1. ASSUME NEW f \in SourceUnits, Edit(f) PROVE InputsInv'
  <2>1. disk' = [tree |-> [disk.tree EXCEPT ![f] = 1 - @], infos |-> disk.infos, changes |-> disk.changes - 1]
    BY <1>1 DEF Edit
  <2>2. disk'.tree \in [SourceUnits -> {0, 1}] /\ disk'.infos = disk.infos
    BY <2>1
  <2> QED BY <1>1, <2>1, <2>2 DEF Edit, Undecided, Compiled
<1>2. ASSUME NEW compiled \in (SUBSET SourceUnits) \ {{}}, NEW clean \in BOOLEAN, NEW complete \in BOOLEAN, Build(compiled, clean, complete)
      PROVE  InputsInv'
  BY <1>2 DEF Build, Undecided, Compiled, SlitherIdle
<1>3. CASE SlitherStart
  BY <1>3 DEF SlitherStart, SlitherIdle, Compiled
<1>4. ASSUME NEW complete \in BOOLEAN, Analyze(complete) PROVE InputsInv'
  <2>1. slither' = [stage |-> IF complete THEN "analyzed" ELSE "failed", given |-> Compiled, rebuilt |-> slither.rebuilt]
    BY <1>4 DEF Analyze
  <2>2. slither # SlitherIdle /\ disk' = disk /\ ledger' = ledger
    BY <1>4 DEF Analyze, SlitherIdle
  <2>3. slither'.stage \in {"analyzed", "failed"} /\ slither'.given = Compiled /\ Compiled' = Compiled
    BY <2>1, <2>2 DEF Compiled
  <2>4. SlitherSound' /\ AnalysedIsCurrent'
    BY <2>1, <2>3
  <2> QED BY <2>2, <2>4
<1>5. CASE SlitherEnd
  BY <1>5 DEF SlitherEnd, SlitherIdle, Compiled, InputsStillValid, InputsValid
<1>6. CASE SlitherOver
  BY <1>6 DEF SlitherOver, SlitherIdle, DiskIdle, Compiled, LedgerIdle
<1>7. CASE LedgerStart
  BY <1>7 DEF LedgerStart, SlitherIdle, Compiled, LedgerIdle
<1>8. ASSUME NEW f \in SourceUnits, CopyFile(f) PROVE InputsInv'
  <2>1. ledger' = [stage |-> IF ledger.left = {f} THEN "copied" ELSE "copying", left |-> ledger.left \ {f},
                   copy |-> [ledger.copy EXCEPT ![f] = disk.tree[f]], hashes |-> ledger.hashes]
    BY <1>8 DEF CopyFile
  <2>2. ledger.stage # "idle" /\ slither = SlitherIdle /\ disk' = disk /\ slither' = slither
    BY <1>8 DEF CopyFile, LedgerIdle
  <2>3. ledger'.copy \in [SourceUnits -> {0, 1}] /\ ledger'.stage # "proving"
    BY <2>1
  <2>4. LedgerSound' /\ EvidenceOfTheCopy'
    BY <2>1, <2>2, <2>3
  <2> QED BY <2>2, <2>4 DEF Compiled
<1>9. CASE HashCopies
  <2>1. ledger' = [stage |-> "proving", left |-> ledger.left, copy |-> ledger.copy, hashes |-> ledger.copy]
    BY <1>9 DEF HashCopies, Hashed
  <2>2. slither = SlitherIdle /\ disk' = disk /\ slither' = slither
    BY <1>9 DEF HashCopies, LedgerIdle
  <2> QED BY <2>1, <2>2 DEF Compiled
<1>10. CASE LedgerOver
  BY <1>10 DEF LedgerOver, LedgerIdle, SlitherIdle, DiskIdle, Compiled
<1>11. CASE UNCHANGED inputs
  BY <1>11 DEF inputs, Compiled
<1> QED BY <1>1, <1>2, <1>3, <1>4, <1>5, <1>6, <1>7, <1>8, <1>9, <1>10, <1>11 DEF BuildInputsNext

-----------------------------------------------------------------------------
(* Closures of imports.                                                      *)

Importing == Sources \cup {Missing}

\* The rounds of Reached end in the least set that has the roots and, with a source, what it imports.
LEMMA ReachedIsClosure ==
  ASSUME IsFiniteSet(Sources), NEW graph \in [Sources -> SUBSET Importing], NEW roots \in SUBSET Sources
  PROVE  /\ roots \subseteq Reached(graph, roots) /\ Reached(graph, roots) \in SUBSET Importing
         /\ \A s \in Reached(graph, roots) \ {Missing} : graph[s] \subseteq Reached(graph, roots)
         /\ \A C \in SUBSET Importing :
              roots \subseteq C /\ (\A s \in C \ {Missing} : graph[s] \subseteq C) => Reached(graph, roots) \subseteq C
<1> DEFINE k == Cardinality(Sources) + 1
           further == [seen \in SUBSET Importing |-> seen \cup UNION {graph[s] : s \in seen \ {Missing}}]
           R == Grown(roots, further, k)
<1>1. IsFiniteSet(Importing) /\ Cardinality(Importing) <= k /\ k \in Nat
  <2>1. IsFiniteSet(Importing) /\ Cardinality(Importing) = IF Missing \in Sources THEN Cardinality(Sources) ELSE Cardinality(Sources) + 1
    BY FS_AddElement DEF Importing
  <2>2. Cardinality(Sources) \in Nat
    BY FS_CardinalityType
  <2> QED BY <2>1, <2>2
<1>2. roots \in SUBSET Importing
  BY DEF Importing
<1>3. further \in [SUBSET Importing -> SUBSET Importing] /\ \A X \in SUBSET Importing : X \subseteq further[X]
  BY DEF Importing
<1>4. \A X \in SUBSET Importing : further[X] = X \cup UNION {graph[s] : s \in X \ {Missing}}
  OBVIOUS
<1>5. Reached(graph, roots) = R
  BY DEF Reached, Importing
<1> HIDE DEF further, k
<1>6. roots \subseteq R /\ R \in SUBSET Importing
  BY <1>1, <1>2, <1>3, RoundsHold
<1>7. further[R] = R
  BY <1>1, <1>2, <1>3, Saturates
<1> HIDE DEF R
<1>8. \A s \in R \ {Missing} : graph[s] \subseteq R
  BY <1>4, <1>6, <1>7
<1>9. ASSUME NEW C \in SUBSET Importing, roots \subseteq C, \A s \in C \ {Missing} : graph[s] \subseteq C PROVE R \subseteq C
  <2>1. \A X \in SUBSET Importing : X \subseteq C => further[X] \subseteq C
    BY <1>4, <1>9
  <2>2. StaysWithin(Importing, roots, further, C)
    BY <1>2, <1>3, <1>9, <2>1 DEF StaysWithin
  <2> QED BY <1>1, <2>2, RoundsStay DEF R
<1> QED BY <1>5, <1>6, <1>8, <1>9

Waiting == Range(imports.todo)

\* What a search knows: what it started from, and the imports of what it has read, are read or wait; and it
\* has come only to what can be reached.
SearchSound ==
  /\ imports.roots \subseteq imports.seen \cup Waiting
  /\ \A s \in imports.seen :
       imports.graph[s] \subseteq imports.seen \cup Waiting \cup (IF imports.job = "trace" THEN {Missing} ELSE {})
  /\ imports.seen \cup Waiting \subseteq Reached(imports.graph, imports.roots)
  /\ imports.job = "trace" => imports.seen \cap imports.marked = {}

SearchTyped ==
  /\ imports = [job |-> imports.job, graph |-> imports.graph, marked |-> imports.marked, roots |-> imports.roots,
               listed |-> imports.listed, waived |-> imports.waived, todo |-> imports.todo,
               seen |-> imports.seen, outcome |-> imports.outcome]
  /\ imports.graph \in [Sources -> SUBSET Importing] /\ imports.roots \in SUBSET Sources
  /\ imports.todo \in Seq(Importing) /\ imports.seen \in SUBSET Sources /\ imports.marked \in SUBSET Sources

ImportsInv ==
  /\ imports = ImportsIdle \/ (SearchTyped /\ (imports.outcome = "none" => SearchSound))
  /\ TracedIfImported /\ ScopeIsClosure

\* What waits last is passed over, having been read before or being no file.
LEMMA SearchPasses ==
  ASSUME ClosuresAssumption, SearchTyped, SearchSound, imports.todo # <<>>,
         imports' = [imports EXCEPT !.todo = Front(@)],
         NextFile \in imports.seen \/ (imports.job = "trace" /\ NextFile = Missing)
  PROVE  SearchTyped' /\ SearchSound'
<1> USE DEF SearchTyped
<1>1. Front(imports.todo) \in Seq(Importing) /\ NextFile \in Importing
      /\ Waiting = Range(Front(imports.todo)) \cup {NextFile}
  BY StackTop DEF Waiting, NextFile
<1>2. imports' = [job |-> imports.job, graph |-> imports.graph, marked |-> imports.marked, roots |-> imports.roots,
                  listed |-> imports.listed, waived |-> imports.waived, todo |-> Front(imports.todo),
                  seen |-> imports.seen, outcome |-> imports.outcome]
  OBVIOUS
<1>3. SearchTyped' /\ Waiting' = Range(Front(imports.todo))
  BY <1>1, <1>2 DEF Waiting
<1> QED BY <1>1, <1>2, <1>3, ClosuresAssumption DEF SearchSound, ClosuresAssumption

\* What waits last is read, and what it imports waits.
LEMMA SearchReads ==
  ASSUME ClosuresAssumption, SearchTyped, SearchSound, imports.todo # <<>>,
         imports' = [imports EXCEPT !.seen = @ \cup {NextFile}, !.todo = Front(@) \o Imports],
         NextFile # Missing, imports.job = "trace" => NextFile \notin imports.marked
  PROVE  SearchTyped' /\ SearchSound'
<1> USE DEF SearchTyped
<1>1. Front(imports.todo) \in Seq(Importing) /\ NextFile \in Importing
      /\ Waiting = Range(Front(imports.todo)) \cup {NextFile}
  BY StackTop DEF Waiting, NextFile
<1>2. NextFile \in Sources /\ imports.graph[NextFile] \in SUBSET Importing
  BY <1>1 DEF Importing
<1>3. Imports \in Seq(Importing) /\ Range(Imports) = imports.graph[NextFile]
  <2>1. IsFiniteSet(Importing)
    BY FS_AddElement DEF ClosuresAssumption, Importing
  <2>2. IsFiniteSet(imports.graph[NextFile])
    BY <1>2, <2>1, FS_Subset
  <2>3. Imports \in Seq(imports.graph[NextFile]) /\ Range(Imports) = imports.graph[NextFile]
    BY <2>2, Listed DEF Imports
  <2> QED BY <1>2, <2>3, SeqMonotonic
<1>4. imports' = [job |-> imports.job, graph |-> imports.graph, marked |-> imports.marked, roots |-> imports.roots,
                  listed |-> imports.listed, waived |-> imports.waived, todo |-> Front(imports.todo) \o Imports,
                  seen |-> imports.seen \cup {NextFile}, outcome |-> imports.outcome]
  OBVIOUS
<1>5. Front(imports.todo) \o Imports \in Seq(Importing)
      /\ Range(Front(imports.todo) \o Imports) = Range(Front(imports.todo)) \cup imports.graph[NextFile]
  BY <1>1, <1>3, StackJoin
<1>6. SearchTyped' /\ Waiting' = Range(Front(imports.todo)) \cup imports.graph[NextFile]
  <2>1. /\ imports'.graph = imports.graph /\ imports'.roots = imports.roots /\ imports'.marked = imports.marked
        /\ imports'.todo = Front(imports.todo) \o Imports /\ imports'.seen = imports.seen \cup {NextFile}
    BY <1>4
  <2>2. imports'.seen \in SUBSET Sources
    BY <1>2, <2>1
  <2>3. SearchTyped'
    BY <1>4, <1>5, <2>1, <2>2
  <2> QED BY <1>5, <2>1, <2>3 DEF Waiting
<1>7. Reached(imports.graph, imports.roots)' = Reached(imports.graph, imports.roots)
  BY <1>4
<1>8. imports.graph[NextFile] \subseteq Reached(imports.graph, imports.roots)
  BY <1>1, <1>2, ReachedIsClosure DEF SearchSound, ClosuresAssumption
<1> QED BY <1>1, <1>2, <1>4, <1>6, <1>7, <1>8 DEF SearchSound

\* With nothing waiting, what has been read is what can be reached.
LEMMA SearchEnds ==
  ASSUME ClosuresAssumption, SearchTyped, SearchSound, imports.todo = <<>>
  PROVE  /\ imports.seen \subseteq Reached(imports.graph, imports.roots)
         /\ Reached(imports.graph, imports.roots) \subseteq imports.seen \cup (IF imports.job = "trace" THEN {Missing} ELSE {})
<1> DEFINE C == imports.seen \cup (IF imports.job = "trace" THEN {Missing} ELSE {})
<1>1. Waiting = {}
  BY DEF Waiting, Range
<1>2. C \in SUBSET Importing /\ imports.roots \subseteq C
  BY <1>1 DEF SearchTyped, SearchSound, Importing
<1>3. \A s \in C \ {Missing} : imports.graph[s] \subseteq C
  BY <1>1 DEF SearchSound
<1>4. IsFiniteSet(Sources)
  BY DEF ClosuresAssumption
<1>5. Reached(imports.graph, imports.roots) \subseteq C
  <2>1. imports.graph \in [Sources -> SUBSET Importing] /\ imports.roots \in SUBSET Sources
    BY Zenon DEF SearchTyped
  <2> HIDE DEF C
  <2> QED BY <1>2, <1>3, <1>4, <2>1, ReachedIsClosure
<1> QED BY <1>5 DEF SearchSound

LEMMA ImportsInit == imports = ImportsIdle => ImportsInv
<1>1. ImportsIdle.outcome = "none"
  BY Zenon DEF ImportsIdle
<1> QED BY <1>1 DEF ImportsInv, TracedIfImported, ScopeIsClosure

LEMMA ImportsStep ==
  ASSUME ClosuresAssumption, ImportsInv, ImportsNext
  PROVE  ImportsInv'
<1> USE DEF ImportsInv
<1>1. ASSUME imports = ImportsIdle, NEW graph \in [Sources -> SUBSET Importing],
             NEW roots \in SUBSET Sources, NEW named \in SUBSET Sources, NEW waived \in SUBSET Sources,
             NEW job \in {"trace", "scope"},
             imports' = [ImportsIdle EXCEPT !.job = job, !.graph = graph, !.roots = roots, !.waived = waived,
                           !.marked = IF job = "trace" THEN named ELSE {},
                           !.listed = IF job = "scope" THEN named ELSE {}, !.todo = SetToSeq(roots)]
      PROVE  ImportsInv'
  <2>1. imports' = [job |-> job, graph |-> graph, marked |-> IF job = "trace" THEN named ELSE {}, roots |-> roots,
                    listed |-> IF job = "scope" THEN named ELSE {}, waived |-> waived, todo |-> SetToSeq(roots),
                    seen |-> {}, outcome |-> "none"]
    BY <1>1 DEF ImportsIdle
  <2>2. IsFiniteSet(roots)
    BY FS_Subset DEF ClosuresAssumption
  <2>3. SetToSeq(roots) \in Seq(roots) /\ Range(SetToSeq(roots)) = roots
    BY <2>2, Listed
  <2>4. SetToSeq(roots) \in Seq(Importing)
    BY <2>3, SeqMonotonic DEF Importing
  <2>5. SearchTyped' /\ Waiting' = roots
    BY <2>1, <2>3, <2>4 DEF SearchTyped, Waiting
  <2>6. roots \subseteq Reached(graph, roots)
    BY ReachedIsClosure DEF ClosuresAssumption
  <2>7. SearchSound'
    BY <2>1, <2>5, <2>6 DEF SearchSound
  <2> QED BY <2>1, <2>5, <2>7 DEF TracedIfImported, ScopeIsClosure
<1>2. CASE RequiresDebugTrace
  <2>1. imports # ImportsIdle /\ SearchTyped /\ SearchSound /\ imports.job = "trace" /\ imports.outcome = "none"
    BY <1>2 DEF RequiresDebugTrace, ImportsIdle
  <2>2. CASE imports.todo = <<>> /\ imports' = [imports EXCEPT !.outcome = "untraced"]
    <3>1. imports.seen \cap imports.marked = {} /\ Missing \notin imports.marked
      BY <2>1 DEF SearchSound, SearchTyped, ClosuresAssumption
    <3>2. imports.marked \cap Reached(imports.graph, imports.roots) = {}
      BY <2>1, <2>2, <3>1, SearchEnds
    <3> QED BY <2>1, <2>2, <3>2 DEF SearchTyped, TracedIfImported, ScopeIsClosure
  <2>3. CASE imports.todo # <<>> /\ NextFile \in imports.seen \cup {Missing} /\ imports' = [imports EXCEPT !.todo = Front(@)]
    <3>1. SearchTyped' /\ SearchSound'
      BY <2>1, <2>3, SearchPasses
    <3>2. imports'.outcome = "none"
      BY <2>1, <2>3 DEF SearchTyped
    <3> QED BY <3>1, <3>2 DEF TracedIfImported, ScopeIsClosure
  <2>4. CASE /\ imports.todo # <<>> /\ NextFile \notin imports.seen \cup {Missing} /\ NextFile \in imports.marked
             /\ imports' = [imports EXCEPT !.outcome = "traced"]
    <3>1. NextFile \in Waiting
      <4>1. imports.todo \in Seq(Importing) /\ imports.todo # <<>>
        BY <2>1, <2>4 DEF SearchTyped
      <4>2. Last(imports.todo) \in Range(imports.todo)
        <5>1. Range(imports.todo) = Range(Front(imports.todo)) \cup {Last(imports.todo)}
          BY <4>1, StackTop
        <5> QED BY <5>1
      <4> QED BY <4>2 DEF Waiting, NextFile
    <3>2. NextFile \in imports.marked \cap Reached(imports.graph, imports.roots)
      BY <2>1, <2>4, <3>1 DEF SearchSound
    <3> QED BY <2>1, <2>4, <3>2 DEF SearchTyped, TracedIfImported, ScopeIsClosure
  <2>5. CASE /\ imports.todo # <<>> /\ NextFile \notin imports.seen \cup {Missing} /\ NextFile \notin imports.marked
             /\ imports' = [imports EXCEPT !.seen = @ \cup {NextFile}, !.todo = Front(@) \o Imports]
    <3>1. SearchTyped' /\ SearchSound'
      BY <2>1, <2>5, SearchReads
    <3>2. imports'.outcome = "none"
      BY <2>1, <2>5 DEF SearchTyped
    <3> QED BY <3>1, <3>2 DEF TracedIfImported, ScopeIsClosure
  <2> QED BY <1>2, <2>2, <2>3, <2>4, <2>5 DEF RequiresDebugTrace
<1>3. CASE ScopeInventory
  <2>1. imports # ImportsIdle /\ SearchTyped /\ SearchSound /\ imports.job = "scope" /\ imports.outcome = "none"
    BY <1>3 DEF ScopeInventory, ImportsIdle
  <2>2. CASE imports.todo # <<>> /\ NextFile \in imports.seen /\ imports' = [imports EXCEPT !.todo = Front(@)]
    <3>1. SearchTyped' /\ SearchSound'
      BY <2>1, <2>2, SearchPasses
    <3>2. imports'.outcome = "none"
      BY <2>1, <2>2 DEF SearchTyped
    <3> QED BY <3>1, <3>2 DEF TracedIfImported, ScopeIsClosure
  <2>3. CASE imports' = [imports EXCEPT !.outcome = "error"]
    BY <2>1, <2>3 DEF SearchTyped, TracedIfImported, ScopeIsClosure
  <2>4. CASE /\ imports.todo # <<>> /\ NextFile \notin imports.seen \cup {Missing}
             /\ imports' = [imports EXCEPT !.seen = @ \cup {NextFile}, !.todo = Front(@) \o Imports]
    <3>1. SearchTyped' /\ SearchSound'
      BY <2>1, <2>4, SearchReads
    <3>2. imports'.outcome = "none"
      BY <2>1, <2>4 DEF SearchTyped
    <3> QED BY <3>1, <3>2 DEF TracedIfImported, ScopeIsClosure
  <2> QED BY <1>3, <2>2, <2>3, <2>4 DEF ScopeInventory
<1>4. CASE ScopeFiles
  <2>1. imports # ImportsIdle /\ SearchTyped /\ SearchSound /\ imports.job = "scope" /\ imports.todo = <<>>
    BY <1>4 DEF ScopeFiles, ImportsIdle
  <2>2. imports.seen = Reached(imports.graph, imports.roots)
    BY <2>1, SearchEnds
  <2>3. imports' = [imports EXCEPT !.outcome = IF imports.listed = imports.seen /\ Classified THEN "match" ELSE "error"]
    BY <1>4 DEF ScopeFiles
  <2>4. Missing \notin imports.seen
    BY <2>1 DEF SearchTyped, ClosuresAssumption
  <2>5. /\ SearchTyped' /\ imports'.seen = imports.seen /\ imports'.listed = imports.listed /\ imports'.waived = imports.waived
        /\ imports'.graph = imports.graph /\ imports'.roots = imports.roots
        /\ imports'.outcome = IF imports.listed = imports.seen /\ Classified THEN "match" ELSE "error"
    BY <2>1, <2>3 DEF SearchTyped
  <2>6. TracedIfImported'
    BY <2>5 DEF TracedIfImported
  <2>7. ScopeIsClosure'
    BY <2>2, <2>4, <2>5, Zenon DEF ScopeIsClosure, Classified
  <2> QED BY <2>5, <2>6, <2>7
<1>5. ASSUME ImportsNext, ~(RequiresDebugTrace \/ ScopeInventory \/ ScopeFiles) PROVE ImportsInv'
  <2>1. PICK graph \in [Sources -> SUBSET Importing], roots \in SUBSET Sources, named \in SUBSET Sources,
             waived \in SUBSET Sources, job \in {"trace", "scope"} :
          /\ imports = ImportsIdle
          /\ imports' = [ImportsIdle EXCEPT !.job = job, !.graph = graph, !.roots = roots, !.waived = waived,
                           !.marked = IF job = "trace" THEN named ELSE {},
                           !.listed = IF job = "scope" THEN named ELSE {}, !.todo = SetToSeq(roots)]
    BY <1>5, Zenon DEF ImportsNext, Importing
  <2> QED BY <1>1, <2>1, Zenon
<1> QED BY <1>2, <1>3, <1>4, <1>5, Zenon

-----------------------------------------------------------------------------
(* The identity of a build's inputs.                                         *)

\* A layout that was captured keeps its dependencies among the roots whose sources are.
IdentityInv ==
  /\ identity = [tool |-> identity.tool, src |-> identity.src, deps |-> identity.deps, moved |-> identity.moved,
                phase |-> identity.phase, edited |-> identity.edited]
  /\ identity.tool = "idle" => identity.phase = "idle"
  /\ identity.tool = "foundry" /\ identity.phase = "captured" => identity.src = "contracts" /\ identity.deps \subseteq DepRoots
  /\ identity.tool # "foundry" => identity.deps \subseteq {"lib", "node_modules"}

LEMMA IdentityInit == identity = IdentityIdle => IdentityInv
  BY SMTT(30) DEF IdentityIdle, IdentityInv

LEMMA IdentityStep ==
  ASSUME IdentityInv, IdentityNext
  PROVE  IdentityInv'
<1> USE DEF IdentityInv
<1>1. ASSUME NEW deps \in SUBSET {"lib", "node_modules"}, identity = IdentityIdle,
             identity' = [identity EXCEPT !.tool = "hardhat", !.deps = deps, !.phase = "captured"]
      PROVE  IdentityInv'
  BY <1>1 DEF IdentityIdle
<1>2. CASE ValidateSourceLayout
  BY <1>2 DEF ValidateSourceLayout, DepsCaptured
<1>3. ASSUME NEW f, identity.phase = "captured", identity' = [identity EXCEPT !.edited = @ \cup {f}]
      PROVE  IdentityInv'
  BY <1>3
<1>4. CASE /\ identity = IdentityIdle
           /\ \E src \in {"contracts", Elsewhere}, moved \in BOOLEAN, deps \in SUBSET (DepRoots \cup {Elsewhere}) :
                identity' = [identity EXCEPT !.tool = "foundry", !.src = src, !.moved = moved, !.deps = deps]
  <2>1. PICK src \in {"contracts", Elsewhere}, moved \in BOOLEAN, deps \in SUBSET (DepRoots \cup {Elsewhere}) :
          identity' = [identity EXCEPT !.tool = "foundry", !.src = src, !.moved = moved, !.deps = deps]
    BY <1>4
  <2> QED BY <1>4, <2>1 DEF IdentityIdle
<1>5. CASE /\ identity = IdentityIdle
           /\ \E deps \in SUBSET {"lib", "node_modules"} :
                identity' = [identity EXCEPT !.tool = "hardhat", !.deps = deps, !.phase = "captured"]
  BY <1>1, <1>5
<1>6. CASE /\ identity.phase = "captured" /\ Cardinality(identity.edited) < 2
           /\ \E f \in Files \ identity.edited : identity' = [identity EXCEPT !.edited = @ \cup {f}]
  BY <1>3, <1>6
<1> QED BY <1>2, <1>4, <1>5, <1>6 DEF IdentityNext

\* Whatever a build of a captured layout reads is in the identity.
LEMMA IdentityOfBuild == IdentityInv => IdentityIsTheBuild
<1> SUFFICES ASSUME IdentityInv, identity.phase = "captured" PROVE BuildInputs \subseteq Identity
  BY DEF IdentityIsTheBuild, Unchanged
<1>1. CASE identity.tool = "foundry"
  BY <1>1 DEF IdentityInv, BuildInputs, Identity, FoundryIdentity, DepRoots
<1>2. CASE identity.tool # "foundry"
  BY <1>2 DEF IdentityInv, BuildInputs, Identity, HardhatIdentity
<1> QED BY <1>1, <1>2

-----------------------------------------------------------------------------
(* The walk.                                                                 *)

Places == Dirs \cup PlainFiles

\* A path of a tree from the top; no place in its first n steps twice; and one that ends in a file.
TreePath(tree, p) ==
  /\ p \in Seq(Places) /\ p # <<>> /\ p[1] = Top
  /\ \A i \in 1..(Len(p) - 1) : p[i] \in Dirs /\ p[i + 1] \in tree[p[i]]
OnceIn(p, n) == \A i, j \in 1..n : p[i] = p[j] => i = j
FilePath(tree, p) == TreePath(tree, p) /\ OnceIn(p, Len(p)) /\ Last(p) \in PlainFiles

LEMMA LongerPath ==
  ASSUME NEW tree, NEW p, TreePath(tree, p), OnceIn(p, Len(p)), Last(p) \in Dirs, NEW c \in Places, c \in tree[Last(p)]
  PROVE  TreePath(tree, Append(p, c)) /\ OnceIn(Append(p, c), Len(p)) /\ (c \notin Range(p) => OnceIn(Append(p, c), Len(p) + 1))
<1>1. p \in Seq(Places) /\ Len(p) \in Nat \ {0} /\ Append(p, c) \in Seq(Places) /\ Len(Append(p, c)) = Len(p) + 1
  BY DEF TreePath
<1>2. \A i \in 1..Len(p) : Append(p, c)[i] = p[i]
  BY <1>1
<1>3. Append(p, c)[Len(p) + 1] = c
  BY <1>1
<1>4. TreePath(tree, Append(p, c))
  <2>1. ASSUME NEW i \in 1..Len(p) PROVE Append(p, c)[i] \in Dirs /\ Append(p, c)[i + 1] \in tree[Append(p, c)[i]]
    <3>1. CASE i = Len(p)
      BY <1>1, <1>2, <1>3, <3>1 DEF Last
    <3>2. CASE i # Len(p)
      <4>1. i \in 1..(Len(p) - 1) /\ i + 1 \in 1..Len(p)
        BY <1>1, <3>2
      <4> QED BY <1>2, <4>1 DEF TreePath
    <3> QED BY <3>1, <3>2
  <2> QED BY <1>1, <1>2, <2>1 DEF TreePath
<1>5. OnceIn(Append(p, c), Len(p))
  BY <1>2 DEF OnceIn
<1>6. ASSUME c \notin Range(p) PROVE OnceIn(Append(p, c), Len(p) + 1)
  <2>1. \A i \in 1..Len(p) : p[i] # c
    BY <1>1, <1>6 DEF Range
  <2>2. \A i \in 1..(Len(p) + 1) : i \in 1..Len(p) \/ i = Len(p) + 1
    BY <1>1
  <2> QED BY <1>2, <1>3, <2>1, <2>2 DEF OnceIn
<1> QED BY <1>4, <1>5, <1>6

LEMMA ShorterPath ==
  ASSUME NEW tree, NEW p, TreePath(tree, p), OnceIn(p, Len(p)), Len(p) > 1
  PROVE  /\ TreePath(tree, Front(p)) /\ OnceIn(Front(p), Len(Front(p))) /\ Len(Front(p)) = Len(p) - 1
         /\ p = Append(Front(p), Last(p)) /\ Last(Front(p)) \in Dirs
         /\ Last(p) \in tree[Last(Front(p))] \ Range(Front(p))
<1> DEFINE q == SubSeq(p, 1, Len(p) - 1)
<1>1. p \in Seq(Places) /\ Len(p) \in Nat /\ p # <<>>
  BY DEF TreePath
<1>2. q \in Seq(Places) /\ Len(q) = Len(p) - 1 /\ Front(p) = q
  <2>1. Front(p) \in Seq(Places)
    BY <1>1, StackTop
  <2> QED BY <1>1, <2>1 DEF Front
<1>3. \A i \in 1..(Len(p) - 1) : q[i] = p[i]
  BY <1>1
<1> HIDE DEF q
<1>4. TreePath(tree, q) /\ OnceIn(q, Len(q))
  BY <1>1, <1>2, <1>3 DEF TreePath, OnceIn
<1>5. Last(q) = p[Len(p) - 1] /\ Last(p) = p[Len(p)] /\ Last(p) \in Places
  BY <1>1, <1>2, <1>3 DEF Last
<1>6. Last(q) \in Dirs /\ Last(p) \in tree[Last(q)]
  BY <1>1, <1>5 DEF TreePath
<1>7. Last(p) \notin Range(q)
  BY <1>1, <1>2, <1>3, <1>5 DEF OnceIn, Range
<1>8. p = Append(q, Last(p))
  <2>1. Append(q, Last(p)) \in Seq(Places) /\ Len(Append(q, Last(p))) = Len(p)
    BY <1>1, <1>2, <1>5
  <2>2. \A i \in 1..Len(p) : Append(q, Last(p))[i] = p[i]
    BY <1>1, <1>2, <1>3, <1>5
  <2> QED BY <1>1, <2>1, <2>2
<1> QED BY <1>2, <1>4, <1>6, <1>7, <1>8

\* The rounds of SimplePaths come to every path with no place twice, and to nothing else.
LEMMA SimplePathsAre ==
  ASSUME ClosuresAssumption, NEW tree \in [Dirs -> SUBSET Places]
  PROVE  \A p : p \in SimplePaths(tree) <=> FilePath(tree, p)
<1> DEFINE D == Seq(Places)
           longer == [seen \in SUBSET D |->
             seen \cup UNION {{Append(p, c) : c \in (tree[Last(p)] \ Range(p))} : p \in {q \in seen : Last(q) \in Dirs}}]
           start == {<<Top>>}
           f(n) == Grown(start, longer, n)
           Good == {p \in D : TreePath(tree, p) /\ OnceIn(p, Len(p))}
<1>1. start \in SUBSET D
  BY DEF ClosuresAssumption, Places, start
<1>2. ASSUME NEW X \in SUBSET D
      PROVE  /\ longer[X] \in SUBSET D /\ X \subseteq longer[X]
             /\ \A p \in X : Last(p) \in Dirs => \A c \in tree[Last(p)] \ Range(p) : Append(p, c) \in longer[X]
             /\ \A q \in longer[X] : q \in X \/ \E p \in X : Last(p) \in Dirs /\ \E c \in tree[Last(p)] \ Range(p) : q = Append(p, c)
  <2>1. longer[X] = X \cup UNION {{Append(p, c) : c \in (tree[Last(p)] \ Range(p))} : p \in {q \in X : Last(q) \in Dirs}}
    OBVIOUS
  <2> HIDE DEF longer
  <2>2. \A p \in X : Last(p) \in Dirs => \A c \in tree[Last(p)] \ Range(p) : c \in Places /\ Append(p, c) \in D
    OBVIOUS
  <2>3. \A q \in longer[X] : q \in X \/ \E p \in X : Last(p) \in Dirs /\ \E c \in tree[Last(p)] \ Range(p) : q = Append(p, c)
    BY <2>1
  <2> HIDE DEF D
  <2>4. longer[X] \in SUBSET D
    <3> SUFFICES ASSUME NEW q \in longer[X] PROVE q \in D
      OBVIOUS
    <3>1. CASE q \in X
      BY <3>1
    <3>2. ASSUME NEW p \in X, Last(p) \in Dirs, NEW c \in tree[Last(p)] \ Range(p), q = Append(p, c) PROVE q \in D
      BY <2>2, <3>2
    <3> QED BY <2>3, <3>1, <3>2
  <2>5. X \subseteq longer[X]
    BY <2>1
  <2>6. \A p \in X : Last(p) \in Dirs => \A c \in tree[Last(p)] \ Range(p) : Append(p, c) \in longer[X]
    BY <2>1
  <2> QED BY <2>3, <2>4, <2>5, <2>6
<1>3. longer \in [SUBSET D -> SUBSET D]
  <2>1. longer = [X \in SUBSET D |-> longer[X]]
    OBVIOUS
  <2> HIDE DEF longer
  <2> QED BY <1>2, <2>1
<1> HIDE DEF longer, D, start
<1>4. f(0) = start /\ \A n \in Nat : f(n) \in SUBSET D /\ f(n + 1) = longer[f(n)]
  BY <1>1, <1>3, SetRounds
<1>5. \A n \in Nat : f(n) \subseteq Good
  <2>1. start \subseteq Good
    <3>1. <<Top>> \in Seq(Places) /\ Len(<<Top>>) = 1
      BY DEF ClosuresAssumption, Places
    <3> QED BY <3>1 DEF D, start, TreePath, OnceIn
  <2>2. ASSUME NEW X \in SUBSET D, X \subseteq Good PROVE longer[X] \subseteq Good
    <3> SUFFICES ASSUME NEW q \in longer[X] PROVE q \in Good
      OBVIOUS
    <3>1. CASE q \in X
      BY <2>2, <3>1
    <3>2. ASSUME NEW p \in X, Last(p) \in Dirs, NEW c \in tree[Last(p)] \ Range(p), q = Append(p, c) PROVE q \in Good
      <4>1. TreePath(tree, p) /\ OnceIn(p, Len(p)) /\ c \in Places
        BY <2>2, <3>2
      <4>2. TreePath(tree, q) /\ OnceIn(q, Len(p) + 1)
        BY <3>2, <4>1, LongerPath
      <4>3. Len(q) = Len(p) + 1 /\ q \in D
        BY <3>2, <4>1 DEF TreePath, D
      <4> QED BY <4>2, <4>3
    <3> QED BY <1>2, <3>1, <3>2
  <2> HIDE DEF Good
  <2>3. \A X \in SUBSET D : X \subseteq Good => longer[X] \subseteq Good
    BY <2>2
  <2>4. start \in SUBSET D /\ longer \in [SUBSET D -> SUBSET D] /\ start \subseteq Good
    BY <1>1, <1>3, <2>1
  <2>5. StaysWithin(D, start, longer, Good)
    BY <2>3, <2>4 DEF StaysWithin
  <2>6. \A n \in Nat : Grown(start, longer, n) \subseteq Good
    BY <2>5, RoundsStay
  <2> QED BY <2>6
<1>6. \A n \in Nat : \A p \in Good : Len(p) <= n + 1 => p \in f(n)
  <2> DEFINE S == {n \in Nat : \A p \in Good : Len(p) <= n + 1 => p \in f(n)}
  <2> HIDE DEF f
  <2>1. 0 \in S
    <3> SUFFICES ASSUME NEW p \in Good, Len(p) <= 1 PROVE p = <<Top>>
      BY <1>4 DEF start
    <3>1. p \in Seq(Places) /\ p # <<>> /\ p[1] = Top
      BY DEF TreePath, D
    <3> HIDE DEF Good
    <3>2. Len(p) \in Nat /\ Len(p) # 0
      BY <3>1
    <3> DEFINE n == Len(p)
    <3>3. n \in Nat /\ n # 0 /\ n <= 1
      BY <3>2
    <3> HIDE DEF n
    <3>4. n = 1
      BY <3>3
    <3> QED BY <3>1, <3>4 DEF n
  <2>2. ASSUME NEW n \in S PROVE n + 1 \in S
    <3>1. n \in Nat /\ f(n) \in SUBSET D /\ f(n + 1) = longer[f(n)]
      BY <1>4
    <3> SUFFICES ASSUME NEW p \in Good, Len(p) <= n + 2 PROVE p \in f(n + 1)
      BY <3>1
    <3>2. TreePath(tree, p) /\ OnceIn(p, Len(p)) /\ Len(p) \in Nat \ {0}
      BY DEF TreePath
    <3>3. CASE Len(p) <= n + 1
      BY <1>2, <3>1, <3>3
    <3>4. CASE Len(p) = n + 2
      <4>1. Len(p) > 1
        BY <3>1, <3>4
      <4>2. /\ TreePath(tree, Front(p)) /\ OnceIn(Front(p), Len(Front(p))) /\ Len(Front(p)) = n + 1
            /\ p = Append(Front(p), Last(p)) /\ Last(Front(p)) \in Dirs /\ Last(p) \in tree[Last(Front(p))] \ Range(Front(p))
        BY <3>1, <3>2, <3>4, <4>1, ShorterPath
      <4>3. Front(p) \in Good
        BY <4>2 DEF TreePath, D
      <4>4. Front(p) \in f(n)
        BY <3>1, <4>2, <4>3
      <4>5. \A q \in f(n) : Last(q) \in Dirs => \A c \in tree[Last(q)] \ Range(q) : Append(q, c) \in f(n + 1)
        BY <1>2, <3>1
      <4>6. Append(Front(p), Last(p)) \in f(n + 1)
        BY <4>2, <4>4, <4>5
      <4> QED BY <4>2, <4>6
    <3> QED BY <3>1, <3>2, <3>3, <3>4
  <2>3. S = Nat
    BY <2>1, <2>2, EveryNatural
  <2> QED BY <2>3
<1> DEFINE k == Cardinality(Dirs)
<1>7. k \in Nat
  BY FS_CardinalityType DEF ClosuresAssumption
<1>8. \A p : FilePath(tree, p) => Len(p) <= k + 1
  <2> SUFFICES ASSUME NEW p, FilePath(tree, p), Len(p) > 1 PROVE Len(p) <= k + 1
    BY <1>7 DEF FilePath, TreePath
  <2> DEFINE n == Len(p) - 1
             way == [i \in 1..n |-> p[i]]
  <2>1. n \in Nat /\ p \in Seq(Places)
    BY DEF FilePath, TreePath
  <2>2. \A i \in 1..n : p[i] \in Dirs
    BY DEF FilePath, TreePath
  <2>3. \A i, j \in 1..n : p[i] = p[j] => i = j
    BY <2>1 DEF FilePath, OnceIn
  <2>4. way \in Injection(1..n, Dirs)
    BY <2>2, <2>3 DEF Injection, IsInjective
  <2> HIDE DEF way, n
  <2>5. Cardinality(1..n) = n
    BY <2>1, FS_Interval
  <2>6. n <= k
    BY <2>4, <2>5, FS_Injection DEF ClosuresAssumption
  <2> QED BY <2>1, <2>6, <1>7 DEF n
<1>9. SimplePaths(tree) = {p \in f(k) : Last(p) \in PlainFiles}
  BY DEF SimplePaths, longer, D, Places, start
<1> HIDE DEF f, k
<1>10. ASSUME NEW p \in SimplePaths(tree) PROVE FilePath(tree, p)
  BY <1>5, <1>7, <1>9 DEF FilePath
<1>11. ASSUME NEW p, FilePath(tree, p) PROVE p \in SimplePaths(tree)
  <2>1. p \in Good /\ Len(p) <= k + 1
    BY <1>8, <1>11 DEF FilePath, TreePath, D
  <2> QED BY <1>6, <1>7, <1>9, <1>11, <2>1 DEF FilePath
<1> QED BY <1>10, <1>11

\* A path that another begins with.
Begins(p, q) == Len(p) <= Len(q) /\ \A i \in 1..Len(p) : p[i] = q[i]

LEMMA NotCyclic ==
  ASSUME NEW tree, NEW p, TreePath(tree, p), OnceIn(p, Len(p) - 1)
  PROVE  Cyclic(p) <=> ~OnceIn(p, Len(p))
<1>1. p \in Seq(Places) /\ Len(p) \in Nat \ {0} /\ p # <<>>
  BY DEF TreePath
<1>2. Front(p) = SubSeq(p, 1, Len(p) - 1) /\ Front(p) \in Seq(Places)
  BY <1>1, StackTop DEF Front
<1>3. DOMAIN Front(p) = 1..(Len(p) - 1) /\ \A i \in 1..(Len(p) - 1) : Front(p)[i] = p[i]
  BY <1>1, <1>2
<1>4. Cyclic(p) <=> \E i \in 1..(Len(p) - 1) : p[i] = p[Len(p)]
  BY <1>3 DEF Cyclic, Range, Last
<1>5. \A i \in 1..Len(p) : i \in 1..(Len(p) - 1) \/ i = Len(p)
  BY <1>1
<1>6. \A i \in 1..(Len(p) - 1) : i \in 1..Len(p) /\ i # Len(p)
  BY <1>1
<1>7. ASSUME OnceIn(p, Len(p)) PROVE ~Cyclic(p)
  <2> SUFFICES ASSUME NEW i \in 1..(Len(p) - 1), p[i] = p[Len(p)] PROVE FALSE
    BY <1>4
  <2>1. i \in 1..Len(p) /\ i # Len(p) /\ Len(p) \in 1..Len(p)
    BY <1>1, <1>6
  <2> QED BY <1>7, <2>1 DEF OnceIn
<1>8. ASSUME ~Cyclic(p), NEW i \in 1..Len(p), NEW j \in 1..Len(p), p[i] = p[j] PROVE i = j
  <2>1. CASE i \in 1..(Len(p) - 1) /\ j \in 1..(Len(p) - 1)
    BY <1>8, <2>1 DEF OnceIn
  <2>2. CASE i = Len(p) \/ j = Len(p)
    BY <1>4, <1>5, <1>8, <2>2
  <2> QED BY <1>5, <2>1, <2>2
<1> QED BY <1>7, <1>8 DEF OnceIn

\* A directory that a path to a file goes through is not one that it has been in, and the path goes on into it.
LEMMA BegunGoesOn ==
  ASSUME ClosuresAssumption, NEW tree, NEW p, TreePath(tree, p), NEW q, FilePath(tree, q), Begins(p, q), Last(p) \in Dirs
  PROVE  /\ OnceIn(p, Len(p))
         /\ \E c \in tree[Last(p)] : Begins(Append(p, c), q)
<1>1. p \in Seq(Places) /\ Len(p) \in Nat \ {0} /\ q \in Seq(Places) /\ Len(q) \in Nat \ {0}
  BY DEF TreePath, FilePath
<1>2. Last(p) = q[Len(p)]
  BY <1>1 DEF Last, Begins
<1>3. Len(p) # Len(q)
  BY <1>2 DEF FilePath, Last, ClosuresAssumption
<1>4. Len(p) \in 1..(Len(q) - 1) /\ Len(p) + 1 \in 1..Len(q)
  BY <1>1, <1>3 DEF Begins
<1>5. q[Len(p) + 1] \in tree[Last(p)] /\ q[Len(p) + 1] \in Places
  BY <1>1, <1>2, <1>4 DEF FilePath, TreePath
<1>6. Begins(Append(p, q[Len(p) + 1]), q)
  <2>1. Len(Append(p, q[Len(p) + 1])) = Len(p) + 1
    BY <1>1
  <2>2. \A i \in 1..(Len(p) + 1) : Append(p, q[Len(p) + 1])[i] = q[i]
    BY <1>1 DEF Begins
  <2> QED BY <1>1, <1>4, <2>1, <2>2 DEF Begins
<1>7. OnceIn(p, Len(p))
  BY <1>1 DEF Begins, FilePath, OnceIn
<1> QED BY <1>5, <1>6, <1>7

\* One that is in a file already is the whole path.
LEMMA BegunIsWhole ==
  ASSUME ClosuresAssumption, NEW tree, NEW p, TreePath(tree, p), NEW q, FilePath(tree, q), Begins(p, q), Last(p) \in PlainFiles
  PROVE  p = q
<1>1. p \in Seq(Places) /\ Len(p) \in Nat \ {0} /\ q \in Seq(Places) /\ Len(q) \in Nat \ {0}
  BY DEF TreePath, FilePath
<1>2. Last(p) = q[Len(p)]
  BY <1>1 DEF Last, Begins
<1>3. Len(p) = Len(q)
  <2>1. ASSUME Len(p) < Len(q) PROVE FALSE
    <3>1. Len(p) \in 1..(Len(q) - 1)
      BY <1>1, <2>1
    <3>2. q[Len(p)] \in Dirs
      BY <3>1 DEF FilePath, TreePath
    <3> QED BY <1>2, <3>2 DEF ClosuresAssumption
  <2> QED BY <1>1, <2>1 DEF Begins
<1> QED BY <1>1, <1>3 DEF Begins

\* Every path that waits enters no directory twice before its last place; every path to a file has been
\* yielded or goes on from one that waits.
WalkTyped ==
  /\ walk = [tool |-> walk.tool, tree |-> walk.tree, pending |-> walk.pending, yielded |-> walk.yielded]
  /\ walk.tree \in [Dirs -> SUBSET Places] /\ walk.pending \in Seq(Seq(Places))

Found(q) == q \in walk.yielded \/ \E p \in Range(walk.pending) : Begins(p, q)

WalkSound ==
  /\ \A p \in Range(walk.pending) : TreePath(walk.tree, p) /\ OnceIn(p, Len(p) - 1)
  /\ \A p \in walk.yielded : FilePath(walk.tree, p)
  /\ \A q : FilePath(walk.tree, q) => Found(q)

WalkInv == walk = WalkIdle \/ (WalkTyped /\ WalkSound)

LEMMA WalkYieldsAll ==
  ASSUME ClosuresAssumption, WalkInv
  PROVE  AliasesRetained
<1> SUFFICES ASSUME walk.pending = <<>>, walk.tool # "idle" PROVE walk.yielded = SimplePaths(walk.tree)
  BY DEF AliasesRetained
<1>1. WalkTyped /\ WalkSound
  BY DEF WalkInv, WalkIdle
<1>2. Range(walk.pending) = {}
  BY DEF Range
<1>3. \A q : q \in walk.yielded <=> FilePath(walk.tree, q)
  BY <1>1, <1>2 DEF WalkSound, Found
<1>4. \A q : q \in SimplePaths(walk.tree) <=> FilePath(walk.tree, q)
  BY <1>1, SimplePathsAre DEF WalkTyped
<1> QED BY <1>3, <1>4

LEMMA WalkStarts ==
  ASSUME ClosuresAssumption, NEW t, NEW tree \in [Dirs -> SUBSET Places],
         walk' = [tool |-> t, tree |-> tree, pending |-> <<<<Top>>>>, yielded |-> {}]
  PROVE  WalkInv'
<1>1. walk' = [tool |-> t, tree |-> tree, pending |-> <<<<Top>>>>, yielded |-> {}]
  OBVIOUS
<1>2. <<Top>> \in Seq(Places) /\ Len(<<Top>>) = 1 /\ <<Top>>[1] = Top
  BY DEF ClosuresAssumption, Places
<1>3. Range(<<<<Top>>>>) = {<<Top>>}
  BY DEF Range
<1>4. TreePath(tree, <<Top>>) /\ OnceIn(<<Top>>, Len(<<Top>>) - 1)
  BY <1>2 DEF TreePath, OnceIn
<1>5. \A q : FilePath(tree, q) => Begins(<<Top>>, q)
  <2> SUFFICES ASSUME NEW q, FilePath(tree, q) PROVE Begins(<<Top>>, q)
    OBVIOUS
  <2>1. q \in Seq(Places) /\ q # <<>> /\ q[1] = Top
    BY DEF FilePath, TreePath
  <2>2. Len(q) \in Nat \ {0}
    BY <2>1
  <2> QED BY <1>2, <2>1, <2>2 DEF Begins
<1>6. WalkTyped'
  <2>1. <<<<Top>>>> \in Seq(Seq(Places))
    BY <1>2
  <2> QED BY <1>1, <2>1 DEF WalkTyped
<1>7. walk'.tree = tree /\ walk'.yielded = {} /\ Range(walk'.pending) = {<<Top>>}
  BY <1>1, <1>3
<1>8. WalkSound'
  BY <1>4, <1>5, <1>7 DEF WalkSound, Found
<1> QED BY <1>6, <1>8 DEF WalkInv

LEMMA WalkGoesOn ==
  ASSUME ClosuresAssumption, WalkInv, NEW t, t # "idle", Walk(t)
  PROVE  WalkInv'
<1> DEFINE path == Last(walk.pending)
           rest == Front(walk.pending)
           children == {Append(path, child) : child \in walk.tree[Last(path)]}
<1>1. WalkTyped /\ WalkSound /\ walk.pending # <<>>
  BY DEF WalkInv, WalkIdle, Walk
<1>2. walk = [tool |-> walk.tool, tree |-> walk.tree, pending |-> walk.pending, yielded |-> walk.yielded]
      /\ walk.tree \in [Dirs -> SUBSET Places]
  BY <1>1 DEF WalkTyped
<1>3. path \in Seq(Places) /\ rest \in Seq(Seq(Places)) /\ Range(walk.pending) = Range(rest) \cup {path}
  BY <1>1, StackTop DEF WalkTyped
<1>4. TreePath(walk.tree, path) /\ OnceIn(path, Len(path) - 1)
  BY <1>1, <1>3 DEF WalkSound
<1>5. \/ /\ Last(path) \in Dirs /\ ~Cyclic(path)
         /\ walk' = [walk EXCEPT !.pending = rest \o SetToSeq(children)]
      \/ Last(path) \in Dirs /\ Cyclic(path) /\ walk' = [walk EXCEPT !.pending = rest]
      \/ Last(path) \in PlainFiles /\ walk' = [walk EXCEPT !.pending = rest, !.yielded = @ \cup {path}]
  BY DEF Walk
<1> HIDE DEF path, rest
<1>6. CASE /\ Last(path) \in Dirs /\ ~Cyclic(path)
           /\ walk' = [walk EXCEPT !.pending = rest \o SetToSeq(children)]
  <2>1. OnceIn(path, Len(path))
    BY <1>4, <1>6, NotCyclic
  <2>2. IsFiniteSet(children) /\ children \subseteq Seq(Places)
    <3> DEFINE S == walk.tree[Last(path)]
               into == [c \in S |-> Append(path, c)]
    <3>1. S \in SUBSET Places /\ IsFiniteSet(Places)
      BY <1>2, <1>6, FS_Union DEF Places, ClosuresAssumption
    <3>2. IsFiniteSet(S)
      BY <3>1, FS_Subset
    <3>3. into \in Surjection(S, children)
      BY DEF Surjection
    <3>4. children \subseteq Seq(Places)
      BY <1>3, <3>1
    <3> HIDE DEF S, into, children
    <3> QED BY <3>2, <3>3, <3>4, FS_Surjection
  <2> DEFINE listing == SetToSeq(children)
  <2>3. listing \in Seq(children) /\ Range(listing) = children
    BY <2>2, Listed
  <2>4. listing \in Seq(Seq(Places))
    BY <2>2, <2>3, SeqMonotonic
  <2> HIDE DEF listing
  <2>5. rest \o listing \in Seq(Seq(Places)) /\ Range(rest \o listing) = Range(rest) \cup children
    BY <1>3, <2>3, <2>4, StackJoin
  <2>6. walk' = [tool |-> walk.tool, tree |-> walk.tree, pending |-> rest \o listing, yielded |-> walk.yielded]
    BY <1>2, <1>6 DEF listing
  <2>7. WalkTyped' /\ Range(walk'.pending) = Range(rest) \cup children /\ walk'.tree = walk.tree /\ walk'.yielded = walk.yielded
    BY <1>2, <2>5, <2>6 DEF WalkTyped
  <2>8. \A p \in children : TreePath(walk.tree, p) /\ OnceIn(p, Len(p) - 1)
    <3> SUFFICES ASSUME NEW c \in walk.tree[Last(path)]
                 PROVE  TreePath(walk.tree, Append(path, c)) /\ OnceIn(Append(path, c), Len(Append(path, c)) - 1)
      OBVIOUS
    <3>1. c \in Places
      BY <1>2, <1>6
    <3>2. TreePath(walk.tree, Append(path, c)) /\ OnceIn(Append(path, c), Len(path))
      BY <1>4, <1>6, <2>1, <3>1, LongerPath
    <3>3. Len(Append(path, c)) - 1 = Len(path)
      BY <1>3
    <3> QED BY <3>2, <3>3
  <2>9. \A q : FilePath(walk.tree, q) /\ Begins(path, q) => \E p \in children : Begins(p, q)
    BY <1>4, <1>6, BegunGoesOn
  <2>10. WalkSound'
    BY <1>1, <1>3, <2>7, <2>8, <2>9 DEF WalkSound, Found
  <2> QED BY <2>7, <2>10 DEF WalkInv
<1>7. CASE Last(path) \in Dirs /\ Cyclic(path) /\ walk' = [walk EXCEPT !.pending = rest]
  <2>1. walk' = [tool |-> walk.tool, tree |-> walk.tree, pending |-> rest, yielded |-> walk.yielded]
    BY <1>2, <1>7
  <2>2. \A q : FilePath(walk.tree, q) => ~Begins(path, q)
    BY <1>4, <1>7, NotCyclic, BegunGoesOn
  <2>3. WalkTyped'
    BY <1>2, <1>3, <2>1 DEF WalkTyped
  <2>4. WalkSound'
    BY <1>1, <1>3, <2>1, <2>2 DEF WalkSound, Found
  <2> QED BY <2>3, <2>4 DEF WalkInv
<1>8. CASE Last(path) \in PlainFiles /\ walk' = [walk EXCEPT !.pending = rest, !.yielded = @ \cup {path}]
  <2>1. walk' = [tool |-> walk.tool, tree |-> walk.tree, pending |-> rest, yielded |-> walk.yielded \cup {path}]
    BY <1>2, <1>8
  <2>2. FilePath(walk.tree, path)
    <3>1. ~Cyclic(path)
      <4>1. Front(path) \in Seq(Places) /\ Front(path) = SubSeq(path, 1, Len(path) - 1) /\ Len(path) \in Nat \ {0}
        BY <1>3, <1>4, StackTop DEF Front, TreePath
      <4>2. \A i \in DOMAIN Front(path) : Front(path)[i] = path[i] /\ i \in 1..(Len(path) - 1)
        BY <1>3, <4>1
      <4>3. \A i \in DOMAIN Front(path) : Front(path)[i] \in Dirs
        BY <1>4, <4>2 DEF TreePath
      <4> QED BY <1>8, <4>3 DEF Cyclic, Range, ClosuresAssumption
    <3> QED BY <1>4, <1>8, <3>1, NotCyclic DEF FilePath
  <2>3. \A q : FilePath(walk.tree, q) /\ Begins(path, q) => q = path
    BY <1>4, <1>8, BegunIsWhole
  <2>4. WalkTyped'
    BY <1>2, <1>3, <2>1 DEF WalkTyped
  <2>5. WalkSound'
    BY <1>1, <1>3, <2>1, <2>2, <2>3 DEF WalkSound, Found
  <2> QED BY <2>4, <2>5 DEF WalkInv
<1> QED BY <1>5, <1>6, <1>7, <1>8

LEMMA WalkStep ==
  ASSUME ClosuresAssumption, WalkInv, WalkNext
  PROVE  WalkInv'
<1>1. ASSUME NEW t \in {"foundry", "hardhat"}, NEW tree \in [Dirs -> SUBSET Places],
             walk' = [WalkIdle EXCEPT !.tool = t, !.tree = tree, !.pending = <<<<Top>>>>]
      PROVE  WalkInv'
  <2>1. walk' = [tool |-> t, tree |-> tree, pending |-> <<<<Top>>>>, yielded |-> {}]
    BY <1>1 DEF WalkIdle
  <2> QED BY <2>1, WalkStarts
<1>2. CASE FoundryWalk
  BY <1>2, WalkGoesOn DEF FoundryWalk
<1>3. CASE HardhatWalk
  BY <1>3, WalkGoesOn DEF HardhatWalk
<1> QED BY <1>1, <1>2, <1>3 DEF WalkNext, Places

-----------------------------------------------------------------------------
(* The files a run, a scope and a build depend on.                           *)

ClosuresInv == WalkInv /\ ImportsInv /\ IdentityInv

LEMMA ClosuresInit == ClosuresIdle => ClosuresInv
  BY ImportsInit, IdentityInit DEF ClosuresIdle, ClosuresInv, WalkInv

LEMMA ClosuresStay ==
  /\ WalkInv /\ UNCHANGED walk => WalkInv'
  /\ ImportsInv /\ UNCHANGED imports => ImportsInv'
  /\ IdentityInv /\ UNCHANGED identity => IdentityInv'
<1>1. WalkInv /\ UNCHANGED walk => WalkInv'
  BY DEF WalkInv, WalkTyped, WalkSound, Found
<1>2. ImportsInv /\ UNCHANGED imports => ImportsInv'
  BY DEF ImportsInv, SearchTyped, SearchSound, Waiting, TracedIfImported, ScopeIsClosure
<1>3. IdentityInv /\ UNCHANGED identity => IdentityInv'
  BY DEF IdentityInv
<1> QED BY <1>1, <1>2, <1>3

LEMMA ClosuresStep == ClosuresAssumption /\ ClosuresInv /\ [ClosuresNext]_closures => ClosuresInv'
<1> SUFFICES ASSUME ClosuresAssumption, ClosuresInv, [ClosuresNext]_closures PROVE ClosuresInv'
  OBVIOUS
<1>1. WalkNext \/ UNCHANGED walk
  BY DEF ClosuresNext, closures
<1>2. ImportsNext \/ UNCHANGED imports
  BY DEF ClosuresNext, closures
<1>3. IdentityNext \/ UNCHANGED identity
  BY DEF ClosuresNext, closures
<1> QED BY <1>1, <1>2, <1>3, ClosuresStay, WalkStep, ImportsStep, IdentityStep DEF ClosuresInv

LEMMA ClosuresHold == ClosuresAssumption /\ ClosuresInv => AliasesRetained /\ TracedIfImported /\ ScopeIsClosure /\ IdentityIsTheBuild
  BY WalkYieldsAll, IdentityOfBuild DEF ClosuresInv, ImportsInv

-----------------------------------------------------------------------------
(* Pinned sites.                                                             *)

\* A verdict is about the rows it was given, and nothing is written after it.
SitePinsInv ==
  /\ shape = [tags |-> shape.tags, sites |-> shape.sites, reviewed |-> shape.reviewed, verdict |-> shape.verdict]
  /\ gas = [lines |-> gas.lines, reviewed |-> gas.reviewed, verdict |-> gas.verdict]
  /\ shape.tags \in Seq([name : TagNames, value : TagValues]) /\ shape.sites \in Seq(Hashes)
  /\ gas.lines \in Seq(GasLines)
  /\ shape.verdict = "pass" => ~ShapeErrors
  /\ gas.verdict = "pass" => ~GasErrors

LEMMA SitePinsInit == SitePinsIdle => SitePinsInv
  BY DEF SitePinsIdle, ShapeIdle, GasIdle, SitePinsInv

LEMMA SameErrors ==
  /\ UNCHANGED shape => (ShapeErrors' <=> ShapeErrors)
  /\ UNCHANGED gas => (GasErrors' <=> GasErrors)
<1>1. ASSUME UNCHANGED shape PROVE ShapeErrors' <=> ShapeErrors
  BY <1>1 DEF ShapeErrors, TagsValid, Literals, UsedTags, ShapeValid
<1>2. ASSUME UNCHANGED gas PROVE GasErrors' <=> GasErrors
  BY <1>2 DEF GasErrors, GasReads
<1> QED BY <1>1, <1>2

LEMMA SitePinsStep == SitePinsInv /\ [SitePinsNext]_pins => SitePinsInv'
<1> SUFFICES ASSUME SitePinsInv, [SitePinsNext]_pins PROVE SitePinsInv'
  OBVIOUS
<1> USE DEF SitePinsInv
<1>1. ASSUME NEW name \in TagNames, NEW value \in TagValues, DeclareTag(name, value) PROVE SitePinsInv'
  <2>1. shape' = [tags |-> Append(shape.tags, [name |-> name, value |-> value]), sites |-> shape.sites,
                  reviewed |-> shape.reviewed, verdict |-> "none"] /\ gas' = gas
    BY <1>1 DEF DeclareTag
  <2> QED BY <2>1, SameErrors
<1>2. ASSUME NEW site \in Hashes, WriteHash(site) PROVE SitePinsInv'
  <2>1. shape' = [tags |-> shape.tags, sites |-> Append(shape.sites, site),
                  reviewed |-> shape.reviewed, verdict |-> "none"] /\ gas' = gas
    BY <1>2 DEF WriteHash
  <2> QED BY <2>1, SameErrors
<1>3. ASSUME NEW site \in Hashes, ReviewHash(site) PROVE SitePinsInv'
  <2>1. shape' = [tags |-> shape.tags, sites |-> shape.sites,
                  reviewed |-> Append(shape.reviewed, site), verdict |-> "none"] /\ gas' = gas
    BY <1>3 DEF ReviewHash
  <2> QED BY <2>1, SameErrors
<1>4. CASE ValidateShapes
  <2>1. shape' = [tags |-> shape.tags, sites |-> shape.sites, reviewed |-> shape.reviewed,
                  verdict |-> IF ShapeErrors THEN "fail" ELSE "pass"] /\ gas' = gas
    BY <1>4 DEF ValidateShapes
  <2>2. ShapeErrors' <=> ShapeErrors
    BY <2>1 DEF ShapeErrors, TagsValid, Literals, UsedTags, ShapeValid
  <2> QED BY <2>1, <2>2, SameErrors
<1>5. ASSUME NEW line \in GasLines, WriteLine(line) PROVE SitePinsInv'
  <2>1. gas' = [lines |-> Append(gas.lines, line), reviewed |-> gas.reviewed, verdict |-> "none"] /\ shape' = shape
    BY <1>5 DEF WriteLine
  <2> QED BY <2>1, SameErrors
<1>6. ASSUME NEW line \in GasLines, ReviewLine(line) PROVE SitePinsInv'
  <2>1. gas' = [lines |-> gas.lines, reviewed |-> Append(gas.reviewed, line), verdict |-> "none"] /\ shape' = shape
    BY <1>6 DEF ReviewLine
  <2> QED BY <2>1, SameErrors
<1>7. CASE ScanGas
  <2>1. gas' = [lines |-> gas.lines, reviewed |-> gas.reviewed, verdict |-> IF GasErrors THEN "fail" ELSE "pass"] /\ shape' = shape
    BY <1>7 DEF ScanGas
  <2>2. GasErrors' <=> GasErrors
    BY <2>1 DEF GasErrors, GasReads
  <2> QED BY <2>1, <2>2, SameErrors
<1>8. CASE UNCHANGED pins
  BY <1>8, SameErrors DEF pins
<1> QED BY <1>1, <1>2, <1>3, <1>4, <1>5, <1>6, <1>7, <1>8 DEF SitePinsNext

\* Same counts of the keys met are same counts of every key.
LEMMA CountsOfAll ==
  ASSUME NEW live, NEW reviewed, SameCounts(live, reviewed)
  PROVE  \A key : Occurrences(live, key) = Occurrences(reviewed, key)
<1> SUFFICES ASSUME NEW key, key \notin Keys(live) \cup Keys(reviewed) PROVE Occurrences(live, key) = Occurrences(reviewed, key)
  BY DEF SameCounts
<1>1. {i \in DOMAIN live : live[i] = key} = {} /\ {i \in DOMAIN reviewed : reviewed[i] = key} = {}
  BY DEF Keys
<1> QED BY <1>1 DEF Occurrences

LEMMA SitesCounted == SitePinsInv => CopiesReviewed
<1> SUFFICES ASSUME SitePinsInv PROVE CopiesReviewed
  OBVIOUS
<1>1. ASSUME shape.verdict = "pass", NEW s \in Hashes PROVE Occurrences(shape.sites, s) = Occurrences(shape.reviewed, s)
  BY <1>1, CountsOfAll DEF SitePinsInv, ShapeErrors
<1>2. ASSUME gas.verdict = "pass", NEW l \in GasLines, l.reads PROVE Occurrences(gas.lines, l) = Occurrences(gas.reviewed, l)
  <2>1. Occurrences(GasReads, l) = Occurrences(gas.reviewed, l)
    BY <1>2, CountsOfAll DEF SitePinsInv, GasErrors
  <2>2. {i \in DOMAIN GasReads : GasReads[i] = l} = {i \in DOMAIN gas.lines : gas.lines[i] = l}
    BY <1>2 DEF GasReads
  <2> QED BY <2>1, <2>2 DEF Occurrences
<1> QED BY <1>1, <1>2 DEF CopiesReviewed

LEMMA TagsTellApart == SitePinsAssumption /\ SitePinsInv => PreimagesApart
<1> SUFFICES ASSUME SitePinsAssumption, SitePinsInv, shape.verdict = "pass",
                    NEW a \in Keys(shape.sites), NEW b \in Keys(shape.sites), a.call = "entropy", b.call = "entropy",
                    a.tag # b.tag \/ a.width # b.width, NEW p, p \in Preimages(a), p \in Preimages(b)
             PROVE  FALSE
  BY DEF PreimagesApart
<1>1. TagsValid /\ ShapeValid(a) /\ ShapeValid(b)
  BY DEF SitePinsInv, ShapeErrors
<1>2. a.tag \in Literals /\ b.tag \in Literals /\ a.width \in 2..4 /\ b.width \in 2..4
  BY <1>1 DEF ShapeValid
<1>3. \A i \in DOMAIN shape.tags : shape.tags[i].name \in TagNames
  <2> DEFINE Tag == [name : TagNames, value : TagValues]
  <2>1. shape.tags \in Seq(Tag)
    BY DEF SitePinsInv
  <2>2. \A tag \in Tag : tag.name \in TagNames
    OBVIOUS
  <2> HIDE DEF Tag
  <2>3. \A i \in DOMAIN shape.tags : shape.tags[i] \in Tag
    BY <2>1
  <2> QED BY <2>2, <2>3
<1>4. a.tag # "computed" /\ b.tag # "computed"
  BY <1>2, <1>3 DEF Literals, SitePinsAssumption
<1>5. p[1] = TagValue(a.tag) /\ p[1] = TagValue(b.tag) /\ DOMAIN p = 1..a.width /\ DOMAIN p = 1..b.width
  BY <1>4 DEF Preimages
<1>6. a.width = b.width
  <2>1. a.width \in 1..b.width /\ b.width \in 1..a.width
    BY <1>2, <1>5
  <2> QED BY <1>2, <2>1
<1>7. ASSUME NEW t \in Literals PROVE \E i \in DOMAIN shape.tags : shape.tags[i].name = t /\ TagValue(t) = shape.tags[i].value
  BY <1>7 DEF Literals, TagValue
<1>8. PICK i \in DOMAIN shape.tags : shape.tags[i].name = a.tag /\ TagValue(a.tag) = shape.tags[i].value
  BY <1>2, <1>7
<1>9. PICK j \in DOMAIN shape.tags : shape.tags[j].name = b.tag /\ TagValue(b.tag) = shape.tags[j].value
  BY <1>2, <1>7
<1>10. i = j
  BY <1>1, <1>5, <1>8, <1>9 DEF TagsValid
<1> QED BY <1>6, <1>8, <1>9, <1>10

-----------------------------------------------------------------------------
(* Memory pointers.                                                          *)

\* The script keeps the machine's stack from its other end.
Reversed(stack, machine) ==
  /\ stack \in Seq(Nat) /\ machine \in Seq(Nat) /\ Len(machine) = Len(stack)
  /\ \A i \in 1..Len(stack) : machine[i] = stack[Len(stack) + 1 - i]

PrologueInv ==
  /\ prologue = [ops |-> prologue.ops, stack |-> prologue.stack, machine |-> prologue.machine,
                memory |-> prologue.memory, verdict |-> prologue.verdict, pointer |-> prologue.pointer]
  /\ prologue.verdict = "none" => Reversed(prologue.stack, prologue.machine)
  /\ PointerIsReal

\* What a passing check compared is what is deployed and allowed.
GuardInv ==
  /\ guard = [pointer |-> guard.pointer, allowed |-> guard.allowed, verdict |-> guard.verdict]
  /\ guard.pointer \in [Contracts -> {0, Broken} \cup Pointers] /\ guard.allowed \in [Contracts -> {0} \cup Pointers]
  /\ guard.verdict = "pass" => ~AllowanceErrors

MemoryInv == PrologueInv /\ GuardInv

LEMMA MemoryInit == MemoryGuardIdle => MemoryInv
<1> SUFFICES ASSUME MemoryGuardIdle PROVE MemoryInv
  OBVIOUS
<1>1. PrologueInv
  BY DEF MemoryGuardIdle, PrologueIdle, PrologueInv, Reversed, PointerIsReal
<1>2. GuardInv
  BY DEF MemoryGuardIdle, GuardIdle, GuardInv
<1> QED BY <1>1, <1>2 DEF MemoryInv

LEMMA PushedBoth ==
  ASSUME NEW s, NEW m, Reversed(s, m), NEW n \in Nat
  PROVE  Reversed(Append(s, n), <<n>> \o m)
<1>1. s \in Seq(Nat) /\ m \in Seq(Nat) /\ Len(m) = Len(s) /\ Len(s) \in Nat
  BY DEF Reversed
<1>2. Append(s, n) \in Seq(Nat) /\ <<n>> \o m \in Seq(Nat) /\ Len(Append(s, n)) = Len(s) + 1 /\ Len(<<n>> \o m) = Len(s) + 1
  BY <1>1
<1>3. ASSUME NEW i \in 1..(Len(s) + 1) PROVE (<<n>> \o m)[i] = Append(s, n)[Len(s) + 2 - i]
  <2>1. CASE i = 1
    BY <1>1, <2>1
  <2>2. CASE i # 1
    <3>1. i - 1 \in 1..Len(s) /\ Len(s) + 1 - (i - 1) = Len(s) + 2 - i /\ Len(s) + 2 - i \in 1..Len(s)
      BY <1>1, <2>2
    <3>2. (<<n>> \o m)[i] = m[i - 1]
      BY <1>1, <3>1
    <3>3. m[i - 1] = s[Len(s) + 1 - (i - 1)]
      BY <3>1 DEF Reversed
    <3>4. Append(s, n)[Len(s) + 2 - i] = s[Len(s) + 2 - i]
      BY <1>1, <3>1
    <3> QED BY <3>1, <3>2, <3>3, <3>4
  <2> QED BY <2>1, <2>2
<1> QED BY <1>1, <1>2, <1>3 DEF Reversed

LEMMA ListOfLength ==
  ASSUME NEW T, NEW n \in Nat, NEW s \in [1..n -> T]
  PROVE  s \in Seq(T) /\ Len(s) = n
<1>1. s \in Seq(T)
  BY SeqDef
<1> QED BY <1>1

LEMMA SwappedBoth ==
  ASSUME NEW s, NEW m, Reversed(s, m), NEW n \in {1, 2}, Len(s) > n
  PROVE  Reversed(Swapped(s, n), [i \in DOMAIN m |-> IF i = 1 THEN m[n + 1] ELSE IF i = n + 1 THEN m[1] ELSE m[i]])
<1> DEFINE l == Len(s)
           t == Swapped(s, n)
           u == [i \in DOMAIN m |-> IF i = 1 THEN m[n + 1] ELSE IF i = n + 1 THEN m[1] ELSE m[i]]
<1>1. s \in Seq(Nat) /\ m \in Seq(Nat) /\ Len(m) = l /\ l \in Nat /\ l > n
  BY DEF Reversed
<1>2. DOMAIN s = 1..l /\ DOMAIN m = 1..l /\ \A i \in 1..l : s[i] \in Nat /\ m[i] \in Nat /\ m[i] = s[l + 1 - i]
  BY <1>1, SMTT(30) DEF Reversed
<1>3. t = [s EXCEPT ![l] = s[l - n], ![l - n] = s[l]]
  <2>1. l + 1 - (n + 1) = l - n /\ l + 1 - 1 = l
    BY <1>1
  <2> QED BY <2>1 DEF Swapped, FromEnd
<1> HIDE DEF l
<1>4. l - n \in 1..l /\ l \in 1..l /\ l - n # l /\ n + 1 \in 1..l /\ 1 \in 1..l /\ n + 1 # 1
  BY <1>1
<1>5. t \in [1..l -> Nat] /\ \A i \in 1..l : t[i] = IF i = l - n THEN s[l] ELSE IF i = l THEN s[l - n] ELSE s[i]
  BY <1>1, <1>2, <1>3, <1>4
<1>6. u \in [1..l -> Nat] /\ \A i \in 1..l : u[i] = IF i = 1 THEN m[n + 1] ELSE IF i = n + 1 THEN m[1] ELSE m[i]
  BY <1>1, <1>2, <1>4
<1> HIDE DEF t, u
<1>7. t \in Seq(Nat) /\ u \in Seq(Nat) /\ Len(t) = l /\ Len(u) = l
  BY <1>1, <1>5, <1>6, ListOfLength, SMTT(30)
<1>8. ASSUME NEW i \in 1..l PROVE u[i] = t[l + 1 - i]
  <2>1. l + 1 - i \in 1..l
    BY <1>1
  <2>2. CASE i = 1
    <3>1. l + 1 - i = l /\ m[n + 1] = s[l + 1 - (n + 1)] /\ l + 1 - (n + 1) = l - n
      BY <1>1, <1>2, <1>4, <2>2
    <3> QED BY <1>4, <1>5, <1>6, <2>2, <3>1
  <2>3. CASE i = n + 1
    <3>1. l + 1 - i = l - n /\ m[1] = s[l]
      BY <1>1, <1>2, <1>4, <2>3
    <3> QED BY <1>4, <1>5, <1>6, <2>3, <3>1
  <2>4. CASE i # 1 /\ i # n + 1
    <3>1. l + 1 - i # l /\ l + 1 - i # l - n /\ m[i] = s[l + 1 - i]
      BY <1>1, <1>2, <2>4
    <3> QED BY <1>4, <1>5, <1>6, <2>1, <2>4, <3>1
  <2> QED BY <2>2, <2>3, <2>4
<1> QED BY <1>1, <1>7, <1>8 DEF Reversed, t, u

LEMMA PrologueStep ==
  ASSUME MemoryGuardAssumption, PrologueInv, NEW o \in Opcodes, Evaluate(o)
  PROVE  PrologueInv'
<1> DEFINE s == prologue.stack
           m == prologue.machine
           offset == FromEnd(s, 1)
           value == FromEnd(s, 2)
           To(stack) == [prologue EXCEPT !.ops = @ + 1, !.stack = stack, !.machine = Machine(o), !.memory = Stored(o)]
           Declined == [To(s) EXCEPT !.verdict = "refused"]
<1>1. Reversed(s, m) /\ prologue.verdict = "none"
  BY DEF Evaluate, PrologueInv
<1>2. ASSUME NEW stack PROVE To(stack) = [ops |-> prologue.ops + 1, stack |-> stack, machine |-> Machine(o),
                                            memory |-> Stored(o), verdict |-> "none", pointer |-> prologue.pointer]
  <2> DEFINE n == prologue.ops
             k == prologue.stack
             b == prologue.machine
             e == prologue.memory
             p == prologue.pointer
             f == n + 1
             z == Machine(o)
             d == Stored(o)
             q == To(stack)
  <2>1. prologue = [ops |-> n, stack |-> k, machine |-> b, memory |-> e, verdict |-> "none", pointer |-> p]
    BY <1>1 DEF PrologueInv
  <2>2. q = [prologue EXCEPT !.ops = f, !.stack = stack, !.machine = z, !.memory = d]
    OBVIOUS
  <2> HIDE DEF n, k, b, e, p, f, z, d, q
  <2>3. q = [ops |-> f, stack |-> stack, machine |-> z, memory |-> d, verdict |-> "none", pointer |-> p]
    BY <2>1, <2>2
  <2> QED BY <2>3 DEF n, f, z, d, p, q
<1>3. ASSUME NEW stack, prologue' = To(stack), Reversed(stack, Machine(o)) PROVE PrologueInv'
  BY <1>2, <1>3 DEF PrologueInv, PointerIsReal
<1>4. ASSUME prologue' = Declined PROVE PrologueInv'
  <2>1. prologue' = [ops |-> prologue.ops + 1, stack |-> s, machine |-> Machine(o),
                     memory |-> Stored(o), verdict |-> "refused", pointer |-> prologue.pointer]
    BY <1>2, <1>4
  <2> QED BY <2>1 DEF PrologueInv, PointerIsReal
<1>5. Len(s) \in Nat /\ Len(m) = Len(s) /\ s \in Seq(Nat) /\ m \in Seq(Nat)
  BY <1>1 DEF Reversed
<1>6. CASE o.op = "push"
  <2>1. o.n \in Nat /\ Machine(o) = <<o.n>> \o m
    BY <1>6 DEF Opcodes, MemoryGuardAssumption, Machine
  <2>2. Reversed(Append(s, o.n), Machine(o))
    BY <1>1, <2>1, PushedBoth
  <2>3. prologue' = To(Append(s, o.n))
    BY <1>6 DEF Evaluate
  <2> QED BY <1>3, <2>2, <2>3
<1>7. CASE o.op = "dup" /\ Len(s) >= o.n
  <2>1. o.n \in {1, 2} /\ Machine(o) = <<m[o.n]>> \o m
    BY <1>5, <1>7 DEF Opcodes, Machine
  <2>2. o.n \in 1..Len(s) /\ m[o.n] = FromEnd(s, o.n) /\ m[o.n] \in Nat
    <3>1. o.n \in 1..Len(s)
      BY <1>5, <1>7, <2>1
    <3>2. m[o.n] = s[Len(s) + 1 - o.n] /\ m[o.n] \in Nat
      <4> DEFINE n == o.n
      <4>1. n \in 1..Len(s) /\ n \in 1..Len(m)
        BY <1>5, <3>1
      <4> HIDE DEF n
      <4>2. m[n] = s[Len(s) + 1 - n]
        BY <1>1, <4>1 DEF Reversed
      <4>3. m[n] \in Nat
        BY <1>5, <4>1
      <4> QED BY <4>2, <4>3 DEF n
    <3> QED BY <3>1, <3>2 DEF FromEnd
  <2>3. Reversed(Append(s, FromEnd(s, o.n)), Machine(o))
    BY <1>1, <2>1, <2>2, PushedBoth
  <2>4. prologue' = To(Append(s, FromEnd(s, o.n)))
    BY <1>7 DEF Evaluate
  <2> QED BY <1>3, <2>3, <2>4
<1>8. CASE o.op = "swap" /\ Len(s) > o.n
  <2>1. o.n \in {1, 2} /\ Machine(o) = [i \in DOMAIN m |-> IF i = 1 THEN m[o.n + 1] ELSE IF i = o.n + 1 THEN m[1] ELSE m[i]]
    BY <1>5, <1>8 DEF Opcodes, Machine
  <2>2. Reversed(Swapped(s, o.n), Machine(o))
    <3>1. Reversed(Swapped(s, o.n), [i \in DOMAIN m |-> IF i = 1 THEN m[o.n + 1] ELSE IF i = o.n + 1 THEN m[1] ELSE m[i]])
      <4> DEFINE n == o.n
      <4>1. Reversed(s, m) /\ n \in {1, 2} /\ Len(s) > n
        BY <1>1, <1>8, <2>1
      <4> HIDE DEF s, m, n
      <4>2. Reversed(Swapped(s, n), [i \in DOMAIN m |-> IF i = 1 THEN m[n + 1] ELSE IF i = n + 1 THEN m[1] ELSE m[i]])
        BY <4>1, SwappedBoth
      <4> QED BY <4>2 DEF n
    <3> QED BY <2>1, <3>1
  <2>3. prologue' = To(Swapped(s, o.n))
    BY <1>8 DEF Evaluate
  <2> QED BY <1>3, <2>2, <2>3
<1>9. CASE o.op = "mstore" /\ Len(s) >= 2
  <2>1. CASE offset # Slot \/ value < Floor \/ value % 32 # 0
    <3>1. prologue' = Declined
      BY <1>9, <2>1 DEF Evaluate
    <3> QED BY <1>4, <3>1
  <2>2. CASE ~(offset # Slot \/ value < Floor \/ value % 32 # 0)
    <3>1. prologue' = [To(SubSeq(s, 1, Len(s) - 2)) EXCEPT !.verdict = "found", !.pointer = value]
      BY <1>9, <2>2 DEF Evaluate
    <3>2. prologue' = [ops |-> prologue.ops + 1, stack |-> SubSeq(s, 1, Len(s) - 2), machine |-> Machine(o),
                       memory |-> Stored(o), verdict |-> "found", pointer |-> value]
      BY <1>2, <3>1
    <3>3. m[1] = offset /\ m[2] = value
      BY <1>1, <1>5, <1>9 DEF Reversed, FromEnd
    <3>4. Stored(o) = value
      BY <1>5, <1>9, <2>2, <3>3 DEF Stored
    <3> QED BY <3>2, <3>4 DEF PrologueInv, PointerIsReal
  <2> QED BY <2>1, <2>2
<1>10. CASE ~(o.op = "push" \/ (o.op = "dup" /\ Len(s) >= o.n) \/ (o.op = "swap" /\ Len(s) > o.n) \/ (o.op = "mstore" /\ Len(s) >= 2))
  <2>1. prologue' = Declined
    BY <1>10 DEF Evaluate
  <2> QED BY <1>4, <2>1
<1> QED BY <1>6, <1>7, <1>8, <1>9, <1>10

LEMMA GuardStep ==
  ASSUME MemoryGuardAssumption, GuardInv,
         \/ \E c \in Contracts : \E pointer \in Pointers \cup {Broken} : Deploy(c, pointer)
         \/ \E c \in Contracts, pointer \in Pointers : Allow(c, pointer)
         \/ CheckGuard
  PROVE  GuardInv'
<1> USE DEF GuardInv
<1>1. ASSUME NEW c \in Contracts, NEW pointer \in Pointers \cup {Broken}, Deploy(c, pointer) PROVE GuardInv'
  <2>1. guard' = [pointer |-> [guard.pointer EXCEPT ![c] = pointer], allowed |-> guard.allowed, verdict |-> "none"]
    BY <1>1 DEF Deploy
  <2> QED BY <2>1
<1>2. ASSUME NEW c \in Contracts, NEW pointer \in Pointers, Allow(c, pointer) PROVE GuardInv'
  <2>1. guard' = [pointer |-> guard.pointer, allowed |-> [guard.allowed EXCEPT ![c] = pointer], verdict |-> "none"]
    BY <1>2 DEF Allow
  <2> QED BY <2>1
<1>3. CASE CheckGuard
  <2>1. guard' = [pointer |-> guard.pointer, allowed |-> guard.allowed, verdict |-> IF AllowanceErrors THEN "fail" ELSE "pass"]
    BY <1>3 DEF CheckGuard
  <2>2. AllowanceErrors' <=> AllowanceErrors
    BY <2>1 DEF AllowanceErrors, AllowanceStale
  <2> QED BY <2>1, <2>2
<1> QED BY <1>1, <1>2, <1>3

LEMMA MemoryStep == MemoryGuardAssumption /\ MemoryInv /\ [MemoryGuardNext]_memory => MemoryInv'
<1> SUFFICES ASSUME MemoryGuardAssumption, MemoryInv, [MemoryGuardNext]_memory PROVE MemoryInv'
  OBVIOUS
<1>1. ASSUME UNCHANGED prologue PROVE PrologueInv'
  BY <1>1 DEF MemoryInv, PrologueInv, PointerIsReal
<1>2. ASSUME UNCHANGED guard PROVE GuardInv'
  BY <1>2 DEF MemoryInv, GuardInv, AllowanceErrors, AllowanceStale
<1>3. ASSUME NEW o \in Opcodes, Evaluate(o) PROVE MemoryInv'
  <2>1. UNCHANGED guard
    BY <1>3 DEF Evaluate
  <2> QED BY <1>2, <1>3, <2>1, PrologueStep DEF MemoryInv
<1>4. CASE \/ \E c \in Contracts : \E pointer \in Pointers \cup {Broken} : Deploy(c, pointer)
           \/ \E c \in Contracts, pointer \in Pointers : Allow(c, pointer)
           \/ CheckGuard
  <2>1. UNCHANGED prologue
    BY <1>4 DEF Deploy, Allow, CheckGuard
  <2>2. GuardInv'
    BY <1>4, GuardStep DEF MemoryInv
  <2> QED BY <1>1, <2>1, <2>2 DEF MemoryInv
<1> QED BY <1>1, <1>2, <1>3, <1>4 DEF MemoryGuardNext, memory, MemoryInv

LEMMA GuardMeasures == MemoryGuardAssumption /\ GuardInv => SpillsMeasured
<1> SUFFICES ASSUME MemoryGuardAssumption, GuardInv, guard.verdict = "pass", NEW c \in Contracts
             PROVE  /\ guard.pointer[c] # 0 => guard.pointer[c] = Floor \/ guard.pointer[c] \in Floor..guard.allowed[c]
                    /\ guard.allowed[c] # 0 => guard.pointer[c] > Floor
  BY DEF SpillsMeasured
<1>1. /\ ~(guard.allowed[c] # 0 /\ guard.pointer[c] = 0) /\ guard.pointer[c] # Broken
      /\ ~(guard.pointer[c] > Floor /\ guard.pointer[c] > guard.allowed[c])
      /\ ~(guard.allowed[c] # 0 /\ guard.pointer[c] = Floor)
  BY DEF GuardInv, AllowanceErrors, AllowanceStale
<1>2. guard.pointer[c] = 0 \/ guard.pointer[c] \in Pointers
  BY <1>1 DEF GuardInv
<1>3. guard.allowed[c] = 0 \/ guard.allowed[c] \in Pointers
  BY DEF GuardInv
<1>4. \A p \in Pointers : p \in Nat /\ p >= Floor
  BY DEF MemoryGuardAssumption
<1>5. Floor = 128
  BY DEF Floor
<1>6. CASE guard.pointer[c] = 0
  BY <1>1, <1>6
<1>7. CASE guard.pointer[c] \in Pointers
  <2>1. guard.pointer[c] \in Nat /\ guard.pointer[c] >= 128 /\ guard.allowed[c] \in Nat
    <3>1. guard.pointer[c] \in Nat /\ guard.pointer[c] >= 128
      BY <1>4, <1>5, <1>7
    <3> DEFINE allowance == guard.allowed[c]
    <3>2. allowance = 0 \/ allowance \in Pointers
      BY <1>3
    <3> HIDE DEF allowance
    <3>3. allowance \in Nat
      <4>1. CASE allowance = 0
        BY <4>1
      <4>2. CASE allowance \in Pointers
        BY <1>4, <4>2
      <4> QED BY <3>2, <4>1, <4>2
    <3> QED BY <3>1, <3>3 DEF allowance
  <2> QED BY <1>1, <1>5, <2>1
<1> QED BY <1>2, <1>6, <1>7

-----------------------------------------------------------------------------
(* Queue names.                                                              *)

\* A verdict is about the declarations and the operation it was given.
QueueInv ==
  /\ queue = [declared |-> queue.declared, named |-> queue.named, native |-> queue.native, verdict |-> queue.verdict]
  /\ queue.declared \in Seq(Declarations)
  /\ queue.verdict = "pass" => queue.native \cap QueueNames = {}

LEMMA QueueInit == QueueCodecIdle => QueueInv
  BY DEF QueueCodecIdle, QueueIdle, QueueInv

LEMMA SameNames ==
  ASSUME UNCHANGED <<queue.declared, queue.named>>
  PROVE  QueueNames' = QueueNames
<1>1. QueueDeclarations' = QueueDeclarations
  BY DEF QueueDeclarations
<1>2. Seeds' = Seeds
  BY <1>1 DEF Seeds
<1> DEFINE step == [names \in SUBSET StorageNames |-> OnePass(names)]
<1>3. step' = step
  BY <1>1 DEF OnePass
<1> HIDE DEF step
<1>4. QueueNames' = Grown(Seeds', step', Cardinality(StorageNames))
  BY DEF QueueNames, step
<1> QED BY <1>2, <1>3, <1>4 DEF QueueNames, step

LEMMA QueueStep == QueueInv /\ [QueueCodecNext]_queue => QueueInv'
<1> SUFFICES ASSUME QueueInv, [QueueCodecNext]_queue PROVE QueueInv'
  OBVIOUS
<1>1. ASSUME NEW d \in Declarations, Declare(d) PROVE QueueInv'
  <2>1. queue' = [declared |-> Append(queue.declared, d), named |-> (queue.named \/ d.kind = "direct"),
                  native |-> queue.native, verdict |-> "none"]
    BY <1>1 DEF Declare, QueueInv
  <2>2. Append(queue.declared, d) \in Seq(Declarations)
    BY DEF QueueInv
  <2> QED BY <2>1, <2>2 DEF QueueInv
<1>2. CASE NameQueue
  <2>1. queue' = [declared |-> queue.declared, named |-> TRUE, native |-> queue.native, verdict |-> "none"]
    BY <1>2 DEF NameQueue, QueueInv
  <2> QED BY <2>1 DEF QueueInv
<1>3. ASSUME NEW name \in StorageNames, Operate(name) PROVE QueueInv'
  <2>1. queue' = [declared |-> queue.declared, named |-> queue.named, native |-> {name}, verdict |-> "none"]
    BY <1>3 DEF Operate, QueueInv
  <2> QED BY <2>1 DEF QueueInv
<1>4. CASE Violations
  <2>1. queue' = [declared |-> queue.declared, named |-> queue.named, native |-> queue.native,
                  verdict |-> IF queue.native \cap QueueNames = {} THEN "pass" ELSE "fail"]
    BY <1>4 DEF Violations, QueueInv
  <2>2. QueueNames' = QueueNames
    BY <2>1, SameNames
  <2> QED BY <2>1, <2>2 DEF QueueInv
<1>5. CASE UNCHANGED queue
  <2>1. QueueNames' = QueueNames
    BY <1>5, SameNames
  <2> QED BY <1>5, <2>1 DEF QueueInv
<1> QED BY <1>1, <1>2, <1>3, <1>4, <1>5 DEF QueueCodecNext

LEMMA NamesClosed ==
  ASSUME QueueCodecAssumption, queue.declared \in Seq(Declarations)
  PROVE  Seeds \subseteq QueueNames /\ OnePass(QueueNames) = QueueNames
<1> DEFINE step == [names \in SUBSET StorageNames |-> OnePass(names)]
           k == Cardinality(StorageNames)
<1>1. IsFiniteSet(StorageNames) /\ k \in Nat /\ k <= k
  BY FS_CardinalityType DEF QueueCodecAssumption
<1>2. ASSUME NEW d \in QueueDeclarations PROVE d.to \in StorageNames
  <2>1. d \in Declarations
    BY DEF QueueDeclarations
  <2> QED BY <2>1 DEF Declarations
<1>3. Seeds \in SUBSET StorageNames
  BY <1>2 DEF Seeds
<1>4. \A X \in SUBSET StorageNames : OnePass(X) \in SUBSET StorageNames /\ X \subseteq OnePass(X)
  BY <1>2 DEF OnePass
<1>5. step \in [SUBSET StorageNames -> SUBSET StorageNames] /\ \A X \in SUBSET StorageNames : step[X] = OnePass(X)
  BY <1>4
<1> HIDE DEF step, k
<1>6. \A X \in SUBSET StorageNames : X \subseteq step[X]
  BY <1>4, <1>5
<1>7. step[Grown(Seeds, step, k)] = Grown(Seeds, step, k)
  BY <1>1, <1>3, <1>5, <1>6, Saturates DEF k
<1>8. Seeds \subseteq Grown(Seeds, step, k) /\ Grown(Seeds, step, k) \in SUBSET StorageNames
  BY <1>1, <1>3, <1>5, <1>6, RoundsHold
<1>9. QueueNames = Grown(Seeds, step, k)
  BY DEF QueueNames, step, k
<1> QED BY <1>5, <1>7, <1>8, <1>9

LEMMA QueueHolds == QueueCodecAssumption /\ QueueInv => NoNativeOperation
<1> SUFFICES ASSUME QueueCodecAssumption, QueueInv, queue.verdict = "pass", NEW name \in queue.native, Stands(name)
             PROVE  FALSE
  BY DEF NoNativeOperation
<1>1. Seeds \subseteq QueueNames /\ OnePass(QueueNames) = QueueNames
  BY NamesClosed DEF QueueInv
<1> DEFINE L == Len(queue.declared)
<1>2. PICK chain \in UNION {[1..n -> DOMAIN queue.declared] : n \in 1..L} :
        LET D(i) == queue.declared[chain[i]]
        IN /\ D(1).kind = "direct" \/ (D(1).kind = "parameter" /\ queue.named)
           /\ \A i \in 2..Len(chain) : D(i).kind = "alias" /\ D(i).from = D(i - 1).to
           /\ D(Len(chain)).to = name
  BY DEF Stands
<1>3. PICK n \in 1..L : chain \in [1..n -> DOMAIN queue.declared]
  OBVIOUS
<1>4. L \in Nat /\ n \in Nat \ {0}
  BY DEF QueueInv
<1>5. Len(chain) = n
  BY <1>3, <1>4, ListOfLength
<1> DEFINE D(i) == queue.declared[chain[i]]
<1>6. D(1).kind = "direct" \/ (D(1).kind = "parameter" /\ queue.named)
  BY <1>2
<1>7. \A i \in 2..n : D(i).kind = "alias" /\ D(i).from = D(i - 1).to
  BY <1>2, <1>5
<1>8. D(n).to = name
  BY <1>2, <1>5
<1>9. \A i \in 1..n : D(i) \in QueueDeclarations
  BY <1>3 DEF QueueDeclarations
<1> HIDE DEF D
<1> DEFINE S == {i \in Nat : i + 1 <= n => D(i + 1).to \in QueueNames}
<1>10. 0 \in S
  <2>1. D(1).to \in Seeds
    BY <1>4, <1>6, <1>9 DEF Seeds
  <2> QED BY <1>1, <2>1
<1>11. ASSUME NEW i \in S PROVE i + 1 \in S
  <2> SUFFICES ASSUME i + 2 <= n PROVE D(i + 2).to \in QueueNames
    BY <1>4
  <2>1. i + 2 \in 2..n /\ (i + 2) - 1 = i + 1 /\ i + 2 \in 1..n /\ i + 1 <= n
    BY <1>4
  <2>2. D(i + 1).to \in QueueNames
    BY <2>1
  <2> HIDE DEF S
  <2>3. D(i + 2).kind = "alias" /\ D(i + 2).from = D(i + 1).to
    BY <1>7, <2>1
  <2>4. D(i + 2).to \in OnePass(QueueNames)
    BY <1>9, <2>1, <2>2, <2>3 DEF OnePass
  <2> QED BY <1>1, <2>4
<1>12. S = Nat
  BY <1>10, <1>11, EveryNatural
<1>13. PICK m \in Nat : n = m + 1 /\ m + 1 <= n
  <2>1. n - 1 \in Nat /\ n = (n - 1) + 1
    BY <1>4
  <2> QED BY <2>1
<1>14. D(m + 1).to \in QueueNames
  BY <1>12, <1>13
<1> QED BY <1>8, <1>13, <1>14 DEF QueueInv

-----------------------------------------------------------------------------
(* Rows of a source.                                                         *)

\* A manifest is bootstrapped from the rows of lines that the extractor accepted, and block rows from the
\* blocks there were.
RowsInv ==
  /\ window = [lines |-> window.lines, reviewed |-> window.reviewed, open |-> window.open]
  /\ window.lines \subseteq AccessLines /\ (window.open => window.reviewed # {})
  /\ blocks = [list |-> blocks.list, reviewed |-> blocks.reviewed, was |-> blocks.was, open |-> blocks.open]
  /\ blocks.list \in Seq(UncheckedBlocks) /\ blocks.was \in Seq(UncheckedBlocks)
  /\ blocks.open => blocks.reviewed = UncheckedKeys(blocks.was)

LEMMA RowsInit == RowsIdleAll => RowsInv
  BY DEF RowsIdleAll, RowsIdle, BlocksIdle, RowsInv

LEMMA Edited ==
  ASSUME NEW T, NEW s \in Seq(T)
  PROVE  /\ \A i \in 1..(Len(s) + 1), e \in T : InsertAt(s, i, e) \in Seq(T)
         /\ \A i \in DOMAIN s : RemoveAt(s, i) \in Seq(T)
<1> DEFINE n == Len(s)
<1>1. n \in Nat /\ DOMAIN s = 1..n /\ \A i \in 1..n : s[i] \in T
  OBVIOUS
<1> HIDE DEF n
<1>2. ASSUME NEW i \in Int, NEW j \in 0..n, i >= 1 PROVE SubSeq(s, i, j) \in Seq(T)
  <2>1. \A k \in i..j : s[k] \in T
    BY <1>1, <1>2
  <2> QED BY <1>2, <2>1, SubSeqProperties
<1>3. ASSUME NEW i \in 1..(n + 1), NEW e \in T PROVE InsertAt(s, i, e) \in Seq(T)
  <2>1. SubSeq(s, 1, i - 1) \in Seq(T) /\ SubSeq(s, i, n) \in Seq(T) /\ <<e>> \in Seq(T)
    BY <1>1, <1>2
  <2> QED BY <2>1 DEF InsertAt, n
<1>4. ASSUME NEW i \in 1..n PROVE RemoveAt(s, i) \in Seq(T)
  <2>1. SubSeq(s, 1, i - 1) \in Seq(T) /\ SubSeq(s, i + 1, n) \in Seq(T)
    BY <1>1, <1>2
  <2> QED BY <2>1 DEF RemoveAt, n
<1> QED BY <1>1, <1>3, <1>4 DEF n

LEMMA RowsStep == RowsInv /\ [RowsNext]_rowvars => RowsInv'
<1> SUFFICES ASSUME RowsInv, [RowsNext]_rowvars PROVE RowsInv'
  OBVIOUS
<1> DEFINE W == /\ window = [lines |-> window.lines, reviewed |-> window.reviewed, open |-> window.open]
                /\ window.lines \subseteq AccessLines /\ (window.open => window.reviewed # {})
           B == /\ blocks = [list |-> blocks.list, reviewed |-> blocks.reviewed, was |-> blocks.was, open |-> blocks.open]
                /\ blocks.list \in Seq(UncheckedBlocks) /\ blocks.was \in Seq(UncheckedBlocks)
                /\ blocks.open => blocks.reviewed = UncheckedKeys(blocks.was)
<1>1. W /\ B
  BY DEF RowsInv
<1>2. CASE WindowNext /\ UNCHANGED blocks
  <2>1. ASSUME NEW l \in AccessLines, window' = [window EXCEPT !.lines = @ \cup {l}] PROVE W'
    BY <1>1, <2>1
  <2>2. ASSUME NEW l \in window.lines, window' = [window EXCEPT !.lines = @ \ {l}] PROVE W'
    BY <1>1, <2>2
  <2>3. ASSUME WindowKeys(window.lines) # {}, window' = [window EXCEPT !.open = TRUE, !.reviewed = WindowKeys(window.lines)]
        PROVE  W'
    BY <1>1, <2>3
  <2>4. W'
    BY <1>2, <2>1, <2>2, <2>3 DEF WindowNext
  <2> QED BY <1>1, <1>2, <2>4 DEF RowsInv
<1>3. CASE BlocksNext /\ UNCHANGED window
  <2>1. ASSUME NEW b \in UncheckedBlocks, NEW i \in 1..(Len(blocks.list) + 1), blocks' = [blocks EXCEPT !.list = InsertAt(@, i, b)]
        PROVE  B'
    <3>1. InsertAt(blocks.list, i, b) \in Seq(UncheckedBlocks)
      BY <1>1, Edited
    <3>2. blocks' = [list |-> InsertAt(blocks.list, i, b), reviewed |-> blocks.reviewed, was |-> blocks.was, open |-> blocks.open]
      BY <1>1, <2>1
    <3> QED BY <1>1, <3>1, <3>2
  <2>2. ASSUME NEW i \in DOMAIN blocks.list, blocks' = [blocks EXCEPT !.list = RemoveAt(@, i)] PROVE B'
    <3>1. RemoveAt(blocks.list, i) \in Seq(UncheckedBlocks)
      BY <1>1, Edited
    <3>2. blocks' = [list |-> RemoveAt(blocks.list, i), reviewed |-> blocks.reviewed, was |-> blocks.was, open |-> blocks.open]
      BY <1>1, <2>2
    <3> QED BY <1>1, <3>1, <3>2
  <2>3. ASSUME blocks' = [blocks EXCEPT !.open = TRUE, !.was = blocks.list, !.reviewed = UncheckedKeys(blocks.list)] PROVE B'
    <3>1. blocks' = [list |-> blocks.list, reviewed |-> UncheckedKeys(blocks.list), was |-> blocks.list, open |-> TRUE]
      BY <1>1, <2>3
    <3> QED BY <1>1, <3>1 DEF UncheckedKeys, Ordinal
  <2>4. B'
    BY <1>3, <2>1, <2>2, <2>3 DEF BlocksNext
  <2> QED BY <1>1, <1>3, <2>4 DEF RowsInv
<1>4. CASE UNCHANGED <<window, blocks>>
  BY <1>1, <1>4 DEF RowsInv, UncheckedKeys, Ordinal
<1> QED BY <1>2, <1>3, <1>4 DEF RowsNext, rowvars

\* Whatever calls carry a reference on, it stands for nothing that its type does not tell.
LEMMA RefersWithin ==
  ASSUME RowsAssumption, NEW F, NEW f \in Functions, NEW a \in DOMAIN Aliases
  PROVE  Refers(F, f, a) \subseteq AliasRoots(F, f, a)
<1> DEFINE U == Functions \X DOMAIN Aliases
           back == [seen \in SUBSET U |-> seen \cup UNION {Passed(F, e) : e \in seen}]
           k == Cardinality(Functions) * Cardinality(DOMAIN Aliases)
           start == {<<f, a>>}
           C == {e \in U : e = <<f, a>> \/ (a \in Takes[f] /\ Aliases[e[2]] = Aliases[a])}
<1>1. \A e \in U : Passed(F, e) \subseteq U
  BY DEF Passed
<1>2. back \in [SUBSET U -> SUBSET U]
  BY <1>1
<1>3. \A X \in SUBSET U : back[X] = X \cup UNION {Passed(F, e) : e \in X}
  OBVIOUS
<1>4. k \in Nat
  <2>1. Cardinality(Functions) \in Nat /\ Cardinality(DOMAIN Aliases) \in Nat
    BY FS_CardinalityType DEF RowsAssumption
  <2> QED BY <2>1
<1>5. start \in SUBSET U /\ start \subseteq C
  OBVIOUS
<1>6. ASSUME NEW e \in C PROVE Passed(F, e) \subseteq C
  BY DEF Passed
<1>7. Refers(F, f, a) = UNION {{m.to : m \in {x \in Mentions(F, e[1]) : x.form = "bind" /\ x.name = e[2]}}
                               : e \in Grown(start, back, k)}
  BY DEF Refers
<1> HIDE DEF back, k
<1>8. \A X \in SUBSET U : X \subseteq C => back[X] \subseteq C
  BY <1>3, <1>6
<1>11. back \in [SUBSET U -> SUBSET U] /\ start \in SUBSET U /\ start \subseteq C /\ C \subseteq U
  BY <1>2, <1>5
<1> HIDE DEF C, U, start
<1>9. Grown(start, back, k) \subseteq C
  <2>1. StaysWithin(U, start, back, C)
    BY <1>8, <1>11 DEF StaysWithin
  <2> QED BY <1>4, <2>1, RoundsStay
<1>10. ASSUME NEW e \in C, NEW m \in Mentions(F, e[1]), m.form = "bind", m.name = e[2]
       PROVE  m.to \in AliasRoots(F, f, a)
  <2>1. CASE e = <<f, a>>
    BY <1>10, <2>1 DEF AliasRoots
  <2>2. CASE a \in Takes[f] /\ Aliases[e[2]] = Aliases[a]
    <3>1. m \in UNION {l.has : l \in F}
      BY <1>10 DEF Mentions
    <3> QED BY <1>10, <2>2, <3>1 DEF AliasRoots, RootsByType
  <2> QED BY <1>10, <2>1, <2>2 DEF C
<1>12. ASSUME NEW r \in Refers(F, f, a) PROVE r \in AliasRoots(F, f, a)
  <2>1. PICK e \in Grown(start, back, k) : r \in {m.to : m \in {x \in Mentions(F, e[1]) : x.form = "bind" /\ x.name = e[2]}}
    BY <1>7
  <2> QED BY <1>9, <1>10, <2>1
<1> QED BY <1>12

\* A line that writes is written in one of these ways.
LEMMA LineForms ==
  ASSUME NEW l \in AccessLines, NEW m \in l.has
  PROVE  /\ l.fn \in Functions
         /\ m.form \in WriteForms => ~Declares(l) /\ m.name \in Roots \cup DOMAIN Aliases
         /\ m.form = "computed" => m.name \in Roots
         /\ m.form = "annotate" => l.has = {m} /\ Declares(l)
<1> USE DEF WriteForms, Mention, Line, Declares
<1>1. PICK f \in Functions :
        \/ \E form \in WriteForms \cup {"read"}, n \in Roots \cup DOMAIN Aliases : l = Line(f, {Mention(form, n, "none")})
        \/ \E r \in Roots, a \in DOMAIN Aliases : l = Line(f, {Mention("read", r, "none"), Mention("assign", a, "none")})
        \/ \E a \in DOMAIN Aliases, r \in Roots : l = Line(f, {Mention("bind", a, r)})
        \/ \E a \in DOMAIN Aliases, g \in Functions : l = Line(f, {Mention("pass", a, g)})
        \/ \E form \in {"computed", "annotate"}, r \in Roots : l = Line(f, {Mention(form, r, "none")})
  BY DEF AccessLines
<1>2. CASE \E form \in WriteForms \cup {"read"}, n \in Roots \cup DOMAIN Aliases : l = Line(f, {Mention(form, n, "none")})
  BY <1>2
<1>3. CASE \E r \in Roots, a \in DOMAIN Aliases : l = Line(f, {Mention("read", r, "none"), Mention("assign", a, "none")})
  BY <1>3
<1>4. CASE \E a \in DOMAIN Aliases, r \in Roots : l = Line(f, {Mention("bind", a, r)})
  BY <1>4
<1>5. CASE \E a \in DOMAIN Aliases, g \in Functions : l = Line(f, {Mention("pass", a, g)})
  BY <1>5
<1>6. CASE \E form \in {"computed", "annotate"}, r \in Roots : l = Line(f, {Mention(form, r, "none")})
  BY <1>6
<1> QED BY <1>1, <1>2, <1>3, <1>4, <1>5, <1>6

LEMMA WritesAreRows ==
  ASSUME RowsAssumption, NEW F \in SUBSET AccessLines, ~AnnotationInvalid(F), NEW w \in TrueWrites(F)
  PROVE  <<w[1], w[2], "WRITE">> \in WindowKeys(F)
<1> DEFINE Of(l, m) == {<<r, l.fn>> : r \in IF m.name \in Roots THEN {m.name} ELSE Refers(F, l.fn, m.name)}
           By(l) == {x \in l.has : \/ x.form \in WriteForms
                                   \/ x.form = "computed" /\ Has(F, l.fn, "annotate", x.name)}
<1>0. TrueWrites(F) = UNION {UNION {Of(l, m) : m \in By(l)} : l \in F}
  BY DEF TrueWrites
<1> HIDE DEF Of, By
<1>1. PICK l \in F : w \in UNION {Of(l, m) : m \in By(l)}
  BY <1>0
<1>2. PICK m \in l.has : w \in Of(l, m) /\ (m.form \in WriteForms \/ (m.form = "computed" /\ Has(F, l.fn, "annotate", m.name)))
  BY <1>1 DEF By
<1>3. PICK r \in IF m.name \in Roots THEN {m.name} ELSE Refers(F, l.fn, m.name) : w = <<r, l.fn>>
  BY <1>2 DEF Of
<1>4. l \in AccessLines /\ l.fn \in Functions
  BY LineForms
<1>5. \A k \in F : \A key \in LineRows(F, k) : key \in WindowKeys(F)
  BY DEF WindowKeys
<1>6. CASE m.form \in WriteForms /\ m.name \in Roots
  <2>1. r = m.name /\ ~Declares(l) /\ ClassifyMode(l, r) = "WRITE" /\ r \in Roots \cap NamedBy(l)
    BY <1>3, <1>4, <1>6, LineForms DEF ClassifyMode, NamedBy
  <2>2. <<r, l.fn, "WRITE">> \in LineRows(F, l)
    BY <2>1 DEF LineRows
  <2> QED BY <1>3, <1>5, <2>2
<1>7. CASE m.form \in WriteForms /\ m.name \notin Roots
  <2>1. m.name \in DOMAIN Aliases /\ ~Declares(l) /\ ClassifyMode(l, m.name) = "WRITE" /\ r \in Refers(F, l.fn, m.name)
    BY <1>3, <1>4, <1>7, LineForms DEF ClassifyMode
  <2>2. r \in AliasRoots(F, l.fn, m.name)
    BY <1>4, <2>1, RefersWithin
  <2>3. r \in WrittenThrough(F, l)
    BY <2>1, <2>2 DEF WrittenThrough
  <2>4. <<r, l.fn, "WRITE">> \in LineRows(F, l)
    BY <2>1, <2>3 DEF LineRows
  <2> QED BY <1>3, <1>5, <2>4
<1>8. CASE m.form = "computed" /\ Has(F, l.fn, "annotate", m.name)
  <2>1. r = m.name
    BY <1>3, <1>4, <1>8, LineForms
  <2>2. PICK x \in Mentions(F, l.fn) : x.form = "annotate" /\ x.name = m.name
    BY <1>8 DEF Has
  <2>3. PICK k \in F : k.fn = l.fn /\ x \in k.has
    BY DEF Mentions
  <2>4. Declares(k)
    BY <2>2, <2>3, LineForms
  <2>5. <<r, l.fn, "WRITE">> \in LineRows(F, k)
    BY <2>1, <2>2, <2>3, <2>4 DEF LineRows
  <2> QED BY <1>3, <1>5, <2>5
<1> QED BY <1>2, <1>6, <1>7, <1>8

LEMMA RowsAreWrites ==
  ASSUME NEW F \in SUBSET AccessLines, NEW k \in WindowKeys(F), k[3] = "WRITE"
  PROVE  \E m \in Mentions(F, k[2]) : m.form \in WriteForms \cup {"annotate"}
<1>1. PICK l \in F : k \in LineRows(F, l)
  BY DEF WindowKeys
<1>2. ASSUME NEW m \in l.has, k[2] = l.fn PROVE m \in Mentions(F, k[2])
  BY <1>2 DEF Mentions
<1>3. CASE Declares(l)
  <2>1. PICK m \in l.has : m.form = "annotate"
    BY <1>3 DEF Declares
  <2>2. k[2] = l.fn
    BY <1>1, <1>3 DEF LineRows
  <2> QED BY <1>2, <2>1, <2>2
<1>4. CASE ~Declares(l)
  <2>1. PICK r \in (Roots \cap NamedBy(l)) \cup WrittenThrough(F, l) :
          k = <<r, l.fn, IF r \in WrittenThrough(F, l) THEN "WRITE" ELSE ClassifyMode(l, r)>>
    BY <1>1, <1>4 DEF LineRows
  <2>2. k[2] = l.fn /\ (r \in WrittenThrough(F, l) \/ ClassifyMode(l, r) = "WRITE")
    BY <2>1
  <2>3. PICK n : ClassifyMode(l, n) = "WRITE"
    BY <2>2 DEF WrittenThrough
  <2>4. PICK m \in l.has : m.form \in WriteForms
    BY <2>3 DEF ClassifyMode
  <2> QED BY <1>2, <2>2, <2>4
<1> QED BY <1>3, <1>4

LEMMA WritesHold == RowsAssumption /\ RowsInv => WritesReviewed
<1> SUFFICES ASSUME RowsAssumption, RowsInv, WindowPasses
             PROVE  /\ \A w \in TrueWrites(window.lines) : <<w[1], w[2], "WRITE">> \in window.reviewed
                    /\ \A k \in window.reviewed : k[3] = "WRITE" =>
                         \E m \in Mentions(window.lines, k[2]) : m.form \in WriteForms \cup {"annotate"}
  BY DEF WritesReviewed
<1>1. window.lines \in SUBSET AccessLines /\ WindowKeys(window.lines) = window.reviewed /\ window.reviewed # {}
  BY DEF RowsInv, WindowPasses, SameKeys
<1>2. ~AnnotationInvalid(window.lines)
  BY <1>1 DEF WindowKeys
<1> QED BY <1>1, <1>2, WritesAreRows, RowsAreWrites

LEMMA WordsHold == WordsReviewed
<1> SUFFICES ASSUME TaintPasses
             PROVE  /\ \A c \in taint.lines : c.form = "call" /\ c.name \in Words =>
                         IF c.callee \in Satellites THEN <<"ARG", c.callee, c.fn>> \in taint.reviewed
                         ELSE \A h \in taint.lines : h.form = "head" /\ h.fn = c.callee /\ h.body /\ h.name \in Words =>
                                <<"PARAM", h.name, h.fn>> \in taint.reviewed
                    /\ \A k \in taint.reviewed : \E l \in taint.lines : l.fn = k[3] /\ k[2] \in {l.name, l.callee}
  BY DEF WordsReviewed
<1>1. taint.reviewed = ParamRows(taint.lines) \cup ArgRows(taint.lines)
  BY DEF TaintPasses, SameKeys, TaintKeys
<1>2. ASSUME NEW c \in taint.lines, c.form = "call", c.name \in Words, c.callee \in Satellites
      PROVE  <<"ARG", c.callee, c.fn>> \in taint.reviewed
  BY <1>1, <1>2 DEF ArgRows
<1>3. ASSUME NEW h \in taint.lines, h.form = "head", h.body, h.name \in Words
      PROVE  <<"PARAM", h.name, h.fn>> \in taint.reviewed
  BY <1>1, <1>3 DEF ParamRows
<1>4. ASSUME NEW k \in taint.reviewed PROVE \E l \in taint.lines : l.fn = k[3] /\ k[2] \in {l.name, l.callee}
  BY <1>1 DEF ParamRows, ArgRows
<1> QED BY <1>2, <1>3, <1>4

\* The blocks of a function are numbered upwards from the first.
LEMMA OrdinalsGrow ==
  ASSUME NEW B \in Seq(UncheckedBlocks), NEW i \in DOMAIN B, NEW j \in DOMAIN B, B[i].fn = B[j].fn, i < j
  PROVE  Ordinal(B, i) \in Nat /\ Ordinal(B, j) \in Nat /\ Ordinal(B, i) < Ordinal(B, j)
<1> DEFINE n == Len(B)
           S == {k \in 1..i : B[k].fn = B[i].fn}
           T == {k \in 1..j : B[k].fn = B[j].fn}
<1>1. n \in Nat /\ i \in 1..n /\ j \in 1..n
  OBVIOUS
<1>2. S \in SUBSET T /\ j \in T /\ j \notin S
  BY <1>1
<1>3. IsFiniteSet(1..j) /\ T \in SUBSET (1..j)
  BY <1>1, FS_Interval
<1> HIDE DEF S, T, n
<1>4. IsFiniteSet(T)
  BY <1>3, FS_Subset
<1>5. IsFiniteSet(S) /\ Cardinality(S) <= Cardinality(T) /\ Cardinality(S) # Cardinality(T)
  BY <1>2, <1>4, FS_Subset
<1>6. Cardinality(S) \in Nat /\ Cardinality(T) \in Nat
  BY <1>4, <1>5, FS_CardinalityType
<1>7. Cardinality(S) < Cardinality(T)
  BY <1>5, <1>6
<1> QED BY <1>6, <1>7 DEF Ordinal, S, T

LEMMA OrdinalsTell ==
  ASSUME NEW B \in Seq(UncheckedBlocks), NEW f, NEW i \in BlocksOf(B, f), NEW j \in BlocksOf(B, f)
  PROVE  /\ i < j <=> Ordinal(B, i) < Ordinal(B, j)
         /\ Ordinal(B, i) = Ordinal(B, j) => i = j
<1>1. i \in DOMAIN B /\ j \in DOMAIN B /\ B[i].fn = B[j].fn
  BY DEF BlocksOf
<1>2. i \in Int /\ j \in Int
  BY <1>1
<1>3. CASE i < j
  <2>1. Ordinal(B, i) \in Nat /\ Ordinal(B, j) \in Nat /\ Ordinal(B, i) < Ordinal(B, j)
    BY <1>1, <1>3, OrdinalsGrow
  <2> QED BY <1>3, <2>1
<1>4. CASE j < i
  <2>1. Ordinal(B, i) \in Nat /\ Ordinal(B, j) \in Nat /\ Ordinal(B, j) < Ordinal(B, i)
    BY <1>1, <1>4, OrdinalsGrow
  <2> QED BY <1>2, <1>4, <2>1
<1>5. CASE i = j
  <2>1. Ordinal(B, i) \in Nat
    <3>1. {k \in 1..i : B[k].fn = B[i].fn} \in SUBSET (1..i) /\ IsFiniteSet(1..i)
      BY <1>2, FS_Interval
    <3>2. IsFiniteSet({k \in 1..i : B[k].fn = B[i].fn})
      BY <3>1, FS_Subset
    <3> QED BY <3>2, FS_CardinalityType DEF Ordinal
  <2> QED BY <1>2, <1>5, <2>1
<1> QED BY <1>2, <1>3, <1>4, <1>5

\* With the same keys every block of one list is that of the other with its number.
LEMMA BlockNumbered ==
  ASSUME NEW B \in Seq(UncheckedBlocks), NEW C \in Seq(UncheckedBlocks), UncheckedKeys(B) = UncheckedKeys(C),
         NEW f, NEW i \in BlocksOf(B, f)
  PROVE  \E j \in BlocksOf(C, f) : Ordinal(C, j) = Ordinal(B, i) /\ C[j].first = B[i].first
<1>0. i \in DOMAIN B /\ B[i].fn = f
  BY DEF BlocksOf
<1>1. <<B[i].fn, Ordinal(B, i), B[i].first>> \in UncheckedKeys(B)
  BY <1>0 DEF UncheckedKeys
<1>2. PICK j \in DOMAIN C : <<B[i].fn, Ordinal(B, i), B[i].first>> = <<C[j].fn, Ordinal(C, j), C[j].first>>
  BY <1>1 DEF UncheckedKeys
<1> QED BY <1>0, <1>2 DEF BlocksOf

LEMMA BlocksHold == RowsInv => BlocksReviewed
<1> SUFFICES ASSUME RowsInv, BlocksPass, NEW f \in Functions PROVE SameBlocks(blocks.list, blocks.was, f)
  BY DEF BlocksReviewed
<1> DEFINE B == blocks.list
           C == blocks.was
<1>1. B \in Seq(UncheckedBlocks) /\ C \in Seq(UncheckedBlocks) /\ UncheckedKeys(B) = UncheckedKeys(C)
  BY DEF RowsInv, BlocksPass, SameKeys
<1> HIDE DEF B, C
<1> DEFINE U == BlocksOf(B, f)
           V == BlocksOf(C, f)
           to == [i \in U |-> CHOOSE j \in V : Ordinal(C, j) = Ordinal(B, i) /\ C[j].first = B[i].first]
<1>2. \A i \in U : to[i] \in V /\ Ordinal(C, to[i]) = Ordinal(B, i) /\ C[to[i]].first = B[i].first
  <2> SUFFICES ASSUME NEW i \in U PROVE to[i] \in V /\ Ordinal(C, to[i]) = Ordinal(B, i) /\ C[to[i]].first = B[i].first
    OBVIOUS
  <2>1. \E j \in V : Ordinal(C, j) = Ordinal(B, i) /\ C[j].first = B[i].first
    <3>1. i \in BlocksOf(B, f)
      OBVIOUS
    <3> HIDE DEF U
    <3> QED BY <1>1, <3>1, BlockNumbered
  <2> HIDE DEF V
  <2> QED BY <2>1
<1>3. to = [i \in U |-> to[i]]
  OBVIOUS
<1> HIDE DEF to
<1>4. to \in [U -> V]
  BY <1>2, <1>3
<1>5. \A i, j \in U : (to[i] = to[j] => i = j) /\ (i < j => to[i] < to[j])
  <2> SUFFICES ASSUME NEW i \in U, NEW j \in U PROVE (to[i] = to[j] => i = j) /\ (i < j => to[i] < to[j])
    OBVIOUS
  <2>1. to[i] \in V /\ to[j] \in V /\ Ordinal(C, to[i]) = Ordinal(B, i) /\ Ordinal(C, to[j]) = Ordinal(B, j)
    BY <1>2
  <2>2. (i < j <=> Ordinal(B, i) < Ordinal(B, j)) /\ (Ordinal(B, i) = Ordinal(B, j) => i = j)
    BY <1>1, OrdinalsTell
  <2>3. to[i] < to[j] <=> Ordinal(C, to[i]) < Ordinal(C, to[j])
    BY <1>1, <2>1, OrdinalsTell
  <2> QED BY <2>1, <2>2, <2>3
<1>6. ASSUME NEW j \in V PROVE \E i \in U : to[i] = j
  <2>1. PICK i \in U : Ordinal(B, i) = Ordinal(C, j)
    <3>1. j \in BlocksOf(C, f)
      OBVIOUS
    <3> HIDE DEF V
    <3> QED BY <1>1, <3>1, BlockNumbered
  <2>2. to[i] \in V /\ Ordinal(C, to[i]) = Ordinal(C, j)
    BY <1>2, <2>1
  <2>3. to[i] = j
    BY <1>1, <2>2, OrdinalsTell
  <2> QED BY <2>3
<1>7. to \in Bijection(U, V)
  <2>1. to \in Injection(U, V)
    BY <1>4, <1>5 DEF Injection, IsInjective
  <2>2. to \in Surjection(U, V)
    BY <1>4, <1>6 DEF Surjection
  <2> QED BY <2>1, <2>2 DEF Bijection
<1>8. \A i \in U : B[i].first = C[to[i]].first /\ \A j \in U : i < j => to[i] < to[j]
  BY <1>2, <1>5
<1> HIDE DEF U, V
<1>9. \E g \in Bijection(U, V) : \A i \in U : B[i].first = C[g[i]].first /\ \A j \in U : i < j => g[i] < g[j]
  BY <1>7, <1>8
<1> QED BY <1>9 DEF SameBlocks, U, V, B, C

-----------------------------------------------------------------------------
(* Calls that may reach a recipient.                                         *)

CallsInv ==
  calls = [program |-> calls.program, reviewed |-> calls.reviewed, open |-> calls.open] /\ calls.program \subseteq Expressions

\* Dangerous functions are those of external calls, and closed under what may come to a dangerous one.
LEMMA DangerousClosed ==
  ASSUME GraphAssumption, NEW P \in SUBSET Expressions
  PROVE  /\ \A y \in P : y.form = "external" => y.owner \in Dangerous(P)
         /\ \A f \in Callables : Edges(P, f) \cap Dangerous(P) # {} => f \in Dangerous(P)
<1> DEFINE start == {x.owner : x \in {y \in P : y.form = "external"}}
           callers == [seen \in SUBSET Callables |-> seen \cup {f \in Callables : Edges(P, f) \cap seen # {}}]
           k == Cardinality(Callables)
<1>1. IsFiniteSet(Callables) /\ k \in Nat /\ k <= k
  BY FS_CardinalityType DEF GraphAssumption
<1>2. start \in SUBSET Callables
  BY DEF Expressions, Expression
<1>3. callers \in [SUBSET Callables -> SUBSET Callables]
  OBVIOUS
<1>4. \A X \in SUBSET Callables : callers[X] = X \cup {f \in Callables : Edges(P, f) \cap X # {}}
  OBVIOUS
<1>5. Dangerous(P) = Grown(start, callers, k)
  BY DEF Dangerous
<1>6. \A y \in P : y.form = "external" => y.owner \in start
  OBVIOUS
<1> HIDE DEF start, callers, k
<1>7. \A X \in SUBSET Callables : X \subseteq callers[X]
  BY <1>4
<1>8. callers[Grown(start, callers, k)] = Grown(start, callers, k)
  BY <1>1, <1>2, <1>3, <1>7, Saturates DEF k
<1>9. start \subseteq Grown(start, callers, k) /\ Grown(start, callers, k) \in SUBSET Callables
  BY <1>1, <1>2, <1>3, <1>7, RoundsHold
<1>10. callers[Dangerous(P)] = Dangerous(P) /\ Dangerous(P) \in SUBSET Callables /\ start \subseteq Dangerous(P)
  BY <1>5, <1>8, <1>9
<1>11. ASSUME NEW f \in Callables, Edges(P, f) \cap Dangerous(P) # {} PROVE f \in Dangerous(P)
  <2>1. f \in callers[Dangerous(P)]
    BY <1>4, <1>10, <1>11
  <2> QED BY <1>10, <2>1
<1> QED BY <1>6, <1>10, <1>11

\* A call none of whose destinations is dangerous runs nothing dangerous, by overrides and pointers too.
LEMMA RunsAreSafe ==
  ASSUME GraphAssumption, NEW P \in SUBSET Expressions, NEW x \in P
  PROVE  /\ RunsOf(P, x) \in SUBSET Callables
         /\ Destinations(P, x) \cap Dangerous(P) = {} => RunsOf(P, x) \subseteq Callables \ Dangerous(P)
<1> DEFINE named == IF x.form = "call" THEN {x.to}
                    ELSE IF x.form = "pointer" THEN {y.to : y \in {z \in P : z.form = "value" /\ FnType[z.to] = x.to}}
                    ELSE {}
           overridden == [seen \in SUBSET Callables |->
                            seen \cup {y.owner : y \in {z \in P : z.form = "override" /\ z.to \in seen}}]
           k == Cardinality(Callables)
           C == Callables \ Dangerous(P)
<1>1. k \in Nat
  BY FS_CardinalityType DEF GraphAssumption
<1>2. \A y \in P : y.owner \in Callables /\ (y.form \in {"call", "value", "override"} => y.to \in Callables)
  BY DEF Expressions, Expression
<1>3. named \in SUBSET Callables
  BY <1>2
<1>4. named \subseteq Destinations(P, x)
  BY DEF Destinations, ReferencesByType
<1>5. overridden \in [SUBSET Callables -> SUBSET Callables]
  BY <1>2
<1>6. \A X \in SUBSET Callables : overridden[X] = X \cup {y.owner : y \in {z \in P : z.form = "override" /\ z.to \in X}}
  OBVIOUS
<1>7. RunsOf(P, x) = Grown(named, overridden, k)
  BY DEF RunsOf
<1>8. ASSUME NEW o \in P, NEW f \in C, o.form = "override", o.to = f PROVE o.owner \in C
  <2>1. o.owner \in {z.owner : z \in {w \in P : w.form = "override" /\ w.to = f}}
    BY <1>8
  <2>2. o.owner \in Edges(P, f)
    BY <2>1 DEF Edges
  <2> QED BY <1>2, <1>8, <2>2, DangerousClosed
<1>9. Destinations(P, x) \cap Dangerous(P) = {} => named \subseteq C
  BY <1>3, <1>4
<1> HIDE DEF named, overridden, k, C
<1>10. ASSUME NEW X \in SUBSET Callables, X \subseteq C PROVE overridden[X] \subseteq C
  <2>1. \A y \in P : y.form = "override" /\ y.to \in X => y.owner \in C
    BY <1>8, <1>10
  <2> QED BY <1>6, <1>10, <2>1
<1>11. Destinations(P, x) \cap Dangerous(P) = {} => Grown(named, overridden, k) \subseteq C
  <2>1. SUFFICES ASSUME named \subseteq C PROVE Grown(named, overridden, k) \subseteq C
    BY <1>9
  <2>2. StaysWithin(Callables, named, overridden, C)
    BY <1>3, <1>5, <1>10, <2>1 DEF StaysWithin
  <2> QED BY <1>1, <2>2, RoundsStay
<1>12. Grown(named, overridden, k) \in SUBSET Callables
  BY <1>1, <1>3, <1>5, SetRounds
<1> QED BY <1>7, <1>11, <1>12 DEF C

LEMMA ReachesSafe ==
  ASSUME GraphAssumption, NEW P \in SUBSET Expressions, NEW x \in P, Destinations(P, x) \cap Dangerous(P) = {}
  PROVE  Reaches(P, x) \subseteq Callables \ Dangerous(P)
<1> DEFINE further == [seen \in SUBSET Callables |-> seen \cup UNION {RunsOf(P, y) : y \in {z \in P : z.owner \in seen}}]
           start == RunsOf(P, x)
           k == Cardinality(Callables)
           C == Callables \ Dangerous(P)
<1>1. k \in Nat
  BY FS_CardinalityType DEF GraphAssumption
<1>2. \A y \in P : RunsOf(P, y) \in SUBSET Callables
  BY RunsAreSafe
<1>3. further \in [SUBSET Callables -> SUBSET Callables]
  BY <1>2
<1>4. \A X \in SUBSET Callables : further[X] = X \cup UNION {RunsOf(P, y) : y \in {z \in P : z.owner \in X}}
  OBVIOUS
<1>5. Reaches(P, x) = Grown(start, further, k)
  BY DEF Reaches
<1>6. start \in SUBSET Callables /\ start \subseteq C
  BY RunsAreSafe
<1>7. ASSUME NEW y \in P, y.owner \in C PROVE RunsOf(P, y) \subseteq C
  <2>1. Destinations(P, y) \subseteq Edges(P, y.owner)
    BY DEF Edges
  <2>2. Edges(P, y.owner) \cap Dangerous(P) = {}
    BY <1>7, DangerousClosed
  <2> QED BY <2>1, <2>2, RunsAreSafe
<1> HIDE DEF further, start, k, C
<1>8. ASSUME NEW X \in SUBSET Callables, X \subseteq C PROVE further[X] \subseteq C
  <2>1. \A y \in P : y.owner \in X => RunsOf(P, y) \subseteq C
    BY <1>7, <1>8
  <2> QED BY <1>4, <1>8, <2>1
<1>9. Grown(start, further, k) \subseteq C
  <2>1. StaysWithin(Callables, start, further, C)
    BY <1>3, <1>6, <1>8 DEF StaysWithin
  <2> QED BY <1>1, <2>1, RoundsStay
<1> QED BY <1>5, <1>9 DEF C

LEMMA RecipientsHold == GraphAssumption /\ CallsInv => RecipientsReviewed
<1> SUFFICES ASSUME GraphAssumption, CallsInv, RecipientsPass, NEW x \in calls.program,
                    x.form = "external" \/ \E y \in calls.program : y.form = "external" /\ y.owner \in Reaches(calls.program, x)
             PROVE  x \in calls.reviewed
  BY DEF RecipientsReviewed
<1> DEFINE P == calls.program
<1>1. P \in SUBSET Expressions /\ calls.reviewed = ReachedCalls(P)
  BY DEF CallsInv, RecipientsPass
<1>2. x.form = "external" => x \in ReachedCalls(P)
  BY DEF ReachedCalls
<1>3. ASSUME NEW y \in P, y.form = "external", y.owner \in Reaches(P, x) PROVE x \in ReachedCalls(P)
  <2>1. y.owner \in Dangerous(P)
    BY <1>1, <1>3, DangerousClosed
  <2>2. Destinations(P, x) \cap Dangerous(P) # {}
    <3>1. ~(Reaches(P, x) \subseteq Callables \ Dangerous(P))
      BY <1>3, <2>1
    <3> HIDE DEF P
    <3> QED BY <1>1, <3>1, ReachesSafe DEF P
  <2> QED BY <2>2 DEF ReachedCalls
<1> QED BY <1>1, <1>2, <1>3

LEMMA CallsStep == CallsInv /\ (CallsNext \/ UNCHANGED calls) => CallsInv'
<1> SUFFICES ASSUME CallsInv, CallsNext \/ UNCHANGED calls PROVE CallsInv'
  OBVIOUS
<1>1. ASSUME NEW x \in Expressions, calls' = [calls EXCEPT !.program = @ \cup {x}] PROVE CallsInv'
  BY <1>1 DEF CallsInv
<1>2. ASSUME NEW x \in calls.program, calls' = [calls EXCEPT !.program = @ \ {x}] PROVE CallsInv'
  BY <1>2 DEF CallsInv
<1>3. ASSUME calls' = [calls EXCEPT !.open = TRUE, !.reviewed = ReachedCalls(calls.program)] PROVE CallsInv'
  BY <1>3 DEF CallsInv
<1>4. ASSUME UNCHANGED calls PROVE CallsInv'
  BY <1>4 DEF CallsInv
<1> QED BY <1>1, <1>2, <1>3, <1>4 DEF CallsNext

-----------------------------------------------------------------------------
(* Routes and runs.                                                          *)

Stops == {Entry, Helper} \X SUBSET Deployments

\* The arguments a route comes to the running function with hold what it has been passed, and its
\* assignments what it has been given; so a delegation is to one of the targets.
Arrived(v) ==
  /\ v[1] = route.fn
  /\ route.param # "none" => route.param \in v[2]
  /\ route.local # "none" => route.local \in Value(route.program, v[1], v[2], Local)

RouteInv ==
  /\ route = [program |-> route.program, serving |-> route.serving, miner |-> route.miner, fn |-> route.fn,
              local |-> route.local, param |-> route.param, delegated |-> route.delegated]
  /\ route.program \subseteq BodyStatements
  /\ route.fn = "none" => route.delegated = {} /\ route.local = "none" /\ route.param = "none"
  /\ route.fn # "none" => \E v \in Visited(route.program) : Arrived(v)
  /\ \A d \in route.delegated :
       /\ \E targets \in DelegateTargets(route.program) : d[2] \in targets
       /\ d[1] = "forward" => \E f \in {Entry, Helper} : Statement(f, "forward", d[2]) \in route.program

LEMMA RouteInit == GraphIdle => CallsInv /\ RouteInv
  BY DEF GraphIdle, CallsIdle, RouteIdle, CallsInv, RouteInv

LEMMA BodyTyped ==
  ASSUME NEW P \in SUBSET BodyStatements, NEW f \in {Entry, Helper}
  PROVE  /\ Body(P, f, "assign") \subseteq Deployments \cup {Param}
         /\ Body(P, f, "call") \subseteq Deployments \cup {Local, Param}
         /\ Body(P, f, "delegate") \subseteq {Local, Param} /\ Body(P, f, "forward") \subseteq Deployments
  BY DEF Body, BodyStatements, Statement

LEMMA ValueTyped ==
  ASSUME RouteAssumption, NEW P \in SUBSET BodyStatements, NEW f \in {Entry, Helper}, NEW args \in SUBSET Deployments,
         NEW x \in Deployments \cup {Local, Param}
  PROVE  Value(P, f, args, x) \in SUBSET Deployments
<1>1. CASE x \in Deployments
  BY <1>1 DEF Value
<1>2. CASE x = Param
  BY <1>2 DEF Value, RouteAssumption, Local, Param
<1>3. CASE x = Local
  <2>1. Value(P, f, args, x) = UNION {IF y = Param THEN args ELSE {y} : y \in Assigned(P, f)}
    BY <1>3 DEF Value, RouteAssumption, Local, Param
  <2>2. Assigned(P, f) \subseteq Deployments \cup {Param}
    BY BodyTyped DEF Assigned
  <2> QED BY <2>1, <2>2
<1> QED BY <1>1, <1>2, <1>3

\* Routes go everywhere from the entry that calls do.
LEMMA VisitedClosed ==
  ASSUME GraphAssumption, RouteAssumption, NEW P \in SUBSET BodyStatements
  PROVE  /\ Visited(P) \in SUBSET Stops /\ <<Entry, {}>> \in Visited(P)
         /\ \A v \in Visited(P) : \A x \in Body(P, v[1], "call") : <<Other(v[1]), Value(P, v[1], v[2], x)>> \in Visited(P)
<1> DEFINE called == [seen \in SUBSET Stops |->
                        seen \cup UNION {{<<Other(v[1]), Value(P, v[1], v[2], x)>> : x \in Body(P, v[1], "call")} : v \in seen}]
           start == {<<Entry, {}>>}
           k == Cardinality(Stops)
<1>1. IsFiniteSet(Stops) /\ k \in Nat /\ k <= k
  <2>1. IsFiniteSet({Entry, Helper})
    <3>1. IsFiniteSet({Entry})
      BY FS_Singleton
    <3>2. {Entry, Helper} = {Entry} \cup {Helper}
      OBVIOUS
    <3> QED BY <3>1, <3>2, FS_AddElement
  <2>2. IsFiniteSet(SUBSET Deployments)
    BY FS_SUBSET DEF GraphAssumption
  <2>3. IsFiniteSet(Stops)
    BY <2>1, <2>2, FS_Product DEF Stops
  <2> QED BY <2>3, FS_CardinalityType
<1>2. start \in SUBSET Stops
  BY DEF Stops
<1>3. ASSUME NEW v \in Stops, NEW x \in Body(P, v[1], "call") PROVE <<Other(v[1]), Value(P, v[1], v[2], x)>> \in Stops
  <2>1. v[1] \in {Entry, Helper} /\ v[2] \in SUBSET Deployments
    BY DEF Stops
  <2>2. x \in Deployments \cup {Local, Param}
    BY <2>1, BodyTyped
  <2>3. Value(P, v[1], v[2], x) \in SUBSET Deployments /\ Other(v[1]) \in {Entry, Helper}
    BY <2>1, <2>2, ValueTyped DEF Other
  <2> QED BY <2>3 DEF Stops
<1>4. \A X \in SUBSET Stops :
        called[X] = X \cup UNION {{<<Other(v[1]), Value(P, v[1], v[2], x)>> : x \in Body(P, v[1], "call")} : v \in X}
  OBVIOUS
<1>5. called \in [SUBSET Stops -> SUBSET Stops]
  <2>1. ASSUME NEW X \in SUBSET Stops
        PROVE  X \cup UNION {{<<Other(v[1]), Value(P, v[1], v[2], x)>> : x \in Body(P, v[1], "call")} : v \in X} \in SUBSET Stops
    BY <1>3
  <2> QED BY <2>1
<1>6. Visited(P) = Grown(start, called, k)
  BY DEF Visited, Stops
<1> HIDE DEF called, k
<1>7. \A X \in SUBSET Stops : X \subseteq called[X]
  BY <1>4
<1> HIDE DEF start
<1>8. called[Grown(start, called, k)] = Grown(start, called, k)
  BY <1>1, <1>2, <1>5, <1>7, Saturates DEF k
<1>9. start \subseteq Grown(start, called, k) /\ Grown(start, called, k) \in SUBSET Stops
  BY <1>1, <1>2, <1>5, <1>7, RoundsHold
<1>10. called[Visited(P)] = Visited(P) /\ Visited(P) \in SUBSET Stops /\ start \subseteq Visited(P)
  BY <1>6, <1>8, <1>9
<1>11. ASSUME NEW v \in Visited(P), NEW x \in Body(P, v[1], "call")
       PROVE  <<Other(v[1]), Value(P, v[1], v[2], x)>> \in Visited(P)
  <2>1. <<Other(v[1]), Value(P, v[1], v[2], x)>> \in called[Visited(P)]
    BY <1>4, <1>10
  <2> QED BY <1>10, <2>1
<1> QED BY <1>10, <1>11 DEF start

LEMMA DelegatesAreTargets ==
  ASSUME NEW P, NEW v \in Visited(P), NEW x \in Body(P, v[1], "delegate") \cup Body(P, v[1], "forward")
  PROVE  Value(P, v[1], v[2], x) \in DelegateTargets(P)
  BY DEF DelegateTargets

\* What a name holds is among the values that the route has for it.
LEMMA HeldIsValue ==
  ASSUME RouteAssumption, NEW v, NEW x \in Deployments \cup {Local, Param}, Held(x) # "none",
         route.param # "none" => route.param \in v[2],
         route.local # "none" => route.local \in Value(route.program, v[1], v[2], Local)
  PROVE  Held(x) \in Value(route.program, v[1], v[2], x)
<1>1. CASE x \in Deployments
  BY <1>1 DEF Held, Value, RouteAssumption
<1>2. CASE x = Param
  BY <1>2 DEF Held, Value, RouteAssumption, Local, Param
<1>3. CASE x = Local
  BY <1>3 DEF Held
<1> QED BY <1>1, <1>2, <1>3

LEMMA RouteStep == GraphAssumption /\ RouteAssumption /\ RouteInv /\ (RouteNext \/ UNCHANGED route) => RouteInv'
<1> SUFFICES ASSUME GraphAssumption, RouteAssumption, RouteInv, RouteNext \/ UNCHANGED route PROVE RouteInv'
  OBVIOUS
<1> DEFINE P == route.program
           T == DelegateTargets(P)
           Delegated(d) == /\ \E targets \in T : d[2] \in targets
                           /\ d[1] = "forward" => \E f \in {Entry, Helper} : Statement(f, "forward", d[2]) \in P
<1>1. P \in SUBSET BodyStatements /\ \A d \in route.delegated : Delegated(d)
  BY DEF RouteInv
<1>2. \A s \in P : s.fn \in {Entry, Helper}
  BY <1>1 DEF BodyStatements, Statement
<1>3. CASE UNCHANGED route
  BY <1>3 DEF RouteInv, Arrived
<1>4. ASSUME route.fn = "none", NEW s \in BodyStatements, route' = [route EXCEPT !.program = @ \cup {s}] PROVE RouteInv'
  <2>1. route' = [program |-> P \cup {s}, serving |-> route.serving, miner |-> route.miner, fn |-> "none",
                  local |-> "none", param |-> "none", delegated |-> {}]
    BY <1>4 DEF RouteInv
  <2> QED BY <1>1, <2>1 DEF RouteInv
<1>5. ASSUME route.fn = "none", NEW serving, NEW miner, route' = [route EXCEPT !.fn = Entry, !.serving = serving, !.miner = miner]
      PROVE  RouteInv'
  <2>1. route' = [program |-> P, serving |-> serving, miner |-> miner, fn |-> Entry,
                  local |-> "none", param |-> "none", delegated |-> {}]
    BY <1>5 DEF RouteInv
  <2>2. <<Entry, {}>> \in Visited(P)
    BY <1>1, VisitedClosed
  <2>3. Arrived(<<Entry, {}>>)'
    BY <2>1 DEF Arrived
  <2> QED BY <1>1, <2>1, <2>2, <2>3 DEF RouteInv, Entry
<1>6. ASSUME NEW form, NEW x, Runs(form, x)
      PROVE  /\ route.fn \in {Entry, Helper} /\ route.fn # "none" /\ x \in Body(P, route.fn, form)
             /\ \E v \in Visited(P) : Arrived(v)
  <2>1. Statement(route.fn, form, x) \in P
    BY <1>6 DEF Runs
  <2>2. route.fn \in {Entry, Helper} /\ x \in Body(P, route.fn, form)
    BY <1>2, <2>1 DEF Statement, Body
  <2>3. route.fn # "none"
    BY <2>2 DEF Entry, Helper
  <2> QED BY <2>2, <2>3 DEF RouteInv
<1>7. ASSUME NEW x \in Deployments \cup {Param}, Runs("assign", x), route' = [route EXCEPT !.local = Held(x)] PROVE RouteInv'
  <2>0. PICK v \in Visited(P) : Arrived(v)
    <3>1. \E v \in Visited(P) : Arrived(v)
      BY <1>6, <1>7
    <3> QED BY <3>1
  <2>1. /\ v[1] = route.fn
        /\ route.param # "none" => route.param \in v[2]
        /\ route.local # "none" => route.local \in Value(P, v[1], v[2], Local)
    BY <2>0 DEF Arrived
  <2>2. route.fn # "none" /\ x \in Assigned(P, v[1])
    BY <1>6, <1>7, <2>1 DEF Assigned
  <2>3. Held(x) # "none" => Held(x) \in Value(P, v[1], v[2], Local)
    <3>1. Value(P, v[1], v[2], Local) = UNION {IF y = Param THEN v[2] ELSE {y} : y \in Assigned(P, v[1])}
      BY DEF Value, RouteAssumption, Local, Param
    <3>2. CASE x = Param
      BY <2>1, <2>2, <3>1, <3>2 DEF Held, Local, Param
    <3>3. CASE x # Param
      <4>1. Held(x) = x
        BY <1>7, <3>3 DEF Held, RouteAssumption
      <4> QED BY <2>2, <3>1, <3>3, <4>1
    <3> QED BY <3>2, <3>3
  <2>4. route' = [program |-> P, serving |-> route.serving, miner |-> route.miner, fn |-> route.fn,
                  local |-> Held(x), param |-> route.param, delegated |-> route.delegated]
    BY <1>7 DEF RouteInv
  <2>5. Arrived(v)'
    BY <2>1, <2>3, <2>4 DEF Arrived
  <2> QED BY <1>1, <2>2, <2>4, <2>5 DEF RouteInv
<1>8. ASSUME NEW x \in Deployments \cup {Local, Param}, Runs("call", x),
             route' = [route EXCEPT !.fn = Other(@), !.param = Held(x), !.local = "none"]
      PROVE  RouteInv'
  <2>0. PICK v \in Visited(P) : Arrived(v)
    <3>1. \E v \in Visited(P) : Arrived(v)
      BY <1>6, <1>8
    <3> QED BY <3>1
  <2>1. /\ v[1] = route.fn
        /\ route.param # "none" => route.param \in v[2]
        /\ route.local # "none" => route.local \in Value(P, v[1], v[2], Local)
    BY <2>0 DEF Arrived
  <2>2. x \in Body(P, v[1], "call") /\ Other(route.fn) # "none"
    BY <1>6, <1>8, <2>1 DEF Other, Entry, Helper
  <2>3. <<Other(v[1]), Value(P, v[1], v[2], x)>> \in Visited(P)
    BY <1>1, <2>2, VisitedClosed
  <2>4. Held(x) # "none" => Held(x) \in Value(P, v[1], v[2], x)
    BY <2>1, HeldIsValue
  <2>5. route' = [program |-> P, serving |-> route.serving, miner |-> route.miner, fn |-> Other(route.fn),
                  local |-> "none", param |-> Held(x), delegated |-> route.delegated]
    BY <1>8 DEF RouteInv
  <2>6. Arrived(<<Other(v[1]), Value(P, v[1], v[2], x)>>)'
    BY <2>1, <2>4, <2>5 DEF Arrived
  <2> QED BY <1>1, <2>2, <2>3, <2>5, <2>6 DEF RouteInv
<1>9. ASSUME NEW form \in {"delegate", "forward"}, NEW x \in Deployments \cup {Local, Param}, Runs(form, x), Held(x) # "none",
             route' = [route EXCEPT !.delegated = {<<form, Held(x)>>}]
      PROVE  RouteInv'
  <2>0. PICK v \in Visited(P) : Arrived(v)
    <3>1. \E v \in Visited(P) : Arrived(v)
      BY <1>6, <1>9
    <3> QED BY <3>1
  <2>1. /\ v[1] = route.fn
        /\ route.param # "none" => route.param \in v[2]
        /\ route.local # "none" => route.local \in Value(P, v[1], v[2], Local)
    BY <2>0 DEF Arrived
  <2>2. route.fn # "none" /\ route.fn \in {Entry, Helper} /\ x \in Body(P, v[1], form)
    BY <1>6, <1>9, <2>1
  <2>3. Held(x) \in Value(P, v[1], v[2], x)
    BY <1>9, <2>1, HeldIsValue
  <2>4. Value(P, v[1], v[2], x) \in T
    BY <1>9, <2>2, DelegatesAreTargets
  <2>5. form = "forward" => Statement(route.fn, "forward", Held(x)) \in P
    <3> SUFFICES ASSUME form = "forward" PROVE Statement(route.fn, "forward", Held(x)) \in P
      OBVIOUS
    <3>1. x \in Deployments
      BY <1>1, <2>1, <2>2, BodyTyped
    <3>2. Held(x) = x
      BY <3>1 DEF Held, RouteAssumption
    <3> QED BY <1>9, <3>2 DEF Runs
  <2>6. route' = [program |-> P, serving |-> route.serving, miner |-> route.miner, fn |-> route.fn,
                  local |-> route.local, param |-> route.param, delegated |-> {<<form, Held(x)>>}]
    BY <1>9 DEF RouteInv
  <2>7. Delegated(<<form, Held(x)>>)
    BY <2>2, <2>3, <2>4, <2>5
  <2>8. Arrived(v)'
    BY <2>1, <2>6 DEF Arrived
  <2> QED BY <1>1, <2>2, <2>6, <2>7, <2>8 DEF RouteInv
<1> QED BY <1>3, <1>4, <1>5, <1>7, <1>8, <1>9 DEF RouteNext

LEMMA RoutesHold == RouteInv => RoutesSound
<1> SUFFICES ASSUME RouteInv, NEW d \in route.delegated
             PROVE  /\ d[2] \in route.serving => d[2] \in Routes(route.program, route.serving)
                    /\ d[1] = "forward" /\ ForwardsChecked(route.program, route.serving) => d[2] \in route.serving
  BY DEF RoutesSound
<1>1. PICK targets \in DelegateTargets(route.program) : d[2] \in targets
  BY DEF RouteInv
<1>2. d[2] \in route.serving => d[2] \in Routes(route.program, route.serving)
  <2>1. d[2] \in UNION DelegateTargets(route.program)
    BY <1>1
  <2> QED BY <2>1 DEF Routes
<1>3. ASSUME d[1] = "forward", ForwardsChecked(route.program, route.serving) PROVE d[2] \in route.serving
  <2>1. PICK f : Statement(f, "forward", d[2]) \in route.program
    BY <1>3 DEF RouteInv
  <2> QED BY <1>3, <2>1 DEF ForwardsChecked, Statement
<1> QED BY <1>2, <1>3

LEMMA GraphGoesOn == GraphAssumption /\ RouteAssumption /\ CallsInv /\ RouteInv /\ [GraphNext]_graphvars => CallsInv' /\ RouteInv'
  BY CallsStep, RouteStep DEF GraphNext, graphvars

-----------------------------------------------------------------------------
(* The dispatch targets: a stack of the targets of the open blocks.          *)

DispatchTokens == DispatchTargets \cup {"open", "close"}
Braces(b, j, tok) == {i \in 1..j : b[i] = tok}
DepthOf(b, j) == Cardinality(Braces(b, j, "open")) - Cardinality(Braces(b, j, "close"))

\* The assignments of b whose block is open at its end and no deeper than d.
Seen(b, d) == {j \in DOMAIN b : b[j] \in DispatchTargets /\ DepthOf(b, j) <= d /\ \A k \in j..Len(b) : DepthOf(b, k) >= DepthOf(b, j)}

\* x is what a dispatch at depth d takes.
Taken(b, d, x) ==
  \/ Seen(b, d) = {} /\ x = "none"
  \/ \E m \in Seen(b, d) : (\A j \in Seen(b, d) : j <= m) /\ x = IF b[m] \in Modules THEN b[m] ELSE "none"

Levels(b, stack) ==
  (\A j \in DOMAIN b : DepthOf(b, j) >= 0) =>
    Len(stack) = DepthOf(b, Len(b)) + 1 /\ \A d \in 0..DepthOf(b, Len(b)) : Taken(b, d, stack[d + 1])

\* Every level of the stack is what its depth takes.
DispatchInv ==
  /\ dispatch = [before |-> dispatch.before, stack |-> dispatch.stack]
  /\ dispatch.before \in Seq(DispatchTokens)
  /\ dispatch.stack \in Seq(Modules \cup {"none"}) /\ dispatch.stack # <<>>
  /\ Levels(dispatch.before, dispatch.stack)

LEMMA FrontKeeps ==
  ASSUME NEW T, NEW s \in Seq(T), s # <<>>
  PROVE  /\ Len(s) \in Nat /\ Len(s) >= 1 /\ s[Len(s)] \in T
         /\ SubSeq(s, 1, Len(s) - 1) \in Seq(T) /\ Len(SubSeq(s, 1, Len(s) - 1)) = Len(s) - 1
         /\ \A i \in 1..(Len(s) - 1) : SubSeq(s, 1, Len(s) - 1)[i] = s[i]
<1> DEFINE n == Len(s)
           m == n - 1
<1>1. n \in Nat /\ n >= 1 /\ \A i \in 1..n : s[i] \in T
  OBVIOUS
<1>2. m \in Nat /\ n = m + 1 /\ 1..m \subseteq 1..n
  BY <1>1
<1> HIDE DEF m
<1>3. SubSeq(s, 1, m) \in Seq(T) /\ Len(SubSeq(s, 1, m)) = m /\ \A i \in 1..m : SubSeq(s, 1, m)[i] = s[i]
  BY <1>1, <1>2, SubSeqProperties
<1> QED BY <1>1, <1>2, <1>3 DEF m

LEMMA DepthIsInt ==
  ASSUME NEW b \in Seq(DispatchTokens), NEW j \in 0..Len(b)
  PROVE  DepthOf(b, j) \in Int
<1>1. ASSUME NEW tok PROVE IsFiniteSet(Braces(b, j, tok))
  <2>1. IsFiniteSet(1..j) /\ Braces(b, j, tok) \subseteq 1..j
    BY FS_Interval DEF Braces
  <2> QED BY <2>1, FS_Subset
<1> QED BY <1>1, FS_CardinalityType DEF DepthOf

LEMMA DepthOfNone ==
  ASSUME NEW b PROVE DepthOf(b, 0) = 0
<1>1. \A tok : Braces(b, 0, tok) = {}
  BY DEF Braces
<1> QED BY <1>1, FS_EmptySet DEF DepthOf

\* Reading on changes no depth before it, and adds what the token says.
LEMMA DepthGrows ==
  ASSUME NEW b \in Seq(DispatchTokens), NEW tok \in DispatchTokens, "open" \notin DispatchTargets, "close" \notin DispatchTargets
  PROVE  /\ \A j \in 0..Len(b) : DepthOf(Append(b, tok), j) = DepthOf(b, j)
         /\ DepthOf(Append(b, tok), Len(b) + 1) =
              DepthOf(b, Len(b)) + (IF tok = "open" THEN 1 ELSE 0) - (IF tok = "close" THEN 1 ELSE 0)
<1> DEFINE n == Len(b)
           c == Append(b, tok)
<1>1. n \in Nat /\ (\A i \in 1..n : c[i] = b[i]) /\ c[n + 1] = tok
  OBVIOUS
<1> HIDE DEF n, c
<1>2. ASSUME NEW j \in 0..n, NEW t PROVE Braces(c, j, t) = Braces(b, j, t)
  BY <1>1 DEF Braces
<1>3. ASSUME NEW t
      PROVE  /\ IsFiniteSet(Braces(b, n, t)) /\ n + 1 \notin Braces(b, n, t)
             /\ Braces(c, n + 1, t) = IF tok = t THEN Braces(b, n, t) \cup {n + 1} ELSE Braces(b, n, t)
  <2>1. IsFiniteSet(1..n) /\ Braces(b, n, t) \subseteq 1..n
    BY <1>1, FS_Interval DEF Braces
  <2>2. IsFiniteSet(Braces(b, n, t))
    BY <2>1, FS_Subset
  <2>3. Braces(c, n + 1, t) = IF tok = t THEN Braces(b, n, t) \cup {n + 1} ELSE Braces(b, n, t)
    BY <1>1 DEF Braces
  <2> QED BY <1>1, <2>1, <2>2, <2>3
<1>4. ASSUME NEW t
      PROVE  /\ Cardinality(Braces(b, n, t)) \in Nat
             /\ Cardinality(Braces(c, n + 1, t)) = Cardinality(Braces(b, n, t)) + (IF tok = t THEN 1 ELSE 0)
  <2> DEFINE old == Braces(b, n, t)
             new == Braces(c, n + 1, t)
  <2>1. IsFiniteSet(old) /\ n + 1 \notin old /\ new = IF tok = t THEN old \cup {n + 1} ELSE old
    BY <1>3
  <2> HIDE DEF old, new
  <2>2. Cardinality(old) \in Nat /\ Cardinality(old \cup {n + 1}) = Cardinality(old) + 1
    BY <2>1, FS_AddElement, FS_CardinalityType
  <2>3. Cardinality(new) = Cardinality(old) + (IF tok = t THEN 1 ELSE 0)
    BY <2>1, <2>2
  <2> QED BY <2>2, <2>3 DEF old, new
<1>5. \A j \in 0..n : DepthOf(c, j) = DepthOf(b, j)
  BY <1>2 DEF DepthOf
<1>6. PICK x \in Nat : x = Cardinality(Braces(b, n, "open"))
  BY <1>4
<1>7. PICK y \in Nat : y = Cardinality(Braces(b, n, "close"))
  BY <1>4
<1>8. Cardinality(Braces(c, n + 1, "open")) = x + (IF tok = "open" THEN 1 ELSE 0)
  BY <1>4, <1>6
<1>9. Cardinality(Braces(c, n + 1, "close")) = y + (IF tok = "close" THEN 1 ELSE 0)
  BY <1>4, <1>7
<1>10. DepthOf(b, n) = x - y /\ DepthOf(c, n + 1) = (x + (IF tok = "open" THEN 1 ELSE 0)) - (y + (IF tok = "close" THEN 1 ELSE 0))
  BY <1>6, <1>7, <1>8, <1>9 DEF DepthOf
<1> QED BY <1>5, <1>10 DEF n, c

\* What is seen after a token: an assignment is last, a closing brace hides what is deeper.
LEMMA SeenGrows ==
  ASSUME SitesAssumption, NEW b \in Seq(DispatchTokens), NEW tok \in DispatchTokens, NEW d \in Int,
         d <= DepthOf(Append(b, tok), Len(b) + 1)
  PROVE  /\ tok \notin DispatchTargets =>
              Seen(Append(b, tok), d) = {j \in Seen(b, d) : DepthOf(b, j) <= DepthOf(Append(b, tok), Len(b) + 1)}
         /\ tok \in DispatchTargets =>
              Seen(Append(b, tok), d) = IF d = DepthOf(b, Len(b)) THEN Seen(b, d) \cup {Len(b) + 1} ELSE Seen(b, d)
         /\ Seen(b, d) \subseteq 1..Len(b)
<1> DEFINE n == Len(b)
           c == Append(b, tok)
           e == DepthOf(c, n + 1)
<1>1. /\ n \in Nat /\ (\A i \in 1..n : c[i] = b[i]) /\ c[n + 1] = tok
      /\ DOMAIN b = 1..n /\ DOMAIN c = 1..(n + 1) /\ Len(c) = n + 1
  OBVIOUS
<1>2. \A j \in 0..n : DepthOf(c, j) = DepthOf(b, j) /\ DepthOf(b, j) \in Int
  BY DepthGrows, DepthIsInt DEF SitesAssumption
<1>3. e \in Int /\ e = DepthOf(b, n) + (IF tok = "open" THEN 1 ELSE 0) - (IF tok = "close" THEN 1 ELSE 0)
  <2>1. e = DepthOf(b, n) + (IF tok = "open" THEN 1 ELSE 0) - (IF tok = "close" THEN 1 ELSE 0)
    BY DepthGrows DEF SitesAssumption
  <2> QED BY <1>1, <1>2, <2>1
<1>4. e = DepthOf(c, n + 1) /\ d <= e
  OBVIOUS
<1> HIDE DEF n, c, e
<1>5. ASSUME NEW j \in 1..n
      PROVE  j \in Seen(c, d) <=> j \in Seen(b, d) /\ DepthOf(b, j) <= e
  <2>1. (\A k \in j..(n + 1) : DepthOf(c, k) >= DepthOf(c, j)) <=> (\A k \in j..n : DepthOf(b, k) >= DepthOf(b, j)) /\ e >= DepthOf(b, j)
    BY <1>1, <1>2, <1>4
  <2>2. DepthOf(c, j) = DepthOf(b, j) /\ c[j] = b[j] /\ DepthOf(b, j) \in Int
    BY <1>1, <1>2
  <2>3. e >= DepthOf(b, j) <=> DepthOf(b, j) <= e
    BY <1>3, <2>2
  <2>4. j \in Seen(c, d) <=> b[j] \in DispatchTargets /\ DepthOf(b, j) <= d /\ \A k \in j..(n + 1) : DepthOf(c, k) >= DepthOf(c, j)
    BY <1>1, <2>2 DEF Seen
  <2>5. j \in Seen(b, d) <=> b[j] \in DispatchTargets /\ DepthOf(b, j) <= d /\ \A k \in j..n : DepthOf(b, k) >= DepthOf(b, j)
    BY <1>1 DEF Seen, n
  <2> QED BY <2>1, <2>3, <2>4, <2>5
<1>6. n + 1 \in Seen(c, d) <=> tok \in DispatchTargets /\ e <= d
  <2>1. \A k \in (n + 1)..(n + 1) : DepthOf(c, k) >= DepthOf(c, n + 1)
    <3>1. \A k \in (n + 1)..(n + 1) : k = n + 1
      BY <1>1
    <3>2. e >= e
      BY <1>3
    <3> QED BY <1>4, <3>1, <3>2
  <2> QED BY <1>1, <1>4, <2>1 DEF Seen
<1>7. Seen(c, d) \subseteq 1..(n + 1) /\ Seen(b, d) \subseteq 1..n
  BY <1>1 DEF Seen
<1>8. CASE tok \notin DispatchTargets
  <2>1. Seen(c, d) = {j \in Seen(b, d) : DepthOf(b, j) <= e}
    BY <1>1, <1>5, <1>6, <1>7, <1>8
  <2> QED BY <1>7, <1>8, <2>1 DEF n, c, e
<1>9. CASE tok \in DispatchTargets
  <2>1. e = DepthOf(b, n)
    BY <1>1, <1>2, <1>3, <1>9 DEF SitesAssumption
  <2>2. e <= d <=> d = DepthOf(b, n)
    BY <1>3, <1>4, <2>1
  <2>3. \A j \in Seen(b, d) : DepthOf(b, j) <= e
    <3>1. ASSUME NEW j \in Seen(b, d) PROVE DepthOf(b, j) <= e
      <4>1. j \in 1..n /\ n \in j..n
        BY <1>1, <1>7
      <4>2. DepthOf(b, n) >= DepthOf(b, j) /\ DepthOf(b, n) \in Int /\ DepthOf(b, j) \in Int
        BY <1>1, <1>2, <4>1 DEF Seen, n
      <4> QED BY <2>1, <4>2
    <3> QED BY <3>1
  <2>4. Seen(c, d) = IF d = DepthOf(b, n) THEN Seen(b, d) \cup {n + 1} ELSE Seen(b, d)
    <3>1. ASSUME NEW j \in 1..n PROVE j \in Seen(c, d) <=> j \in Seen(b, d)
      BY <1>5, <2>3
    <3>2. n + 1 \in Seen(c, d) <=> d = DepthOf(b, n)
      BY <1>6, <1>9, <2>2
    <3>3. 1..(n + 1) = (1..n) \cup {n + 1}
      BY <1>1
    <3>4. CASE d = DepthOf(b, n)
      <4>1. Seen(c, d) = Seen(b, d) \cup {n + 1}
        BY <1>7, <3>1, <3>2, <3>3, <3>4
      <4> QED BY <3>4, <4>1
    <3>5. CASE d # DepthOf(b, n)
      <4>1. Seen(c, d) = Seen(b, d)
        BY <1>7, <3>1, <3>2, <3>3, <3>5
      <4> QED BY <3>5, <4>1
    <3> QED BY <3>4, <3>5
  <2> QED BY <1>7, <1>9, <2>4 DEF n, c
<1> QED BY <1>8, <1>9

LEMMA TakenGrows ==
  ASSUME SitesAssumption, NEW b \in Seq(DispatchTokens), NEW tok \in DispatchTokens, NEW stack \in Seq(Modules \cup {"none"}), stack # <<>>,
         Levels(b, stack)
  PROVE  Levels(Append(b, tok), Stacked(stack, tok))
<1> DEFINE n == Len(b)
           c == Append(b, tok)
           new == Stacked(stack, tok)
           D == DepthOf(b, n)
           e == DepthOf(c, n + 1)
           l == Len(stack)
<1>1. /\ n \in Nat /\ (\A i \in 1..n : c[i] = b[i]) /\ c[n + 1] = tok
      /\ DOMAIN b = 1..n /\ DOMAIN c = 1..(n + 1) /\ Len(c) = n + 1
  OBVIOUS
<1>2. /\ \A j \in 0..n : DepthOf(c, j) = DepthOf(b, j) /\ DepthOf(b, j) \in Int
      /\ D \in Int /\ e = D + (IF tok = "open" THEN 1 ELSE 0) - (IF tok = "close" THEN 1 ELSE 0)
  BY DepthGrows, DepthIsInt DEF SitesAssumption
<1>3. e \in Int
  BY <1>2
<1>4. SUFFICES ASSUME \A j \in DOMAIN c : DepthOf(c, j) >= 0
               PROVE  Len(new) = e + 1 /\ \A d \in 0..e : Taken(c, d, new[d + 1])
  BY <1>1 DEF Levels
<1>5. e \in Nat /\ D \in Nat
  <2>1. e >= 0
    BY <1>1, <1>4
  <2>2. CASE n = 0
    BY <1>3, <2>1, <2>2, DepthOfNone
  <2>3. CASE n # 0
    <3>1. n \in DOMAIN c
      BY <1>1, <2>3
    <3>2. DepthOf(c, n) >= 0 /\ DepthOf(c, n) = D
      BY <1>1, <1>2, <1>4, <3>1
    <3> QED BY <1>2, <1>3, <2>1, <3>2
  <2> QED BY <2>2, <2>3
<1>6. l = D + 1 /\ \A d \in 0..D : Taken(b, d, stack[d + 1])
  <2>1. \A j \in DOMAIN b : DepthOf(b, j) >= 0
    BY <1>1, <1>2, <1>4
  <2> QED BY <2>1 DEF Levels
<1>7. ASSUME NEW d \in 0..e
      PROVE  /\ tok \notin DispatchTargets => Seen(c, d) = {j \in Seen(b, d) : DepthOf(b, j) <= e}
             /\ tok \in DispatchTargets => Seen(c, d) = IF d = D THEN Seen(b, d) \cup {n + 1} ELSE Seen(b, d)
             /\ Seen(b, d) \subseteq 1..n
  <2>1. d \in Int /\ d <= e
    BY <1>3, <1>7
  <2> QED BY <2>1, SeenGrows
<1>8. ASSUME NEW d \in 0..e, NEW x, Seen(c, d) = Seen(b, d), Taken(b, d, x) PROVE Taken(c, d, x)
  <2>1. \A m \in Seen(b, d) : c[m] = b[m]
    BY <1>1, <1>7, <1>8
  <2> QED BY <1>8, <2>1 DEF Taken
<1>9. CASE tok = "open"
  <2>1. new = Append(stack, stack[l]) /\ Len(new) = l + 1 /\ e = D + 1 /\ l \in Nat
    BY <1>2, <1>9 DEF Stacked, Last
  <2>2. \A i \in 1..l : new[i] = stack[i]
    BY <2>1
  <2>3. new[l + 1] = stack[l]
    BY <2>1
  <2>4. ASSUME NEW d \in 0..e PROVE Taken(c, d, new[d + 1])
    <3>1. \A j \in Seen(b, d) : DepthOf(b, j) <= D
      <4> SUFFICES ASSUME NEW j \in Seen(b, d) PROVE DepthOf(b, j) <= D
        OBVIOUS
      <4>1. j \in 1..n /\ n \in j..n
        BY <1>1, <1>7
      <4>2. D >= DepthOf(b, j) /\ DepthOf(b, j) \in Int
        BY <1>1, <1>2, <4>1 DEF Seen
      <4> QED BY <1>2, <4>2
    <3>2. \A j \in Seen(b, d) : DepthOf(b, j) <= e
      BY <1>1, <1>2, <1>7, <2>1, <3>1
    <3>3. Seen(c, d) = Seen(b, d)
      BY <1>7, <1>9, <3>2 DEF SitesAssumption
    <3>4. CASE d = e
      <4>1. Seen(b, d) = Seen(b, D)
        BY <1>1, <1>2, <1>7, <2>1, <3>1, <3>4 DEF Seen
      <4>2. Taken(b, D, stack[D + 1]) /\ new[d + 1] = stack[D + 1]
        BY <1>5, <1>6, <2>1, <2>3, <3>4
      <4>3. Taken(b, d, stack[D + 1])
        BY <4>1, <4>2 DEF Taken
      <4> QED BY <1>8, <3>3, <4>2, <4>3
    <3>5. CASE d # e
      <4>1. d \in 0..D /\ d + 1 \in 1..l
        BY <1>5, <1>6, <2>1, <3>5
      <4>2. Taken(b, d, new[d + 1])
        BY <1>6, <2>2, <4>1
      <4> QED BY <1>8, <3>3, <4>2
    <3> QED BY <3>4, <3>5
  <2> QED BY <1>6, <2>1, <2>4
<1>10. CASE tok = "close"
  <2>1. e = D - 1 /\ l > 1 /\ l \in Nat
    BY <1>2, <1>5, <1>6, <1>10
  <2>2. new = SubSeq(stack, 1, l - 1)
    BY <1>10, <2>1 DEF Stacked, Popped, Front
  <2>3. Len(new) = l - 1 /\ \A i \in 1..(l - 1) : new[i] = stack[i]
    BY <2>1, <2>2
  <2>4. ASSUME NEW d \in 0..e PROVE Taken(c, d, new[d + 1])
    <3>1. d \in 0..D /\ d + 1 \in 1..(l - 1)
      BY <1>5, <1>6, <2>1
    <3>2. \A j \in Seen(b, d) : DepthOf(b, j) <= e
      <4> SUFFICES ASSUME NEW j \in Seen(b, d) PROVE DepthOf(b, j) <= e
        OBVIOUS
      <4>1. DepthOf(b, j) <= d /\ DepthOf(b, j) \in Int
        BY <1>2, <1>7 DEF Seen
      <4> QED BY <1>3, <4>1
    <3>3. Seen(c, d) = Seen(b, d)
      BY <1>7, <1>10, <3>2 DEF SitesAssumption
    <3>4. Taken(b, d, new[d + 1])
      BY <1>6, <2>3, <3>1
    <3> QED BY <1>8, <3>3, <3>4
  <2>5. Len(new) = e + 1
    BY <1>5, <1>6, <2>1, <2>3
  <2> QED BY <2>4, <2>5
<1>11. CASE tok \in DispatchTargets
  <2> DEFINE x == IF tok \in Modules THEN tok ELSE "none"
  <2>1. tok # "open" /\ tok # "close" /\ e = D
    BY <1>2, <1>11 DEF SitesAssumption
  <2>2. new = Append(SubSeq(stack, 1, l - 1), x) /\ l \in Nat /\ l >= 1
    BY <1>5, <1>6, <2>1 DEF Stacked, Front
  <2>3. x \in Modules \cup {"none"}
    OBVIOUS
  <2> HIDE DEF x
  <2>4. Len(new) = l /\ (\A i \in 1..(l - 1) : new[i] = stack[i]) /\ new[l] = x
    <3> DEFINE T == Modules \cup {"none"}
               u == SubSeq(stack, 1, l - 1)
    <3>1. stack \in Seq(T) /\ x \in T
      BY <2>3
    <3> HIDE DEF T
    <3>2. u \in Seq(T) /\ Len(u) = l - 1 /\ \A i \in 1..(l - 1) : u[i] = stack[i]
      BY <3>1, FrontKeeps
    <3>3. new = Append(u, x)
      BY <2>2
    <3> HIDE DEF u, l, new
    <3> QED BY <2>2, <3>1, <3>2, <3>3, AppendProperties
  <2>5. ASSUME NEW d \in 0..e PROVE Taken(c, d, new[d + 1])
    <3>1. CASE d = D
      <4>1. Seen(c, d) = Seen(b, d) \cup {n + 1} /\ Seen(b, d) \subseteq 1..n
        BY <1>7, <1>11, <3>1
      <4>2. n + 1 \in Seen(c, d) /\ \A j \in Seen(c, d) : j <= n + 1
        BY <1>1, <4>1
      <4>3. new[d + 1] = IF c[n + 1] \in Modules THEN c[n + 1] ELSE "none"
        BY <1>1, <1>6, <2>4, <3>1 DEF x
      <4> QED BY <4>2, <4>3 DEF Taken
    <3>2. CASE d # D
      <4>1. d \in 0..D /\ d + 1 \in 1..(l - 1)
        BY <1>5, <1>6, <2>1, <3>2
      <4>2. Seen(c, d) = Seen(b, d)
        BY <1>7, <1>11, <3>2
      <4>3. Taken(b, d, new[d + 1])
        BY <1>6, <2>4, <4>1
      <4> QED BY <1>8, <4>2, <4>3
    <3> QED BY <3>1, <3>2
  <2> QED BY <1>6, <2>1, <2>4, <2>5
<1> QED BY <1>9, <1>10, <1>11 DEF DispatchTokens

LEMMA DispatchInit == dispatch = DispatchIdle => DispatchInv
<1> SUFFICES ASSUME dispatch = DispatchIdle PROVE DispatchInv
  OBVIOUS
<1> DEFINE b == dispatch.before
           stack == dispatch.stack
<1>1. b = <<>> /\ stack = <<"none">> /\ dispatch = [before |-> b, stack |-> stack]
  BY DEF DispatchIdle
<1> HIDE DEF b, stack
<1>2. Len(b) = 0 /\ DOMAIN b = {} /\ Len(stack) = 1 /\ stack[1] = "none"
  BY <1>1
<1>3. Seen(b, 0) = {}
  BY <1>2 DEF Seen
<1>4. Levels(b, stack)
  <2>1. DepthOf(b, Len(b)) = 0
    BY <1>2, DepthOfNone
  <2>2. Taken(b, 0, stack[1])
    BY <1>2, <1>3 DEF Taken
  <2> QED BY <1>2, <2>1, <2>2 DEF Levels
<1>5. b \in Seq(DispatchTokens) /\ stack \in Seq(Modules \cup {"none"}) /\ stack # <<>>
  BY <1>1
<1> QED BY <1>1, <1>4, <1>5 DEF DispatchInv, b, stack

LEMMA DispatchStep == SitesAssumption /\ DispatchInv /\ [SitesNext]_callsites => DispatchInv'
<1> SUFFICES ASSUME SitesAssumption, DispatchInv, [SitesNext]_callsites PROVE DispatchInv'
  OBVIOUS
<1>1. CASE UNCHANGED dispatch
  BY <1>1 DEF DispatchInv
<1>2. CASE ReadTarget
  <2> DEFINE b == dispatch.before
             stack == dispatch.stack
  <2>1. PICK tok \in DispatchTokens : dispatch' = [before |-> Append(b, tok), stack |-> Stacked(stack, tok)]
    BY <1>2 DEF ReadTarget, DispatchTokens
  <2>2. b \in Seq(DispatchTokens) /\ stack \in Seq(Modules \cup {"none"}) /\ stack # <<>> /\ Levels(b, stack)
    BY DEF DispatchInv
  <2> HIDE DEF b, stack
  <2>3. Levels(Append(b, tok), Stacked(stack, tok))
    BY <2>2, TakenGrows
  <2>4. Stacked(stack, tok) \in Seq(Modules \cup {"none"}) /\ Stacked(stack, tok) # <<>>
    <3> DEFINE T == Modules \cup {"none"}
    <3>1. stack[Len(stack)] \in T /\ SubSeq(stack, 1, Len(stack) - 1) \in Seq(T) /\ stack \in Seq(T) /\ Len(stack) \in Nat
      BY <2>2, FrontKeeps
    <3>2. Len(stack) > 1 => SubSeq(stack, 1, Len(stack) - 1) # <<>>
      <4> DEFINE f == SubSeq(stack, 1, Len(stack) - 1)
      <4>1. Len(f) = Len(stack) - 1
        BY <2>2, FrontKeeps
      <4> HIDE DEF f
      <4>2. f = <<>> => Len(f) = 0
        OBVIOUS
      <4>3. Len(stack) > 1 => Len(f) # 0
        BY <3>1, <4>1
      <4>4. Len(stack) > 1 => f # <<>>
        BY <4>2, <4>3
      <4> QED BY <4>4 DEF f
    <3>3. (IF tok \in Modules THEN tok ELSE "none") \in T
      OBVIOUS
    <3> DEFINE u == SubSeq(stack, 1, Len(stack) - 1)
               x == IF tok \in Modules THEN tok ELSE "none"
    <3> HIDE DEF T
    <3>4. CASE tok = "open"
      <4>1. Stacked(stack, tok) = Append(stack, stack[Len(stack)])
        BY <3>4 DEF Stacked, Last
      <4> QED BY <3>1, <4>1, AppendProperties DEF T
    <3>5. CASE tok = "close"
      BY <2>2, <3>1, <3>2, <3>5 DEF Stacked, Popped, Front, T
    <3>6. CASE tok # "open" /\ tok # "close"
      <4>1. Stacked(stack, tok) = Append(u, x)
        BY <3>6 DEF Stacked, Front
      <4>2. u \in Seq(T) /\ x \in T
        BY <3>1, <3>3
      <4> HIDE DEF u, x
      <4> QED BY <4>1, <4>2, AppendProperties DEF T
    <3> QED BY <3>4, <3>5, <3>6 DEF T
  <2>5. Append(b, tok) \in Seq(DispatchTokens)
    BY <2>2, AppendProperties
  <2> QED BY <2>1, <2>3, <2>4, <2>5 DEF DispatchInv
<1>3. CASE ScanCalls
  BY <1>1, <1>3 DEF ScanCalls
<1> QED BY <1>1, <1>2, <1>3 DEF SitesNext, callsites

LEMMA TargetsHold == DispatchInv => TargetIsLexical
<1> SUFFICES ASSUME DispatchInv, \A j \in DOMAIN dispatch.before : Depth(j) >= 0
             PROVE  Last(dispatch.stack) =
                      IF Visible = {} THEN "none"
                      ELSE LET t == dispatch.before[Max(Visible)] IN IF t \in Modules THEN t ELSE "none"
  BY DEF TargetIsLexical
<1> DEFINE b == dispatch.before
           stack == dispatch.stack
           D == DepthOf(b, Len(b))
<1>1. \A j : Depth(j) = DepthOf(b, j)
  BY DEF Depth, DepthOf, Braces
<1>2. b \in Seq(DispatchTokens) /\ Len(stack) = D + 1 /\ \A d \in 0..D : Taken(b, d, stack[d + 1])
  BY <1>1 DEF DispatchInv, Levels
<1>3. Len(b) \in Nat /\ DOMAIN b = 1..Len(b) /\ \A j \in 0..Len(b) : DepthOf(b, j) \in Int
  BY <1>2, DepthIsInt
<1>4. D \in Nat
  <2>1. stack \in Seq(Modules \cup {"none"})
    BY DEF DispatchInv
  <2>2. Len(stack) \in Nat /\ Len(stack) # 0
    BY <2>1 DEF DispatchInv
  <2>3. D \in Int
    BY <1>3
  <2> QED BY <1>2, <2>2, <2>3
<1>5. Visible = Seen(b, D)
  <2>1. ASSUME NEW j \in 1..Len(b), \A k \in j..Len(b) : DepthOf(b, k) >= DepthOf(b, j) PROVE DepthOf(b, j) <= D
    <3>1. Len(b) \in j..Len(b) /\ j \in 0..Len(b)
      BY <1>3
    <3>2. D >= DepthOf(b, j) /\ DepthOf(b, j) \in Int
      BY <1>3, <2>1, <3>1
    <3> QED BY <1>4, <3>2
  <2> QED BY <1>1, <1>3, <2>1 DEF Visible, Seen
<1>6. Last(stack) = stack[D + 1] /\ Taken(b, D, stack[D + 1])
  BY <1>2, <1>4 DEF Last
<1>7. CASE Seen(b, D) = {}
  BY <1>5, <1>6, <1>7 DEF Taken
<1>8. ASSUME NEW m \in Seen(b, D), \A j \in Seen(b, D) : j <= m, stack[D + 1] = IF b[m] \in Modules THEN b[m] ELSE "none"
      PROVE  Last(stack) = LET t == b[Max(Visible)] IN IF t \in Modules THEN t ELSE "none"
  <2>1. Seen(b, D) \subseteq Nat
    BY <1>3 DEF Seen
  <2>2. Max(Seen(b, D)) = m
    <3>1. m \in Seen(b, D) /\ \A y \in Seen(b, D) : m >= y
      BY <1>8, <2>1
    <3>2. ASSUME NEW x \in Seen(b, D), \A y \in Seen(b, D) : x >= y PROVE x = m
      BY <1>8, <2>1, <3>2
    <3> HIDE DEF b, D
    <3> QED BY <3>1, <3>2 DEF Max
  <2> QED BY <1>5, <1>6, <1>8, <2>2
<1> QED BY <1>5, <1>6, <1>7, <1>8 DEF Taken

-----------------------------------------------------------------------------
(* The calls: the scan of the code and of the assembly lines, side by side.  *)

\* What may be open: blocks, and one of them assembly.
CodeStates == [nest : Seq({"asm", "apart", "block"}), last : SiteTokens, called : {"no", "tried", "bare"}, ok : BOOLEAN]
AsmStates == [depth : Int, inside : BOOLEAN, at : Int, opened : BOOLEAN]

\* The block a token opens.
Kind(c, tok) == IF tok = "assembly" THEN "asm" ELSE IF c.last = "apart" THEN "apart" ELSE "block"

\* How a token changes the truth.
LEMMA ExtendIs ==
  ASSUME NEW c, NEW tok
  PROVE  /\ Extend(c, tok).last = tok
         /\ Extend(c, tok).ok = (c.ok /\ Follows(c, tok))
         /\ tok \in {"open", "assembly"} => Extend(c, tok).nest = Append(c.nest, Kind(c, tok))
         /\ tok = "close" /\ c.nest # <<>> => Extend(c, tok).nest = SubSeq(c.nest, 1, Len(c.nest) - 1)
         /\ tok \notin {"open", "assembly", "close"} => Extend(c, tok).nest = c.nest
         /\ tok = "close" /\ c.nest = <<>> => Extend(c, tok).nest = c.nest
         /\ tok \in Delimiters => Extend(c, tok).called = "no"
         /\ tok \in {"call", "split"} => Extend(c, tok).called = IF c.last = "try" THEN "tried" ELSE "bare"
         /\ tok \notin Delimiters \cup {"call", "split"} => Extend(c, tok).called = c.called
<1> DEFINE d == Extend(c, tok)
           m == c.nest
           inner == CASE tok = "assembly" -> Append(m, "asm")
                      [] tok = "open" -> Append(m, IF c.last = "apart" THEN "apart" ELSE "block")
                      [] tok = "close" /\ m # <<>> -> Front(m)
                      [] OTHER -> m
           called == CASE tok \in Delimiters -> "no"
                       [] tok \in {"call", "split"} -> IF c.last = "try" THEN "tried" ELSE "bare"
                       [] OTHER -> c.called
           good == c.ok /\ Follows(c, tok)
<1>1. d = [nest |-> inner, last |-> tok, called |-> called, ok |-> good]
  BY DEF Extend
<1>2. /\ tok \in {"open", "assembly"} => inner = Append(m, Kind(c, tok))
      /\ tok = "close" /\ m # <<>> => inner = Front(m)
      /\ tok \notin {"open", "assembly", "close"} => inner = m
      /\ tok = "close" /\ m = <<>> => inner = m
  <2>1. CASE tok = "assembly"
    BY <2>1 DEF Kind
  <2>2. CASE tok = "open"
    BY <2>2 DEF Kind
  <2>3. CASE tok \notin {"open", "assembly"}
    BY <2>3
  <2> QED BY <2>1, <2>2, <2>3
<1>3. /\ tok \in Delimiters => called = "no"
      /\ tok \in {"call", "split"} => called = IF c.last = "try" THEN "tried" ELSE "bare"
      /\ tok \notin Delimiters \cup {"call", "split"} => called = c.called
  <2>1. "call" \notin Delimiters /\ "split" \notin Delimiters
    BY DEF Delimiters
  <2> QED BY <2>1
<1>4. Front(m) = SubSeq(m, 1, Len(m) - 1)
  BY DEF Front
<1> HIDE DEF d, m, inner, called, good
<1>5. d.nest = inner /\ d.last = tok /\ d.called = called /\ d.ok = good
  BY <1>1
<1> QED BY <1>2, <1>3, <1>4, <1>5 DEF d, m, good

LEMMA ExtendTyped ==
  ASSUME NEW c \in CodeStates, NEW tok \in SiteTokens
  PROVE  Extend(c, tok) \in CodeStates
<1> DEFINE K == {"asm", "apart", "block"}
           m == c.nest
           d == Extend(c, tok)
<1>1. m \in Seq(K) /\ Kind(c, tok) \in K /\ c.called \in {"no", "tried", "bare"} /\ c.ok \in BOOLEAN
  BY DEF CodeStates, Kind
<1>2. d.nest \in Seq(K)
  <2> HIDE DEF K, d
  <2>1. CASE tok \in {"open", "assembly"}
    <3>1. d.nest = Append(m, Kind(c, tok))
      BY <2>1, ExtendIs DEF d
    <3> HIDE DEF m
    <3> QED BY <1>1, <3>1, AppendProperties
  <2>2. CASE tok = "close" /\ m # <<>>
    <3>1. d.nest = SubSeq(m, 1, Len(m) - 1)
      BY <2>2, ExtendIs DEF d
    <3> HIDE DEF m
    <3> QED BY <1>1, <2>2, <3>1, FrontKeeps
  <2>3. CASE tok \notin {"open", "assembly"} /\ ~(tok = "close" /\ m # <<>>)
    <3>1. d.nest = m
      BY <2>3, ExtendIs DEF d
    <3> QED BY <1>1, <3>1
  <2> QED BY <2>1, <2>2, <2>3
<1>3. d.last \in SiteTokens
  BY ExtendIs
<1>4. d.called \in {"no", "tried", "bare"}
  <2>1. CASE tok \in Delimiters
    BY <2>1, ExtendIs
  <2>2. CASE tok \in {"call", "split"}
    <3>1. d.called = IF c.last = "try" THEN "tried" ELSE "bare"
      BY <2>2, ExtendIs
    <3> HIDE DEF d
    <3> QED BY <3>1
  <2>3. CASE tok \notin Delimiters \cup {"call", "split"}
    BY <1>1, <2>3, ExtendIs
  <2> QED BY <2>1, <2>2, <2>3
<1>5. d.ok \in BOOLEAN
  <2> DEFINE good == c.ok /\ Follows(c, tok)
  <2>1. d.ok = good
    BY ExtendIs
  <2>2. good \in BOOLEAN
    BY Zenon
  <2> HIDE DEF good, d
  <2> QED BY <2>1, <2>2
<1>6. d = [nest |-> d.nest, last |-> d.last, called |-> d.called, ok |-> d.ok]
  BY DEF Extend
<1> HIDE DEF d, K
<1>7. d \in [nest : Seq(K), last : SiteTokens, called : {"no", "tried", "bare"}, ok : BOOLEAN]
  BY <1>2, <1>3, <1>4, <1>5, <1>6
<1> QED BY <1>7 DEF CodeStates, d, K

\* How a token changes what assembly_lines knows.
LEMMA AsmTokenIs ==
  ASSUME NEW a \in AsmStates, NEW tok
  PROVE  /\ tok = "assembly" /\ ~a.inside =>
              AsmToken(a, tok) = [depth |-> a.depth + 1, inside |-> TRUE, at |-> a.depth, opened |-> TRUE]
         /\ tok = "open" \/ (tok = "assembly" /\ a.inside) =>
              AsmToken(a, tok) = [depth |-> a.depth + 1, inside |-> a.inside, at |-> a.at, opened |-> a.opened]
         /\ tok = "close" =>
              AsmToken(a, tok) = [depth |-> a.depth - 1, inside |-> (a.inside /\ a.depth - 1 # a.at), at |-> a.at, opened |-> a.opened]
         /\ tok \notin {"open", "assembly", "close"} => AsmToken(a, tok) = a
<1>1. a = [depth |-> a.depth, inside |-> a.inside, at |-> a.at, opened |-> a.opened]
  BY DEF AsmStates
<1>2. CASE tok = "assembly" /\ ~a.inside
  BY <1>2 DEF AsmToken
<1>3. CASE tok = "open" \/ (tok = "assembly" /\ a.inside)
  <2> DEFINE x == a.depth + 1
  <2>1. AsmToken(a, tok) = [a EXCEPT !.depth = x]
    BY <1>3 DEF AsmToken
  <2> HIDE DEF x
  <2>2. AsmToken(a, tok) = [depth |-> x, inside |-> a.inside, at |-> a.at, opened |-> a.opened]
    BY <1>1, <2>1
  <2> QED BY <1>3, <2>2 DEF x
<1>4. CASE tok = "close"
  <2> DEFINE x == a.depth - 1
             y == a.inside /\ a.depth - 1 # a.at
  <2>1. AsmToken(a, tok) = [a EXCEPT !.depth = x, !.inside = y]
    BY <1>4 DEF AsmToken
  <2> HIDE DEF x, y
  <2>2. AsmToken(a, tok) = [depth |-> x, inside |-> y, at |-> a.at, opened |-> a.opened]
    BY <1>1, <2>1
  <2> QED BY <1>4, <2>2 DEF x, y
<1>5. CASE tok \notin {"open", "assembly", "close"}
  BY <1>5 DEF AsmToken
<1> QED BY <1>2, <1>3, <1>4, <1>5

LEMMA AsmTyped ==
  ASSUME NEW a \in AsmStates, NEW tok \in SiteTokens
  PROVE  AsmToken(a, tok) \in AsmStates
<1>1. a.depth \in Int /\ a.inside \in BOOLEAN /\ a.at \in Int /\ a.opened \in BOOLEAN
  BY DEF AsmStates
<1>2. CASE tok = "assembly" /\ ~a.inside
  <2>1. AsmToken(a, tok) = [depth |-> a.depth + 1, inside |-> TRUE, at |-> a.depth, opened |-> TRUE]
    BY <1>2, AsmTokenIs
  <2> QED BY <1>1, <2>1 DEF AsmStates
<1>3. CASE tok = "open" \/ (tok = "assembly" /\ a.inside)
  <2>1. AsmToken(a, tok) = [depth |-> a.depth + 1, inside |-> a.inside, at |-> a.at, opened |-> a.opened]
    BY <1>3, AsmTokenIs
  <2> QED BY <1>1, <2>1 DEF AsmStates
<1>4. CASE tok = "close"
  <2> DEFINE b == a.inside /\ a.depth - 1 # a.at
  <2>1. AsmToken(a, tok) = [depth |-> a.depth - 1, inside |-> b, at |-> a.at, opened |-> a.opened]
    BY <1>4, AsmTokenIs
  <2>2. b \in BOOLEAN
    BY <1>1
  <2> HIDE DEF b
  <2> QED BY <1>1, <2>1, <2>2 DEF AsmStates
<1>5. CASE tok \notin {"open", "assembly", "close"}
  BY <1>5, AsmTokenIs
<1> QED BY <1>2, <1>3, <1>4, <1>5

LEMMA CodeAlong ==
  ASSUME code \in CodeStates, NEW line \in Seq(SiteTokens)
  PROVE  /\ Along(line)[0] = code /\ \A i \in 0..Len(line) : Along(line)[i] \in CodeStates
         /\ \A i \in 1..Len(line) : Along(line)[i] = Extend(Along(line)[i - 1], line[i])
<1> DEFINE step == [p \in CodeStates \X SiteTokens |-> Extend(p[1], p[2])]
           n == Len(line)
           at[i \in 0..Len(line)] == IF i = 0 THEN code ELSE Extend(at[i - 1], line[i])
<1>1. step \in [CodeStates \X SiteTokens -> CodeStates]
  BY ExtendTyped
<1>2. n \in Nat /\ \A i \in 1..n : line[i] \in SiteTokens
  OBVIOUS
<1>3. PICK f : ScanOf(CodeStates, f, code, step, line)
  <2> HIDE DEF step
  <2> QED BY <1>1, ScanExists
<1>4. f = [i \in 0..Len(line) |-> IF i = 0 THEN code ELSE Extend(f[i - 1], line[i])]
  <2> DEFINE h == [i \in 0..Len(line) |-> IF i = 0 THEN code ELSE Extend(f[i - 1], line[i])]
  <2>1. ASSUME NEW i \in 0..n PROVE f[i] = h[i]
    <3>1. CASE i = 0
      BY <1>3, <3>1 DEF ScanOf
    <3>2. CASE i # 0
      <4>1. i \in 1..n /\ i - 1 \in 0..n
        BY <1>2, <3>2
      <4>2. f[i] = step[<<f[i - 1], line[i]>>]
        <5> HIDE DEF step
        <5> QED BY <1>3, <4>1 DEF ScanOf
      <4>3. <<f[i - 1], line[i]>> \in CodeStates \X SiteTokens
        BY <1>2, <1>3, <4>1 DEF ScanOf
      <4>4. step[<<f[i - 1], line[i]>>] = Extend(f[i - 1], line[i])
        BY <4>3
      <4> QED BY <3>2, <4>2, <4>4
    <3> QED BY <3>1, <3>2
  <2> QED BY <1>3, <2>1 DEF ScanOf
<1>5. Along(line) = at
  BY Zenon DEF Along, Scanned
<1>6. at = [i \in 0..Len(line) |-> IF i = 0 THEN code ELSE Extend(at[i - 1], line[i])]
  BY <1>4, Zenon DEF at
<1> HIDE DEF at
<1>7. at[0] = code /\ \A i \in 1..n : at[i] = Extend(at[i - 1], line[i])
  BY <1>2, <1>6
<1>8. \A i \in 0..n : at[i] \in CodeStates
  <2> DEFINE S == {i \in 0..n : at[i] \in CodeStates}
  <2>1. 0 \in S
    BY <1>2, <1>7
  <2>2. ASSUME NEW i \in 1..n, i - 1 \in S PROVE i \in S
    <3>1. at[i] = Extend(at[i - 1], line[i]) /\ line[i] \in SiteTokens /\ at[i - 1] \in CodeStates /\ i \in 0..n
      BY <1>2, <1>7, <2>2
    <3> QED BY <3>1, ExtendTyped
  <2> HIDE DEF S
  <2>3. 0..n \subseteq S
    BY <1>2, <2>1, <2>2, EachUpTo
  <2> QED BY <2>3 DEF S
<1> QED BY <1>5, <1>7, <1>8

LEMMA AsmScan ==
  ASSUME asm \in AsmStates, NEW line \in Seq(SiteTokens)
  PROVE  /\ AsmAlong(line)[0] = [asm EXCEPT !.opened = FALSE]
         /\ \A i \in 0..Len(line) : AsmAlong(line)[i] \in AsmStates
         /\ \A i \in 1..Len(line) : AsmAlong(line)[i] = AsmToken(AsmAlong(line)[i - 1], line[i])
<1> DEFINE fresh == [asm EXCEPT !.opened = FALSE]
           step == [p \in AsmStates \X SiteTokens |-> AsmToken(p[1], p[2])]
           n == Len(line)
           at[i \in 0..Len(line)] == IF i = 0 THEN fresh ELSE AsmToken(at[i - 1], line[i])
<1>1. step \in [AsmStates \X SiteTokens -> AsmStates] /\ fresh \in AsmStates
  <2>1. step \in [AsmStates \X SiteTokens -> AsmStates]
    BY AsmTyped
  <2>2. fresh \in AsmStates
    BY DEF AsmStates
  <2> QED BY <2>1, <2>2
<1>2. n \in Nat /\ \A i \in 1..n : line[i] \in SiteTokens
  OBVIOUS
<1>3. PICK f : ScanOf(AsmStates, f, fresh, step, line)
  <2> HIDE DEF step, fresh
  <2> QED BY <1>1, ScanExists
<1>4. f = [i \in 0..Len(line) |-> IF i = 0 THEN fresh ELSE AsmToken(f[i - 1], line[i])]
  <2> HIDE DEF fresh
  <2> DEFINE h == [i \in 0..Len(line) |-> IF i = 0 THEN fresh ELSE AsmToken(f[i - 1], line[i])]
  <2>1. ASSUME NEW i \in 0..n PROVE f[i] = h[i]
    <3>1. CASE i = 0
      BY <1>3, <3>1 DEF ScanOf
    <3>2. CASE i # 0
      <4>1. i \in 1..n /\ i - 1 \in 0..n
        BY <1>2, <3>2
      <4>2. f[i] = step[<<f[i - 1], line[i]>>]
        <5> HIDE DEF step
        <5> QED BY <1>3, <4>1 DEF ScanOf
      <4>3. <<f[i - 1], line[i]>> \in AsmStates \X SiteTokens
        BY <1>2, <1>3, <4>1 DEF ScanOf
      <4>4. step[<<f[i - 1], line[i]>>] = AsmToken(f[i - 1], line[i])
        BY <4>3
      <4> QED BY <3>2, <4>2, <4>4
    <3> QED BY <3>1, <3>2
  <2> QED BY <1>3, <2>1 DEF ScanOf
<1>5. AsmAlong(line) = at
  BY Zenon DEF AsmAlong, Scanned
<1>6. at = [i \in 0..Len(line) |-> IF i = 0 THEN fresh ELSE AsmToken(at[i - 1], line[i])]
  BY <1>4, Zenon DEF at
<1> HIDE DEF at
<1>7. at[0] = fresh /\ \A i \in 1..n : at[i] = AsmToken(at[i - 1], line[i])
  <2> HIDE DEF fresh
  <2> QED BY <1>2, <1>6
<1>8. \A i \in 0..n : at[i] \in AsmStates
  <2> DEFINE S == {i \in 0..n : at[i] \in AsmStates}
  <2>1. 0 \in S
    BY <1>1, <1>2, <1>7
  <2>2. ASSUME NEW i \in 1..n, i - 1 \in S PROVE i \in S
    <3>1. at[i] = AsmToken(at[i - 1], line[i]) /\ line[i] \in SiteTokens /\ at[i - 1] \in AsmStates /\ i \in 0..n
      BY <1>2, <1>7, <2>2
    <3> QED BY <3>1, AsmTyped
  <2> HIDE DEF S
  <2>3. 0..n \subseteq S
    BY <1>2, <2>1, <2>2, EachUpTo
  <2> QED BY <2>3 DEF S
<1> QED BY <1>5, <1>7, <1>8

\* A statement under try.
Tried(p) == \E i \in DOMAIN p : p[i] = "try" /\ \A j \in (i + 1)..Len(p) : p[j] \notin Delimiters

\* A statement has no call before its first token or right after try, and no try stands in assembly.
CallOutside(c) ==
  /\ c.last \in Delimiters \cup {"try"} => c.called = "no"
  /\ c.last = "try" => ~InAsm(c)

\* The block of assembly that assembly_lines sees.
HasAsm(c) == \E i \in DOMAIN c.nest : c.nest[i] = "asm"

\* The lines of assembly are the ones in its braces.
Bracketed(c, a) ==
  /\ a.depth = Len(c.nest) /\ (a.inside <=> HasAsm(c))
  /\ a.inside => \A i \in DOMAIN c.nest : c.nest[i] = "asm" <=> i = a.at + 1

\* p is the statement under way: it is under try just before a tried call and among its arguments.
Heads(p, c) == Tried(p) <=> c.last = "try" \/ c.called = "tried"

LEMMA CallsStayOutside ==
  ASSUME NEW c \in CodeStates, NEW tok \in SiteTokens, Follows(c, tok), CallOutside(c)
  PROVE  CallOutside(Extend(c, tok))
<1> DEFINE d == Extend(c, tok)
<1>1. d.last = tok
  BY ExtendIs
<1>2. CASE tok \in Delimiters
  <2>1. d.called = "no" /\ tok # "try"
    BY <1>2, ExtendIs DEF Delimiters
  <2> QED BY <1>1, <2>1 DEF CallOutside
<1>3. CASE tok = "try"
  <2>1. c.last \in Delimiters /\ ~InAsm(c)
    BY <1>3 DEF Follows
  <2>2. d.called = c.called /\ d.nest = c.nest
    BY <1>3, ExtendIs DEF Delimiters
  <2>3. d.called = "no" /\ ~InAsm(d)
    BY <2>1, <2>2 DEF CallOutside, InAsm
  <2> QED BY <2>3 DEF CallOutside
<1>4. CASE tok \notin Delimiters \cup {"try"}
  BY <1>1, <1>4 DEF CallOutside
<1> QED BY <1>2, <1>3, <1>4

LEMMA BracketedNext ==
  ASSUME NEW c \in CodeStates, NEW a \in AsmStates, NEW tok \in SiteTokens, Follows(c, tok), Bracketed(c, a)
  PROVE  Bracketed(Extend(c, tok), AsmToken(a, tok)) /\ (tok = "assembly" => ~a.inside)
<1> DEFINE m == c.nest
           l == Len(m)
           d == Extend(c, tok)
           b == AsmToken(a, tok)
<1>1. /\ m \in Seq({"asm", "apart", "block"}) /\ l \in Nat /\ DOMAIN m = 1..l
      /\ a.depth = l /\ a.at \in Int /\ a.inside \in BOOLEAN
  BY DEF CodeStates, AsmStates, Bracketed
<1>2. /\ a.inside <=> \E i \in 1..l : m[i] = "asm"
      /\ a.inside => \A i \in 1..l : m[i] = "asm" <=> i = a.at + 1
  BY <1>1 DEF Bracketed, HasAsm
<1>3. ASSUME NEW n \in Nat, Len(d.nest) = n, DOMAIN d.nest = 1..n, b.depth = n,
             b.inside <=> \E i \in 1..n : d.nest[i] = "asm",
             b.inside => \A i \in 1..n : d.nest[i] = "asm" <=> i = b.at + 1
      PROVE  Bracketed(d, b)
  <2> HIDE DEF d, b
  <2> QED BY <1>3 DEF Bracketed, HasAsm
<1>4. CASE tok = "assembly"
  <2>1. ~a.inside
    <3>1. ~InAsm(c)
      BY <1>4 DEF Follows
    <3>2. \A i \in 1..l : m[i] # "asm"
      BY <1>1, <3>1 DEF InAsm, Range
    <3> QED BY <1>2, <3>2
  <2>2. d.nest = Append(m, "asm")
    BY <1>4, ExtendIs DEF Kind
  <2>3. b.depth = l + 1 /\ b.inside /\ b.at = l
    BY <1>1, <1>4, <2>1, AsmTokenIs
  <2> HIDE DEF d, b
  <2>4. Len(d.nest) = l + 1 /\ DOMAIN d.nest = 1..(l + 1) /\ (\A i \in 1..l : d.nest[i] = m[i]) /\ d.nest[l + 1] = "asm"
    BY <1>1, <2>2
  <2> HIDE DEF l, m
  <2>5. \A i \in 1..(l + 1) : d.nest[i] = "asm" <=> i = b.at + 1
    BY <1>1, <1>2, <2>1, <2>3, <2>4
  <2>6. l + 1 \in Nat /\ l + 1 \in 1..(l + 1)
    BY <1>1
  <2>7. Bracketed(d, b)
    BY <1>3, <2>3, <2>4, <2>5, <2>6
  <2> QED BY <2>1, <2>7 DEF d, b
<1>5. CASE tok = "open"
  <2> DEFINE k == Kind(c, tok)
  <2>1. d.nest = Append(m, k) /\ k # "asm"
    BY <1>5, ExtendIs DEF Kind
  <2>2. b.depth = l + 1 /\ b.inside = a.inside /\ b.at = a.at
    BY <1>1, <1>5, AsmTokenIs
  <2> HIDE DEF d, b, k
  <2>3. Len(d.nest) = l + 1 /\ DOMAIN d.nest = 1..(l + 1) /\ (\A i \in 1..l : d.nest[i] = m[i]) /\ d.nest[l + 1] # "asm"
    BY <1>1, <2>1
  <2> HIDE DEF l, m
  <2>4. b.inside <=> \E i \in 1..(l + 1) : d.nest[i] = "asm"
    BY <1>1, <1>2, <2>2, <2>3
  <2>5. b.inside => \A i \in 1..(l + 1) : d.nest[i] = "asm" <=> i = b.at + 1
    <3> SUFFICES ASSUME a.inside, NEW i \in 1..(l + 1) PROVE d.nest[i] = "asm" <=> i = a.at + 1
      BY <2>2
    <3>1. PICK j \in 1..l : m[j] = "asm"
      BY <1>2
    <3>2. a.at + 1 \in 1..l
      BY <1>2, <3>1
    <3>3. CASE i \in 1..l
      BY <1>2, <2>3, <3>3
    <3>4. CASE i = l + 1
      BY <1>1, <2>3, <3>2, <3>4
    <3> QED BY <1>1, <3>3, <3>4
  <2>6. l + 1 \in Nat
    BY <1>1
  <2>7. Bracketed(d, b)
    BY <1>3, <2>2, <2>3, <2>4, <2>5, <2>6
  <2> QED BY <1>5, <2>7 DEF d, b
<1>6. CASE tok = "close"
  <2>1. m # <<>>
    BY <1>6 DEF Follows
  <2>2. d.nest = SubSeq(m, 1, l - 1)
    BY <1>6, <2>1, ExtendIs
  <2>3. b.depth = l - 1 /\ b.inside = (a.inside /\ l - 1 # a.at) /\ b.at = a.at
    <3> DEFINE y == a.inside /\ a.depth - 1 # a.at
    <3>1. b = [depth |-> a.depth - 1, inside |-> y, at |-> a.at, opened |-> a.opened]
      BY <1>6, AsmTokenIs
    <3>2. y = (a.inside /\ l - 1 # a.at)
      BY <1>1
    <3> HIDE DEF y, b
    <3>3. b.depth = a.depth - 1 /\ b.inside = y /\ b.at = a.at
      BY <3>1
    <3> QED BY <1>1, <3>2, <3>3
  <2> HIDE DEF d, b
  <2>4. Len(d.nest) = l - 1 /\ (\A i \in 1..(l - 1) : d.nest[i] = m[i]) /\ l >= 1 /\ d.nest \in Seq({"asm", "apart", "block"})
    BY <1>1, <2>1, <2>2, FrontKeeps
  <2>5. DOMAIN d.nest = 1..(l - 1)
    <3> DEFINE e == d.nest
    <3>1. DOMAIN e = 1..Len(e)
      BY <2>4
    <3> HIDE DEF e
    <3> QED BY <2>4, <3>1 DEF e
  <2> HIDE DEF l, m
  <2>6. 1..(l - 1) \subseteq 1..l /\ l - 1 \in Nat
    BY <1>1, <2>4
  <2>7. b.inside <=> \E i \in 1..(l - 1) : d.nest[i] = "asm"
    <3>1. CASE a.inside
      <4>1. PICK k \in 1..l : m[k] = "asm"
        BY <1>2, <3>1
      <4>2. k = a.at + 1
        BY <1>2, <3>1, <4>1
      <4>3. CASE l - 1 = a.at
        <5>1. \A i \in 1..(l - 1) : i # a.at + 1
          BY <1>1, <4>3
        <5>2. \A i \in 1..(l - 1) : d.nest[i] # "asm"
          BY <1>2, <2>4, <2>6, <3>1, <5>1
        <5> QED BY <2>3, <4>3, <5>2
      <4>4. CASE l - 1 # a.at
        <5>1. k \in 1..(l - 1)
          BY <1>1, <4>1, <4>2, <4>4
        <5> QED BY <2>3, <2>4, <3>1, <4>1, <4>4, <5>1
      <4> QED BY <4>3, <4>4
    <3>2. CASE ~a.inside
      BY <1>2, <2>3, <2>4, <2>6, <3>2
    <3> QED BY <3>1, <3>2
  <2>8. b.inside => \A i \in 1..(l - 1) : d.nest[i] = "asm" <=> i = b.at + 1
    BY <1>2, <2>3, <2>4, <2>6
  <2>9. Bracketed(d, b)
    BY <1>3, <2>3, <2>4, <2>5, <2>6, <2>7, <2>8
  <2> QED BY <1>6, <2>9 DEF d, b
<1>7. CASE tok \notin {"open", "assembly", "close"}
  <2>1. d.nest = m
    BY <1>7, ExtendIs
  <2>2. b = a
    BY <1>7, AsmTokenIs
  <2>3. Bracketed(d, b)
    <3> HIDE DEF d, b
    <3> QED BY <2>1, <2>2 DEF Bracketed, HasAsm
  <2> QED BY <1>7, <2>3
<1> QED BY <1>4, <1>5, <1>6, <1>7

LEMMA TriedNext ==
  ASSUME NEW p \in Seq(SiteTokens), NEW tok \in SiteTokens
  PROVE  Tried(Append(p, tok)) <=> tok \notin Delimiters /\ (Tried(p) \/ tok = "try")
<1> DEFINE n == Len(p)
           q == Append(p, tok)
<1>1. n \in Nat /\ DOMAIN p = 1..n /\ DOMAIN q = 1..(n + 1) /\ Len(q) = n + 1 /\ (\A i \in 1..n : q[i] = p[i]) /\ q[n + 1] = tok
  OBVIOUS
<1> HIDE DEF n, q
<1>2. ASSUME NEW i \in 1..n
      PROVE  (\A j \in (i + 1)..(n + 1) : q[j] \notin Delimiters) <=> tok \notin Delimiters /\ \A j \in (i + 1)..n : p[j] \notin Delimiters
  BY <1>1
<1>3. \A j \in (n + 2)..(n + 1) : FALSE
  BY <1>1
<1>4. Tried(q) <=> \/ \E i \in 1..n : q[i] = "try" /\ \A j \in (i + 1)..(n + 1) : q[j] \notin Delimiters
                   \/ tok = "try"
  <2>1. Tried(q) <=> \E i \in 1..(n + 1) : q[i] = "try" /\ \A j \in (i + 1)..(n + 1) : q[j] \notin Delimiters
    BY <1>1 DEF Tried
  <2>2. ((n + 1) + 1) = n + 2 /\ \A i \in 1..(n + 1) : i \in 1..n \/ i = n + 1
    BY <1>1
  <2>3. n + 1 \in 1..(n + 1) /\ 1..n \subseteq 1..(n + 1)
    BY <1>1
  <2> QED BY <1>1, <1>3, <2>1, <2>2, <2>3
<1>5. Tried(p) <=> \E i \in 1..n : p[i] = "try" /\ \A j \in (i + 1)..n : p[j] \notin Delimiters
  BY <1>1 DEF Tried, n
<1>6. tok = "try" => tok \notin Delimiters
  BY DEF Delimiters
<1> QED BY <1>1, <1>2, <1>4, <1>5, <1>6 DEF q

LEMMA HeadsNext ==
  ASSUME NEW p \in Seq(SiteTokens), NEW c \in CodeStates, NEW tok \in SiteTokens, Follows(c, tok), CallOutside(c), Heads(p, c)
  PROVE  Heads(Append(p, tok), Extend(c, tok))
<1> DEFINE q == Append(p, tok)
           d == Extend(c, tok)
<1>1. d.last = tok
  BY ExtendIs
<1>2. Tried(q) <=> tok \notin Delimiters /\ (c.last = "try" \/ c.called = "tried" \/ tok = "try")
  BY TriedNext DEF Heads
<1>3. CASE tok \in Delimiters
  <2>1. d.called = "no" /\ tok # "try"
    BY <1>3, ExtendIs DEF Delimiters
  <2> QED BY <1>1, <1>2, <1>3, <2>1 DEF Heads
<1>4. CASE tok = "try"
  BY <1>1, <1>2, <1>4 DEF Heads, Delimiters
<1>5. CASE tok \in {"call", "split"}
  <2>1. c.called = "no"
    BY <1>5 DEF Follows
  <2>2. d.called = (IF c.last = "try" THEN "tried" ELSE "bare")
    BY <1>5, ExtendIs
  <2>3. tok \notin Delimiters /\ tok # "try"
    BY <1>5 DEF Delimiters
  <2> HIDE DEF d, q
  <2>4. Tried(q) <=> d.last = "try" \/ d.called = "tried"
    BY <1>1, <1>2, <2>1, <2>2, <2>3
  <2> QED BY <2>4 DEF Heads, d, q
<1>6. CASE tok \in {"arg", "yul", "apart"}
  <2>1. c.last # "try"
    <3>1. CASE tok = "arg"
      BY <3>1 DEF Follows, CallOutside
    <3>2. CASE tok = "yul"
      BY <3>2 DEF Follows, CallOutside
    <3>3. CASE tok = "apart"
      BY <3>3 DEF Follows, Delimiters
    <3> QED BY <1>6, <3>1, <3>2, <3>3
  <2>2. tok \notin Delimiters /\ tok # "try" /\ d.called = c.called
    BY <1>6, ExtendIs DEF Delimiters
  <2> HIDE DEF d, q
  <2>3. Tried(q) <=> d.last = "try" \/ d.called = "tried"
    BY <1>1, <1>2, <2>1, <2>2
  <2> QED BY <2>3 DEF Heads, d, q
<1>7. tok \in Delimiters \cup {"try", "call", "split", "arg", "yul", "apart"}
  BY DEF SiteTokens, Calls
<1> QED BY <1>3, <1>4, <1>5, <1>6, <1>7

FileInv ==
  /\ code \in CodeStates /\ code.ok /\ asm \in AsmStates /\ carried \in Seq(SiteTokens)
  /\ CallOutside(code) /\ Bracketed(code, asm) /\ Heads(carried, code)

\* The scans of the file and of its assembly lines, and the statement under way, agree after i tokens.
Agree(line, i) ==
  /\ CallOutside(Along(line)[i]) /\ Bracketed(Along(line)[i], AsmAlong(line)[i])
  /\ Heads(carried \o SubSeq(line, 1, i), Along(line)[i])

LEMMA PrefixGrows ==
  ASSUME NEW T, NEW p \in Seq(T), NEW s \in Seq(T), NEW i \in 1..Len(s)
  PROVE  p \o SubSeq(s, 1, i) = Append(p \o SubSeq(s, 1, i - 1), s[i])
<1> DEFINE x == SubSeq(s, 1, i - 1)
<1>1. SubSeq(s, 1, i) = x \o <<s[i]>>
  <2>1. 1 \in 1..Len(s) /\ i \in 1..Len(s)
    OBVIOUS
  <2> QED BY <2>1, SubSeqRecursiveSecond
<1>2. x \in Seq(T) /\ s[i] \in T
  <2>1. i \in Nat /\ \A k \in 1..(i - 1) : s[k] \in T
    OBVIOUS
  <2>2. s[i] \in T
    OBVIOUS
  <2> QED BY <2>1, <2>2, SubSeqProperties
<1> HIDE DEF x
<1>3. p \o (x \o <<s[i]>>) = Append(p \o x, s[i])
  <2>1. p \o x \in Seq(T) /\ <<s[i]>> \in Seq(T)
    BY <1>2
  <2>2. Append(p \o x, s[i]) = (p \o x) \o <<s[i]>>
    BY <1>2, <2>1, AppendIsConcat
  <2>3. (p \o x) \o <<s[i]>> = p \o (x \o <<s[i]>>)
    BY <1>2, ConcatAssociative, SMTT(30)
  <2> QED BY <2>1, <2>2, <2>3
<1> QED BY <1>1, <1>3 DEF x

LEMMA LineFollows ==
  ASSUME FileInv, NEW line \in Seq(SiteTokens), Along(line)[Len(line)].ok
  PROVE  \A i \in 1..Len(line) : Follows(Along(line)[i - 1], line[i])
<1> DEFINE n == Len(line)
           cs(i) == Along(line)[i]
           S == {k \in 0..n : cs(n - k).ok}
<1>1. n \in Nat /\ \A i \in 1..n : cs(i) = Extend(cs(i - 1), line[i])
  BY CodeAlong DEF FileInv
<1> HIDE DEF cs, n
<1>2. \A i \in 1..n : cs(i).ok => cs(i - 1).ok /\ Follows(cs(i - 1), line[i])
  <2> SUFFICES ASSUME NEW i \in 1..n, cs(i).ok PROVE cs(i - 1).ok /\ Follows(cs(i - 1), line[i])
    OBVIOUS
  <2> DEFINE c == cs(i - 1)
             tok == line[i]
  <2>1. cs(i) = Extend(c, tok)
    BY <1>1
  <2> HIDE DEF c, tok
  <2>2. Extend(c, tok).ok = (c.ok /\ Follows(c, tok))
    BY DEF Extend
  <2> QED BY <2>1, <2>2 DEF c, tok
<1>3. 0 \in S
  BY <1>1 DEF cs, n
<1>4. ASSUME NEW k \in 1..n, k - 1 \in S PROVE k \in S
  <2>1. n - (k - 1) \in 1..n /\ (n - (k - 1)) - 1 = n - k
    BY <1>1
  <2> QED BY <1>2, <1>4, <2>1
<1> HIDE DEF S
<1>5. 0..n \subseteq S
  BY <1>1, <1>3, <1>4, EachUpTo
<1>6. ASSUME NEW i \in 1..n PROVE cs(i).ok
  <2>1. n - i \in 0..n /\ n - (n - i) = i
    BY <1>1
  <2> QED BY <1>5, <2>1 DEF S
<1> QED BY <1>2, <1>6 DEF cs, n

LEMMA LineAgrees ==
  ASSUME FileInv, NEW line \in Seq(SiteTokens), Along(line)[Len(line)].ok
  PROVE  \A i \in 0..Len(line) : Agree(line, i)
<1> DEFINE n == Len(line)
           S == {i \in 0..n : Agree(line, i)}
<1>1. /\ n \in Nat /\ Along(line)[0] = code
      /\ \A i \in 0..n : Along(line)[i] \in CodeStates /\ AsmAlong(line)[i] \in AsmStates
      /\ \A i \in 1..n : /\ Along(line)[i] = Extend(Along(line)[i - 1], line[i])
                         /\ AsmAlong(line)[i] = AsmToken(AsmAlong(line)[i - 1], line[i])
                         /\ Follows(Along(line)[i - 1], line[i]) /\ line[i] \in SiteTokens
  BY CodeAlong, AsmScan, LineFollows DEF FileInv
<1>2. AsmAlong(line)[0] = [asm EXCEPT !.opened = FALSE]
  BY AsmScan DEF FileInv
<1> HIDE DEF n
<1>3. 0 \in S
  <2>1. carried \o SubSeq(line, 1, 0) = carried
    BY DEF FileInv
  <2>2. Bracketed(code, [asm EXCEPT !.opened = FALSE])
    <3> DEFINE a == [asm EXCEPT !.opened = FALSE]
    <3>1. a.depth = asm.depth /\ a.inside = asm.inside /\ a.at = asm.at
      BY DEF FileInv, AsmStates
    <3> HIDE DEF a
    <3>2. Bracketed(code, a)
      BY <3>1 DEF FileInv, Bracketed
    <3> QED BY <3>2 DEF a
  <2>3. Bracketed(Along(line)[0], AsmAlong(line)[0])
    BY <1>1, <1>2, <2>2
  <2>4. Heads(carried \o SubSeq(line, 1, 0), Along(line)[0]) /\ CallOutside(Along(line)[0])
    BY <1>1, <2>1 DEF FileInv
  <2> QED BY <1>1, <2>3, <2>4 DEF Agree
<1>4. ASSUME NEW i \in 1..n, i - 1 \in S PROVE i \in S
  <2>1. i \in 0..n /\ i - 1 \in 0..n /\ Agree(line, i - 1)
    BY <1>1, <1>4
  <2> DEFINE c == Along(line)[i - 1]
             a == AsmAlong(line)[i - 1]
             p == carried \o SubSeq(line, 1, i - 1)
             tok == line[i]
  <2>2. /\ c \in CodeStates /\ a \in AsmStates /\ tok \in SiteTokens /\ Follows(c, tok)
        /\ Along(line)[i] = Extend(c, tok) /\ AsmAlong(line)[i] = AsmToken(a, tok)
    BY <1>1, <2>1
  <2>3. carried \in Seq(SiteTokens)
    BY DEF FileInv
  <2>4. p \in Seq(SiteTokens)
    <3> DEFINE k == i - 1
    <3>1. k \in Int /\ \A j \in 1..k : line[j] \in SiteTokens
      BY <1>1
    <3> HIDE DEF k
    <3>2. SubSeq(line, 1, k) \in Seq(SiteTokens)
      BY <3>1, SubSeqProperties
    <3> QED BY <2>3, <3>2, ConcatProperties DEF k
  <2>5. carried \o SubSeq(line, 1, i) = Append(p, tok)
    BY <2>3, PrefixGrows DEF n
  <2>6. CallOutside(c) /\ Bracketed(c, a) /\ Heads(p, c)
    BY <2>1 DEF Agree
  <2> HIDE DEF c, a, p, tok
  <2>7. CallOutside(Extend(c, tok)) /\ Bracketed(Extend(c, tok), AsmToken(a, tok)) /\ Heads(Append(p, tok), Extend(c, tok))
    BY <2>2, <2>4, <2>6, CallsStayOutside, BracketedNext, HeadsNext
  <2> QED BY <2>1, <2>2, <2>5, <2>7 DEF Agree
<1> HIDE DEF S
<1>5. 0..n \subseteq S
  BY <1>1, <1>3, <1>4, EachUpTo
<1> QED BY <1>5 DEF S, n

\* assembly_lines has a block opened on a line exactly if the keyword and its brace are there.
LEMMA OpensWhereItSays ==
  ASSUME FileInv, NEW line \in Seq(SiteTokens), Along(line)[Len(line)].ok
  PROVE  AsmAfter(line).opened <=> "assembly" \in Range(line)
<1> DEFINE n == Len(line)
           as(j) == AsmAlong(line)[j]
           S == {j \in 0..n : as(j).opened <=> \E k \in 1..j : line[k] = "assembly"}
<1>1. /\ n \in Nat /\ DOMAIN line = 1..n /\ as(0) = [asm EXCEPT !.opened = FALSE]
      /\ \A j \in 0..n : as(j) \in AsmStates
      /\ \A j \in 1..n : as(j) = AsmToken(as(j - 1), line[j]) /\ line[j] \in SiteTokens
  <2>1. n \in Nat /\ DOMAIN line = 1..n /\ \A j \in 1..n : line[j] \in SiteTokens
    OBVIOUS
  <2>2. asm \in AsmStates
    BY DEF FileInv
  <2> QED BY <2>1, <2>2, AsmScan
<1>2. \A j \in 1..n : line[j] = "assembly" => ~as(j - 1).inside
  <2> SUFFICES ASSUME NEW j \in 1..n, line[j] = "assembly" PROVE ~as(j - 1).inside
    OBVIOUS
  <2> DEFINE k == j - 1
             c == Along(line)[k]
  <2>1. k \in 0..Len(line) /\ k \in 0..n
    BY <1>1
  <2>2. c \in CodeStates
    BY <2>1, CodeAlong DEF FileInv
  <2>3. Follows(c, line[j]) /\ Bracketed(c, as(k))
    BY <2>1, LineFollows, LineAgrees DEF Agree
  <2>4. as(k) \in AsmStates
    BY <1>1, <2>1
  <2>5. line[j] \in SiteTokens
    BY <1>1
  <2> HIDE DEF c, k, as
  <2>6. ~as(k).inside
    BY <2>2, <2>3, <2>4, <2>5, BracketedNext
  <2> QED BY <2>6 DEF k
<1> HIDE DEF n, as
<1>3. 0 \in S
  <2>1. asm \in AsmStates
    BY DEF FileInv
  <2>2. ~as(0).opened
    BY <1>1, <2>1 DEF AsmStates
  <2>3. 0 \in 0..n /\ \A k \in 1..0 : FALSE
    BY <1>1
  <2> QED BY <2>2, <2>3
<1>4. ASSUME NEW j \in 1..n, j - 1 \in S PROVE j \in S
  <2> DEFINE a == as(j - 1)
             b == as(j)
  <2>1. j \in 0..n /\ j - 1 \in 0..n /\ (\A k \in 1..j : k \in 1..(j - 1) \/ k = j) /\ 1..(j - 1) \subseteq 1..j /\ j \in 1..j
    BY <1>1
  <2>2. b = AsmToken(a, line[j]) /\ a \in AsmStates /\ (line[j] = "assembly" => ~a.inside)
    BY <1>1, <1>2, <2>1
  <2>3. a.opened <=> \E k \in 1..(j - 1) : line[k] = "assembly"
    BY <1>4
  <2> HIDE DEF a, b
  <2>4. b.opened <=> a.opened \/ line[j] = "assembly"
    <3>1. CASE line[j] = "assembly"
      BY <2>2, <3>1, AsmTokenIs
    <3>2. CASE line[j] # "assembly"
      <4>1. b.opened = a.opened
        <5>1. CASE line[j] = "open"
          BY <2>2, <5>1, AsmTokenIs
        <5>2. CASE line[j] = "close"
          <6> DEFINE y == a.inside /\ a.depth - 1 # a.at
          <6>1. b = [depth |-> a.depth - 1, inside |-> y, at |-> a.at, opened |-> a.opened]
            BY <2>2, <5>2, AsmTokenIs
          <6> HIDE DEF y
          <6> QED BY <6>1
        <5>3. CASE line[j] \notin {"open", "assembly", "close"}
          BY <2>2, <5>3, AsmTokenIs
        <5> QED BY <3>2, <5>1, <5>2, <5>3
      <4> QED BY <3>2, <4>1
    <3> QED BY <3>1, <3>2
  <2>5. b.opened <=> \E k \in 1..j : line[k] = "assembly"
    BY <2>1, <2>3, <2>4
  <2> QED BY <2>1, <2>5 DEF b
<1>5. n \in S
  <2> HIDE DEF S
  <2>1. 0..n \subseteq S
    BY <1>1, <1>3, <1>4, EachUpTo
  <2> QED BY <1>1, <2>1
<1>6. as(n).opened <=> \E k \in 1..n : line[k] = "assembly"
  BY <1>5
<1> QED BY <1>1, <1>6 DEF AsmAfter, Range, n, as

\* Its lines are those of assembly.
LEMMA AssemblyLinesAre ==
  ASSUME FileInv, NEW line \in Seq(SiteTokens), Along(line)[Len(line)].ok
  PROVE  AssemblyLine(line) <=> OfAssembly(line)
<1> DEFINE n == Len(line)
           c == Along(line)[n]
<1>1. n \in 0..n /\ n \in 0..Len(line)
  OBVIOUS
<1>2. Bracketed(c, AsmAfter(line))
  BY <1>1, LineAgrees DEF Agree, AsmAfter
<1> HIDE DEF c
<1>3. AsmAfter(line).inside <=> "asm" \in Range(c.nest)
  BY <1>2 DEF Bracketed, HasAsm, Range
<1>4. AsmAfter(line).opened <=> "assembly" \in Range(line)
  BY OpensWhereItSays
<1> QED BY <1>3, <1>4 DEF AssemblyLine, OfAssembly, c

\* Whether a call is listed, and as what.
LEMMA RowOfCall ==
  ASSUME FileInv, NEW line \in Seq(SiteTokens), Along(line)[Len(line)].ok, NEW i \in DOMAIN line, line[i] \in Calls
  PROVE  /\ Row(line, i) # "none" <=> line[i] # "split" /\ (line[i] = "yul" <=> OfAssembly(line))
         /\ Row(line, i) # "none" =>
              Row(line, i) = IF Upto(line, i).last = "try" \/ Upto(line, i).called = "tried" THEN "TRY" ELSE "BARE"
<1> DEFINE c == Upto(line, i)
           p == carried \o SubSeq(line, 1, i - 1)
           tok == line[i]
           mode == IF c.last = "try" \/ c.called = "tried" THEN "TRY" ELSE "BARE"
<1>1. i \in 1..Len(line) /\ i - 1 \in 0..Len(line)
  OBVIOUS
<1>2. Heads(p, c)
  BY <1>1, LineAgrees DEF Agree, Upto
<1>3. Wrapping(p) = IF Tried(p) THEN "TRY" ELSE "BARE"
  BY Zenon DEF Wrapping, Tried
<1>4. Wrapping(p) = mode /\ mode # "none"
  BY <1>2, <1>3 DEF Heads
<1>5. Row(line, i) = IF tok \in (IF AssemblyLine(line) THEN {"yul"} ELSE {"call", "arg"}) THEN Wrapping(p) ELSE "none"
  BY DEF Row, StatementHead
<1>6. AssemblyLine(line) <=> OfAssembly(line)
  BY AssemblyLinesAre
<1>7. tok \in {"call", "arg", "split", "yul"}
  BY DEF Calls
<1> HIDE DEF c, p, tok, mode
<1>8. CASE AssemblyLine(line)
  <2>1. Row(line, i) = IF tok = "yul" THEN mode ELSE "none"
    BY <1>4, <1>5, <1>8
  <2> QED BY <1>4, <1>6, <1>8, <2>1 DEF c, tok, mode
<1>9. CASE ~AssemblyLine(line)
  <2>1. Row(line, i) = IF tok \in {"call", "arg"} THEN mode ELSE "none"
    BY <1>4, <1>5, <1>9
  <2> QED BY <1>4, <1>6, <1>7, <1>9, <2>1 DEF c, tok, mode
<1> QED BY <1>8, <1>9

SitesInv == FileInv /\ CallsListed

LEMMA SitesInit == code = CodeIdle /\ asm = AsmIdle /\ carried = <<>> /\ sites = {} => SitesInv
<1> SUFFICES ASSUME code = CodeIdle, asm = AsmIdle, carried = <<>>, sites = {} PROVE SitesInv
  OBVIOUS
<1>1. code \in CodeStates /\ asm \in AsmStates /\ carried \in Seq(SiteTokens)
  BY DEF CodeIdle, AsmIdle, CodeStates, AsmStates, SiteTokens, Delimiters
<1>2. code.nest = <<>> /\ code.last = "end" /\ code.called = "no" /\ code.ok
  BY DEF CodeIdle
<1>3. asm.depth = 0 /\ ~asm.inside
  BY DEF AsmIdle
<1>4. ~Tried(carried)
  BY DEF Tried
<1>5. CallOutside(code) /\ Heads(carried, code)
  BY <1>2, <1>4 DEF CallOutside, Heads
<1>6. Bracketed(code, asm)
  BY <1>2, <1>3 DEF Bracketed, HasAsm
<1> QED BY <1>1, <1>2, <1>5, <1>6 DEF SitesInv, FileInv, CallsListed

LEMMA SitesStep == SitesInv /\ [SitesNext]_callsites => SitesInv'
<1> SUFFICES ASSUME SitesInv, [SitesNext]_callsites PROVE SitesInv'
  OBVIOUS
<1>1. CASE UNCHANGED <<code, asm, carried, sites>>
  BY <1>1 DEF SitesInv, FileInv, CallsListed, CallOutside, Bracketed, HasAsm, Heads, Tried, InAsm
<1>2. CASE ScanCalls
  <2>1. PICK line \in BoundedSeq(SiteTokens, MaxWidth) :
          /\ line # <<>> /\ code' = Along(line)[Len(line)] /\ code'.ok /\ Layout(line)
          /\ asm' = [AsmAfter(line) EXCEPT !.opened = FALSE]
          /\ carried' = CarriedAfter(line)
          /\ sites' = {[call |-> line[i], row |-> Row(line, i), wrapped |-> Upto(line, i).last = "try",
                        within |-> Upto(line, i).called = "tried", assembly |-> OfAssembly(line)]
                       : i \in {j \in DOMAIN line : line[j] \in Calls}}
    BY <1>2 DEF ScanCalls
  <2> DEFINE n == Len(line)
             p == carried \o line
  <2>2. line \in Seq(SiteTokens)
    <3>1. PICK m \in 0..MaxWidth : line \in [1..m -> SiteTokens]
      BY <2>1 DEF BoundedSeq, SeqOf
    <3> QED BY <3>1, SeqDef
  <2>3. n \in Nat /\ n >= 1 /\ n \in 1..n /\ n \in 0..n /\ n \in 0..Len(line) /\ n \in 1..Len(line) /\ Last(line) = line[n]
    BY <2>1, <2>2 DEF Last
  <2>4. FileInv /\ Along(line)[Len(line)].ok
    BY <2>1 DEF SitesInv
  <2>5. Agree(line, n) /\ Along(line)[n] \in CodeStates /\ AsmAlong(line)[n] \in AsmStates
    BY <2>2, <2>3, <2>4, LineAgrees, CodeAlong, AsmScan DEF FileInv
  <2>6. SubSeq(line, 1, n) = line /\ p \in Seq(SiteTokens)
    <3>1. SubSeq(line, 1, n) = line
      BY <2>2
    <3>2. carried \in Seq(SiteTokens)
      BY <2>4 DEF FileInv
    <3> QED BY <2>2, <3>1, <3>2
  <2>7. CallOutside(code') /\ Bracketed(code', AsmAfter(line)) /\ Heads(p, code')
    BY <2>1, <2>5, <2>6 DEF Agree, AsmAfter
  <2>8. code'.last = Last(line)
    <3>1. Along(line)[n] = Extend(Along(line)[n - 1], line[n])
      BY <2>2, <2>3, <2>4, CodeAlong DEF FileInv
    <3> QED BY <2>1, <2>3, <3>1, ExtendIs
  <2>9. Bracketed(code', asm') /\ asm' \in AsmStates
    <3> DEFINE a == AsmAfter(line)
    <3>1. a \in AsmStates
      BY <2>5 DEF AsmAfter
    <3>2. asm' = [depth |-> a.depth, inside |-> a.inside, at |-> a.at, opened |-> FALSE]
      <4> HIDE DEF a
      <4> QED BY <2>1, <3>1 DEF AsmStates, a
    <3>3. asm'.depth = a.depth /\ asm'.inside = a.inside /\ asm'.at = a.at
      BY <3>2
    <3>4. Bracketed(code', asm')
      BY <2>7, <3>3 DEF Bracketed
    <3>5. asm' \in AsmStates
      <4> HIDE DEF a
      <4> QED BY <3>1, <3>2 DEF AsmStates
    <3> QED BY <3>4, <3>5
  <2>10. carried' \in Seq(SiteTokens) /\ Heads(carried', code')
    <3>1. CASE Last(line) \in Delimiters
      <4>1. carried' = <<>>
        BY <2>1, <3>1 DEF CarriedAfter
      <4>2. ~Tried(carried')
        BY <4>1 DEF Tried
      <4>3. code'.last # "try" /\ code'.called = "no"
        BY <2>7, <2>8, <3>1 DEF CallOutside, Delimiters
      <4> QED BY <4>1, <4>2, <4>3 DEF Heads
    <3>2. CASE Last(line) \notin Delimiters
      <4>1. carried' = p
        BY <2>1, <3>2 DEF CarriedAfter
      <4> QED BY <2>6, <2>7, <4>1
    <3> QED BY <3>1, <3>2
  <2>11. CallsListed'
    <3>1. SUFFICES ASSUME NEW s \in sites'
                   PROVE  /\ s.row # "none" <=> s.call # "split" /\ (s.call = "yul" <=> s.assembly)
                          /\ s.row # "none" => s.row = IF s.wrapped \/ s.within THEN "TRY" ELSE "BARE"
      BY DEF CallsListed
    <3>2. PICK i \in {j \in DOMAIN line : line[j] \in Calls} :
            s = [call |-> line[i], row |-> Row(line, i), wrapped |-> Upto(line, i).last = "try",
                 within |-> Upto(line, i).called = "tried", assembly |-> OfAssembly(line)]
      BY <2>1
    <3>3. /\ Row(line, i) # "none" <=> line[i] # "split" /\ (line[i] = "yul" <=> OfAssembly(line))
          /\ Row(line, i) # "none" =>
               Row(line, i) = IF Upto(line, i).last = "try" \/ Upto(line, i).called = "tried" THEN "TRY" ELSE "BARE"
      <4>1. i \in DOMAIN line /\ line[i] \in Calls
        OBVIOUS
      <4> QED BY <2>2, <2>4, <4>1, RowOfCall
    <3>4. /\ s.call = line[i] /\ s.row = Row(line, i) /\ s.wrapped = (Upto(line, i).last = "try")
          /\ s.within = (Upto(line, i).called = "tried") /\ s.assembly = OfAssembly(line)
      BY <3>2
    <3> QED BY <3>3, <3>4
  <2>12. code' \in CodeStates /\ code'.ok
    BY <2>1, <2>5
  <2>13. FileInv'
    BY <2>7, <2>9, <2>10, <2>12 DEF FileInv, CallOutside, Bracketed, HasAsm, Heads, Tried, InAsm
  <2> QED BY <2>11, <2>13 DEF SitesInv
<1>3. CASE ReadTarget
  BY <1>1, <1>3 DEF ReadTarget
<1> QED BY <1>1, <1>2, <1>3 DEF SitesNext, callsites

-----------------------------------------------------------------------------
(* The scopes: the truth and both stacks, token for token.                   *)

Signatures == Names \cup {FileScope}
Truths == [nest : Seq(Names \cup {"contract", "struct", "block"}), head : Signatures, ok : BOOLEAN]
Scans == [depth : Int, pending : Signatures, stack : Seq([depth : Int, name : Signatures])]

LEMMA TokenKinds ==
  ASSUME ScopesAssumption
  PROVE  /\ FileScope \notin Names /\ "contract" \notin Names /\ "struct" \notin Names /\ "block" \notin Names
         /\ "open" \notin Names /\ "close" \notin Names /\ "end" \notin Names /\ "use" \notin Names
BY DEF ScopesAssumption

LEMMA OpenedIs ==
  ASSUME ScopesAssumption, NEW t \in Truths
  PROVE  /\ Opened(t) \in Names \cup {"contract", "struct", "block"}
         /\ t.head \in Names => Opened(t) = t.head
         /\ t.head \notin Names => Opened(t) \notin Names
BY TokenKinds DEF Opened

LEMMA ReadsTyped ==
  ASSUME ScopesAssumption, NEW t \in Truths, NEW tok \in Tokens
  PROVE  Reads(t, tok) \in Truths
<1> DEFINE n == t.nest
           h == t.head
           o == t.ok
           K == Names \cup {"contract", "struct", "block"}
           u == Reads(t, tok)
<1>1. t = [nest |-> n, head |-> h, ok |-> o] /\ n \in Seq(K) /\ h \in Signatures /\ o \in BOOLEAN
  BY DEF Truths
<1>2. Opened(t) \in K
  BY OpenedIs
<1>3. Truths = [nest : Seq(K), head : Signatures, ok : BOOLEAN]
  BY DEF Truths
<1>4. CASE tok \in Names
  <2> DEFINE k == o /\ h = FileScope /\ n = <<"contract">>
  <2>1. u = [t EXCEPT !.head = tok, !.ok = k]
    BY <1>4 DEF Reads
  <2> HIDE DEF k, n, h, o, u
  <2>2. u = [nest |-> n, head |-> tok, ok |-> k]
    BY <1>1, <2>1
  <2>3. k \in BOOLEAN
    BY ZenonT(20), <1>1 DEF k
  <2>4. tok \in Signatures
    BY <1>4 DEF Signatures
  <2> HIDE DEF K
  <2>5. u \in [nest : Seq(K), head : Signatures, ok : BOOLEAN]
    BY <1>1, <2>2, <2>3, <2>4
  <2> QED BY <1>3, <2>5 DEF u
<1>5. CASE tok = "open"
  <2> DEFINE k == o /\ Len(n) < MaxDepth /\ LastOr(n, "none") # "struct"
             m == Append(n, Opened(t))
  <2>1. u = [nest |-> m, head |-> FileScope, ok |-> k]
    BY <1>5, TokenKinds DEF Reads
  <2> HIDE DEF K
  <2>2. m \in Seq(K)
    BY <1>1, <1>2, AppendProperties
  <2>3. k \in BOOLEAN
    BY <1>1 DEF k
  <2>4. FileScope \in Signatures
    BY DEF Signatures
  <2> HIDE DEF k, m, u
  <2>5. u \in [nest : Seq(K), head : Signatures, ok : BOOLEAN]
    BY <1>1, <2>1, <2>2, <2>3, <2>4
  <2> QED BY <1>3, <2>5 DEF u
<1>6. CASE tok = "close"
  <2> DEFINE k == o /\ h = FileScope /\ n # <<>>
             m == IF n = <<>> THEN n ELSE Front(n)
  <2>1. u = [t EXCEPT !.nest = m, !.ok = k]
    BY <1>6, TokenKinds DEF Reads
  <2> HIDE DEF K
  <2>2. m \in Seq(K)
    BY <1>1, FrontKeeps DEF Front
  <2> HIDE DEF k, m, u, n, h, o
  <2>3. u = [nest |-> m, head |-> h, ok |-> k]
    BY <1>1, <2>1
  <2>4. k \in BOOLEAN
    BY <1>1 DEF k
  <2>5. u \in [nest : Seq(K), head : Signatures, ok : BOOLEAN]
    BY <1>1, <2>2, <2>3, <2>4
  <2> QED BY <1>3, <2>5 DEF u
<1>7. CASE tok = "end"
  <2> DEFINE k == o /\ n # <<>>
  <2>1. u = [t EXCEPT !.head = FileScope, !.ok = k]
    BY <1>7, TokenKinds DEF Reads
  <2> HIDE DEF k, n, h, o, u
  <2>2. u = [nest |-> n, head |-> FileScope, ok |-> k]
    BY <1>1, <2>1
  <2> HIDE DEF K
  <2>3. k \in BOOLEAN
    BY <1>1 DEF k
  <2>4. FileScope \in Signatures
    BY DEF Signatures
  <2>5. u \in [nest : Seq(K), head : Signatures, ok : BOOLEAN]
    BY <1>1, <2>2, <2>3, <2>4
  <2> QED BY <1>3, <2>5 DEF u
<1>8. CASE tok = "use"
  <2> DEFINE k == o /\ h = FileScope /\ LastOr(n, "struct") # "struct"
  <2>1. u = [t EXCEPT !.ok = k]
    BY <1>8, TokenKinds DEF Reads
  <2> HIDE DEF k, n, h, o, u
  <2>2. u = [nest |-> n, head |-> h, ok |-> k]
    BY <1>1, <2>1
  <2> HIDE DEF K
  <2>3. k \in BOOLEAN
    BY <1>1 DEF k
  <2>4. u \in [nest : Seq(K), head : Signatures, ok : BOOLEAN]
    BY <1>1, <2>2, <2>3
  <2> QED BY <1>3, <2>4 DEF u
<1> QED BY <1>4, <1>5, <1>6, <1>7, <1>8 DEF Tokens

\* What a legal token does to the truth.
LEMMA LegalToken ==
  ASSUME ScopesAssumption, NEW t \in Truths, NEW tok \in Tokens, Reads(t, tok).ok
  PROVE  /\ t.ok
         /\ tok \in Names => t.head = FileScope /\ t.nest = <<"contract">> /\ Reads(t, tok).nest = t.nest /\ Reads(t, tok).head = tok
         /\ tok = "open" => Reads(t, tok).nest = Append(t.nest, Opened(t)) /\ Reads(t, tok).head = FileScope
         /\ tok = "close" => /\ t.head = FileScope /\ t.nest # <<>> /\ Reads(t, tok).head = FileScope
                             /\ Reads(t, tok).nest = SubSeq(t.nest, 1, Len(t.nest) - 1)
         /\ tok = "end" => Reads(t, tok).nest = t.nest /\ Reads(t, tok).head = FileScope
         /\ tok = "use" => t.head = FileScope /\ t.nest # <<>> /\ Reads(t, tok).nest = t.nest /\ Reads(t, tok).head = FileScope
<1> DEFINE n == t.nest
           h == t.head
           o == t.ok
           u == Reads(t, tok)
<1>1. t = [nest |-> n, head |-> h, ok |-> o] /\ u.ok /\ o \in BOOLEAN
  BY DEF Truths
<1>4. CASE tok \in Names
  <2> DEFINE k == o /\ h = FileScope /\ n = <<"contract">>
  <2>1. u = [t EXCEPT !.head = tok, !.ok = k]
    BY <1>4 DEF Reads
  <2> HIDE DEF k, n, h, o, u
  <2>2. u = [nest |-> n, head |-> tok, ok |-> k]
    BY <1>1, <2>1
  <2>3. u.nest = n /\ u.head = tok /\ k
    BY <1>1, <2>2
  <2>4. n = t.nest /\ h = t.head /\ o = t.ok
    BY DEF n, h, o
  <2> QED BY <1>4, <2>3, <2>4, TokenKinds DEF k, u
<1>5. CASE tok = "open"
  <2> DEFINE k == o /\ Len(n) < MaxDepth /\ LastOr(n, "none") # "struct"
             m == Append(n, Opened(t))
  <2>1. u = [nest |-> m, head |-> FileScope, ok |-> k]
    BY <1>5, TokenKinds DEF Reads
  <2> HIDE DEF k, m, u
  <2>2. u.nest = m /\ u.head = FileScope /\ k
    BY <1>1, <2>1
  <2> QED BY <1>5, <2>2, TokenKinds DEF k, u, m
<1>6. CASE tok = "close"
  <2> DEFINE k == o /\ h = FileScope /\ n # <<>>
             m == IF n = <<>> THEN n ELSE Front(n)
  <2>1. u = [t EXCEPT !.nest = m, !.ok = k]
    BY <1>6, TokenKinds DEF Reads
  <2> HIDE DEF k, m, u, n, h, o
  <2>2. u = [nest |-> m, head |-> h, ok |-> k]
    BY <1>1, <2>1
  <2>3. u.nest = m /\ u.head = h /\ k
    BY <1>1, <2>2
  <2>4. n = t.nest /\ h = t.head /\ o = t.ok
    BY DEF n, h, o
  <2> QED BY <1>6, <2>3, <2>4, TokenKinds DEF k, m, u, Front
<1>7. CASE tok = "end"
  <2> DEFINE k == o /\ n # <<>>
  <2>1. u = [t EXCEPT !.head = FileScope, !.ok = k]
    BY <1>7, TokenKinds DEF Reads
  <2> HIDE DEF k, n, h, o, u
  <2>2. u = [nest |-> n, head |-> FileScope, ok |-> k]
    BY <1>1, <2>1
  <2>3. u.nest = n /\ u.head = FileScope /\ k
    BY <1>1, <2>2
  <2>4. n = t.nest /\ h = t.head /\ o = t.ok
    BY DEF n, h, o
  <2> QED BY <1>7, <2>3, <2>4, TokenKinds DEF k, u
<1>8. CASE tok = "use"
  <2> DEFINE k == o /\ h = FileScope /\ LastOr(n, "struct") # "struct"
  <2>1. u = [t EXCEPT !.ok = k]
    BY <1>8, TokenKinds DEF Reads
  <2> HIDE DEF k, n, h, o, u
  <2>2. u = [nest |-> n, head |-> h, ok |-> k]
    BY <1>1, <2>1
  <2>3. u.nest = n /\ u.head = h /\ k
    BY <1>1, <2>2
  <2>4. n = t.nest /\ h = t.head /\ o = t.ok
    BY DEF n, h, o
  <2>5. n # <<>>
    BY <2>3 DEF k, LastOr
  <2> QED BY <1>8, <2>3, <2>4, <2>5, TokenKinds DEF k, u
<1> QED BY <1>4, <1>5, <1>6, <1>7, <1>8 DEF Tokens

\* The entries of a stack: a brace's depth and the name it was opened with.
Entries == [depth : Int, name : Signatures]

\* What a token does to the stack of every brace.
LEMMA BracedForms ==
  ASSUME ScopesAssumption, NEW b \in Scans, NEW tok \in Tokens
  PROVE  /\ tok \in Names => Braced(b, tok) = [depth |-> b.depth, pending |-> tok, stack |-> b.stack]
         /\ tok = "open" => Braced(b, tok) = [depth |-> b.depth + 1, pending |-> FileScope,
                                              stack |-> Append(b.stack, [depth |-> b.depth + 1, name |-> b.pending])]
         /\ tok = "close" => Braced(b, tok) = [depth |-> b.depth - 1, pending |-> b.pending,
                                               stack |-> IF b.stack # <<>> /\ Last(b.stack).depth = b.depth THEN Front(b.stack) ELSE b.stack]
         /\ tok \in {"end", "use"} => Braced(b, tok) = [depth |-> b.depth, pending |-> FileScope, stack |-> b.stack]
<1> DEFINE d == b.depth
           p == b.pending
           s == b.stack
           u == Braced(b, tok)
<1>1. b = [depth |-> d, pending |-> p, stack |-> s]
  BY DEF Scans
<1>2. CASE tok \in Names
  <2>1. u = [b EXCEPT !.pending = tok]
    BY <1>2 DEF Braced
  <2> HIDE DEF d, p, s, u
  <2>2. u = [depth |-> d, pending |-> tok, stack |-> s]
    BY <1>1, <2>1
  <2> QED BY <1>2, <2>2, TokenKinds DEF d, p, s, u
<1>3. CASE tok = "open"
  BY <1>3, TokenKinds DEF Braced
<1>4. CASE tok = "close"
  <2> DEFINE m == IF s # <<>> /\ Last(s).depth = d THEN Front(s) ELSE s
             c == d - 1
  <2>1. u = [b EXCEPT !.depth = c, !.stack = m]
    BY <1>4, TokenKinds DEF Braced
  <2> HIDE DEF d, p, s, u, m, c
  <2>2. u = [depth |-> c, pending |-> p, stack |-> m]
    BY <1>1, <2>1
  <2> QED BY <1>4, <2>2, TokenKinds DEF d, p, s, u, m, c
<1>5. CASE tok \in {"end", "use"}
  <2>1. u = [b EXCEPT !.pending = FileScope]
    BY <1>5, TokenKinds DEF Braced, Semicolon
  <2> HIDE DEF d, p, s, u
  <2>2. u = [depth |-> d, pending |-> FileScope, stack |-> s]
    BY <1>1, <2>1
  <2> QED BY <1>5, <2>2, TokenKinds DEF d, p, s, u
<1> QED BY <1>2, <1>3, <1>4, <1>5 DEF Tokens

\* What a token does to the external-call extractor's stack of bodies.
LEMMA ExternalForms ==
  ASSUME ScopesAssumption, NEW e \in Scans, NEW tok \in Tokens
  PROVE  /\ tok = "open" /\ e.pending # FileScope =>
              ExternalBraced(e, tok) = [depth |-> e.depth + 1, pending |-> FileScope,
                                        stack |-> Append(e.stack, [depth |-> e.depth, name |-> e.pending])]
         /\ tok = "open" /\ e.pending = FileScope =>
              ExternalBraced(e, tok) = [depth |-> e.depth + 1, pending |-> e.pending, stack |-> e.stack]
         /\ tok = "close" =>
              ExternalBraced(e, tok) = [depth |-> e.depth - 1, pending |-> e.pending,
                                        stack |-> IF e.stack # <<>> /\ Last(e.stack).depth = e.depth - 1 THEN Front(e.stack) ELSE e.stack]
         /\ tok \notin {"open", "close"} => ExternalBraced(e, tok) = e
<1> DEFINE d == e.depth
           p == e.pending
           s == e.stack
           u == ExternalBraced(e, tok)
<1>1. e = [depth |-> d, pending |-> p, stack |-> s]
  BY DEF Scans
<1>2. CASE tok = "open" /\ p # FileScope
  BY <1>2 DEF ExternalBraced
<1>3. CASE tok = "open" /\ p = FileScope
  <2> DEFINE c == d + 1
  <2>1. u = [e EXCEPT !.depth = c]
    BY <1>3 DEF ExternalBraced
  <2> HIDE DEF d, p, s, u, c
  <2>2. u = [depth |-> c, pending |-> p, stack |-> s]
    BY <1>1, <2>1
  <2> QED BY <1>3, <2>2 DEF d, p, s, u, c
<1>4. CASE tok = "close"
  <2> DEFINE m == IF s # <<>> /\ Last(s).depth = d - 1 THEN Front(s) ELSE s
             c == d - 1
  <2>1. u = [e EXCEPT !.depth = c, !.stack = m]
    BY <1>4 DEF ExternalBraced
  <2> HIDE DEF d, p, s, u, m, c
  <2>2. u = [depth |-> c, pending |-> p, stack |-> m]
    BY <1>1, <2>1
  <2> QED BY <1>4, <2>2 DEF d, p, s, u, m, c
<1>5. CASE tok \notin {"open", "close"}
  BY <1>5 DEF ExternalBraced
<1> QED BY <1>2, <1>3, <1>4, <1>5

LEMMA StackTyped ==
  ASSUME NEW s \in Seq(Entries)
  PROVE  /\ \A d \in Int, x \in Signatures : Append(s, [depth |-> d, name |-> x]) \in Seq(Entries)
         /\ s # <<>> => Front(s) \in Seq(Entries) /\ Last(s) \in Entries
<1>1. ASSUME NEW d \in Int, NEW x \in Signatures PROVE Append(s, [depth |-> d, name |-> x]) \in Seq(Entries)
  <2>1. [depth |-> d, name |-> x] \in Entries
    BY DEF Entries
  <2> QED BY <2>1, AppendProperties
<1>2. s # <<>> => Front(s) \in Seq(Entries) /\ Last(s) \in Entries
  BY FrontKeeps DEF Front, Last
<1> QED BY <1>1, <1>2

LEMMA ScanIs ==
  ASSUME NEW d \in Int, NEW p \in Signatures, NEW s \in Seq(Entries)
  PROVE  [depth |-> d, pending |-> p, stack |-> s] \in Scans
BY DEF Scans, Entries

LEMMA ScanFields ==
  ASSUME NEW b \in Scans
  PROVE  b.depth \in Int /\ b.pending \in Signatures /\ b.stack \in Seq(Entries)
BY DEF Scans, Entries

LEMMA BracedTyped ==
  ASSUME ScopesAssumption, NEW b \in Scans, NEW tok \in Tokens
  PROVE  Braced(b, tok) \in Scans
<1>1. b.depth \in Int /\ b.depth + 1 \in Int /\ b.depth - 1 \in Int /\ b.pending \in Signatures /\ b.stack \in Seq(Entries) /\ FileScope \in Signatures
  BY ScanFields DEF Signatures
<1>2. CASE tok \in Names
  <2>1. tok \in Signatures
    BY <1>2 DEF Signatures
  <2>2. Braced(b, tok) = [depth |-> b.depth, pending |-> tok, stack |-> b.stack]
    BY <1>2, BracedForms
  <2> QED BY <1>1, <2>1, <2>2, ScanIs
<1>3. CASE tok = "open"
  <2> DEFINE m == Append(b.stack, [depth |-> b.depth + 1, name |-> b.pending])
  <2>1. m \in Seq(Entries)
    BY <1>1, StackTyped
  <2>2. Braced(b, tok) = [depth |-> b.depth + 1, pending |-> FileScope, stack |-> m]
    BY <1>3, BracedForms
  <2> HIDE DEF m
  <2> QED BY <1>1, <2>1, <2>2, ScanIs
<1>4. CASE tok = "close"
  <2> DEFINE m == IF b.stack # <<>> /\ Last(b.stack).depth = b.depth THEN Front(b.stack) ELSE b.stack
  <2>1. m \in Seq(Entries)
    BY <1>1, StackTyped
  <2>2. Braced(b, tok) = [depth |-> b.depth - 1, pending |-> b.pending, stack |-> m]
    BY <1>4, BracedForms
  <2> HIDE DEF m
  <2> QED BY <1>1, <2>1, <2>2, ScanIs
<1>5. CASE tok \in {"end", "use"}
  <2>1. Braced(b, tok) = [depth |-> b.depth, pending |-> FileScope, stack |-> b.stack]
    BY <1>5, BracedForms
  <2> QED BY <1>1, <2>1, ScanIs
<1> QED BY <1>2, <1>3, <1>4, <1>5 DEF Tokens

LEMMA ExternalTyped ==
  ASSUME ScopesAssumption, NEW e \in Scans, NEW tok \in Tokens
  PROVE  ExternalBraced(e, tok) \in Scans
<1>1. e.depth \in Int /\ e.depth + 1 \in Int /\ e.depth - 1 \in Int /\ e.pending \in Signatures /\ e.stack \in Seq(Entries) /\ FileScope \in Signatures
  BY ScanFields DEF Signatures
<1>2. CASE tok = "open" /\ e.pending # FileScope
  <2> DEFINE m == Append(e.stack, [depth |-> e.depth, name |-> e.pending])
  <2>1. m \in Seq(Entries)
    BY <1>1, StackTyped
  <2>2. ExternalBraced(e, tok) = [depth |-> e.depth + 1, pending |-> FileScope, stack |-> m]
    BY <1>2, ExternalForms
  <2> HIDE DEF m
  <2> QED BY <1>1, <2>1, <2>2, ScanIs
<1>3. CASE tok = "open" /\ e.pending = FileScope
  <2>1. ExternalBraced(e, tok) = [depth |-> e.depth + 1, pending |-> e.pending, stack |-> e.stack]
    BY <1>3, ExternalForms
  <2> QED BY <1>1, <2>1, ScanIs
<1>4. CASE tok = "close"
  <2> DEFINE m == IF e.stack # <<>> /\ Last(e.stack).depth = e.depth - 1 THEN Front(e.stack) ELSE e.stack
  <2>1. m \in Seq(Entries)
    BY <1>1, StackTyped
  <2>2. ExternalBraced(e, tok) = [depth |-> e.depth - 1, pending |-> e.pending, stack |-> m]
    BY <1>4, ExternalForms
  <2> HIDE DEF m
  <2> QED BY <1>1, <2>1, <2>2, ScanIs
<1>5. CASE tok \notin {"open", "close"}
  BY <1>5, ExternalForms
<1> QED BY <1>2, <1>3, <1>4, <1>5

\* The three scans of a line, token for token.
LEMMA ReadLine ==
  ASSUME ScopesAssumption, NEW line \in Seq(Tokens), Truth \in Truths
  PROVE  /\ ReadAlong(line)[0] = Truth /\ \A i \in 0..Len(line) : ReadAlong(line)[i] \in Truths
         /\ \A i \in 1..Len(line) : ReadAlong(line)[i] = Reads(ReadAlong(line)[i - 1], line[i])
<1> DEFINE from == Truth
           step == [p \in Truths \X Tokens |-> Reads(p[1], p[2])]
           n == Len(line)
           at[i \in 0..Len(line)] == IF i = 0 THEN Truth ELSE Reads(at[i - 1], line[i])
<1>0. from \in Truths
  OBVIOUS
<1>1. step \in [Truths \X Tokens -> Truths]
  BY ReadsTyped
<1>2. n \in Nat /\ \A i \in 1..n : line[i] \in Tokens
  OBVIOUS
<1>3. PICK f : ScanOf(Truths, f, from, step, line)
  <2> HIDE DEF step, from
  <2> QED BY <1>0, <1>1, ScanExists
<1>4. f = [i \in 0..Len(line) |-> IF i = 0 THEN Truth ELSE Reads(f[i - 1], line[i])]
  <2> DEFINE h == [i \in 0..Len(line) |-> IF i = 0 THEN Truth ELSE Reads(f[i - 1], line[i])]
  <2>1. ASSUME NEW i \in 0..n PROVE f[i] = h[i]
    <3>1. CASE i = 0
      BY <1>3, <3>1 DEF ScanOf
    <3>2. CASE i # 0
      <4>1. i \in 1..n /\ i - 1 \in 0..n
        BY <1>2, <3>2
      <4>2. f[i] = step[<<f[i - 1], line[i]>>]
        <5> HIDE DEF step
        <5> QED BY <1>3, <4>1 DEF ScanOf
      <4>3. <<f[i - 1], line[i]>> \in Truths \X Tokens
        BY <1>2, <1>3, <4>1 DEF ScanOf
      <4>4. step[<<f[i - 1], line[i]>>] = Reads(f[i - 1], line[i])
        BY <4>3
      <4> QED BY <3>2, <4>2, <4>4
    <3> QED BY <3>1, <3>2
  <2> QED BY <1>3, <2>1 DEF ScanOf
<1>5. ReadAlong(line) = at
  BY Zenon DEF ReadAlong, Scanned
<1>6. at = [i \in 0..Len(line) |-> IF i = 0 THEN Truth ELSE Reads(at[i - 1], line[i])]
  BY <1>4, Zenon DEF at
<1> HIDE DEF at
<1>7. at[0] = from /\ \A i \in 1..n : at[i] = Reads(at[i - 1], line[i])
  BY <1>2, <1>6
<1>8. \A i \in 0..n : at[i] \in Truths
  <2> DEFINE S == {i \in 0..n : at[i] \in Truths}
  <2> HIDE DEF from
  <2>1. 0 \in S
    BY <1>0, <1>2, <1>7
  <2>2. ASSUME NEW i \in 1..n, i - 1 \in S PROVE i \in S
    <3>1. at[i] = Reads(at[i - 1], line[i]) /\ line[i] \in Tokens /\ at[i - 1] \in Truths /\ i \in 0..n
      BY <1>2, <1>7, <2>2
    <3> QED BY <3>1, ReadsTyped
  <2> HIDE DEF S
  <2>3. 0..n \subseteq S
    BY <1>2, <2>1, <2>2, EachUpTo
  <2> QED BY <2>3 DEF S
<1> QED BY <1>5, <1>7, <1>8

LEMMA BracedLine ==
  ASSUME ScopesAssumption, NEW line \in Seq(Tokens), braces \in Scans
  PROVE  /\ BracedAlong(line)[0] = braces /\ \A i \in 0..Len(line) : BracedAlong(line)[i] \in Scans
         /\ \A i \in 1..Len(line) : BracedAlong(line)[i] = Braced(BracedAlong(line)[i - 1], line[i])
<1> DEFINE from == braces
           step == [p \in Scans \X Tokens |-> Braced(p[1], p[2])]
           n == Len(line)
           at[i \in 0..Len(line)] == IF i = 0 THEN braces ELSE Braced(at[i - 1], line[i])
<1>0. from \in Scans
  OBVIOUS
<1>1. step \in [Scans \X Tokens -> Scans]
  BY BracedTyped
<1>2. n \in Nat /\ \A i \in 1..n : line[i] \in Tokens
  OBVIOUS
<1>3. PICK f : ScanOf(Scans, f, from, step, line)
  <2> HIDE DEF step, from
  <2> QED BY <1>0, <1>1, ScanExists
<1>4. f = [i \in 0..Len(line) |-> IF i = 0 THEN braces ELSE Braced(f[i - 1], line[i])]
  <2> DEFINE h == [i \in 0..Len(line) |-> IF i = 0 THEN braces ELSE Braced(f[i - 1], line[i])]
  <2>1. ASSUME NEW i \in 0..n PROVE f[i] = h[i]
    <3>1. CASE i = 0
      BY <1>3, <3>1 DEF ScanOf
    <3>2. CASE i # 0
      <4>1. i \in 1..n /\ i - 1 \in 0..n
        BY <1>2, <3>2
      <4>2. f[i] = step[<<f[i - 1], line[i]>>]
        <5> HIDE DEF step
        <5> QED BY <1>3, <4>1 DEF ScanOf
      <4>3. <<f[i - 1], line[i]>> \in Scans \X Tokens
        BY <1>2, <1>3, <4>1 DEF ScanOf
      <4>4. step[<<f[i - 1], line[i]>>] = Braced(f[i - 1], line[i])
        BY <4>3
      <4> QED BY <3>2, <4>2, <4>4
    <3> QED BY <3>1, <3>2
  <2> QED BY <1>3, <2>1 DEF ScanOf
<1>5. BracedAlong(line) = at
  BY Zenon DEF BracedAlong, Scanned
<1>6. at = [i \in 0..Len(line) |-> IF i = 0 THEN braces ELSE Braced(at[i - 1], line[i])]
  BY <1>4, Zenon DEF at
<1> HIDE DEF at
<1>7. at[0] = from /\ \A i \in 1..n : at[i] = Braced(at[i - 1], line[i])
  BY <1>2, <1>6
<1>8. \A i \in 0..n : at[i] \in Scans
  <2> DEFINE S == {i \in 0..n : at[i] \in Scans}
  <2> HIDE DEF from
  <2>1. 0 \in S
    BY <1>0, <1>2, <1>7
  <2>2. ASSUME NEW i \in 1..n, i - 1 \in S PROVE i \in S
    <3>1. at[i] = Braced(at[i - 1], line[i]) /\ line[i] \in Tokens /\ at[i - 1] \in Scans /\ i \in 0..n
      BY <1>2, <1>7, <2>2
    <3> QED BY <3>1, BracedTyped
  <2> HIDE DEF S
  <2>3. 0..n \subseteq S
    BY <1>2, <2>1, <2>2, EachUpTo
  <2> QED BY <2>3 DEF S
<1> QED BY <1>5, <1>7, <1>8

LEMMA ExternalLine ==
  ASSUME ScopesAssumption, NEW line \in Seq(Tokens), [ext EXCEPT !.pending = Pending(line)] \in Scans
  PROVE  /\ ExternalAlong(line)[0] = [ext EXCEPT !.pending = Pending(line)] /\ \A i \in 0..Len(line) : ExternalAlong(line)[i] \in Scans
         /\ \A i \in 1..Len(line) : ExternalAlong(line)[i] = ExternalBraced(ExternalAlong(line)[i - 1], line[i])
<1> DEFINE from == [ext EXCEPT !.pending = Pending(line)]
           step == [p \in Scans \X Tokens |-> ExternalBraced(p[1], p[2])]
           n == Len(line)
           at[i \in 0..Len(line)] == IF i = 0 THEN [ext EXCEPT !.pending = Pending(line)] ELSE ExternalBraced(at[i - 1], line[i])
<1>0. from \in Scans
  OBVIOUS
<1>1. step \in [Scans \X Tokens -> Scans]
  BY ExternalTyped
<1>2. n \in Nat /\ \A i \in 1..n : line[i] \in Tokens
  OBVIOUS
<1>3. PICK f : ScanOf(Scans, f, from, step, line)
  <2> HIDE DEF step, from
  <2> QED BY <1>0, <1>1, ScanExists
<1>4. f = [i \in 0..Len(line) |-> IF i = 0 THEN [ext EXCEPT !.pending = Pending(line)] ELSE ExternalBraced(f[i - 1], line[i])]
  <2> DEFINE h == [i \in 0..Len(line) |-> IF i = 0 THEN [ext EXCEPT !.pending = Pending(line)] ELSE ExternalBraced(f[i - 1], line[i])]
  <2>1. ASSUME NEW i \in 0..n PROVE f[i] = h[i]
    <3>1. CASE i = 0
      BY <1>3, <3>1 DEF ScanOf
    <3>2. CASE i # 0
      <4>1. i \in 1..n /\ i - 1 \in 0..n
        BY <1>2, <3>2
      <4>2. f[i] = step[<<f[i - 1], line[i]>>]
        <5> HIDE DEF step
        <5> QED BY <1>3, <4>1 DEF ScanOf
      <4>3. <<f[i - 1], line[i]>> \in Scans \X Tokens
        BY <1>2, <1>3, <4>1 DEF ScanOf
      <4>4. step[<<f[i - 1], line[i]>>] = ExternalBraced(f[i - 1], line[i])
        BY <4>3
      <4> QED BY <3>2, <4>2, <4>4
    <3> QED BY <3>1, <3>2
  <2> QED BY <1>3, <2>1 DEF ScanOf
<1>5. ExternalAlong(line) = at
  BY Zenon DEF ExternalAlong, Scanned
<1>6. at = [i \in 0..Len(line) |-> IF i = 0 THEN [ext EXCEPT !.pending = Pending(line)] ELSE ExternalBraced(at[i - 1], line[i])]
  BY <1>4, Zenon DEF at
<1> HIDE DEF at
<1>7. at[0] = from /\ \A i \in 1..n : at[i] = ExternalBraced(at[i - 1], line[i])
  BY <1>2, <1>6, SMTT(30)
<1>8. \A i \in 0..n : at[i] \in Scans
  <2> DEFINE S == {i \in 0..n : at[i] \in Scans}
  <2> HIDE DEF from
  <2>1. 0 \in S
    BY <1>0, <1>2, <1>7
  <2>2. ASSUME NEW i \in 1..n, i - 1 \in S PROVE i \in S
    <3>1. at[i] = ExternalBraced(at[i - 1], line[i]) /\ line[i] \in Tokens /\ at[i - 1] \in Scans /\ i \in 0..n
      BY <1>2, <1>7, <2>2
    <3> QED BY <3>1, ExternalTyped
  <2> HIDE DEF S
  <2>3. 0..n \subseteq S
    BY <1>2, <2>1, <2>2, EachUpTo
  <2> QED BY <2>3 DEF S
<1> QED BY <1>5, <1>7, <1>8

Shaped(t) ==
  /\ t.head \in Names => t.nest = <<"contract">>
  /\ \A i \in 1..Len(t.nest) : t.nest[i] \in Names => i = 2

\* The function the truth is in.
InBody(n) == IF Len(n) >= 2 /\ n[2] \in Names THEN n[2] ELSE FileScope

FollowsTruth(t, b) ==
  /\ b.depth = Len(t.nest) /\ b.pending = t.head /\ Len(b.stack) = Len(t.nest)
  /\ \A i \in 1..Len(t.nest) : /\ b.stack[i].depth = i
                               /\ t.nest[i] \in Names \/ b.stack[i].name \in Names => t.nest[i] = b.stack[i].name

LEMMA SecondIs ==
  ASSUME ScopesAssumption, NEW s, NEW n \in Nat, DOMAIN s = 1..n, \A i \in 1..n : s[i] \in Names => i = 2
  PROVE  Innermost(s) = IF n >= 2 /\ s[2] \in Names THEN s[2] ELSE FileScope
<1>1. CASE n >= 2 /\ s[2] \in Names
  <2>1. NamedIn(s) = {2}
    BY <1>1 DEF NamedIn
  <2>2. Max({2}) = 2
    BY DEF Max
  <2> QED BY <1>1, <2>1, <2>2 DEF Innermost
<1>2. CASE ~(n >= 2 /\ s[2] \in Names)
  <2>1. NamedIn(s) = {}
    BY <1>2 DEF NamedIn
  <2> QED BY <1>2, <2>1 DEF Innermost
<1> QED BY <1>1, <1>2

\* The last scope with a name, on the stack of every brace, is the function.
LEMMA BothFindBody ==
  ASSUME ScopesAssumption, NEW t \in Truths, NEW b \in Scans, Shaped(t), FollowsTruth(t, b)
  PROVE  Innermost(t.nest) = InBody(t.nest) /\ Active(b) = InBody(t.nest)
<1> DEFINE n == Len(t.nest)
           names == [i \in DOMAIN b.stack |-> b.stack[i].name]
<1>1. n \in Nat /\ DOMAIN t.nest = 1..n
  BY DEF Truths
<1>2. DOMAIN b.stack = 1..n
  BY ScanFields DEF FollowsTruth
<1>3. DOMAIN names = 1..n /\ \A i \in 1..n : names[i] = b.stack[i].name
  BY <1>2
<1>4. \A i \in 1..n : t.nest[i] \in Names => i = 2
  BY DEF Shaped
<1>5. \A i \in 1..n : t.nest[i] \in Names \/ names[i] \in Names => t.nest[i] = names[i]
  BY <1>3 DEF FollowsTruth
<1> HIDE DEF n, names
<1>6. Innermost(t.nest) = IF n >= 2 /\ t.nest[2] \in Names THEN t.nest[2] ELSE FileScope
  BY <1>1, <1>4, SecondIs
<1>7. \A i \in 1..n : names[i] \in Names => i = 2
  BY <1>4, <1>5
<1>8. Innermost(names) = IF n >= 2 /\ names[2] \in Names THEN names[2] ELSE FileScope
  BY <1>1, <1>3, <1>7, SecondIs
<1>9. n >= 2 => 2 \in 1..n
  BY <1>1
<1>10. n >= 2 /\ (t.nest[2] \in Names \/ names[2] \in Names) => t.nest[2] = names[2]
  BY <1>5, <1>9
<1> QED BY <1>6, <1>8, <1>10 DEF InBody, Active, n, names

LEMMA ShapedStays ==
  ASSUME ScopesAssumption, NEW t \in Truths, NEW tok \in Tokens, Reads(t, tok).ok, Shaped(t)
  PROVE  Shaped(Reads(t, tok))
<1> DEFINE u == Reads(t, tok)
           K == Names \cup {"contract", "struct", "block"}
<1>1. t.nest \in Seq(K) /\ Opened(t) \in K
  BY OpenedIs DEF Truths
<1> HIDE DEF K
<1>2. CASE tok \in Names
  <2>1. t.nest = <<"contract">> /\ u.nest = t.nest /\ u.head = tok
    BY <1>2, LegalToken
  <2> QED BY <2>1 DEF Shaped
<1>3. CASE tok = "open"
  <2>1. u.nest = Append(t.nest, Opened(t)) /\ u.head \notin Names
    BY <1>3, LegalToken, TokenKinds
  <2>2. \A i \in 1..(Len(t.nest) + 1) : Append(t.nest, Opened(t))[i] \in Names => i = 2
    <3>1. SUFFICES ASSUME NEW i \in 1..(Len(t.nest) + 1), Append(t.nest, Opened(t))[i] \in Names PROVE i = 2
      OBVIOUS
    <3>2. CASE i \in 1..Len(t.nest)
      BY <1>1, <3>1, <3>2, AppendIs DEF Shaped
    <3>3. CASE i = Len(t.nest) + 1
      <4>1. Opened(t) \in Names
        BY <1>1, <3>1, <3>3, AppendIs
      <4>2. t.head \in Names
        BY <4>1, OpenedIs
      <4>3. t.nest = <<"contract">>
        BY <4>2 DEF Shaped
      <4> QED BY <3>3, <4>3
    <3> QED BY <1>1, <3>2, <3>3, AppendIs
  <2> QED BY <1>1, <2>1, <2>2, AppendIs DEF Shaped
<1>4. CASE tok = "close"
  <2>1. t.nest # <<>> /\ u.nest = SubSeq(t.nest, 1, Len(t.nest) - 1) /\ u.head \notin Names
    BY <1>4, LegalToken, TokenKinds
  <2>2. /\ Len(t.nest) \in Nat /\ Len(u.nest) = Len(t.nest) - 1
        /\ \A i \in 1..(Len(t.nest) - 1) : u.nest[i] = t.nest[i]
    BY <1>1, <2>1, FrontKeeps
  <2>3. \A i \in 1..(Len(t.nest) - 1) : i \in 1..Len(t.nest)
    BY <2>2
  <2>4. \A i \in 1..Len(t.nest) : t.nest[i] \in Names => i = 2
    BY DEF Shaped
  <2>5. \A i \in 1..(Len(t.nest) - 1) : u.nest[i] \in Names => i = 2
    BY <2>2, <2>3, <2>4
  <2>6. \A i \in 1..Len(u.nest) : u.nest[i] \in Names => i = 2
    BY <2>2, <2>5
  <2> QED BY <2>1, <2>6 DEF Shaped
<1>5. CASE tok \in {"end", "use"}
  <2>1. u.nest = t.nest /\ u.head \notin Names
    BY <1>5, LegalToken, TokenKinds
  <2> QED BY <2>1 DEF Shaped
<1> QED BY <1>2, <1>3, <1>4, <1>5 DEF Tokens

LEMMA MatchesStays ==
  ASSUME ScopesAssumption, NEW t \in Truths, NEW b \in Scans, NEW tok \in Tokens, Reads(t, tok).ok, FollowsTruth(t, b)
  PROVE  FollowsTruth(Reads(t, tok), Braced(b, tok))
<1> DEFINE u == Reads(t, tok)
           c == Braced(b, tok)
           n == Len(t.nest)
           K == Names \cup {"contract", "struct", "block"}
           SameAt(i, x, y) == y.depth = i /\ (x \in Names \/ y.name \in Names => x = y.name)
<1>1. t.nest \in Seq(K) /\ Opened(t) \in K /\ n \in Nat
  BY OpenedIs DEF Truths
<1>2. b.stack \in Seq(Entries) /\ b.depth = n /\ b.pending = t.head /\ Len(b.stack) = n /\ t.head \in Signatures
  BY ScanFields DEF FollowsTruth, Truths
<1>3. \A i \in 1..n : SameAt(i, t.nest[i], b.stack[i])
  BY DEF FollowsTruth
<1> HIDE DEF K
<1>4. SUFFICES /\ c.depth = Len(u.nest) /\ c.pending = u.head /\ Len(c.stack) = Len(u.nest)
               /\ \A i \in 1..Len(u.nest) : SameAt(i, u.nest[i], c.stack[i])
  BY DEF FollowsTruth
<1>5. CASE tok \in Names
  <2>1. u.nest = t.nest /\ u.head = tok
    BY <1>5, LegalToken
  <2>2. c = [depth |-> b.depth, pending |-> tok, stack |-> b.stack]
    BY <1>5, BracedForms
  <2> QED BY <1>2, <1>3, <2>1, <2>2
<1>6. CASE tok = "open"
  <2> DEFINE x == Opened(t)
             y == [depth |-> b.depth + 1, name |-> b.pending]
  <2>1. u.nest = Append(t.nest, x) /\ u.head = FileScope
    BY <1>6, LegalToken
  <2>2. c = [depth |-> b.depth + 1, pending |-> FileScope, stack |-> Append(b.stack, y)]
    BY <1>6, BracedForms
  <2>3. SameAt(n + 1, x, y) /\ y \in Entries
    BY <1>1, <1>2, TokenKinds, OpenedIs DEF Signatures, Entries
  <2>4. c.depth = n + 1 /\ c.pending = FileScope /\ c.stack = Append(b.stack, y)
    BY <1>2, <2>2
  <2> HIDE DEF x, y, u, c, SameAt
  <2>5. /\ Len(u.nest) = n + 1 /\ u.nest[n + 1] = x
        /\ \A i \in 1..n : u.nest[i] = t.nest[i]
    BY <1>1, <2>1, AppendIs DEF x
  <2>6. /\ Len(c.stack) = n + 1 /\ c.stack[n + 1] = y
        /\ \A i \in 1..n : c.stack[i] = b.stack[i]
    BY <1>2, <2>3, <2>4, AppendIs
  <2>7. \A i \in 1..(n + 1) : i \in 1..n \/ i = n + 1
    BY <1>1
  <2> QED BY <1>3, <2>1, <2>3, <2>4, <2>5, <2>6, <2>7
<1>7. CASE tok = "close"
  <2>1. t.nest # <<>> /\ u.nest = SubSeq(t.nest, 1, n - 1) /\ u.head = FileScope /\ t.head = FileScope
    BY <1>7, LegalToken
  <2>2. n >= 1 /\ n \in 1..n /\ b.stack # <<>>
    BY <1>1, <1>2, <2>1
  <2>3. Last(b.stack).depth = b.depth
    BY <1>2, <1>3, <2>2 DEF Last
  <2>4. c = [depth |-> n - 1, pending |-> FileScope, stack |-> SubSeq(b.stack, 1, n - 1)]
    <3> DEFINE m == IF b.stack # <<>> /\ Last(b.stack).depth = b.depth THEN Front(b.stack) ELSE b.stack
    <3>1. c = [depth |-> b.depth - 1, pending |-> b.pending, stack |-> m]
      BY <1>7, BracedForms
    <3>2. m = SubSeq(b.stack, 1, n - 1)
      BY <1>2, <2>2, <2>3 DEF Front
    <3> HIDE DEF m, c
    <3> QED BY <1>2, <2>1, <3>1, <3>2
  <2>5. c.depth = n - 1 /\ c.pending = FileScope /\ c.stack = SubSeq(b.stack, 1, n - 1)
    BY <2>4
  <2> HIDE DEF u, c, SameAt
  <2>6. Len(u.nest) = n - 1 /\ \A i \in 1..(n - 1) : u.nest[i] = t.nest[i]
    BY <1>1, <2>1, FrontKeeps
  <2>7. Len(c.stack) = n - 1 /\ \A i \in 1..(n - 1) : c.stack[i] = b.stack[i]
    BY <1>2, <2>2, <2>5, FrontKeeps
  <2>8. \A i \in 1..(n - 1) : i \in 1..n
    BY <1>1
  <2> QED BY <1>3, <2>1, <2>5, <2>6, <2>7, <2>8
<1>8. CASE tok \in {"end", "use"}
  <2>1. u.nest = t.nest /\ u.head = FileScope
    BY <1>8, LegalToken
  <2>2. c = [depth |-> b.depth, pending |-> FileScope, stack |-> b.stack]
    BY <1>8, BracedForms
  <2> QED BY <1>2, <1>3, <2>1, <2>2
<1> QED BY <1>5, <1>6, <1>7, <1>8 DEF Tokens

Legal(line) == ReadAlong(line)[Len(line)].ok

\* Every token of a legal line is legal where it stands.
LEMMA LegalLine ==
  ASSUME ScopesAssumption, Truth \in Truths, NEW line \in Seq(Tokens), Legal(line)
  PROVE  \A i \in 0..Len(line) : ReadAlong(line)[i].ok
<1> DEFINE n == Len(line)
           t(i) == ReadAlong(line)[i]
           S == {k \in 0..n : t(n - k).ok}
<1>1. n \in Nat /\ (\A i \in 1..n : t(i) = Reads(t(i - 1), line[i])) /\ \A i \in 0..n : t(i) \in Truths
  BY ReadLine
<1>2. t(n).ok
  BY DEF Legal
<1>3. \A i \in 1..n : i - 1 \in 0..n /\ line[i] \in Tokens
  OBVIOUS
<1> HIDE DEF t, n
<1>4. ASSUME NEW i \in 1..n, t(i).ok PROVE t(i - 1).ok
  <2> DEFINE u == t(i - 1)
             tok == line[i]
  <2>1. t(i) = Reads(u, tok) /\ u \in Truths /\ tok \in Tokens
    BY <1>1, <1>3
  <2> HIDE DEF u, tok
  <2>2. u.ok
    BY <1>4, <2>1, LegalToken
  <2> QED BY <2>2 DEF u
<1>5. 0 \in S
  BY <1>1, <1>2
<1>6. ASSUME NEW k \in 1..n, k - 1 \in S PROVE k \in S
  <2>1. n - (k - 1) \in 1..n /\ (n - (k - 1)) - 1 = n - k
    BY <1>1
  <2> QED BY <1>4, <1>6, <2>1
<1> HIDE DEF S
<1>7. 0..n \subseteq S
  BY <1>1, <1>5, <1>6, EachUpTo
<1>8. ASSUME NEW i \in 0..n PROVE t(i).ok
  <2>1. n - i \in 0..n /\ n - (n - i) = i
    BY <1>1
  <2> QED BY <1>7, <2>1 DEF S
<1> QED BY <1>8 DEF t, n

\* Along a legal line the truth keeps its shape, and the stack of every brace follows it.
LEMMA MatchesAlong ==
  ASSUME ScopesAssumption, Truth \in Truths, braces \in Scans, NEW line \in Seq(Tokens), Legal(line), Shaped(Truth), FollowsTruth(Truth, braces)
  PROVE  \A i \in 0..Len(line) : Shaped(ReadAlong(line)[i]) /\ FollowsTruth(ReadAlong(line)[i], BracedAlong(line)[i])
<1> DEFINE n == Len(line)
           t(i) == ReadAlong(line)[i]
           b(i) == BracedAlong(line)[i]
           S == {i \in 0..n : Shaped(t(i)) /\ FollowsTruth(t(i), b(i))}
<1>1. /\ n \in Nat /\ (\A i \in 1..n : t(i) = Reads(t(i - 1), line[i])) /\ (\A i \in 0..n : t(i) \in Truths)
      /\ t(0) = Truth
  BY ReadLine
<1>2. (\A i \in 1..n : b(i) = Braced(b(i - 1), line[i])) /\ (\A i \in 0..n : b(i) \in Scans) /\ b(0) = braces
  BY BracedLine
<1>3. \A i \in 0..n : t(i).ok
  BY LegalLine
<1>4. \A i \in 1..n : i \in 0..n /\ i - 1 \in 0..n /\ line[i] \in Tokens
  OBVIOUS
<1> HIDE DEF t, b, n
<1>5. 0 \in S
  BY <1>1, <1>2
<1>6. ASSUME NEW i \in 1..n, i - 1 \in S PROVE i \in S
  <2> DEFINE u == t(i - 1)
             c == b(i - 1)
             tok == line[i]
  <2>1. /\ t(i) = Reads(u, tok) /\ b(i) = Braced(c, tok) /\ t(i).ok /\ u \in Truths /\ c \in Scans /\ tok \in Tokens
        /\ Shaped(u) /\ FollowsTruth(u, c) /\ i \in 0..n
    BY <1>1, <1>2, <1>3, <1>4, <1>6
  <2> HIDE DEF u, c, tok
  <2>2. Reads(u, tok).ok
    BY <2>1
  <2>3. Shaped(Reads(u, tok)) /\ FollowsTruth(Reads(u, tok), Braced(c, tok))
    BY <2>1, <2>2, ShapedStays, MatchesStays
  <2> QED BY <2>1, <2>3
<1> HIDE DEF S
<1>7. 0..n \subseteq S
  BY <1>1, <1>5, <1>6, EachUpTo
<1> QED BY <1>7 DEF S, t, b, n

\* The external-call extractor counts the braces.
LEMMA DepthAlong ==
  ASSUME ScopesAssumption, Truth \in Truths, NEW line \in Seq(Tokens), [ext EXCEPT !.pending = Pending(line)] \in Scans, Legal(line),
         ext.depth = Len(nest)
  PROVE  \A i \in 0..Len(line) : ExternalAlong(line)[i].depth = Len(ReadAlong(line)[i].nest)
<1> DEFINE n == Len(line)
           from == [ext EXCEPT !.pending = Pending(line)]
           t(i) == ReadAlong(line)[i]
           e(i) == ExternalAlong(line)[i]
           S == {i \in 0..n : e(i).depth = Len(t(i).nest)}
<1>1. /\ n \in Nat /\ (\A i \in 1..n : t(i) = Reads(t(i - 1), line[i])) /\ (\A i \in 0..n : t(i) \in Truths)
      /\ t(0) = Truth
  BY ReadLine
<1>2. (\A i \in 1..n : e(i) = ExternalBraced(e(i - 1), line[i])) /\ (\A i \in 0..n : e(i) \in Scans) /\ e(0) = from
  BY ExternalLine
<1>3. \A i \in 0..n : t(i).ok
  BY LegalLine
<1>4. \A i \in 1..n : i \in 0..n /\ i - 1 \in 0..n /\ line[i] \in Tokens
  OBVIOUS
<1>5. from.depth = ext.depth /\ Truth.nest = nest
  <2> DEFINE p == Pending(line)
  <2>1. from \in Scans /\ from = [ext EXCEPT !.pending = p]
    OBVIOUS
  <2> HIDE DEF p
  <2> QED BY <2>1 DEF Scans, Truth
<1> HIDE DEF t, e, n, from
<1>6. 0 \in S
  BY <1>1, <1>2, <1>5
<1>7. ASSUME NEW i \in 1..n, i - 1 \in S PROVE i \in S
  <2> DEFINE u == t(i - 1)
             c == e(i - 1)
             tok == line[i]
  <2>1. /\ t(i) = Reads(u, tok) /\ e(i) = ExternalBraced(c, tok) /\ t(i).ok /\ u \in Truths /\ c \in Scans /\ tok \in Tokens
        /\ c.depth = Len(u.nest) /\ i \in 0..n
    BY <1>1, <1>2, <1>3, <1>4, <1>7
  <2> HIDE DEF u, c, tok
  <2>2. Reads(u, tok).ok
    BY <2>1
  <2>3. ExternalBraced(c, tok).depth = Len(Reads(u, tok).nest)
    <3> DEFINE K == Names \cup {"contract", "struct", "block"}
    <3>1. u.nest \in Seq(K) /\ Opened(u) \in K /\ Len(u.nest) \in Nat /\ c.depth \in Int
      BY <2>1, OpenedIs, ScanFields DEF Truths
    <3> HIDE DEF K
    <3>2. CASE tok = "open"
      <4>1. Reads(u, tok).nest = Append(u.nest, Opened(u))
        BY <2>1, <2>2, <3>2, LegalToken
      <4>2. ExternalBraced(c, tok).depth = c.depth + 1
        <5>1. CASE c.pending = FileScope
          <6>1. ExternalBraced(c, tok) = [depth |-> c.depth + 1, pending |-> c.pending, stack |-> c.stack]
            BY <2>1, <3>2, <5>1, ExternalForms
          <6> QED BY <6>1
        <5>2. CASE c.pending # FileScope
          <6>1. ExternalBraced(c, tok) = [depth |-> c.depth + 1, pending |-> FileScope,
                                          stack |-> Append(c.stack, [depth |-> c.depth, name |-> c.pending])]
            BY <2>1, <3>2, <5>2, ExternalForms
          <6> QED BY <6>1
        <5> QED BY <5>1, <5>2
      <4>3. Len(Append(u.nest, Opened(u))) = Len(u.nest) + 1
        BY <3>1, AppendIs
      <4> QED BY <2>1, <4>1, <4>2, <4>3
    <3>3. CASE tok = "close"
      <4>1. u.nest # <<>> /\ Reads(u, tok).nest = SubSeq(u.nest, 1, Len(u.nest) - 1)
        BY <2>1, <2>2, <3>3, LegalToken
      <4>2. ExternalBraced(c, tok) = [depth |-> c.depth - 1, pending |-> c.pending,
                                      stack |-> IF c.stack # <<>> /\ Last(c.stack).depth = c.depth - 1 THEN Front(c.stack) ELSE c.stack]
        BY <2>1, <3>3, ExternalForms
      <4>3. Len(SubSeq(u.nest, 1, Len(u.nest) - 1)) = Len(u.nest) - 1
        BY <3>1, <4>1, FrontKeeps
      <4> QED BY <2>1, <4>1, <4>2, <4>3
    <3>4. CASE tok \notin {"open", "close"}
      <4>1. Reads(u, tok).nest = u.nest
        BY <2>1, <2>2, <3>4, LegalToken DEF Tokens
      <4>2. ExternalBraced(c, tok) = c
        BY <2>1, <3>4, ExternalForms
      <4> QED BY <2>1, <4>1, <4>2
    <3> QED BY <3>2, <3>3, <3>4
  <2> QED BY <2>1, <2>3
<1> HIDE DEF S
<1>8. 0..n \subseteq S
  BY <1>1, <1>6, <1>7, EachUpTo
<1> QED BY <1>8 DEF S, t, e, n

BodyStack(n) == IF InBody(n) # FileScope THEN <<[depth |-> 1, name |-> InBody(n)]>> ELSE <<>>

LEMMA BodyIs ==
  ASSUME ScopesAssumption, NEW n
  PROVE  /\ InBody(n) \in Signatures
         /\ InBody(n) # FileScope => InBody(n) \in Names /\ BodyStack(n) # <<>> /\ Last(BodyStack(n)) = [depth |-> 1, name |-> InBody(n)]
         /\ InBody(n) = FileScope => BodyStack(n) = <<>>
<1>1. CASE Len(n) >= 2 /\ n[2] \in Names
  <2>1. InBody(n) = n[2] /\ InBody(n) # FileScope
    BY <1>1, TokenKinds DEF InBody
  <2>2. BodyStack(n) = <<[depth |-> 1, name |-> InBody(n)]>>
    BY <2>1 DEF BodyStack
  <2> QED BY <1>1, <2>1, <2>2 DEF Signatures, Last
<1>2. CASE ~(Len(n) >= 2 /\ n[2] \in Names)
  <2>1. InBody(n) = FileScope
    BY <1>2 DEF InBody
  <2> QED BY <2>1 DEF Signatures, BodyStack
<1> QED BY <1>1, <1>2

\* A brace opens a function only where a signature waits for it in a contract.
LEMMA BodyOpens ==
  ASSUME ScopesAssumption, NEW t \in Truths, Shaped(t)
  PROVE  InBody(Append(t.nest, Opened(t))) = IF InBody(t.nest) # FileScope THEN InBody(t.nest) ELSE t.head
<1> DEFINE K == Names \cup {"contract", "struct", "block"}
           n == Len(t.nest)
           x == Opened(t)
           m == Append(t.nest, x)
<1>1. t.nest \in Seq(K) /\ x \in K /\ n \in Nat /\ t.head \in Signatures
  BY OpenedIs DEF Truths
<1> HIDE DEF K
<1>2. Len(m) = n + 1 /\ m[n + 1] = x /\ \A i \in 1..n : m[i] = t.nest[i]
  <2> HIDE DEF x
  <2> QED BY <1>1, AppendIs
<1>3. CASE t.head \in Names
  <2>1. t.nest = <<"contract">> /\ x = t.head
    BY <1>3, OpenedIs DEF Shaped
  <2>2. n = 1
    BY <2>1
  <2>3. Len(m) = 2 /\ m[2] = t.head
    BY <1>2, <2>1, <2>2
  <2> HIDE DEF m, n
  <2>4. InBody(m) = t.head
    BY <1>3, <2>3 DEF InBody
  <2>5. InBody(t.nest) = FileScope
    BY <2>2 DEF InBody, n
  <2> QED BY <2>4, <2>5 DEF m
<1>4. CASE t.head \notin Names
  <2>1. t.head = FileScope /\ x \notin Names
    BY <1>1, <1>4, OpenedIs DEF Signatures
  <2> HIDE DEF x, m
  <2>2. CASE n >= 2
    <3>1. 2 \in 1..n /\ Len(m) >= 2
      BY <1>1, <1>2, <2>2
    <3>2. m[2] = t.nest[2]
      BY <1>2, <3>1
    <3>3. InBody(m) = InBody(t.nest)
      BY <2>2, <3>1, <3>2 DEF InBody
    <3> QED BY <2>1, <3>3 DEF m, x
  <2>3. CASE n = 1
    <3>1. Len(m) = 2 /\ m[2] = x
      BY <1>2, <2>3
    <3>2. InBody(m) = FileScope /\ InBody(t.nest) = FileScope
      BY <2>1, <2>3, <3>1 DEF InBody
    <3> QED BY <2>1, <3>2 DEF m, x
  <2>4. CASE n = 0
    <3>1. Len(m) = 1
      BY <1>2, <2>4
    <3>2. InBody(m) = FileScope /\ InBody(t.nest) = FileScope
      BY <2>1, <2>4, <3>1 DEF InBody
    <3> QED BY <2>1, <3>2 DEF m, x
  <2>5. n >= 2 \/ n = 1 \/ n = 0
    <3> HIDE DEF n
    <3> QED BY <1>1
  <2> QED BY <2>2, <2>3, <2>4, <2>5
<1> QED BY <1>3, <1>4

LEMMA BodyCloses ==
  ASSUME ScopesAssumption, NEW t \in Truths, t.nest # <<>>
  PROVE  InBody(SubSeq(t.nest, 1, Len(t.nest) - 1)) = IF Len(t.nest) = 2 THEN FileScope ELSE InBody(t.nest)
<1> DEFINE K == Names \cup {"contract", "struct", "block"}
           n == Len(t.nest)
           m == SubSeq(t.nest, 1, n - 1)
<1>1. t.nest \in Seq(K) /\ n \in Nat /\ n >= 1
  BY DEF Truths
<1> HIDE DEF K
<1>2. Len(m) = n - 1 /\ \A i \in 1..(n - 1) : m[i] = t.nest[i]
  BY <1>1, FrontKeeps
<1> HIDE DEF m
<1>3. CASE n <= 2
  <2>1. InBody(m) = FileScope
    BY <1>1, <1>2, <1>3 DEF InBody
  <2>2. n = 1 => InBody(t.nest) = FileScope
    BY DEF InBody
  <2>3. n = 2 \/ n = 1
    <3> HIDE DEF n
    <3> QED BY <1>1, <1>3
  <2>4. InBody(m) = IF n = 2 THEN FileScope ELSE InBody(t.nest)
    BY <2>1, <2>2, <2>3
  <2> QED BY <2>4 DEF m
<1>4. CASE n > 2
  <2>1. 2 \in 1..(n - 1) /\ Len(m) >= 2 /\ n # 2
    BY <1>1, <1>2, <1>4
  <2>2. m[2] = t.nest[2]
    BY <1>2, <2>1
  <2>3. InBody(m) = InBody(t.nest)
    BY <1>4, <2>1, <2>2 DEF InBody
  <2> QED BY <2>1, <2>3 DEF m
<1> QED BY <1>1, <1>3, <1>4

\* One body on the external-call extractor's stack, while its signature waits where the truth has it wait.
LEMMA ExternalStays ==
  ASSUME ScopesAssumption, NEW t \in Truths, NEW e \in Scans, NEW tok \in Tokens, Reads(t, tok).ok, Shaped(t),
         e.depth = Len(t.nest), e.stack = BodyStack(t.nest), tok = "open" => e.pending = t.head
  PROVE  /\ ExternalBraced(e, tok).stack = BodyStack(Reads(t, tok).nest)
         /\ ExternalBraced(e, tok).pending = IF tok = "open" THEN FileScope ELSE e.pending
         /\ tok # "close" => InBody(Reads(t, tok).nest) = IF tok = "open" /\ InBody(t.nest) = FileScope THEN t.head ELSE InBody(t.nest)
<1> DEFINE u == Reads(t, tok)
           c == ExternalBraced(e, tok)
           B == InBody(t.nest)
<1>1. t.head \in Signatures /\ Len(t.nest) \in Nat
  BY DEF Truths
<1>2. CASE tok = "open"
  <2>1. InBody(u.nest) = IF B # FileScope THEN B ELSE t.head
    <3>1. u.nest = Append(t.nest, Opened(t))
      BY <1>2, LegalToken
    <3> HIDE DEF u
    <3> QED BY <3>1, BodyOpens
  <2>2. CASE t.head = FileScope
    <3>1. c = [depth |-> e.depth + 1, pending |-> e.pending, stack |-> e.stack]
      BY <1>2, <2>2, ExternalForms
    <3>2. InBody(u.nest) = B
      BY <2>1, <2>2
    <3>3. BodyStack(u.nest) = BodyStack(t.nest)
      BY <3>2 DEF BodyStack
    <3> QED BY <1>2, <2>2, <3>1, <3>2, <3>3
  <2>3. CASE t.head # FileScope
    <3>1. t.head \in Names /\ t.nest = <<"contract">>
      BY <1>1, <2>3 DEF Signatures, Shaped
    <3>2. Len(t.nest) = 1 /\ B = FileScope
      BY <3>1 DEF InBody
    <3>3. e.stack = <<>> /\ e.depth = 1
      BY <3>2, BodyIs
    <3>4. c = [depth |-> e.depth + 1, pending |-> FileScope, stack |-> Append(e.stack, [depth |-> e.depth, name |-> e.pending])]
      BY <1>2, <2>3, ExternalForms
    <3>5. c.stack = <<[depth |-> 1, name |-> t.head]>>
      BY <1>2, <3>3, <3>4
    <3>6. InBody(u.nest) = t.head
      BY <2>1, <3>2
    <3>7. BodyStack(u.nest) = <<[depth |-> 1, name |-> t.head]>>
      BY <2>3, <3>6 DEF BodyStack
    <3>8. c.pending = FileScope
      BY <3>4
    <3> QED BY <1>2, <3>2, <3>5, <3>6, <3>7, <3>8
  <2> QED BY <2>2, <2>3
<1>3. CASE tok = "close"
  <2>1. t.nest # <<>> /\ u.nest = SubSeq(t.nest, 1, Len(t.nest) - 1)
    BY <1>3, LegalToken
  <2>2. InBody(u.nest) = IF Len(t.nest) = 2 THEN FileScope ELSE B
    BY <2>1, BodyCloses
  <2>3. c = [depth |-> e.depth - 1, pending |-> e.pending,
             stack |-> IF e.stack # <<>> /\ Last(e.stack).depth = e.depth - 1 THEN Front(e.stack) ELSE e.stack]
    BY <1>3, ExternalForms
  <2>4. c.pending = e.pending
    BY <2>3
  <2>5. c.stack = IF e.stack # <<>> /\ Last(e.stack).depth = e.depth - 1 THEN Front(e.stack) ELSE e.stack
    BY <2>3
  <2>6. CASE B = FileScope
    <3>1. e.stack = <<>> /\ InBody(u.nest) = FileScope
      BY <2>2, <2>6, BodyIs
    <3>2. BodyStack(u.nest) = <<>>
      BY <3>1, BodyIs
    <3> QED BY <1>3, <2>4, <2>5, <3>1, <3>2
  <2>7. CASE B # FileScope
    <3>1. e.stack = <<[depth |-> 1, name |-> B]>> /\ e.stack # <<>> /\ Last(e.stack).depth = 1
      BY <2>7, BodyIs DEF BodyStack
    <3>2. CASE Len(t.nest) = 2
      <4>1. c.stack = Front(e.stack)
        BY <2>5, <3>1, <3>2
      <4>2. Front(e.stack) = <<>>
        <5> DEFINE r == [depth |-> 1, name |-> B]
        <5>1. e.stack = <<r>>
          BY <3>1
        <5> HIDE DEF r
        <5> QED BY <5>1 DEF Front
      <4>3. BodyStack(u.nest) = <<>>
        BY <2>2, <3>2, BodyIs
      <4> QED BY <1>3, <2>4, <4>1, <4>2, <4>3
    <3>3. CASE Len(t.nest) # 2
      <4>1. e.depth - 1 # 1
        BY <1>1, <3>3
      <4>2. c.stack = e.stack
        BY <2>5, <3>1, <4>1
      <4>3. BodyStack(u.nest) = BodyStack(t.nest)
        BY <2>2, <3>3 DEF BodyStack
      <4> QED BY <1>3, <2>4, <4>2, <4>3
    <3> QED BY <3>2, <3>3
  <2> QED BY <2>6, <2>7
<1>4. CASE tok \notin {"open", "close"}
  <2>1. u.nest = t.nest
    BY <1>4, LegalToken DEF Tokens
  <2>2. c = e
    BY <1>4, ExternalForms
  <2> QED BY <1>4, <2>1, <2>2
<1> QED BY <1>2, <1>3, <1>4

\* Where the external-call extractor starts on a line.
LEMMA FromTyped ==
  ASSUME ScopesAssumption, ext \in Scans, NEW line \in Seq(Tokens)
  PROVE  /\ Pending(line) \in Signatures
         /\ [ext EXCEPT !.pending = Pending(line)] \in Scans
         /\ [ext EXCEPT !.pending = Pending(line)] = [depth |-> ext.depth, pending |-> Pending(line), stack |-> ext.stack]
<1> DEFINE N == NamedIn(line)
           p == Pending(line)
           d == ext.depth
           s == ext.stack
           q == ext.pending
<1>1. d \in Int /\ q \in Signatures /\ s \in Seq(Entries) /\ ext = [depth |-> d, pending |-> q, stack |-> s]
  BY ScanFields DEF Scans
<1>2. N \in SUBSET Nat /\ \A i \in N : line[i] \in Names
  BY DEF NamedIn
<1>3. p \in Signatures
  <2> HIDE DEF N
  <2>1. N # {} => line[Min(N)] \in Names
    BY <1>2, MinIs
  <2> QED BY <1>1, <2>1 DEF Pending, Signatures, N
<1> HIDE DEF p, d, s, q
<1>4. [ext EXCEPT !.pending = p] = [depth |-> d, pending |-> p, stack |-> s]
  BY <1>1
<1>5. [depth |-> d, pending |-> p, stack |-> s] \in Scans
  BY <1>1, <1>3, ScanIs
<1> QED BY <1>3, <1>4, <1>5 DEF p, d, s

\* What holds after i tokens of a line that is not crowded: the signature waits in both, or is still ahead,
\* or was ended on this line and no brace followed.
Keeps(line, i, t, e) ==
  /\ e.depth = Len(t.nest) /\ e.stack = BodyStack(t.nest)
  /\ t.head \in Names => \A k \in 1..i : line[k] \in Names
  /\ \/ e.pending = t.head /\ (i = 0 => NamedIn(line) = {})
     \/ i = 0 /\ 1 \in NamedIn(line) /\ e.pending = line[1]
     \/ t.head = FileScope /\ (\E k \in 1..i : line[k] = "end") /\ \A k \in 1..i : line[k] # "open"

LEMMA NotCrowded ==
  ASSUME NEW line \in Seq(Tokens), ~Crowded(line)
  PROVE  /\ NamedIn(line) \subseteq {1}
         /\ \A i, j \in 1..Len(line) : i < j => /\ line[j] \notin Names
                                                /\ ~(line[i] \in {"close", "end"} /\ line[j] = "use")
                                                /\ ~(line[i] = "end" /\ line[j] = "open")
<1> DEFINE n == Len(line)
<1>1. n \in Nat /\ DOMAIN line = 1..n
  OBVIOUS
<1>2. \A i, j \in 1..n : i < j => /\ line[j] \notin Names
                                  /\ ~(line[i] \in {"close", "end"} /\ line[j] = "use")
                                  /\ ~(line[i] = "end" /\ line[j] = "open")
  BY <1>1 DEF Crowded
<1> HIDE DEF n
<1>3. ASSUME NEW j \in NamedIn(line), j # 1 PROVE FALSE
  <2>1. j \in 1..n /\ line[j] \in Names
    BY <1>1 DEF NamedIn
  <2>2. 1 \in 1..n /\ 1 < j
    BY <1>1, <1>3, <2>1
  <2> QED BY <1>2, <2>1, <2>2
<1> QED BY <1>2, <1>3 DEF n

LEMMA KeepsOn ==
  ASSUME ScopesAssumption, NEW line \in Seq(Tokens), ~Crowded(line), NEW i \in 1..Len(line), NEW t \in Truths, NEW e \in Scans,
         Reads(t, line[i]).ok, Shaped(t), Keeps(line, i - 1, t, e),
         ExternalBraced(e, line[i]).depth = Len(Reads(t, line[i]).nest)
  PROVE  /\ line[i] = "open" => e.pending = t.head
         /\ Keeps(line, i, Reads(t, line[i]), ExternalBraced(e, line[i]))
<1> DEFINE tok == line[i]
           u == Reads(t, tok)
           c == ExternalBraced(e, tok)
           n == Len(line)
<1>1. tok \in Tokens /\ i \in Nat /\ n \in Nat /\ i \in 1..n /\ (\A k \in 1..i : k \in 1..n) /\ \A k \in 1..(i - 1) : k \in 1..n /\ k < i /\ k \in 1..i
  OBVIOUS
<1>2. \A k \in 1..i : k \in 1..(i - 1) \/ k = i
  BY <1>1
<1>3. NamedIn(line) \subseteq {1} /\ (i # 1 => tok \notin Names)
  <2>1. i # 1 => i \notin NamedIn(line)
    BY NotCrowded
  <2> QED BY <2>1, NotCrowded DEF NamedIn
<1>4. (\E k \in 1..(i - 1) : line[k] = "end") => tok # "open" /\ tok \notin Names
  BY <1>1, NotCrowded
<1>5. tok = "open" => e.pending = t.head
  <2>1. SUFFICES ASSUME tok = "open" PROVE e.pending = t.head
    OBVIOUS
  <2>2. ~(i - 1 = 0 /\ 1 \in NamedIn(line))
    BY <1>1, <2>1, TokenKinds DEF NamedIn
  <2> QED BY <1>4, <2>1, <2>2 DEF Keeps
<1>6. tok # "open" /\ ~(tok \in Names) => ~(i - 1 = 0 /\ 1 \in NamedIn(line))
  BY <1>1 DEF NamedIn
<1>7. t.head \in Signatures
  BY DEF Truths
<1>8. /\ c.stack = BodyStack(u.nest) /\ c.pending = IF tok = "open" THEN FileScope ELSE e.pending
      /\ c.depth = Len(u.nest)
  <2>1. e.depth = Len(t.nest) /\ e.stack = BodyStack(t.nest) /\ Reads(t, tok).ok
    BY DEF Keeps
  <2> HIDE DEF tok
  <2>2. c.stack = BodyStack(u.nest) /\ c.pending = IF tok = "open" THEN FileScope ELSE e.pending
    BY <1>1, <1>5, <2>1, ExternalStays
  <2> QED BY <2>2 DEF tok
<1>9. u.ok
  OBVIOUS
<1>10. t.head \in Names => \A k \in 1..(i - 1) : line[k] \in Names
  BY DEF Keeps
<1>11. \/ e.pending = t.head /\ (i - 1 = 0 => NamedIn(line) = {})
       \/ i - 1 = 0 /\ 1 \in NamedIn(line) /\ e.pending = line[1]
       \/ t.head = FileScope /\ (\E k \in 1..(i - 1) : line[k] = "end") /\ \A k \in 1..(i - 1) : line[k] # "open"
  BY DEF Keeps
<1>12. i # 0
  BY <1>1
<1> HIDE DEF u, c, tok
<1>13. (/\ u.head \in Names => \A k \in 1..i : line[k] \in Names
        /\ \/ c.pending = u.head
           \/ u.head = FileScope /\ (\E k \in 1..i : line[k] = "end") /\ \A k \in 1..i : line[k] # "open") => Keeps(line, i, u, c)
  BY <1>8, <1>12 DEF Keeps
<1>14. CASE tok \in Names
  <2>1. i = 1 /\ u.head = tok
    BY <1>1, <1>3, <1>9, <1>14, LegalToken DEF u
  <2>2. 1 \in NamedIn(line) /\ line[1] = tok
    BY <1>1, <1>14, <2>1 DEF NamedIn, tok, n
  <2>3. e.pending = tok
    BY <1>11, <2>1, <2>2
  <2>4. c.pending = u.head
    BY <1>8, <1>14, <2>1, <2>3, TokenKinds
  <2>5. \A k \in 1..i : line[k] \in Names
    BY <1>14, <2>1, <2>2
  <2> QED BY <1>5, <1>13, <2>4, <2>5 DEF u, c, tok
<1>15. CASE tok = "open"
  <2>1. u.head = FileScope
    BY <1>1, <1>9, <1>15, LegalToken DEF u
  <2> QED BY <1>5, <1>8, <1>13, <1>15, <2>1, TokenKinds DEF u, c, tok
<1>16. CASE tok \in {"close", "end", "use"}
  <2>1. u.head = FileScope /\ (tok # "end" => t.head = FileScope)
    BY <1>1, <1>9, <1>16, LegalToken DEF u
  <2>2. c.pending = e.pending /\ tok \notin Names /\ tok # "open"
    BY <1>8, <1>16, TokenKinds
  <2>3. ~(i - 1 = 0 /\ 1 \in NamedIn(line))
    BY <1>6, <2>2
  <2>4. CASE e.pending = FileScope
    BY <1>5, <1>13, <2>1, <2>2, <2>4, TokenKinds DEF u, c, tok
  <2>5. CASE e.pending # FileScope
    <3>1. \/ e.pending = t.head /\ t.head \in Names
          \/ (\E k \in 1..(i - 1) : line[k] = "end") /\ \A k \in 1..(i - 1) : line[k] # "open"
      BY <1>7, <1>11, <2>3, <2>5 DEF Signatures
    <3>2. CASE e.pending = t.head /\ t.head \in Names
      <4>1. tok = "end" /\ \A k \in 1..(i - 1) : line[k] # "open"
        BY <1>10, <2>1, <2>5, <3>2, TokenKinds
      <4>2. i \in 1..i /\ line[i] = "end"
        BY <1>1, <4>1 DEF tok
      <4>3. \A k \in 1..i : line[k] # "open"
        BY <1>2, <4>1, <4>2
      <4> QED BY <1>5, <1>13, <2>1, <4>2, <4>3, TokenKinds DEF u, c, tok
    <3>3. CASE (\E k \in 1..(i - 1) : line[k] = "end") /\ \A k \in 1..(i - 1) : line[k] # "open"
      <4>1. \E k \in 1..i : line[k] = "end"
        BY <1>1, <3>3
      <4>2. \A k \in 1..i : line[k] # "open"
        BY <1>2, <2>2, <3>3 DEF tok
      <4> QED BY <1>5, <1>13, <2>1, <4>1, <4>2, TokenKinds DEF u, c, tok
    <3> QED BY <3>1, <3>2, <3>3
  <2> QED BY <2>4, <2>5
<1> QED BY <1>1, <1>14, <1>15, <1>16 DEF Tokens

\* The files between two lines.
FileKept ==
  /\ Truth \in Truths /\ braces \in Scans /\ ext \in Scans
  /\ Shaped(Truth) /\ FollowsTruth(Truth, braces) /\ ext.depth = Len(nest)
  /\ tidy => ext.pending = head /\ ext.stack = BodyStack(nest)

LEMMA KeepsFirst ==
  ASSUME ScopesAssumption, FileKept, tidy, NEW line \in Seq(Tokens), Legal(line), ~Crowded(line)
  PROVE  Keeps(line, 0, Truth, [ext EXCEPT !.pending = Pending(line)])
<1> DEFINE n == Len(line)
           N == NamedIn(line)
           e == [ext EXCEPT !.pending = Pending(line)]
<1>1. e = [depth |-> ext.depth, pending |-> Pending(line), stack |-> ext.stack]
  BY FromTyped DEF FileKept
<1>2. e.depth = ext.depth /\ e.pending = Pending(line) /\ e.stack = ext.stack
  BY <1>1
<1>3. Truth.nest = nest /\ Truth.head = head /\ ext.depth = Len(nest) /\ ext.pending = head /\ ext.stack = BodyStack(nest)
  BY DEF FileKept, Truth
<1>4. N \subseteq {1}
  BY NotCrowded
<1>5. n \in Nat /\ N \subseteq 1..n
  BY DEF NamedIn
<1> HIDE DEF e
<1>6. CASE N = {}
  <2>1. e.pending = head
    BY <1>2, <1>3, <1>6 DEF Pending
  <2> QED BY <1>2, <1>3, <1>6, <2>1 DEF Keeps, e
<1>7. CASE N # {}
  <2>1. N = {1} /\ 1 \in 1..n /\ line[1] \in Names /\ line[1] \in Tokens
    BY <1>4, <1>5, <1>7 DEF NamedIn
  <2>2. ReadAlong(line)[1].ok /\ ReadAlong(line)[1] = Reads(ReadAlong(line)[0], line[1]) /\ ReadAlong(line)[0] = Truth
    <3>1. 1 - 1 = 0 /\ 1 \in 0..n
      BY <1>5, <2>1
    <3> QED BY <2>1, <3>1, LegalLine, ReadLine DEF FileKept
  <2>3. Truth.head = FileScope /\ Truth.nest = <<"contract">>
    <3> DEFINE tok == line[1]
    <3>1. Truth \in Truths /\ tok \in Tokens /\ tok \in Names /\ Reads(Truth, tok).ok
      BY <2>1, <2>2 DEF FileKept
    <3> HIDE DEF tok
    <3> QED BY <3>1, LegalToken
  <2>4. ext.depth = 1 /\ ext.pending = FileScope
    BY <1>3, <2>3
  <2>5. Min({1}) = 1
    BY DEF Min
  <2>6. Pending(line) = line[1]
    BY <2>1, <2>4, <2>5 DEF Pending
  <2>7. 1 \in NamedIn(line) /\ \A k \in 1..0 : line[k] \in Names
    BY <2>1
  <2> QED BY <1>2, <1>3, <2>6, <2>7 DEF Keeps, e
<1> QED BY <1>6, <1>7

LEMMA KeepsAlong ==
  ASSUME ScopesAssumption, FileKept, tidy, NEW line \in Seq(Tokens), Legal(line), ~Crowded(line)
  PROVE  /\ \A i \in 0..Len(line) : Keeps(line, i, ReadAlong(line)[i], ExternalAlong(line)[i])
         /\ \A i \in 1..Len(line) : line[i] = "open" => ExternalAlong(line)[i - 1].pending = ReadAlong(line)[i - 1].head
<1> DEFINE n == Len(line)
           from == [ext EXCEPT !.pending = Pending(line)]
           t(i) == ReadAlong(line)[i]
           e(i) == ExternalAlong(line)[i]
           S == {i \in 0..n : Keeps(line, i, t(i), e(i))}
<1>0. from \in Scans /\ Truth \in Truths /\ ext.depth = Len(nest) /\ braces \in Scans /\ Shaped(Truth) /\ FollowsTruth(Truth, braces)
  BY FromTyped DEF FileKept
<1>1. /\ n \in Nat /\ (\A i \in 1..n : t(i) = Reads(t(i - 1), line[i])) /\ (\A i \in 0..n : t(i) \in Truths)
      /\ t(0) = Truth
  BY <1>0, ReadLine
<1>2. (\A i \in 1..n : e(i) = ExternalBraced(e(i - 1), line[i])) /\ (\A i \in 0..n : e(i) \in Scans) /\ e(0) = from
  BY <1>0, ExternalLine
<1>3. \A i \in 0..n : t(i).ok
  BY <1>0, LegalLine
<1>4. \A i \in 0..n : Shaped(t(i))
  BY <1>0, MatchesAlong
<1>5. \A i \in 0..n : e(i).depth = Len(t(i).nest)
  BY <1>0, DepthAlong
<1>6. \A i \in 1..n : i \in 0..n /\ i - 1 \in 0..n /\ i \in 1..Len(line)
  OBVIOUS
<1>7. Keeps(line, 0, Truth, from)
  BY KeepsFirst
<1> HIDE DEF t, e, n, from
<1>8. 0 \in S
  BY <1>1, <1>2, <1>7
<1>9. ASSUME NEW i \in 1..n, Keeps(line, i - 1, t(i - 1), e(i - 1))
      PROVE  Keeps(line, i, t(i), e(i)) /\ (line[i] = "open" => e(i - 1).pending = t(i - 1).head)
  <2> DEFINE u == t(i - 1)
             c == e(i - 1)
  <2>1. u \in Truths /\ c \in Scans /\ Shaped(u) /\ Keeps(line, i - 1, u, c) /\ i \in 1..Len(line)
    BY <1>1, <1>2, <1>4, <1>6, <1>9
  <2>2. t(i) = Reads(u, line[i]) /\ e(i) = ExternalBraced(c, line[i]) /\ t(i).ok /\ e(i).depth = Len(t(i).nest)
    BY <1>1, <1>2, <1>3, <1>5, <1>6
  <2> HIDE DEF u, c
  <2>3. Reads(u, line[i]).ok /\ ExternalBraced(c, line[i]).depth = Len(Reads(u, line[i]).nest)
    BY <2>2
  <2>4. (line[i] = "open" => c.pending = u.head) /\ Keeps(line, i, Reads(u, line[i]), ExternalBraced(c, line[i]))
    BY <2>1, <2>3, KeepsOn
  <2> QED BY <2>2, <2>4 DEF u, c
<1>10. ASSUME NEW i \in 1..n, i - 1 \in S PROVE i \in S
  BY <1>6, <1>9, <1>10
<1> HIDE DEF S
<1>11. 0..n \subseteq S
  BY <1>1, <1>8, <1>10, EachUpTo
<1>12. \A i \in 0..n : Keeps(line, i, t(i), e(i))
  BY <1>11 DEF S
<1>13. \A i \in 1..n : line[i] = "open" => e(i - 1).pending = t(i - 1).head
  BY <1>6, <1>9, <1>12
<1> QED BY <1>12, <1>13 DEF t, e, n

\* A line of one function's code leaves nothing pending that has ended.
LEMMA KeepsLast ==
  ASSUME ScopesAssumption, NEW line \in Seq(Tokens), NEW t \in Truths, NEW e \in Scans, Keeps(line, Len(line), t, e)
  PROVE  Declared(e, line).pending = t.head /\ Declared(e, line).stack = BodyStack(t.nest)
<1> DEFINE n == Len(line)
           d == Declared(e, line)
<1>1. n \in Nat /\ DOMAIN line = 1..n
  OBVIOUS
<1>2. Range(line) = {line[k] : k \in 1..n}
  BY <1>1 DEF Range
<1>3. \/ e.pending = t.head
      \/ t.head = FileScope /\ (\E k \in 1..n : line[k] = "end") /\ \A k \in 1..n : line[k] # "open"
  BY <1>1 DEF Keeps, NamedIn
<1>4. (t.head \in Names => \A k \in 1..n : line[k] \in Names) /\ e.stack = BodyStack(t.nest)
  BY DEF Keeps
<1>5. /\ e = [depth |-> e.depth, pending |-> e.pending, stack |-> e.stack]
      /\ e.pending \in Signatures
  BY DEF Scans
<1>6. CASE e.pending # FileScope /\ Range(line) \cap {"end", "use"} # {} /\ "open" \notin Range(line)
  <2>1. d = [e EXCEPT !.pending = FileScope]
    BY <1>6 DEF Declared
  <2>2. d.pending = FileScope /\ d.stack = e.stack
    BY <1>5, <2>1
  <2>3. t.head = FileScope
    <3>1. SUFFICES ASSUME t.head = e.pending PROVE FALSE
      BY <1>3
    <3>2. \A k \in 1..n : line[k] \in Names
      BY <1>4, <1>5, <1>6, <3>1 DEF Signatures
    <3> QED BY <1>2, <1>6, <3>2, TokenKinds
  <2> QED BY <1>4, <2>2, <2>3
<1>7. CASE ~(e.pending # FileScope /\ Range(line) \cap {"end", "use"} # {} /\ "open" \notin Range(line))
  <2>1. d = e
    BY <1>7 DEF Declared
  <2>2. e.pending = t.head
    <3>1. SUFFICES ASSUME t.head = FileScope, \E k \in 1..n : line[k] = "end", \A k \in 1..n : line[k] # "open", e.pending # FileScope PROVE FALSE
      BY <1>3
    <3>2. "end" \in Range(line) /\ "open" \notin Range(line)
      BY <1>2, <3>1
    <3> QED BY <1>7, <3>1, <3>2
  <2> QED BY <1>4, <2>1, <2>2
<1> QED BY <1>6, <1>7

\* Up to an access that nothing has ended before, the function the external-call extractor gave the line is
\* the one the truth is in, or the one whose signature waits.
LEMMA KeepsTo ==
  ASSUME ScopesAssumption, FileKept, tidy, NEW line \in Seq(Tokens), Legal(line), ~Crowded(line),
         NEW i \in 1..Len(line), line[i] = "use"
  PROVE  Innermost(Before(line, i).nest) = ExternalFunction(line)
<1> DEFINE n == Len(line)
           from == [ext EXCEPT !.pending = Pending(line)]
           X == ExternalFunction(line)
           t(k) == ReadAlong(line)[k]
           e(k) == ExternalAlong(line)[k]
           Q(k) == IF InBody(t(k).nest) # FileScope THEN X = InBody(t(k).nest) ELSE e(k).pending = X
           S == {k \in 0..(i - 1) : Q(k)}
<1>0. from \in Scans /\ Truth \in Truths /\ ext.depth = Len(nest) /\ braces \in Scans /\ Shaped(Truth) /\ FollowsTruth(Truth, braces)
  BY FromTyped DEF FileKept
<1>1. /\ n \in Nat /\ (\A k \in 1..n : t(k) = Reads(t(k - 1), line[k])) /\ (\A k \in 0..n : t(k) \in Truths)
      /\ t(0) = Truth
  BY <1>0, ReadLine
<1>2. (\A k \in 1..n : e(k) = ExternalBraced(e(k - 1), line[k])) /\ (\A k \in 0..n : e(k) \in Scans) /\ e(0) = from
  BY <1>0, ExternalLine
<1>3. \A k \in 0..n : t(k).ok
  BY <1>0, LegalLine
<1>4. \A k \in 0..n : Shaped(t(k)) /\ FollowsTruth(t(k), BracedAlong(line)[k])
  BY <1>0, MatchesAlong
<1>5. /\ \A k \in 0..n : Keeps(line, k, t(k), e(k))
      /\ \A k \in 1..n : line[k] = "open" => e(k - 1).pending = t(k - 1).head
  BY KeepsAlong
<1>6. \A k \in 0..n : BracedAlong(line)[k] \in Scans
  BY <1>0, BracedLine
<1>7. /\ i \in Nat /\ i - 1 \in 0..n /\ i - 1 \in Nat /\ i \in 1..n /\ \A k \in 1..(i - 1) : k \in 1..n /\ k \in 0..n /\ k - 1 \in 0..n /\ k \in 0..(i - 1) /\ k < i
      /\ \A k \in 1..n : line[k] \in Tokens
  OBVIOUS
<1>8. \A k \in 1..(i - 1) : line[k] \notin {"close", "end"}
  <2>1. \A k \in 1..n : k < i => ~(line[k] \in {"close", "end"} /\ line[i] = "use")
    BY NotCrowded
  <2> QED BY <1>7, <2>1
<1>9. Q(0)
  <2>1. ext.stack = BodyStack(nest) /\ Truth.nest = nest /\ t(0) = Truth /\ e(0) = from
    BY <1>1, <1>2 DEF FileKept, Truth
  <2>2. from.pending = Pending(line)
    <3>1. from = [depth |-> ext.depth, pending |-> Pending(line), stack |-> ext.stack]
      BY FromTyped DEF FileKept
    <3> HIDE DEF from
    <3> QED BY <3>1
  <2>3. CASE InBody(nest) # FileScope
    <3>1. X = InBody(nest)
      BY <2>1, <2>3, BodyIs DEF ExternalFunction
    <3> QED BY <2>1, <2>3, <3>1
  <2>4. CASE InBody(nest) = FileScope
    <3>1. X = Pending(line)
      BY <2>1, <2>4, BodyIs DEF ExternalFunction
    <3> HIDE DEF X, from
    <3> QED BY <2>1, <2>2, <2>4, <3>1
  <2> QED BY <2>3, <2>4
<1> HIDE DEF t, e, n, from, X
<1>10. ASSUME NEW k \in 1..(i - 1), Q(k - 1) PROVE Q(k)
  <2> DEFINE u == t(k - 1)
             c == e(k - 1)
             tok == line[k]
             B == InBody(u.nest)
  <2>1. /\ u \in Truths /\ c \in Scans /\ Shaped(u) /\ tok \in Tokens /\ tok \notin {"close", "end"}
        /\ t(k) = Reads(u, tok) /\ e(k) = ExternalBraced(c, tok) /\ t(k).ok
    BY <1>1, <1>2, <1>3, <1>4, <1>7, <1>8
  <2>2. (tok = "open" => c.pending = u.head) /\ c.depth = Len(u.nest) /\ c.stack = BodyStack(u.nest)
    BY <1>5, <1>7 DEF Keeps
  <2>3. IF B # FileScope THEN X = B ELSE c.pending = X
    BY <1>10
  <2> HIDE DEF u, c, tok
  <2>4. Reads(u, tok).ok
    BY <2>1
  <2>5. /\ e(k).pending = IF tok = "open" THEN FileScope ELSE c.pending
        /\ InBody(t(k).nest) = IF tok = "open" /\ B = FileScope THEN u.head ELSE B
    BY <2>1, <2>2, <2>4, ExternalStays
  <2> HIDE DEF B
  <2>6. CASE tok # "open"
    BY <2>3, <2>5, <2>6
  <2>7. CASE tok = "open"
    BY <2>2, <2>3, <2>5, <2>7
  <2> QED BY <2>6, <2>7
<1>11. 0 \in S
  BY <1>7, <1>9
<1>12. ASSUME NEW k \in 1..(i - 1), k - 1 \in S PROVE k \in S
  BY <1>7, <1>10, <1>12
<1>13. i - 1 \in S
  <2> HIDE DEF S
  <2>1. 0..(i - 1) \subseteq S
    BY <1>7, <1>11, <1>12, EachUpTo
  <2> QED BY <1>7, <2>1
<1>14. Q(i - 1)
  BY <1>13
<1> DEFINE u == t(i - 1)
<1>15. Innermost(u.nest) = InBody(u.nest)
  <2> DEFINE c == BracedAlong(line)[i - 1]
  <2>1. u \in Truths /\ c \in Scans /\ Shaped(u) /\ FollowsTruth(u, c)
    BY <1>1, <1>4, <1>6, <1>7
  <2> HIDE DEF u, c
  <2> QED BY <2>1, BothFindBody
<1>16. u.head = FileScope
  <2>1. u \in Truths /\ t(i) = Reads(u, line[i]) /\ t(i).ok /\ i \in 0..n /\ line[i] \in Tokens
    BY <1>1, <1>3, <1>7
  <2> HIDE DEF u
  <2>2. Reads(u, line[i]).ok
    BY <2>1
  <2> QED BY <2>1, <2>2, LegalToken
<1>17. e(i - 1).pending = FileScope \/ InBody(u.nest) # FileScope
  <2>1. Keeps(line, i - 1, u, e(i - 1))
    BY <1>5, <1>7
  <2>2. ~(i - 1 = 0 /\ 1 \in NamedIn(line))
    BY <1>7, TokenKinds DEF NamedIn
  <2>3. e(i - 1).pending = u.head
    <3>1. \/ e(i - 1).pending = u.head
          \/ i - 1 = 0 /\ 1 \in NamedIn(line)
          \/ \E k \in 1..(i - 1) : line[k] = "end"
      BY <2>1 DEF Keeps
    <3> QED BY <1>8, <2>2, <3>1
  <2> QED BY <1>16, <2>3
<1>18. InBody(u.nest) = X
  BY <1>14, <1>17
<1> QED BY <1>15, <1>18 DEF Before, X, t

ScopesInv == FileKept /\ UsesAttributed

LEMMA ScopesInit == ScopesAssumption /\ ScopesIdle => ScopesInv
<1> SUFFICES ASSUME ScopesAssumption, ScopesIdle PROVE ScopesInv
  OBVIOUS
<1>1. nest = <<>> /\ head = FileScope /\ braces = Nowhere /\ ext = Nowhere /\ uses = {}
  BY DEF ScopesIdle
<1>2. Nowhere.depth = 0 /\ Nowhere.pending = FileScope /\ Nowhere.stack = <<>> /\ Truth.nest = <<>> /\ Truth.head = FileScope
  BY <1>1 DEF Nowhere, Truth
<1>3. Nowhere \in Scans /\ Truth \in Truths
  BY <1>1 DEF Nowhere, Truth, Scans, Truths, Signatures
<1>4. BodyStack(nest) = <<>>
  BY <1>1 DEF BodyStack, InBody
<1>5. Shaped(Truth) /\ FollowsTruth(Truth, braces)
  BY <1>1, <1>2, TokenKinds DEF Shaped, FollowsTruth
<1> QED BY <1>1, <1>2, <1>3, <1>4, <1>5 DEF ScopesInv, FileKept, UsesAttributed

LEMMA ScopesHold == ScopesAssumption /\ FileKept => ScopesFollowBraces
<1> SUFFICES ASSUME ScopesAssumption, FileKept PROVE ScopesFollowBraces
  OBVIOUS
<1>1. Truth.nest = nest /\ Truth.head = head
  BY DEF Truth
<1>2. Innermost(Truth.nest) = InBody(Truth.nest) /\ Active(braces) = InBody(Truth.nest)
  BY BothFindBody DEF FileKept
<1> QED BY <1>1, <1>2 DEF FileKept, FollowsTruth, ScopesFollowBraces

\* What is recorded of an access.
LEMMA UseRecorded ==
  ASSUME ScopesAssumption, FileKept, NEW line \in Seq(Tokens), Legal(line), NEW i \in 1..Len(line), line[i] = "use"
  PROVE  /\ UncheckedFunction(line, i) = Innermost(Before(line, i).nest)
         /\ ~LeavesBody(line, i) => WindowFunction(line) = Innermost(Before(line, i).nest)
         /\ tidy /\ ~Crowded(line) => ExternalFunction(line) = Innermost(Before(line, i).nest)
<1> DEFINE n == Len(line)
           t(k) == ReadAlong(line)[k]
           b(k) == BracedAlong(line)[k]
<1>1. n \in Nat /\ n \in 0..n /\ i - 1 \in 0..n
  OBVIOUS
<1>2. ASSUME NEW k \in 0..n PROVE Active(b(k)) = Innermost(t(k).nest)
  <2> DEFINE u == t(k)
             c == b(k)
  <2>1. u \in Truths /\ c \in Scans /\ Shaped(u) /\ FollowsTruth(u, c)
    BY ReadLine, BracedLine, MatchesAlong DEF FileKept
  <2> HIDE DEF u, c
  <2>2. Active(c) = Innermost(u.nest)
    BY <2>1, BothFindBody
  <2> QED BY <2>2 DEF u, c
<1>3. UncheckedFunction(line, i) = Active(b(i - 1)) /\ WindowFunction(line) = Active(b(n)) /\ Before(line, i) = t(i - 1)
  BY DEF UncheckedFunction, WindowFunction, After, Before
<1>4. ~LeavesBody(line, i) => Innermost(t(i - 1).nest) = Innermost(t(n).nest)
  BY DEF LeavesBody, Before
<1>5. tidy /\ ~Crowded(line) => ExternalFunction(line) = Innermost(Before(line, i).nest)
  BY KeepsTo
<1> HIDE DEF t, b, n
<1> QED BY <1>1, <1>2, <1>3, <1>4, <1>5

LEMMA ScopesStep == ScopesAssumption /\ ScopesInv /\ [ScopesNext]_scopes => ScopesInv'
<1> SUFFICES ASSUME ScopesAssumption, ScopesInv, [ScopesNext]_scopes PROVE ScopesInv'
  OBVIOUS
<1>1. CASE UNCHANGED scopes
  BY <1>1 DEF scopes, ScopesInv, FileKept, UsesAttributed, Truth
<1>2. CASE ScopesNext
  <2>1. PICK line \in Lines : ScanLine(line)
    BY <1>2 DEF ScopesNext
  <2>2. line \in Seq(Tokens)
    <3>1. PICK m \in 0..MaxLine : line \in [1..m -> Tokens]
      BY <2>1 DEF Lines, BoundedSeq, SeqOf
    <3>2. m \in Nat
      OBVIOUS
    <3> QED BY <3>1, <3>2, SeqDef
  <2> DEFINE n == Len(line)
             t == ReadAlong(line)[n]
             b == BracedAlong(line)[n]
             e == ExternalAlong(line)[n]
             d == Declared(e, line)
  <2>3. n \in Nat /\ n \in 0..n
    BY <2>2
  <2>4. /\ t.ok /\ nest' = t.nest /\ head' = t.head /\ tidy' = (tidy /\ ~Crowded(line))
        /\ braces' = b /\ ext' = d
    BY <2>1 DEF ScanLine, After, ExternalAfter
  <2>5. Legal(line) /\ FileKept
    BY <2>4 DEF Legal, ScopesInv
  <2>6. Truth \in Truths /\ [ext EXCEPT !.pending = Pending(line)] \in Scans /\ ext.depth = Len(nest)
        /\ braces \in Scans /\ Shaped(Truth) /\ FollowsTruth(Truth, braces)
    BY <2>2, <2>5, FromTyped DEF FileKept
  <2>7. t \in Truths /\ b \in Scans /\ e \in Scans
    BY <2>2, <2>3, <2>6, ReadLine, BracedLine, ExternalLine
  <2>8. Shaped(t) /\ FollowsTruth(t, b) /\ e.depth = Len(t.nest)
    BY <2>2, <2>3, <2>5, <2>6, MatchesAlong, DepthAlong
  <2>9. tidy' => Keeps(line, n, t, e)
    BY <2>2, <2>3, <2>4, <2>5, KeepsAlong
  <2>10. Truth' = t
    <3>1. Truth' = [nest |-> nest', head |-> head', ok |-> TRUE]
      BY DEF Truth
    <3>2. t = [nest |-> t.nest, head |-> t.head, ok |-> t.ok] /\ t.ok \in BOOLEAN
      BY <2>7 DEF Truths
    <3> HIDE DEF t
    <3>3. t.ok = TRUE
      BY <2>4, <3>2
    <3> QED BY <2>4, <3>1, <3>2, <3>3
  <2>11. d \in Scans /\ d.depth = e.depth
    <3>1. e = [depth |-> e.depth, pending |-> e.pending, stack |-> e.stack]
      BY <2>7 DEF Scans
    <3>2. e.depth \in Int /\ e.stack \in Seq(Entries) /\ FileScope \in Signatures
      BY <2>7, ScanFields DEF Signatures
    <3> HIDE DEF e
    <3>3. d = e \/ d = [e EXCEPT !.pending = FileScope]
      BY DEF Declared
    <3>4. [e EXCEPT !.pending = FileScope] = [depth |-> e.depth, pending |-> FileScope, stack |-> e.stack]
      BY <3>1
    <3>5. [depth |-> e.depth, pending |-> FileScope, stack |-> e.stack] \in Scans
      BY <3>2, ScanIs
    <3> HIDE DEF d
    <3> QED BY <2>7, <3>3, <3>4, <3>5
  <2>12. tidy' => d.pending = t.head /\ d.stack = BodyStack(t.nest)
    <3> HIDE DEF t, e
    <3>1. SUFFICES ASSUME tidy' PROVE d.pending = t.head /\ d.stack = BodyStack(t.nest)
      OBVIOUS
    <3>2. Keeps(line, Len(line), t, e)
      BY <2>9, <3>1
    <3> QED BY <2>2, <2>7, <3>2, KeepsLast
  <2>13. FileKept'
    <3> HIDE DEF t, b, d, e
    <3>1. Truth' \in Truths /\ braces' \in Scans /\ ext' \in Scans /\ Shaped(Truth') /\ FollowsTruth(Truth', braces') /\ ext'.depth = Len(nest')
      BY <2>4, <2>7, <2>8, <2>10, <2>11
    <3>2. tidy' => ext'.pending = head' /\ ext'.stack = BodyStack(nest')
      BY <2>4, <2>12
    <3>3. FileKept' = (/\ Truth' \in Truths /\ braces' \in Scans /\ ext' \in Scans /\ Shaped(Truth') /\ FollowsTruth(Truth', braces') /\ ext'.depth = Len(nest')
                       /\ tidy' => ext'.pending = head' /\ ext'.stack = BodyStack(nest'))
      BY DEF FileKept, Truths, Scans, Shaped, FollowsTruth, BodyStack, InBody, Signatures
    <3> QED BY <3>1, <3>2, <3>3
  <2>14. UsesAttributed'
    <3>1. SUFFICES ASSUME NEW u \in uses'
                   PROVE  /\ u.unchecked = u.truth
                          /\ ~u.leaves => u.window = u.truth /\ u.row = (u.truth # FileScope)
                          /\ tidy' => u.external = u.truth
      BY DEF UsesAttributed
    <3>2. PICK i \in DOMAIN line : /\ line[i] = "use"
                                   /\ u = [truth |-> Innermost(Before(line, i).nest), leaves |-> LeavesBody(line, i),
                                           window |-> WindowFunction(line), row |-> TaintRow(line),
                                           unchecked |-> UncheckedFunction(line, i), external |-> ExternalFunction(line)]
      BY <2>1 DEF ScanLine
    <3>3. i \in 1..Len(line)
      BY <2>2
    <3>4. /\ UncheckedFunction(line, i) = Innermost(Before(line, i).nest)
          /\ ~LeavesBody(line, i) => WindowFunction(line) = Innermost(Before(line, i).nest)
          /\ tidy /\ ~Crowded(line) => ExternalFunction(line) = Innermost(Before(line, i).nest)
      BY <2>2, <2>5, <3>2, <3>3, UseRecorded
    <3>5. TaintRow(line) = (WindowFunction(line) # FileScope)
      BY DEF TaintRow, WindowFunction
    <3>6. /\ u.truth = Innermost(Before(line, i).nest) /\ u.leaves = LeavesBody(line, i) /\ u.window = WindowFunction(line)
          /\ u.row = TaintRow(line) /\ u.unchecked = UncheckedFunction(line, i) /\ u.external = ExternalFunction(line)
      BY <3>2
    <3> QED BY <2>4, <3>4, <3>5, <3>6
  <2> QED BY <2>13, <2>14 DEF ScopesInv
<1> QED BY <1>1, <1>2

-----------------------------------------------------------------------------
(* Each tool's steps are its own.                                            *)

LEMMA ToolsApart ==
  ASSUME [GatesNext]_gatevars
  PROVE  /\ [ClosuresNext]_closures /\ [BuildInputsNext]_inputs /\ [SitePinsNext]_pins /\ [MemoryGuardNext]_memory
         /\ [QueueCodecNext]_queue /\ [RowsNext]_rowvars /\ [GraphNext]_graphvars /\ [SitesNext]_callsites
         /\ [MaskNext]_mask /\ [ScopesNext]_scopes /\ [PlanNext]_plan /\ [MoneyNext]_money
         /\ [CensusNext]_censusvars
<1>1. CASE GatesNext /\ TextStep /\ UNCHANGED <<graphs, data>>
  BY <1>1 DEF TextStep, graphs, data
<1>2. CASE GatesNext /\ GraphStep /\ UNCHANGED <<texts, data>>
  BY <1>2 DEF GraphStep, texts, data
<1>3. CASE GatesNext /\ DataStep /\ UNCHANGED <<texts, graphs>>
  BY <1>3 DEF DataStep, texts, graphs
<1>4. CASE UNCHANGED gatevars
  BY <1>4 DEF gatevars, texts, graphs, data
<1> QED BY <1>1, <1>2, <1>3, <1>4 DEF GatesNext

(* What a tool says of a tree it says of the files it read, through links, imports and remappings, and for
   whatever edits and builds happen meanwhile. *)
THEOREM GatesInputs == GatesSpec => []InputsCaptured
<1> DEFINE Inv == ClosuresInv /\ InputsInv
<1>1. GatesInit => Inv
  BY ClosuresInit, InputsInit DEF GatesInit
<1>2. Inv /\ [GatesNext]_gatevars => Inv'
  BY ToolsApart, ClosuresStep, InputsStep, ClosuresAssumption
<1>3. Inv => InputsCaptured
  BY ClosuresHold, ClosuresAssumption DEF InputsInv, InputsCaptured
<1> QED BY <1>1, <1>2, <1>3, PTL DEF GatesSpec

(* Nothing pinned to a site changes unseen, whatever the sources, prologues and declarations are. *)
THEOREM GatesSites == GatesSpec => []SitesReviewed
<1> DEFINE Inv == SitePinsInv /\ MemoryInv /\ QueueInv
<1>1. GatesInit => Inv
  BY SitePinsInit, MemoryInit, QueueInit DEF GatesInit
<1>2. Inv /\ [GatesNext]_gatevars => Inv'
  BY ToolsApart, SitePinsStep, MemoryStep, QueueStep, SitePinsAssumption, MemoryGuardAssumption
<1>3. Inv => SitesReviewed
  BY SitesCounted, TagsTellApart, GuardMeasures, QueueHolds, SitePinsAssumption, MemoryGuardAssumption, QueueCodecAssumption
     DEF MemoryInv, PrologueInv, SitesReviewed
<1> QED BY <1>1, <1>2, <1>3, PTL DEF GatesSpec

(* No change passes the manifest gates with a storage access, a word or an unchecked block that was not
   reviewed in the function that has it, nor with a row whose line is gone. *)
THEOREM GatesRows == GatesSpec => []RowsReviewed
<1>1. GatesInit => RowsInv
  BY RowsInit DEF GatesInit
<1>2. RowsInv /\ [GatesNext]_gatevars => RowsInv'
  BY ToolsApart, RowsStep
<1>3. RowsInv => RowsReviewed
  BY WritesHold, WordsHold, BlocksHold, RowsAssumption DEF RowsReviewed
<1> QED BY <1>1, <1>2, <1>3, PTL DEF GatesSpec

(* Every external call is listed, and as wrapped exactly if something tries it; the target of a dispatch is
   the one its blocks assign; and no manifest passes with a call or a dispatch whose recipient was not
   reviewed, for every source tree, call graph and route. *)
THEOREM GatesCalls == GatesSpec => []CallsReviewed
<1> DEFINE Inv == CallsInv /\ RouteInv /\ SitesInv /\ DispatchInv
<1>1. GatesInit => Inv
  BY RouteInit, SitesInit, DispatchInit DEF GatesInit, SitesIdle
<1>2. Inv /\ [GatesNext]_gatevars => Inv'
  BY ToolsApart, GraphGoesOn, SitesStep, DispatchStep, GraphAssumption, RouteAssumption, SitesAssumption
<1>3. Inv => CallsReviewed
  BY RecipientsHold, RoutesHold, TargetsHold, GraphAssumption DEF SitesInv, CallsReviewed
<1> QED BY <1>1, <1>2, <1>3, PTL DEF GatesSpec

(* The scans by braces put every line of a file, however long, where it is: under the function whose body it is in. *)
THEOREM GatesScopes == GatesSpec => []ScopesExact
<1>1. GatesInit => ScopesInv
  BY ScopesInit, ScopesAssumption DEF GatesInit
<1>2. ScopesInv /\ [GatesNext]_gatevars => ScopesInv'
  BY ToolsApart, ScopesStep, ScopesAssumption
<1>3. ScopesInv => ScopesExact
  BY ScopesHold, ScopesAssumption DEF ScopesInv, ScopesExact
<1> QED BY <1>1, <1>2, <1>3, PTL DEF GatesSpec

(* The masked text of a file of any length has a character for each of the file's, and it is the right one. *)
THEOREM GatesMasks == GatesSpec => []MaskingExact
<1>1. GatesInit => MaskInv
  BY DEF GatesInit, MaskInv
<1>2. MaskInv /\ [GatesNext]_gatevars => MaskInv'
  BY ToolsApart, MaskStep
<1> QED BY <1>1, <1>2, MaskHolds, PTL DEF GatesSpec

(* Every test selected is run, once, in the mode and with the arguments it was written for, for every
   catalog of sources, number of shards and partitions, folder order and command line. *)
THEOREM GatesPlans == GatesSpec => []RunAsSelected
<1>1. GatesInit => PlanInv
  BY PlanInit DEF GatesInit
<1>2. PlanInv /\ [GatesNext]_gatevars => PlanInv'
  BY ToolsApart, PlanStep, PlansAssumption
<1>3. PlanInv => RunAsSelected
  BY PlanHolds, PlansAssumption DEF RunAsSelected
<1> QED BY <1>1, <1>2, <1>3, PTL DEF GatesSpec

(* The census counts the life of every slot once, for any number of runs, transactions and slots, and under
   the names of what is in it, for every layout of values, arrays and structs nested three deep. *)
THEOREM GatesCensus == GatesSpec => []CensusTrue
<1>1. GatesInit => CensusInv
  BY CensusInit, CensusAssumption DEF GatesInit
<1>2. CensusInv /\ [GatesNext]_gatevars => CensusInv'
  <2>1. ASSUME CensusInv, [CensusNext]_censusvars PROVE CensusInv'
    <3>1. CASE CensusNext
      BY <2>1, <3>1, CensusStep, CensusAssumption
    <3>2. CASE UNCHANGED censusvars
      <4>1. runs' = runs /\ layout' = layout
        BY <3>2 DEF censusvars
      <4> QED BY <2>1, <4>1 DEF CensusInv, RunsInv, LayoutInv
    <3> QED BY <2>1, <3>1, <3>2
  <2> QED BY <2>1, ToolsApart
<1>3. CensusInv => CensusTrue
  BY CensusHolds, CensusAssumption DEF CensusTrue
<1> QED BY <1>1, <1>2, <1>3, PTL DEF GatesSpec

(* Splits and loans neither create nor lose money, for any pool, any basis points that fit the whole and any
   number of passes. *)
THEOREM GatesMoney == GatesSpec => []MoneyConserved
<1>1. GatesInit => MoneyInv
  BY MoneyInit, MoneyAssumption DEF GatesInit
<1>2. MoneyInv /\ [GatesNext]_gatevars => MoneyInv'
  BY ToolsApart, MoneyStep, MoneyAssumption DEF money
<1>3. MoneyInv => MoneyConserved
  BY PoolHolds, LoanHolds, MoneyAssumption DEF MoneyInv, MoneyConserved
<1> QED BY <1>1, <1>2, <1>3, PTL DEF GatesSpec
=============================================================================
