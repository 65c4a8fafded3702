--------------------------- MODULE ConditionsProofs ---------------------------
(***************************************************************************)
(* Machine-checked facts about conditions, for any trees of conditions and *)
(* any values.  A recursive function is a CHOOSE: that there is a function *)
(* to be chosen, and that it is the only one, is proved here by induction  *)
(* on the trees (a counterexample without one among its children).         *)
(***************************************************************************)
EXTENDS Conditions, TLAPS

-----------------------------------------------------------------------------
(* Recursion over the conditions.  D[x][g] is the value of x when g gives   *)
(* the values of its children.                                              *)

\* f solves the recursion on A.
Solves(f, A, D) == \A x \in A : f[x] = D[x][f]

\* Parts that hold the children of their members.
IsPart(A) == A \subseteq Expressions /\ \A x \in A : Children(x) \subseteq A

\* A recursion whose step depends on the children alone has a solution.
LEMMA RecursionHasSolution ==
  ASSUME NEW V, NEW D \in [Expressions -> [[Expressions -> V] -> V]], V # {},
         \A x \in Expressions : \A g, h \in [Expressions -> V] :
           (\A c \in Children(x) : g[c] = h[c]) => D[x][g] = D[x][h]
  PROVE  \E f \in [Expressions -> V] : Solves(f, Expressions, D)
<1> DEFINE Functions == [Expressions -> V]
           Covers(A, f) == IsPart(A) /\ f \in Functions /\ Solves(f, A, D)
           Solved(x) == \E A \in SUBSET Expressions : \E f \in Functions : x \in A /\ Covers(A, f)
           Meets(x, v) == \E A \in SUBSET Expressions : \E f \in Functions :
                            x \in A /\ Covers(A, f) /\ v = f[x]
           U == {x \in Expressions : Solved(x)}
           F == [x \in Expressions |-> IF x \in U THEN CHOOSE v \in V : Meets(x, v)
                                       ELSE CHOOSE v \in V : TRUE]
\* Two solutions agree where both are defined.
<1>0. ASSUME NEW A \in SUBSET Expressions, NEW B \in SUBSET Expressions,
             NEW f \in Functions, NEW e \in Functions, Covers(A, f), Covers(B, e)
      PROVE  \A x \in A \cap B : f[x] = e[x]
  <2> DEFINE T == {x \in A \cap B : f[x] # e[x]}
  <2>1. T \in SUBSET Expressions
    OBVIOUS
  <2>2. SUFFICES ASSUME T # {} PROVE FALSE
    OBVIOUS
  <2>3. PICK x \in T : Children(x) \cap T = {}
    <3> HIDE DEF T
    <3> QED
      BY <2>1, <2>2, ExpressionsAssumption
  <2>4. x \in A /\ x \in B /\ x \in Expressions /\ f[x] # e[x]
    BY <2>1
  <2>5. \A c \in Children(x) : f[c] = e[c]
    BY <1>0, <2>3, <2>4 DEF IsPart
  <2>6. f[x] = D[x][f] /\ e[x] = D[x][e]
    BY <1>0, <2>4 DEF Solves
  <2>7. D[x][f] = D[x][e]
    BY <2>4, <2>5
  <2> QED
    BY <2>4, <2>6, <2>7
<1>1. \A A \in SUBSET Expressions : \A f \in Functions :
        Covers(A, f) => \A x \in A : x \in U /\ F[x] = f[x]
  <2> SUFFICES ASSUME NEW A \in SUBSET Expressions, NEW f \in Functions, Covers(A, f), NEW x \in A
               PROVE  x \in U /\ F[x] = f[x]
    OBVIOUS
  <2>1. x \in U
    OBVIOUS
  <2>2. Meets(x, f[x]) /\ f[x] \in V
    OBVIOUS
  <2>3. \A v \in V : Meets(x, v) => v = f[x]
    <3> SUFFICES ASSUME NEW v \in V, NEW B \in SUBSET Expressions, NEW e \in Functions,
                        x \in B, Covers(B, e), v = e[x]
                 PROVE  v = f[x]
      OBVIOUS
    <3> HIDE DEF Covers
    <3> QED
      BY <1>0
  <2>4. (CHOOSE v \in V : Meets(x, v)) = f[x]
    <3> HIDE DEF Meets
    <3> QED
      BY <2>2, <2>3
  <2>5. F[x] = CHOOSE v \in V : Meets(x, v)
    <3> HIDE DEF U, Meets
    <3> QED
      BY <2>1
  <2> QED
    BY <2>1, <2>4, <2>5
<1>2. F \in Functions
  <2> SUFFICES ASSUME NEW x \in Expressions PROVE F[x] \in V
    OBVIOUS
  <2>1. CASE x \in U
    <3>1. PICK A \in SUBSET Expressions, f \in Functions : x \in A /\ Covers(A, f)
      BY <2>1
    <3> HIDE DEF F, U
    <3>2. F[x] = f[x]
      BY <1>1, <3>1
    <3> QED
      BY <3>1, <3>2
  <2>2. CASE x \notin U
    BY <2>2
  <2> QED
    BY <2>1, <2>2
<1>3. IsPart(U) /\ Solves(F, U, D)
  <2> SUFFICES ASSUME NEW x \in U PROVE Children(x) \subseteq U /\ F[x] = D[x][F]
    BY DEF IsPart, Solves
  <2>1. PICK A \in SUBSET Expressions, f \in Functions : x \in A /\ Covers(A, f)
    OBVIOUS
  <2>2. \A y \in A : y \in U /\ F[y] = f[y]
    BY <1>1, <2>1
  <2>3. Children(x) \subseteq A
    BY <2>1 DEF IsPart
  <2>4. D[x][F] = D[x][f]
    <3>1. \A c \in Children(x) : F[c] = f[c]
      BY <2>2, <2>3
    <3> HIDE DEF F
    <3> QED
      BY <1>2, <3>1
  <2>5. f[x] = D[x][f]
    BY <2>1 DEF Solves
  <2> QED
    BY <2>1, <2>2, <2>3, <2>4, <2>5
<1>4. U = Expressions
  <2> DEFINE T == Expressions \ U
  <2>1. SUFFICES ASSUME T # {} PROVE FALSE
    OBVIOUS
  <2>2. PICK x \in T : Children(x) \cap T = {}
    <3> HIDE DEF T, U
    <3>1. T \in SUBSET Expressions
      BY DEF T
    <3> QED
      BY <2>1, <3>1, ExpressionsAssumption
  <2> DEFINE G == [F EXCEPT ![x] = D[x][F]]
  <2>3. x \in Expressions /\ x \notin U /\ Children(x) \subseteq U
    BY <2>2, ExpressionsAssumption
  <2>4. G \in Functions
    <3> HIDE DEF F
    <3>1. D[x][F] \in V
      BY <1>2, <2>3
    <3> QED
      BY <1>2, <3>1
  <2>5. \A y \in Expressions : x # y => G[y] = F[y]
    <3> HIDE DEF F
    <3> QED
      BY <1>2
  <2>6. G[x] = D[x][F]
    <3> HIDE DEF F
    <3> QED
      BY <1>2, <2>3
  <2>7. IsPart(U \cup {x})
    <3> HIDE DEF F, U
    <3>1. U \subseteq Expressions
      BY DEF U
    <3> QED
      BY <1>3, <2>3, <3>1 DEF IsPart
  <2>8. \A y \in U \cup {x} : \A c \in Children(y) : G[c] = F[c]
    <3> HIDE DEF F, U, G
    <3>1. \A y \in U \cup {x} : Children(y) \subseteq U
      BY <1>3, <2>3 DEF IsPart
    <3>2. U \subseteq Expressions
      BY DEF U
    <3> QED
      BY <2>3, <2>5, <3>1, <3>2
  <2>9. \A y \in U \cup {x} : G[y] = D[y][G]
    <3> HIDE DEF F, U, G, Functions
    <3> TAKE y \in U \cup {x}
    <3>1. y \in Expressions
      BY <2>7 DEF IsPart
    <3>2. D[y][G] = D[y][F]
      BY <1>2, <2>4, <2>8, <3>1 DEF Functions
    <3>3. CASE y = x
      BY <2>6, <3>2, <3>3
    <3>4. CASE y # x
      BY <1>3, <2>5, <3>1, <3>2, <3>4 DEF Solves
    <3> QED
      BY <3>3, <3>4
  <2>10. Covers(U \cup {x}, G)
    <3> HIDE DEF F, U, G
    <3> QED
      BY <2>4, <2>7, <2>9 DEF Solves
  <2> QED
    <3> HIDE DEF F, G, Covers
    <3>1. U \cup {x} \in SUBSET Expressions
      BY <2>3
    <3>2. Solved(x)
      BY <2>4, <2>10, <3>1
    <3> QED
      BY <2>3, <3>2
<1> QED
  <2> HIDE DEF F, U
  <2> QED
    BY <1>2, <1>3, <1>4

-----------------------------------------------------------------------------
(* The recursive functions of Conditions, unfolded once.                    *)

Verdicts == {True, False, Unknown}

LEMMA LeafVerdictType == \A x, values : LeafVerdict(x, values) \in Verdicts
  BY DEF LeafVerdict, Verdict, Verdicts

LEMMA EvaluateUnfolds ==
  ASSUME NEW values
  PROVE  \A x \in Expressions :
           /\ Evaluate(x, values) \in Verdicts
           /\ x.op = "all" =>
                Evaluate(x, values) = AllOf({Evaluate(c, values) : c \in x.children})
           /\ x.op = "any" =>
                Evaluate(x, values) = AnyOf({Evaluate(c, values) : c \in x.children})
           /\ x.op \notin {"all", "any"} => Evaluate(x, values) = LeafVerdict(x, values)
<1> DEFINE Step(x, g) == CASE x.op = "all" -> AllOf({g[c] : c \in x.children})
                           [] x.op = "any" -> AnyOf({g[c] : c \in x.children})
                           [] OTHER        -> LeafVerdict(x, values)
           D == [x \in Expressions |-> [g \in [Expressions -> Verdicts] |-> Step(x, g)]]
           v == CHOOSE f : f = [x \in Expressions |-> Step(x, f)]
<1>1. \A x, g : Step(x, g) \in Verdicts
  BY LeafVerdictType DEF AllOf, AnyOf, Verdicts
<1>2. \A x \in Expressions : \A g, h \in [Expressions -> Verdicts] :
        (\A c \in Children(x) : g[c] = h[c]) => Step(x, g) = Step(x, h)
  <2> SUFFICES ASSUME NEW x \in Expressions,
                      NEW g \in [Expressions -> Verdicts], NEW h \in [Expressions -> Verdicts],
                      \A c \in Children(x) : g[c] = h[c]
               PROVE  Step(x, g) = Step(x, h)
    OBVIOUS
  <2>1. CASE x.op \in {"all", "any"}
    <3>1. {g[c] : c \in x.children} = {h[c] : c \in x.children}
      BY <2>1 DEF Children
    <3> QED
      BY <2>1, <3>1
  <2>2. CASE x.op \notin {"all", "any"}
    BY <2>2
  <2> QED
    BY <2>1, <2>2
<1>3. PICK f \in [Expressions -> Verdicts] : Solves(f, Expressions, D)
  <2> HIDE DEF Step
  <2>1. D \in [Expressions -> [[Expressions -> Verdicts] -> Verdicts]]
    BY <1>1
  <2>2. Verdicts # {}
    BY DEF Verdicts
  <2>3. \A x \in Expressions : \A g, h \in [Expressions -> Verdicts] :
          (\A c \in Children(x) : g[c] = h[c]) => D[x][g] = D[x][h]
    BY <1>2
  <2> HIDE DEF D
  <2> QED
    BY <2>1, <2>2, <2>3, RecursionHasSolution
<1>4. v = [x \in Expressions |-> Step(x, v)]
  <2> HIDE DEF Step
  <2>1. \A x \in Expressions : f[x] = Step(x, f)
    BY <1>3 DEF Solves
  <2>2. f = [x \in Expressions |-> Step(x, f)]
    BY <2>1
  <2> QED
    BY <2>2
<1>5. \A x : Evaluate(x, values) = v[x]
  BY DEF Evaluate
<1>6. \A x \in Expressions : v[x] = Step(x, v)
  <2> HIDE DEF Step, v
  <2> QED
    BY <1>4
<1> QED
  <2> TAKE x \in Expressions
  <2>1. Evaluate(x, values) = Step(x, v) /\ Evaluate(x, values) \in Verdicts
    <3> HIDE DEF Step, v
    <3> QED
      BY <1>1, <1>5, <1>6
  <2> HIDE DEF v
  <2>2. {Evaluate(c, values) : c \in x.children} = {v[c] : c \in x.children}
    BY <1>5
  <2>3. CASE x.op = "all"
    BY <2>1, <2>2, <2>3
  <2>4. CASE x.op = "any"
    BY <2>1, <2>2, <2>4
  <2>5. CASE x.op \notin {"all", "any"}
    BY <2>1, <2>5
  <2> QED
    BY <2>3, <2>4, <2>5

\* Where a condition may look.
FieldsOfLeaves == {x.field : x \in Expressions}

LEMMA ReferencedFieldsUnfolds ==
  \A x \in Expressions :
    ReferencedFields(x) = IF x.op \in {"all", "any"}
                          THEN UNION {ReferencedFields(c) : c \in x.children} ELSE {x.field}
<1> DEFINE Step(x, g) == IF x.op \in {"all", "any"} THEN UNION {g[c] : c \in x.children}
                         ELSE {x.field}
           V == SUBSET FieldsOfLeaves
           D == [x \in Expressions |-> [g \in [Expressions -> V] |-> Step(x, g)]]
           v == CHOOSE f : f = [x \in Expressions |-> Step(x, f)]
<1>1. \A x \in Expressions : \A g \in [Expressions -> V] : Step(x, g) \in V
  <2> SUFFICES ASSUME NEW x \in Expressions, NEW g \in [Expressions -> V]
               PROVE  Step(x, g) \in V
    OBVIOUS
  <2>1. CASE x.op \in {"all", "any"}
    <3>1. x.children \subseteq Expressions
      BY <2>1, ExpressionsAssumption DEF Children
    <3> QED
      BY <2>1, <3>1
  <2>2. CASE x.op \notin {"all", "any"}
    BY <2>2 DEF FieldsOfLeaves
  <2> QED
    BY <2>1, <2>2
<1>2. \A x \in Expressions : \A g, h \in [Expressions -> V] :
        (\A c \in Children(x) : g[c] = h[c]) => Step(x, g) = Step(x, h)
  <2> SUFFICES ASSUME NEW x \in Expressions,
                      NEW g \in [Expressions -> V], NEW h \in [Expressions -> V],
                      \A c \in Children(x) : g[c] = h[c]
               PROVE  Step(x, g) = Step(x, h)
    OBVIOUS
  <2>1. CASE x.op \in {"all", "any"}
    <3>1. {g[c] : c \in x.children} = {h[c] : c \in x.children}
      BY <2>1 DEF Children
    <3> QED
      BY <2>1, <3>1
  <2>2. CASE x.op \notin {"all", "any"}
    BY <2>2
  <2> QED
    BY <2>1, <2>2
<1>3. PICK f \in [Expressions -> V] : Solves(f, Expressions, D)
  <2> HIDE DEF Step, V
  <2>1. D \in [Expressions -> [[Expressions -> V] -> V]]
    BY <1>1
  <2>2. V # {}
    BY DEF V
  <2>3. \A x \in Expressions : \A g, h \in [Expressions -> V] :
          (\A c \in Children(x) : g[c] = h[c]) => D[x][g] = D[x][h]
    BY <1>2
  <2> HIDE DEF D
  <2> QED
    BY <2>1, <2>2, <2>3, RecursionHasSolution
<1>4. v = [x \in Expressions |-> Step(x, v)]
  <2> HIDE DEF Step, V
  <2>1. f = [x \in Expressions |-> Step(x, f)]
    BY <1>3 DEF Solves
  <2> QED
    BY <2>1
<1>5. \A x : ReferencedFields(x) = v[x]
  BY DEF ReferencedFields
<1> QED
  <2> TAKE x \in Expressions
  <2>1. ReferencedFields(x) = Step(x, v)
    <3> HIDE DEF Step, v
    <3> QED
      BY <1>4, <1>5
  <2> HIDE DEF v
  <2>2. {ReferencedFields(c) : c \in x.children} = {v[c] : c \in x.children}
    BY <1>5
  <2> QED
    BY <2>1, <2>2

LEMMA AsksForPresenceUnfolds ==
  \A x \in Expressions :
    /\ AsksForPresence(x) \in BOOLEAN
    /\ x.op \in {"all", "any"} =>
         (AsksForPresence(x) <=> \E c \in x.children : AsksForPresence(c))
    /\ x.op \notin {"all", "any"} => (AsksForPresence(x) <=> x.op = "exists")
<1> DEFINE Step(x, g) == IF x.op \in {"all", "any"} THEN \E c \in x.children : g[c]
                         ELSE x.op = "exists"
           D == [x \in Expressions |-> [g \in [Expressions -> BOOLEAN] |-> Step(x, g)]]
           v == CHOOSE f : f = [x \in Expressions |-> Step(x, f)]
<1>1. \A x, g : Step(x, g) \in BOOLEAN
  OBVIOUS
<1>2. \A x \in Expressions : \A g, h \in [Expressions -> BOOLEAN] :
        (\A c \in Children(x) : g[c] = h[c]) => Step(x, g) = Step(x, h)
  BY DEF Children
<1>3. PICK f \in [Expressions -> BOOLEAN] : Solves(f, Expressions, D)
  <2> HIDE DEF Step
  <2>1. D \in [Expressions -> [[Expressions -> BOOLEAN] -> BOOLEAN]]
    BY <1>1
  <2>2. \A x \in Expressions : \A g, h \in [Expressions -> BOOLEAN] :
          (\A c \in Children(x) : g[c] = h[c]) => D[x][g] = D[x][h]
    BY <1>2
  <2> HIDE DEF D
  <2> QED
    BY <2>1, <2>2, RecursionHasSolution
<1>4. v = [x \in Expressions |-> Step(x, v)]
  <2> HIDE DEF Step
  <2>1. f = [x \in Expressions |-> Step(x, f)]
    BY <1>3 DEF Solves
  <2> QED
    BY <2>1
<1>5. \A x : AsksForPresence(x) = v[x]
  BY DEF AsksForPresence
<1> QED
  <2> TAKE x \in Expressions
  <2>1. AsksForPresence(x) = Step(x, v)
    <3> HIDE DEF Step, v
    <3> QED
      BY <1>4, <1>5
  <2> HIDE DEF v
  <2> QED
    BY <1>5, <2>1

LEMMA HoldsUnfolds ==
  ASSUME NEW values
  PROVE  \A x \in Expressions :
           /\ Holds(x, values) \in BOOLEAN
           /\ x.op = "all" => (Holds(x, values) <=> \A c \in x.children : Holds(c, values))
           /\ x.op = "any" => (Holds(x, values) <=> \E c \in x.children : Holds(c, values))
           /\ x.op = "exists" => (Holds(x, values) <=> ((x.field \in DOMAIN values) = x.wanted))
           /\ x.op = "not_equals" => (Holds(x, values) <=> values[x.field] \notin x.operands)
           /\ x.op \notin {"all", "any", "exists", "not_equals"} =>
                (Holds(x, values) <=> values[x.field] \in x.operands)
<1> DEFINE Step(x, g) == CASE x.op = "all"        -> \A c \in x.children : g[c]
                           [] x.op = "any"        -> \E c \in x.children : g[c]
                           [] x.op = "exists"     -> (x.field \in DOMAIN values) = x.wanted
                           [] x.op = "not_equals" -> values[x.field] \notin x.operands
                           [] OTHER               -> values[x.field] \in x.operands
           D == [x \in Expressions |-> [g \in [Expressions -> BOOLEAN] |-> Step(x, g)]]
           v == CHOOSE f : f = [x \in Expressions |-> Step(x, f)]
<1>1. \A x, g : Step(x, g) \in BOOLEAN
  <2> TAKE x, g
  <2>1. CASE x.op = "all"
    BY <2>1
  <2>2. CASE x.op = "any"
    BY <2>2
  <2>3. CASE x.op = "exists"
    BY <2>3
  <2>4. CASE x.op = "not_equals"
    <3>1. Step(x, g) = (values[x.field] \notin x.operands)
      BY <2>4
    <3>2. (values[x.field] \notin x.operands) \in BOOLEAN
      OBVIOUS
    <3> QED
      BY <3>1, <3>2, Zenon
  <2>5. CASE x.op \notin {"all", "any", "exists", "not_equals"}
    <3>1. Step(x, g) = (values[x.field] \in x.operands)
      BY <2>5
    <3>2. (values[x.field] \in x.operands) \in BOOLEAN
      OBVIOUS
    <3> QED
      BY <3>1, <3>2, Zenon
  <2> QED
    BY <2>1, <2>2, <2>3, <2>4, <2>5
<1>2. \A x \in Expressions : \A g, h \in [Expressions -> BOOLEAN] :
        (\A c \in Children(x) : g[c] = h[c]) => Step(x, g) = Step(x, h)
  <2> SUFFICES ASSUME NEW x \in Expressions,
                      NEW g \in [Expressions -> BOOLEAN], NEW h \in [Expressions -> BOOLEAN],
                      \A c \in Children(x) : g[c] = h[c]
               PROVE  Step(x, g) = Step(x, h)
    OBVIOUS
  <2>1. CASE x.op = "all"
    <3>1. \A c \in x.children : g[c] = h[c]
      BY <2>1 DEF Children
    <3>2. (\A c \in x.children : g[c]) = (\A c \in x.children : h[c])
      BY <3>1
    <3> QED
      BY <2>1, <3>2
  <2>2. CASE x.op = "any"
    <3>1. \A c \in x.children : g[c] = h[c]
      BY <2>2 DEF Children
    <3>2. (\E c \in x.children : g[c]) = (\E c \in x.children : h[c])
      BY <3>1
    <3> QED
      BY <2>2, <3>2
  <2>3. CASE x.op \notin {"all", "any"}
    BY <2>3
  <2> QED
    BY <2>1, <2>2, <2>3
<1>3. PICK f \in [Expressions -> BOOLEAN] : Solves(f, Expressions, D)
  <2> HIDE DEF Step
  <2>1. D \in [Expressions -> [[Expressions -> BOOLEAN] -> BOOLEAN]]
    BY <1>1
  <2>2. \A x \in Expressions : \A g, h \in [Expressions -> BOOLEAN] :
          (\A c \in Children(x) : g[c] = h[c]) => D[x][g] = D[x][h]
    BY <1>2
  <2> HIDE DEF D
  <2> QED
    BY <2>1, <2>2, RecursionHasSolution
<1>4. v = [x \in Expressions |-> Step(x, v)]
  <2> HIDE DEF Step
  <2>1. f = [x \in Expressions |-> Step(x, f)]
    BY <1>3 DEF Solves
  <2> QED
    BY <2>1
<1>5. \A x : Holds(x, values) = v[x]
  BY DEF Holds
<1> QED
  <2> TAKE x \in Expressions
  <2>1. Holds(x, values) = Step(x, v)
    <3> HIDE DEF Step, v
    <3> QED
      BY <1>4, <1>5
  <2>2. Holds(x, values) \in BOOLEAN
    <3> HIDE DEF Step, v
    <3> QED
      BY <1>1, <2>1
  <2> HIDE DEF v
  <2>3. CASE x.op = "all"
    BY <1>5, <2>1, <2>2, <2>3
  <2>4. CASE x.op = "any"
    BY <1>5, <2>1, <2>2, <2>4
  <2>5. CASE x.op = "exists"
    BY <2>1, <2>2, <2>5
  <2>6. CASE x.op = "not_equals"
    BY <2>1, <2>2, <2>6
  <2>7. CASE x.op \notin {"all", "any", "exists", "not_equals"}
    BY <2>1, <2>2, <2>7
  <2> QED
    BY <2>2, <2>3, <2>4, <2>5, <2>6, <2>7

-----------------------------------------------------------------------------
(* What conditions mean.                                                    *)

LEMMA FieldsOfChildren ==
  ASSUME NEW x \in Expressions, NEW c \in Children(x)
  PROVE  /\ c \in Expressions
         /\ ReferencedFields(c) \subseteq ReferencedFields(x)
         /\ ~AsksForPresence(x) => ~AsksForPresence(c)
<1>1. x.op \in {"all", "any"} /\ c \in x.children /\ c \in Expressions
  BY ExpressionsAssumption DEF Children
<1>2. ReferencedFields(x) = UNION {ReferencedFields(d) : d \in x.children}
  BY <1>1, ReferencedFieldsUnfolds
<1>3. AsksForPresence(x) <=> \E d \in x.children : AsksForPresence(d)
  BY <1>1, AsksForPresenceUnfolds
<1> QED
  BY <1>1, <1>2, <1>3

LEMMA FieldOfLeaf ==
  ASSUME NEW x \in Expressions, x.op \notin {"all", "any"}
  PROVE  /\ ReferencedFields(x) = {x.field}
         /\ AsksForPresence(x) <=> x.op = "exists"
  BY ReferencedFieldsUnfolds, AsksForPresenceUnfolds

\* values are part of what full says.
IsPartOf(values, full) ==
  /\ DOMAIN values \subseteq DOMAIN full
  /\ \A f \in DOMAIN values : values[f] = full[f]

\* A verdict on partial values is the meaning of the condition under every
\* completion of them (evaluate_condition's three values), unless the condition
\* asks for presence.
THEOREM VerdictsAreSound ==
  ASSUME NEW values, NEW full, IsPartOf(values, full)
  PROVE  \A e \in Expressions :
           (~AsksForPresence(e) /\ ReferencedFields(e) \subseteq DOMAIN full) =>
             Evaluate(e, values) \in {Unknown, Verdict(Holds(e, full))}
<1> DEFINE Sound(e) == (~AsksForPresence(e) /\ ReferencedFields(e) \subseteq DOMAIN full) =>
                         Evaluate(e, values) \in {Unknown, Verdict(Holds(e, full))}
           T == {e \in Expressions : ~Sound(e)}
<1>1. SUFFICES ASSUME T # {} PROVE FALSE
  OBVIOUS
<1>2. PICK x \in T : Children(x) \cap T = {}
  <2> HIDE DEF Sound
  <2>1. T \in SUBSET Expressions
    OBVIOUS
  <2> HIDE DEF T
  <2> QED
    BY <1>1, <2>1, ExpressionsAssumption
<1>3. x \in Expressions /\ ~Sound(x)
  BY <1>2
<1>4. \A c \in Children(x) : Sound(c)
  BY <1>2, <1>3, ExpressionsAssumption
<1>5. \A c \in Children(x) : Evaluate(c, values) \in {Unknown, Verdict(Holds(c, full))}
  BY <1>3, <1>4, FieldsOfChildren
<1>6. CASE x.op = "all"
  <2>1. /\ Evaluate(x, values) = AllOf({Evaluate(c, values) : c \in x.children})
        /\ Holds(x, full) <=> \A c \in x.children : Holds(c, full)
        /\ Holds(x, full) \in BOOLEAN
    BY <1>3, <1>6, EvaluateUnfolds, HoldsUnfolds
  <2>2. \A c \in x.children : Evaluate(c, values) \in {Unknown, Verdict(Holds(c, full))}
    BY <1>5, <1>6 DEF Children
  <2>3. CASE False \in {Evaluate(c, values) : c \in x.children}
    <3>1. PICK c \in x.children : Evaluate(c, values) = False
      BY <2>3
    <3>2. ~Holds(c, full)
      BY <2>2, <3>1 DEF Verdict, True, False, Unknown
    <3> QED
      BY <1>3, <2>1, <2>3, <3>2 DEF AllOf, Verdict
  <2>4. CASE /\ False \notin {Evaluate(c, values) : c \in x.children}
             /\ {Evaluate(c, values) : c \in x.children} \subseteq {True}
    <3>1. \A c \in x.children : Holds(c, full)
      BY <2>2, <2>4 DEF Verdict, True, False, Unknown
    <3> QED
      BY <1>3, <2>1, <2>4, <3>1 DEF AllOf, Verdict
  <2>5. CASE /\ False \notin {Evaluate(c, values) : c \in x.children}
             /\ ~({Evaluate(c, values) : c \in x.children} \subseteq {True})
    BY <1>3, <2>1, <2>5 DEF AllOf
  <2> QED
    BY <2>3, <2>4, <2>5
<1>7. CASE x.op = "any"
  <2>1. /\ Evaluate(x, values) = AnyOf({Evaluate(c, values) : c \in x.children})
        /\ Holds(x, full) <=> \E c \in x.children : Holds(c, full)
        /\ Holds(x, full) \in BOOLEAN
    BY <1>3, <1>7, EvaluateUnfolds, HoldsUnfolds
  <2>2. \A c \in x.children : Evaluate(c, values) \in {Unknown, Verdict(Holds(c, full))}
    BY <1>5, <1>7 DEF Children
  <2>3. CASE True \in {Evaluate(c, values) : c \in x.children}
    <3>1. PICK c \in x.children : Evaluate(c, values) = True
      BY <2>3
    <3>2. Holds(c, full)
      BY <2>2, <3>1 DEF Verdict, True, False, Unknown
    <3> QED
      BY <1>3, <2>1, <2>3, <3>2 DEF AnyOf, Verdict
  <2>4. CASE /\ True \notin {Evaluate(c, values) : c \in x.children}
             /\ {Evaluate(c, values) : c \in x.children} \subseteq {False}
    <3>1. \A c \in x.children : ~Holds(c, full)
      BY <2>2, <2>4 DEF Verdict, True, False, Unknown
    <3> QED
      BY <1>3, <2>1, <2>4, <3>1 DEF AnyOf, Verdict
  <2>5. CASE /\ True \notin {Evaluate(c, values) : c \in x.children}
             /\ ~({Evaluate(c, values) : c \in x.children} \subseteq {False})
    BY <1>3, <2>1, <2>5 DEF AnyOf
  <2> QED
    BY <2>3, <2>4, <2>5
<1>8. CASE x.op \notin {"all", "any"}
  <2>1. ReferencedFields(x) = {x.field} /\ (AsksForPresence(x) <=> x.op = "exists")
    BY <1>3, <1>8, FieldOfLeaf
  <2>2. x.op # "exists" /\ x.field \in DOMAIN full
    BY <1>3, <2>1
  <2>3. Evaluate(x, values) = LeafVerdict(x, values) /\ Holds(x, full) \in BOOLEAN
    BY <1>3, <1>8, EvaluateUnfolds, HoldsUnfolds
  <2>4. CASE x.field \notin DOMAIN values
    BY <1>3, <2>2, <2>3, <2>4 DEF LeafVerdict
  <2>5. CASE x.field \in DOMAIN values
    <3>1. values[x.field] = full[x.field]
      BY <2>5 DEF IsPartOf
    <3>2. CASE x.op = "not_equals"
      <4>1. Holds(x, full) <=> full[x.field] \notin x.operands
        BY <1>3, <3>2, HoldsUnfolds
      <4> QED
        BY <1>3, <2>2, <2>3, <2>5, <3>1, <3>2, <4>1 DEF LeafVerdict, Verdict
    <3>3. CASE x.op # "not_equals"
      <4>1. Holds(x, full) <=> full[x.field] \in x.operands
        BY <1>3, <1>8, <2>2, <3>3, HoldsUnfolds
      <4> QED
        BY <1>3, <2>2, <2>3, <2>5, <3>1, <3>3, <4>1 DEF LeafVerdict, Verdict
    <3> QED
      BY <3>2, <3>3
  <2> QED
    BY <2>4, <2>5
<1> QED
  BY <1>6, <1>7, <1>8

\* A condition looks at nothing but the fields it references: two readings that
\* agree on those, presence included, give one verdict.
THEOREM VerdictsReadTheirFields ==
  ASSUME NEW values, NEW others
  PROVE  \A e \in Expressions :
           (\A f \in ReferencedFields(e) :
              /\ f \in DOMAIN values <=> f \in DOMAIN others
              /\ f \in DOMAIN values => values[f] = others[f])
           => Evaluate(e, values) = Evaluate(e, others)
<1> DEFINE Agree(e) == \A f \in ReferencedFields(e) :
                         /\ f \in DOMAIN values <=> f \in DOMAIN others
                         /\ f \in DOMAIN values => values[f] = others[f]
           T == {e \in Expressions : Agree(e) /\ Evaluate(e, values) # Evaluate(e, others)}
<1>1. SUFFICES ASSUME T # {} PROVE FALSE
  OBVIOUS
<1>2. PICK x \in T : Children(x) \cap T = {}
  <2> HIDE DEF Agree
  <2>1. T \in SUBSET Expressions
    OBVIOUS
  <2> HIDE DEF T
  <2> QED
    BY <1>1, <2>1, ExpressionsAssumption
<1>3. x \in Expressions /\ Agree(x) /\ Evaluate(x, values) # Evaluate(x, others)
  BY <1>2
<1>4. \A c \in Children(x) : Evaluate(c, values) = Evaluate(c, others)
  BY <1>2, <1>3, FieldsOfChildren
<1>5. CASE x.op \in {"all", "any"}
  <2>1. {Evaluate(c, values) : c \in x.children} = {Evaluate(c, others) : c \in x.children}
    BY <1>4, <1>5 DEF Children
  <2> QED
    BY <1>3, <1>5, <2>1, EvaluateUnfolds
<1>6. CASE x.op \notin {"all", "any"}
  <2>1. ReferencedFields(x) = {x.field}
    BY <1>3, <1>6, FieldOfLeaf
  <2>2. LeafVerdict(x, values) = LeafVerdict(x, others)
    BY <1>3, <2>1 DEF LeafVerdict
  <2> QED
    BY <1>3, <1>6, <2>2, EvaluateUnfolds
<1> QED
  BY <1>5, <1>6
=============================================================================
