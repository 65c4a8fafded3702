------------------------- MODULE CandidateAnalysis -------------------------
(***************************************************************************)
(* How one candidate is judged: the extraction of StaticExtractionProvider *)
(* (src/taskc/providers/static.py), analyze_candidate                      *)
(* (src/taskc/compiler/matching.py), plan_questions                        *)
(* (src/taskc/compiler/questions.py) and is_ready                          *)
(* (src/taskc/compiler/readiness.py), as operators on                      *)
(*                                                                         *)
(*   k        a contract: [inputs, requirements, constraints], inputs      *)
(*            being a function from its fields to InputSpecs               *)
(*   draft    a CandidateDraft: [inputs, unresolved]                       *)
(*   request  a NormalizedRequest: [context, text, answers, requested]     *)
(*                                                                         *)
(* An InputSpec is [required, default, policy, class, enum, typed, accepts,*)
(* read, cost]: typed are the literals the question's answer_type lets     *)
(* through, accepts those that satisfy type, enum and value_schema, read   *)
(* is the string-to-number coercion and the enum aliases, cost what asking *)
(* costs the user (answer type and sensitivity, weighted, in thousandths). *)
(***************************************************************************)
EXTENDS Conditions, FiniteSets, Sequences

CONSTANTS
  Fields,         \* input names
  Literals,       \* JSON values
  Refs,           \* value_refs (secret references)
  ValidRefs,      \* those the secret resolver validates
  None,           \* no value
  Order,          \* field -> its place in the order of names
  GapWeight,      \* QuestionWeights.blocking_gap, in thousandths
  DepWeight,      \* QuestionWeights.dependency, in thousandths
  TermsCost,      \* the cost of the question about unresolved terms
  MaxQuestions    \* CompilerConfig.max_questions_per_round

Sources == {"clarification_answer", "user_request", "application_context",
            "contract_default", "model_inference"}

ASSUME AnalysisAssumption ==
  /\ IsFiniteSet(Fields)
  /\ "terms" \notin Fields         \* the targets of inputs are prefixed
  /\ Literals \cap Refs = {} /\ Literals # {}
  /\ ValidRefs \subseteq Refs
  /\ None \notin Literals \cup Refs \cup [source : Sources, value : Literals \cup Refs]
  /\ Order \in [Fields -> Nat]
  /\ \A f, g \in Fields : Order[f] = Order[g] => f = g
  /\ GapWeight \in Nat /\ DepWeight \in Nat /\ TermsCost \in Nat /\ MaxQuestions \in Nat \ {0}

\* _SOURCE_PRIORITY: the smaller number wins.
Priority(source) ==
  CASE source = "clarification_answer" -> 0
    [] source = "user_request"         -> 1
    [] source = "application_context"  -> 2
    [] source = "contract_default"     -> 3
    [] source = "model_inference"      -> 4

\* _SOURCE_POLICY.
Permits(policy, source) ==
  CASE policy = "any"            -> TRUE
    [] policy = "trusted"        -> source # "model_inference"
    [] policy = "user_confirmed" -> source \in {"user_request", "clarification_answer"}

-----------------------------------------------------------------------------
(* Contracts, as far as their validators promise something to the analysis. *)

InputSpec ==
  [required : BOOLEAN, default : Literals \cup {None},
   policy : {"any", "trusted", "user_confirmed"}, class : {"public", "sensitive", "secret"},
   enum : BOOLEAN, typed : SUBSET Literals, accepts : SUBSET Literals,
   read : [Literals -> Literals], cost : Nat]

Requirement(fields) == [when : Expressions, require : SUBSET fields]

\* place is the constraint's place in the contract's list.  The code need not be
\* unique; it stands for the code together with the order of the listed targets.
Constraint(fields) ==
  [code : STRING, when : Expressions \cup {None}, assert : Expressions,
   targets : SUBSET fields, blocking : BOOLEAN, place : Nat]

\* CapabilityContract: finitely many inputs, requirements and constraints; what is
\* required or targeted is declared, and a blocking constraint has a target.
IsContract(k) ==
  /\ DOMAIN k.inputs \subseteq Fields
  /\ \A f \in DOMAIN k.inputs : k.inputs[f] \in InputSpec
  /\ k.requirements \subseteq Requirement(DOMAIN k.inputs) /\ IsFiniteSet(k.requirements)
  /\ k.constraints \subseteq Constraint(DOMAIN k.inputs) /\ IsFiniteSet(k.constraints)
  /\ \A c \in k.constraints : c.blocking => c.targets # {}
  /\ \A c, d \in k.constraints : c.place = d.place => c = d

-----------------------------------------------------------------------------
(* Extraction and the choice of a value for each field.                     *)

From(source, value) == IF value = None THEN {} ELSE {[source |-> source, value |-> value]}

OrDefault(spec, said) ==
  IF said = {} THEN From("contract_default", spec.default) ELSE said

\* What the sources say of field f.  The default only speaks when none does.
Supplied(k, draft, request, f) ==
  OrDefault(k.inputs[f],
    From("model_inference", draft.inputs[f])
    \cup From("application_context", request.context[f])
    \cup From("user_request", request.text[f])
    \cup {[source |-> "clarification_answer", value |-> request.answers[f][i]]
            : i \in DOMAIN request.answers[f]})

\* The values of the most authoritative source.
Effective(supplied) ==
  {s \in supplied : \A t \in supplied : Priority(s.source) <= Priority(t.source)}

\* effective[0]: answers are ordered by the revision that asked (the order of
\* source_ref up to revision 9), any other source says one thing.
Top(request, effective, f) ==
  IF \E s \in effective : s.source = "clarification_answer"
  THEN [source |-> "clarification_answer", value |-> request.answers[f][1]]
  ELSE CHOOSE s \in effective : TRUE

\* Faulty variant of Conflicting: the first answer stands.
NeverConflicting(effective) == FALSE

Conflicting(effective) == Cardinality(effective) > 1

Gap(code, kind, targets, blocking, choices) ==
  [code |-> code, kind |-> kind, targets |-> targets, blocking |-> blocking,
   choices |-> choices]

Unverifiable(code, f) == {Gap(code, "unverifiable", {f}, TRUE, {})}

Known(value, spec) == IF value \in Refs THEN value ELSE spec.read[value]

\* Why the chosen value cannot be used, if it cannot.
ValueGaps(spec, f, value) ==
  IF value \in Refs
  THEN IF value \in ValidRefs THEN {} ELSE Unverifiable("secret_ref", f)
  ELSE IF spec.class = "secret" THEN Unverifiable("secret_literal", f)
  ELSE IF spec.read[value] \in spec.accepts THEN {} ELSE Unverifiable("value", f)

\* The most authoritative source says several things.
ConflictGaps(spec, f, effective) ==
  IF Conflicting(effective)
  THEN {Gap("conflict", "conflicting", {f}, TRUE,
            IF spec.class = "public" THEN {s.value : s \in effective} ELSE {})}
  ELSE {}

\* Its source is not one the field accepts.
SourceGaps(spec, f, source) ==
  IF Permits(spec.policy, source) THEN {} ELSE Unverifiable("source", f)

\* The chosen value enters the candidate unless it is unusable.
Entered(spec, f, top, unusable) ==
  IF unusable # {} THEN [input |-> None, gaps |-> unusable]
  ELSE [input |-> [source |-> top.source, value |-> Known(top.value, spec)],
        gaps |-> SourceGaps(spec, f, top.source)]

Chosen(spec, f, top) == Entered(spec, f, top, ValueGaps(spec, f, top.value))

\* The outcome of field resolution for f from the effective values: the value
\* that enters the candidate, or None, and the gaps it leaves.
Resolution(spec, f, request, effective) ==
  IF effective = {} THEN [input |-> None, gaps |-> {}]
  ELSE [Chosen(spec, f, Top(request, effective, f)) EXCEPT
          !.gaps = @ \cup ConflictGaps(spec, f, effective)]

Resolved(k, draft, request, f) ==
  Resolution(k.inputs[f], f, request, Effective(Supplied(k, draft, request, f)))

-----------------------------------------------------------------------------
(* analyze_candidate.                                                       *)

\* raw_values: conditions see literals only.
RawValues(inputs) ==
  [f \in {g \in DOMAIN inputs : inputs[g].value \notin Refs} |-> inputs[f].value]

\* Faulty variant of Required: conditional requirements are not looked at.
RequiredAlways(k, values) == {f \in DOMAIN k.inputs : k.inputs[f].required}

Required(k, values) ==
  {f \in DOMAIN k.inputs : k.inputs[f].required}
  \cup UNION {r.require : r \in {q \in k.requirements : Evaluate(q.when, values) = True}}

\* Constraints without a "when" always apply.
Applies(c, values) == c.when = None \/ Evaluate(c.when, values) = True

Violated(c, values) == Applies(c, values) /\ Evaluate(c.assert, values) = False

\* c and d leave gaps that _dedupe_gaps takes for the same one.
Namesakes(c, d) == c.code = d.code /\ c.targets = d.targets

\* _dedupe_gaps: of the gaps of namesakes the last one stands, blocking or not.  No
\* other gaps share code, targets and candidate values without being the same.
Standing(violated) ==
  {c \in violated : \A d \in violated : Namesakes(c, d) => d.place <= c.place}

\* The gaps of the contract's requirements and constraints.
ContractGaps(k, known, values) ==
  {Gap("missing", "missing", {f}, TRUE, {}) : f \in Required(k, values) \ known}
  \cup {Gap(c.code, "constraint", c.targets, c.blocking, {})
          : c \in Standing({d \in k.constraints : Violated(d, values)})}

TermGaps(draft) ==
  IF draft.unresolved THEN {Gap("terms", "ambiguous", {"terms"}, TRUE, {})} ELSE {}

\* The fields whose resolution entered a value.
Entering(resolved) ==
  [f \in {g \in DOMAIN resolved : resolved[g].input # None} |-> resolved[f].input]

AnalysisOf(k, draft, gaps, inputs) ==
  [inputs |-> inputs,
   gaps |-> gaps \cup ContractGaps(k, DOMAIN inputs, RawValues(inputs)) \cup TermGaps(draft)]

AnalysisFrom(k, draft, resolved) ==
  AnalysisOf(k, draft, UNION {resolved[f].gaps : f \in DOMAIN resolved}, Entering(resolved))

\* The candidate's inputs and gaps.
Analysis(k, draft, request) ==
  AnalysisFrom(k, draft, [f \in DOMAIN k.inputs |-> Resolved(k, draft, request, f)])

Blocking(gaps) == {g \in gaps : g.blocking}

IsReady(gaps) == Blocking(gaps) = {}

-----------------------------------------------------------------------------
(* plan_questions.                                                          *)

GapsOf(gaps, t) == {g \in Blocking(gaps) : t \in g.targets}

\* What speaks for asking about f: the requirements that depend on it.
Dependency(k, f) ==
  IF k.requirements = {} THEN 0
  ELSE (DepWeight * Cardinality({r \in k.requirements : f \in ReferencedFields(r.when)}))
         \div Cardinality(k.requirements)

\* The priority of the question about t, multiplied by the number of gaps.
Weight(k, gaps, t) ==
  GapWeight * Cardinality(GapsOf(gaps, t))
  + Cardinality(Blocking(gaps)) * (IF t = "terms" THEN -TermsCost
                                   ELSE Dependency(k, t) - k.inputs[t].cost)

\* Ties go by target, and inputs.* comes before request.unresolved_terms.
Before(k, gaps, t, u) ==
  LET ahead(m, n) == m > n \/ (m = n /\ t # "terms" /\ (u = "terms" \/ Order[t] < Order[u]))
  IN  ahead(Weight(k, gaps, t), Weight(k, gaps, u))

\* A conflict offers its values (public fields), an enum its members.
Choices(k, gaps, t) ==
  LET offered == UNION {g.choices : g \in {h \in GapsOf(gaps, t) : h.kind = "conflicting"}}
  IN  IF t = "terms" THEN {}
      ELSE IF offered # {} THEN offered
      ELSE IF k.inputs[t].enum THEN k.inputs[t].accepts ELSE {}

\* The questions about the first max_questions_per_round of some targets.
PlannedFor(k, gaps, targets) ==
  {[target |-> t, choices |-> Choices(k, gaps, t)] :
     t \in {u \in targets : Cardinality({w \in targets \ {u} : Before(k, gaps, w, u)}) < MaxQuestions}}

\* Faulty variant of Planned: fields that are only missing are asked about.
PlannedForMissing(k, gaps) ==
  PlannedFor(k, gaps, UNION {g.targets : g \in {h \in Blocking(gaps) : h.kind = "missing"}})

\* plan_questions: every blocking gap's targets compete.
Planned(k, gaps) ==
  PlannedFor(k, gaps, UNION {g.targets : g \in Blocking(gaps)})
=============================================================================
