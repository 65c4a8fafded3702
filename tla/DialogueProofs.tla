---------------------------- MODULE DialogueProofs ----------------------------
(***************************************************************************)
(* Machine-checked proofs about Dialogue and the candidate analysis it     *)
(* rests on: any contracts, conditions, requests, drafts, answers and      *)
(* numbers of rounds.                                                      *)
(***************************************************************************)
EXTENDS Dialogue, ConditionsProofs, FiniteSetTheorems, WellFoundedInduction

MaybeValue == Values \cup {None}

MaybeLiteral == Literals \cup {None}

DraftType == [inputs : [Fields -> MaybeLiteral], unresolved : BOOLEAN]

RequestType ==
  [context : [Fields -> MaybeValue], text : [Fields -> MaybeLiteral],
   answers : [Fields -> Seq(Values)], requested : Ids \cup {None}]

\* A value and who supplied it.
Supply == [source : Sources, value : Values]

-----------------------------------------------------------------------------
(* What the sources say of a field.                                         *)

LEMMA FiniteImage ==
  ASSUME NEW S, IsFiniteSet(S), NEW g, DOMAIN g = S
  PROVE  IsFiniteSet({g[x] : x \in S})
<1> DEFINE R == {g[x] : x \in S}
<1>1. [x \in S |-> g[x]] \in Surjection(S, R)
  BY DEF Surjection
<1> HIDE DEF R
<1>2. IsFiniteSet(R)
  BY <1>1, FS_Surjection
<1> QED
  BY <1>2 DEF R

LEMMA EndsOfSequence ==
  ASSUME NEW S, NEW s \in Seq(S), s # <<>>
  PROVE  1 \in DOMAIN s /\ Len(s) \in DOMAIN s
  OBVIOUS

LEMMA Priorities ==
  /\ Priority("clarification_answer") = 0
  /\ Priority("user_request") = 1
  /\ Priority("application_context") = 2
  /\ Priority("contract_default") = 3
  /\ Priority("model_inference") = 4
  BY DEF Priority

LEMMA PriorityIsNat == \A s \in Sources : Priority(s) \in Nat
  BY Priorities DEF Sources

\* The answers to f.
AnswerSupply(request, f) ==
  {[source |-> "clarification_answer", value |-> request.answers[f][i]]
     : i \in DOMAIN request.answers[f]}

\* What was said of f in the request, by whatever means.
RequestSupply(request, f) ==
  From("application_context", request.context[f])
  \cup From("user_request", request.text[f])
  \cup AnswerSupply(request, f)

LEMMA SuppliedIs ==
  ASSUME NEW k, NEW draft, NEW request, NEW f
  PROVE  Supplied(k, draft, request, f) =
           OrDefault(k.inputs[f],
             From("model_inference", draft.inputs[f]) \cup RequestSupply(request, f))
  BY DEF Supplied, RequestSupply, AnswerSupply

LEMMA FromIsSmall ==
  ASSUME NEW source \in Sources, NEW value \in MaybeValue
  PROVE  /\ From(source, value) \in SUBSET Supply
         /\ \A s \in From(source, value) : s.source = source /\ s.value = value
         /\ IsFiniteSet(From(source, value))
<1>1. CASE value = None
  BY <1>1, FS_EmptySet DEF From
<1>2. CASE value # None
  <2>1. From(source, value) = {[source |-> source, value |-> value]}
    BY <1>2 DEF From
  <2>2. IsFiniteSet(From(source, value))
    BY <2>1, FS_Singleton
  <2> QED
    BY <1>2, <2>1, <2>2 DEF Supply, MaybeValue
<1> QED
  BY <1>1, <1>2

LEMMA RequestSupplies ==
  ASSUME NEW request \in RequestType, NEW f \in Fields
  PROVE  /\ RequestSupply(request, f) \in SUBSET Supply
         /\ IsFiniteSet(RequestSupply(request, f))
         /\ \A s \in RequestSupply(request, f) :
              s.source \in {"clarification_answer", "user_request", "application_context"}
<1>1. /\ request.context[f] \in MaybeValue /\ request.text[f] \in MaybeValue
      /\ request.answers[f] \in Seq(Values)
  BY DEF RequestType, MaybeValue, MaybeLiteral, Values
<1>2. /\ AnswerSupply(request, f) \in SUBSET Supply
      /\ \A s \in AnswerSupply(request, f) : s.source = "clarification_answer"
  BY <1>1 DEF AnswerSupply, Supply, Sources
<1>3. IsFiniteSet(AnswerSupply(request, f))
  <2> DEFINE I == DOMAIN request.answers[f]
             g == [i \in I |-> [source |-> "clarification_answer", value |-> request.answers[f][i]]]
  <2>1. I = 1 .. Len(request.answers[f]) /\ 1 \in Int /\ Len(request.answers[f]) \in Int
    BY <1>1
  <2>2. IsFiniteSet(I)
    BY <2>1, FS_Interval
  <2>3. AnswerSupply(request, f) = {g[i] : i \in I}
    BY DEF AnswerSupply
  <2>4. DOMAIN g = I
    OBVIOUS
  <2> HIDE DEF g, I
  <2> QED
    BY <2>2, <2>3, <2>4, FiniteImage
<1>4. /\ "application_context" \in Sources /\ "user_request" \in Sources
  BY DEF Sources
<1>5. IsFiniteSet(From("application_context", request.context[f]) \cup From("user_request", request.text[f]))
  BY <1>1, <1>4, FromIsSmall, FS_Union
<1>6. IsFiniteSet(RequestSupply(request, f))
  BY <1>3, <1>5, FS_Union DEF RequestSupply
<1> QED
  BY <1>1, <1>2, <1>4, <1>6, FromIsSmall DEF RequestSupply

LEMMA SuppliesOf ==
  ASSUME NEW k, IsContract(k), NEW draft \in DraftType, NEW request \in RequestType,
         NEW f \in DOMAIN k.inputs
  PROVE  /\ f \in Fields /\ k.inputs[f] \in InputSpec
         /\ Supplied(k, draft, request, f) \in SUBSET Supply
         /\ IsFiniteSet(Supplied(k, draft, request, f))
<1>1. f \in Fields /\ k.inputs[f] \in InputSpec
  BY DEF IsContract
<1>2. draft.inputs[f] \in MaybeValue /\ k.inputs[f].default \in MaybeValue
  BY <1>1 DEF DraftType, MaybeLiteral, MaybeValue, Values, InputSpec
<1>3. "model_inference" \in Sources /\ "contract_default" \in Sources
  BY DEF Sources
<1> DEFINE inferred == From("model_inference", draft.inputs[f])
           told == inferred \cup RequestSupply(request, f)
<1>4. told \in SUBSET Supply /\ IsFiniteSet(told)
  <2>1. inferred \in SUBSET Supply /\ IsFiniteSet(inferred)
    BY <1>2, <1>3, FromIsSmall
  <2>2. RequestSupply(request, f) \in SUBSET Supply /\ IsFiniteSet(RequestSupply(request, f))
    BY <1>1, RequestSupplies
  <2> HIDE DEF inferred
  <2> QED
    BY <2>1, <2>2, FS_Union
<1>5. OrDefault(k.inputs[f], told) \in SUBSET Supply /\ IsFiniteSet(OrDefault(k.inputs[f], told))
  <2> HIDE DEF told
  <2> QED
    BY <1>2, <1>3, <1>4, FromIsSmall DEF OrDefault
<1> QED
  BY <1>1, <1>5, SuppliedIs

LEMMA EffectiveOf ==
  ASSUME NEW supplied \in SUBSET Supply, IsFiniteSet(supplied)
  PROVE  /\ Effective(supplied) \in SUBSET Supply
         /\ IsFiniteSet(Effective(supplied))
<1>1. Effective(supplied) \in SUBSET supplied
  BY DEF Effective
<1> QED
  BY <1>1, FS_Subset

\* As soon as f was answered the answers alone are effective.
LEMMA AnswersPrevail ==
  ASSUME NEW k, IsContract(k), NEW draft \in DraftType, NEW request \in RequestType,
         NEW f \in DOMAIN k.inputs, request.answers[f] # <<>>
  PROVE  Effective(Supplied(k, draft, request, f)) = AnswerSupply(request, f)
<1> DEFINE supplied == Supplied(k, draft, request, f)
<1>1. f \in Fields /\ supplied \in SUBSET Supply
  BY SuppliesOf
<1>2. request.answers[f] \in Seq(Values)
  BY <1>1 DEF RequestType
<1>3. AnswerSupply(request, f) # {}
  <2>1. 1 \in DOMAIN request.answers[f]
    BY <1>2, EndsOfSequence
  <2> QED
    BY <2>1 DEF AnswerSupply
<1>4. supplied = From("model_inference", draft.inputs[f]) \cup RequestSupply(request, f)
  BY <1>3, SuppliedIs DEF OrDefault, RequestSupply
<1>5. AnswerSupply(request, f) \subseteq supplied
  BY <1>4 DEF RequestSupply
<1>6. \A s \in AnswerSupply(request, f) : s.source = "clarification_answer"
  BY DEF AnswerSupply
<1>7. \A s \in supplied : s.source = "clarification_answer" => s \in AnswerSupply(request, f)
  <2>1. draft.inputs[f] \in MaybeValue /\ request.context[f] \in MaybeValue /\ request.text[f] \in MaybeValue
    BY <1>1 DEF DraftType, RequestType, MaybeLiteral, MaybeValue, Values
  <2>2. "model_inference" \in Sources /\ "application_context" \in Sources /\ "user_request" \in Sources
    BY DEF Sources
  <2>3. \A s \in From("model_inference", draft.inputs[f]) : s.source # "clarification_answer"
    BY <2>1, <2>2, FromIsSmall
  <2>4. \A s \in From("application_context", request.context[f]) : s.source # "clarification_answer"
    BY <2>1, <2>2, FromIsSmall
  <2>5. \A s \in From("user_request", request.text[f]) : s.source # "clarification_answer"
    BY <2>1, <2>2, FromIsSmall
  <2> QED
    BY <1>4, <2>3, <2>4, <2>5 DEF RequestSupply
<1>8. \A s \in supplied : s.source \in Sources
  BY <1>1 DEF Supply
<1>9. \A s \in supplied : 0 <= Priority(s.source)
  BY <1>8, PriorityIsNat
<1>10. \A s \in supplied : Priority(s.source) <= 0 => s.source = "clarification_answer"
  BY <1>8, Priorities DEF Sources
<1> HIDE DEF supplied
<1>11. Effective(supplied) \subseteq AnswerSupply(request, f)
  <2> SUFFICES ASSUME NEW s \in Effective(supplied) PROVE s \in AnswerSupply(request, f)
    OBVIOUS
  <2>1. PICK t : t \in AnswerSupply(request, f)
    BY <1>3
  <2>2. s \in supplied /\ Priority(s.source) <= Priority(t.source)
    BY <1>5, <2>1 DEF Effective
  <2>3. Priority(t.source) = 0
    BY <1>6, <2>1, Priorities
  <2> QED
    BY <1>7, <1>10, <2>2, <2>3
<1>12. AnswerSupply(request, f) \subseteq Effective(supplied)
  BY <1>5, <1>6, <1>9, Priorities DEF Effective
<1> QED
  BY <1>11, <1>12 DEF supplied

\* An answer among the supplied values is one of the request's.
LEMMA AnswersAreSupplied ==
  ASSUME NEW k, IsContract(k), NEW draft \in DraftType, NEW request \in RequestType,
         NEW f \in DOMAIN k.inputs, NEW s \in Supplied(k, draft, request, f),
         s.source = "clarification_answer"
  PROVE  s \in AnswerSupply(request, f)
<1>1. f \in Fields /\ k.inputs[f] \in InputSpec
  BY SuppliesOf
<1>2. /\ draft.inputs[f] \in MaybeValue /\ request.context[f] \in MaybeValue
      /\ request.text[f] \in MaybeValue /\ k.inputs[f].default \in MaybeValue
  BY <1>1 DEF DraftType, RequestType, InputSpec, MaybeLiteral, MaybeValue, Values
<1>3. {"model_inference", "application_context", "user_request", "contract_default"} \subseteq Sources
  BY DEF Sources
<1>4. s \notin From("model_inference", draft.inputs[f])
  BY <1>2, <1>3, FromIsSmall
<1>5. s \notin From("application_context", request.context[f])
  BY <1>2, <1>3, FromIsSmall
<1>6. s \notin From("user_request", request.text[f])
  BY <1>2, <1>3, FromIsSmall
<1>7. s \notin From("contract_default", k.inputs[f].default)
  BY <1>2, <1>3, FromIsSmall
<1> QED
  BY <1>4, <1>5, <1>6, <1>7, SuppliedIs DEF OrDefault, RequestSupply

\* The chosen value is supplied by somebody.
LEMMA TopIsSupplied ==
  ASSUME NEW k, IsContract(k), NEW draft \in DraftType, NEW request \in RequestType,
         NEW f \in DOMAIN k.inputs, Effective(Supplied(k, draft, request, f)) # {}
  PROVE  Top(request, Effective(Supplied(k, draft, request, f)), f)
           \in Effective(Supplied(k, draft, request, f)) \cup AnswerSupply(request, f)
<1> DEFINE e == Effective(Supplied(k, draft, request, f))
<1>1. CASE \E s \in e : s.source = "clarification_answer"
  <2>1. PICK s \in e : s.source = "clarification_answer"
    BY <1>1
  <2>2. s \in AnswerSupply(request, f)
    BY <2>1, AnswersAreSupplied DEF Effective
  <2>3. request.answers[f] \in Seq(Values)
    BY SuppliesOf DEF RequestType
  <2>4. request.answers[f] # <<>>
    BY <2>2 DEF AnswerSupply
  <2>5. 1 \in DOMAIN request.answers[f]
    BY <2>3, <2>4, EndsOfSequence
  <2> QED
    BY <1>1, <2>5 DEF Top, AnswerSupply
<1>2. CASE ~ \E s \in e : s.source = "clarification_answer"
  <2> HIDE DEF e
  <2>1. Top(request, e, f) \in e
    BY <1>2 DEF Top, e
  <2> QED
    BY <2>1 DEF e
<1> QED
  BY <1>1, <1>2

\* The gaps that the resolution of one field may leave.
IsFieldGap(g, f) ==
  /\ g.kind \in {"conflicting", "unverifiable"}
  /\ g.targets = {f}
  /\ g.blocking = TRUE

\* A value that a dispatcher can use.
Usable(spec, input) ==
  /\ Permits(spec.policy, input.source)
  /\ input.value \in IF spec.class = "secret" THEN ValidRefs ELSE spec.accepts \cup ValidRefs

LEMMA ValueGapsAre ==
  ASSUME NEW spec \in InputSpec, NEW f, NEW value \in Values
  PROVE  /\ IsFiniteSet(ValueGaps(spec, f, value))
         /\ \A g \in ValueGaps(spec, f, value) : IsFieldGap(g, f)
         /\ Known(value, spec) \in Values
         /\ ValueGaps(spec, f, value) = {} =>
              Known(value, spec) \in IF spec.class = "secret" THEN ValidRefs
                                     ELSE spec.accepts \cup ValidRefs
<1>1. Known(value, spec) \in Values
  BY DEF Known, Values, InputSpec
<1>2. \A code : IsFiniteSet(Unverifiable(code, f)) /\ Unverifiable(code, f) # {}
  BY FS_Singleton DEF Unverifiable
<1>3. \A code : \A g \in Unverifiable(code, f) : IsFieldGap(g, f)
  BY DEF Unverifiable, Gap, IsFieldGap
<1>4. CASE value \in Refs
  <2>1. Known(value, spec) = value
    BY <1>4 DEF Known
  <2>2. ValueGaps(spec, f, value) = IF value \in ValidRefs THEN {} ELSE Unverifiable("secret_ref", f)
    BY <1>4 DEF ValueGaps
  <2> QED
    BY <1>1, <1>2, <1>3, <2>1, <2>2, FS_EmptySet
<1>5. CASE value \notin Refs /\ spec.class = "secret"
  <2>1. ValueGaps(spec, f, value) = Unverifiable("secret_literal", f)
    BY <1>5 DEF ValueGaps
  <2> QED
    BY <1>1, <1>2, <1>3, <2>1
<1>6. CASE value \notin Refs /\ spec.class # "secret"
  <2>1. Known(value, spec) = spec.read[value]
    BY <1>6 DEF Known
  <2>2. ValueGaps(spec, f, value) =
          IF spec.read[value] \in spec.accepts THEN {} ELSE Unverifiable("value", f)
    BY <1>6 DEF ValueGaps
  <2> QED
    BY <1>1, <1>2, <1>3, <1>6, <2>1, <2>2, FS_EmptySet
<1> QED
  BY <1>4, <1>5, <1>6

LEMMA SourceGapsAre ==
  ASSUME NEW spec, NEW f, NEW source
  PROVE  /\ IsFiniteSet(SourceGaps(spec, f, source))
         /\ \A g \in SourceGaps(spec, f, source) : IsFieldGap(g, f)
         /\ SourceGaps(spec, f, source) = {} => Permits(spec.policy, source)
<1>1. CASE Permits(spec.policy, source)
  BY <1>1, FS_EmptySet DEF SourceGaps
<1>2. CASE ~Permits(spec.policy, source)
  <2>1. SourceGaps(spec, f, source) = {Gap("source", "unverifiable", {f}, TRUE, {})}
    BY <1>2 DEF SourceGaps, Unverifiable
  <2>2. IsFieldGap(Gap("source", "unverifiable", {f}, TRUE, {}), f)
    BY DEF Gap, IsFieldGap
  <2> QED
    BY <2>1, <2>2, FS_Singleton
<1> QED
  BY <1>1, <1>2

LEMMA ConflictGapsAre ==
  ASSUME NEW spec, NEW f, NEW e
  PROVE  /\ IsFiniteSet(ConflictGaps(spec, f, e))
         /\ \A g \in ConflictGaps(spec, f, e) : IsFieldGap(g, f)
         /\ ConflictGaps(spec, f, e) = {} => ~Conflicting(e)
<1>1. CASE ~Conflicting(e)
  BY <1>1, FS_EmptySet DEF ConflictGaps
<1>2. CASE Conflicting(e)
  <2> DEFINE shown == IF spec.class = "public" THEN {s.value : s \in e} ELSE {}
  <2>1. ConflictGaps(spec, f, e) = {Gap("conflict", "conflicting", {f}, TRUE, shown)}
    BY <1>2 DEF ConflictGaps
  <2> HIDE DEF shown
  <2>2. IsFieldGap(Gap("conflict", "conflicting", {f}, TRUE, shown), f)
    BY DEF Gap, IsFieldGap
  <2> QED
    BY <2>1, <2>2, FS_Singleton
<1> QED
  BY <1>1, <1>2

\* What the resolution of a field is made of.
LEMMA ResolutionIs ==
  ASSUME NEW spec, NEW f, NEW request, NEW e
  PROVE  /\ e = {} => Resolution(spec, f, request, e) = [input |-> None, gaps |-> {}]
         /\ e # {} =>
              LET top == Top(request, e, f)
                  unusable == ValueGaps(spec, f, top.value)
              IN  /\ Resolution(spec, f, request, e).input =
                       IF unusable # {} THEN None
                       ELSE [source |-> top.source, value |-> Known(top.value, spec)]
                  /\ Resolution(spec, f, request, e).gaps =
                       (IF unusable # {} THEN unusable ELSE SourceGaps(spec, f, top.source))
                       \cup ConflictGaps(spec, f, e)
  BY DEF Resolution, Chosen, Entered

LEMMA ResolvedField ==
  ASSUME NEW k, IsContract(k), NEW draft \in DraftType, NEW request \in RequestType,
         NEW f \in DOMAIN k.inputs
  PROVE  /\ IsFiniteSet(Resolved(k, draft, request, f).gaps)
         /\ \A g \in Resolved(k, draft, request, f).gaps : IsFieldGap(g, f)
         /\ Resolved(k, draft, request, f).input # None =>
              /\ Effective(Supplied(k, draft, request, f)) # {}
              /\ Resolved(k, draft, request, f).input =
                   [source |-> Top(request, Effective(Supplied(k, draft, request, f)), f).source,
                    value |-> Known(Top(request, Effective(Supplied(k, draft, request, f)), f).value,
                                    k.inputs[f])]
              /\ Resolved(k, draft, request, f).input \in Supply
              /\ Resolved(k, draft, request, f).gaps = {} =>
                   /\ Usable(k.inputs[f], Resolved(k, draft, request, f).input)
                   /\ ~Conflicting(Effective(Supplied(k, draft, request, f)))
<1> DEFINE r == Resolved(k, draft, request, f)
           e == Effective(Supplied(k, draft, request, f))
           top == Top(request, e, f)
           spec == k.inputs[f]
<1>0. r = Resolution(spec, f, request, e)
  BY DEF Resolved
<1>1. CASE e = {}
  <2>1. r = [input |-> None, gaps |-> {}]
    BY <1>0, <1>1 DEF Resolution
  <2> QED
    BY <2>1, FS_EmptySet
<1>2. CASE e # {}
  <2>1. f \in Fields /\ spec \in InputSpec /\ e \in SUBSET Supply
    BY SuppliesOf, EffectiveOf
  <2>2. AnswerSupply(request, f) \in SUBSET Supply
    <3>1. request.answers[f] \in Seq(Values)
      BY <2>1 DEF RequestType
    <3> QED
      BY <3>1 DEF AnswerSupply, Supply, Sources
  <2>3. top \in Supply
    BY <1>2, <2>1, <2>2, TopIsSupplied
  <2> HIDE DEF spec
  <2>4. /\ r.input = IF ValueGaps(spec, f, top.value) # {} THEN None
                     ELSE [source |-> top.source, value |-> Known(top.value, spec)]
        /\ r.gaps = (IF ValueGaps(spec, f, top.value) # {} THEN ValueGaps(spec, f, top.value)
                     ELSE SourceGaps(spec, f, top.source)) \cup ConflictGaps(spec, f, e)
    <3> HIDE DEF r, e
    <3> QED
      BY <1>0, <1>2, ResolutionIs
  <2> HIDE DEF r, top, e
  <2>5. top.source \in Sources /\ top.value \in Values
    BY <2>3 DEF Supply
  <2>6. /\ IsFiniteSet(SourceGaps(spec, f, top.source))
        /\ \A g \in SourceGaps(spec, f, top.source) : IsFieldGap(g, f)
        /\ SourceGaps(spec, f, top.source) = {} => Permits(spec.policy, top.source)
    BY SourceGapsAre
  <2>7. /\ IsFiniteSet(ConflictGaps(spec, f, e))
        /\ \A g \in ConflictGaps(spec, f, e) : IsFieldGap(g, f)
        /\ ConflictGaps(spec, f, e) = {} => ~Conflicting(e)
    BY ConflictGapsAre
  <2>8. CASE ValueGaps(spec, f, top.value) # {}
    <3>1. /\ IsFiniteSet(ValueGaps(spec, f, top.value))
          /\ \A g \in ValueGaps(spec, f, top.value) : IsFieldGap(g, f)
      BY <2>1, <2>5, ValueGapsAre
    <3>2. r.input = None /\ r.gaps = ValueGaps(spec, f, top.value) \cup ConflictGaps(spec, f, e)
      BY <2>4, <2>8
    <3>3. IsFiniteSet(r.gaps)
      BY <2>7, <3>1, <3>2, FS_Union
    <3> QED
      BY <2>7, <3>1, <3>2, <3>3 DEF r, e
  <2>9. CASE ValueGaps(spec, f, top.value) = {}
    <3>1. /\ r.input = [source |-> top.source, value |-> Known(top.value, spec)]
          /\ r.gaps = SourceGaps(spec, f, top.source) \cup ConflictGaps(spec, f, e)
      BY <2>4, <2>9
    <3>2. IsFiniteSet(r.gaps) /\ \A g \in r.gaps : IsFieldGap(g, f)
      BY <2>6, <2>7, <3>1, FS_Union
    <3>3. /\ Known(top.value, spec) \in Values
          /\ Known(top.value, spec) \in IF spec.class = "secret" THEN ValidRefs
                                        ELSE spec.accepts \cup ValidRefs
      BY <2>1, <2>5, <2>9, ValueGapsAre
    <3>4. r.input \in Supply
      BY <2>5, <3>1, <3>3 DEF Supply
    <3>5. r.gaps = {} => Usable(spec, r.input) /\ ~Conflicting(e)
      BY <2>6, <2>7, <3>1, <3>3 DEF Usable
    <3> QED
      BY <1>2, <3>1, <3>2, <3>4, <3>5 DEF r, e, top, spec
  <2> QED
    BY <2>8, <2>9
<1> QED
  BY <1>1, <1>2

-----------------------------------------------------------------------------
(* The analysis of a candidate.                                             *)

LEMMA AnalysisIs ==
  ASSUME NEW k, NEW draft, NEW request
  PROVE  /\ DOMAIN Analysis(k, draft, request).inputs
              = {f \in DOMAIN k.inputs : Resolved(k, draft, request, f).input # None}
         /\ \A f \in DOMAIN Analysis(k, draft, request).inputs :
              Analysis(k, draft, request).inputs[f] = Resolved(k, draft, request, f).input
         /\ Analysis(k, draft, request).gaps =
              (UNION {Resolved(k, draft, request, f).gaps : f \in DOMAIN k.inputs})
              \cup ContractGaps(k, DOMAIN Analysis(k, draft, request).inputs,
                                RawValues(Analysis(k, draft, request).inputs))
              \cup TermGaps(draft)
<1> DEFINE resolved == [f \in DOMAIN k.inputs |-> Resolved(k, draft, request, f)]
           inputs == Entering(resolved)
<1>0. Analysis(k, draft, request) = AnalysisFrom(k, draft, resolved)
  BY DEF Analysis
<1>1. /\ Analysis(k, draft, request).inputs = inputs
      /\ Analysis(k, draft, request).gaps =
           (UNION {resolved[f].gaps : f \in DOMAIN resolved})
           \cup ContractGaps(k, DOMAIN inputs, RawValues(inputs)) \cup TermGaps(draft)
  <2> HIDE DEF resolved
  <2>1. Analysis(k, draft, request)
          = AnalysisOf(k, draft, UNION {resolved[f].gaps : f \in DOMAIN resolved}, inputs)
    BY <1>0 DEF AnalysisFrom
  <2> HIDE DEF inputs
  <2> QED
    BY <2>1 DEF AnalysisOf
<1>2. /\ DOMAIN inputs = {f \in DOMAIN resolved : resolved[f].input # None}
      /\ \A f \in DOMAIN inputs : inputs[f] = resolved[f].input
  BY DEF Entering
<1>3. DOMAIN resolved = DOMAIN k.inputs
  OBVIOUS
<1>4. \A f \in DOMAIN k.inputs : resolved[f] = Resolved(k, draft, request, f)
  OBVIOUS
<1> HIDE DEF inputs, resolved
<1>5. {resolved[f].gaps : f \in DOMAIN resolved}
        = {Resolved(k, draft, request, f).gaps : f \in DOMAIN k.inputs}
  BY <1>3, <1>4
<1>6. DOMAIN inputs = {f \in DOMAIN k.inputs : Resolved(k, draft, request, f).input # None}
  BY <1>2, <1>3, <1>4
<1>7. \A f \in DOMAIN inputs : inputs[f] = Resolved(k, draft, request, f).input
  BY <1>2, <1>3, <1>4
<1> QED
  BY <1>1, <1>5, <1>6, <1>7

\* The inputs of a candidate: values that somebody supplied, one for each field.
LEMMA AnalysisInputs ==
  ASSUME NEW k, IsContract(k), NEW draft \in DraftType, NEW request \in RequestType
  PROVE  /\ DOMAIN Analysis(k, draft, request).inputs \subseteq DOMAIN k.inputs
         /\ DOMAIN Analysis(k, draft, request).inputs \subseteq Fields
         /\ \A f \in DOMAIN Analysis(k, draft, request).inputs :
              Analysis(k, draft, request).inputs[f] \in Supply
<1>1. DOMAIN Analysis(k, draft, request).inputs \subseteq DOMAIN k.inputs
  BY AnalysisIs
<1>2. DOMAIN k.inputs \subseteq Fields
  BY DEF IsContract
<1>3. ASSUME NEW f \in DOMAIN Analysis(k, draft, request).inputs
      PROVE  Analysis(k, draft, request).inputs[f] \in Supply
  <2>1. f \in DOMAIN k.inputs /\ Resolved(k, draft, request, f).input # None
    BY AnalysisIs
  <2>2. Resolved(k, draft, request, f).input \in Supply
    BY <2>1, ResolvedField
  <2>3. Analysis(k, draft, request).inputs[f] = Resolved(k, draft, request, f).input
    BY AnalysisIs
  <2> QED
    BY <2>2, <2>3
<1> QED
  BY <1>1, <1>2, <1>3

LEMMA RequiredIsDeclared ==
  ASSUME NEW k, IsContract(k), NEW values
  PROVE  Required(k, values) \subseteq DOMAIN k.inputs
<1>1. \A r \in k.requirements : r.require \subseteq DOMAIN k.inputs
  BY DEF IsContract, Requirement
<1> QED
  BY <1>1 DEF Required

\* A gap names inputs of the contract or the terms, and names some if it blocks.
IsGap(g, k) ==
  /\ g.blocking \in BOOLEAN
  /\ g.targets \subseteq DOMAIN k.inputs \cup {"terms"}
  /\ g.blocking => g.targets # {}

\* A finite set that is not empty has a first member in a strict order R.
LEMMA FirstExists ==
  ASSUME NEW T, IsFiniteSet(T), T # {}, NEW R,
         \A u \in T : <<u, u>> \notin R,
         \A u, v, w \in T : <<u, v>> \in R /\ <<v, w>> \in R => <<u, w>> \in R
  PROVE  \E u \in T : \A w \in T : <<w, u>> \notin R
<1> DEFINE Ahead(u) == {w \in T : <<w, u>> \in R}
           Sizes == {Cardinality(Ahead(u)) : u \in T}
<1>1. \A u \in T : IsFiniteSet(Ahead(u)) /\ Cardinality(Ahead(u)) \in Nat
  <2> TAKE u \in T
  <2>1. Ahead(u) \subseteq T
    OBVIOUS
  <2>2. IsFiniteSet(Ahead(u))
    BY <2>1, FS_Subset
  <2> QED
    BY <2>2, FS_CardinalityType
<1>2. Sizes \subseteq Nat /\ Sizes # {}
  <2> HIDE DEF Ahead
  <2>1. PICK u \in T : TRUE
    OBVIOUS
  <2>2. Cardinality(Ahead(u)) \in Sizes
    OBVIOUS
  <2> QED
    BY <1>1, <2>2
<1>3. PICK m \in Sizes : \A n \in Sizes : ~(n < m)
  <2> HIDE DEF Sizes
  <2>1. PICK m \in Sizes : \A n \in Sizes : <<n, m>> \notin OpToRel(<, Nat)
    BY <1>2, NatLessThanWellFounded, WFMin, Zenon
  <2> QED
    BY <1>2, <2>1, Zenon DEF OpToRel
<1>4. PICK u \in T : m = Cardinality(Ahead(u))
  BY <1>3
<1>5. ASSUME NEW w \in T, <<w, u>> \in R PROVE FALSE
  <2>1. Ahead(w) \subseteq Ahead(u)
    BY <1>5
  <2>2. w \in Ahead(u) /\ w \notin Ahead(w)
    BY <1>5
  <2>3. Cardinality(Ahead(w)) < Cardinality(Ahead(u))
    <3>1. Ahead(w) # Ahead(u)
      BY <2>2
    <3>2. /\ IsFiniteSet(Ahead(u)) /\ Ahead(w) \in SUBSET Ahead(u)
          /\ Cardinality(Ahead(u)) \in Nat /\ Cardinality(Ahead(w)) \in Nat
      BY <1>1, <2>1
    <3> HIDE DEF Ahead
    <3>3. /\ Cardinality(Ahead(w)) <= Cardinality(Ahead(u))
          /\ Cardinality(Ahead(w)) = Cardinality(Ahead(u)) => Ahead(w) = Ahead(u)
      BY <3>2, FS_Subset
    <3> QED
      BY <3>1, <3>2, <3>3
  <2>4. Cardinality(Ahead(w)) \in Sizes
    OBVIOUS
  <2> QED
    BY <1>3, <1>4, <2>3, <2>4
<1> QED
  BY <1>5

\* Of constraints that are all violated, no others stand.
LEMMA StandingAre ==
  ASSUME NEW violated
  PROVE  Standing(violated) \subseteq violated
  BY DEF Standing

LEMMA ContractGapsAre ==
  ASSUME NEW k, IsContract(k), NEW known, NEW values
  PROVE  /\ IsFiniteSet(ContractGaps(k, known, values))
         /\ \A g \in ContractGaps(k, known, values) : IsGap(g, k)
<1> DEFINE R == Required(k, values) \ known
           C == Standing({d \in k.constraints : Violated(d, values)})
           missing == [f \in R |-> Gap("missing", "missing", {f}, TRUE, {})]
           broken == [c \in C |-> Gap(c.code, "constraint", c.targets, c.blocking, {})]
<1>1. ContractGaps(k, known, values) = {missing[f] : f \in R} \cup {broken[c] : c \in C}
  BY DEF ContractGaps
<1>2. R \in SUBSET Fields /\ R \subseteq DOMAIN k.inputs
  BY RequiredIsDeclared DEF IsContract
<1>3. C \in SUBSET k.constraints /\ IsFiniteSet(k.constraints)
  BY StandingAre DEF IsContract
<1>4. IsFiniteSet(R)
  <2> HIDE DEF R
  <2> QED
    BY <1>2, AnalysisAssumption, FS_Subset
<1>5. IsFiniteSet(C)
  <2> HIDE DEF C
  <2> QED
    BY <1>3, FS_Subset
<1>6. IsFiniteSet({missing[f] : f \in R})
  <2>1. DOMAIN missing = R
    OBVIOUS
  <2> HIDE DEF missing, R
  <2> QED
    BY <1>4, <2>1, FiniteImage
<1>7. IsFiniteSet({broken[c] : c \in C})
  <2>1. DOMAIN broken = C
    OBVIOUS
  <2> HIDE DEF broken, C
  <2> QED
    BY <1>5, <2>1, FiniteImage
<1>8. \A f \in R : IsGap(missing[f], k)
  BY <1>2 DEF Gap, IsGap
<1>9. \A c \in C : IsGap(broken[c], k)
  <2> SUFFICES ASSUME NEW c \in C PROVE IsGap(broken[c], k)
    OBVIOUS
  <2>1. c \in Constraint(DOMAIN k.inputs) /\ (c.blocking => c.targets # {})
    BY <1>3 DEF IsContract
  <2>2. c.blocking \in BOOLEAN /\ c.targets \subseteq DOMAIN k.inputs
    BY <2>1 DEF Constraint
  <2>3. broken[c].targets = c.targets /\ broken[c].blocking = c.blocking
    BY DEF Gap
  <2> HIDE DEF broken
  <2> QED
    BY <2>1, <2>2, <2>3 DEF IsGap
<1> HIDE DEF R, C, missing, broken
<1>10. IsFiniteSet(ContractGaps(k, known, values))
  BY <1>1, <1>6, <1>7, FS_Union
<1> QED
  BY <1>1, <1>8, <1>9, <1>10

LEMMA AnalysisGaps ==
  ASSUME NEW k, IsContract(k), NEW draft \in DraftType, NEW request \in RequestType
  PROVE  /\ IsFiniteSet(Analysis(k, draft, request).gaps)
         /\ \A g \in Analysis(k, draft, request).gaps : IsGap(g, k)
<1> DEFINE gaps == Analysis(k, draft, request).gaps
           inputs == Analysis(k, draft, request).inputs
           ofField == [f \in DOMAIN k.inputs |-> Resolved(k, draft, request, f).gaps]
           ofFields == {ofField[f] : f \in DOMAIN k.inputs}
           ofContract == ContractGaps(k, DOMAIN inputs, RawValues(inputs))
           ofTerms == TermGaps(draft)
<1>1. gaps = (UNION ofFields) \cup ofContract \cup ofTerms
  <2>1. ofFields = {Resolved(k, draft, request, f).gaps : f \in DOMAIN k.inputs}
    OBVIOUS
  <2> HIDE DEF ofFields
  <2> QED
    BY <2>1, AnalysisIs
<1>2. /\ IsFiniteSet(ofContract)
      /\ \A g \in ofContract : IsGap(g, k)
  BY ContractGapsAre
<1>3. IsFiniteSet(ofTerms) /\ \A g \in ofTerms : IsGap(g, k)
  <2>1. IsGap(Gap("terms", "ambiguous", {"terms"}, TRUE, {}), k)
    BY DEF Gap, IsGap
  <2> QED
    BY <2>1, FS_Singleton, FS_EmptySet DEF TermGaps
<1>4. IsFiniteSet(UNION ofFields)
  <2>1. DOMAIN k.inputs \in SUBSET Fields /\ DOMAIN ofField = DOMAIN k.inputs
    BY DEF IsContract
  <2>2. IsFiniteSet(DOMAIN k.inputs)
    BY <2>1, AnalysisAssumption, FS_Subset
  <2>3. ASSUME NEW f \in DOMAIN k.inputs PROVE IsFiniteSet(ofField[f])
    <3>1. IsFiniteSet(Resolved(k, draft, request, f).gaps)
      BY ResolvedField
    <3> QED
      BY <3>1
  <2> HIDE DEF ofField
  <2>4. IsFiniteSet(ofFields)
    BY <2>1, <2>2, FiniteImage
  <2>5. \A T \in ofFields : IsFiniteSet(T)
    BY <2>3
  <2> HIDE DEF ofFields
  <2> QED
    BY <2>4, <2>5, FS_UNION
<1>5. \A g \in UNION ofFields : IsGap(g, k)
  <2> SUFFICES ASSUME NEW f \in DOMAIN k.inputs, NEW g \in Resolved(k, draft, request, f).gaps
               PROVE  IsGap(g, k)
    OBVIOUS
  <2>1. IsFieldGap(g, f)
    BY ResolvedField
  <2> QED
    BY <2>1 DEF IsFieldGap, IsGap
<1> HIDE DEF ofFields, ofContract, ofTerms, gaps
<1>6. IsFiniteSet((UNION ofFields) \cup ofContract)
  BY <1>2, <1>4, FS_Union
<1>7. IsFiniteSet(gaps)
  BY <1>1, <1>3, <1>6, FS_Union
<1> QED
  BY <1>1, <1>2, <1>3, <1>5, <1>7 DEF gaps

\* d is a later namesake of c, violated too, whose gap stands.
Replaces(d, c, k, values) ==
  /\ d \in Standing({e \in k.constraints : Violated(e, values)})
  /\ Namesakes(c, d) /\ c.place <= d.place

\* Of the gaps of a violated constraint and its namesakes one stands.
LEMMA OneStands ==
  ASSUME NEW k, IsContract(k), NEW values, NEW c \in k.constraints, Violated(c, values)
  PROVE  \E d : Replaces(d, c, k, values)
<1> DEFINE V == {e \in k.constraints : Violated(e, values)}
           T == {e \in V : Namesakes(c, e) /\ c.place <= e.place}
           R == {p \in T \X T : p[1].place > p[2].place}
<1>1. \A e \in T : e \in k.constraints /\ e.place \in Nat
  BY DEF IsContract, Constraint
<1>2. c \in T
  <2>1. c.place \in Nat
    BY DEF IsContract, Constraint
  <2> QED
    BY <2>1 DEF Namesakes
<1>3. IsFiniteSet(T)
  <2>1. T \subseteq k.constraints /\ IsFiniteSet(k.constraints)
    BY DEF IsContract
  <2> HIDE DEF T
  <2> QED
    BY <2>1, FS_Subset
<1>4. \A u, v \in T : <<u, v>> \in R <=> u.place > v.place
  <2> HIDE DEF T
  <2> QED
    OBVIOUS
<1>5. PICK d \in T : \A e \in T : ~(e.place > d.place)
  <2> HIDE DEF T, R
  <2>1. T # {} /\ \A u \in T : u.place \in Nat
    BY <1>1, <1>2
  <2>2. \A u \in T : <<u, u>> \notin R
    BY <1>4, <2>1
  <2>3. \A u, v, w \in T : <<u, v>> \in R /\ <<v, w>> \in R => <<u, w>> \in R
    BY <1>4, <2>1
  <2>4. \E u \in T : \A w \in T : <<w, u>> \notin R
    BY <1>3, <2>1, <2>2, <2>3, FirstExists
  <2> QED
    BY <1>4, <2>4
<1>6. ASSUME NEW e \in V, Namesakes(d, e) PROVE e.place <= d.place
  <2>1. e.place \in Nat /\ d.place \in Nat /\ c.place \in Nat
    BY <1>1, <1>2, <1>5 DEF IsContract, Constraint
  <2>2. CASE c.place <= e.place
    <3>1. Namesakes(c, e)
      BY <1>5, <1>6 DEF Namesakes
    <3>2. e \in T
      BY <2>2, <3>1
    <3> HIDE DEF T
    <3> QED
      BY <1>5, <2>1, <3>2
  <2>3. CASE e.place < c.place
    BY <1>5, <2>1, <2>3
  <2> QED
    BY <2>1, <2>2, <2>3
<1>7. d \in Standing(V)
  <2>1. d \in V
    BY <1>5
  <2> HIDE DEF V, T
  <2> QED
    BY <1>6, <2>1 DEF Standing
<1>8. Namesakes(c, d) /\ c.place <= d.place
  BY <1>5
<1> QED
  BY <1>7, <1>8 DEF Replaces

\* A candidate without blocking gaps: its inputs are usable and unanimous, what is
\* required is there, and what stands for a violated constraint does not block.
LEMMA ReadyAnalysis ==
  ASSUME NEW k, IsContract(k), NEW draft \in DraftType, NEW request \in RequestType,
         IsReady(Analysis(k, draft, request).gaps)
  PROVE  /\ \A f \in DOMAIN Analysis(k, draft, request).inputs :
              /\ Usable(k.inputs[f], Analysis(k, draft, request).inputs[f])
              /\ ~Conflicting(Effective(Supplied(k, draft, request, f)))
         /\ Required(k, RawValues(Analysis(k, draft, request).inputs))
              \subseteq DOMAIN Analysis(k, draft, request).inputs
         /\ \A c \in k.constraints :
              LET values == RawValues(Analysis(k, draft, request).inputs)
              IN  Violated(c, values) =>
                    \E d \in k.constraints :
                      Replaces(d, c, k, values) /\ Violated(d, values) /\ ~d.blocking
<1> DEFINE gaps == Analysis(k, draft, request).gaps
           inputs == Analysis(k, draft, request).inputs
           values == RawValues(inputs)
<1>1. \A g \in gaps : g.blocking # TRUE
  BY DEF IsReady, Blocking
<1>2. \A f \in DOMAIN k.inputs : Resolved(k, draft, request, f).gaps \subseteq gaps
  BY AnalysisIs
<1>3. ContractGaps(k, DOMAIN inputs, values) \subseteq gaps
  BY AnalysisIs
<1>4. \A f \in DOMAIN k.inputs : Resolved(k, draft, request, f).gaps = {}
  <2> SUFFICES ASSUME NEW f \in DOMAIN k.inputs, NEW g \in Resolved(k, draft, request, f).gaps
               PROVE  FALSE
    OBVIOUS
  <2>1. IsFieldGap(g, f)
    BY ResolvedField
  <2>2. g \in gaps
    BY <1>2
  <2> QED
    BY <1>1, <2>1, <2>2 DEF IsFieldGap
<1>5. ASSUME NEW f \in DOMAIN inputs
      PROVE  Usable(k.inputs[f], inputs[f]) /\ ~Conflicting(Effective(Supplied(k, draft, request, f)))
  <2>1. /\ f \in DOMAIN k.inputs /\ Resolved(k, draft, request, f).input # None
        /\ inputs[f] = Resolved(k, draft, request, f).input
    BY AnalysisIs
  <2>2. Resolved(k, draft, request, f).gaps = {}
    BY <1>4, <2>1
  <2>3. /\ Usable(k.inputs[f], Resolved(k, draft, request, f).input)
        /\ ~Conflicting(Effective(Supplied(k, draft, request, f)))
    BY <2>1, <2>2, ResolvedField
  <2> HIDE DEF inputs
  <2> QED
    BY <2>1, <2>3
<1> HIDE DEF gaps, inputs, values
<1>6. Required(k, values) \subseteq DOMAIN inputs
  <2> SUFFICES ASSUME NEW f \in Required(k, values), f \notin DOMAIN inputs PROVE FALSE
    OBVIOUS
  <2>1. Gap("missing", "missing", {f}, TRUE, {}) \in gaps
    BY <1>3 DEF ContractGaps
  <2> QED
    BY <1>1, <2>1 DEF Gap
<1>7. ASSUME NEW c \in k.constraints, Violated(c, values)
      PROVE  \E d \in k.constraints : Replaces(d, c, k, values) /\ Violated(d, values) /\ ~d.blocking
  <2>1. PICK d : Replaces(d, c, k, values)
    BY <1>7, OneStands
  <2>2. d \in Standing({e \in k.constraints : Violated(e, values)})
    BY <2>1 DEF Replaces
  <2>3. d \in k.constraints /\ Violated(d, values)
    BY <2>2, StandingAre
  <2>4. Gap(d.code, "constraint", d.targets, d.blocking, {}) \in gaps
    BY <1>3, <2>2 DEF ContractGaps
  <2>5. d.blocking \in BOOLEAN
    BY <2>3 DEF IsContract, Constraint
  <2> QED
    BY <1>1, <2>1, <2>3, <2>4, <2>5 DEF Gap
<1> QED
  BY <1>5, <1>6, <1>7 DEF inputs, values

-----------------------------------------------------------------------------
(* The invariant.                                                           *)

\* Judged for a contract that need not be in the current catalog.
JudgedOf(k, id, a) ==
  IF IsReady(a.gaps) THEN Result("ready", id, a.inputs, a.gaps, {})
  ELSE Result(IF \E g \in Blocking(a.gaps) : g.kind = "conflicting"
              THEN "conflicting" ELSE "needs_clarification",
              id, a.inputs, a.gaps, Planned(k, a.gaps))

\* The result is what the pipeline makes of some draft for one of the contracts.
IsJudged(result, cat, request) ==
  \E id \in DOMAIN cat : \E d \in DraftType :
    result = JudgedOf(cat[id], id, Analysis(cat[id], d, request))

IsAmbiguous(result, cat) ==
  \E ids \in SUBSET DOMAIN cat : Cardinality(ids) > 1 /\ result = Ambiguous(ids)

IsUnsupported(result) == result = Result("unsupported", None, <<>>, {}, {})

Explained(result, cat, request) ==
  IsJudged(result, cat, request) \/ IsAmbiguous(result, cat) \/ IsUnsupported(result)

\* The static provider, or a model told to, keeps to the requested capability.
Forces(result, request) ==
  (Static /\ request.requested # None) =>
    result.selected = request.requested \/ result.status = "unsupported"

\* Between two calls: the stored result follows from the stored request and the
\* catalog it was computed with, and the last of the answers to an input is the one
\* last said.
Stored ==
  /\ session.request \in RequestType
  /\ session.catalog \in Catalogs
  /\ Explained(session.result, session.catalog, session.request)
  /\ session.revision \in -1 .. MaxRevision
  /\ session.revision = -1 =>
       IsUnsupported(session.result) /\ session.request.answers = Empty.answers
  /\ session.revision >= 0 => Forces(session.result, session.request)

\* The answers about an input end with the one last said.
Remembers(answers, last) ==
  IF last = None THEN answers = <<>> ELSE answers # <<>> /\ answers[Len(answers)] = last

Memory == \A f \in Fields : Remembers(session.request.answers[f], said[f])

Counters ==
  /\ mistakes \in 0 .. MaxMistakes
  /\ changes \in 0 .. MaxChanges
  /\ restarts \in 0 .. MaxRestarts

Inv ==
  /\ catalog \in Catalogs
  /\ said \in [Fields -> MaybeValue]
  /\ Stored
  /\ Memory
  /\ Counters

-----------------------------------------------------------------------------
(* What a result can be.                                                    *)

LEMMA CatalogOf ==
  ASSUME NEW cat \in Catalogs, NEW id \in DOMAIN cat
  PROVE  id \in Ids /\ id # None /\ IsContract(cat[id])
  BY DialogueAssumption

LEMMA NothingIsDraft == Nothing \in [Fields -> MaybeLiteral]
  BY DEF Nothing, MaybeLiteral

LEMMA DraftsAre ==
  ASSUME NEW request, NEW drafts \in Drafts(request)
  PROVE  /\ DOMAIN drafts \subseteq DOMAIN catalog
         /\ \A id \in DOMAIN drafts : drafts[id] \in DraftType
         /\ Static /\ request.requested # None => DOMAIN drafts \subseteq {request.requested}
<1> DEFINE matches == IF Static /\ request.requested # None
                      THEN {DOMAIN catalog \cap {request.requested}} ELSE SUBSET DOMAIN catalog
           all == IF Static THEN {Draft(Nothing, FALSE)}
                  ELSE [inputs : Inferences, unresolved : BOOLEAN]
<1>1. all \subseteq DraftType
  <2>1. Inferences \subseteq [Fields -> MaybeLiteral]
    BY DialogueAssumption DEF MaybeLiteral
  <2>2. CASE Static
    BY <2>2, NothingIsDraft DEF Draft, DraftType
  <2>3. CASE ~Static
    BY <2>1, <2>3 DEF DraftType
  <2> QED
    BY <2>2, <2>3
<1>2. Drafts(request) = UNION {[m -> all] : m \in matches}
  BY Zenon DEF Drafts
<1>3. PICK m \in matches : drafts \in [m -> all]
  <2> HIDE DEF matches, all
  <2> QED
    BY <1>2
<1>4. /\ m \subseteq DOMAIN catalog
      /\ Static /\ request.requested # None => m \subseteq {request.requested}
  OBVIOUS
<1> HIDE DEF matches, all
<1>5. DOMAIN drafts = m /\ \A id \in m : drafts[id] \in all
  BY <1>3
<1> QED
  BY <1>1, <1>4, <1>5

\* A set with two different members has more than one.
LEMMA SeveralAreCounted ==
  ASSUME NEW S, IsFiniteSet(S), NEW x \in S, NEW y \in S, x # y
  PROVE  Cardinality(S) > 1
<1>1. {x, y} \subseteq S
  OBVIOUS
<1>2. /\ IsFiniteSet({x}) /\ Cardinality({x}) = 1
  BY FS_Singleton
<1>3. y \notin {x}
  OBVIOUS
<1>4. IsFiniteSet({x} \cup {y}) /\ Cardinality({x} \cup {y}) = Cardinality({x}) + 1
  BY <1>2, <1>3, FS_AddElement
<1>5. {x} \cup {y} \subseteq S
  OBVIOUS
<1>6. Cardinality({x} \cup {y}) <= Cardinality(S)
  BY <1>4, <1>5, FS_Subset
<1>7. Cardinality(S) \in Nat
  BY FS_CardinalityType
<1> QED
  BY <1>2, <1>4, <1>6, <1>7

LEMMA SmallSet ==
  ASSUME NEW S, NEW x, S \subseteq {x}
  PROVE  ~(Cardinality(S) > 1)
<1>1. CASE S = {}
  BY <1>1, FS_EmptySet
<1>2. CASE S = {x}
  BY <1>2, FS_Singleton
<1> QED
  BY <1>1, <1>2

LEMMA OutcomesAre ==
  ASSUME NEW request, NEW result \in Outcomes(request)
  PROVE  Explained(result, catalog, request) /\ Forces(result, request)
<1>1. PICK drafts \in Drafts(request) : result \in Compiled(request, drafts)
  BY DEF Outcomes
<1>2. /\ DOMAIN drafts \subseteq DOMAIN catalog
      /\ \A id \in DOMAIN drafts : drafts[id] \in DraftType
      /\ Static /\ request.requested # None => DOMAIN drafts \subseteq {request.requested}
  BY DraftsAre
<1>3. \/ \E id \in Selectable(DOMAIN drafts) :
           result = Judged(id, Analysis(catalog[id], drafts[id], request))
      \/ Cardinality(DOMAIN drafts) > 1 /\ result = Ambiguous(DOMAIN drafts)
      \/ result = Result("unsupported", None, <<>>, {}, {})
  BY <1>1 DEF Compiled
<1>4. ASSUME NEW id \in Selectable(DOMAIN drafts),
             result = Judged(id, Analysis(catalog[id], drafts[id], request))
      PROVE  Explained(result, catalog, request) /\ Forces(result, request)
  <2>1. id \in DOMAIN drafts
    BY DEF Selectable
  <2>2. result = JudgedOf(catalog[id], id, Analysis(catalog[id], drafts[id], request))
    BY <1>4 DEF Judged, JudgedOf
  <2>3. IsJudged(result, catalog, request)
    BY <1>2, <2>1, <2>2 DEF IsJudged
  <2>4. result.selected = id
    BY <2>2 DEF JudgedOf, Result
  <2> QED
    BY <1>2, <2>1, <2>3, <2>4 DEF Explained, Forces
<1>5. ASSUME Cardinality(DOMAIN drafts) > 1, result = Ambiguous(DOMAIN drafts)
      PROVE  Explained(result, catalog, request) /\ Forces(result, request)
  <2>1. ~(Static /\ request.requested # None)
    BY <1>2, <1>5, SmallSet
  <2>2. IsAmbiguous(result, catalog)
    BY <1>2, <1>5 DEF IsAmbiguous
  <2> QED
    BY <2>1, <2>2 DEF Explained, Forces
<1>6. ASSUME result = Result("unsupported", None, <<>>, {}, {})
      PROVE  Explained(result, catalog, request) /\ Forces(result, request)
  BY <1>6 DEF Explained, IsUnsupported, Forces, Result
<1> QED
  BY <1>3, <1>4, <1>5, <1>6

LEMMA PlannedAsks ==
  ASSUME NEW k, NEW gaps, \A g \in gaps : IsGap(g, k), NEW q \in Planned(k, gaps)
  PROVE  q.target \in DOMAIN k.inputs \cup {"terms"}
<1> DEFINE targets == UNION {g.targets : g \in Blocking(gaps)}
           T == {u \in targets :
                   Cardinality({w \in targets \ {u} : Before(k, gaps, w, u)}) < MaxQuestions}
<1>0. Planned(k, gaps) = {[target |-> t, choices |-> Choices(k, gaps, t)] : t \in T}
  BY DEF Planned, PlannedFor
<1>1. q.target \in targets
  <2>1. T \subseteq targets
    OBVIOUS
  <2> HIDE DEF T, targets
  <2> QED
    BY <1>0, <2>1
<1> QED
  BY <1>1 DEF Blocking, IsGap

LEMMA JudgedIs ==
  ASSUME NEW cat \in Catalogs, NEW id \in DOMAIN cat, NEW d \in DraftType,
         NEW request \in RequestType, NEW result,
         result = JudgedOf(cat[id], id, Analysis(cat[id], d, request))
  PROVE  /\ result.status \in Statuses \ {"ambiguous", "unsupported"}
         /\ result.status = "ready" <=> IsReady(Analysis(cat[id], d, request).gaps)
         /\ result.selected = id
         /\ result.inputs = Analysis(cat[id], d, request).inputs
         /\ result.gaps = Analysis(cat[id], d, request).gaps
         /\ result.questions = IF IsReady(Analysis(cat[id], d, request).gaps) THEN {}
                               ELSE Planned(cat[id], Analysis(cat[id], d, request).gaps)
<1> DEFINE a == Analysis(cat[id], d, request)
           blocked == IF \E g \in Blocking(a.gaps) : g.kind = "conflicting"
                      THEN "conflicting" ELSE "needs_clarification"
<1>1. CASE IsReady(a.gaps)
  <2>1. result = Result("ready", id, a.inputs, a.gaps, {})
    BY <1>1 DEF JudgedOf
  <2> HIDE DEF a
  <2> QED
    BY <1>1, <2>1 DEF Result, Statuses, a
<1>2. CASE ~IsReady(a.gaps)
  <2>1. result = Result(blocked, id, a.inputs, a.gaps, Planned(cat[id], a.gaps))
    BY <1>2 DEF JudgedOf
  <2>2. blocked \in {"conflicting", "needs_clarification"}
    OBVIOUS
  <2> HIDE DEF a, blocked
  <2>3. /\ result.status = blocked /\ result.selected = id /\ result.inputs = a.inputs
        /\ result.gaps = a.gaps /\ result.questions = Planned(cat[id], a.gaps)
    BY <2>1 DEF Result
  <2> QED
    BY <1>2, <2>2, <2>3 DEF Statuses, a
<1> QED
  BY <1>1, <1>2

LEMMA ResultIs ==
  ASSUME NEW cat \in Catalogs, NEW request \in RequestType, NEW result,
         Explained(result, cat, request)
  PROVE  /\ result.status \in Statuses
         /\ result.selected \in Ids \cup {None}
         /\ result.selected = None <=> result.status \in {"ambiguous", "unsupported"}
         /\ DOMAIN result.inputs \subseteq Fields
         /\ \A f \in DOMAIN result.inputs : result.inputs[f] \in Supply
         /\ \A q \in result.questions : q.target \in Fields \cup {"terms", "capability"}
<1>1. CASE IsJudged(result, cat, request)
  <2>1. PICK id \in DOMAIN cat, d \in DraftType :
          result = JudgedOf(cat[id], id, Analysis(cat[id], d, request))
    BY <1>1 DEF IsJudged
  <2>2. id \in Ids /\ id # None /\ IsContract(cat[id])
    BY CatalogOf
  <2>3. /\ result.status \in Statuses \ {"ambiguous", "unsupported"} /\ result.selected = id
        /\ result.inputs = Analysis(cat[id], d, request).inputs
        /\ result.questions = IF IsReady(Analysis(cat[id], d, request).gaps) THEN {}
                              ELSE Planned(cat[id], Analysis(cat[id], d, request).gaps)
    BY <2>1, JudgedIs
  <2>4. /\ DOMAIN Analysis(cat[id], d, request).inputs \subseteq Fields
        /\ \A f \in DOMAIN Analysis(cat[id], d, request).inputs :
             Analysis(cat[id], d, request).inputs[f] \in Supply
    BY <2>2, AnalysisInputs
  <2>5. \A q \in Planned(cat[id], Analysis(cat[id], d, request).gaps) :
          q.target \in DOMAIN cat[id].inputs \cup {"terms"}
    <3>1. \A g \in Analysis(cat[id], d, request).gaps : IsGap(g, cat[id])
      BY <2>2, AnalysisGaps
    <3> QED
      BY <3>1, PlannedAsks
  <2>6. DOMAIN cat[id].inputs \subseteq Fields
    BY <2>2 DEF IsContract
  <2> QED
    BY <2>2, <2>3, <2>4, <2>5, <2>6
<1>2. CASE IsAmbiguous(result, cat)
  <2>1. PICK ids : result = Ambiguous(ids)
    BY <1>2 DEF IsAmbiguous
  <2> QED
    BY <2>1 DEF Ambiguous, Result, Statuses
<1>3. CASE IsUnsupported(result)
  BY <1>3 DEF IsUnsupported, Result, Statuses
<1> QED
  BY <1>1, <1>2, <1>3 DEF Explained

-----------------------------------------------------------------------------
(* Answers.                                                                 *)

LEMMA AskedAre ==
  ASSUME Inv
  PROVE  /\ Asked \subseteq Fields \cup {"terms", "capability"}
         /\ IsFiniteSet(Asked)
         /\ \A t \in Asked : QuestionAbout(t) \in session.result.questions
                             /\ QuestionAbout(t).target = t
<1>1. \A q \in session.result.questions : q.target \in Fields \cup {"terms", "capability"}
  BY ResultIs DEF Inv, Stored
<1>2. Asked \subseteq Fields \cup {"terms", "capability"}
  BY <1>1 DEF Asked
<1>3. IsFiniteSet({"terms", "capability"})
  <2>1. IsFiniteSet({"terms"})
    BY FS_Singleton
  <2>2. IsFiniteSet({"terms"} \cup {"capability"})
    BY <2>1, FS_AddElement
  <2>3. {"terms"} \cup {"capability"} = {"terms", "capability"}
    OBVIOUS
  <2> QED
    BY <2>2, <2>3
<1>4. IsFiniteSet(Fields \cup {"terms", "capability"})
  BY <1>3, AnalysisAssumption, FS_Union
<1>5. IsFiniteSet(Asked)
  BY <1>2, <1>4, FS_Subset
<1>6. ASSUME NEW t \in Asked
      PROVE  QuestionAbout(t) \in session.result.questions /\ QuestionAbout(t).target = t
  <2>1. \E q \in session.result.questions : q.target = t
    BY DEF Asked
  <2> QED
    BY <2>1 DEF QuestionAbout
<1> QED
  BY <1>2, <1>5, <1>6

\* What an accepted batch says, by what was asked.
LEMMA BatchIs ==
  ASSUME Inv, NEW batch \in Batches
  PROVE  /\ DOMAIN batch \subseteq Asked
         /\ \A f \in DOMAIN batch \cap Fields : batch[f] \in Values
         /\ "capability" \in DOMAIN batch => batch["capability"] \in Ids
         /\ "terms" \in DOMAIN batch => batch["terms"] \in TextAnswers
<1>1. PICK ts \in SUBSET Asked :
        /\ batch \in [ts -> UNION {Admissible(QuestionAbout(t)) : t \in ts}]
        /\ \A t \in ts : batch[t] \in Admissible(QuestionAbout(t))
  BY DEF Batches
<1>2. DOMAIN batch = ts
  BY <1>1
<1>3. ASSUME NEW f \in DOMAIN batch \cap Fields PROVE batch[f] \in Values
  <2> DEFINE q == QuestionAbout(f)
             id == session.result.selected
  <2>1. batch[f] \in Admissible(q) /\ q.target = f
    BY <1>1, <1>2, AskedAre
  <2>2. f # "capability" /\ f # "terms"
    BY AnalysisAssumption, DialogueAssumption
  <2>3. id \in DOMAIN catalog /\ f \in DOMAIN catalog[id].inputs
    BY <2>1, <2>2 DEF Admissible
  <2>4. batch[f] \in Refs \cup Literals \cup catalog[id].inputs[f].typed
    BY <2>1, <2>2, <2>3 DEF Admissible
  <2>5. IsContract(catalog[id])
    BY <2>3, CatalogOf DEF Inv
  <2>6. catalog[id].inputs[f] \in InputSpec
    BY <2>3, <2>5 DEF IsContract
  <2>7. catalog[id].inputs[f].typed \subseteq Literals
    BY <2>6 DEF InputSpec
  <2> QED
    BY <2>4, <2>7 DEF Values
<1>4. ASSUME "capability" \in DOMAIN batch PROVE batch["capability"] \in Ids
  <2>1. batch["capability"] \in Admissible(QuestionAbout("capability"))
        /\ QuestionAbout("capability").target = "capability"
    BY <1>1, <1>2, <1>4, AskedAre
  <2>2. batch["capability"] \in DOMAIN catalog
    BY <2>1 DEF Admissible
  <2> QED
    BY <2>2, CatalogOf DEF Inv
<1>5. ASSUME "terms" \in DOMAIN batch PROVE batch["terms"] \in TextAnswers
  <2>1. batch["terms"] \in Admissible(QuestionAbout("terms")) /\ QuestionAbout("terms").target = "terms"
    BY <1>1, <1>2, <1>5, AskedAre
  <2> QED
    BY <2>1 DEF Admissible
<1> QED
  BY <1>1, <1>2, <1>3, <1>4, <1>5

LEMMA ErrorsAreCounted ==
  ASSUME Inv, NEW batch \in Batches
  PROVE  Cardinality(Errors(batch)) \in Nat
<1>1. Errors(batch) \subseteq Asked
  BY BatchIs DEF Errors
<1>2. IsFiniteSet(Errors(batch))
  BY <1>1, AskedAre, FS_Subset
<1> QED
  BY <1>2, FS_CardinalityType

LEMMA LastOfAppended ==
  ASSUME NEW S, NEW s \in Seq(S), NEW v \in S
  PROVE  /\ Append(s, v) \in Seq(S) /\ Append(s, v) # <<>>
         /\ Append(s, v)[Len(Append(s, v))] = v
         /\ <<v>> \in Seq(S) /\ <<v>> # <<>> /\ <<v>>[Len(<<v>>)] = v
  OBVIOUS

\* Merging keeps the request's type, and each answer comes last.
LEMMA MergedIs ==
  ASSUME Inv, NEW batch \in Batches
  PROVE  /\ Merged(batch) \in RequestType
         /\ \A f \in Fields :
              Remembers(Merged(batch).answers[f], IF f \in DOMAIN batch THEN batch[f] ELSE said[f])
<1> DEFINE request == session.request
           answers == [f \in Fields |->
                         IF f \notin DOMAIN batch THEN request.answers[f]
                         ELSE IF Resolving(f) THEN <<batch[f]>> ELSE Append(request.answers[f], batch[f])]
           requested == IF "capability" \in DOMAIN batch THEN batch["capability"] ELSE request.requested
           text == IF "terms" \in DOMAIN batch THEN Clarified(request.text, Assigns[batch["terms"]])
                   ELSE request.text
<1>1. request \in RequestType
  BY DEF Inv, Stored
<1>2. ASSUME NEW f \in Fields
      PROVE  /\ answers[f] \in Seq(Values)
             /\ Remembers(answers[f], IF f \in DOMAIN batch THEN batch[f] ELSE said[f])
  <2>1. request.answers[f] \in Seq(Values)
    BY <1>1 DEF RequestType
  <2>2. CASE f \notin DOMAIN batch
    BY <2>1, <2>2 DEF Inv, Memory
  <2>3. CASE f \in DOMAIN batch
    <3>1. batch[f] \in Values /\ batch[f] # None
      BY <2>3, BatchIs, AnalysisAssumption DEF Values
    <3>2. answers[f] \in {<<batch[f]>>, Append(request.answers[f], batch[f])}
      BY <2>3
    <3> HIDE DEF answers, request
    <3>3. answers[f] \in Seq(Values) /\ answers[f] # <<>> /\ answers[f][Len(answers[f])] = batch[f]
      <4>1. /\ Append(request.answers[f], batch[f]) \in Seq(Values)
            /\ Append(request.answers[f], batch[f]) # <<>>
            /\ Append(request.answers[f], batch[f])[Len(Append(request.answers[f], batch[f]))]
                 = batch[f]
            /\ <<batch[f]>> \in Seq(Values) /\ <<batch[f]>> # <<>>
            /\ <<batch[f]>>[Len(<<batch[f]>>)] = batch[f]
        BY <2>1, <3>1, LastOfAppended
      <4>2. CASE answers[f] = <<batch[f]>>
        BY <4>1, <4>2
      <4>3. CASE answers[f] = Append(request.answers[f], batch[f])
        BY <4>1, <4>3
      <4> QED
        BY <3>2, <4>2, <4>3
    <3> QED
      BY <2>3, <3>1, <3>3 DEF Remembers
  <2> QED
    BY <2>2, <2>3
<1>3. requested \in Ids \cup {None}
  BY <1>1, BatchIs DEF RequestType
<1>4. text \in [Fields -> MaybeLiteral]
  <2>1. request.text \in [Fields -> MaybeLiteral]
    BY <1>1 DEF RequestType
  <2>2. ASSUME "terms" \in DOMAIN batch
        PROVE  Clarified(request.text, Assigns[batch["terms"]]) \in [Fields -> MaybeLiteral]
    <3>1. Assigns[batch["terms"]] \in [Fields -> MaybeLiteral]
      BY <2>2, BatchIs, DialogueAssumption DEF MaybeLiteral
    <3> QED
      BY <2>1, <3>1 DEF Clarified
  <2> QED
    BY <2>1, <2>2
<1>5. Merged(batch) = [request EXCEPT !.answers = answers, !.requested = requested, !.text = text]
  BY DEF Merged
<1>6. answers \in [Fields -> Seq(Values)]
  BY <1>2
<1> HIDE DEF answers, requested, text, request
<1>7. Merged(batch) \in RequestType /\ Merged(batch).answers = answers
  BY <1>1, <1>3, <1>4, <1>5, <1>6 DEF RequestType
<1> QED
  BY <1>2, <1>7

-----------------------------------------------------------------------------
(* The invariant is inductive.                                              *)

LEMMA EmptyIsRequest ==
  Empty \in RequestType /\ Empty.answers = [f \in Fields |-> <<>>]
<1>1. Nothing \in [Fields -> MaybeLiteral] /\ Nothing \in [Fields -> MaybeValue]
  BY DEF Nothing, MaybeLiteral, MaybeValue
<1>2. [f \in Fields |-> <<>>] \in [Fields -> Seq(Values)]
  OBVIOUS
<1> QED
  BY <1>1, <1>2 DEF Empty, RequestType

LEMMA InitInv == Init => Inv
<1> SUFFICES ASSUME Init PROVE Inv
  OBVIOUS
<1>1. Nothing \in [Fields -> MaybeValue]
  BY DEF Nothing, MaybeValue
<1>2. Empty \in RequestType /\ Empty.answers = [f \in Fields |-> <<>>]
  BY EmptyIsRequest
<1>3. /\ session.revision = -1 /\ session.request = Empty /\ session.catalog = catalog
      /\ session.result = Result("unsupported", None, <<>>, {}, {})
  BY DEF Init
<1>4. Stored
  <2>1. -1 \in -1 .. MaxRevision /\ ~(-1 >= 0)
    BY DialogueAssumption
  <2> QED
    BY <1>2, <1>3, <2>1 DEF Init, Stored, Explained, IsUnsupported
<1>5. Memory
  BY <1>2, <1>3 DEF Init, Memory, Remembers, Nothing
<1>6. Counters
  BY DialogueAssumption DEF Init, Counters
<1> QED
  BY <1>1, <1>4, <1>5, <1>6 DEF Init, Inv

\* A stored result is explained by the request and the catalog it is stored with.
LEMMA Storing ==
  ASSUME Inv, NEW revision \in 0 .. MaxRevision, NEW request \in RequestType,
         Store(revision, request), catalog' = catalog
  PROVE  /\ Stored'
         /\ session'.revision = revision /\ session'.request = request
         /\ session'.catalog = catalog /\ session'.result \in Outcomes(request)
<1>1. PICK result \in Outcomes(request) :
        session' = [revision |-> revision, request |-> request, catalog |-> catalog, result |-> result]
  BY DEF Store
<1>2. /\ session'.revision = revision /\ session'.request = request
      /\ session'.catalog = catalog /\ session'.result = result
  BY <1>1
<1>3. Explained(result, catalog, request) /\ Forces(result, request)
  BY OutcomesAre
<1>4. revision \in -1 .. MaxRevision /\ revision # -1
  BY DialogueAssumption
<1> QED
  BY <1>2, <1>3, <1>4 DEF Inv, Stored

LEMMA CompileInv == Inv /\ Compile => Inv'
<1> SUFFICES ASSUME Inv, Compile PROVE Inv'
  OBVIOUS
<1>1. PICK c \in Contexts, id \in Forced :
        Store(0, [Empty EXCEPT !.context = c.context, !.text = c.text, !.requested = id])
  BY DEF Compile
<1> DEFINE request == [Empty EXCEPT !.context = c.context, !.text = c.text, !.requested = id]
<1>2. /\ c.context \in [Fields -> MaybeValue] /\ c.text \in [Fields -> MaybeLiteral]
      /\ id \in Ids \cup {None}
  BY DialogueAssumption DEF MaybeValue, MaybeLiteral, Values
<1>3. request \in RequestType /\ request.answers = Empty.answers
  BY <1>2, EmptyIsRequest DEF RequestType
<1>4. 0 \in 0 .. MaxRevision /\ catalog' = catalog /\ said' = said
  BY DialogueAssumption DEF Compile
<1>5. Stored' /\ session'.request = request
  <2> HIDE DEF request
  <2> QED
    BY <1>1, <1>3, <1>4, Storing DEF request
<1>6. Memory'
  <2>1. session.request.answers = Empty.answers
    BY DEF Inv, Stored, Compile
  <2>2. session'.request.answers = session.request.answers
    BY <1>3, <1>5, <2>1
  <2> QED
    BY <1>4, <2>2 DEF Inv, Memory
<1>7. Counters' /\ catalog' \in Catalogs /\ said' \in [Fields -> MaybeValue]
  BY <1>4 DEF Compile, Inv, Counters
<1> QED
  BY <1>5, <1>6, <1>7 DEF Inv

LEMMA ContinueInv ==
  ASSUME Inv, NEW batch \in Batches, Continue(batch)
  PROVE  Inv'
<1>1. /\ Store(session.revision + 1, Merged(batch)) /\ catalog' = catalog
      /\ said' = [f \in Fields |-> IF f \in DOMAIN batch THEN batch[f] ELSE said[f]]
      /\ session.revision \in 0 .. MaxRevision - 1
  BY DEF Continue
<1>2. session.revision + 1 \in 0 .. MaxRevision
  BY <1>1, DialogueAssumption
<1>3. /\ Merged(batch) \in RequestType
      /\ \A f \in Fields :
           Remembers(Merged(batch).answers[f], IF f \in DOMAIN batch THEN batch[f] ELSE said[f])
  BY MergedIs
<1>4. Stored' /\ session'.request = Merged(batch)
  BY <1>1, <1>2, <1>3, Storing
<1>5. Memory'
  BY <1>1, <1>3, <1>4 DEF Memory
<1>6. said' \in [Fields -> MaybeValue]
  <2>1. \A f \in Fields : f \in DOMAIN batch => batch[f] \in Values
    BY BatchIs
  <2> QED
    BY <1>1, <2>1 DEF Inv, MaybeValue
<1>7. Counters'
  <2>1. Cardinality(Errors(batch)) \in Nat
    BY ErrorsAreCounted
  <2>2. mistakes + Cardinality(Errors(batch)) <= MaxMistakes
        /\ mistakes' = mistakes + Cardinality(Errors(batch))
        /\ changes' = changes /\ restarts' = restarts
    BY DEF Continue
  <2>3. MaxMistakes \in Nat /\ mistakes \in 0 .. MaxMistakes
    BY DialogueAssumption DEF Inv, Counters
  <2>4. mistakes' \in 0 .. MaxMistakes
    <3> HIDE DEF Errors
    <3> QED
      BY <2>1, <2>2, <2>3
  <2> QED
    BY <2>2, <2>4 DEF Inv, Counters
<1> QED
  BY <1>1, <1>4, <1>5, <1>6, <1>7 DEF Inv

LEMMA RestartInv == Inv /\ Restart => Inv'
<1> SUFFICES ASSUME Inv, Restart PROVE Inv'
  OBVIOUS
<1> DEFINE answers == [f \in Fields |-> IF f \in Declared THEN session.request.answers[f] ELSE <<>>]
           requested == IF session.request.requested \in DOMAIN catalog
                        THEN session.request.requested ELSE None
           request == [session.request EXCEPT !.answers = answers, !.requested = requested]
<1>1. /\ Store(0, request) /\ catalog' = catalog
      /\ said' = [f \in Fields |-> IF f \in Declared THEN said[f] ELSE None]
  BY DEF Restart
<1>2. session.request \in RequestType
  BY DEF Inv, Stored
<1>3. answers \in [Fields -> Seq(Values)] /\ requested \in Ids \cup {None}
  BY <1>2 DEF RequestType
<1>4. request \in RequestType /\ request.answers = answers
  <2> HIDE DEF answers, requested
  <2> QED
    BY <1>2, <1>3 DEF RequestType
<1>5. 0 \in 0 .. MaxRevision
  BY DialogueAssumption
<1>6. Stored' /\ session'.request = request
  <2> HIDE DEF request
  <2> QED
    BY <1>1, <1>4, <1>5, Storing
<1>7. Memory'
  <2>1. \A f \in Fields : Remembers(answers[f], IF f \in Declared THEN said[f] ELSE None)
    BY DEF Inv, Memory, Remembers
  <2> HIDE DEF answers, request
  <2> QED
    BY <1>1, <1>4, <1>6, <2>1 DEF Memory
<1>8. said' \in [Fields -> MaybeValue]
  BY <1>1 DEF Inv, MaybeValue
<1>9. Counters'
  BY DialogueAssumption DEF Restart, Inv, Counters
<1> QED
  BY <1>1, <1>6, <1>7, <1>8, <1>9 DEF Inv

LEMMA StepInv == Inv /\ [Next]_vars => Inv'
<1> SUFFICES ASSUME Inv, [Next]_vars PROVE Inv'
  OBVIOUS
<1>1. CASE Compile
  BY <1>1, CompileInv
<1>2. CASE Answering
  BY <1>2, ContinueInv DEF Answering
<1>3. CASE Restart
  BY <1>3, RestartInv
<1>4. CASE ChangeCatalog
  <2>1. Counters' /\ catalog' \in Catalogs
    BY <1>4, DialogueAssumption DEF ChangeCatalog, Inv, Counters
  <2>2. session' = session /\ said' = said
    BY <1>4 DEF ChangeCatalog
  <2> QED
    BY <2>1, <2>2 DEF Inv, Stored, Memory
<1>5. CASE UNCHANGED vars
  BY <1>5 DEF vars, Inv, Stored, Memory, Counters
<1> QED
  BY <1>1, <1>2, <1>3, <1>4, <1>5 DEF Next, Finished

LEMMA Invariance == Spec => []Inv
<1> QED
  BY InitInv, StepInv, PTL DEF Spec

-----------------------------------------------------------------------------
(* Theorems.                                                                *)

LEMMA InvType == Inv => TypeOK
<1> SUFFICES ASSUME Inv PROVE TypeOK
  OBVIOUS
<1>1. /\ session.request \in RequestType /\ session.catalog \in Catalogs
      /\ Explained(session.result, session.catalog, session.request)
      /\ session.revision \in -1 .. MaxRevision
  BY DEF Inv, Stored
<1>2. /\ session.result.status \in Statuses
      /\ session.result.selected \in Ids \cup {None}
      /\ session.result.selected = None <=> session.result.status \in {"ambiguous", "unsupported"}
      /\ \A f \in DOMAIN session.result.inputs : session.result.inputs[f] \in Supply
  BY <1>1, ResultIs
<1>3. /\ session.request.context \in [Fields -> Values \cup {None}]
      /\ session.request.text \in [Fields -> Literals \cup {None}]
      /\ session.request.requested \in Ids \cup {None}
      /\ session.request.answers \in [Fields -> Seq(Values)]
  BY <1>1 DEF RequestType, MaybeValue, MaybeLiteral
<1>4. \A f \in Fields : \A i \in DOMAIN session.request.answers[f] :
        session.request.answers[f][i] \in Values
  BY <1>3
<1> QED
  BY <1>1, <1>2, <1>3, <1>4 DEF Inv, Counters, TypeOK, Supply, MaybeValue

\* Sessions, requests and results keep their types (RequestEnvelope, CompilationResult),
\* and a capability is selected exactly when the result is neither ambiguous nor
\* unsupported.
THEOREM DialogueTypes == Spec => []TypeOK
<1> QED
  BY Invariance, InvType, PTL

\* With the static provider the host's choice of an exact capability is followed or
\* not supported, whatever was answered, restarted or changed in the catalog since.
THEOREM ForcedIsFollowed == Static => (Spec => []ForcedCapabilityIsSelected)
<1> SUFFICES ASSUME Static PROVE Spec => []ForcedCapabilityIsSelected
  OBVIOUS
<1>1. Inv => ForcedCapabilityIsSelected
  BY DEF Inv, Stored, Forces, ForcedCapabilityIsSelected
<1> QED
  BY <1>1, Invariance, PTL

\* A condition of any contract that is decided while inputs are still missing means
\* the same once they are known, whatever they turn out to be (evaluate_condition).
THEOREM VerdictsStand == Spec => []VerdictsAreFinal
<1>1. Inv => VerdictsAreFinal
  <2> SUFFICES ASSUME Inv, NEW id \in DOMAIN catalog,
                      NEW r \in catalog[id].requirements \cup catalog[id].constraints
               PROVE  LET e == IF "assert" \in DOMAIN r THEN r.assert ELSE r.when
                          values == RawValues(session.result.inputs)
                          unknown == ReferencedFields(e) \ DOMAIN values
                      IN  (~AsksForPresence(e) /\ Evaluate(e, values) # Unknown) =>
                            \A more \in [unknown -> Literals] :
                              Evaluate(e, values)
                                = Verdict(Holds(e, [f \in DOMAIN values \cup unknown |->
                                    IF f \in unknown THEN more[f] ELSE values[f]]))
    BY DEF VerdictsAreFinal
  <2> DEFINE e == IF "assert" \in DOMAIN r THEN r.assert ELSE r.when
             values == RawValues(session.result.inputs)
             unknown == ReferencedFields(e) \ DOMAIN values
             full(more) == [f \in DOMAIN values \cup unknown |->
                              IF f \in unknown THEN more[f] ELSE values[f]]
  <2>1. e \in Expressions
    <3>1. IsContract(catalog[id])
      BY CatalogOf DEF Inv
    <3>2. CASE r \in catalog[id].requirements
      BY <3>1, <3>2 DEF IsContract, Requirement
    <3>3. CASE r \in catalog[id].constraints
      BY <3>1, <3>3 DEF IsContract, Constraint
    <3> QED
      BY <3>2, <3>3
  <2> HIDE DEF e, values
  <2>2. ASSUME ~AsksForPresence(e), Evaluate(e, values) # Unknown, NEW more \in [unknown -> Literals]
        PROVE  Evaluate(e, values) = Verdict(Holds(e, full(more)))
    <3>1. IsPartOf(values, full(more))
      BY DEF IsPartOf
    <3>2. ReferencedFields(e) \subseteq DOMAIN full(more)
      OBVIOUS
    <3> HIDE DEF full
    <3>3. Evaluate(e, values) \in {Unknown, Verdict(Holds(e, full(more)))}
      BY <2>1, <2>2, <3>1, <3>2, VerdictsAreSound
    <3> QED
      BY <2>2, <3>3
  <2> QED
    BY <2>2 DEF e, values
<1> QED
  BY <1>1, Invariance, PTL

\* A ready result is a candidate without blocking gaps.
LEMMA ReadyIs ==
  ASSUME Inv, Ready
  PROVE  \E d \in DraftType :
           /\ session.result.selected \in DOMAIN session.catalog
           /\ IsContract(Contract)
           /\ session.result.inputs = Analysis(Contract, d, session.request).inputs
           /\ IsReady(Analysis(Contract, d, session.request).gaps)
<1>1. /\ session.request \in RequestType /\ session.catalog \in Catalogs
      /\ Explained(session.result, session.catalog, session.request)
  BY DEF Inv, Stored
<1>2. session.result.status = "ready"
  BY DEF Ready
<1>3. ~IsUnsupported(session.result) /\ ~IsAmbiguous(session.result, session.catalog)
  <2>1. Result("unsupported", None, <<>>, {}, {}).status = "unsupported"
    BY DEF Result
  <2>2. \A ids : Ambiguous(ids).status = "ambiguous"
    BY DEF Ambiguous, Result
  <2> QED
    BY <1>2, <2>1, <2>2 DEF IsUnsupported, IsAmbiguous
<1>4. PICK id \in DOMAIN session.catalog, d \in DraftType :
        session.result = JudgedOf(session.catalog[id], id, Analysis(session.catalog[id], d, session.request))
  BY <1>1, <1>3 DEF Explained, IsJudged
<1>5. /\ session.result.selected = id
      /\ session.result.inputs = Analysis(session.catalog[id], d, session.request).inputs
      /\ IsReady(Analysis(session.catalog[id], d, session.request).gaps)
  BY <1>1, <1>2, <1>4, JudgedIs
<1>6. IsContract(session.catalog[id])
  BY <1>1, CatalogOf
<1> QED
  BY <1>4, <1>5, <1>6 DEF Contract

LEMMA InvLast == Inv => ReadyHoldsLastAnswer
<1> SUFFICES ASSUME Inv, Ready, NEW f \in DOMAIN session.result.inputs, said[f] # None
             PROVE  session.result.inputs[f] =
                      [source |-> "clarification_answer", value |-> Known(said[f], Contract.inputs[f])]
  BY DEF ReadyHoldsLastAnswer
<1> DEFINE k == Contract
           request == session.request
           answers == request.answers[f]
<1>1. PICK d \in DraftType :
        /\ IsContract(k)
        /\ session.result.inputs = Analysis(k, d, request).inputs
        /\ IsReady(Analysis(k, d, request).gaps)
  BY ReadyIs
<1>2. request \in RequestType /\ f \in DOMAIN Analysis(k, d, request).inputs
  BY <1>1 DEF Inv, Stored
<1> HIDE DEF k, request
<1>3. /\ f \in DOMAIN k.inputs /\ Resolved(k, d, request, f).input # None
      /\ session.result.inputs[f] = Resolved(k, d, request, f).input
  BY <1>1, <1>2, AnalysisIs
<1>4. f \in Fields
  BY <1>1, <1>3 DEF IsContract
<1>5. answers \in Seq(Values) /\ answers # <<>> /\ answers[Len(answers)] = said[f]
  BY <1>2, <1>4 DEF Inv, Memory, Remembers, RequestType, request
<1>6. Effective(Supplied(k, d, request, f)) = AnswerSupply(request, f)
  BY <1>1, <1>2, <1>3, <1>5, AnswersPrevail
<1>7. ~(Cardinality(AnswerSupply(request, f)) > 1)
  BY <1>1, <1>2, <1>6, ReadyAnalysis DEF Conflicting
<1>8. 1 \in DOMAIN answers /\ Len(answers) \in DOMAIN answers
  BY <1>5, EndsOfSequence
<1>9. answers[1] = said[f]
  <2> DEFINE first == [source |-> "clarification_answer", value |-> answers[1]]
             last == [source |-> "clarification_answer", value |-> answers[Len(answers)]]
  <2>1. first \in AnswerSupply(request, f) /\ last \in AnswerSupply(request, f)
    BY <1>8 DEF AnswerSupply
  <2>2. IsFiniteSet(AnswerSupply(request, f))
    <3>1. /\ Supplied(k, d, request, f) \in SUBSET Supply
          /\ IsFiniteSet(Supplied(k, d, request, f))
      BY <1>1, <1>2, <1>3, SuppliesOf
    <3> QED
      BY <1>6, <3>1, EffectiveOf
  <2>3. first = last
    <3> HIDE DEF first, last
    <3> QED
      BY <1>7, <2>1, <2>2, SeveralAreCounted
  <2>4. first.value = last.value
    <3> HIDE DEF first, last
    <3> QED
      BY <2>3
  <2>5. first.value = answers[1] /\ last.value = answers[Len(answers)]
    OBVIOUS
  <2> HIDE DEF first, last, answers
  <2> QED
    BY <1>5, <2>4, <2>5
<1>10. Top(request, AnswerSupply(request, f), f)
         = [source |-> "clarification_answer", value |-> answers[1]]
  <2> DEFINE first == [source |-> "clarification_answer", value |-> answers[1]]
  <2>1. first \in AnswerSupply(request, f)
    BY <1>8 DEF AnswerSupply
  <2>2. first.source = "clarification_answer"
    OBVIOUS
  <2> HIDE DEF first
  <2>3. \E s \in AnswerSupply(request, f) : s.source = "clarification_answer"
    BY <2>1, <2>2
  <2> QED
    BY <2>3 DEF Top, first
<1>11. Resolved(k, d, request, f).input
         = [source |-> Top(request, AnswerSupply(request, f), f).source,
            value |-> Known(Top(request, AnswerSupply(request, f), f).value, k.inputs[f])]
  <2>1. Resolved(k, d, request, f).input
          = [source |-> Top(request, Effective(Supplied(k, d, request, f)), f).source,
             value |-> Known(Top(request, Effective(Supplied(k, d, request, f)), f).value, k.inputs[f])]
    BY <1>1, <1>2, <1>3, ResolvedField
  <2> QED
    BY <1>6, <2>1
<1> QED
  BY <1>3, <1>9, <1>10, <1>11 DEF k

\* The intent carries the user's last word: whatever was answered, corrected and
\* chosen over any number of rounds, catalogs and restarts, the last accepted answer
\* about an input is the one that a ready result dispatches.
THEOREM LastAnswerIsDispatched == Spec => []ReadyHoldsLastAnswer
<1> QED
  BY Invariance, InvLast, PTL

\* The conditions of a contract.
ConditionsOf(k) ==
  {r.when : r \in k.requirements} \cup {c.assert : c \in k.constraints}
  \cup {c.when : c \in {d \in k.constraints : d.when # None}}

\* No condition of the selected contract mentions an input that is held as a
\* reference.
ReferencesAreUnread ==
  \A e \in ConditionsOf(Contract) : \A f \in ReferencedFields(e) \cap DOMAIN session.result.inputs :
    session.result.inputs[f].value \notin Refs

\* Reading references as literals of any kind changes no verdict of a condition that
\* does not mention them.
LEMMA ReadingsAgree ==
  ASSUME NEW inputs, NEW e \in Expressions,
         \A f \in ReferencedFields(e) \cap DOMAIN inputs : inputs[f].value \notin Refs,
         NEW reading, DOMAIN reading = DOMAIN inputs,
         \A f \in DOMAIN inputs : inputs[f].value \notin Refs => reading[f] = inputs[f].value
  PROVE  Evaluate(e, reading) = Evaluate(e, RawValues(inputs))
<1> DEFINE values == RawValues(inputs)
<1>1. /\ DOMAIN values = {g \in DOMAIN inputs : inputs[g].value \notin Refs}
      /\ \A f \in DOMAIN values : values[f] = inputs[f].value
  BY DEF RawValues
<1> HIDE DEF values
<1>2. ASSUME NEW f \in ReferencedFields(e)
      PROVE  /\ f \in DOMAIN reading <=> f \in DOMAIN values
             /\ f \in DOMAIN reading => reading[f] = values[f]
  BY <1>1
<1>3. Evaluate(e, reading) = Evaluate(e, values)
  BY <1>2, VerdictsReadTheirFields
<1> QED
  BY <1>3 DEF values

LEMMA InvDispatchable == Inv /\ ReferencesAreUnread => ReadyIsDispatchable
<1> SUFFICES ASSUME Inv, ReferencesAreUnread, Ready PROVE ReadyIsDispatchable
  BY DEF ReadyIsDispatchable
<1> DEFINE k == Contract
           inputs == session.result.inputs
           values == RawValues(inputs)
           hidden == {f \in DOMAIN inputs : inputs[f].value \in Refs}
           reading(r) == [f \in DOMAIN inputs |-> IF f \in hidden THEN r[f] ELSE inputs[f].value]
           readings == {reading(r) : r \in [hidden -> Literals]}
           always(e, verdict) == \A known \in readings : Evaluate(e, known) = verdict
           broken(c) == (c.when = None \/ always(c.when, True)) /\ always(c.assert, False)
<1>1. PICK d \in DraftType :
        /\ IsContract(k)
        /\ inputs = Analysis(k, d, session.request).inputs
        /\ IsReady(Analysis(k, d, session.request).gaps)
  BY ReadyIs
<1>2. session.request \in RequestType
  BY DEF Inv, Stored
<1>3. /\ \A f \in DOMAIN inputs : Usable(k.inputs[f], inputs[f])
      /\ Required(k, values) \subseteq DOMAIN inputs
      /\ \A c \in k.constraints : Violated(c, values) =>
           \E e \in k.constraints : Replaces(e, c, k, values) /\ Violated(e, values) /\ ~e.blocking
  <2> HIDE DEF k
  <2> QED
    BY <1>1, <1>2, ReadyAnalysis
<1>4. \E r : r \in [hidden -> Literals]
  <2>1. PICK v : v \in Literals
    BY AnalysisAssumption
  <2>2. [f \in hidden |-> v] \in [hidden -> Literals]
    BY <2>1
  <2> QED
    BY <2>2
<1>5. ASSUME NEW e \in Expressions, e \in ConditionsOf(k), NEW verdict
      PROVE  always(e, verdict) <=> Evaluate(e, values) = verdict
  <2>1. ASSUME NEW r \in [hidden -> Literals]
        PROVE  Evaluate(e, reading(r)) = Evaluate(e, values)
    <3>1. \A f \in ReferencedFields(e) \cap DOMAIN inputs : inputs[f].value \notin Refs
      BY <1>5 DEF ReferencesAreUnread
    <3>2. /\ DOMAIN reading(r) = DOMAIN inputs
          /\ \A f \in DOMAIN inputs : inputs[f].value \notin Refs => reading(r)[f] = inputs[f].value
      OBVIOUS
    <3> HIDE DEF inputs, reading
    <3>3. Evaluate(e, reading(r)) = Evaluate(e, RawValues(inputs))
      BY <3>1, <3>2, ReadingsAgree
    <3> QED
      BY <3>3
  <2> HIDE DEF values, reading, hidden
  <2> QED
    BY <1>4, <2>1
<1>6. \A f \in DOMAIN k.inputs : k.inputs[f].required => f \in DOMAIN inputs
  BY <1>3 DEF Required
<1>7. \A r \in k.requirements : always(r.when, True) => r.require \subseteq DOMAIN inputs
  <2> SUFFICES ASSUME NEW r \in k.requirements, always(r.when, True)
               PROVE  r.require \subseteq DOMAIN inputs
    OBVIOUS
  <2>1. r.when \in Expressions
    BY <1>1 DEF IsContract, Requirement
  <2>2. r.when \in ConditionsOf(k)
    BY DEF ConditionsOf
  <2> HIDE DEF always
  <2>3. Evaluate(r.when, values) = True
    BY <1>5, <2>1, <2>2
  <2> QED
    BY <1>3, <2>3 DEF Required
<1>8. ASSUME NEW c \in k.constraints PROVE broken(c) <=> Violated(c, values)
  <2>1. c.when \in Expressions \cup {None} /\ c.assert \in Expressions
    BY <1>1 DEF IsContract, Constraint
  <2>2. c.assert \in ConditionsOf(k) /\ (c.when # None => c.when \in ConditionsOf(k))
    BY DEF ConditionsOf
  <2> HIDE DEF always, values, k
  <2>3. always(c.assert, False) <=> Evaluate(c.assert, values) = False
    BY <1>5, <2>1, <2>2
  <2>4. c.when # None => (always(c.when, True) <=> Evaluate(c.when, values) = True)
    BY <1>5, <2>1, <2>2
  <2> QED
    BY <2>3, <2>4 DEF Violated, Applies
<1>9. ASSUME NEW c \in k.constraints, c.blocking, broken(c)
      PROVE  \E e \in k.constraints :
               Namesakes(c, e) /\ e.place > c.place /\ broken(e) /\ ~e.blocking
  <2> HIDE DEF broken, values, k
  <2>1. PICK e \in k.constraints : Replaces(e, c, k, values) /\ Violated(e, values) /\ ~e.blocking
    BY <1>3, <1>8, <1>9
  <2>2. Namesakes(c, e) /\ c.place <= e.place /\ broken(e)
    BY <1>8, <2>1 DEF Replaces
  <2>3. c.place \in Nat /\ e.place \in Nat /\ (c.place = e.place => c = e)
    BY <1>1 DEF IsContract, Constraint
  <2>4. e.place > c.place
    BY <1>9, <2>1, <2>2, <2>3
  <2> QED
    BY <2>1, <2>2, <2>4
<1>10. \A f \in DOMAIN inputs :
        /\ Permits(k.inputs[f].policy, inputs[f].source)
        /\ inputs[f].value \in IF k.inputs[f].class = "secret" THEN ValidRefs
                               ELSE k.inputs[f].accepts \cup ValidRefs
  BY <1>3 DEF Usable
<1> QED
  BY <1>6, <1>7, <1>9, <1>10 DEF ReadyIsDispatchable

\* Ready keeps its promise to the dispatcher as long as no condition of the contract
\* looks at an input that is only known as a reference: analyze_candidate shows its
\* conditions the literals alone, so without that a requirement may be overlooked.  A
\* violated blocking constraint is only let through when _dedupe_gaps replaced its gap
\* by that of a later namesake that does not block.
THEOREM ReadyIsDispatched == Spec => [](ReferencesAreUnread => ReadyIsDispatchable)
<1> QED
  BY Invariance, InvDispatchable, PTL

-----------------------------------------------------------------------------
(* Questions.                                                               *)

LEMMA BlockingIsFinite ==
  ASSUME NEW gaps, IsFiniteSet(gaps)
  PROVE  IsFiniteSet(Blocking(gaps)) /\ Cardinality(Blocking(gaps)) \in Nat
<1>1. Blocking(gaps) \subseteq gaps
  BY DEF Blocking
<1>2. IsFiniteSet(Blocking(gaps))
  BY <1>1, FS_Subset
<1> QED
  BY <1>2, FS_CardinalityType

LEMMA DependencyIsNat ==
  ASSUME NEW k, IsContract(k), NEW f
  PROVE  Dependency(k, f) \in Int
<1> DEFINE R == {r \in k.requirements : f \in ReferencedFields(r.when)}
<1>1. IsFiniteSet(k.requirements) /\ Cardinality(k.requirements) \in Nat
  <2>1. IsFiniteSet(k.requirements)
    BY DEF IsContract
  <2> QED
    BY <2>1, FS_CardinalityType
<1>2. Cardinality(R) \in Nat
  <2>1. R \subseteq k.requirements
    OBVIOUS
  <2>2. IsFiniteSet(R)
    BY <1>1, <2>1, FS_Subset
  <2> QED
    BY <2>2, FS_CardinalityType
<1>3. k.requirements # {} => Cardinality(k.requirements) # 0
  BY <1>1, FS_EmptySet
<1>4. \A m, n \in Nat : n # 0 => m \div n \in Int
  OBVIOUS
<1>5. DepWeight \in Nat
  BY AnalysisAssumption
<1>6. \A m, n \in Nat : m * n \in Nat
  OBVIOUS
<1>7. CASE k.requirements = {}
  BY <1>7 DEF Dependency
<1>8. CASE k.requirements # {}
  <2>1. Dependency(k, f) = (DepWeight * Cardinality(R)) \div Cardinality(k.requirements)
    BY <1>8 DEF Dependency
  <2> HIDE DEF R
  <2>2. DepWeight * Cardinality(R) \in Nat
    BY <1>2, <1>5, <1>6
  <2> QED
    BY <1>1, <1>3, <1>4, <1>8, <2>1, <2>2
<1> QED
  BY <1>7, <1>8

LEMMA WeightIsInt ==
  ASSUME NEW k, IsContract(k), NEW gaps, IsFiniteSet(gaps), NEW t \in DOMAIN k.inputs \cup {"terms"}
  PROVE  Weight(k, gaps, t) \in Int
<1> DEFINE n == Cardinality(GapsOf(gaps, t))
           b == Cardinality(Blocking(gaps))
           s == IF t = "terms" THEN -TermsCost ELSE Dependency(k, t) - k.inputs[t].cost
<1>1. n \in Int
  <2>1. GapsOf(gaps, t) \subseteq Blocking(gaps)
    BY DEF GapsOf
  <2>2. IsFiniteSet(GapsOf(gaps, t))
    BY <2>1, BlockingIsFinite, FS_Subset
  <2> QED
    BY <2>2, FS_CardinalityType
<1>2. b \in Int
  BY BlockingIsFinite
<1>3. s \in Int
  <2>1. Dependency(k, t) \in Int
    BY DependencyIsNat
  <2>2. t # "terms" => k.inputs[t].cost \in Nat
    BY DEF IsContract, InputSpec
  <2>3. TermsCost \in Nat
    BY AnalysisAssumption
  <2> QED
    BY <2>1, <2>2, <2>3
<1>4. GapWeight \in Int
  BY AnalysisAssumption
<1>5. Weight(k, gaps, t) = GapWeight * n + b * s
  BY DEF Weight
<1>6. \A w, x, y, z \in Int : w * x + y * z \in Int
  OBVIOUS
<1> HIDE DEF n, b, s
<1> QED
  BY <1>1, <1>2, <1>3, <1>4, <1>5, <1>6

\* Questions are strictly ordered.
LEMMA BeforeIsStrict ==
  ASSUME NEW k, IsContract(k), NEW gaps, IsFiniteSet(gaps),
         NEW T, T \subseteq DOMAIN k.inputs \cup {"terms"}
  PROVE  /\ \A u \in T : ~Before(k, gaps, u, u)
         /\ \A u, v, w \in T : Before(k, gaps, u, v) /\ Before(k, gaps, v, w) => Before(k, gaps, u, w)
<1>1. \A t \in T : Weight(k, gaps, t) \in Int
  BY WeightIsInt
<1>2. \A t \in T : t # "terms" => Order[t] \in Nat
  BY AnalysisAssumption DEF IsContract
<1>3. \A t, u \in T :
        Before(k, gaps, t, u) <=>
          \/ Weight(k, gaps, t) > Weight(k, gaps, u)
          \/ /\ Weight(k, gaps, t) = Weight(k, gaps, u)
             /\ t # "terms" /\ (u = "terms" \/ Order[t] < Order[u])
  BY DEF Before
<1>4. ASSUME NEW u \in T PROVE ~Before(k, gaps, u, u)
  BY <1>1, <1>2, <1>3
<1>5. ASSUME NEW u \in T, NEW v \in T, NEW w \in T,
             Before(k, gaps, u, v), Before(k, gaps, v, w)
      PROVE  Before(k, gaps, u, w)
  BY <1>1, <1>2, <1>3, <1>5
<1> QED
  BY <1>4, <1>5

\* Whoever is blocked is asked something.
LEMMA SomethingIsPlanned ==
  ASSUME NEW k, IsContract(k), NEW gaps, IsFiniteSet(gaps), \A g \in gaps : IsGap(g, k),
         ~IsReady(gaps)
  PROVE  Planned(k, gaps) # {}
<1> DEFINE T == UNION {g.targets : g \in Blocking(gaps)}
           R == {p \in T \X T : Before(k, gaps, p[1], p[2])}
<1>1. T \subseteq DOMAIN k.inputs \cup {"terms"} /\ T # {}
  <2>1. PICK g \in gaps : g.blocking
    BY DEF IsReady, Blocking
  <2>2. g.targets # {} /\ g \in Blocking(gaps)
    BY <2>1 DEF IsGap, Blocking
  <2> QED
    BY <2>2 DEF IsGap, Blocking
<1>2. IsFiniteSet(T)
  <2>1. IsFiniteSet(Fields) /\ DOMAIN k.inputs \subseteq Fields
    BY AnalysisAssumption DEF IsContract
  <2>2. IsFiniteSet(Fields \cup {"terms"})
    BY <2>1, FS_AddElement
  <2>3. T \subseteq Fields \cup {"terms"}
    BY <1>1, <2>1
  <2> HIDE DEF T
  <2> QED
    BY <2>2, <2>3, FS_Subset
<1> HIDE DEF T
<1>3. /\ \A u \in T : <<u, u>> \notin R
      /\ \A u, v, w \in T : <<u, v>> \in R /\ <<v, w>> \in R => <<u, w>> \in R
  BY <1>1, BeforeIsStrict
<1>4. PICK u \in T : \A w \in T : <<w, u>> \notin R
  <2> HIDE DEF R
  <2> QED
    BY <1>1, <1>2, <1>3, FirstExists
<1>5. {w \in T \ {u} : Before(k, gaps, w, u)} = {}
  BY <1>4
<1>6. Cardinality({w \in T \ {u} : Before(k, gaps, w, u)}) < MaxQuestions
  <2>1. Cardinality({w \in T \ {u} : Before(k, gaps, w, u)}) = 0
    BY <1>5, FS_EmptySet
  <2> QED
    BY <2>1, AnalysisAssumption
<1>7. [target |-> u, choices |-> Choices(k, gaps, u)] \in PlannedFor(k, gaps, T)
  BY <1>6 DEF PlannedFor
<1> QED
  BY <1>7 DEF Planned, T

LEMMA InvAskable == Inv => BlockedIsAskable
<1> SUFFICES ASSUME Inv, session.revision >= 0, ~Terminal
             PROVE  /\ Asked # {}
                    /\ Compatible => \A q \in session.result.questions : Admissible(q) # {}
  BY DEF BlockedIsAskable
<1> DEFINE result == session.result
           cat == session.catalog
<1>1. /\ session.request \in RequestType /\ cat \in Catalogs
      /\ Explained(result, cat, session.request)
  BY DEF Inv, Stored
<1>2. result.status \notin {"ready", "unsupported"}
  BY DEF Terminal
<1>3. ~IsUnsupported(result)
  <2>1. Result("unsupported", None, <<>>, {}, {}).status = "unsupported"
    BY DEF Result
  <2> QED
    BY <1>2, <2>1 DEF IsUnsupported
<1>4. CASE IsAmbiguous(result, cat)
  <2>1. PICK ids \in SUBSET DOMAIN cat : Cardinality(ids) > 1 /\ result = Ambiguous(ids)
    BY <1>4 DEF IsAmbiguous
  <2>2. /\ result.questions = {[target |-> "capability", choices |-> ids]}
        /\ result.selected = None
    BY <2>1 DEF Ambiguous, Result
  <2>3. ids # {}
    BY <2>1, FS_EmptySet
  <2>4. Asked # {}
    BY <2>2 DEF Asked
  <2>5. ASSUME Compatible, NEW q \in result.questions PROVE Admissible(q) # {}
    <3>1. ids \subseteq DOMAIN catalog
      BY <2>2, <2>5 DEF Compatible
    <3>2. q.target = "capability" /\ q.choices = ids
      BY <2>2, <2>5
    <3> QED
      BY <2>3, <3>1, <3>2 DEF Admissible
  <2> QED
    BY <2>4, <2>5
<1>5. CASE IsJudged(result, cat, session.request)
  <2>1. PICK id \in DOMAIN cat, d \in DraftType :
          result = JudgedOf(cat[id], id, Analysis(cat[id], d, session.request))
    BY <1>5 DEF IsJudged
  <2> DEFINE k == cat[id]
             gaps == Analysis(k, d, session.request).gaps
  <2>2. id \in Ids /\ id # None /\ IsContract(k)
    BY <1>1, CatalogOf
  <2>3. result.selected = id /\ ~IsReady(gaps) /\ result.questions = Planned(k, gaps)
    BY <1>1, <1>2, <2>1, JudgedIs
  <2>4. IsFiniteSet(gaps) /\ \A g \in gaps : IsGap(g, k)
    BY <1>1, <2>2, AnalysisGaps
  <2> HIDE DEF gaps
  <2>5. Asked # {}
    <3>1. Planned(k, gaps) # {}
      <4> HIDE DEF k
      <4> QED
        BY <2>2, <2>3, <2>4, SomethingIsPlanned
    <3> QED
      BY <2>3, <3>1 DEF Asked
  <2>6. ASSUME Compatible, NEW q \in result.questions PROVE Admissible(q) # {}
    <3>1. q.target \in DOMAIN k.inputs \cup {"terms"}
      <4> HIDE DEF k
      <4> QED
        BY <2>3, <2>4, <2>6, PlannedAsks
    <3>2. CASE q.target = "terms"
      BY <3>2, DialogueAssumption DEF Admissible
    <3>3. CASE q.target \in DOMAIN k.inputs
      <4>1. q.target # "capability" /\ q.target # "terms"
        BY <2>2, <3>3, AnalysisAssumption, DialogueAssumption DEF IsContract
      <4>2. id \in DOMAIN catalog /\ q.target \in DOMAIN catalog[id].inputs
        BY <2>2, <2>3, <2>6, <3>3 DEF Compatible, OptionalAdditionOnly
      <4>3. Refs \subseteq Admissible(q)
        BY <2>3, <4>1, <4>2 DEF Admissible
      <4> QED
        BY <4>3, DialogueAssumption
    <3> QED
      BY <3>1, <3>2, <3>3
  <2> QED
    BY <2>5, <2>6
<1> QED
  BY <1>1, <1>3, <1>4, <1>5 DEF Explained

\* Nobody is left without a question: whatever the contract, the draft and the
\* answers so far, a blocked result asks about something (plan_questions never drops
\* every gap, whatever the weights), and a question it asks has an answer that
\* continue_async accepts, also after a compatible change of the catalog.
THEOREM BlockedAsks == Spec => []BlockedIsAskable
<1> QED
  BY Invariance, InvAskable, PTL

-----------------------------------------------------------------------------
(* What is known stays known.                                               *)

\* What was said in the request prevails over inference and default.
LEMMA RequestPrevails ==
  ASSUME NEW k, IsContract(k), NEW draft \in DraftType, NEW request \in RequestType,
         NEW f \in DOMAIN k.inputs, RequestSupply(request, f) # {}
  PROVE  Effective(Supplied(k, draft, request, f)) = Effective(RequestSupply(request, f))
<1> DEFINE M == From("model_inference", draft.inputs[f])
           R == RequestSupply(request, f)
<1>1. f \in Fields /\ "model_inference" \in Sources
  BY SuppliesOf DEF Sources
<1>2. draft.inputs[f] \in MaybeValue
  BY <1>1 DEF DraftType, MaybeLiteral, MaybeValue, Values
<1>3. \A s \in M : s.source = "model_inference"
  BY <1>1, <1>2, FromIsSmall
<1>4. \A s \in R : s.source \in {"clarification_answer", "user_request", "application_context"}
  BY <1>1, RequestSupplies
<1>5. Supplied(k, draft, request, f) = M \cup R
  BY SuppliedIs DEF OrDefault
<1> HIDE DEF M, R
<1>6. \A s \in M : Priority(s.source) = 4
  BY <1>3, Priorities
<1>7. \A s \in R : Priority(s.source) \in 0 .. 2
  BY <1>4, Priorities
<1>8. PICK r \in R : TRUE
  BY DEF R
<1>9. ASSUME NEW s PROVE s \in Effective(M \cup R) <=> s \in Effective(R)
  <2>1. s \in Effective(M \cup R) <=>
          s \in M \cup R /\ \A t \in M \cup R : Priority(s.source) <= Priority(t.source)
    BY DEF Effective
  <2>2. s \in Effective(R) <=> s \in R /\ \A t \in R : Priority(s.source) <= Priority(t.source)
    BY DEF Effective
  <2>3. CASE s \in R
    BY <1>6, <1>7, <2>1, <2>2, <2>3
  <2>4. CASE s \notin R
    <3>1. s \in M => ~(Priority(s.source) <= Priority(r.source))
      BY <1>6, <1>7, <1>8
    <3> QED
      BY <1>8, <2>1, <2>2, <2>4, <3>1
  <2> QED
    BY <2>3, <2>4
<1> QED
  BY <1>5, <1>9 DEF R

\* An input that somebody gave does not depend on the draft, and on the request only
\* by what that says of the input.
LEMMA GivenInputStays ==
  ASSUME NEW k, IsContract(k), NEW d \in DraftType, NEW old \in RequestType,
         NEW k2, IsContract(k2), NEW d2 \in DraftType, NEW new \in RequestType,
         NEW f \in DOMAIN k.inputs, f \in DOMAIN k2.inputs, k2.inputs[f] = k.inputs[f],
         new.context[f] = old.context[f], new.text[f] = old.text[f],
         new.answers[f] = old.answers[f],
         Resolved(k, d, old, f).input # None,
         Resolved(k, d, old, f).input.source \notin {"model_inference", "contract_default"}
  PROVE  Resolved(k2, d2, new, f) = Resolved(k, d, old, f)
<1> DEFINE e == Effective(Supplied(k, d, old, f))
           top == Top(old, e, f)
<1>1. RequestSupply(new, f) = RequestSupply(old, f)
  BY DEF RequestSupply, AnswerSupply
<1>2. RequestSupply(old, f) # {}
  <2> SUFFICES ASSUME RequestSupply(old, f) = {} PROVE FALSE
    OBVIOUS
  <2>1. /\ e # {}
        /\ Resolved(k, d, old, f).input = [source |-> top.source, value |-> Known(top.value, k.inputs[f])]
    BY ResolvedField
  <2>2. AnswerSupply(old, f) = {}
    BY DEF RequestSupply
  <2>3. top \in Supplied(k, d, old, f)
    BY <2>1, <2>2, TopIsSupplied DEF Effective
  <2>4. Supplied(k, d, old, f) = OrDefault(k.inputs[f], From("model_inference", d.inputs[f]))
    BY SuppliedIs
  <2>5. /\ d.inputs[f] \in MaybeValue /\ k.inputs[f].default \in MaybeValue
        /\ {"model_inference", "contract_default"} \subseteq Sources
    <3>1. f \in Fields /\ k.inputs[f] \in InputSpec
      BY DEF IsContract
    <3> QED
      BY <3>1 DEF DraftType, InputSpec, MaybeLiteral, MaybeValue, Values, Sources
  <2>6. \A s \in From("model_inference", d.inputs[f]) : s.source = "model_inference"
    BY <2>5, FromIsSmall
  <2>7. \A s \in From("contract_default", k.inputs[f].default) : s.source = "contract_default"
    BY <2>5, FromIsSmall
  <2> HIDE DEF top, e
  <2>8. top.source \in {"model_inference", "contract_default"}
    BY <2>3, <2>4, <2>6, <2>7 DEF OrDefault
  <2> QED
    BY <2>1, <2>8
<1>3. Effective(Supplied(k2, d2, new, f)) = e
  <2>1. e = Effective(RequestSupply(old, f))
    BY <1>2, RequestPrevails
  <2>2. Effective(Supplied(k2, d2, new, f)) = Effective(RequestSupply(new, f))
    BY <1>1, <1>2, RequestPrevails
  <2> QED
    BY <1>1, <2>1, <2>2
<1> HIDE DEF e
<1>4. Top(new, e, f) = Top(old, e, f)
  BY DEF Top
<1>5. Resolution(k.inputs[f], f, new, e) = Resolution(k.inputs[f], f, old, e)
  BY <1>4 DEF Resolution
<1> QED
  BY <1>3, <1>5 DEF Resolved, e

LEMMA StepKeeps ==
  ASSUME Inv, Inv', [Next]_vars,
         session'.revision = session.revision + 1, session.result.selected # None,
         session'.result.selected = session.result.selected,
         session'.request.text = session.request.text,
         NEW f \in DOMAIN session.result.inputs, f \notin Asked,
         session.result.inputs[f].source \notin {"model_inference", "contract_default"}
  PROVE  /\ f \in DOMAIN session'.result.inputs
         /\ session'.result.inputs[f] = session.result.inputs[f]
<1>1. /\ session.request \in RequestType /\ session.catalog \in Catalogs
      /\ Explained(session.result, session.catalog, session.request)
      /\ session.revision \in -1 .. MaxRevision
      /\ session.revision = -1 => IsUnsupported(session.result)
      /\ session'.request \in RequestType /\ session'.catalog \in Catalogs
      /\ Explained(session'.result, session'.catalog, session'.request)
  BY DEF Inv, Stored
<1>2. \A result, cat : IsUnsupported(result) \/ IsAmbiguous(result, cat) => result.selected = None
  <2>1. Result("unsupported", None, <<>>, {}, {}).selected = None
    BY DEF Result
  <2>2. \A ids : Ambiguous(ids).selected = None
    BY DEF Ambiguous, Result
  <2> QED
    BY <2>1, <2>2 DEF IsUnsupported, IsAmbiguous
<1>3. PICK batch \in Batches : Continue(batch)
  <2>1. session.revision # -1
    BY <1>1, <1>2
  <2>2. session.revision \in Int /\ MaxRevision \in Int
    BY <1>1, DialogueAssumption
  <2>3. ~Compile
    BY <2>1 DEF Compile
  <2>4. CASE Restart
    <3>1. session'.revision = 0 /\ session.revision >= 0
      BY <2>4 DEF Restart, Store
    <3> QED
      BY <2>2, <3>1
  <2>5. CASE ChangeCatalog \/ Finished \/ UNCHANGED vars
    <3>1. session' = session
      BY <2>5 DEF ChangeCatalog, Finished, vars
    <3> QED
      BY <2>2, <3>1
  <2> QED
    BY <2>3, <2>4, <2>5 DEF Next, Answering
<1>4. /\ session'.request = Merged(batch) /\ session'.catalog = catalog
  BY <1>3 DEF Continue, Store
<1>5. PICK id \in DOMAIN session.catalog, d \in DraftType :
        session.result
          = JudgedOf(session.catalog[id], id, Analysis(session.catalog[id], d, session.request))
  BY <1>1, <1>2 DEF Explained, IsJudged
<1>6. PICK id2 \in DOMAIN session'.catalog, d2 \in DraftType :
        session'.result
          = JudgedOf(session'.catalog[id2], id2, Analysis(session'.catalog[id2], d2, session'.request))
  BY <1>1, <1>2 DEF Explained, IsJudged
<1> DEFINE k == session.catalog[id]
           k2 == session'.catalog[id]
<1>7. /\ session.result.selected = id
      /\ session.result.inputs = Analysis(k, d, session.request).inputs
  BY <1>1, <1>5, JudgedIs
<1>8. id2 = id /\ session'.result.inputs = Analysis(k2, d2, session'.request).inputs
  <2>1. /\ session'.result.selected = id2
        /\ session'.result.inputs
             = Analysis(session'.catalog[id2], d2, session'.request).inputs
    BY <1>1, <1>6, JudgedIs
  <2> QED
    BY <1>7, <2>1
<1>9. IsContract(k) /\ IsContract(k2)
  BY <1>1, <1>6, <1>8, CatalogOf
<1>10. /\ f \in DOMAIN k.inputs /\ Resolved(k, d, session.request, f).input # None
       /\ session.result.inputs[f] = Resolved(k, d, session.request, f).input
  <2> HIDE DEF k
  <2> QED
    BY <1>7, AnalysisIs
<1>11. f \in DOMAIN k2.inputs /\ k2.inputs[f] = k.inputs[f]
  <2>1. Compatible
    BY <1>3 DEF Continue
  <2>2. session.catalog = catalog \/ OptionalAdditionOnly(k, catalog[id])
    BY <1>7, <2>1 DEF Compatible
  <2> QED
    BY <1>4, <1>10, <2>2 DEF OptionalAdditionOnly
<1>12. f \in Fields /\ f \notin DOMAIN batch
  BY <1>9, <1>10, BatchIs DEF IsContract
<1>13. /\ session'.request.context = session.request.context
       /\ session'.request.answers[f] = session.request.answers[f]
  BY <1>1, <1>4, <1>12 DEF Merged, RequestType
<1>14. Resolved(k2, d2, session'.request, f) = Resolved(k, d, session.request, f)
  <2> HIDE DEF k, k2
  <2> QED
    BY <1>1, <1>9, <1>10, <1>11, <1>13, GivenInputStays
<1> HIDE DEF k, k2
<1>15. f \in DOMAIN Analysis(k2, d2, session'.request).inputs
  BY <1>10, <1>11, <1>14, AnalysisIs
<1> QED
  BY <1>8, <1>10, <1>14, <1>15, AnalysisIs

\* What a continued session was given it keeps: an input that is neither inferred nor
\* a default and was not asked about enters the next round unchanged, whatever else is
\* answered, whatever the provider says this time and across every change of the
\* catalog that continue_async accepts.
THEOREM KnownInputsAreKept == Spec => KnownInputsStay
<1>1. ASSUME Inv, Inv', [Next]_vars
      PROVE  [(session'.revision = session.revision + 1 /\ session.result.selected # None
                 /\ session'.result.selected = session.result.selected
                 /\ session'.request.text = session.request.text)
              => \A f \in DOMAIN session.result.inputs :
                   (f \notin Asked
                      /\ session.result.inputs[f].source \notin {"model_inference", "contract_default"})
                   => /\ f \in DOMAIN session'.result.inputs
                      /\ session'.result.inputs[f] = session.result.inputs[f]]_vars
  BY <1>1, StepKeeps
<1> QED
  BY <1>1, Invariance, PTL DEF KnownInputsStay, Spec

-----------------------------------------------------------------------------
(* The rounds that are still to come.                                       *)

\* The rounds that the answers given about f leave: one to ask about it, none once
\* the user has said what he means, one to choose between that and something else,
\* two after a mistake, three between two mistakes.
RoundsAbout(f, answers) ==
  IF answers = <<>> THEN 1
  ELSE IF \A i \in DOMAIN answers : answers[i] = Wanted[f] THEN 0
  ELSE IF \E i \in DOMAIN answers : answers[i] = Wanted[f] THEN 1
  ELSE IF \A i, j \in DOMAIN answers : answers[i] = answers[j] THEN 2
  ELSE 3

Topics == Fields \cup {"capability"}

RoundsLeft(request) ==
  [t \in Topics |-> IF t = "capability" THEN IF request.requested = None THEN 1 ELSE 0
                    ELSE RoundsAbout(t, request.answers[t])]

\* The rounds left as a set of pairs, so that they can be counted, and those of them
\* that mistakes have brought about.
Pairs(left) == {p \in Topics \X (1 .. 3) : p[2] <= left[p[1]]}

Extra(left) == {p \in Pairs(left) : p[2] >= 2}

RoundsAreCounted ==
  /\ Cardinality(Extra(RoundsLeft(session.request))) <= mistakes
  /\ session.revision + Cardinality(Pairs(RoundsLeft(session.request)))
       <= 1 + Cardinality(Fields) + 2 * mistakes

\* The static provider leaves no terms unresolved.
NoTermsAsked == "terms" \notin Asked

LEMMA TopicsAreFinite == IsFiniteSet(Topics) /\ Cardinality(Topics) = Cardinality(Fields) + 1
<1>1. "capability" \notin Fields /\ IsFiniteSet(Fields)
  BY AnalysisAssumption, DialogueAssumption
<1> QED
  BY <1>1, FS_AddElement DEF Topics

LEMMA PairsAreFinite ==
  ASSUME NEW left
  PROVE  /\ IsFiniteSet(Pairs(left)) /\ IsFiniteSet(Extra(left))
         /\ Cardinality(Pairs(left)) \in Nat /\ Cardinality(Extra(left)) \in Nat
<1>1. IsFiniteSet(1 .. 3)
  BY 1 \in Int, 3 \in Int, FS_Interval
<1>2. IsFiniteSet(Topics \X (1 .. 3))
  BY <1>1, TopicsAreFinite, FS_Product
<1>3. Pairs(left) \in SUBSET (Topics \X (1 .. 3)) /\ Extra(left) \in SUBSET (Topics \X (1 .. 3))
  BY DEF Pairs, Extra
<1>4. IsFiniteSet(Pairs(left)) /\ IsFiniteSet(Extra(left))
  BY <1>2, <1>3, FS_Subset
<1> QED
  BY <1>4, FS_CardinalityType

\* Whatever has been answered, there is one round for each topic and those that
\* mistakes have brought about.
LEMMA PairsAreFew ==
  ASSUME NEW left
  PROVE  Cardinality(Pairs(left)) <= 1 + Cardinality(Fields) + Cardinality(Extra(left))
<1> DEFINE first == Topics \X {1}
<1>1. IsFiniteSet({1}) /\ Cardinality({1}) = 1
  BY FS_Singleton
<1>2. IsFiniteSet(first) /\ Cardinality(first) = Cardinality(Topics) * 1
  BY <1>1, TopicsAreFinite, FS_Product
<1>3. Pairs(left) \subseteq first \cup Extra(left)
  BY DEF Pairs, Extra
<1>4. /\ IsFiniteSet(first \cup Extra(left))
      /\ Cardinality(first \cup Extra(left))
           = Cardinality(first) + Cardinality(Extra(left)) - Cardinality(first \cap Extra(left))
  BY <1>2, PairsAreFinite, FS_Union
<1>5. Cardinality(Pairs(left)) <= Cardinality(first \cup Extra(left))
  BY <1>3, <1>4, FS_Subset
<1>6. IsFiniteSet(first \cap Extra(left))
  BY <1>2, FS_Intersection
<1>7. /\ Cardinality(first \cap Extra(left)) \in Nat /\ Cardinality(Extra(left)) \in Nat
      /\ Cardinality(Pairs(left)) \in Nat /\ Cardinality(Fields) \in Nat
      /\ Cardinality(first) = Cardinality(Fields) + 1
  BY <1>2, <1>6, AnalysisAssumption, TopicsAreFinite, PairsAreFinite, FS_CardinalityType
<1> HIDE DEF first
<1> QED
  BY <1>4, <1>5, <1>7

\* One round: what is answered leaves fewer rounds, but where the user errs one more.
LEMMA RoundCounts ==
  ASSUME NEW m, NEW n, NEW D \in SUBSET Topics, NEW E \in SUBSET D, D # {},
         \A t \in Topics : m[t] \in 0 .. 3 /\ n[t] \in 0 .. 3,
         \A t \in Topics \ D : n[t] <= m[t],
         \A t \in D \ E : n[t] < m[t],
         \A t \in E : n[t] <= m[t] + 1
  PROVE  /\ Cardinality(Extra(n)) <= Cardinality(Extra(m)) + Cardinality(E)
         /\ 1 + Cardinality(Pairs(n)) <= Cardinality(Pairs(m)) + 2 * Cardinality(E)
<1> DEFINE last == [t \in E |-> <<t, n[t]>>]
           L == {last[t] : t \in E}
<1>1. IsFiniteSet(E) /\ Cardinality(E) \in Nat
  BY TopicsAreFinite, FS_Subset, FS_CardinalityType
<1>2. IsFiniteSet(L) /\ Cardinality(L) <= Cardinality(E) /\ Cardinality(L) \in Nat
  <2>1. last \in Surjection(E, L)
    BY DEF Surjection
  <2> HIDE DEF L, last
  <2> QED
    BY <1>1, <2>1, FS_Surjection, FS_CardinalityType
<1>3. Pairs(n) \subseteq Pairs(m) \cup L
  <2> SUFFICES ASSUME NEW p \in Pairs(n), p \notin Pairs(m) PROVE p \in L
    OBVIOUS
  <2>1. PICK t \in Topics, i \in 1 .. 3 : p = <<t, i>>
    BY DEF Pairs
  <2>2. i <= n[t] /\ ~(i <= m[t])
    BY <2>1 DEF Pairs
  <2>3. t \in E /\ i = n[t]
    BY <2>2
  <2> QED
    BY <2>1, <2>3
<1>4. Extra(n) \subseteq Extra(m) \cup L
  BY <1>3 DEF Extra
<1> HIDE DEF L
<1>5. ASSUME NEW A, NEW B, IsFiniteSet(A), IsFiniteSet(B), B \subseteq A \cup L
      PROVE  Cardinality(B) <= Cardinality(A) + Cardinality(E)
  <2>1. /\ IsFiniteSet(A \cup L)
        /\ Cardinality(A \cup L) = Cardinality(A) + Cardinality(L) - Cardinality(A \cap L)
    BY <1>2, <1>5, FS_Union
  <2>2. Cardinality(B) <= Cardinality(A \cup L)
    BY <1>5, <2>1, FS_Subset
  <2>3. /\ Cardinality(A) \in Nat /\ Cardinality(B) \in Nat /\ Cardinality(A \cap L) \in Nat
    BY <1>5, FS_Intersection, FS_CardinalityType
  <2> QED
    BY <1>1, <1>2, <2>1, <2>2, <2>3
<1>6. /\ Cardinality(Extra(n)) <= Cardinality(Extra(m)) + Cardinality(E)
      /\ Cardinality(Pairs(n)) <= Cardinality(Pairs(m)) + Cardinality(E)
  BY <1>3, <1>4, <1>5, PairsAreFinite
<1>7. CASE E = {}
  <2>1. PICK t \in D : TRUE
    OBVIOUS
  <2>2. n[t] < m[t] /\ t \in Topics /\ m[t] \in 1 .. 3
    BY <1>7, <2>1
  <2>3. <<t, m[t]>> \in Pairs(m) /\ <<t, m[t]>> \notin Pairs(n)
    BY <2>2 DEF Pairs
  <2>4. Pairs(n) \subseteq Pairs(m)
    BY <1>3, <1>7 DEF L
  <2>5. Cardinality(Pairs(n)) <= Cardinality(Pairs(m)) /\ Cardinality(Pairs(n)) # Cardinality(Pairs(m))
    BY <2>3, <2>4, PairsAreFinite, FS_Subset
  <2> QED
    BY <1>1, <1>6, <2>5, PairsAreFinite
<1>8. CASE E # {}
  <2>1. Cardinality(E) >= 1
    BY <1>1, <1>8, FS_EmptySet
  <2> QED
    BY <1>1, <1>6, <2>1, PairsAreFinite
<1> QED
  BY <1>7, <1>8

-----------------------------------------------------------------------------
(* Conflicts are between answers.                                           *)

Unanimous(answers) == \A i, j \in DOMAIN answers : answers[i] = answers[j]

\* Nobody contradicts himself but the user.
LEMMA ConflictIsBetweenAnswers ==
  ASSUME NEW k, IsContract(k), NEW draft \in DraftType, NEW request \in RequestType,
         NEW f \in DOMAIN k.inputs
  PROVE  Conflicting(Effective(Supplied(k, draft, request, f))) <=> ~Unanimous(request.answers[f])
<1> DEFINE e == Effective(Supplied(k, draft, request, f))
           answers == request.answers[f]
<1>0. f \in Fields /\ k.inputs[f] \in InputSpec /\ e \in SUBSET Supply /\ IsFiniteSet(e)
  BY SuppliesOf, EffectiveOf
<1>1. answers \in Seq(Values)
  BY <1>0 DEF RequestType
<1>2. CASE answers = <<>>
  <2> DEFINE known == From("model_inference", draft.inputs[f])
                      \cup From("application_context", request.context[f])
                      \cup From("user_request", request.text[f])
             default == From("contract_default", k.inputs[f].default)
  <2>1. AnswerSupply(request, f) = {}
    BY <1>2 DEF AnswerSupply
  <2>2. Supplied(k, draft, request, f) = IF known = {} THEN default ELSE known
    BY <2>1, SuppliedIs DEF RequestSupply, OrDefault
  <2>3. /\ draft.inputs[f] \in MaybeValue /\ request.context[f] \in MaybeValue
        /\ request.text[f] \in MaybeValue /\ k.inputs[f].default \in MaybeValue
    BY <1>0 DEF DraftType, RequestType, InputSpec, MaybeLiteral, MaybeValue, Values
  <2>4. {"model_inference", "application_context", "user_request", "contract_default"} \subseteq Sources
    BY DEF Sources
  <2>5. /\ \A s \in From("model_inference", draft.inputs[f]) :
             s.source = "model_inference" /\ s.value = draft.inputs[f]
        /\ \A s \in From("application_context", request.context[f]) :
             s.source = "application_context" /\ s.value = request.context[f]
        /\ \A s \in From("user_request", request.text[f]) :
             s.source = "user_request" /\ s.value = request.text[f]
        /\ \A s \in default : s.source = "contract_default" /\ s.value = k.inputs[f].default
    BY <2>3, <2>4, FromIsSmall
  <2>6. ASSUME NEW s \in known, NEW t \in known, s.source = t.source PROVE s.value = t.value
    BY <2>5, <2>6
  <2> HIDE DEF known, default
  <2>7. ASSUME NEW s \in e, NEW t \in e PROVE s = t
    <3>1. s \in Supply /\ t \in Supply
      BY <1>0, <2>7
    <3>2. Priority(s.source) <= Priority(t.source) /\ Priority(t.source) <= Priority(s.source)
      BY <2>7 DEF Effective
    <3>3. s.source \in Sources /\ t.source \in Sources
      BY <3>1 DEF Supply
    <3>4. Priority(s.source) = Priority(t.source)
      BY <3>2, <3>3, PriorityIsNat
    <3>5. s.source = t.source
      BY <3>3, <3>4, Priorities DEF Sources
    <3>6. s \in Supplied(k, draft, request, f) /\ t \in Supplied(k, draft, request, f)
      BY <2>7 DEF Effective
    <3>7. s.value = t.value
      BY <2>2, <2>5, <2>6, <3>5, <3>6
    <3> QED
      BY <3>1, <3>5, <3>7 DEF Supply
  <2>8. \E x : e \subseteq {x}
    BY <2>7
  <2>9. ~Conflicting(e)
    BY <2>8, SmallSet DEF Conflicting
  <2> QED
    BY <1>2, <2>9 DEF Unanimous
<1>3. CASE answers # <<>>
  <2>1. e = AnswerSupply(request, f)
    BY <1>3, AnswersPrevail
  <2>2. ASSUME Unanimous(answers) PROVE ~Conflicting(e)
    <3>1. 1 \in DOMAIN answers
      BY <1>1, <1>3, EndsOfSequence
    <3>2. e \subseteq {[source |-> "clarification_answer", value |-> answers[1]]}
      BY <2>1, <2>2, <3>1 DEF AnswerSupply, Unanimous
    <3> QED
      BY <3>2, SmallSet DEF Conflicting
  <2>3. ASSUME ~Unanimous(answers) PROVE Conflicting(e)
    <3>1. PICK i \in DOMAIN answers, j \in DOMAIN answers : answers[i] # answers[j]
      BY <2>3 DEF Unanimous
    <3> DEFINE a == [source |-> "clarification_answer", value |-> answers[i]]
               b == [source |-> "clarification_answer", value |-> answers[j]]
    <3>2. a \in e /\ b \in e
      BY <2>1 DEF AnswerSupply
    <3>3. a.value # b.value
      BY <3>1
    <3> HIDE DEF a, b, e
    <3>4. a # b
      BY <3>3
    <3> QED
      BY <1>0, <3>2, <3>4, SeveralAreCounted DEF Conflicting
  <2> QED
    BY <2>2, <2>3
<1> QED
  BY <1>2, <1>3

\* The gaps of field resolution, one by one.
LEMMA GapsOfField ==
  ASSUME NEW k, IsContract(k), NEW draft \in DraftType, NEW request \in RequestType,
         NEW f \in DOMAIN k.inputs, NEW g \in Resolved(k, draft, request, f).gaps
  PROVE  \/ g.kind = "unverifiable"
         \/ g \in ConflictGaps(k.inputs[f], f, Effective(Supplied(k, draft, request, f)))
<1> DEFINE e == Effective(Supplied(k, draft, request, f))
           spec == k.inputs[f]
           top == Top(request, e, f)
<1>1. Resolved(k, draft, request, f) = Resolution(spec, f, request, e)
  BY DEF Resolved
<1> HIDE DEF e, spec, top
<1>2. e # {}
  <2> SUFFICES ASSUME e = {} PROVE FALSE
    OBVIOUS
  <2>1. Resolution(spec, f, request, e) = [input |-> None, gaps |-> {}]
    BY DEF Resolution
  <2> QED
    BY <1>1, <2>1
<1>3. g \in ValueGaps(spec, f, top.value) \cup SourceGaps(spec, f, top.source) \cup ConflictGaps(spec, f, e)
  <2>1. Resolution(spec, f, request, e).gaps =
          (IF ValueGaps(spec, f, top.value) # {} THEN ValueGaps(spec, f, top.value)
           ELSE SourceGaps(spec, f, top.source)) \cup ConflictGaps(spec, f, e)
    BY <1>2 DEF Resolution, Chosen, Entered, top
  <2> QED
    BY <1>1, <2>1
<1>4. \A code : \A h \in Unverifiable(code, f) : h.kind = "unverifiable"
  BY DEF Unverifiable, Gap
<1>5. g \in ValueGaps(spec, f, top.value) => g.kind = "unverifiable"
  BY <1>4 DEF ValueGaps
<1>6. g \in SourceGaps(spec, f, top.source) => g.kind = "unverifiable"
  BY <1>4 DEF SourceGaps
<1> QED
  BY <1>3, <1>5, <1>6 DEF e, spec

\* A gap that the contract k as a whole has about field f, given these inputs.
OfContract(g, k, f, inputs) ==
  \/ g = Gap("missing", "missing", {f}, TRUE, {}) /\ f \notin DOMAIN inputs
  \/ \E c \in k.constraints :
       /\ Violated(c, RawValues(inputs))
       /\ g = Gap(c.code, "constraint", c.targets, c.blocking, {})

\* Where a gap of an analysis that is about field f comes from.
LEMMA GapIsFrom ==
  ASSUME NEW k, IsContract(k), NEW draft \in DraftType, NEW request \in RequestType,
         NEW g \in Analysis(k, draft, request).gaps, NEW f \in DOMAIN k.inputs, f \in g.targets
  PROVE  \/ g \in Resolved(k, draft, request, f).gaps
         \/ OfContract(g, k, f, Analysis(k, draft, request).inputs)
<1> DEFINE inputs == Analysis(k, draft, request).inputs
           values == RawValues(inputs)
           ofFields == UNION {Resolved(k, draft, request, h).gaps : h \in DOMAIN k.inputs}
<1>0. f # "terms"
  BY AnalysisAssumption DEF IsContract
<1>1. g \in ofFields \cup ContractGaps(k, DOMAIN inputs, values) \cup TermGaps(draft)
  BY AnalysisIs
<1>2. CASE g \in ofFields
  <2>1. PICK h \in DOMAIN k.inputs : g \in Resolved(k, draft, request, h).gaps
    BY <1>2
  <2>2. IsFieldGap(g, h)
    BY <2>1, ResolvedField
  <2>3. g.targets = {h}
    BY <2>2 DEF IsFieldGap
  <2> QED
    BY <2>1, <2>3
<1>3. CASE g \in ContractGaps(k, DOMAIN inputs, values)
  <2> HIDE DEF inputs, values
  <2>1. \/ \E h \in Required(k, values) \ DOMAIN inputs : g = Gap("missing", "missing", {h}, TRUE, {})
        \/ \E c \in {d \in k.constraints : Violated(d, values)} :
             g = Gap(c.code, "constraint", c.targets, c.blocking, {})
    BY <1>3, StandingAre DEF ContractGaps
  <2>2. CASE \E h \in Required(k, values) \ DOMAIN inputs : g = Gap("missing", "missing", {h}, TRUE, {})
    <3>1. PICK h \in Required(k, values) \ DOMAIN inputs : g = Gap("missing", "missing", {h}, TRUE, {})
      BY <2>2
    <3>2. h = f
      BY <3>1 DEF Gap
    <3> QED
      BY <3>1, <3>2 DEF inputs, OfContract
  <2> QED
    BY <2>1, <2>2 DEF inputs, values, OfContract
<1>4. CASE g \in TermGaps(draft)
  <2>1. g = Gap("terms", "ambiguous", {"terms"}, TRUE, {})
    BY <1>4 DEF TermGaps
  <2> QED
    BY <1>0, <2>1 DEF Gap
<1> HIDE DEF ofFields, inputs, values
<1> QED
  BY <1>1, <1>2, <1>3, <1>4

\* The literals that conditions see.
LEMMA RawValuesAre ==
  ASSUME NEW k, IsContract(k), NEW draft \in DraftType, NEW request \in RequestType
  PROVE  RawValues(Analysis(k, draft, request).inputs)
           \in UNION {[S -> Literals] : S \in SUBSET DOMAIN k.inputs}
<1> DEFINE inputs == Analysis(k, draft, request).inputs
           S == {g \in DOMAIN inputs : inputs[g].value \notin Refs}
<1>1. /\ DOMAIN inputs \subseteq DOMAIN k.inputs
      /\ \A f \in DOMAIN inputs : inputs[f] \in Supply
  BY AnalysisInputs
<1> HIDE DEF inputs
<1>2. \A f \in S : inputs[f].value \in Literals
  BY <1>1 DEF Supply, Values
<1>3. RawValues(inputs) = [f \in S |-> inputs[f].value]
  BY DEF RawValues
<1>4. S \in SUBSET DOMAIN k.inputs
  BY <1>1
<1> HIDE DEF S
<1>5. RawValues(inputs) \in [S -> Literals]
  BY <1>2, <1>3
<1> QED
  BY <1>4, <1>5 DEF inputs

-----------------------------------------------------------------------------
(* What the user has in mind settles a field.                               *)

\* The part of WantedSuffices about one input of one contract.
Suffices(k, f) ==
  /\ \/ Wanted[f] \in ValidRefs
     \/ /\ k.inputs[f].class # "secret" /\ k.inputs[f].read[Wanted[f]] \in k.inputs[f].accepts
        /\ Wanted[f] \in IF k.inputs[f].enum THEN k.inputs[f].accepts ELSE k.inputs[f].typed
  /\ \A c \in k.constraints : (c.blocking /\ f \in c.targets) =>
       \A values \in UNION {[S -> Literals] : S \in SUBSET DOMAIN k.inputs} :
         HoldsWanted(values, k.inputs[f], f) => ~Violated(c, values)

LEMMA SufficesIs ==
  ASSUME WantedSuffices, NEW cat \in Catalogs, NEW id \in DOMAIN cat,
         NEW f \in DOMAIN cat[id].inputs
  PROVE  Suffices(cat[id], f)
  BY DEF WantedSuffices, Suffices

LEMMA WantedIsValue ==
  ASSUME NEW k, IsContract(k), NEW f \in DOMAIN k.inputs, Suffices(k, f)
  PROVE  /\ Wanted[f] \in Values
         /\ Wanted[f] \notin Refs => Wanted[f] \in Literals /\ k.inputs[f].class # "secret"
         /\ ValueGaps(k.inputs[f], f, Wanted[f]) = {}
<1>1. k.inputs[f] \in InputSpec
  BY DEF IsContract
<1>2. k.inputs[f].accepts \subseteq Literals /\ k.inputs[f].typed \subseteq Literals
  BY <1>1 DEF InputSpec
<1>3. ValidRefs \subseteq Refs /\ Literals \cap Refs = {}
  BY AnalysisAssumption
<1> QED
  BY <1>2, <1>3 DEF Suffices, Values, ValueGaps

\* No question is asked about an input once the user has said what he means.
LEMMA WantedSettles ==
  ASSUME NEW k, IsContract(k), NEW draft \in DraftType, NEW request \in RequestType,
         NEW f \in DOMAIN k.inputs, Suffices(k, f), request.answers[f] # <<>>,
         \A i \in DOMAIN request.answers[f] : request.answers[f][i] = Wanted[f],
         NEW g \in Blocking(Analysis(k, draft, request).gaps)
  PROVE  f \notin g.targets
<1> DEFINE e == Effective(Supplied(k, draft, request, f))
           spec == k.inputs[f]
           top == Top(request, e, f)
           inputs == Analysis(k, draft, request).inputs
           input == [source |-> "clarification_answer", value |-> Known(Wanted[f], spec)]
<1>1. f \in Fields /\ spec \in InputSpec /\ request.answers[f] \in Seq(Values)
  BY SuppliesOf DEF RequestType
<1>2. 1 \in DOMAIN request.answers[f]
  BY <1>1, EndsOfSequence
<1>3. e = AnswerSupply(request, f)
  BY AnswersPrevail
<1>4. top = [source |-> "clarification_answer", value |-> Wanted[f]] /\ e # {}
  <2>1. [source |-> "clarification_answer", value |-> Wanted[f]] \in e
    BY <1>2, <1>3 DEF AnswerSupply
  <2> HIDE DEF e
  <2> QED
    BY <1>2, <2>1 DEF Top
<1>5. ~Conflicting(e)
  BY ConflictIsBetweenAnswers DEF Unanimous
<1>6. Permits(spec.policy, "clarification_answer")
  BY <1>1 DEF InputSpec, Permits
<1>7. ValueGaps(spec, f, Wanted[f]) = {} /\ Wanted[f] \in Values
  BY WantedIsValue
<1>8. Resolved(k, draft, request, f).input = input /\ Resolved(k, draft, request, f).gaps = {}
  <2>1. Resolved(k, draft, request, f) = Resolution(spec, f, request, e)
    BY DEF Resolved
  <2>2. top.source = "clarification_answer" /\ top.value = Wanted[f]
    BY <1>4
  <2>3. SourceGaps(spec, f, top.source) = {} /\ ConflictGaps(spec, f, e) = {}
    BY <1>5, <1>6, <2>2 DEF SourceGaps, ConflictGaps
  <2> HIDE DEF spec, e, top
  <2> QED
    BY <1>4, <1>7, <2>1, <2>2, <2>3, ResolutionIs DEF top
<1>9. input # None
  <2>1. Known(Wanted[f], spec) \in Values
    BY <1>1, <1>7, ValueGapsAre
  <2>2. input \in Supply
    BY <2>1 DEF Supply, Sources
  <2>3. Resolved(k, draft, request, f).input # None
    BY <1>8, <2>2, AnalysisAssumption DEF Supply, Values
  <2> QED
    BY <1>8, <2>3
<1>10. f \in DOMAIN inputs /\ inputs[f] = input
  BY <1>8, <1>9, AnalysisIs
<1>11. HoldsWanted(RawValues(inputs), spec, f)
  <2>1. CASE Wanted[f] \in Refs
    <3>1. input.value \in Refs
      BY <2>1 DEF Known
    <3> HIDE DEF input, inputs
    <3> QED
      BY <1>10, <2>1, <3>1 DEF HoldsWanted, RawValues
  <2>2. CASE Wanted[f] \notin Refs
    <3>1. input.value = spec.read[Wanted[f]]
      BY <2>2 DEF Known
    <3>2. spec.read[Wanted[f]] \in Literals /\ spec.read[Wanted[f]] \notin Refs
      BY <1>1, <2>2, WantedIsValue, AnalysisAssumption DEF InputSpec
    <3> HIDE DEF input, inputs, spec
    <3> QED
      BY <1>10, <2>2, <3>1, <3>2 DEF HoldsWanted, RawValues
  <2> QED
    BY <2>1, <2>2
<1> SUFFICES ASSUME f \in g.targets PROVE FALSE
  OBVIOUS
<1>12. g \in Analysis(k, draft, request).gaps /\ g.blocking
  BY DEF Blocking
<1>13. PICK c \in k.constraints : /\ Violated(c, RawValues(inputs))
                                  /\ g = Gap(c.code, "constraint", c.targets, c.blocking, {})
  <2>1. g \notin Resolved(k, draft, request, f).gaps /\ f \in DOMAIN inputs
    BY <1>8, <1>10
  <2> HIDE DEF inputs, input
  <2> QED
    BY <1>12, <2>1, GapIsFrom DEF inputs, OfContract
<1>14. c.blocking /\ f \in c.targets
  BY <1>12, <1>13 DEF Gap
<1> QED
  BY <1>11, <1>13, <1>14, RawValuesAre DEF Suffices

-----------------------------------------------------------------------------
(* What is asked about a field, and what an answer changes.                 *)

LEMMA PlannedIs ==
  ASSUME NEW k, NEW gaps, NEW q \in Planned(k, gaps)
  PROVE  /\ \E g \in Blocking(gaps) : q.target \in g.targets
         /\ q.choices = Choices(k, gaps, q.target)
<1> DEFINE targets == UNION {g.targets : g \in Blocking(gaps)}
           T == {u \in targets :
                   Cardinality({w \in targets \ {u} : Before(k, gaps, w, u)}) < MaxQuestions}
<1>1. Planned(k, gaps) = {[target |-> t, choices |-> Choices(k, gaps, t)] : t \in T}
  BY DEF Planned, PlannedFor
<1>2. T \subseteq targets
  OBVIOUS
<1> HIDE DEF T
<1>3. PICK t \in T : q = [target |-> t, choices |-> Choices(k, gaps, t)]
  BY <1>1
<1>4. t \in targets /\ q.target = t /\ q.choices = Choices(k, gaps, t)
  BY <1>2, <1>3
<1> QED
  BY <1>4

\* A gap that offers values is a conflict of answers, and offers all of them.
LEMMA ConflictOffersAnswers ==
  ASSUME NEW k, IsContract(k), NEW draft \in DraftType, NEW request \in RequestType,
         NEW f \in DOMAIN k.inputs,
         NEW g \in Analysis(k, draft, request).gaps, f \in g.targets, g.kind = "conflicting"
  PROVE  /\ ~Unanimous(request.answers[f])
         /\ g.choices # {} =>
              \A i \in DOMAIN request.answers[f] : request.answers[f][i] \in g.choices
<1> DEFINE e == Effective(Supplied(k, draft, request, f))
           spec == k.inputs[f]
           shown == IF spec.class = "public" THEN {s.value : s \in e} ELSE {}
<1>1. g \in Resolved(k, draft, request, f).gaps
  <2>1. \A inputs : ~OfContract(g, k, f, inputs)
    BY DEF OfContract, Gap
  <2> QED
    BY <2>1, GapIsFrom
<1>2. g \in ConflictGaps(spec, f, e)
  BY <1>1, GapsOfField
<1>3. Conflicting(e) /\ g = Gap("conflict", "conflicting", {f}, TRUE, shown)
  <2> HIDE DEF e
  <2> QED
    BY <1>2 DEF ConflictGaps
<1>4. ~Unanimous(request.answers[f])
  BY <1>3, ConflictIsBetweenAnswers
<1>5. e = AnswerSupply(request, f)
  <2>1. request.answers[f] # <<>>
    BY <1>4 DEF Unanimous
  <2> QED
    BY <2>1, AnswersPrevail
<1>6. ASSUME g.choices # {}, NEW i \in DOMAIN request.answers[f]
      PROVE  request.answers[f][i] \in g.choices
  <2>1. g.choices = shown
    BY <1>3 DEF Gap
  <2>2. g.choices = {s.value : s \in e}
    BY <1>6, <2>1
  <2>3. [source |-> "clarification_answer", value |-> request.answers[f][i]] \in e
    BY <1>5 DEF AnswerSupply
  <2> HIDE DEF e
  <2> QED
    BY <2>2, <2>3
<1> QED
  BY <1>4, <1>6

\* An answer that contradicts another leaves a conflict.
LEMMA ContradictionIsShown ==
  ASSUME NEW k, IsContract(k), NEW draft \in DraftType, NEW request \in RequestType,
         NEW f \in DOMAIN k.inputs, ~Unanimous(request.answers[f])
  PROVE  \E g \in Analysis(k, draft, request).gaps : g.kind = "conflicting" /\ f \in g.targets
<1> DEFINE e == Effective(Supplied(k, draft, request, f))
           spec == k.inputs[f]
           shown == IF spec.class = "public" THEN {s.value : s \in e} ELSE {}
           g == Gap("conflict", "conflicting", {f}, TRUE, shown)
<1>1. Conflicting(e)
  BY ConflictIsBetweenAnswers
<1>2. e # {}
  BY <1>1, FS_EmptySet DEF Conflicting
<1>3. Resolved(k, draft, request, f) = Resolution(spec, f, request, e)
  BY DEF Resolved
<1>4. ConflictGaps(spec, f, e) = {g}
  BY <1>1 DEF ConflictGaps
<1>5. g.kind = "conflicting" /\ f \in g.targets
  BY DEF Gap
<1> HIDE DEF e, spec, g
<1>6. ConflictGaps(spec, f, e) \subseteq Resolution(spec, f, request, e).gaps
  BY <1>2 DEF Resolution, Chosen, Entered
<1>7. g \in Analysis(k, draft, request).gaps
  BY <1>3, <1>4, <1>6, AnalysisIs
<1> QED
  BY <1>5, <1>7

LEMMA AskedField ==
  ASSUME Inv, WantedSuffices, Compatible, NEW f \in Asked \cap Fields
  PROVE  /\ session.request.answers[f] \in Seq(Values)
         /\ session.request.answers[f] # <<>> =>
              \E i \in DOMAIN session.request.answers[f] : session.request.answers[f][i] # Wanted[f]
         /\ ~Unanimous(session.request.answers[f]) => Resolving(f)
         /\ (\/ Unanimous(session.request.answers[f])
             \/ \E i \in DOMAIN session.request.answers[f] : session.request.answers[f][i] = Wanted[f])
            => Wanted[f] \in Admissible(QuestionAbout(f))
<1> DEFINE result == session.result
           request == session.request
           cat == session.catalog
           answers == request.answers[f]
           q == QuestionAbout(f)
<1>1. /\ request \in RequestType /\ cat \in Catalogs /\ Explained(result, cat, request)
  BY DEF Inv, Stored
<1>2. q \in result.questions /\ q.target = f
  BY AskedAre
<1>3. f # "capability" /\ f # "terms"
  BY AnalysisAssumption, DialogueAssumption
<1>4. ~IsUnsupported(result) /\ ~IsAmbiguous(result, cat)
  <2>1. Result("unsupported", None, <<>>, {}, {}).questions = {}
    BY DEF Result
  <2>2. \A ids : Ambiguous(ids).questions = {[target |-> "capability", choices |-> ids]}
    BY DEF Ambiguous, Result
  <2>3. \A ids : \A p \in Ambiguous(ids).questions : p.target = "capability"
    BY <2>2
  <2> QED
    BY <1>2, <1>3, <2>1, <2>3 DEF IsUnsupported, IsAmbiguous
<1>5. PICK id \in DOMAIN cat, d \in DraftType :
        result = JudgedOf(cat[id], id, Analysis(cat[id], d, request))
  BY <1>1, <1>4 DEF Explained, IsJudged
<1> DEFINE k == cat[id]
           gaps == Analysis(k, d, request).gaps
           spec == k.inputs[f]
<1>6. id \in Ids /\ id # None /\ IsContract(k)
  BY <1>1, CatalogOf
<1>7. result.selected = id /\ result.gaps = gaps /\ q \in Planned(k, gaps)
  BY <1>1, <1>2, <1>5, JudgedIs
<1>8. \A g \in gaps : IsGap(g, k)
  BY <1>1, <1>6, AnalysisGaps
<1>9. f \in DOMAIN k.inputs
  <2>1. q.target \in DOMAIN k.inputs \cup {"terms"}
    <3> HIDE DEF gaps, k
    <3> QED
      BY <1>7, <1>8, PlannedAsks
  <2> QED
    BY <1>2, <1>3, <2>1
<1>10. Suffices(k, f)
  BY <1>1, <1>9, SufficesIs
<1>11. answers \in Seq(Values)
  BY <1>1 DEF RequestType
<1>12. (\E g \in Blocking(gaps) : f \in g.targets) /\ q.choices = Choices(k, gaps, f)
  <2> HIDE DEF gaps, k
  <2> QED
    BY <1>2, <1>7, PlannedIs
<1>13. answers # <<>> => \E i \in DOMAIN answers : answers[i] # Wanted[f]
  BY <1>1, <1>6, <1>9, <1>10, <1>12, WantedSettles
<1>14. ~Unanimous(answers) => Resolving(f)
  BY <1>1, <1>6, <1>7, <1>9, ContradictionIsShown DEF Resolving
<1>15. id \in DOMAIN catalog /\ f \in DOMAIN catalog[id].inputs /\ catalog[id].inputs[f] = spec
  BY <1>6, <1>7, <1>9 DEF Compatible, OptionalAdditionOnly
<1>16. ASSUME Unanimous(answers) \/ \E i \in DOMAIN answers : answers[i] = Wanted[f]
       PROVE  Wanted[f] \in Admissible(q)
  <2>1. Admissible(q) = IF spec.class = "secret" THEN Refs
                        ELSE Refs \cup (IF spec.enum THEN q.choices \cap Literals ELSE spec.typed)
    <3> HIDE DEF spec
    <3> QED
      BY <1>2, <1>3, <1>7, <1>15 DEF Admissible
  <2>2. CASE Wanted[f] \in Refs
    BY <2>1, <2>2
  <2>3. CASE Wanted[f] \notin Refs
    <3>1. /\ Wanted[f] \in Literals /\ spec.class # "secret"
          /\ Wanted[f] \in IF spec.enum THEN spec.accepts ELSE spec.typed
      BY <1>6, <1>9, <1>10, <2>3, WantedIsValue, AnalysisAssumption DEF Suffices
    <3>2. Wanted[f] \in q.choices \/ ~spec.enum
      <4> DEFINE conflicts == {h \in GapsOf(gaps, f) : h.kind = "conflicting"}
                 offered == UNION {g.choices : g \in conflicts}
      <4>1. q.choices = IF offered # {} THEN offered ELSE IF spec.enum THEN spec.accepts ELSE {}
        BY <1>3, <1>12 DEF Choices
      <4>2. CASE offered = {}
        BY <3>1, <4>1, <4>2
      <4>3. CASE offered # {}
        <5>1. PICK g \in conflicts : g.choices # {}
          BY <4>3
        <5>2. g \in gaps /\ f \in g.targets /\ g.kind = "conflicting"
          BY <5>1 DEF GapsOf, Blocking
        <5>3. /\ ~Unanimous(answers)
              /\ \A i \in DOMAIN answers : answers[i] \in g.choices
          BY <1>1, <1>6, <1>9, <5>1, <5>2, ConflictOffersAnswers
        <5>4. Wanted[f] \in g.choices
          BY <1>16, <5>3
        <5> QED
          BY <4>1, <4>3, <5>1, <5>4
      <4> QED
        BY <4>2, <4>3
    <3> QED
      BY <2>1, <3>1, <3>2
  <2> QED
    BY <2>2, <2>3
<1> QED
  BY <1>11, <1>13, <1>14, <1>16

LEMMA RoundsAreFew ==
  ASSUME NEW f, NEW s
  PROVE  RoundsAbout(f, s) \in 0 .. 3
  BY DEF RoundsAbout

\* A single answer.
LEMMA OneAnswer ==
  ASSUME NEW f, NEW v
  PROVE  RoundsAbout(f, <<v>>) = IF v = Wanted[f] THEN 0 ELSE 2
  BY DEF RoundsAbout

\* An answer after some that all say the same.
LEMMA OneMoreAnswer ==
  ASSUME NEW f, NEW s \in Seq(Values), NEW v \in Values, Unanimous(s),
         s # <<>> => \E i \in DOMAIN s : s[i] # Wanted[f]
  PROVE  /\ v = Wanted[f] => RoundsAbout(f, Append(s, v)) < RoundsAbout(f, s)
         /\ RoundsAbout(f, Append(s, v)) <= RoundsAbout(f, s) + 1
<1> DEFINE t == Append(s, v)
<1>1. CASE s = <<>>
  <2>1. t = <<v>>
    BY <1>1
  <2>2. RoundsAbout(f, s) = 1
    BY <1>1 DEF RoundsAbout
  <2> HIDE DEF t
  <2> QED
    BY <2>1, <2>2, OneAnswer DEF t
<1>2. CASE s # <<>>
  <2>1. \A i \in DOMAIN s : s[i] # Wanted[f]
    BY <1>2 DEF Unanimous
  <2>2. RoundsAbout(f, s) = 2
    BY <1>2, <2>1 DEF RoundsAbout, Unanimous
  <2>3. 1 \in DOMAIN s /\ 1 \in DOMAIN t /\ t[1] = s[1] /\ t # <<>>
    BY <1>2
  <2>4. Len(s) + 1 \in DOMAIN t /\ t[Len(s) + 1] = v
    OBVIOUS
  <2> HIDE DEF t
  <2>5. ~ \A i \in DOMAIN t : t[i] = Wanted[f]
    BY <2>1, <2>3
  <2>6. v = Wanted[f] => RoundsAbout(f, t) = 1
    BY <2>3, <2>4, <2>5 DEF RoundsAbout
  <2> QED
    BY <2>2, <2>6, RoundsAreFew DEF t
<1> QED
  BY <1>1, <1>2

LEMMA MergedAnswers ==
  ASSUME Inv, NEW batch, NEW f \in Fields
  PROVE  Merged(batch).answers[f] =
           IF f \notin DOMAIN batch THEN session.request.answers[f]
           ELSE IF Resolving(f) THEN <<batch[f]>> ELSE Append(session.request.answers[f], batch[f])
<1>1. session.request \in RequestType
  BY DEF Inv, Stored
<1> QED
  BY <1>1 DEF Merged, RequestType

\* The answer to a question about f in an accepted batch.
LEMMA AnswerCounts ==
  ASSUME Inv, WantedSuffices, Compatible, NEW batch \in Batches, NEW f \in DOMAIN batch \cap Fields
  PROVE  /\ RoundsAbout(f, Merged(batch).answers[f]) <= RoundsAbout(f, session.request.answers[f]) + 1
         /\ f \notin Errors(batch) =>
              RoundsAbout(f, Merged(batch).answers[f]) < RoundsAbout(f, session.request.answers[f])
<1> DEFINE s == session.request.answers[f]
           new == Merged(batch).answers[f]
           v == batch[f]
<1>1. f \in Asked \cap Fields /\ v \in Values
  BY BatchIs
<1>2. /\ s \in Seq(Values)
      /\ s # <<>> => \E i \in DOMAIN s : s[i] # Wanted[f]
      /\ ~Unanimous(s) => Resolving(f)
      /\ (Unanimous(s) \/ \E i \in DOMAIN s : s[i] = Wanted[f]) => Wanted[f] \in Admissible(QuestionAbout(f))
  BY <1>1, AskedField
<1>3. new = IF Resolving(f) THEN <<v>> ELSE Append(s, v)
  BY MergedAnswers
<1>4. f \notin Errors(batch) => v = Wanted[f] \/ Wanted[f] \notin Admissible(QuestionAbout(f))
  BY DEF Errors
<1> HIDE DEF s, new, v
<1>5. CASE Unanimous(s) /\ ~Resolving(f)
  BY <1>1, <1>2, <1>3, <1>4, <1>5, OneMoreAnswer DEF s, new
<1>6. CASE Unanimous(s) /\ Resolving(f)
  <2>1. RoundsAbout(f, s) \in {1, 2}
    BY <1>2, <1>6 DEF RoundsAbout, Unanimous
  <2> QED
    BY <1>2, <1>3, <1>4, <1>6, <2>1, OneAnswer DEF s, new
<1>7. CASE ~Unanimous(s)
  <2>1. s # <<>> /\ Resolving(f)
    BY <1>2, <1>7 DEF Unanimous
  <2>2. RoundsAbout(f, s) = IF \E i \in DOMAIN s : s[i] = Wanted[f] THEN 1 ELSE 3
    BY <1>2, <1>7, <2>1 DEF RoundsAbout, Unanimous
  <2> QED
    BY <1>2, <1>3, <1>4, <2>1, <2>2, OneAnswer DEF s, new
<1> QED
  BY <1>5, <1>6, <1>7

-----------------------------------------------------------------------------
(* The static provider asks about inputs and the capability only.           *)

LEMMA NoTermGaps ==
  ASSUME NEW k, IsContract(k), NEW draft \in DraftType, ~draft.unresolved,
         NEW request \in RequestType, NEW g \in Analysis(k, draft, request).gaps
  PROVE  "terms" \notin g.targets
<1> DEFINE inputs == Analysis(k, draft, request).inputs
           values == RawValues(inputs)
           ofFields == UNION {Resolved(k, draft, request, f).gaps : f \in DOMAIN k.inputs}
<1>1. "terms" \notin DOMAIN k.inputs
  BY AnalysisAssumption DEF IsContract
<1>2. g \in ofFields \cup ContractGaps(k, DOMAIN inputs, values)
  <2>1. TermGaps(draft) = {}
    BY DEF TermGaps
  <2>2. g \in ofFields \cup ContractGaps(k, DOMAIN inputs, values) \cup TermGaps(draft)
    BY AnalysisIs
  <2> HIDE DEF ofFields, inputs, values
  <2> QED
    BY <2>1, <2>2
<1>3. CASE g \in ofFields
  <2>1. PICK f \in DOMAIN k.inputs : g \in Resolved(k, draft, request, f).gaps
    BY <1>3
  <2>2. IsFieldGap(g, f)
    BY <2>1, ResolvedField
  <2> QED
    BY <1>1, <2>2 DEF IsFieldGap
<1>4. CASE g \in ContractGaps(k, DOMAIN inputs, values)
  <2> HIDE DEF inputs, values
  <2>1. \/ \E h \in Required(k, values) \ DOMAIN inputs : g = Gap("missing", "missing", {h}, TRUE, {})
        \/ \E c \in {d \in k.constraints : Violated(d, values)} :
             g = Gap(c.code, "constraint", c.targets, c.blocking, {})
    BY <1>4, StandingAre DEF ContractGaps
  <2>2. \A h \in Required(k, values) : h \in DOMAIN k.inputs
    BY RequiredIsDeclared
  <2>3. \A c \in k.constraints : c.targets \subseteq DOMAIN k.inputs
    BY DEF IsContract, Constraint
  <2> QED
    BY <1>1, <2>1, <2>2, <2>3 DEF Gap
<1> QED
  BY <1>2, <1>3, <1>4

LEMMA StaticAsksNoTerms ==
  ASSUME Static, catalog \in Catalogs, NEW request \in RequestType,
         NEW result \in Outcomes(request), NEW q \in result.questions
  PROVE  q.target # "terms"
<1>1. PICK drafts \in Drafts(request) : result \in Compiled(request, drafts)
  BY DEF Outcomes
<1>2. DOMAIN drafts \subseteq DOMAIN catalog /\ \A id \in DOMAIN drafts : drafts[id] \in DraftType
  BY DraftsAre
<1>3. \A id \in DOMAIN drafts : drafts[id] = Draft(Nothing, FALSE)
  BY <1>1 DEF Drafts
<1>4. \/ \E id \in Selectable(DOMAIN drafts) :
           result = Judged(id, Analysis(catalog[id], drafts[id], request))
      \/ result = Ambiguous(DOMAIN drafts)
      \/ result = Result("unsupported", None, <<>>, {}, {})
  BY <1>1 DEF Compiled
<1>5. CASE \E id \in Selectable(DOMAIN drafts) :
             result = Judged(id, Analysis(catalog[id], drafts[id], request))
  <2>1. PICK id \in DOMAIN drafts : result = Judged(id, Analysis(catalog[id], drafts[id], request))
    BY <1>5 DEF Selectable
  <2> DEFINE k == catalog[id]
             gaps == Analysis(k, drafts[id], request).gaps
  <2>2. IsContract(k) /\ ~drafts[id].unresolved /\ drafts[id] \in DraftType
    BY <1>2, <1>3, <2>1, CatalogOf DEF Draft
  <2>3. q \in Planned(k, gaps)
    BY <2>1 DEF Judged, Result
  <2>4. PICK g \in Blocking(gaps) : q.target \in g.targets
    <3> HIDE DEF gaps, k
    <3> QED
      BY <2>3, PlannedIs
  <2>5. g \in gaps
    BY <2>4 DEF Blocking
  <2> QED
    BY <2>2, <2>4, <2>5, NoTermGaps
<1>6. CASE result = Ambiguous(DOMAIN drafts)
  BY <1>6 DEF Ambiguous, Result
<1>7. CASE result = Result("unsupported", None, <<>>, {}, {})
  BY <1>7 DEF Result
<1> QED
  BY <1>4, <1>5, <1>6, <1>7

-----------------------------------------------------------------------------
(* The rounds are counted in every step.                                    *)

RoundsInv == Inv /\ RoundsAreCounted /\ NoTermsAsked

LEMMA RoundsLeftAre ==
  ASSUME NEW request, NEW t \in Topics
  PROVE  /\ RoundsLeft(request)[t] \in 0 .. 3
         /\ t = "capability" => RoundsLeft(request)[t] = IF request.requested = None THEN 1 ELSE 0
         /\ t \in Fields => RoundsLeft(request)[t] = RoundsAbout(t, request.answers[t])
<1>1. "capability" \notin Fields
  BY DialogueAssumption
<1> QED
  BY <1>1, RoundsAreFew DEF RoundsLeft, Topics

\* A request begins its rounds anew: whatever it asks, the bound is met.
LEMMA FirstRound ==
  ASSUME NEW request, NEW revision \in {-1, 0}, NEW wrong \in Nat,
         Cardinality(Extra(RoundsLeft(request))) <= wrong
  PROVE  revision + Cardinality(Pairs(RoundsLeft(request))) <= 1 + Cardinality(Fields) + 2 * wrong
<1>1. /\ Cardinality(Pairs(RoundsLeft(request)))
           <= 1 + Cardinality(Fields) + Cardinality(Extra(RoundsLeft(request)))
      /\ Cardinality(Pairs(RoundsLeft(request))) \in Nat
      /\ Cardinality(Extra(RoundsLeft(request))) \in Nat
  BY PairsAreFew, PairsAreFinite
<1>2. Cardinality(Fields) \in Nat
  BY AnalysisAssumption, FS_CardinalityType
<1> QED
  BY <1>1, <1>2

LEMMA UnansweredRequest ==
  ASSUME NEW request, request.answers = Empty.answers
  PROVE  Cardinality(Extra(RoundsLeft(request))) = 0
<1>1. \A f \in Fields : request.answers[f] = <<>>
  BY EmptyIsRequest
<1>2. \A t \in Topics : RoundsLeft(request)[t] \in {0, 1}
  BY <1>1, RoundsLeftAre DEF Topics, RoundsAbout
<1>3. Extra(RoundsLeft(request)) = {}
  BY <1>2 DEF Extra, Pairs
<1> QED
  BY <1>3, FS_EmptySet

LEMMA InitRounds == Init => RoundsInv
<1> SUFFICES ASSUME Init PROVE RoundsInv
  OBVIOUS
<1>1. /\ session.revision = -1 /\ session.request = Empty /\ mistakes = 0
      /\ session.result = Result("unsupported", None, <<>>, {}, {})
  BY DEF Init
<1>2. Cardinality(Extra(RoundsLeft(session.request))) = 0
  BY <1>1, UnansweredRequest
<1>3. RoundsAreCounted
  BY <1>1, <1>2, FirstRound DEF RoundsAreCounted
<1>4. NoTermsAsked
  BY <1>1 DEF NoTermsAsked, Asked, Result
<1> QED
  BY <1>3, <1>4, InitInv DEF RoundsInv

\* What is stored asks about no terms.
LEMMA StoredAsksNoTerms ==
  ASSUME Inv, Static, NEW request \in RequestType, session'.result \in Outcomes(request)
  PROVE  NoTermsAsked'
<1>1. \A q \in session'.result.questions : q.target # "terms"
  BY StaticAsksNoTerms DEF Inv
<1> QED
  BY <1>1 DEF NoTermsAsked, Asked

LEMMA CompileRounds == RoundsInv /\ Static /\ Compile => RoundsInv'
<1> SUFFICES ASSUME RoundsInv, Static, Compile PROVE RoundsInv'
  OBVIOUS
<1>1. PICK c \in Contexts, id \in Forced :
        Store(0, [Empty EXCEPT !.context = c.context, !.text = c.text, !.requested = id])
  BY DEF Compile
<1> DEFINE request == [Empty EXCEPT !.context = c.context, !.text = c.text, !.requested = id]
<1>2. /\ c.context \in [Fields -> MaybeValue] /\ c.text \in [Fields -> MaybeLiteral]
      /\ id \in Ids \cup {None}
  BY DialogueAssumption DEF MaybeValue, MaybeLiteral, Values
<1>3. request \in RequestType /\ request.answers = Empty.answers
  BY <1>2, EmptyIsRequest DEF RequestType
<1>4. 0 \in 0 .. MaxRevision /\ catalog' = catalog /\ mistakes' = mistakes
  BY DialogueAssumption DEF Compile
<1>5. Store(0, request)
  BY <1>1
<1> HIDE DEF request
<1>6. session'.revision = 0 /\ session'.request = request /\ session'.result \in Outcomes(request)
  BY <1>3, <1>4, <1>5, Storing DEF RoundsInv
<1>7. mistakes \in Nat
  BY DialogueAssumption DEF RoundsInv, Inv, Counters
<1>8. Cardinality(Extra(RoundsLeft(request))) = 0
  BY <1>3, UnansweredRequest
<1>9. 0 + Cardinality(Pairs(RoundsLeft(request))) <= 1 + Cardinality(Fields) + 2 * mistakes
  BY <1>7, <1>8, FirstRound
<1>10. RoundsAreCounted'
  BY <1>4, <1>6, <1>7, <1>8, <1>9 DEF RoundsAreCounted
<1>11. NoTermsAsked'
  BY <1>3, <1>6, StoredAsksNoTerms DEF RoundsInv
<1> QED
  BY <1>10, <1>11, CompileInv DEF RoundsInv

\* The choice of the capability is asked for once.
LEMMA CapabilityIsOpen ==
  ASSUME Inv, Static, "capability" \in Asked
  PROVE  session.request.requested = None
<1> DEFINE result == session.result
           request == session.request
           cat == session.catalog
<1>1. request \in RequestType /\ cat \in Catalogs /\ Explained(result, cat, request)
  BY DEF Inv, Stored
<1>2. PICK q \in result.questions : q.target = "capability"
  BY DEF Asked
<1>3. ~IsUnsupported(result)
  BY <1>2 DEF IsUnsupported, Result
<1>4. ~IsJudged(result, cat, request)
  <2> SUFFICES ASSUME NEW id \in DOMAIN cat, NEW d \in DraftType,
                      result = JudgedOf(cat[id], id, Analysis(cat[id], d, request))
               PROVE  FALSE
    BY DEF IsJudged
  <2> DEFINE gaps == Analysis(cat[id], d, request).gaps
  <2>1. IsContract(cat[id])
    BY <1>1, CatalogOf
  <2>2. \A g \in gaps : IsGap(g, cat[id])
    BY <1>1, <2>1, AnalysisGaps
  <2>3. q \in Planned(cat[id], gaps)
    BY <1>1, <1>2, JudgedIs
  <2>4. q.target \in DOMAIN cat[id].inputs \cup {"terms"}
    <3> HIDE DEF gaps
    <3> QED
      BY <2>2, <2>3, PlannedAsks
  <2>5. "capability" \notin DOMAIN cat[id].inputs
    BY <2>1, DialogueAssumption DEF IsContract
  <2> QED
    BY <1>2, <2>4, <2>5
<1>5. IsAmbiguous(result, cat)
  BY <1>1, <1>3, <1>4 DEF Explained
<1>6. result.selected = None /\ result.status = "ambiguous"
  BY <1>5 DEF IsAmbiguous, Ambiguous, Result
<1>7. session.revision >= 0
  <2>1. session.revision \in -1 .. MaxRevision
    BY DEF Inv, Stored
  <2>2. session.revision # -1
    BY <1>3 DEF Inv, Stored
  <2> QED
    BY <2>1, <2>2, DialogueAssumption
<1> QED
  BY <1>6, <1>7 DEF Inv, Stored, Forces

\* One accepted batch: the rounds that are left become fewer, but for the mistakes.
LEMMA BatchCounts ==
  ASSUME RoundsInv, Static, WantedSuffices, Compatible, NEW batch \in Batches
  PROVE  /\ Cardinality(Extra(RoundsLeft(Merged(batch))))
              <= Cardinality(Extra(RoundsLeft(session.request))) + Cardinality(Errors(batch))
         /\ 1 + Cardinality(Pairs(RoundsLeft(Merged(batch))))
              <= Cardinality(Pairs(RoundsLeft(session.request))) + 2 * Cardinality(Errors(batch))
<1> DEFINE m == RoundsLeft(session.request)
           n == RoundsLeft(Merged(batch))
           D == DOMAIN batch
           E == Errors(batch) \cap Fields
<1>1. Inv /\ "terms" \notin Asked /\ session.request \in RequestType
  BY DEF RoundsInv, NoTermsAsked, Inv, Stored
<1>2. D \subseteq Asked /\ D # {}
  <2>1. D # {}
    BY DEF Batches
  <2> QED
    BY <1>1, <2>1, BatchIs
<1>3. D \in SUBSET Topics /\ E \in SUBSET D
  BY <1>1, <1>2, AskedAre DEF Topics, Errors
<1>4. Merged(batch).requested = IF "capability" \in D THEN batch["capability"]
                                ELSE session.request.requested
  BY <1>1 DEF Merged, RequestType
<1>5. \A t \in Topics : m[t] \in 0 .. 3 /\ n[t] \in 0 .. 3
  BY RoundsLeftAre
<1>6. ASSUME NEW t \in Topics \ D PROVE n[t] <= m[t]
  <2>1. n[t] = m[t]
    <3>1. CASE t = "capability"
      BY <1>4, <1>6, <3>1, RoundsLeftAre
    <3>2. CASE t \in Fields
      <4>1. Merged(batch).answers[t] = session.request.answers[t]
        BY <1>1, <1>6, <3>2, MergedAnswers
      <4> QED
        BY <3>2, <4>1, RoundsLeftAre
    <3> QED
      BY <3>1, <3>2 DEF Topics
  <2> QED
    BY <1>5, <1>6, <2>1
<1>7. ASSUME NEW t \in D \cap Fields
      PROVE  n[t] <= m[t] + 1 /\ (t \notin E => n[t] < m[t])
  <2>1. m[t] = RoundsAbout(t, session.request.answers[t])
        /\ n[t] = RoundsAbout(t, Merged(batch).answers[t])
    BY <1>3, RoundsLeftAre
  <2>2. t \notin E => t \notin Errors(batch)
    OBVIOUS
  <2> HIDE DEF m, n, E
  <2> QED
    BY <1>1, <2>1, <2>2, AnswerCounts
<1>8. ASSUME "capability" \in D PROVE n["capability"] < m["capability"]
  <2>1. session.request.requested = None
    BY <1>1, <1>2, <1>8, CapabilityIsOpen
  <2>2. Merged(batch).requested # None
    BY <1>1, <1>4, <1>8, BatchIs, DialogueAssumption
  <2>3. m["capability"] = 1 /\ n["capability"] = 0
    BY <2>1, <2>2, RoundsLeftAre DEF Topics
  <2> QED
    BY <2>3
<1>9. (\A t \in D \ E : n[t] < m[t]) /\ (\A t \in E : n[t] <= m[t] + 1)
  <2>1. E \subseteq D \cap Fields /\ D \subseteq Topics
    BY <1>3
  <2> HIDE DEF m, n, D, E
  <2> QED
    BY <1>7, <1>8, <2>1 DEF Topics
<1>10. /\ Cardinality(Extra(n)) <= Cardinality(Extra(m)) + Cardinality(E)
       /\ 1 + Cardinality(Pairs(n)) <= Cardinality(Pairs(m)) + 2 * Cardinality(E)
  <2> HIDE DEF m, n, D, E
  <2> QED
    BY <1>2, <1>3, <1>5, <1>6, <1>9, RoundCounts
<1>11. Cardinality(E) <= Cardinality(Errors(batch)) /\ Cardinality(E) \in Nat
       /\ Cardinality(Errors(batch)) \in Nat
  <2>1. Errors(batch) \subseteq Asked
    BY <1>1, BatchIs DEF Errors
  <2>2. IsFiniteSet(Errors(batch))
    BY <1>1, <2>1, AskedAre, FS_Subset
  <2>3. E \subseteq Errors(batch)
    OBVIOUS
  <2> HIDE DEF E
  <2> QED
    BY <2>2, <2>3, FS_Subset, FS_CardinalityType
<1> HIDE DEF m, n, D, E
<1>12. /\ Cardinality(Extra(n)) \in Nat /\ Cardinality(Extra(m)) \in Nat
       /\ Cardinality(Pairs(n)) \in Nat /\ Cardinality(Pairs(m)) \in Nat
  BY PairsAreFinite
<1> QED
  BY <1>10, <1>11, <1>12 DEF m, n

LEMMA ContinueRounds ==
  ASSUME RoundsInv, Static, WantedSuffices, NEW batch \in Batches, Continue(batch)
  PROVE  RoundsInv'
<1>1. /\ Store(session.revision + 1, Merged(batch)) /\ catalog' = catalog /\ Compatible
      /\ mistakes' = mistakes + Cardinality(Errors(batch))
      /\ session.revision \in 0 .. MaxRevision - 1
  BY DEF Continue
<1>2. session.revision + 1 \in 0 .. MaxRevision
  BY <1>1, DialogueAssumption
<1>3. Inv /\ Merged(batch) \in RequestType
  BY MergedIs DEF RoundsInv
<1>4. /\ session'.revision = session.revision + 1 /\ session'.request = Merged(batch)
      /\ session'.result \in Outcomes(Merged(batch))
  BY <1>1, <1>2, <1>3, Storing
<1> DEFINE m == RoundsLeft(session.request)
           n == RoundsLeft(Merged(batch))
           errors == Cardinality(Errors(batch))
<1>5. /\ Cardinality(Extra(n)) <= Cardinality(Extra(m)) + errors
      /\ 1 + Cardinality(Pairs(n)) <= Cardinality(Pairs(m)) + 2 * errors
  BY <1>1, BatchCounts
<1>6. /\ Cardinality(Extra(m)) <= mistakes
      /\ session.revision + Cardinality(Pairs(m)) <= 1 + Cardinality(Fields) + 2 * mistakes
  BY DEF RoundsInv, RoundsAreCounted
<1>7. errors \in Nat /\ mistakes \in Nat /\ session.revision \in Int /\ Cardinality(Fields) \in Nat
  <2>1. mistakes \in 0 .. MaxMistakes /\ MaxMistakes \in Nat
    BY <1>3, DialogueAssumption DEF Inv, Counters
  <2>2. Cardinality(Fields) \in Nat
    BY AnalysisAssumption, FS_CardinalityType
  <2> QED
    BY <1>1, <1>3, <2>1, <2>2, ErrorsAreCounted, DialogueAssumption
<1>8. RoundsAreCounted'
  <2>1. /\ session'.request = Merged(batch) /\ mistakes' = mistakes + errors
        /\ session'.revision = session.revision + 1
    BY <1>1, <1>4
  <2>2. /\ Cardinality(Extra(n)) \in Nat /\ Cardinality(Extra(m)) \in Nat
        /\ Cardinality(Pairs(n)) \in Nat /\ Cardinality(Pairs(m)) \in Nat
    BY PairsAreFinite
  <2>3. RoundsLeft(session'.request) = n
    BY <2>1
  <2> HIDE DEF m, n, errors
  <2>4. /\ Cardinality(Extra(n)) <= mistakes + errors
        /\ session.revision + 1 + Cardinality(Pairs(n))
             <= 1 + Cardinality(Fields) + 2 * (mistakes + errors)
    BY <1>5, <1>6, <1>7, <2>2
  <2> QED
    BY <2>1, <2>3, <2>4 DEF RoundsAreCounted
<1>9. NoTermsAsked'
  BY <1>3, <1>4, StoredAsksNoTerms
<1> QED
  BY <1>3, <1>8, <1>9, ContinueInv DEF RoundsInv

LEMMA RestartRounds == RoundsInv /\ Static /\ Restart => RoundsInv'
<1> SUFFICES ASSUME RoundsInv, Static, Restart PROVE RoundsInv'
  OBVIOUS
<1> DEFINE answers == [f \in Fields |-> IF f \in Declared THEN session.request.answers[f] ELSE <<>>]
           requested == IF session.request.requested \in DOMAIN catalog
                        THEN session.request.requested ELSE None
           request == [session.request EXCEPT !.answers = answers, !.requested = requested]
<1>1. Store(0, request) /\ catalog' = catalog /\ mistakes' = mistakes
  BY DEF Restart
<1>2. Inv /\ session.request \in RequestType
  BY DEF RoundsInv, Inv, Stored
<1>3. answers \in [Fields -> Seq(Values)] /\ requested \in Ids \cup {None}
  BY <1>2 DEF RequestType
<1>4. request \in RequestType /\ request.answers = answers
  <2> HIDE DEF answers, requested
  <2> QED
    BY <1>2, <1>3 DEF RequestType
<1>5. \A f \in Fields : answers[f] \in {session.request.answers[f], <<>>}
  OBVIOUS
<1>6. 0 \in 0 .. MaxRevision
  BY DialogueAssumption
<1> HIDE DEF answers, request
<1>7. session'.revision = 0 /\ session'.request = request /\ session'.result \in Outcomes(request)
  BY <1>1, <1>2, <1>4, <1>6, Storing
<1> DEFINE m == RoundsLeft(session.request)
           n == RoundsLeft(request)
<1>8. Extra(n) \subseteq Extra(m)
  <2> SUFFICES ASSUME NEW t \in Topics, n[t] >= 2 PROVE n[t] = m[t]
    <3>1. \A t \in Topics : n[t] \in 0 .. 3
      BY RoundsLeftAre
    <3>2. ASSUME NEW p \in Extra(n) PROVE p \in Extra(m)
      <4>1. PICK t \in Topics, i \in 1 .. 3 : p = <<t, i>>
        BY <3>2 DEF Extra, Pairs
      <4> HIDE DEF m, n
      <4>2. i >= 2 /\ i <= n[t]
        BY <4>1, <3>2 DEF Extra, Pairs
      <4>3. n[t] = m[t]
        BY <3>1, <4>2
      <4> QED
        BY <4>1, <4>2, <4>3 DEF Extra, Pairs
    <3> QED
      BY <3>2
  <2>1. n[t] = RoundsAbout(t, answers[t]) /\ m[t] = RoundsAbout(t, session.request.answers[t])
        /\ t \in Fields
    BY <1>4, RoundsLeftAre DEF Topics
  <2>2. answers[t] # <<>>
    BY <2>1 DEF RoundsAbout
  <2> QED
    BY <1>5, <2>1, <2>2
<1>9. Cardinality(Extra(n)) <= Cardinality(Extra(m))
  BY <1>8, PairsAreFinite, FS_Subset
<1>10. Cardinality(Extra(m)) <= mistakes /\ mistakes \in Nat
  BY DialogueAssumption DEF RoundsInv, RoundsAreCounted, Inv, Counters
<1>11. Cardinality(Extra(n)) <= mistakes
  BY <1>9, <1>10, PairsAreFinite
<1>12. 0 + Cardinality(Pairs(n)) <= 1 + Cardinality(Fields) + 2 * mistakes
  BY <1>10, <1>11, FirstRound
<1>13. RoundsAreCounted'
  BY <1>1, <1>7, <1>11, <1>12 DEF RoundsAreCounted
<1>14. NoTermsAsked'
  BY <1>2, <1>4, <1>7, StoredAsksNoTerms
<1> QED
  BY <1>2, <1>13, <1>14, RestartInv DEF RoundsInv

LEMMA StepRounds ==
  ASSUME Static, WantedSuffices, RoundsInv, [Next]_vars
  PROVE  RoundsInv'
<1>1. CASE Compile
  BY <1>1, CompileRounds
<1>2. CASE Answering
  BY <1>2, ContinueRounds DEF Answering
<1>3. CASE Restart
  BY <1>3, RestartRounds
<1>4. CASE ChangeCatalog
  <2>1. session' = session /\ mistakes' = mistakes
    BY <1>4 DEF ChangeCatalog
  <2>2. Inv'
    BY StepInv DEF RoundsInv
  <2> QED
    BY <2>1, <2>2 DEF RoundsInv, RoundsAreCounted, NoTermsAsked, Asked
<1>5. CASE UNCHANGED vars
  <2>1. session' = session /\ mistakes' = mistakes
    BY <1>5 DEF vars
  <2>2. Inv'
    BY StepInv DEF RoundsInv
  <2> QED
    BY <2>1, <2>2 DEF RoundsInv, RoundsAreCounted, NoTermsAsked, Asked
<1> QED
  BY <1>1, <1>2, <1>3, <1>4, <1>5 DEF Next, Finished

LEMMA CountedIsBounded == RoundsInv => RoundsAreBounded
<1> SUFFICES ASSUME RoundsInv PROVE RoundsAreBounded
  OBVIOUS
<1>1. session.revision + Cardinality(Pairs(RoundsLeft(session.request)))
        <= 1 + Cardinality(Fields) + 2 * mistakes
  BY DEF RoundsInv, RoundsAreCounted
<1>2. Cardinality(Pairs(RoundsLeft(session.request))) \in Nat
  BY PairsAreFinite
<1>3. session.revision \in Int /\ mistakes \in Nat /\ Cardinality(Fields) \in Nat
  <2>1. session.revision \in -1 .. MaxRevision /\ mistakes \in 0 .. MaxMistakes
    BY DEF RoundsInv, Inv, Stored, Counters
  <2> QED
    BY <2>1, AnalysisAssumption, DialogueAssumption, FS_CardinalityType
<1> QED
  BY <1>1, <1>2, <1>3 DEF RoundsAreBounded

\* With the static provider, and contracts whose constraints each of the user's
\* answers meets alone (WantedSuffices), a dialogue is over after one round for the
\* capability, one for each input and two for each mistake, whatever the contracts
\* and the order of the answers, the corrections, restarts and catalog changes.
THEOREM RoundsEnd == Static /\ WantedSuffices => (Spec => []RoundsAreBounded)
<1> SUFFICES ASSUME Static, WantedSuffices PROVE Spec => []RoundsAreBounded
  OBVIOUS
<1>1. Init => RoundsInv
  BY InitRounds
<1>2. RoundsInv /\ [Next]_vars => RoundsInv'
  BY StepRounds
<1>3. RoundsInv => RoundsAreBounded
  BY CountedIsBounded
<1> QED
  BY <1>1, <1>2, <1>3, PTL DEF Spec

=============================================================================
