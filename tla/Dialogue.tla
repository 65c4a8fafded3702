------------------------------ MODULE Dialogue ------------------------------
(***************************************************************************)
(* One compilation session from the first request to a dispatch-ready      *)
(* intent: TaskCompiler.compile_async, continue_async and                  *)
(* restart_from_session_async (src/taskc/api.py) with what                 *)
(* CompilerPipeline.compile (src/taskc/compiler/pipeline.py) decides about *)
(* the drafts of its provider.  Module Sessions interleaves such calls and *)
(* leaves their results open; here one call runs at a time and its result  *)
(* is computed from the contracts, so the module shows how the answers of  *)
(* several rounds add up.  Calls that are refused change nothing and are   *)
(* no actions.                                                             *)
(*                                                                         *)
(* The user may be mistaken MaxMistakes times; otherwise every answer is   *)
(* what Wanted says.  The host may replace the catalog MaxChanges times    *)
(* and restart the session MaxRestarts times.                              *)
(***************************************************************************)
EXTENDS CandidateAnalysis

CONSTANTS
  Ids,              \* exact capability references, id@version
  Catalogs,         \* the catalogs in use: functions from some Ids to contracts
  Static,           \* the StaticInterpretationProvider (or a model) is used
  Inferences,       \* inputs that a model provider may put into a draft
  AutoSelect,       \* auto_select_candidate, with a calibrated provider
  Contexts,         \* the context and text values of first requests
  Forced,           \* requested_capability of first requests, or None
  TextAnswers,      \* answers to the question about unresolved terms
  Assigns,          \* text answer -> the assignments "field: value" it contains
  Wanted,           \* target -> the answer the user has in mind
  MaxMistakes,      \* bound on the answers that differ from Wanted
  MaxChanges,       \* bound on the changes of the catalog
  MaxRestarts,      \* bound on the restarts
  MaxRevision       \* bound on the rounds of one session

ASSUME DialogueAssumption ==
  /\ Static \in BOOLEAN /\ AutoSelect \in BOOLEAN
  /\ Inferences \subseteq [Fields -> Literals \cup {None}]
  /\ Forced \subseteq Ids \cup {None}
  /\ None \notin Ids /\ "capability" \notin Fields
  /\ \A cat \in Catalogs : DOMAIN cat \subseteq Ids /\ \A id \in DOMAIN cat : IsContract(cat[id])
  /\ Contexts \subseteq [context : [Fields -> Literals \cup Refs \cup {None}],
                         text : [Fields -> Literals \cup {None}]]
  /\ Refs # {} /\ TextAnswers # {}  \* a reference and a text are always admissible
  /\ Assigns \in [TextAnswers -> [Fields -> Literals \cup {None}]]
  /\ MaxMistakes \in Nat /\ MaxChanges \in Nat /\ MaxRestarts \in Nat
  /\ MaxRevision \in 0 .. 10     \* source_ref sorts as text: q-10 before q-2

VARIABLES
  catalog,          \* the catalog of the running compiler
  session,          \* the stored session; revision -1 before the first result
  said,             \* field -> the answer last accepted for it (history)
  mistakes,         \* answers that differed from Wanted (history)
  changes,          \* changes of the catalog (history)
  restarts          \* restarts of the session (history)

vars == <<catalog, session, said, mistakes, changes, restarts>>

Nothing == [f \in Fields |-> None]

Empty == [context |-> Nothing, text |-> Nothing, answers |-> [f \in Fields |-> <<>>],
          requested |-> None]

Result(status, selected, inputs, gaps, questions) ==
  [status |-> status, selected |-> selected, inputs |-> inputs, gaps |-> gaps,
   questions |-> questions]

-----------------------------------------------------------------------------
(* The pipeline.                                                            *)

Draft(inputs, unresolved) == [inputs |-> inputs, unresolved |-> unresolved]

\* Faulty variant of Drafts: no provider looks at the requested capability.
DraftsOfWords(request) ==
  UNION {[m -> {Draft(Nothing, FALSE)}] : m \in SUBSET DOMAIN catalog}

\* The drafts a provider may return for a request: which capabilities match is
\* up to the words of the request, but the static provider keeps to the
\* requested one; a model fills in inputs and terms of its own.
Drafts(request) ==
  LET known == DOMAIN catalog
      matches == IF Static /\ request.requested # None
                 THEN {known \cap {request.requested}} ELSE SUBSET known
      drafts == IF Static THEN {Draft(Nothing, FALSE)}
                ELSE [inputs : Inferences, unresolved : BOOLEAN]
  IN  UNION {[m -> drafts] : m \in matches}

\* Faulty variant of Ambiguous: one of the candidates is selected already.
AmbiguousButSelected(ids) ==
  Result("ambiguous", CHOOSE id \in ids : TRUE, <<>>,
         {Gap("capability", "ambiguous", {"capability"}, TRUE, ids)},
         {[target |-> "capability", choices |-> ids]})

\* Several candidates are plausible: the user is asked to choose one.
Ambiguous(ids) ==
  Result("ambiguous", None, <<>>,
         {Gap("capability", "ambiguous", {"capability"}, TRUE, ids)},
         {[target |-> "capability", choices |-> ids]})

\* The selected candidate's analysis makes it ready, or its questions are planned.
Judged(id, a) ==
  IF IsReady(a.gaps) THEN Result("ready", id, a.inputs, a.gaps, {})
  ELSE Result(IF \E g \in Blocking(a.gaps) : g.kind = "conflicting"
              THEN "conflicting" ELSE "needs_clarification",
              id, a.inputs, a.gaps, Planned(catalog[id], a.gaps))

\* The candidates that may be selected: the only one, or with automatic
\* selection whichever the scores (left open) put first by the margin.
Selectable(ids) == IF Cardinality(ids) = 1 \/ AutoSelect THEN ids ELSE {}

\* CompilerPipeline.compile on given drafts.
Compiled(request, drafts) ==
  LET ids == DOMAIN drafts IN
  {Judged(id, Analysis(catalog[id], drafts[id], request)) : id \in Selectable(ids)}
  \cup (IF Cardinality(ids) > 1 THEN {Ambiguous(ids)} ELSE {})
  \cup (IF ids = {} THEN {Result("unsupported", None, <<>>, {}, {})} ELSE {})

Outcomes(request) == UNION {Compiled(request, drafts) : drafts \in Drafts(request)}

-----------------------------------------------------------------------------
(* Merging answers.                                                         *)

\* What _validate_answer and the merging loop accept for a question.
Admissible(q) ==
  IF q.target = "capability" THEN q.choices \cap DOMAIN catalog
  ELSE IF q.target = "terms" THEN TextAnswers
  ELSE LET id == session.result.selected
           spec == catalog[id].inputs[q.target] IN
       IF id \notin DOMAIN catalog \/ q.target \notin DOMAIN catalog[id].inputs THEN {}
       ELSE IF spec.class = "secret" THEN Refs
       ELSE Refs \cup (IF spec.enum THEN q.choices \cap Literals ELSE spec.typed)

Asked == {q.target : q \in session.result.questions}

QuestionAbout(t) == CHOOSE q \in session.result.questions : q.target = t

\* A batch answers some of the questions.
Batches == UNION {{b \in [ts -> UNION {Admissible(QuestionAbout(t)) : t \in ts}] :
                     \A t \in ts : b[t] \in Admissible(QuestionAbout(t))}
                    : ts \in (SUBSET Asked) \ {{}}}

\* Faulty variant of Resolving: a conflict is not reset by its answer.
ResolvingNothing(f) == FALSE

\* The last result had a conflict about f: the answer replaces the others.
Resolving(f) ==
  \E g \in session.result.gaps : g.kind = "conflicting" /\ f \in g.targets

\* The first assignment in the text is the one that is found.
Clarified(text, addition) == [f \in Fields |-> IF text[f] = None THEN addition[f] ELSE text[f]]

\* The request of the next round.
Merged(batch) ==
  LET request == session.request IN
  [request EXCEPT
     !.answers = [f \in Fields |->
        IF f \notin DOMAIN batch THEN @[f]
        ELSE IF Resolving(f) THEN <<batch[f]>> ELSE Append(@[f], batch[f])],
     !.requested = IF "capability" \in DOMAIN batch THEN batch["capability"] ELSE @,
     !.text = IF "terms" \in DOMAIN batch THEN Clarified(@, Assigns[batch["terms"]]) ELSE @]

\* The user errs where the question allows the wanted answer.
Errors(batch) ==
  {t \in DOMAIN batch : batch[t] # Wanted[t] /\ Wanted[t] \in Admissible(QuestionAbout(t))}

-----------------------------------------------------------------------------
(* A changed catalog.                                                       *)

\* Faulty variant of OptionalAdditionOnly: only what remains is compared.
SameFieldsOnly(old, new) ==
  \A f \in DOMAIN old.inputs \cap DOMAIN new.inputs : new.inputs[f] = old.inputs[f]

\* _optional_addition_only: the contracts differ in new optional inputs alone.
OptionalAdditionOnly(old, new) ==
  /\ new.requirements = old.requirements
  /\ new.constraints = old.constraints
  /\ \A f \in DOMAIN old.inputs : f \in DOMAIN new.inputs /\ new.inputs[f] = old.inputs[f]
  /\ \A f \in DOMAIN new.inputs \ DOMAIN old.inputs : ~new.inputs[f].required

\* _validate_session_environment.
Compatible ==
  LET id == session.result.selected IN
  \/ session.catalog = catalog
  \/ /\ id # None
     /\ id \in DOMAIN catalog
     /\ OptionalAdditionOnly(session.catalog[id], catalog[id])

Declared == UNION {DOMAIN catalog[id].inputs : id \in DOMAIN catalog}

-----------------------------------------------------------------------------
Init ==
  /\ catalog \in Catalogs
  /\ session = [revision |-> -1, request |-> Empty, catalog |-> catalog,
                result |-> Result("unsupported", None, <<>>, {}, {})]
  /\ said = Nothing
  /\ mistakes = 0
  /\ changes = 0
  /\ restarts = 0

Store(revision, request) ==
  \E result \in Outcomes(request) :
    session' = [revision |-> revision, request |-> request, catalog |-> catalog,
                result |-> result]

\* compile_async.
Compile ==
  /\ session.revision = -1
  /\ \E c \in Contexts, id \in Forced :
       Store(0, [Empty EXCEPT !.context = c.context, !.text = c.text, !.requested = id])
  /\ UNCHANGED <<catalog, said, mistakes, changes, restarts>>

\* continue_async with an accepted batch of answers.
Continue(batch) ==
  /\ session.revision \in 0 .. MaxRevision - 1
  /\ Compatible
  /\ mistakes + Cardinality(Errors(batch)) <= MaxMistakes
  /\ Store(session.revision + 1, Merged(batch))
  /\ said' = [f \in Fields |-> IF f \in DOMAIN batch THEN batch[f] ELSE said[f]]
  /\ mistakes' = mistakes + Cardinality(Errors(batch))
  /\ UNCHANGED <<catalog, changes, restarts>>

\* restart_from_session_async: what the catalog still declares is kept.
Restart ==
  /\ session.revision >= 0
  /\ restarts < MaxRestarts
  /\ LET request == session.request IN
       Store(0, [request EXCEPT
         !.answers = [f \in Fields |-> IF f \in Declared THEN @[f] ELSE <<>>],
         !.requested = IF @ \in DOMAIN catalog THEN @ ELSE None])
  /\ said' = [f \in Fields |-> IF f \in Declared THEN said[f] ELSE None]
  /\ restarts' = restarts + 1
  /\ UNCHANGED <<catalog, mistakes, changes>>

\* The host runs a compiler with another catalog from now on.
ChangeCatalog ==
  /\ changes < MaxChanges
  /\ catalog' \in Catalogs \ {catalog}
  /\ changes' = changes + 1
  /\ UNCHANGED <<session, said, mistakes, restarts>>

Answering == \E batch \in Batches : Continue(batch)

Terminal == session.revision >= 0 /\ session.result.status \in {"ready", "unsupported"}

\* The dialogue is over, has reached its bound, or needs a restart.
Finished ==
  /\ Terminal \/ session.revision = MaxRevision \/ (session.revision >= 0 /\ ~Compatible)
  /\ UNCHANGED vars

Next == Compile \/ Answering \/ Restart \/ ChangeCatalog \/ Finished

Spec == Init /\ [][Next]_vars

-----------------------------------------------------------------------------
(* Properties.                                                             *)

Statuses == {"ready", "needs_clarification", "ambiguous", "conflicting", "unsupported"}

Values == Literals \cup Refs

TypeOK ==
  /\ catalog \in Catalogs
  /\ session.revision \in -1 .. MaxRevision
  /\ session.catalog \in Catalogs
  /\ session.request.context \in [Fields -> Values \cup {None}]
  /\ session.request.text \in [Fields -> Literals \cup {None}]
  /\ DOMAIN session.request.answers = Fields
  /\ \A f \in Fields : \A i \in DOMAIN session.request.answers[f] :
       session.request.answers[f][i] \in Values
  /\ session.request.requested \in Ids \cup {None}
  /\ session.result.status \in Statuses
  /\ session.result.selected \in Ids \cup {None}
  /\ session.result.selected = None <=> session.result.status \in {"ambiguous", "unsupported"}
  /\ \A f \in DOMAIN session.result.inputs :
       session.result.inputs[f] \in [source: Sources, value: Values]
  /\ said \in [Fields -> Values \cup {None}]
  /\ mistakes \in 0 .. MaxMistakes
  /\ changes \in 0 .. MaxChanges
  /\ restarts \in 0 .. MaxRestarts

Ready == session.revision >= 0 /\ session.result.status = "ready"

Contract == session.catalog[session.result.selected]

\* What ready promises a dispatcher, from the intent alone: every input the
\* contract asks for under the conditions that its own inputs meet is there,
\* a blocking constraint is only false of them when a later constraint of the same
\* code and targets that does not block is false too and took its place, and every
\* value is usable and from a permitted source.  A condition on a reference is met
\* when it is met by whatever literal the reference stands for.
ReadyIsDispatchable ==
  Ready =>
    LET inputs == session.result.inputs
        hidden == {f \in DOMAIN inputs : inputs[f].value \in Refs}
        readings == {[f \in DOMAIN inputs |-> IF f \in hidden THEN r[f] ELSE inputs[f].value]
                       : r \in [hidden -> Literals]}
        always(e, verdict) == \A values \in readings : Evaluate(e, values) = verdict
        broken(c) == (c.when = None \/ always(c.when, True)) /\ always(c.assert, False) IN
    /\ \A f \in DOMAIN Contract.inputs : Contract.inputs[f].required => f \in DOMAIN inputs
    /\ \A r \in Contract.requirements :
         always(r.when, True) => r.require \subseteq DOMAIN inputs
    /\ \A c \in Contract.constraints : (c.blocking /\ broken(c)) =>
         \E d \in Contract.constraints :
           Namesakes(c, d) /\ d.place > c.place /\ broken(d) /\ ~d.blocking
    /\ \A f \in DOMAIN inputs :
         LET spec == Contract.inputs[f] IN
         /\ Permits(spec.policy, inputs[f].source)
         /\ inputs[f].value \in IF spec.class = "secret" THEN ValidRefs
                                ELSE spec.accepts \cup ValidRefs

\* Each constraint that applies and is false leaves its gap, and a blocking gap is
\* asked about or bars the candidate: no blocking constraint of a ready result is
\* violated by the values that the compiler looked at.
ConstraintsAreMet ==
  Ready => \A c \in Contract.constraints :
             c.blocking => ~Violated(c, RawValues(session.result.inputs))

\* The intent carries the user's last word: whatever was answered, corrected
\* and chosen over several rounds, the last accepted answer about an input is
\* the one that is dispatched.
ReadyHoldsLastAnswer ==
  Ready =>
    \A f \in DOMAIN session.result.inputs : said[f] # None =>
      session.result.inputs[f] =
        [source |-> "clarification_answer", value |-> Known(said[f], Contract.inputs[f])]

\* A blocked result can always be unblocked by somebody: it asks at least one
\* question, and each question it asks has an answer that is accepted.
BlockedIsAskable ==
  (session.revision >= 0 /\ ~Terminal) =>
    /\ Asked # {}
    /\ Compatible => \A q \in session.result.questions : Admissible(q) # {}

\* The rounds are bounded by what there is to ask: one about the capability,
\* one about each input, and two more for every mistake (one to see it, one to
\* choose between the answers given).
RoundsAreBounded ==
  session.revision <= 1 + Cardinality(Fields) + 2 * mistakes

\* The values of an analysis in which f is the answer the user has in mind.
HoldsWanted(values, spec, f) ==
  IF Wanted[f] \in Refs THEN f \notin DOMAIN values
  ELSE f \in DOMAIN values /\ values[f] = spec.read[Wanted[f]]

\* What RoundsAreBounded relies on: the static provider, which follows a choice of
\* the capability, and answers in the user's mind that the questions let through,
\* that are usable, and each of which alone meets every constraint about its input.
WantedSuffices ==
  \A cat \in Catalogs : \A id \in DOMAIN cat : \A f \in DOMAIN cat[id].inputs :
    LET spec == cat[id].inputs[f]
        answer == Wanted[f] IN
    /\ \/ answer \in ValidRefs
       \/ /\ spec.class # "secret" /\ spec.read[answer] \in spec.accepts
          /\ answer \in IF spec.enum THEN spec.accepts ELSE spec.typed
    /\ \A c \in cat[id].constraints : (c.blocking /\ f \in c.targets) =>
         \A values \in UNION {[S -> Literals] : S \in SUBSET DOMAIN cat[id].inputs} :
           HoldsWanted(values, spec, f) => ~Violated(c, values)

\* Verdicts reached while fields are still unknown are final: a condition
\* without "exists" that is decided now means the same under every completion.
VerdictsAreFinal ==
  \A id \in DOMAIN catalog : \A r \in catalog[id].requirements \cup catalog[id].constraints :
    LET e == IF "assert" \in DOMAIN r THEN r.assert ELSE r.when
        values == RawValues(session.result.inputs)
        unknown == ReferencedFields(e) \ DOMAIN values
    IN  (~AsksForPresence(e) /\ Evaluate(e, values) # Unknown) =>
          \A more \in [unknown -> Literals] :
            Evaluate(e, values) = Verdict(Holds(e, [f \in DOMAIN values \cup unknown |->
              IF f \in unknown THEN more[f] ELSE values[f]]))

\* What a continued session already knew it still knows, also across a change
\* of the catalog: the usable inputs that were not asked about stay as they
\* are while the capability stays.
KnownInputsStay ==
  [][(session'.revision = session.revision + 1 /\ session.result.selected # None
        /\ session'.result.selected = session.result.selected
        /\ session'.request.text = session.request.text)
     => \A f \in DOMAIN session.result.inputs :
          (f \notin Asked
             /\ session.result.inputs[f].source \notin {"model_inference", "contract_default"})
          => /\ f \in DOMAIN session'.result.inputs
             /\ session'.result.inputs[f] = session.result.inputs[f]]_vars

\* The host's choice of an exact capability is followed, or not supported.
ForcedCapabilityIsSelected ==
  (session.revision >= 0 /\ session.request.requested # None) =>
    session.result.selected = session.request.requested \/ session.result.status = "unsupported"

\* A result with status conflicting asks a question that resolves a conflict.
ConflictIsAsked ==
  session.result.status = "conflicting" => \E t \in Asked : t # "terms" /\ Resolving(t)
=============================================================================
