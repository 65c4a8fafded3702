----------------------------- MODULE Compilation -----------------------------
(***************************************************************************)
(* One compilation inside CompilerPipeline.compile                         *)
(* (src/taskc/compiler/pipeline.py), stage by stage: what the provider,    *)
(* the extensions, the question renderer, the telemetry recorder and the   *)
(* session store of the host do to it, and what the recorder is told.      *)
(* What a candidate's analysis finds is left open here (Dialogue computes  *)
(* it); every component of the host may fail whenever it is called.        *)
(***************************************************************************)
EXTENDS Naturals, Sequences, FiniteSets, Functions

CONSTANTS
  Refs,           \* exact capability references of the catalog
  Fields,         \* inputs of the contracts
  Replies,        \* what the provider may return: sequences of drafts
  Rounds,         \* rounds of questions: sequences of the targets of each
  Setups,         \* compilers a host may construct
  MaxCandidates,  \* max_candidates
  MaxLost,        \* bound on the events a recorder fails to take
  None            \* no extension, nothing selected

ASSUME CompilationAssumption ==
  /\ Replies \subseteq Seq([ref: Refs \cup {None}, declared: BOOLEAN])
  /\ Rounds \subseteq Seq((SUBSET Fields) \ {{}}) \ {<<>>}
  /\ \A f \in Fields : <<{f}>> \in Rounds
  /\ \A s \in Setups :
       /\ s.evaluator \in [Refs -> s.known \cup {None}] /\ s.ranker \in [Refs -> s.known \cup {None}]
       /\ s.registered \subseteq s.known /\ s.deterministic \subseteq s.registered
       /\ {s.allow, s.strict, s.auto, s.renderer} \subseteq BOOLEAN
  /\ MaxCandidates \in Nat /\ MaxLost \in Nat

VARIABLES
  setup,        \* the compiler: contracts' extensions, registry, configuration
  pc,           \* the stage of the running compilation
  queue,        \* events the pipeline records before the stage goes on
  log,          \* events the recorder has taken in this compilation
  lost,         \* events it failed to take (history)
  drafts,       \* drafts still to be validated or analysed
  analyses,     \* the candidates analysed so far
  consulted,    \* extensions whose answer the result depends on (history)
  verdict,      \* what the pipeline is about to return
  outcome       \* what the caller got: a result or an error

compilation == <<pc, queue, log, lost, drafts, analyses, consulted, verdict, outcome>>

-----------------------------------------------------------------------------
(* Results and errors.                                                      *)

Categories ==
  {"invalid_input", "stale_session", "provider_failure", "budget_exceeded", "internal_error"}

Result(status, selected, gaps, questions, reproducible) ==
  [kind |-> "result", category |-> None, status |-> status, selected |-> selected,
   gaps |-> gaps, questions |-> questions, candidates |-> {a.ref : a \in analyses},
   reproducible |-> reproducible]

\* A TaskCompilerError of a category, or an exception of another type: what a
\* recorder or a secret resolver raises, or a cancellation.
Error(category) ==
  [kind |-> "error", category |-> category, status |-> None, selected |-> None,
   gaps |-> {}, questions |-> <<>>, candidates |-> {}, reproducible |-> TRUE]

Nothing == [Error(None) EXCEPT !.kind = "none"]

Idle ==
  /\ pc = "idle" /\ queue = <<>> /\ log = <<>> /\ lost = 0 /\ drafts = <<>>
  /\ analyses = {} /\ consulted = {} /\ verdict = Nothing /\ outcome = Nothing

Done(o) ==
  /\ pc' = "done" /\ queue' = <<>> /\ outcome' = o
  /\ UNCHANGED <<log, lost, drafts, analyses, consulted, verdict>>

\* The pipeline records events and goes on at a stage.
Continue(stage, events) == pc' = stage /\ queue' = events /\ UNCHANGED <<log, lost, outcome>>

\* It records its last events and returns or raises v.
EndWith(v, events) ==
  Continue("ending", events) /\ verdict' = v /\ UNCHANGED <<drafts, analyses, consulted>>

-----------------------------------------------------------------------------
(* Constructing the compiler.                                               *)

Referenced(s) == (Range(s.evaluator) \cup Range(s.ranker)) \ {None}

\* _validate_extensions: everything a contract names is registered, and
\* deterministic unless the host opted in.
Accepts(s) ==
  \A n \in Referenced(s) : n \in s.registered /\ (s.allow \/ n \in s.deterministic)

-----------------------------------------------------------------------------
(* Telemetry.                                                               *)

\* Faulty variant of RecorderRaises: telemetry_strict has no effect.
RecorderNeverRaises == FALSE

\* _event lets the recorder's exception out under telemetry_strict only.
RecorderRaises == setup.strict

\* _event: the recorder takes the next event, or fails.
Record ==
  /\ queue # <<>>
  /\ \/ /\ log' = Append(log, Head(queue))
        /\ queue' = Tail(queue)
        /\ UNCHANGED <<pc, lost, drafts, analyses, consulted, verdict, outcome>>
     \/ /\ lost < MaxLost
        /\ ~RecorderRaises
        /\ lost' = lost + 1
        /\ queue' = Tail(queue)
        /\ UNCHANGED <<pc, log, drafts, analyses, consulted, verdict, outcome>>
     \/ RecorderRaises /\ Done(Error("raised"))

At(stage) == pc = stage /\ queue = <<>>

-----------------------------------------------------------------------------
(* The stages.                                                              *)

\* compile_async or continue_async: the pipeline starts, or the call is refused
\* before it does.
Begin(refusals) ==
  /\ \/ /\ pc' = "provider"
        /\ queue' = <<"compilation.started", "contracts.validated", "provider.requested">>
        /\ outcome' = Nothing
     \/ \E category \in refusals :
          pc' = "done" /\ queue' = <<>> /\ outcome' = Error(category)
  /\ log' = <<>> /\ lost' = 0 /\ drafts' = <<>> /\ analyses' = {} /\ consulted' = {}
  /\ verdict' = Nothing

\* The provider answers.
Interpret ==
  /\ At("provider")
  /\ drafts' \in Replies
  /\ Continue("validate", <<"provider.completed">>)
  /\ UNCHANGED <<analyses, consulted, verdict>>

\* It fails or its time is up; an exception without a diagnostic is wrapped.
InterpretFails ==
  /\ At("provider")
  /\ \E category \in {"provider_failure", "budget_exceeded", "internal_error"} :
       EndWith(Error(category), <<"provider.failed", "compilation.failed">>)

\* _validate_drafts.
ValidDrafts ==
  /\ Len(drafts) <= MaxCandidates
  /\ \A i \in DOMAIN drafts : drafts[i].ref \in Refs /\ drafts[i].declared
  /\ \A i, j \in DOMAIN drafts : drafts[i].ref = drafts[j].ref => i = j

Validate ==
  /\ At("validate")
  /\ IF ~ValidDrafts THEN Done(Error("provider_failure"))
     ELSE IF drafts = <<>>
     THEN EndWith(Result("unsupported", None, {}, <<>>, TRUE),
                  <<"candidates.generated", "compilation.blocked">>)
     ELSE Continue("analyse", <<"candidates.generated">>)
          /\ UNCHANGED <<drafts, analyses, consulted, verdict>>

\* analyze_candidate on the next draft: which inputs have blocking gaps, whether
\* values conflict, and whether the constraint with the evaluator applies.
Analyse ==
  /\ At("analyse")
  /\ \E missing \in SUBSET Fields, conflicting \in BOOLEAN, applies \in BOOLEAN :
       LET ref == Head(drafts).ref
           asks == IF applies THEN {setup.evaluator[ref]} \ {None} ELSE {}
       IN /\ conflicting => missing # {}
          /\ analyses' = analyses \cup
               {[ref |-> ref, missing |-> missing, conflicting |-> conflicting,
                 consulted |-> asks, reproducible |-> asks \subseteq setup.deterministic]}
  /\ drafts' = Tail(drafts)
  /\ Continue(IF Len(drafts) = 1 THEN "decide" ELSE "analyse",
              <<"fields.resolved", "constraints.evaluated">>)
  /\ UNCHANGED <<consulted, verdict>>

\* An evaluator raises or returns no truth value; a secret resolver raises.
AnalyseFails ==
  /\ At("analyse")
  /\ \/ setup.evaluator[Head(drafts).ref] # None /\ Done(Error("internal_error"))
     \/ Done(Error("raised"))

Viable == {a \in analyses : a.reproducible \/ setup.allow}

AllReproducible(as) == \A a \in as : a.reproducible

\* No candidate is viable: the one result that no event announces.
DecideNone == Done(Result("unsupported", None, {}, <<>>, AllReproducible(analyses)))

\* Several are, and the scores do not select one: the user is asked.
DecideAmbiguous ==
  /\ Cardinality(Viable) > 1
  /\ consulted' = UNION {a.consulted : a \in Viable}
  /\ Continue("ending", <<"gaps.computed", "questions.planned", "compilation.blocked">>)
  /\ verdict' = Result("ambiguous", None, {"capability"}, <<{"capability"}>>, AllReproducible(Viable))
  /\ UNCHANGED <<drafts, analyses>>

\* One is selected: ready when nothing blocks it, else its questions are planned.
DecideSelected(a) ==
  /\ Cardinality(Viable) = 1 \/ setup.auto
  /\ consulted' = a.consulted
  /\ IF a.missing = {}
     THEN Continue("ending", <<"gaps.computed", "compilation.ready">>)
     ELSE Continue("plan", <<"gaps.computed">>)
  /\ verdict' = Result(IF a.missing = {} THEN "ready"
                       ELSE IF a.conflicting THEN "conflicting" ELSE "needs_clarification",
                       a.ref, a.missing, <<>>, a.reproducible)
  /\ UNCHANGED <<drafts, analyses>>

Decide ==
  /\ At("decide")
  /\ IF Viable = {} THEN DecideNone
     ELSE DecideAmbiguous \/ \E a \in Viable : DecideSelected(a)

\* Faulty variant of PlannedVerdict: the ranker is left out of the account.
PlannedVerdictUnranked(ranker) == verdict

PlannedVerdict(ranker) ==
  [verdict EXCEPT !.reproducible = @ /\ ({ranker} \ {None} \subseteq setup.deterministic)]

Blocked == <<"questions.planned", "compilation.blocked">>

\* plan_questions with the contract's ranker: a first round of the questions.
Plan ==
  /\ At("plan")
  /\ LET ranker == setup.ranker[verdict.selected] IN
       /\ consulted' = consulted \cup ({ranker} \ {None})
       /\ \E asked \in Rounds :
            /\ UNION Range(asked) \subseteq verdict.gaps
            /\ verdict' = [PlannedVerdict(ranker) EXCEPT !.questions = asked]
  /\ IF setup.renderer THEN Continue("render", <<>>) ELSE Continue("ending", Blocked)
  /\ UNCHANGED <<drafts, analyses>>

\* The ranker raises or returns no permutation of the questions.
PlanFails ==
  /\ At("plan")
  /\ setup.ranker[verdict.selected] # None
  /\ Done(Error("internal_error"))

\* _render_questions: a renderer that fails leaves the planned text.
Render == At("render") /\ EndWith(verdict, Blocked)

\* The caller cancels the compilation where it waits.
Cancel == (At("provider") \/ At("render")) /\ Done(Error("raised"))

\* Every event is recorded: an error is raised, a result goes to the store.
End ==
  /\ At("ending")
  /\ IF verdict.kind = "error" THEN Done(verdict)
     ELSE Continue("store", <<>>) /\ UNCHANGED <<drafts, analyses, consulted, verdict>>

\* The caller gets the result once its session is stored,
Store == At("store") /\ Done(verdict)

\* or the store's refusal, a sensitive literal or an i/o error, in its place.
StoreRefuses == At("store") /\ \E c \in {"invalid_input", "raised"} : Done(Error(c))

Stages ==
  \/ Record \/ Interpret \/ InterpretFails \/ Validate \/ Analyse \/ AnalyseFails \/ Decide
  \/ Plan \/ PlanFails \/ Render \/ Cancel \/ End \/ Store \/ StoreRefuses

-----------------------------------------------------------------------------
(* Properties of a compilation.                                             *)

Finished == pc = "done"

Terminal == {"compilation.ready", "compilation.blocked", "compilation.failed"}

TerminalsOf(events) == {i \in DOMAIN events : events[i] \in Terminal}

Announced(o) ==
  IF o.kind = "error" THEN "compilation.failed"
  ELSE IF o.status = "ready" THEN "compilation.ready" ELSE "compilation.blocked"

\* Whatever fails and whichever events the recorder fails to take, an observer
\* of the events is told of the caller's end, or of the end the store refused
\* afterwards, and of nothing after it. Under telemetry_strict it is told of the
\* end of every result.
EventsTellTheOutcome ==
  Finished =>
    /\ \A i \in TerminalsOf(log) :
         /\ i = Len(log)
         /\ log[i] = Announced(outcome) \/ (verdict.kind = "result" /\ log[i] = Announced(verdict))
    /\ (setup.strict /\ outcome.kind = "result") => TerminalsOf(log) # {}

\* A result that is called reproducible owes nothing to an extension that is not
\* deterministic, and none of those has a say unless the host opted in.
ReproducibleIsEarned ==
  (Finished /\ outcome.kind = "result") =>
    /\ outcome.reproducible => consulted \subseteq setup.deterministic
    /\ ~setup.allow => consulted \subseteq setup.deterministic
=============================================================================
