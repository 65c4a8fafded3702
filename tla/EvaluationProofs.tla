-------------------------- MODULE EvaluationProofs --------------------------
(***************************************************************************)
(* Proofs about the compilations of an evaluation: what the events of one  *)
(* tell and what its reproducible flag is worth, for any contracts,        *)
(* extensions, provider replies, rounds of questions and datasets.         *)
(***************************************************************************)
EXTENDS Evaluation, TLAPS

-----------------------------------------------------------------------------
(* The shape of a compilation at each of its stages.                       *)

Early == {"provider", "validate", "analyse", "decide"}

Events ==
  {"compilation.started", "contracts.validated", "provider.requested", "provider.completed",
   "provider.failed", "candidates.generated", "fields.resolved", "constraints.evaluated",
   "gaps.computed", "questions.planned"} \cup Terminal

Typed ==
  /\ setup \in Setups
  /\ pc \in Early \cup {"idle", "plan", "render", "ending", "store", "done"}
  /\ queue \in Seq(Events)
  /\ log \in Seq(Events)
  /\ drafts \in Seq([ref: Refs \cup {None}, declared: BOOLEAN])

\* What is under way was accepted; nothing is left to record where it rests.
Rested ==
  /\ pc # "idle" => Accepts(setup)
  /\ pc \in {"idle", "store", "done"} => queue = <<>>

Drafted ==
  pc = "analyse" => drafts # <<>> /\ \A i \in DOMAIN drafts : drafts[i].ref \in Refs

\* Every candidate is viable: the constructor has seen to it.
Analysed ==
  /\ \A a \in analyses :
       /\ a.ref \in Refs
       /\ a.reproducible <=> a.consulted \subseteq setup.deterministic
       /\ setup.allow \/ a.reproducible
  /\ pc = "decide" => analyses # {}
  /\ pc \in Early => consulted = {}

\* A verdict that still needs its questions is a blocked result.
Chosen ==
  /\ pc = "plan" =>
       /\ verdict = Result(verdict.status, verdict.selected, verdict.gaps, verdict.questions,
                           verdict.reproducible)
       /\ verdict.selected \in Refs
  /\ pc \in {"plan", "render"} => verdict.kind = "result" /\ verdict.status # "ready"
  /\ pc = "ending" => verdict.kind \in {"error", "result"}
  /\ pc = "store" => verdict.kind = "result"

Staged == Typed /\ Rested /\ Drafted /\ Analysed /\ Chosen

-----------------------------------------------------------------------------
(* Extensions of an accepted compiler.                                     *)

\* What an accepted compiler may ask is deterministic unless the host opted in.
LEMMA AskedIsAccepted ==
  ASSUME setup \in Setups, Accepts(setup), NEW ref \in Refs
  PROVE  /\ {setup.evaluator[ref]} \ {None} \subseteq Referenced(setup)
         /\ {setup.ranker[ref]} \ {None} \subseteq Referenced(setup)
         /\ setup.allow \/ Referenced(setup) \subseteq setup.deterministic
<1>1. setup.evaluator[ref] \in Range(setup.evaluator) /\ setup.ranker[ref] \in Range(setup.ranker)
  BY CompilationAssumption DEF Range
<1>2. setup.allow \/ Referenced(setup) \subseteq setup.deterministic
  BY DEF Accepts
<1> QED
  BY <1>1, <1>2 DEF Referenced

\* What the stages hand to the recorder.
LEMMA EventSequences ==
  /\ <<>> \in Seq(Events)
  /\ \A e \in Events : <<e>> \in Seq(Events)
  /\ \A e, f \in Events : <<e, f>> \in Seq(Events)
  /\ \A e, f, g \in Events : <<e, f, g>> \in Seq(Events)
<1>1. \A e, f \in Events : <<e, f>> \in Seq(Events)
  OBVIOUS
<1>2. \A e, f, g \in Events : <<e, f, g>> \in Seq(Events)
  OBVIOUS
<1> QED BY <1>1, <1>2

\* The events of each stage.
LEMMA StageEvents ==
  /\ <<"compilation.started", "contracts.validated", "provider.requested">> \in Seq(Events)
  /\ <<"provider.failed", "compilation.failed">> \in Seq(Events)
  /\ <<"candidates.generated", "compilation.blocked">> \in Seq(Events)
  /\ <<"fields.resolved", "constraints.evaluated">> \in Seq(Events)
  /\ <<"gaps.computed", "questions.planned", "compilation.blocked">> \in Seq(Events)
  /\ <<"gaps.computed", "compilation.ready">> \in Seq(Events)
  /\ <<"gaps.computed">> \in Seq(Events)
  /\ Blocked \in Seq(Events)
<1>1. /\ "compilation.started" \in Events /\ "contracts.validated" \in Events
      /\ "provider.requested" \in Events /\ "provider.failed" \in Events
      /\ "candidates.generated" \in Events /\ "fields.resolved" \in Events
      /\ "constraints.evaluated" \in Events /\ "gaps.computed" \in Events
      /\ "questions.planned" \in Events /\ "compilation.ready" \in Events
      /\ "compilation.blocked" \in Events /\ "compilation.failed" \in Events
  BY DEF Events, Terminal
<1> QED
  BY <1>1, EventSequences DEF Blocked

LEMMA StagedInit == Init => Staged
BY DEF Init, Idle, Staged, Typed, Rested, Drafted, Analysed, Chosen, Nothing, Error, Early

\* A stage that ends the compilation keeps the shape.
LEMMA DoneIsStaged ==
  ASSUME Staged, NEW o, Done(o), UNCHANGED setup, pc # "idle"
  PROVE  Staged'
BY DEF Staged, Typed, Rested, Drafted, Analysed, Chosen, Done, Accepts, Referenced, Early

LEMMA BeginIsStaged ==
  ASSUME Staged, NEW refusals, Begin(refusals), UNCHANGED setup, Accepts(setup)
  PROVE  Staged'
<1>0. pc' \in {"provider", "done"} /\ log' = <<>> /\ drafts' = <<>> /\ setup' \in Setups
  BY DEF Staged, Typed, Begin
<1>a. queue' \in Seq(Events)
  BY StageEvents, EventSequences DEF Begin
<1>1. Typed' BY <1>0, <1>a DEF Typed, Early
<1>2. Rested' BY DEF Rested, Begin, Accepts, Referenced
<1>3. Drafted' BY DEF Drafted, Begin
<1>4. Analysed' BY DEF Analysed, Begin, Early
<1>5. Chosen' BY DEF Chosen, Begin
<1> QED BY <1>1, <1>2, <1>3, <1>4, <1>5 DEF Staged

\* A step inside a compilation keeps the shape if what it sets does.
LEMMA StepIsStaged ==
  ASSUME Staged, pc # "idle", UNCHANGED setup, log' = log, queue' \in Seq(Events),
         pc' \in Early \cup {"plan", "render", "ending", "store"},
         pc' = "store" => queue' = <<>>,
         drafts' \in Seq([ref: Refs \cup {None}, declared: BOOLEAN]),
         Drafted', Analysed', Chosen'
  PROVE  Staged'
BY DEF Staged, Typed, Rested, Accepts, Referenced, Early

\* So does one that only has its last events to record.
LEMMA EndIsStaged ==
  ASSUME Staged, pc # "idle", UNCHANGED <<setup, log, drafts, analyses>>, pc' = "ending",
         queue' \in Seq(Events), verdict'.kind \in {"error", "result"}
  PROVE  Staged'
<1>1. Drafted' /\ Analysed' /\ Chosen'
  BY DEF Staged, Drafted, Analysed, Chosen, Early
<1> QED
  BY <1>1, StepIsStaged DEF Staged, Typed

LEMMA RecordIsStaged ==
  ASSUME Staged, Record, UNCHANGED setup
  PROVE  Staged'
<1>1. ASSUME NEW e \in Events, e = Head(queue), queue # <<>>, queue' = Tail(queue),
             log' \in Seq(Events), UNCHANGED <<pc, drafts, analyses, consulted, verdict>>
      PROVE  Staged'
  BY <1>1 DEF Staged, Typed, Rested, Drafted, Analysed, Chosen, Accepts, Referenced, Result, Early
<1>2. queue # <<>> /\ queue \in Seq(Events) /\ log \in Seq(Events)
  BY DEF Record, Staged, Typed
<1>3. Head(queue) \in Events /\ Append(log, Head(queue)) \in Seq(Events)
  BY <1>2
<1>4. CASE RecorderRaises /\ Done(Error("raised"))
  BY <1>4, <1>2, DoneIsStaged DEF Staged, Rested
<1>5. CASE /\ log' = Append(log, Head(queue)) /\ queue' = Tail(queue)
           /\ UNCHANGED <<pc, lost, drafts, analyses, consulted, verdict, outcome>>
  BY <1>1, <1>2, <1>3, <1>5
<1>6. CASE /\ queue' = Tail(queue)
           /\ UNCHANGED <<pc, log, drafts, analyses, consulted, verdict, outcome>>
  BY <1>1, <1>2, <1>3, <1>6
<1> QED BY <1>4, <1>5, <1>6 DEF Record

\* Every other stage keeps the shape, one step of it each.
LEMMA StageIsStaged ==
  ASSUME Staged, Stages, UNCHANGED setup
  PROVE  Staged'
<1>0. pc # "idle"
  <2>1. Rested /\ (queue # <<>> \/ pc # "idle")
    BY Zenon DEF Staged, Stages, Record, Interpret, InterpretFails, Validate, Analyse, AnalyseFails,
       Decide, Plan, PlanFails, Render, Cancel, End, Store, StoreRefuses, At
  <2> QED BY <2>1 DEF Rested
<1>1. CASE Record
  BY <1>1, RecordIsStaged
<1>2. CASE Interpret
  <2>1. /\ pc' = "validate" /\ queue' = <<"provider.completed">> /\ log' = log
        /\ drafts' \in Replies /\ analyses' = analyses /\ consulted' = consulted
        /\ setup' = setup /\ pc = "provider"
    BY <1>2 DEF Interpret, Continue, At
  <2>2. drafts' \in Seq([ref: Refs \cup {None}, declared: BOOLEAN])
    BY <2>1, CompilationAssumption
  <2> QED
    BY <2>1, <2>2 DEF Staged, Typed, Rested, Drafted, Analysed, Chosen, Early, Accepts, Referenced, Events, Terminal
<1>3. CASE InterpretFails
  <2>1. PICK category : EndWith(Error(category), <<"provider.failed", "compilation.failed">>)
    BY <1>3 DEF InterpretFails
  <2>2. /\ pc' = "ending" /\ log' = log /\ drafts' = drafts /\ analyses' = analyses
        /\ queue' = <<"provider.failed", "compilation.failed">> /\ verdict' = Error(category)
    BY <2>1 DEF EndWith, Continue
  <2>3. queue' \in Seq(Events) /\ verdict'.kind = "error"
    BY <2>2, StageEvents DEF Error
  <2> QED
    BY <1>0, <2>2, <2>3, EndIsStaged
<1>4. CASE Validate
  <2>1. CASE Done(Error("provider_failure"))
    BY <2>1, <1>0, DoneIsStaged
  <2>2. CASE EndWith(Result("unsupported", None, {}, <<>>, TRUE),
                     <<"candidates.generated", "compilation.blocked">>)
    <3>1. /\ pc' = "ending" /\ log' = log /\ drafts' = drafts /\ analyses' = analyses
          /\ queue' = <<"candidates.generated", "compilation.blocked">>
          /\ verdict'.kind = "result"
      BY <2>2 DEF EndWith, Continue, Result
    <3>2. queue' \in Seq(Events)
      BY <3>1, StageEvents
    <3> QED
      BY <1>0, <3>1, <3>2, EndIsStaged
  <2>3. CASE /\ ValidDrafts /\ drafts # <<>> /\ Continue("analyse", <<"candidates.generated">>)
             /\ UNCHANGED <<drafts, analyses, consulted, verdict>>
    BY <1>4, <2>3 DEF Validate, At, ValidDrafts, Continue,
       Staged, Typed, Rested, Drafted, Analysed, Chosen, Early, Accepts, Referenced, Events, Terminal
  <2> QED
    BY <1>4, <2>1, <2>2, <2>3 DEF Validate
<1>5. CASE Analyse
  <2>1. /\ pc = "analyse" /\ drafts' = Tail(drafts) /\ setup' = setup /\ log' = log
        /\ queue' = <<"fields.resolved", "constraints.evaluated">>
        /\ pc' = (IF Len(drafts) = 1 THEN "decide" ELSE "analyse")
        /\ consulted' = consulted
    BY <1>5 DEF Analyse, At, Continue
  <2>2. /\ drafts \in Seq([ref: Refs \cup {None}, declared: BOOLEAN]) /\ drafts # <<>>
        /\ \A i \in DOMAIN drafts : drafts[i].ref \in Refs
    BY <2>1 DEF Staged, Typed, Drafted
  <2>3. Head(drafts).ref \in Refs
    BY <2>2
  <2>4. PICK missing \in SUBSET Fields, conflicting \in BOOLEAN, applies \in BOOLEAN :
          LET ref == Head(drafts).ref
              asks == IF applies THEN {setup.evaluator[ref]} \ {None} ELSE {}
          IN analyses' = analyses \cup
               {[ref |-> ref, missing |-> missing, conflicting |-> conflicting,
                 consulted |-> asks, reproducible |-> asks \subseteq setup.deterministic]}
    BY <1>5 DEF Analyse
  <2> DEFINE asks == IF applies THEN {setup.evaluator[Head(drafts).ref]} \ {None} ELSE {}
             found == [ref |-> Head(drafts).ref, missing |-> missing, conflicting |-> conflicting,
                       consulted |-> asks, reproducible |-> asks \subseteq setup.deterministic]
  <2>5. analyses' = analyses \cup {found}
    BY <2>4
  <2>6. setup.allow \/ asks \subseteq setup.deterministic
    BY <1>0, <2>3, AskedIsAccepted DEF Staged, Typed, Rested
  <2>7. Analysed'
    <3>1. /\ found.ref \in Refs
          /\ found.reproducible <=> found.consulted \subseteq setup.deterministic
          /\ setup.allow \/ found.reproducible
      BY <2>3, <2>6
    <3>2. consulted' = {}
      BY <2>1 DEF Staged, Analysed, Early
    <3> HIDE DEF found
    <3> QED BY <2>1, <2>5, <3>1, <3>2 DEF Staged, Analysed
  <2>8. /\ drafts' \in Seq([ref: Refs \cup {None}, declared: BOOLEAN])
        /\ \A i \in DOMAIN drafts' : drafts'[i].ref \in Refs
        /\ (drafts' = <<>> => Len(drafts) = 1)
    <3>1. /\ Tail(drafts) \in Seq([ref: Refs \cup {None}, declared: BOOLEAN])
          /\ Len(Tail(drafts)) = Len(drafts) - 1
          /\ \A i \in DOMAIN Tail(drafts) : i + 1 \in DOMAIN drafts /\ Tail(drafts)[i] = drafts[i + 1]
      BY <2>2
    <3>2. Tail(drafts) = <<>> => Len(drafts) = 1
      BY <2>2, <3>1
    <3> QED
      BY <2>1, <2>2, <3>1, <3>2
  <2> QED
    <3>1. Drafted'
      <4>1. pc' = "analyse" => drafts' # <<>>
        BY <2>1, <2>8
      <4>2. \A i \in DOMAIN drafts' : drafts'[i].ref \in Refs
        BY <2>8
      <4> QED
        BY <4>1, <4>2 DEF Drafted
    <3>2. Chosen'
      BY <2>1 DEF Chosen
    <3> QED
      BY <1>0, <2>1, <2>7, <2>8, <3>1, <3>2, StageEvents, StepIsStaged DEF Early
<1>6. CASE AnalyseFails
  BY <1>0, <1>6, DoneIsStaged DEF AnalyseFails
<1>7. CASE Decide
  <2>1. CASE DecideNone
    BY <1>0, <2>1, DoneIsStaged DEF DecideNone
  <2>2. CASE DecideAmbiguous
    <3>1. /\ pc' = "ending" /\ log' = log /\ drafts' = drafts /\ analyses' = analyses
          /\ queue' = <<"gaps.computed", "questions.planned", "compilation.blocked">>
          /\ verdict'.kind = "result"
      BY <2>2 DEF DecideAmbiguous, Continue, Result
    <3>2. Drafted' /\ Analysed' /\ Chosen'
      BY <3>1 DEF Staged, Drafted, Analysed, Chosen, Early
    <3> QED
      BY <1>0, <3>1, <3>2, StageEvents, StepIsStaged DEF Staged, Typed
  <2>3. ASSUME NEW a \in Viable, DecideSelected(a)
        PROVE  Staged'
    <3>1. a.ref \in Refs
      BY DEF Viable, Staged, Analysed
    <3>2. /\ analyses' = analyses /\ drafts' = drafts /\ log' = log
          /\ verdict' = Result(IF a.missing = {} THEN "ready"
                               ELSE IF a.conflicting THEN "conflicting" ELSE "needs_clarification",
                               a.ref, a.missing, <<>>, a.reproducible)
          /\ IF a.missing = {}
             THEN pc' = "ending" /\ queue' = <<"gaps.computed", "compilation.ready">>
             ELSE pc' = "plan" /\ queue' = <<"gaps.computed">>
      BY <2>3 DEF DecideSelected, Continue
    <3>3. Chosen'
      BY <3>1, <3>2 DEF Chosen, Result
    <3>4. Drafted' /\ Analysed'
      BY <3>2 DEF Staged, Drafted, Analysed, Early
    <3> QED
      BY <1>0, <3>2, <3>3, <3>4, StageEvents, StepIsStaged DEF Staged, Typed
  <2> QED
    BY <1>7, <2>1, <2>2, <2>3 DEF Decide
<1>8. CASE Plan
  <2>1. pc = "plan" /\ setup' = setup /\ log' = log /\ drafts' = drafts /\ analyses' = analyses
        /\ pc' \in {"render", "ending"} /\ queue' \in Seq(Events)
    BY <1>8, StageEvents, EventSequences DEF Plan, At, Continue
  <2>2. verdict'.kind = "result" /\ verdict'.status # "ready"
    BY <1>8, <2>1 DEF Plan, PlannedVerdict, Staged, Chosen, Result
  <2> QED
    BY <2>1, <2>2 DEF Staged, Typed, Rested, Drafted, Analysed, Chosen, Early, Accepts, Referenced, Events, Terminal
<1>9. CASE PlanFails
  BY <1>0, <1>9, DoneIsStaged DEF PlanFails
<1>10. CASE Render
  BY <1>10 DEF Render, EndWith, Continue, At, Blocked,
     Staged, Typed, Rested, Drafted, Analysed, Chosen, Early, Accepts, Referenced, Events, Terminal
<1>11. CASE Cancel
  BY <1>0, <1>11, DoneIsStaged DEF Cancel
<1>12. CASE End
  <2>1. CASE Done(verdict)
    BY <1>0, <2>1, DoneIsStaged
  <2>2. CASE /\ verdict.kind # "error" /\ Continue("store", <<>>)
             /\ UNCHANGED <<drafts, analyses, consulted, verdict>>
    BY <1>12, <2>2 DEF End, Continue, At,
       Staged, Typed, Rested, Drafted, Analysed, Chosen, Early, Accepts, Referenced, Events, Terminal
  <2> QED
    BY <1>12, <2>1, <2>2 DEF End
<1>13. CASE Store
  BY <1>0, <1>13, DoneIsStaged DEF Store
<1>14. CASE StoreRefuses
  BY <1>0, <1>14, DoneIsStaged DEF StoreRefuses
<1> QED
  BY <1>1, <1>2, <1>3, <1>4, <1>5, <1>6, <1>7, <1>8, <1>9, <1>10, <1>11, <1>12, <1>13, <1>14
     DEF Stages

\* The evaluation around it starts compilations and forgets them.
LEMMA StagedStep ==
  ASSUME Staged, [Next]_vars
  PROVE  Staged'
<1>1. ASSUME ForgetCompilation, setup' = setup
      PROVE  Staged'
  BY <1>1 DEF ForgetCompilation, Staged, Typed, Rested, Drafted, Analysed, Chosen, Early
<1>2. CASE StartScenario
  BY <1>2, BeginIsStaged DEF StartScenario
<1>3. CASE FactoryRefuses
  BY <1>1, <1>3 DEF FactoryRefuses, Abort
<1>4. CASE Compile
  BY <1>4, StageIsStaged DEF Compile
<1>5. CASE ScoreError
  BY <1>1, <1>5 DEF ScoreError, Leave
<1>6. CASE Escape
  BY <1>1, <1>6 DEF Escape, Abort
<1>7. CASE Answer
  <2>1. setup' = setup /\ Accepts(setup)
    BY <1>7 DEF Answer, HasResult, Finished, Staged, Rested
  <2>2. Begin({"invalid_input", "stale_session"})
    BY <1>7 DEF Answer
  <2> QED
    BY <2>1, <2>2, BeginIsStaged
<1>8. CASE ScoreResult
  BY <1>1, <1>8 DEF ScoreResult, Leave
<1>9. CASE UNCHANGED vars
  BY <1>9 DEF vars, compilation, Staged, Typed, Rested, Drafted, Analysed, Chosen, Accepts,
     Referenced, Result
<1> QED
  BY <1>2, <1>3, <1>4, <1>5, <1>6, <1>7, <1>8, <1>9 DEF Next, Over

-----------------------------------------------------------------------------
(* The reproducible flag.                                                  *)

Earned(r) ==
  /\ r.reproducible => consulted \subseteq setup.deterministic
  /\ setup.allow \/ consulted \subseteq setup.deterministic

\* Every verdict has earned its flag from the decision on.
Honest ==
  /\ (pc \in {"plan", "render", "ending", "store"} /\ verdict.kind = "result") => Earned(verdict)
  /\ ReproducibleIsEarned

LEMMA DoneIsHonest ==
  ASSUME NEW o, o.kind = "result" => Earned(o), Done(o), UNCHANGED setup
  PROVE  Honest'
BY DEF Done, Honest, ReproducibleIsEarned, Finished, Earned

LEMMA StageIsHonest ==
  ASSUME Staged, Honest, Stages, UNCHANGED setup
  PROVE  Honest'
<1>e. \A category : Error(category).kind = "error"
  BY DEF Error
<1>f. ASSUME NEW category, Done(Error(category))
      PROVE  Honest'
  BY <1>e, <1>f, DoneIsHonest
<1>1. CASE Record
  <2>1. CASE Done(Error("raised"))
    BY <1>f, <2>1
  <2>2. CASE UNCHANGED <<pc, consulted, verdict, outcome>>
    BY <2>2 DEF Honest, ReproducibleIsEarned, Finished, Earned
  <2> QED
    BY <1>1, <2>1, <2>2 DEF Record
<1>2. CASE Interpret
  BY <1>2 DEF Interpret, Continue, Honest, ReproducibleIsEarned, Finished
<1>3. CASE InterpretFails
  BY <1>3, <1>e DEF InterpretFails, EndWith, Continue, Honest, ReproducibleIsEarned, Finished
<1>4. CASE Validate
  <2>1. CASE Done(Error("provider_failure"))
    BY <1>f, <2>1
  <2>2. CASE EndWith(Result("unsupported", None, {}, <<>>, TRUE),
                     <<"candidates.generated", "compilation.blocked">>)
    <3>1. consulted' = {} /\ pc' = "ending"
      BY <1>4, <2>2 DEF Validate, At, EndWith, Continue, Staged, Analysed, Early
    <3> QED
      BY <3>1 DEF Honest, ReproducibleIsEarned, Finished, Earned
  <2>3. CASE Continue("analyse", <<"candidates.generated">>)
    BY <2>3 DEF Continue, Honest, ReproducibleIsEarned, Finished
  <2> QED
    BY <1>4, <2>1, <2>2, <2>3 DEF Validate
<1>5. CASE Analyse
  BY <1>5 DEF Analyse, Continue, Honest, ReproducibleIsEarned, Finished
<1>6. CASE AnalyseFails
  BY <1>6, <1>f DEF AnalyseFails
<1>7. CASE Decide
  <2>0. /\ consulted = {} /\ Viable \subseteq analyses
        /\ \A a \in Viable : /\ a.reproducible => a.consulted \subseteq setup.deterministic
                             /\ setup.allow \/ a.consulted \subseteq setup.deterministic
    BY <1>7 DEF Decide, At, Viable, Staged, Analysed, Early
  <2>1. CASE DecideNone
    <3>1. Earned(Result("unsupported", None, {}, <<>>, AllReproducible(analyses)))
      BY <2>0 DEF Earned
    <3> QED
      BY <2>1, <3>1, DoneIsHonest DEF DecideNone
  <2>2. CASE DecideAmbiguous
    <3>1. /\ consulted' = UNION {a.consulted : a \in Viable} /\ pc' = "ending"
          /\ verdict'.reproducible = AllReproducible(Viable)
      BY <2>2 DEF DecideAmbiguous, Continue, Result
    <3>2. setup.allow \/ consulted' \subseteq setup.deterministic
      BY <2>0, <3>1
    <3>3. AllReproducible(Viable) => consulted' \subseteq setup.deterministic
      BY <2>0, <3>1 DEF AllReproducible
    <3> QED
      BY <3>1, <3>2, <3>3 DEF Honest, ReproducibleIsEarned, Finished, Earned
  <2>3. ASSUME NEW a \in Viable, DecideSelected(a)
        PROVE  Honest'
    <3>1. consulted' = a.consulted /\ pc' # "done" /\ verdict'.reproducible = a.reproducible
      BY <2>3 DEF DecideSelected, Continue, Result
    <3> QED
      BY <2>0, <3>1 DEF Honest, ReproducibleIsEarned, Finished, Earned
  <2> QED
    BY <1>7, <2>1, <2>2, <2>3 DEF Decide
<1>8. CASE Plan
  <2> DEFINE asks == {setup.ranker[verdict.selected]} \ {None}
  <2>1. pc = "plan" /\ consulted' = consulted \cup asks /\ pc' # "done"
    BY <1>8 DEF Plan, At, Continue
  <2>2. verdict'.reproducible => verdict.reproducible /\ asks \subseteq setup.deterministic
    BY <1>8, <2>1 DEF Plan, PlannedVerdict, Staged, Chosen, Result
  <2>3. setup.allow \/ asks \subseteq setup.deterministic
    BY <2>1, AskedIsAccepted DEF Staged, Typed, Rested, Chosen
  <2>4. Earned(verdict)
    BY <2>1 DEF Honest, Staged, Chosen
  <2> HIDE DEF asks
  <2> QED
    BY <2>1, <2>2, <2>3, <2>4 DEF Honest, ReproducibleIsEarned, Finished, Earned
<1>9. CASE PlanFails
  BY <1>9, <1>f DEF PlanFails
<1>10. CASE Render
  BY <1>10 DEF Render, At, EndWith, Continue, Honest, ReproducibleIsEarned, Finished, Earned
<1>11. CASE Cancel
  BY <1>11, <1>f DEF Cancel
<1>12. CASE End
  <2>1. pc = "ending"
    BY <1>12 DEF End, At
  <2>2. CASE Done(verdict)
    BY <2>1, <2>2, DoneIsHonest DEF Honest
  <2>3. CASE Continue("store", <<>>) /\ UNCHANGED <<drafts, analyses, consulted, verdict>>
    BY <2>1, <2>3 DEF Continue, Honest, ReproducibleIsEarned, Finished, Earned
  <2> QED
    BY <1>12, <2>2, <2>3 DEF End
<1>13. CASE Store
  BY <1>13, DoneIsHonest DEF Store, At, Honest
<1>14. CASE StoreRefuses
  BY <1>14, <1>f DEF StoreRefuses
<1> QED
  BY <1>1, <1>2, <1>3, <1>4, <1>5, <1>6, <1>7, <1>8, <1>9, <1>10, <1>11, <1>12, <1>13, <1>14
     DEF Stages

LEMMA BeginIsHonest ==
  ASSUME NEW refusals, Begin(refusals)
  PROVE  Honest'
BY DEF Begin, Error, Honest, ReproducibleIsEarned, Finished

LEMMA HonestStep ==
  ASSUME Staged, Honest, [Next]_vars
  PROVE  Honest'
<1>1. ASSUME ForgetCompilation
      PROVE  Honest'
  BY <1>1 DEF ForgetCompilation, Honest, ReproducibleIsEarned, Finished
<1>2. CASE StartScenario
  BY <1>2, BeginIsHonest DEF StartScenario
<1>3. CASE FactoryRefuses \/ ScoreError \/ Escape \/ ScoreResult
  BY <1>1, <1>3 DEF FactoryRefuses, ScoreError, Escape, ScoreResult, Abort, Leave
<1>4. CASE Compile
  BY <1>4, StageIsHonest DEF Compile
<1>5. CASE Answer
  <2>1. Begin({"invalid_input", "stale_session"})
    BY <1>5 DEF Answer
  <2> QED
    BY <2>1, BeginIsHonest
<1>6. CASE UNCHANGED vars
  BY <1>6 DEF vars, compilation, Honest, ReproducibleIsEarned, Finished, Earned
<1> QED
  BY <1>2, <1>3, <1>4, <1>5, <1>6 DEF Next, Over

\* A result that is called reproducible owes nothing to a nondeterministic
\* extension, whatever the contracts name, the host allows and fails.
THEOREM FlagsAreEarned == Spec => []ReproducibleIsEarned
<1>1. Init => Staged /\ Honest
  BY StagedInit DEF Init, Idle, Honest, ReproducibleIsEarned, Finished
<1>2. Staged /\ Honest /\ [Next]_vars => (Staged /\ Honest)'
  BY StagedStep, HonestStep
<1>3. Staged /\ Honest => ReproducibleIsEarned
  BY DEF Honest
<1> QED
  BY <1>1, <1>2, <1>3, PTL DEF Spec

-----------------------------------------------------------------------------
(* The events.                                                             *)

Quiet(s) == \A i \in DOMAIN s : s[i] \notin Terminal

Ends(s, e) ==
  /\ Len(s) > 0 /\ s[Len(s)] = e
  /\ \A i \in DOMAIN s : s[i] \in Terminal => i = Len(s)

\* The recorder took the end of v, or failed to and nobody minds.
Told(v) == Ends(log, Announced(v)) \/ (~setup.strict /\ Quiet(log))

Telling ==
  /\ pc \in Early \cup {"plan", "render"} => Quiet(log) /\ Quiet(queue)
  /\ (pc = "ending" /\ queue # <<>>) => Quiet(log) /\ Ends(queue, Announced(verdict))
  /\ (pc = "ending" /\ queue = <<>>) => Told(verdict)
  /\ pc = "store" => Told(verdict)
  /\ EventsTellTheOutcome

\* Taking the first event of a queue, as long as there is no end in it,
LEMMA TakingAnEvent ==
  ASSUME NEW s \in Seq(Events), NEW q \in Seq(Events), q # <<>>, Quiet(s), Quiet(q)
  PROVE  Quiet(Tail(q)) /\ Quiet(Append(s, Head(q)))
<1>1. /\ Len(q) \in Nat /\ Len(q) > 0 /\ Head(q) = q[1] /\ DOMAIN q = 1 .. Len(q)
      /\ DOMAIN Tail(q) = 1 .. (Len(q) - 1)
      /\ \A i \in 1 .. (Len(q) - 1) : Tail(q)[i] = q[i + 1]
  OBVIOUS
<1>2. /\ Len(s) \in Nat /\ DOMAIN s = 1 .. Len(s)
      /\ DOMAIN Append(s, Head(q)) = 1 .. (Len(s) + 1)
      /\ Append(s, Head(q))[Len(s) + 1] = Head(q)
      /\ \A i \in 1 .. Len(s) : Append(s, Head(q))[i] = s[i]
  BY <1>1
<1> QED
  BY <1>1, <1>2 DEF Quiet

\* and of one that ends with e.
LEMMA TakingTheEnd ==
  ASSUME NEW s \in Seq(Events), NEW q \in Seq(Events), Quiet(s), NEW e, Ends(q, e)
  PROVE  IF Tail(q) = <<>> THEN Ends(Append(s, Head(q)), e)
         ELSE Ends(Tail(q), e) /\ Quiet(Append(s, Head(q)))
<1>0. Len(q) > 0 /\ q # <<>>
  BY DEF Ends
<1>1. /\ Len(q) \in Nat /\ Head(q) = q[1] /\ DOMAIN q = 1 .. Len(q)
      /\ Tail(q) \in Seq(Events) /\ Len(Tail(q)) = Len(q) - 1 /\ DOMAIN Tail(q) = 1 .. (Len(q) - 1)
      /\ \A i \in 1 .. (Len(q) - 1) : Tail(q)[i] = q[i + 1]
  BY <1>0
<1>2. /\ Len(s) \in Nat /\ DOMAIN s = 1 .. Len(s) /\ Len(Append(s, Head(q))) = Len(s) + 1
      /\ DOMAIN Append(s, Head(q)) = 1 .. (Len(s) + 1)
      /\ Append(s, Head(q))[Len(s) + 1] = Head(q)
      /\ \A i \in 1 .. Len(s) : Append(s, Head(q))[i] = s[i]
  BY <1>0, <1>1
<1>3. CASE Tail(q) = <<>>
  <2>1. Len(q) = 1
    <3>1. 1 .. (Len(q) - 1) = {}
      BY <1>1, <1>3
    <3>2. Len(q) \in Nat /\ Len(q) > 0
      BY <1>0, <1>1
    <3>3. \A n \in Nat : n > 0 /\ n # 1 => 1 \in 1 .. (n - 1)
      OBVIOUS
    <3> QED
      BY <3>1, <3>2, <3>3
  <2> QED
    BY <1>1, <1>2, <1>3, <2>1 DEF Ends, Quiet
<1>4. CASE Tail(q) # <<>>
  <2>1. Len(q) > 1
    BY <1>0, <1>1, <1>4
  <2> QED
    BY <1>1, <1>2, <1>4, <2>1 DEF Ends, Quiet
<1> QED
  BY <1>3, <1>4

LEMMA EndsAreAnnounced == \A v : Announced(v) \in Terminal
BY DEF Announced, Terminal

\* What the events of the stages tell.
LEMMA StagesAreQuiet ==
  /\ Quiet(<<>>)
  /\ Quiet(<<"compilation.started", "contracts.validated", "provider.requested">>)
  /\ Quiet(<<"provider.completed">>)
  /\ Quiet(<<"candidates.generated">>)
  /\ Quiet(<<"fields.resolved", "constraints.evaluated">>)
  /\ Quiet(<<"gaps.computed">>)
BY DEF Quiet, Terminal

LEMMA EndingsEnd ==
  /\ Ends(<<"provider.failed", "compilation.failed">>, "compilation.failed")
  /\ Ends(<<"candidates.generated", "compilation.blocked">>, "compilation.blocked")
  /\ Ends(<<"gaps.computed", "questions.planned", "compilation.blocked">>, "compilation.blocked")
  /\ Ends(<<"gaps.computed", "compilation.ready">>, "compilation.ready")
  /\ Ends(Blocked, "compilation.blocked")
BY DEF Ends, Terminal, Blocked

\* A compilation that ends before it announced anything ends in an error.
LEMMA DoneQuietly ==
  ASSUME Quiet(log), NEW category, Done(Error(category)), UNCHANGED setup
  PROVE  Telling'
BY DEF Done, Error, Telling, EventsTellTheOutcome, Finished, TerminalsOf, Quiet, Early

\* One that ends after its verdict was told ends as told.
LEMMA DoneAsTold ==
  ASSUME log \in Seq(Events), Told(verdict), NEW o, Done(o), UNCHANGED setup,
         o = verdict \/ (verdict.kind = "result" /\ o.kind = "error")
  PROVE  Telling'
<1>1. pc' = "done" /\ outcome' = o /\ log' = log /\ verdict' = verdict /\ setup' = setup
  BY DEF Done
<1>2. \A i \in TerminalsOf(log) : i = Len(log) /\ log[i] = Announced(verdict)
  BY DEF Told, Ends, Quiet, TerminalsOf
<1>3. setup.strict => TerminalsOf(log) # {}
  <2>1. ASSUME setup.strict
        PROVE  Len(log) \in TerminalsOf(log)
    BY <2>1, EndsAreAnnounced DEF Told, Ends, TerminalsOf
  <2> QED
    BY <2>1
<1>4. EventsTellTheOutcome'
  BY <1>1, <1>2, <1>3 DEF EventsTellTheOutcome, Finished, TerminalsOf, Announced
<1> QED
  BY <1>1, <1>4 DEF Telling, Early

\* A step that goes on to a stage, its events still to be taken.
LEMMA OnwardsIsTelling ==
  ASSUME Quiet(log), log' = log, pc' \in Early \cup {"plan", "render"}, Quiet(queue')
  PROVE  Telling'
BY DEF Telling, EventsTellTheOutcome, Finished, Quiet, Early

\* A step to the end, which the last of its events announces.
LEMMA EndingIsTelling ==
  ASSUME Quiet(log), log' = log, pc' = "ending", Ends(queue', Announced(verdict'))
  PROVE  Telling'
<1>1. queue' # <<>>
  BY DEF Ends
<1> QED
  BY <1>1 DEF Telling, EventsTellTheOutcome, Finished, Quiet, Early

LEMMA RecordIsTelling ==
  ASSUME Staged, Telling, Record, UNCHANGED setup
  PROVE  Telling'
<1>1. queue \in Seq(Events) /\ queue # <<>> /\ log \in Seq(Events)
      /\ pc \in Early \cup {"plan", "render", "ending"}
  BY DEF Record, Staged, Typed, Rested, Early
<1>2. Quiet(log) /\ (pc # "ending" => Quiet(queue))
      /\ (pc = "ending" => Ends(queue, Announced(verdict)))
  BY <1>1 DEF Telling
<1>3. CASE Done(Error("raised"))
  BY <1>2, <1>3, DoneQuietly
<1>4. ASSUME queue' = Tail(queue), UNCHANGED <<pc, verdict, outcome>>,
             \/ log' = Append(log, Head(queue))
             \/ log' = log /\ ~setup.strict
      PROVE  Telling'
  <2>1. EventsTellTheOutcome'
    BY <1>1, <1>4 DEF EventsTellTheOutcome, Finished, Early
  <2>2. CASE pc # "ending"
    <3>1. Quiet(Tail(queue)) /\ Quiet(Append(log, Head(queue)))
      BY <1>1, <1>2, <2>2, TakingAnEvent
    <3>2. Quiet(log') /\ Quiet(queue')
      BY <1>2, <1>4, <3>1
    <3> QED
      BY <1>1, <1>4, <2>1, <2>2, <3>2 DEF Telling, Quiet, Early
  <2>3. CASE pc = "ending" /\ Tail(queue) # <<>>
    <3>1. Quiet(log') /\ Ends(queue', Announced(verdict))
      BY <1>1, <1>2, <1>4, <2>3, TakingTheEnd
    <3>2. Announced(verdict)' = Announced(verdict) /\ Quiet(log)' /\ Ends(queue, Announced(verdict))'
      BY <1>4, <3>1 DEF Announced, Quiet, Ends
    <3> QED
      BY <1>4, <2>1, <2>3, <3>2 DEF Telling, Early
  <2>4. CASE pc = "ending" /\ Tail(queue) = <<>>
    <3>1. Ends(log', Announced(verdict)) \/ (~setup.strict /\ Quiet(log'))
      BY <1>1, <1>2, <1>4, <2>4, TakingTheEnd
    <3>2. Told(verdict)'
      BY <1>4, <3>1 DEF Told, Announced, Quiet, Ends
    <3> QED
      BY <1>4, <2>1, <2>4, <3>2 DEF Telling, Early
  <2> QED
    BY <2>2, <2>3, <2>4
<1> QED
  BY <1>3, <1>4 DEF Record, RecorderRaises

LEMMA StageIsTelling ==
  ASSUME Staged, Telling, Stages, UNCHANGED setup
  PROVE  Telling'
<1>l. log \in Seq(Events)
  BY DEF Staged, Typed
<1>q. (pc \in Early \cup {"plan", "render"}) => Quiet(log)
  BY DEF Telling
<1>1. CASE Record
  BY <1>1, RecordIsTelling
<1>2. CASE Interpret
  <2>1. pc = "provider" /\ pc' = "validate" /\ log' = log /\ queue' = <<"provider.completed">>
    BY <1>2 DEF Interpret, At, Continue
  <2> QED
    BY <1>q, <2>1, StagesAreQuiet, OnwardsIsTelling DEF Early
<1>3. CASE InterpretFails
  <2>1. PICK category : EndWith(Error(category), <<"provider.failed", "compilation.failed">>)
    BY <1>3 DEF InterpretFails
  <2>2. /\ pc = "provider" /\ pc' = "ending" /\ log' = log
        /\ queue' = <<"provider.failed", "compilation.failed">> /\ verdict' = Error(category)
    BY <1>3, <2>1 DEF InterpretFails, At, EndWith, Continue
  <2>3. Announced(verdict') = "compilation.failed"
    <3>1. verdict'.kind = "error"
      BY <2>2 DEF Error
    <3> QED
      BY <3>1 DEF Announced
  <2> QED
    BY <1>q, <2>2, <2>3, EndingsEnd, EndingIsTelling DEF Early
<1>4. CASE Validate
  <2>0. pc = "validate"
    BY <1>4 DEF Validate, At
  <2>1. CASE Done(Error("provider_failure"))
    BY <1>q, <2>0, <2>1, DoneQuietly DEF Early
  <2>2. CASE EndWith(Result("unsupported", None, {}, <<>>, TRUE),
                     <<"candidates.generated", "compilation.blocked">>)
    <3>1. /\ pc' = "ending" /\ log' = log
          /\ queue' = <<"candidates.generated", "compilation.blocked">>
          /\ verdict' = Result("unsupported", None, {}, <<>>, TRUE)
      BY <2>2 DEF EndWith, Continue
    <3>2. Announced(verdict') = "compilation.blocked"
      BY <3>1 DEF Announced, Result
    <3> QED
      BY <1>q, <2>0, <3>1, <3>2, EndingsEnd, EndingIsTelling DEF Early
  <2>3. CASE Continue("analyse", <<"candidates.generated">>)
    <3>1. pc' = "analyse" /\ log' = log /\ queue' = <<"candidates.generated">>
      BY <2>3 DEF Continue
    <3> QED
      BY <1>q, <2>0, <3>1, StagesAreQuiet, OnwardsIsTelling DEF Early
  <2> QED
    BY <1>4, <2>1, <2>2, <2>3 DEF Validate
<1>5. CASE Analyse
  <2>1. /\ pc = "analyse" /\ pc' \in {"analyse", "decide"} /\ log' = log
        /\ queue' = <<"fields.resolved", "constraints.evaluated">>
    BY <1>5 DEF Analyse, At, Continue
  <2> QED
    BY <1>q, <2>1, StagesAreQuiet, OnwardsIsTelling DEF Early
<1>6. CASE AnalyseFails
  <2>1. pc = "analyse" /\ \E category : Done(Error(category))
    BY <1>6 DEF AnalyseFails, At
  <2> QED
    BY <1>q, <2>1, DoneQuietly DEF Early
<1>7. CASE Decide
  <2>0. pc = "decide" /\ Quiet(log)
    BY <1>7, <1>q DEF Decide, At, Early
  <2>1. Viable # {}
    BY <2>0 DEF Viable, Staged, Analysed
  <2>2. CASE DecideAmbiguous
    <3>1. /\ pc' = "ending" /\ log' = log
          /\ queue' = <<"gaps.computed", "questions.planned", "compilation.blocked">>
          /\ verdict' = Result("ambiguous", None, {"capability"}, <<{"capability"}>>,
                               AllReproducible(Viable))
      BY <2>2 DEF DecideAmbiguous, Continue
    <3>2. Announced(verdict') = "compilation.blocked"
      BY <3>1 DEF Announced, Result
    <3> QED
      BY <2>0, <3>1, <3>2, EndingsEnd, EndingIsTelling
  <2>3. ASSUME NEW a \in Viable, DecideSelected(a)
        PROVE  Telling'
    <3>1. CASE a.missing = {}
      <4>1. /\ pc' = "ending" /\ log' = log /\ queue' = <<"gaps.computed", "compilation.ready">>
            /\ verdict'.kind = "result" /\ verdict'.status = "ready"
        BY <2>3, <3>1 DEF DecideSelected, Continue, Result
      <4>2. Announced(verdict') = "compilation.ready"
        BY <4>1 DEF Announced
      <4> QED
        BY <2>0, <4>1, <4>2, EndingsEnd, EndingIsTelling
    <3>2. CASE a.missing # {}
      <4>1. pc' = "plan" /\ log' = log /\ queue' = <<"gaps.computed">>
        BY <2>3, <3>2 DEF DecideSelected, Continue
      <4> QED
        BY <2>0, <4>1, StagesAreQuiet, OnwardsIsTelling
    <3> QED
      BY <3>1, <3>2
  <2> QED
    BY <1>7, <2>1, <2>2, <2>3 DEF Decide
<1>b. ASSUME pc' = "ending", log' = log, queue' = Blocked, Quiet(log),
             verdict'.kind = "result", verdict'.status # "ready"
      PROVE  Telling'
  <2>1. Announced(verdict') = "compilation.blocked"
    BY <1>b DEF Announced
  <2> QED
    BY <1>b, <2>1, EndingsEnd, EndingIsTelling
<1>8. CASE Plan
  <2>1. /\ pc = "plan" /\ log' = log
        /\ IF setup.renderer THEN pc' = "render" /\ queue' = <<>>
           ELSE pc' = "ending" /\ queue' = Blocked
    BY <1>8 DEF Plan, At, Continue
  <2>2. verdict'.kind = "result" /\ verdict'.status # "ready"
    BY <1>8, <2>1 DEF Plan, PlannedVerdict, Staged, Chosen, Result
  <2> QED
    BY <1>b, <1>q, <2>1, <2>2, StagesAreQuiet, OnwardsIsTelling
<1>9. CASE PlanFails
  <2>1. pc = "plan" /\ Done(Error("internal_error"))
    BY <1>9 DEF PlanFails, At
  <2> QED
    BY <1>q, <2>1, DoneQuietly
<1>10. CASE Render
  <2>1. pc = "render" /\ pc' = "ending" /\ log' = log /\ queue' = Blocked /\ verdict' = verdict
    BY <1>10 DEF Render, At, EndWith, Continue
  <2> QED
    BY <1>b, <1>q, <2>1 DEF Staged, Chosen
<1>11. CASE Cancel
  <2>1. pc \in {"provider", "render"} /\ Done(Error("raised"))
    BY <1>11 DEF Cancel, At
  <2> QED
    BY <1>q, <2>1, DoneQuietly DEF Early
<1>12. CASE End
  <2>1. pc = "ending" /\ queue = <<>> /\ Told(verdict)
    BY <1>12 DEF End, At, Telling
  <2>2. CASE Done(verdict)
    BY <1>l, <2>1, <2>2, DoneAsTold
  <2>3. CASE Continue("store", <<>>) /\ UNCHANGED <<drafts, analyses, consulted, verdict>>
    <3>1. pc' = "store" /\ log' = log /\ verdict' = verdict /\ setup' = setup
      BY <2>3 DEF Continue
    <3> QED
      BY <2>1, <3>1 DEF Telling, Told, Announced, Quiet, Ends, EventsTellTheOutcome, Finished, Early
  <2> QED
    BY <1>12, <2>2, <2>3 DEF End
<1>13. CASE Store
  BY <1>l, <1>13, DoneAsTold DEF Store, At, Telling
<1>14. CASE StoreRefuses
  <2>1. PICK category : pc = "store" /\ Done(Error(category))
    BY <1>14 DEF StoreRefuses, At
  <2>2. Error(category).kind = "error" /\ verdict.kind = "result" /\ Told(verdict)
    BY <2>1 DEF Error, Staged, Chosen, Telling
  <2> QED
    BY <1>l, <2>1, <2>2, DoneAsTold
<1> QED
  BY <1>1, <1>2, <1>3, <1>4, <1>5, <1>6, <1>7, <1>8, <1>9, <1>10, <1>11, <1>12, <1>13, <1>14
     DEF Stages

LEMMA BeginIsTelling ==
  ASSUME NEW refusals, Begin(refusals), UNCHANGED setup
  PROVE  Telling'
<1>1. log' = <<>> /\ pc' \in {"provider", "done"}
  BY DEF Begin
<1>2. CASE pc' = "provider"
  <2>1. queue' = <<"compilation.started", "contracts.validated", "provider.requested">>
    BY <1>2 DEF Begin
  <2> QED
    BY <1>1, <1>2, <2>1, StagesAreQuiet
       DEF Telling, EventsTellTheOutcome, Finished, Quiet, Early
<1>3. CASE pc' = "done"
  <2>1. outcome'.kind = "error"
    BY <1>3 DEF Begin, Error
  <2> QED
    BY <1>1, <1>3, <2>1 DEF Telling, EventsTellTheOutcome, Finished, TerminalsOf, Early
<1> QED
  BY <1>1, <1>2, <1>3

LEMMA TellingStep ==
  ASSUME Staged, Telling, [Next]_vars
  PROVE  Telling'
<1>1. ASSUME ForgetCompilation
      PROVE  Telling'
  BY <1>1 DEF ForgetCompilation, Telling, EventsTellTheOutcome, Finished, Early
<1>2. CASE StartScenario
  BY <1>2, BeginIsTelling DEF StartScenario
<1>3. CASE FactoryRefuses \/ ScoreError \/ Escape \/ ScoreResult
  BY <1>1, <1>3 DEF FactoryRefuses, ScoreError, Escape, ScoreResult, Abort, Leave
<1>4. CASE Compile
  BY <1>4, StageIsTelling DEF Compile
<1>5. CASE Answer
  <2>1. Begin({"invalid_input", "stale_session"}) /\ setup' = setup
    BY <1>5 DEF Answer
  <2> QED
    BY <2>1, BeginIsTelling
<1>6. CASE UNCHANGED vars
  BY <1>6 DEF vars, compilation, Telling, Told, Quiet, Ends, Announced, EventsTellTheOutcome,
     Finished, TerminalsOf
<1> QED
  BY <1>2, <1>3, <1>4, <1>5, <1>6 DEF Next, Over

\* Whoever follows the events is told of the caller's end, or of the one the store
\* refused, and of nothing after it, whatever fails and whichever events are lost.
THEOREM EventsAreTrue == Spec => []EventsTellTheOutcome
<1>1. Init => Staged /\ Telling
  BY StagedInit DEF Init, Idle, Telling, EventsTellTheOutcome, Finished, Early
<1>2. Staged /\ Telling /\ [Next]_vars => (Staged /\ Telling)'
  BY StagedStep, TellingStep
<1>3. Staged /\ Telling => EventsTellTheOutcome
  BY DEF Telling
<1> QED
  BY <1>1, <1>2, <1>3, PTL DEF Spec
=============================================================================
