---------------------------- MODULE ReportProofs ----------------------------
(***************************************************************************)
(* Proofs about the report of an evaluation: its types, and that what it   *)
(* claims is what happened, for any datasets, compilers and failures.      *)
(***************************************************************************)
EXTENDS EvaluationProofs, FiniteSetTheorems

-----------------------------------------------------------------------------
(* What a compilation may ask.                                             *)

\* Questions come with the result whose gaps they are about.
Asking(r) ==
  /\ r.category \in Categories \cup {"raised", None}
  /\ r.status \in Statuses \cup {None}
  /\ r.questions \in Seq(SUBSET Targets)
  /\ r.questions # <<>> => r.kind = "result" /\ r.gaps # {}

Asked == Asking(verdict) /\ Asking(outcome)

LEMMA NoQuestions == <<>> \in Seq(SUBSET Targets)
OBVIOUS

LEMMA ErrorsAskNothing ==
  ASSUME NEW category \in Categories \cup {"raised", None}
  PROVE  Asking(Error(category)) /\ Asking(Nothing)
BY NoQuestions DEF Asking, Error, Nothing

LEMMA UnsupportedAsksNothing ==
  \A b : Asking(Result("unsupported", None, {}, <<>>, b))
BY NoQuestions DEF Asking, Result, Statuses

LEMMA StageIsAsked ==
  ASSUME Staged, Asked, Stages
  PROVE  Asked'
<1>d. ASSUME NEW o, Asking(o), Done(o)
      PROVE  Asked'
  BY <1>d DEF Done, Asked, Asking
<1>e. ASSUME NEW category \in Categories \cup {"raised", None}, Done(Error(category))
      PROVE  Asked'
  BY <1>d, <1>e, ErrorsAskNothing
<1>1. CASE Record
  <2>1. CASE Done(Error("raised"))
    BY <1>e, <2>1
  <2>2. CASE UNCHANGED <<verdict, outcome>>
    BY <2>2 DEF Asked, Asking
  <2> QED
    BY <1>1, <2>1, <2>2 DEF Record
<1>2. CASE Interpret
  BY <1>2 DEF Interpret, Continue, Asked, Asking
<1>3. CASE InterpretFails
  <2>1. PICK category \in {"provider_failure", "budget_exceeded", "internal_error"} :
          EndWith(Error(category), <<"provider.failed", "compilation.failed">>)
    BY <1>3 DEF InterpretFails
  <2>2. category \in Categories
    BY DEF Categories
  <2>3. Asking(verdict)' /\ outcome' = outcome
    BY <2>1, <2>2, ErrorsAskNothing DEF EndWith, Continue, Asking
  <2> QED
    BY <2>3 DEF Asked, Asking
<1>4. CASE Validate
  <2>1. CASE Done(Error("provider_failure"))
    BY <1>e, <2>1 DEF Categories
  <2>2. CASE EndWith(Result("unsupported", None, {}, <<>>, TRUE),
                     <<"candidates.generated", "compilation.blocked">>)
    BY <2>2, UnsupportedAsksNothing DEF EndWith, Continue, Asked, Asking
  <2>3. CASE UNCHANGED <<verdict, outcome>>
    BY <2>3 DEF Asked, Asking
  <2> QED
    BY <1>4, <2>1, <2>2, <2>3 DEF Validate, Continue
<1>5. CASE Analyse
  BY <1>5 DEF Analyse, Continue, Asked, Asking
<1>6. CASE AnalyseFails
  BY <1>6, <1>e DEF AnalyseFails, Categories
<1>7. CASE Decide
  <2>1. CASE DecideNone
    BY <1>d, <2>1, UnsupportedAsksNothing DEF DecideNone
  <2>2. CASE DecideAmbiguous
    <3>1. <<{"capability"}>> \in Seq(SUBSET Targets)
      BY DEF Targets
    <3>2. /\ verdict'.kind = "result" /\ verdict'.gaps = {"capability"} /\ outcome' = outcome
          /\ verdict'.category = None /\ verdict'.status \in Statuses
          /\ verdict'.questions = <<{"capability"}>>
      BY <2>2 DEF DecideAmbiguous, Continue, Result, Statuses
    <3> QED
      BY <3>1, <3>2 DEF Asked, Asking
  <2>3. ASSUME NEW a \in Viable, DecideSelected(a)
        PROVE  Asked'
    <3>1. /\ verdict'.category = None /\ verdict'.status \in Statuses
          /\ verdict'.questions = <<>> /\ outcome' = outcome
      BY <2>3 DEF DecideSelected, Continue, Result, Statuses
    <3> QED
      BY <3>1, NoQuestions DEF Asked, Asking
  <2> QED
    BY <1>7, <2>1, <2>2, <2>3 DEF Decide
<1>8. CASE Plan
  <2>1. pc = "plan" /\ outcome' = outcome
    BY <1>8 DEF Plan, At, Continue
  <2>2. PICK asked \in Rounds :
          /\ UNION Range(asked) \subseteq verdict.gaps
          /\ verdict' = [PlannedVerdict(setup.ranker[verdict.selected]) EXCEPT !.questions = asked]
    BY <1>8 DEF Plan
  <2>3. asked \in Seq((SUBSET Fields) \ {{}}) /\ asked # <<>>
    BY CompilationAssumption
  <2>4. asked \in Seq(SUBSET Targets)
    BY <2>3 DEF Targets
  <2>5. verdict.gaps # {}
    <3>1. 1 \in DOMAIN asked /\ asked[1] # {}
      BY <2>3
    <3>2. asked[1] \in Range(asked)
      BY <3>1 DEF Range
    <3> QED
      BY <2>2, <3>1, <3>2
  <2>6. /\ verdict'.questions = asked /\ verdict'.gaps = verdict.gaps
        /\ verdict'.kind = "result" /\ verdict'.status = verdict.status
        /\ verdict'.category = None
    BY <2>1, <2>2 DEF PlannedVerdict, Staged, Chosen, Result
  <2> QED
    BY <2>1, <2>4, <2>5, <2>6 DEF Asked, Asking
<1>9. CASE PlanFails
  BY <1>9, <1>e DEF PlanFails, Categories
<1>10. CASE Render
  BY <1>10 DEF Render, EndWith, Continue, Asked, Asking
<1>11. CASE Cancel
  BY <1>11, <1>e DEF Cancel
<1>12. CASE End
  BY <1>12, <1>d DEF End, Continue, Asked, Asking
<1>13. CASE Store
  BY <1>13, <1>d DEF Store, Asked
<1>14. CASE StoreRefuses
  BY <1>14, <1>e DEF StoreRefuses, Categories
<1> QED
  BY <1>1, <1>2, <1>3, <1>4, <1>5, <1>6, <1>7, <1>8, <1>9, <1>10, <1>11, <1>12, <1>13, <1>14
     DEF Stages

LEMMA AskedStep ==
  ASSUME Staged, Asked, [Next]_vars
  PROVE  Asked'
<1>1. ASSUME NEW category \in Categories \cup {"raised", None},
             verdict' = Nothing, outcome' = Nothing \/ outcome' = Error(category)
      PROVE  Asked'
  BY <1>1, ErrorsAskNothing DEF Asked, Asking
<1>2. ASSUME ForgetCompilation
      PROVE  Asked'
  BY <1>1, <1>2 DEF ForgetCompilation
<1>3. ASSUME NEW refusals \in SUBSET Categories, Begin(refusals)
      PROVE  Asked'
  BY <1>1, <1>3 DEF Begin
<1>4. CASE StartScenario
  <2>1. {"invalid_input"} \in SUBSET Categories
    BY DEF Categories
  <2> QED
    BY <1>3, <1>4, <2>1 DEF StartScenario
<1>5. CASE FactoryRefuses \/ ScoreError \/ Escape \/ ScoreResult
  BY <1>2, <1>5 DEF FactoryRefuses, ScoreError, Escape, ScoreResult, Abort, Leave
<1>6. CASE Compile
  BY <1>6, StageIsAsked DEF Compile
<1>7. CASE Answer
  <2>1. {"invalid_input", "stale_session"} \in SUBSET Categories
    BY DEF Categories
  <2>2. Begin({"invalid_input", "stale_session"})
    BY <1>7 DEF Answer
  <2> QED
    BY <1>3, <2>1, <2>2
<1>8. CASE UNCHANGED vars
  BY <1>8 DEF vars, compilation, Asked, Asking
<1> QED
  BY <1>4, <1>5, <1>6, <1>7, <1>8 DEF Next, Over

-----------------------------------------------------------------------------
(* The counters.                                                           *)

ReportType == [counts : [Counters -> Nat], failures : Seq(Nat)]

\* No ratio exceeds one.
Fractions(r) ==
  /\ r.counts.gapHits <= r.counts.gapTotal
  /\ r.counts.falseReady <= r.counts.forbidden
  /\ r.counts.recallHits <= r.counts.recallTotal
  /\ r.counts.duplicates <= r.counts.questions

\* r and s agree on how the scenarios ended.
SameEnds(r, s) ==
  /\ r.failures = s.failures
  /\ r.counts.matches = s.counts.matches
  /\ r.counts.rejected = s.counts.rejected
  /\ r.counts.violations = s.counts.violations

LEMMA CountersAre ==
  /\ "matches" \in Counters /\ "rejected" \in Counters /\ "violations" \in Counters
  /\ "gapHits" \in Counters /\ "gapTotal" \in Counters /\ "falseReady" \in Counters
  /\ "forbidden" \in Counters /\ "recallHits" \in Counters /\ "recallTotal" \in Counters
  /\ "duplicates" \in Counters /\ "questions" \in Counters /\ "turns" \in Counters
  /\ "clarified" \in Counters
BY DEF Counters

LEMMA Raising ==
  ASSUME NEW r \in ReportType, NEW more, DOMAIN more \subseteq Counters,
         \A c \in DOMAIN more : more[c] \in Nat
  PROVE  /\ Raise(r, more) \in ReportType
         /\ Raise(r, more).failures = r.failures
         /\ \A c \in Counters :
              Raise(r, more).counts[c] = r.counts[c] + (IF c \in DOMAIN more THEN more[c] ELSE 0)
<1> DEFINE counts == [c \in Counters |-> r.counts[c] + IF c \in DOMAIN more THEN more[c] ELSE 0]
<1>1. counts \in [Counters -> Nat]
  BY DEF ReportType
<1>2. Raise(r, more) = [r EXCEPT !.counts = counts]
  BY DEF Raise
<1>3. \A c \in Counters : counts[c] = r.counts[c] + (IF c \in DOMAIN more THEN more[c] ELSE 0)
  OBVIOUS
<1> HIDE DEF counts
<1>4. Raise(r, more).counts = counts /\ Raise(r, more).failures = r.failures
      /\ Raise(r, more) \in ReportType
  BY <1>1, <1>2 DEF ReportType
<1> QED
  BY <1>3, <1>4

LEMMA CountsAreNatural ==
  ASSUME NEW r \in ReportType
  PROVE  /\ r.failures \in Seq(Nat)
         /\ r.counts.matches \in Nat /\ r.counts.rejected \in Nat /\ r.counts.violations \in Nat
         /\ r.counts.gapHits \in Nat /\ r.counts.gapTotal \in Nat
         /\ r.counts.falseReady \in Nat /\ r.counts.forbidden \in Nat
         /\ r.counts.recallHits \in Nat /\ r.counts.recallTotal \in Nat
         /\ r.counts.duplicates \in Nat /\ r.counts.questions \in Nat
<1>1. r.failures \in Seq(Nat) /\ \A c \in Counters : r.counts[c] \in Nat
  BY DEF ReportType
<1> QED
  BY <1>1, CountersAre

LEMMA SubsetsAreSmaller ==
  ASSUME NEW S, IsFiniteSet(S), NEW T, T \subseteq S
  PROVE  Cardinality(T) \in Nat /\ Cardinality(S) \in Nat /\ Cardinality(T) <= Cardinality(S)
BY FS_Subset, FS_CardinalityType

\* Every question is counted, those that repeat at most once each.
LEMMA ObservedIsSound ==
  ASSUME Asked, NEW r \in ReportType, Fractions(r)
  PROVE  Observed(r) \in ReportType /\ Fractions(Observed(r)) /\ SameEnds(Observed(r), r)
<1> DEFINE again == {i \in DOMAIN outcome.questions : outcome.questions[i] \cap answered # {}}
           more == [questions |-> Len(outcome.questions), duplicates |-> Cardinality(again)]
<1>1. Len(outcome.questions) \in Nat /\ DOMAIN outcome.questions = 1 .. Len(outcome.questions)
  BY DEF Asked, Asking
<1>2. /\ IsFiniteSet(1 .. Len(outcome.questions))
      /\ Cardinality(1 .. Len(outcome.questions)) = Len(outcome.questions)
  BY <1>1, FS_Interval
<1>3. Cardinality(again) \in Nat /\ Cardinality(again) <= Len(outcome.questions)
  <2>1. again \subseteq 1 .. Len(outcome.questions)
    BY <1>1
  <2> HIDE DEF again
  <2> QED
    BY <1>2, <2>1, SubsetsAreSmaller
<1>4. Observed(r) = Raise(r, more)
  BY DEF Observed
<1> HIDE DEF again
<1>5. DOMAIN more \subseteq Counters /\ \A c \in DOMAIN more : more[c] \in Nat
  BY <1>1, <1>3 DEF Counters
<1>6. /\ Raise(r, more) \in ReportType
      /\ Raise(r, more).failures = r.failures
      /\ \A c \in Counters :
           Raise(r, more).counts[c] = r.counts[c] + (IF c \in DOMAIN more THEN more[c] ELSE 0)
  BY <1>5, Raising
<1>7. DOMAIN more = {"questions", "duplicates"} /\ more["questions"] = Len(outcome.questions)
      /\ more["duplicates"] = Cardinality(again)
  OBVIOUS
<1> HIDE DEF more
<1> DEFINE s == Raise(r, more)
<1>8. Fractions(s) /\ SameEnds(s, r)
  <2>1. /\ s.counts["gapHits"] = r.counts["gapHits"] + 0
        /\ s.counts["gapTotal"] = r.counts["gapTotal"] + 0
        /\ s.counts["falseReady"] = r.counts["falseReady"] + 0
        /\ s.counts["forbidden"] = r.counts["forbidden"] + 0
        /\ s.counts["recallHits"] = r.counts["recallHits"] + 0
        /\ s.counts["recallTotal"] = r.counts["recallTotal"] + 0
        /\ s.counts["matches"] = r.counts["matches"] + 0
        /\ s.counts["rejected"] = r.counts["rejected"] + 0
        /\ s.counts["violations"] = r.counts["violations"] + 0
    BY <1>6, <1>7, CountersAre
  <2>2. /\ s.counts["duplicates"] = r.counts["duplicates"] + Cardinality(again)
        /\ s.counts["questions"] = r.counts["questions"] + Len(outcome.questions)
    BY <1>6, <1>7, CountersAre
  <2>3. s.failures = r.failures
    BY <1>6
  <2> HIDE DEF s
  <2>4. SameEnds(s, r)
    BY <2>1, <2>3, CountsAreNatural DEF SameEnds
  <2>5. Fractions(s)
    <3>1. s.counts.duplicates <= s.counts.questions
      <4>1. \A a, b, c, d \in Nat : a <= b /\ c <= d => a + c <= b + d
        OBVIOUS
      <4>2. Len(outcome.questions) \in Nat
        BY <1>1
      <4>3. r.counts["duplicates"] <= r.counts["questions"]
        BY DEF Fractions
      <4> QED
        BY <1>3, <2>2, <4>1, <4>2, <4>3, CountsAreNatural
    <3> QED
      BY <2>1, <3>1, CountsAreNatural DEF Fractions
  <2> QED
    BY <2>4, <2>5
<1> QED
  BY <1>4, <1>6, <1>8

LEMMA TargetsAreFinite == IsFiniteSet(Targets)
BY EvaluationAssumption, FS_AddElement DEF Targets

\* The scores of a result are hits among what the scenario expects.
LEMMA MeasuredIsSound ==
  ASSUME NEW r \in ReportType, Fractions(r), Running \in Scenario, turns \in Nat
  PROVE  Measured(r) \in ReportType /\ Fractions(Measured(r)) /\ SameEnds(Measured(r), r)
<1> DEFINE hits == Cardinality(InitialResult.gaps \cap Running.targets)
           total == Cardinality(Running.targets)
           more == [clarified |-> Flag(Running.script # <<>>), turns |-> turns,
                    gapHits |-> hits, gapTotal |-> total,
                    forbidden |-> Flag(Running.forbidReady),
                    falseReady |-> Flag(Running.forbidReady /\ outcome.status = "ready"),
                    recallTotal |-> Flag(Running.capabilities # {}),
                    recallHits |-> Flag(InitialResult.candidates \cap Running.capabilities # {})]
<1>1. Running.targets \subseteq Targets
  BY DEF Scenario
<1>2. IsFiniteSet(Running.targets)
  BY <1>1, TargetsAreFinite, FS_Subset
<1>3. hits \in Nat /\ total \in Nat /\ hits <= total
  BY <1>2, SubsetsAreSmaller
<1>4. Measured(r) = Raise(r, more)
  BY DEF Measured
<1> HIDE DEF hits, total
<1>5. /\ DOMAIN more = {"clarified", "turns", "gapHits", "gapTotal", "forbidden", "falseReady",
                        "recallTotal", "recallHits"}
      /\ more["gapHits"] = hits /\ more["gapTotal"] = total /\ more["turns"] = turns
      /\ more["clarified"] \in {0, 1} /\ more["forbidden"] \in {0, 1}
      /\ more["falseReady"] \in {0, 1} /\ more["falseReady"] <= more["forbidden"]
      /\ more["recallTotal"] \in {0, 1} /\ more["recallHits"] \in {0, 1}
      /\ more["recallHits"] <= more["recallTotal"]
  BY DEF Flag
<1> HIDE DEF more
<1>6. DOMAIN more \subseteq Counters
  BY <1>5 DEF Counters
<1>7. \A c \in DOMAIN more : more[c] \in Nat
  BY <1>3, <1>5
<1>8. /\ Raise(r, more) \in ReportType
      /\ Raise(r, more).failures = r.failures
      /\ \A c \in Counters :
           Raise(r, more).counts[c] = r.counts[c] + (IF c \in DOMAIN more THEN more[c] ELSE 0)
  BY <1>6, <1>7, Raising
<1> DEFINE s == Raise(r, more)
<1>9. Fractions(s) /\ SameEnds(s, r)
  <2>1. /\ s.counts["gapHits"] = r.counts["gapHits"] + hits
        /\ s.counts["gapTotal"] = r.counts["gapTotal"] + total
        /\ s.counts["falseReady"] = r.counts["falseReady"] + more["falseReady"]
        /\ s.counts["forbidden"] = r.counts["forbidden"] + more["forbidden"]
        /\ s.counts["recallHits"] = r.counts["recallHits"] + more["recallHits"]
        /\ s.counts["recallTotal"] = r.counts["recallTotal"] + more["recallTotal"]
    BY <1>5, <1>8, CountersAre
  <2>2. /\ s.counts["duplicates"] = r.counts["duplicates"] + 0
        /\ s.counts["questions"] = r.counts["questions"] + 0
        /\ s.counts["matches"] = r.counts["matches"] + 0
        /\ s.counts["rejected"] = r.counts["rejected"] + 0
        /\ s.counts["violations"] = r.counts["violations"] + 0
    BY <1>5, <1>8, CountersAre
  <2>3. s.failures = r.failures
    BY <1>8
  <2> HIDE DEF s
  <2>4. SameEnds(s, r)
    BY <2>2, <2>3, CountsAreNatural DEF SameEnds
  <2>5. Fractions(s)
    <3>1. s.counts.gapHits <= s.counts.gapTotal
      BY <1>3, <2>1, CountsAreNatural DEF Fractions
    <3>2. s.counts.falseReady <= s.counts.forbidden
      BY <1>5, <2>1, CountsAreNatural DEF Fractions
    <3>3. s.counts.recallHits <= s.counts.recallTotal
      BY <1>5, <2>1, CountsAreNatural DEF Fractions
    <3>4. s.counts.duplicates <= s.counts.questions
      BY <2>2, CountsAreNatural DEF Fractions
    <3> QED
      BY <3>1, <3>2, <3>3, <3>4 DEF Fractions
  <2> QED
    BY <2>4, <2>5
<1> QED
  BY <1>4, <1>8, <1>9

-----------------------------------------------------------------------------
(* Where the evaluation is.                                                *)

Ending == [category : Categories \cup {"raised", None}, status : Statuses \cup {None}, turns : Nat]

Progress ==
  /\ dataset \in Datasets
  /\ index \in Nat
  /\ ends \in Seq(Ending)
  /\ index = Len(ends) + 1
  /\ stage \in {"factory", "compiling", "answering", "reported", "aborted"}
  /\ stage \in {"factory", "compiling", "answering"} => index <= Len(dataset)
  /\ pc = "idle" <=> stage \notin {"compiling", "answering"}
  /\ turns \in Nat
  /\ turns > 0 => stage \in {"answering", "aborted"} /\ initial.kind = "result"

LEMMA RunningIsScenario ==
  ASSUME Progress, stage \in {"factory", "compiling", "answering"}
  PROVE  Running \in Scenario
<1>1. dataset \in Seq(Scenario)
  BY EvaluationAssumption DEF Progress
<1>2. index \in 1 .. Len(dataset)
  BY DEF Progress
<1> QED
  BY <1>1, <1>2 DEF Running

LEMMA StagesKeepRunning ==
  ASSUME Staged, Stages
  PROVE  pc' # "idle"
<1>1. ASSUME NEW o, Done(o)
      PROVE  pc' # "idle"
  BY <1>1 DEF Done
<1>2. CASE Record
  BY <1>1, <1>2 DEF Record, Staged, Rested
<1>3. CASE Decide
  BY <1>1, <1>3 DEF Decide, DecideNone, DecideAmbiguous, DecideSelected, Continue
<1>4. CASE AnalyseFails \/ PlanFails \/ Cancel \/ Store \/ StoreRefuses
  BY <1>1, <1>4 DEF AnalyseFails, PlanFails, Cancel, Store, StoreRefuses
<1>5. CASE Interpret \/ InterpretFails \/ Analyse \/ Render
  BY <1>5 DEF Interpret, InterpretFails, Analyse, Render, EndWith, Continue
<1>6. CASE Validate \/ Plan \/ End
  BY <1>1, <1>6 DEF Validate, Plan, End, EndWith, Continue
<1> QED
  BY <1>2, <1>3, <1>4, <1>5, <1>6 DEF Stages

LEMMA LeavingProgresses ==
  ASSUME Progress, Asked, Leave, stage \in {"compiling", "answering"}
  PROVE  Progress' /\ ends' = Append(ends, [category |-> outcome.category,
                                            status |-> outcome.status, turns |-> turns])
<1> DEFINE end == [category |-> outcome.category, status |-> outcome.status, turns |-> turns]
<1>1. end \in Ending
  BY DEF Asked, Asking, Progress, Ending
<1>2. ends' = Append(ends, end) /\ index' = index + 1 /\ dataset' = dataset
  BY DEF Leave
<1> HIDE DEF end
<1>3. ends' \in Seq(Ending) /\ Len(ends') = Len(ends) + 1
  BY <1>1, <1>2 DEF Progress
<1>4. index <= Len(dataset) /\ Len(dataset) \in Nat /\ index \in Nat
  BY EvaluationAssumption DEF Progress
<1>5. stage' = (IF index < Len(dataset) THEN "factory" ELSE "reported")
  BY DEF Leave
<1>6. stage' \in {"factory", "compiling", "answering"} => index' <= Len(dataset')
  BY <1>2, <1>4, <1>5
<1>7. pc' = "idle" /\ turns' = 0
  BY DEF Leave, FreshScenario, ForgetCompilation
<1>8. Progress'
  BY <1>2, <1>3, <1>4, <1>5, <1>6, <1>7 DEF Progress
<1> QED
  BY <1>2, <1>8 DEF end

LEMMA ProgressStep ==
  ASSUME Staged, Asked, Progress, [Next]_vars
  PROVE  Progress'
<1>1. CASE StartScenario
  <2>1. /\ stage = "factory" /\ stage' = "compiling" /\ pc' # "idle"
        /\ UNCHANGED <<dataset, index, initial, turns, ends>>
    BY <1>1 DEF StartScenario, Begin
  <2> QED
    BY <2>1 DEF Progress
<1>2. CASE FactoryRefuses \/ Escape
  BY <1>2 DEF FactoryRefuses, Escape, Abort, ForgetCompilation, Progress
<1>3. CASE Compile
  BY <1>3, StagesKeepRunning DEF Compile, progress, Progress
<1>4. CASE ScoreError \/ ScoreResult
  BY <1>4, LeavingProgresses DEF ScoreError, ScoreResult, HasResult
<1>5. CASE Answer
  <2>1. /\ stage \in {"compiling", "answering"} /\ stage' = "answering" /\ pc' # "idle"
        /\ turns' = turns + 1 /\ initial' = InitialResult /\ outcome.kind = "result"
        /\ UNCHANGED <<dataset, index, ends>>
    BY <1>5 DEF Answer, HasResult, Begin
  <2>2. initial'.kind = "result"
    BY <2>1 DEF InitialResult, Progress
  <2> QED
    BY <2>1, <2>2 DEF Progress
<1>6. CASE UNCHANGED vars
  BY <1>6 DEF vars, compilation, progress, Progress
<1> QED
  BY <1>1, <1>2, <1>3, <1>4, <1>5, <1>6 DEF Next, Over

-----------------------------------------------------------------------------
(* What the report claims.                                                 *)

\* The scenario at i ended in its error, or in its status at the end of its script.
EndedWell(i) ==
  \/ ends[i].category # None /\ ends[i].category = dataset[i].category
  \/ ends[i].status = dataset[i].status /\ ends[i].turns = Len(dataset[i].script)

\* Each of the first n scenarios is a match, a rejection or a failure.
Accounted(r, n) ==
  /\ r \in ReportType
  /\ Fractions(r)
  /\ Range(r.failures) \subseteq 1 .. n
  /\ r.counts.matches + r.counts.rejected <= n
  /\ r.counts.matches + r.counts.rejected + Cardinality(Range(r.failures)) >= n

\* The running scenario has been counted as one that must be rejected.
Expecting == stage \in {"compiling", "answering"} /\ Running.category # None

Unrejected(r) ==
  IF Expecting THEN r.counts.rejected < r.counts.violations
  ELSE r.counts.rejected <= r.counts.violations

Reported ==
  /\ Accounted(report, Len(ends))
  /\ \A i \in DOMAIN ends \ Range(report.failures) : EndedWell(i)
  /\ Unrejected(report)

LEMMA RangeOfAppend ==
  ASSUME NEW S, NEW s \in Seq(S), NEW x \in S
  PROVE  Range(Append(s, x)) = Range(s) \cup {x}
<1>1. /\ Len(s) \in Nat /\ DOMAIN s = 1 .. Len(s) /\ DOMAIN Append(s, x) = 1 .. (Len(s) + 1)
      /\ Append(s, x)[Len(s) + 1] = x
      /\ \A i \in 1 .. Len(s) : Append(s, x)[i] = s[i]
  OBVIOUS
<1>2. \A n \in Nat : 1 .. (n + 1) = (1 .. n) \cup {n + 1}
  OBVIOUS
<1> QED
  BY <1>1, <1>2 DEF Range

LEMMA FailingKeepsCounts ==
  ASSUME NEW r \in ReportType, Fractions(r), index \in Nat
  PROVE  /\ Fail(r) \in ReportType /\ Fractions(Fail(r))
         /\ Fail(r).counts = r.counts
         /\ Range(Fail(r).failures) = Range(r.failures) \cup {index}
<1>1. r.failures \in Seq(Nat)
  BY DEF ReportType
<1> DEFINE failures == Append(r.failures, index)
<1>a. failures \in Seq(Nat)
  BY <1>1
<1>b. Fail(r) = [r EXCEPT !.failures = failures]
  BY DEF Fail
<1>2. /\ Fail(r).counts = r.counts /\ Fail(r).failures = failures
      /\ Fail(r) \in ReportType
  <2> HIDE DEF failures
  <2> QED
    BY <1>a, <1>b DEF ReportType
<1>3. Range(Append(r.failures, index)) = Range(r.failures) \cup {index}
  BY <1>1, RangeOfAppend
<1> QED
  BY <1>2, <1>3 DEF Fractions

\* One more of c, which is no term of a ratio.
LEMMA RaisingByOne ==
  ASSUME NEW r \in ReportType, Fractions(r), NEW c \in {"matches", "rejected", "violations"},
         NEW more, DOMAIN more = {c}, more[c] = 1
  PROVE  /\ Raise(r, more) \in ReportType /\ Fractions(Raise(r, more))
         /\ Raise(r, more).failures = r.failures
         /\ Raise(r, more).counts[c] = r.counts[c] + 1
         /\ \A d \in {"matches", "rejected", "violations"} \ {c} :
              Raise(r, more).counts[d] = r.counts[d]
<1>1. c \in Counters
  BY CountersAre
<1>2. DOMAIN more \subseteq Counters /\ \A d \in DOMAIN more : more[d] \in Nat
  BY <1>1
<1>3. /\ Raise(r, more) \in ReportType
      /\ Raise(r, more).failures = r.failures
      /\ \A d \in Counters :
           Raise(r, more).counts[d] = r.counts[d] + (IF d \in DOMAIN more THEN more[d] ELSE 0)
  BY <1>2, Raising
<1> DEFINE s == Raise(r, more)
<1>4. \A d \in Counters : r.counts[d] \in Nat
  BY DEF ReportType
<1>5. \A d \in Counters \ {c} : s.counts[d] = r.counts[d]
  <2>1. ASSUME NEW d \in Counters \ {c}
        PROVE  s.counts[d] = r.counts[d] + 0 /\ r.counts[d] \in Nat
    BY <1>3, <1>4, <2>1
  <2>2. \A n \in Nat : n + 0 = n
    OBVIOUS
  <2> QED
    BY <2>1, <2>2
<1>6. s.counts[c] = r.counts[c] + 1
  BY <1>1, <1>3
<1> HIDE DEF s
<1>7. Fractions(s)
  <2>1. /\ s.counts["gapHits"] = r.counts["gapHits"] /\ s.counts["gapTotal"] = r.counts["gapTotal"]
        /\ s.counts["falseReady"] = r.counts["falseReady"]
        /\ s.counts["forbidden"] = r.counts["forbidden"]
        /\ s.counts["recallHits"] = r.counts["recallHits"]
        /\ s.counts["recallTotal"] = r.counts["recallTotal"]
        /\ s.counts["duplicates"] = r.counts["duplicates"]
        /\ s.counts["questions"] = r.counts["questions"]
    BY <1>5, CountersAre
  <2> QED
    BY <2>1 DEF Fractions
<1> QED
  BY <1>3, <1>5, <1>6, <1>7, CountersAre DEF s

\* A scenario that adds one to the matches and rejections, or its index to the failures,
\* is accounted for.
LEMMA ScoredIsAccounted ==
  ASSUME NEW r, NEW s \in ReportType, NEW n \in Nat, Accounted(r, n), Fractions(s), index = n + 1,
         NEW before, before = r.counts.matches + r.counts.rejected,
         NEW after, after = s.counts.matches + s.counts.rejected,
         \/ after = before + 1 /\ Range(s.failures) = Range(r.failures)
         \/ after \in {before, before + 1} /\ Range(s.failures) = Range(r.failures) \cup {index}
  PROVE  Accounted(s, n + 1)
<1> DEFINE F == Range(r.failures)
<1>1. F \subseteq 1 .. n /\ before \in Nat /\ before <= n /\ before + Cardinality(F) >= n
  BY CountsAreNatural DEF Accounted
<1>2. IsFiniteSet(F) /\ Cardinality(F) \in Nat /\ index \notin F
  <2>1. IsFiniteSet(1 .. n)
    BY FS_Interval
  <2>2. index \notin F
    BY <1>1
  <2> HIDE DEF F
  <2>3. IsFiniteSet(F)
    BY <1>1, <2>1, FS_Subset
  <2> QED
    BY <2>2, <2>3, FS_CardinalityType
<1> HIDE DEF F
<1>3. Cardinality(F \cup {index}) = Cardinality(F) + 1
  BY <1>2, FS_AddElement
<1>4. after \in Nat /\ after <= n + 1 /\ Range(s.failures) \subseteq 1 .. (n + 1)
  BY <1>1 DEF F
<1>5. after + Cardinality(Range(s.failures)) >= n + 1
  <2>1. CASE after = before + 1 /\ Range(s.failures) = F
    <3>1. \A a, b, m \in Nat : a + b >= m => (a + 1) + b >= m + 1
      OBVIOUS
    <3> QED
      BY <1>1, <1>2, <2>1, <3>1
  <2>2. CASE after \in {before, before + 1} /\ Range(s.failures) = F \cup {index}
    <3>1. \A a, b, m \in Nat : a + b >= m => a + (b + 1) >= m + 1 /\ (a + 1) + (b + 1) >= m + 1
      OBVIOUS
    <3> QED
      BY <1>1, <1>2, <1>3, <2>2, <3>1
  <2> QED
    BY <2>1, <2>2 DEF F
<1> QED
  BY <1>4, <1>5 DEF Accounted

\* What a score does to the claims.
LEMMA ScoringReports ==
  ASSUME Progress, Reported, Leave, stage \in {"compiling", "answering"}, Asked,
         Accounted(report', Len(ends) + 1),
         Range(report.failures) \subseteq Range(report'.failures),
         \/ index \in Range(report'.failures)
         \/ outcome.category # None /\ outcome.category = Running.category
         \/ outcome.status = Running.status /\ turns = Len(Running.script),
         report'.counts.rejected <= report'.counts.violations
  PROVE  Reported'
<1> DEFINE end == [category |-> outcome.category, status |-> outcome.status, turns |-> turns]
<1>1. ends' = Append(ends, end) /\ end \in Ending /\ dataset' = dataset
      /\ stage' \in {"factory", "reported"}
  BY LeavingProgresses DEF Leave, Asked, Asking, Progress, Ending
<1>2. /\ Len(ends) \in Nat /\ index = Len(ends) + 1 /\ DOMAIN ends = 1 .. Len(ends)
      /\ ends \in Seq(Ending)
  BY DEF Progress
<1> HIDE DEF end
<1>3. /\ Len(ends') = Len(ends) + 1 /\ DOMAIN ends' = 1 .. index /\ ends'[index] = end
      /\ \A i \in DOMAIN ends : ends'[i] = ends[i]
  BY <1>1, <1>2
<1>4. Accounted(report, Len(ends))'
  BY <1>3 DEF Accounted, ReportType, Fractions
<1>5. \A i \in DOMAIN ends' \ Range(report'.failures) : EndedWell(i)'
  <2>1. ASSUME NEW i \in DOMAIN ends', i \notin Range(report'.failures), i # index
        PROVE  EndedWell(i)'
    <3>1. i \in DOMAIN ends \ Range(report.failures)
      BY <1>2, <1>3, <2>1
    <3>2. EndedWell(i)
      BY <3>1 DEF Reported
    <3> QED
      BY <1>1, <1>3, <3>1, <3>2 DEF EndedWell
  <2>2. ASSUME NEW i \in DOMAIN ends', i \notin Range(report'.failures), i = index
        PROVE  EndedWell(i)'
    <3>1. \/ outcome.category # None /\ outcome.category = dataset[index].category
          \/ outcome.status = dataset[index].status /\ turns = Len(dataset[index].script)
      BY <2>2 DEF Running
    <3>2. /\ end.category = outcome.category /\ end.status = outcome.status /\ end.turns = turns
      BY DEF end
    <3>3. end = ends'[i] /\ dataset'[i] = dataset[index]
      BY <1>1, <1>3, <2>2
    <3> HIDE DEF end
    <3> QED
      BY <3>1, <3>2, <3>3 DEF EndedWell
  <2> QED
    BY <2>1, <2>2
<1>6. Unrejected(report)'
  BY <1>1 DEF Unrejected, Expecting
<1> QED
  BY <1>4, <1>5, <1>6 DEF Reported

\* A step that ends no scenario.
LEMMA GoingOnReports ==
  ASSUME Reported, UNCHANGED <<dataset, ends>>, NEW s, report' = s,
         s \in ReportType, Fractions(s), s.failures = report.failures,
         s.counts.matches = report.counts.matches, s.counts.rejected = report.counts.rejected,
         Unrejected(report)'
  PROVE  Reported'
<1>1. Accounted(s, Len(ends))
  BY DEF Reported, Accounted
<1>2. Accounted(report, Len(ends))'
  BY <1>1 DEF Accounted, ReportType, Fractions
<1>3. \A i \in DOMAIN ends \ Range(report.failures) : EndedWell(i)'
  BY DEF Reported, EndedWell
<1> QED
  BY <1>2, <1>3 DEF Reported

LEMMA LessIsAtMost ==
  ASSUME NEW r \in ReportType, Unrejected(r)
  PROVE  r.counts.rejected <= r.counts.violations
<1>1. \A m, n \in Nat : m < n => m <= n
  OBVIOUS
<1> QED
  BY <1>1, CountsAreNatural DEF Unrejected

LEMMA StartReports ==
  ASSUME Progress, Reported, StartScenario
  PROVE  Reported'
<1>1. /\ stage = "factory" /\ stage' = "compiling" /\ UNCHANGED <<dataset, index, ends>>
      /\ report' = IF Running.category # None THEN Raise(report, [violations |-> 1]) ELSE report
  BY DEF StartScenario
<1>2. report \in ReportType /\ Fractions(report) /\ report.counts.rejected <= report.counts.violations
  BY LessIsAtMost DEF Reported, Accounted
<1>3. CASE Running.category # None
  <2> DEFINE more == [violations |-> 1]
             s == Raise(report, more)
  <2>1. DOMAIN more = {"violations"} /\ more["violations"] = 1
    OBVIOUS
  <2>2. report' = s
    BY <1>1, <1>3
  <2> HIDE DEF more
  <2>3. /\ s \in ReportType /\ Fractions(s) /\ s.failures = report.failures
        /\ s.counts["violations"] = report.counts["violations"] + 1
        /\ \A d \in {"matches", "rejected", "violations"} \ {"violations"} :
             s.counts[d] = report.counts[d]
    BY <1>2, <2>1, RaisingByOne
  <2>4. s.counts.matches = report.counts.matches /\ s.counts.rejected = report.counts.rejected
    BY <2>3
  <2>5. s.counts.rejected < s.counts.violations
    <3>1. \A m, n \in Nat : m <= n => m < n + 1
      OBVIOUS
    <3> QED
      BY <1>2, <2>3, <2>4, <3>1, CountsAreNatural
  <2> HIDE DEF s
  <2>6. Unrejected(report)'
    <3>1. Expecting'
      BY <1>1, <1>3 DEF Expecting, Running
    <3> QED
      BY <2>2, <2>5, <3>1 DEF Unrejected
  <2> QED
    BY <1>1, <2>2, <2>3, <2>4, <2>6, GoingOnReports
<1>4. CASE Running.category = None
  <2>1. Unrejected(report)'
    BY <1>1, <1>2, <1>4 DEF Unrejected, Expecting, Running
  <2> QED
    BY <1>1, <1>2, <1>4, <2>1, GoingOnReports
<1> QED
  BY <1>3, <1>4

LEMMA StayingReports ==
  ASSUME Reported, UNCHANGED <<dataset, index, ends, report>>,
         stage' \in {"compiling", "answering"} => stage \in {"compiling", "answering"}
  PROVE  Reported'
<1>1. report \in ReportType /\ Fractions(report) /\ report.counts.rejected <= report.counts.violations
  BY LessIsAtMost DEF Reported, Accounted
<1>2. Expecting' => Expecting
  BY DEF Expecting, Running
<1>3. Unrejected(report)'
  BY <1>1, <1>2 DEF Reported, Unrejected
<1> QED
  BY <1>1, <1>3, GoingOnReports

LEMMA AnswerReports ==
  ASSUME Progress, Asked, Reported, Answer
  PROVE  Reported'
<1>1. /\ stage \in {"compiling", "answering"} /\ stage' = "answering"
      /\ report' = Observed(report) /\ UNCHANGED <<dataset, index, ends>>
  BY DEF Answer, HasResult
<1>2. report \in ReportType /\ Fractions(report)
  BY DEF Reported, Accounted
<1>3. Observed(report) \in ReportType /\ Fractions(Observed(report))
      /\ SameEnds(Observed(report), report)
  BY <1>2, ObservedIsSound
<1>4. Unrejected(report)'
  <2>1. Expecting' <=> Expecting
    BY <1>1 DEF Expecting, Running
  <2> QED
    BY <1>1, <1>3, <2>1 DEF Reported, Unrejected, SameEnds
<1> QED
  BY <1>1, <1>3, <1>4, GoingOnReports DEF SameEnds

LEMMA ErrorReports ==
  ASSUME Progress, Asked, Reported, ScoreError
  PROVE  Reported'
<1>1. /\ stage = "compiling" /\ Leave /\ outcome.category \in Categories
      /\ report' = IF outcome.category = Running.category THEN Raise(report, [rejected |-> 1])
                   ELSE Fail(report)
  BY DEF ScoreError
<1>2. /\ report \in ReportType /\ Fractions(report) /\ Accounted(report, Len(ends))
      /\ report.counts.rejected <= report.counts.violations
  BY LessIsAtMost DEF Reported, Accounted
<1>3. Len(ends) \in Nat /\ index = Len(ends) + 1 /\ index \in Nat
  BY DEF Progress
<1>4. report.counts.matches \in Nat /\ report.counts.rejected \in Nat
      /\ report.counts.violations \in Nat
  BY <1>2, CountsAreNatural
<1>5. CASE outcome.category = Running.category
  <2> DEFINE more == [rejected |-> 1]
             s == Raise(report, more)
  <2>1. DOMAIN more = {"rejected"} /\ more["rejected"] = 1
    OBVIOUS
  <2>2. report' = s
    BY <1>1, <1>5
  <2> HIDE DEF more
  <2>3. /\ s \in ReportType /\ Fractions(s) /\ s.failures = report.failures
        /\ s.counts["rejected"] = report.counts["rejected"] + 1
        /\ \A d \in {"matches", "rejected", "violations"} \ {"rejected"} :
             s.counts[d] = report.counts[d]
    BY <1>2, <2>1, RaisingByOne
  <2>4. /\ s.counts.matches = report.counts.matches
        /\ s.counts.violations = report.counts.violations
        /\ s.counts.rejected = report.counts.rejected + 1
    BY <2>3
  <2>5. s.counts.matches + s.counts.rejected = report.counts.matches + report.counts.rejected + 1
    BY <1>4, <2>4
  <2> HIDE DEF s
  <2>6. Accounted(s, Len(ends) + 1)
    BY <1>2, <1>3, <2>3, <2>5, ScoredIsAccounted
  <2>7. Running.category # None
    BY <1>1, <1>5, EvaluationAssumption
  <2>8. s.counts.rejected <= s.counts.violations
    <3>1. report.counts.rejected < report.counts.violations
      BY <1>1, <2>7 DEF Reported, Unrejected, Expecting
    <3> QED
      BY <1>4, <2>4, <3>1
  <2>9. outcome.category # None /\ outcome.category = Running.category
    BY <1>5, <2>7
  <2> QED
    BY <1>1, <2>2, <2>3, <2>6, <2>8, <2>9, ScoringReports
<1>6. CASE outcome.category # Running.category
  <2> DEFINE s == Fail(report)
  <2>1. report' = s
    BY <1>1, <1>6
  <2>2. /\ s \in ReportType /\ Fractions(s) /\ s.counts = report.counts
        /\ Range(s.failures) = Range(report.failures) \cup {index}
    BY <1>2, <1>3, FailingKeepsCounts
  <2> HIDE DEF s
  <2>3. Accounted(s, Len(ends) + 1)
    BY <1>2, <1>3, <2>2, ScoredIsAccounted
  <2> QED
    BY <1>1, <1>2, <2>1, <2>2, <2>3, ScoringReports
<1> QED
  BY <1>5, <1>6

\* Either the scenario is a match with no failure, or it is listed as a failure.
LEMMA JudgedIsScored ==
  ASSUME NEW r \in ReportType, Fractions(r), index \in Nat,
         NEW s, s = Judged(Played(r))
  PROVE  /\ s \in ReportType /\ Fractions(s)
         /\ s.counts.rejected = r.counts.rejected /\ s.counts.violations = r.counts.violations
         /\ \/ /\ s.counts.matches = r.counts.matches + 1
               /\ Range(s.failures) = Range(r.failures)
               /\ ~ScriptStuck /\ outcome.status = Running.status
            \/ /\ s.counts.matches \in {r.counts.matches, r.counts.matches + 1}
               /\ Range(s.failures) = Range(r.failures) \cup {index}
<1> DEFINE p == Played(r)
<1>1. /\ p \in ReportType /\ Fractions(p) /\ p.counts = r.counts
      /\ \/ ~ScriptStuck /\ Range(p.failures) = Range(r.failures)
         \/ Range(p.failures) = Range(r.failures) \cup {index}
  BY FailingKeepsCounts DEF Played
<1>2. s = Judged(p)
  OBVIOUS
<1> HIDE DEF p
<1>3. CASE outcome.status = Running.status
  <2> DEFINE more == [matches |-> 1]
  <2>1. DOMAIN more = {"matches"} /\ more["matches"] = 1
    OBVIOUS
  <2>2. s = Raise(p, more)
    BY <1>2, <1>3 DEF Judged
  <2> HIDE DEF more
  <2>3. /\ s \in ReportType /\ Fractions(s) /\ s.failures = p.failures
        /\ s.counts["matches"] = p.counts["matches"] + 1
        /\ \A d \in {"matches", "rejected", "violations"} \ {"matches"} :
             s.counts[d] = p.counts[d]
    BY <1>1, <2>1, <2>2, RaisingByOne
  <2> QED
    BY <1>1, <1>3, <2>3
<1>4. CASE outcome.status # Running.status
  <2>1. s = Fail(p)
    BY <1>2, <1>4 DEF Judged
  <2>2. /\ s \in ReportType /\ Fractions(s) /\ s.counts = p.counts
        /\ Range(s.failures) = Range(p.failures) \cup {index}
    BY <1>1, <2>1, FailingKeepsCounts
  <2> QED
    BY <1>1, <2>2
<1> QED
  BY <1>3, <1>4

LEMMA ResultReports ==
  ASSUME Progress, Asked, Reported, ScoreResult
  PROVE  Reported'
<1> DEFINE r == Observed(report)
           t == Judged(Played(r))
           s == Measured(t)
<1>1. /\ stage \in {"compiling", "answering"} /\ Leave /\ report' = s
      /\ turns = Len(Running.script) \/ ScriptStuck
  BY DEF ScoreResult, HasResult
<1>2. /\ report \in ReportType /\ Fractions(report) /\ Accounted(report, Len(ends))
      /\ report.counts.rejected <= report.counts.violations
  BY LessIsAtMost DEF Reported, Accounted
<1>3. Len(ends) \in Nat /\ index = Len(ends) + 1 /\ index \in Nat /\ turns \in Nat
  BY DEF Progress
<1>4. r \in ReportType /\ Fractions(r) /\ SameEnds(r, report)
  BY <1>2, ObservedIsSound
<1> HIDE DEF r
<1>5. /\ t \in ReportType /\ Fractions(t)
      /\ t.counts.rejected = r.counts.rejected /\ t.counts.violations = r.counts.violations
      /\ \/ /\ t.counts.matches = r.counts.matches + 1
            /\ Range(t.failures) = Range(r.failures)
            /\ ~ScriptStuck /\ outcome.status = Running.status
         \/ /\ t.counts.matches \in {r.counts.matches, r.counts.matches + 1}
            /\ Range(t.failures) = Range(r.failures) \cup {index}
  BY <1>3, <1>4, JudgedIsScored
<1> HIDE DEF t
<1>6. s \in ReportType /\ Fractions(s) /\ SameEnds(s, t)
  BY <1>1, <1>3, <1>5, MeasuredIsSound, RunningIsScenario
<1> HIDE DEF s
<1>7. /\ s.counts.rejected = report.counts.rejected
      /\ s.counts.violations = report.counts.violations
      /\ \/ /\ s.counts.matches = report.counts.matches + 1
            /\ Range(s.failures) = Range(report.failures)
            /\ ~ScriptStuck /\ outcome.status = Running.status
         \/ /\ s.counts.matches \in {report.counts.matches, report.counts.matches + 1}
            /\ Range(s.failures) = Range(report.failures) \cup {index}
  BY <1>4, <1>5, <1>6 DEF SameEnds
<1>8. Accounted(s, Len(ends) + 1)
  <2> DEFINE before == report.counts.matches + report.counts.rejected
             after == s.counts.matches + s.counts.rejected
  <2>1. report.counts.matches \in Nat /\ report.counts.rejected \in Nat
    BY <1>2, CountsAreNatural
  <2>2. \/ after = before + 1 /\ Range(s.failures) = Range(report.failures)
        \/ after \in {before, before + 1} /\ Range(s.failures) = Range(report.failures) \cup {index}
    <3>1. \A a, b \in Nat : (a + 1) + b = (a + b) + 1
      OBVIOUS
    <3> QED
      BY <1>7, <2>1, <3>1
  <2> HIDE DEF before, after
  <2>3. before = report.counts.matches + report.counts.rejected
        /\ after = s.counts.matches + s.counts.rejected
    BY DEF before, after
  <2> QED
    BY <1>2, <1>3, <1>6, <2>2, <2>3, ScoredIsAccounted
<1>9. /\ Range(report.failures) \subseteq Range(s.failures)
      /\ \/ index \in Range(s.failures)
         \/ outcome.status = Running.status /\ turns = Len(Running.script)
      /\ s.counts.rejected <= s.counts.violations
  BY <1>1, <1>2, <1>7
<1> QED
  BY <1>1, <1>8, <1>9, ScoringReports

LEMMA ReportedStep ==
  ASSUME Progress, Asked, Reported, [Next]_vars
  PROVE  Reported'
<1>1. CASE FactoryRefuses \/ Escape
  BY <1>1, StayingReports DEF FactoryRefuses, Escape, Abort
<1>2. CASE Compile
  BY <1>2, StayingReports DEF Compile, progress
<1>3. CASE UNCHANGED vars
  BY <1>3, StayingReports DEF vars, progress
<1> QED
  BY <1>1, <1>2, <1>3, StartReports, AnswerReports, ErrorReports, ResultReports DEF Next, Over

LEMMA ReportInit == Init => Progress /\ Asked /\ Reported
<1> SUFFICES ASSUME Init
             PROVE  Progress /\ Asked /\ Reported
  OBVIOUS
<1>1. dataset \in Seq(Scenario)
  BY EvaluationAssumption DEF Init
<1>2. stage \in {"factory", "reported"} /\ (stage = "factory" => 1 <= Len(dataset))
  BY <1>1 DEF Init
<1>3. ends \in Seq(Ending) /\ Len(ends) = 0
  BY DEF Init
<1>4. Progress
  BY <1>2, <1>3 DEF Init, Idle, Progress
<1>5. Asked
  BY NoQuestions DEF Init, Idle, Nothing, Error, Asked, Asking
<1>6. Reported
  <2>1. report = EmptyReport /\ ends = <<>>
    BY DEF Init
  <2>2. /\ report \in ReportType /\ report.failures = <<>>
        /\ \A c \in Counters : report.counts[c] = 0
    <3>1. <<>> \in Seq(Nat) /\ [c \in Counters |-> 0] \in [Counters -> Nat]
      OBVIOUS
    <3> QED
      BY <2>1, <3>1 DEF EmptyReport, ReportType
  <2>3. Range(report.failures) = {}
    BY <2>2 DEF Range
  <2>4. Fractions(report)
    BY <2>2, CountersAre DEF Fractions
  <2>5. report.counts.matches = 0 /\ report.counts.rejected = 0 /\ report.counts.violations = 0
    BY <2>2, CountersAre
  <2>6. Accounted(report, Len(ends))
    <3>1. Cardinality(Range(report.failures)) = 0
      BY <2>3, FS_EmptySet
    <3>2. Range(report.failures) \subseteq 1 .. Len(ends)
      BY <2>3
    <3> QED
      BY <1>3, <2>2, <2>4, <2>5, <3>1, <3>2 DEF Accounted
  <2>7. Unrejected(report)
    BY <1>2, <2>5 DEF Unrejected, Expecting
  <2> QED
    BY <2>1, <2>6, <2>7 DEF Reported
<1> QED
  BY <1>4, <1>5, <1>6

-----------------------------------------------------------------------------
(* The theorems.                                                           *)

\* The inductive invariant.
Booked == Staged /\ Progress /\ Asked /\ Reported

\* The compilations are in shape and the report counts what has ended, at every step.
THEOREM BooksAreKept == Spec => []Booked
<1>1. Init => Booked
  BY StagedInit, ReportInit DEF Booked
<1>2. Booked /\ [Next]_vars => Booked'
  BY StagedStep, ProgressStep, AskedStep, ReportedStep DEF Booked
<1> QED
  BY <1>1, <1>2, PTL DEF Spec

\* The evaluation keeps its books in order: a score per scenario that has ended, no
\* compilation and no turn left over between scenarios, and questions only of a
\* result that has gaps.
THEOREM EvaluationTypes == Spec => []TypeOK
<1>1. Booked => TypeOK
  <2> SUFFICES ASSUME Progress, Asked, Reported
               PROVE  TypeOK
    BY DEF Booked
  <2>1. Len(ends) = index - 1 /\ 1 .. Len(ends) \subseteq 1 .. index
    BY DEF Progress
  <2>2. Askable(None) # {} => outcome.kind = "result" /\ outcome.gaps # {}
    BY DEF Askable, Asked, Asking
  <2> QED
    BY <2>1, <2>2 DEF TypeOK, Progress, Reported, Accounted, ReportType
<1> QED
  BY <1>1, BooksAreKept, PTL

\* What an evaluation reports has happened, however its compilations fail and
\* whatever its scripts answer.
THEOREM ReportsAreEarned == Spec => []ReportIsEarned
<1>1. Booked => ReportIsEarned
  BY LessIsAtMost DEF Booked, Reported, EndedWell, Accounted, Fractions, ReportIsEarned
<1> QED
  BY <1>1, BooksAreKept, PTL
=============================================================================
