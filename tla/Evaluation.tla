------------------------------ MODULE Evaluation ------------------------------
(***************************************************************************)
(* evaluate_scenarios (src/taskc/evaluation/metrics.py), what `taskfront   *)
(* eval` runs: each scenario of a dataset is compiled by a compiler of its *)
(* own, its answer script is played against the questions of the results,  *)
(* and the report counts what happened. The compilations are those of      *)
(* Compilation, with all that may fail in them.                            *)
(***************************************************************************)
EXTENDS Compilation

CONSTANTS
  Datasets   \* sequences of scenarios

Statuses == {"ready", "needs_clarification", "ambiguous", "conflicting", "unsupported"}

\* A script entry names the target it answers, or None for the first question.
Targets == Fields \cup {"capability"}

Scenario ==
  [script : Seq(Targets \cup {None}), status : Statuses,
   category : Categories \cup {"invalid_contract", None},
   targets : SUBSET Targets, capabilities : SUBSET Refs, forbidReady : BOOLEAN]

ASSUME EvaluationAssumption ==
  /\ Datasets \subseteq Seq(Scenario)
  /\ IsFiniteSet(Fields)
  /\ None \notin Categories

VARIABLES
  dataset,    \* the scenarios
  index,      \* the scenario that runs
  stage,      \* "factory", "compiling", "answering", "reported" or "aborted"
  initial,    \* initial_result: the first result of the scenario
  turns,      \* script entries played
  answered,   \* answered_targets
  report,     \* EvaluationReport
  ends        \* how each scenario ended and how much of its script was played (history)

progress == <<dataset, index, stage, initial, turns, answered, report, ends>>
vars == <<setup, compilation, progress>>

-----------------------------------------------------------------------------
(* The report.                                                              *)

Counters ==
  {"matches", "rejected", "violations", "gapHits", "gapTotal", "falseReady", "forbidden",
   "recallHits", "recallTotal", "duplicates", "questions", "turns", "clarified"}

EmptyReport == [counts |-> [c \in Counters |-> 0], failures |-> <<>>]

Flag(b) == IF b THEN 1 ELSE 0

\* The report with the counters in the domain of more raised by its values.
Raise(r, more) ==
  [r EXCEPT !.counts = [c \in Counters |-> @[c] + IF c \in DOMAIN more THEN more[c] ELSE 0]]

Fail(r) == [r EXCEPT !.failures = Append(@, index)]

\* observe_questions: the ids of questions are new with every result, so each
\* question is counted once; it repeats when one of its targets was answered.
Observed(r) ==
  Raise(r, [questions |-> Len(outcome.questions),
            duplicates |-> Cardinality({i \in DOMAIN outcome.questions :
                                          outcome.questions[i] \cap answered # {}})])

Running == dataset[index]

-----------------------------------------------------------------------------
Init ==
  /\ dataset \in Datasets
  /\ index = 1
  /\ stage = IF dataset = <<>> THEN "reported" ELSE "factory"
  /\ initial = Nothing
  /\ turns = 0
  /\ answered = {}
  /\ report = EmptyReport
  /\ ends = <<>>
  /\ setup \in Setups
  /\ Idle

ForgetCompilation ==
  /\ pc' = "idle" /\ queue' = <<>> /\ log' = <<>> /\ lost' = 0 /\ drafts' = <<>>
  /\ analyses' = {} /\ consulted' = {} /\ verdict' = Nothing /\ outcome' = Nothing

\* Faulty variant of FreshScenario: the turns run on.
StaleTurns == initial' = Nothing /\ answered' = {} /\ UNCHANGED turns

\* What the loop sets anew for each scenario.
FreshScenario == initial' = Nothing /\ answered' = {} /\ turns' = 0

\* The scenario is over: the next one starts, or the report is complete.
Leave ==
  /\ ends' = Append(ends, [category |-> outcome.category, status |-> outcome.status, turns |-> turns])
  /\ index' = index + 1
  /\ stage' = IF index < Len(dataset) THEN "factory" ELSE "reported"
  /\ FreshScenario
  /\ ForgetCompilation
  /\ UNCHANGED <<dataset, setup>>

\* The evaluation raises; nothing is reported.
Abort ==
  /\ stage' = "aborted"
  /\ ForgetCompilation
  /\ UNCHANGED <<dataset, setup, index, initial, turns, answered, report, ends>>

\* compiler_factory() and compiler.compile().
StartScenario ==
  /\ stage = "factory"
  /\ Accepts(setup)
  /\ stage' = "compiling"
  /\ report' = IF Running.category # None THEN Raise(report, [violations |-> 1]) ELSE report
  /\ Begin({"invalid_input"})
  /\ UNCHANGED <<dataset, setup, index, initial, turns, answered, ends>>

\* The factory raises outside the try.
FactoryRefuses == stage = "factory" /\ ~Accepts(setup) /\ Abort

Compile == stage \in {"compiling", "answering"} /\ Stages /\ UNCHANGED <<setup, progress>>

\* A TaskCompilerError of the first compilation.
ScoreError ==
  /\ stage = "compiling" /\ Finished
  /\ outcome.kind = "error" /\ outcome.category \in Categories
  /\ report' = IF outcome.category = Running.category THEN Raise(report, [rejected |-> 1])
               ELSE Fail(report)
  /\ Leave

\* Any other exception, and every error of a continuation, leaves the loop.
Escape ==
  /\ stage \in {"compiling", "answering"} /\ Finished
  /\ outcome.kind = "error"
  /\ stage = "answering" \/ outcome.category \notin Categories
  /\ Abort

HasResult == stage \in {"compiling", "answering"} /\ Finished /\ outcome.kind = "result"

\* The questions that the next entry of the script may answer.
Askable(target) ==
  {i \in DOMAIN outcome.questions : target = None \/ target \in outcome.questions[i]}

First(is) == CHOOSE i \in is : \A j \in is : i <= j

InitialResult == IF turns = 0 THEN outcome ELSE initial

\* The next entry answers the first question that has its target.
Answer ==
  /\ HasResult
  /\ turns < Len(Running.script)
  /\ LET askable == Askable(Running.script[turns + 1]) IN
       /\ askable # {}
       /\ answered' = answered \cup outcome.questions[First(askable)]
  /\ report' = Observed(report)
  /\ initial' = InitialResult
  /\ turns' = turns + 1
  /\ stage' = "answering"
  /\ Begin({"invalid_input", "stale_session"})
  /\ UNCHANGED <<dataset, setup, index, ends>>

ScriptStuck == turns < Len(Running.script) /\ Askable(Running.script[turns + 1]) = {}

\* Faulty variant of Played: an entry that cannot be asked is passed over.
PlayedLeniently(r) == r

\* An entry without a question fails the scenario and ends its script.
Played(r) == IF ScriptStuck THEN Fail(r) ELSE r

Judged(r) == IF outcome.status = Running.status THEN Raise(r, [matches |-> 1]) ELSE Fail(r)

\* The cut to the first five candidates keeps them all at the default max_candidates.
Measured(r) ==
  Raise(r, [clarified |-> Flag(Running.script # <<>>), turns |-> turns,
            gapHits |-> Cardinality(InitialResult.gaps \cap Running.targets),
            gapTotal |-> Cardinality(Running.targets),
            forbidden |-> Flag(Running.forbidReady),
            falseReady |-> Flag(Running.forbidReady /\ outcome.status = "ready"),
            recallTotal |-> Flag(Running.capabilities # {}),
            recallHits |-> Flag(InitialResult.candidates \cap Running.capabilities # {})])

\* The last result of the scenario is scored.
ScoreResult ==
  /\ HasResult
  /\ turns = Len(Running.script) \/ ScriptStuck
  /\ report' = Measured(Judged(Played(Observed(report))))
  /\ Leave

Over == stage \in {"reported", "aborted"} /\ UNCHANGED vars

Next ==
  \/ StartScenario \/ FactoryRefuses \/ Compile \/ ScoreError \/ Escape
  \/ Answer \/ ScoreResult \/ Over

Spec == Init /\ [][Next]_vars

-----------------------------------------------------------------------------
(* Properties.                                                              *)

TypeOK ==
  /\ stage \in {"factory", "compiling", "answering", "reported", "aborted"}
  /\ Len(ends) = index - 1
  /\ report.counts \in [Counters -> Nat]
  /\ Range(report.failures) \subseteq 1 .. index
  /\ pc = "idle" <=> stage \notin {"compiling", "answering"}
  /\ turns > 0 => stage \in {"answering", "aborted"} /\ initial.kind = "result"
  /\ Askable(None) # {} => outcome.kind = "result" /\ outcome.gaps # {}

\* What the report claims is what happened: a scenario it lists no failure of
\* ended in its error, or in its status after its whole script was played; each
\* scenario is a match, a rejection or a failure; no ratio of the report exceeds
\* one. `taskfront eval` exits with success on such a report.
ReportIsEarned ==
  /\ \A i \in DOMAIN ends \ Range(report.failures) :
       LET scenario == dataset[i]
           end == ends[i] IN
       \/ end.category # None /\ end.category = scenario.category
       \/ end.status = scenario.status /\ end.turns = Len(scenario.script)
  /\ LET n == report.counts IN
       /\ n.matches + n.rejected <= Len(ends)
       /\ n.matches + n.rejected + Cardinality(Range(report.failures)) >= Len(ends)
       /\ n.rejected <= n.violations /\ n.gapHits <= n.gapTotal /\ n.falseReady <= n.forbidden
       /\ n.recallHits <= n.recallTotal /\ n.duplicates <= n.questions
===============================================================================
