# Taskfront (`taskc`): a TLA+ model

Taskfront compiles a natural-language request and a catalog of capability
contracts into a *dispatch-ready intent*, asking the user clarification
questions until nothing blocks it. This directory holds TLA+ modules for the
parts of it where state, order, failure and concurrency matter, the TLC
configurations that check them, and machine-checked proofs of what matters most.
All source paths are relative to the root of the repository (`src/taskc/...`
in the repository is `src/src/taskc/...` in `PROJECT.json`).

    tlc -config Sessions.cfg MCSessions       # a run, see section 3
    tlapm SessionsProofs.tla                  # proofs, see section 5

## 1. The system

| component | state | operations | interacts with | what makes it correct |
|---|---|---|---|---|
| `TaskCompiler` (`api.py`), store (`session.py`) | id -> `CompilationSession`, `last_session_id` | `compile_async`, `continue_async`, `restart_from_session_async`, `get`, `put` | copies a session, awaits the pipeline, puts the session back | no accepted answer is lost; one winner per revision; a failed call leaves no trace |
| `JsonFileSessionStore` (`adapters/json_session.py`), CLI `compile`/`continue` (`cli.py`) | `<id>.json`, `<id>.json.tmp`, a lock per path and process | `get`, `put`; `_write_session` | threads of a process share the lock, processes only the files | the file is a whole session; acknowledged updates stay; no sensitive literal on disk; locks are released |
| `ProviderBudget`, `ModelInterpretationProvider`, cache, provider phase | counters, deadline, the shared cache | consume calls and attempts, ask the model, retry, time out | the model is external; concurrent compilations share the cache | requests within budget, retries used and only for what they can mend, every call ends |
| `CompilerPipeline`, `analyze_candidate`, `plan_questions`, `is_ready`, merging of answers | `NormalizedRequest` inside the session | judge candidates, select, plan, merge answers, follow catalog changes | drafts in, results out, the next request in | `ready` means dispatchable; a blocked result can be answered; the dialogue ends |
| pipeline's environment: extensions, renderer, recorder, store | registries, the events taken | evaluate, rank, render, record, put | called in the middle of a compilation, each may fail | what the events and the `reproducible` flag claim is true |
| evaluation (`evaluation/metrics.py`) | `EvaluationReport`, the scenario under way | `evaluate_scenarios` | a compiler per scenario, the answer script | the report claims nothing that did not happen |
| contracts: loader, validator, lint, `contract migrate` | files, their `.tmp` neighbours, the loaded catalog | edit, load, migrate (crash, rerun) | authors, commands and hosts share a directory without a lock | whole files, complete catalogs, true reports, protection kept |
| catalog and versions (`contracts/catalog.py`, `versions.py`) | the immutable catalog | resolve, active contracts, equal-precedence lint | feeds the providers | a total order; no silent downgrade; ambiguity is warned of |
| conditions (`models/capability.py`) | none | `evaluate_condition`, `referenced_fields` | requirements and constraints | a decided verdict stays true when more becomes known |
| request normalisation, static matching, redaction, HTTP client | none | pure functions, one request | around the above | see section 7 |
| schemas, renderers of output, models of data | none | formatting and export | | not modelled |

Hard behaviours: every API call is suspended at its await with a private copy
of a session; threads and processes write one file and one temporary name and
may die; deadline, retry and cache meet; answers accumulate over rounds, are
corrected, and the catalog may change in the middle; the host's components fail
inside a compilation; a directory is migrated, edited and loaded at once.
`PROJECT.json` lists each hazard at its line with the properties that watch it.

## 2. Modules

    SessionRegister             what a host may rely on (abstract)
      ^ implemented by
    Sessions                    the calls of the compiler over its store
      ^ SessionsProofs          its properties, and that it implements the register
    RevisionedFile              an atomic get and put (abstract)
      ^ implemented by
    SessionFile                 one session file: threads, processes, crashes
      ^ SessionFileProofs       its properties, and that it implements get and put
    ProviderCall                budget, retries, deadline, cache
      ^ ProviderCallProofs
    Conditions                  three-valued conditions
      ^ ConditionsProofs
      ^ CandidateAnalysis       extraction, analysis, question planning
          ^ Dialogue            the rounds of a session
              ^ DialogueProofs  (extends ConditionsProofs too)
    Versions                    SemVer order, active versions, lint
      ^ ContractDirectory       authors, migrations and loads on one directory
          ^ ContractDirectoryProofs   its properties and those of Versions
    Compilation                 one compilation, its events and its failures
      ^ Evaluation              datasets of scenarios, their scripts, the report
          ^ EvaluationProofs
              ^ ReportProofs
    MCSessions, MCSessionFile, MCProviderCall, MCDialogue, MCContractDirectory,
    MCEvaluation                instances for TLC

The modules look at the same calls at different depths. `Sessions` leaves open
what a compilation decides and interleaves the calls; `Dialogue` computes what
it decides and runs one call at a time; `Compilation` goes through the stages of
one call, with everything that may fail in each. `SessionFile` refines the
atomic `get` and `put` of `RevisionedFile` into the steps of a file store, which is
why `Sessions` may take them as single steps; `ProviderCall` opens the await of
the provider. `Evaluation` composes `Compilation` with the loop that drives it.

Operators called "Faulty variant of X" are plausible mistakes in X. They are
used by nothing; replacing X by one must make the named property fail
(`mutants` in `PROJECT.json`).

### Sessions

A session id and a result id are the call that drew it from `id_generator`
(fresh ids are assumed; `random_id` uses a UUID). `Begin` is a call up to its
await: it has copied the session, validated the batch and holds what it is
going to put. `Commit` is everything after the await: `put` and
`last_session_id` run in one step of the event loop, because nothing awaits
between them. `CompileFailed` covers a pipeline exception and a cancelled
task; `CompileRefused`, `ContinueStale`, `ContinueRefused`, `SessionUnknown` are
the early returns. A batch can mix answers to any results shown so far,
including results of other sessions, whose question ids coincide
(`q-<revision>-<digest>` has no session in it). The order of a batch is the
caller's, so if several answers are faulty any of their errors may be raised.
Fingerprints belong to one compiler and do not change here.

### SessionFile

Names refer to inodes and an open handle keeps its inode across a rename, as
on POSIX. `Open` (create or truncate), `Write`, `Replace` and `Acknowledge`
are separate because another process, or a crash, may come between. Writing
over another writer's text of different length may leave a mixture (`Torn`).
A deployment says which updates are made, the process of each (threads of one
process share the lock of the path, `_FILE_LOCKS`) and which are CLI commands,
which are a process of their own, take no lock and compare no revision.
`RefuseStale` and the checks of `Enter` are one step as they happen under the
lock and touch no file. A crash ends all threads of a process.

What the code promises for the threads of one process only, is stated under
`OneWriter`; what holds for any deployment is stated without it.

`RevisionedFile` is what such a thread may rely on: reading, comparing and
replacing, acknowledging and crashing are single steps on one stored session.
`StoreIsAtomic` maps the file to it: the stored session is the published inode
(`Published`), and between the comparison and the rename an update counts as
"compiled" (`Progress`), so that the rename is the step in which `put` happens. It
speaks of the deployments with one writing process step by step, since in the others
the file is not atomic (section 6, `cli_continue`).

### ProviderCall

One state machine per compilation: `Start` (logical call), `Ask`/`Hit`
(an attempt, to the model or to the cache), `Reply`, `Cancel`
(`asyncio.timeout` resumes the suspended call), `OverBudget`, `TimePasses`, and
`ListingFails`: `active_contracts` raises between the counting of an attempt and
the request if two versions of the call's catalog (`Ambiguous`) are of equal
precedence. A response that does not validate (`malformed`), is too large or names
an unknown capability (both `unusable`) was already cached when it is examined, as in
the code. `timeout` is the model client's own `TimeoutError`,
which `interpret` does not catch. The errors of the HTTP client are replies.

### Conditions, CandidateAnalysis, Dialogue

`Conditions` is `evaluate_condition`, a recursive function on the set
`Expressions`, which is closed under children and well founded (a condition is
a tree of bounded depth). `CandidateAnalysis` holds the operators a round applies to one
candidate: which sources speak (`Supplied`), the most authoritative value,
conflicts, usability, required fields, constraints and which of their gaps stand
(`Standing`: of the violated constraints with one code and the same targets only the
last keeps its gap, whether it blocks or not), and the ranking of
questions with the code's weights (in thousandths; a priority is multiplied by
the number of gaps instead of dividing by it, so no rounding is involved).
`Dialogue` is the loop: `Compile`, `Continue` with any admissible batch,
`ChangeCatalog` (the host starts a compiler with another catalog on the same
store) and `Restart`. `IsContract` is what the analysis relies on a contract for
(`CapabilityContract` and its parts): whatever is required or targeted is a
declared input, and a blocking constraint has a target. Calls that are refused change nothing and have no
action here; `Sessions` has them.

Abstractions: a literal is a model value; parsing, coercion and enum aliases
are the function `read` of an input, type and value schema the set `accepts`;
the text of a request is the assignments (`field: value`) that the extraction
finds in it; which capabilities match the words of a request is open, so every
subset of the catalog is tried. The static provider adds no inferred values; a
model provider returns any draft from `Inferences`, a different one each round.
`Literals` and `Refs` are disjoint, and `MaxRevision <= 10` because
`source_ref` sorts as text (`q-10` before `q-2`), after which "first answer" no
longer means the oldest. Answering an unresolved-terms question appends to the
text, so an answer that happens to contain `size: x` also sets that field;
`Assigns` models it. `Wanted` is what the user has in mind; `WantedSuffices`, which
`MCDialogue` assumes of the static instances, says that each wanted answer may be
given and alone meets every blocking constraint about its input.

### Versions, ContractDirectory

A version is a record of its core, prerelease identifiers and build metadata,
which determine its text. Identifiers are model values with a numeric value and
a rank as text; leading zeroes are refused by the parser, so a number has one
text. `Active` is `resolve` without an exact version: prereleases only when they
are allowed, so that an id with nothing else has no active version otherwise;
build metadata ignored, and an error when several are highest.

In `ContractDirectory` a document keeps what migration and validation look at:
its schema, id, version, the two flags of 0.1 and the two policies of 0.2 that
replace them, whether its blocking constraint names its targets, and which of the
loader's limits (size, structure) its file exceeds as it is and once it has been
written out again: `migrate` applies none of them and writes every file it can read
as an object, also one of another schema version, which it reports as failed. The
migrate command reads, creates the temporary file, fills it, replaces the destination
and reports, one file after the other, and may be killed between any two of
these; its rerun meets what is left. A load reads the files in the order
discovery found them, and the host then serves the catalog and may reload.
`origin` remembers what the author saved that a file stems from. `Edit` may
happen at any moment.

### Compilation, Evaluation

`Compilation` is `CompilerPipeline.compile` stage by stage, with the events in
the order `_event` is called: `queue` holds those a stage has still to record.
What the analysis of a candidate finds is open. The recorder may fail at any
event: swallowed (at most `MaxLost` times), or raised under `telemetry_strict`.
Evaluators, rankers, the renderer and the store fail where they are called; the
caller may cancel where the compilation waits for somebody. `consulted` is the
set of extensions the result depends on. `DecideNone` (no viable candidate) is
translated but cannot happen: the constructor's `_validate_extensions` already
makes every candidate viable, which `EvaluationProofs` proves (`Analysed`) and
uses - it is the one path that would return a result without announcing it.

`Evaluation` is `evaluate_scenarios`: `StartScenario` or `FactoryRefuses`, the
compilation, then `Answer` for each entry of the script that finds a question,
`ScoreResult`, `ScoreError`, or `Escape` for what the loop does not catch. An
empty dataset reports at once. Candidates and gaps are sets, so the cut of the
candidates to the first five is left out: it bites only when `max_candidates` is
raised above its default of 5, and then it lowers `recallHits`, which the
property bounds from above.

## 3. Runs

| run | what it asks | instance | distinct states |
|---|---|---|---|
| `sessions` | lost updates, winners and losers of races, repeated answers, foreign answers, failure leaves no trace, refinement of `SessionRegister` | 4 calls, 2 targets, 2 values, batches of up to 2, symmetric | 90,923 |
| `session_file` | atomic replacement, acknowledged updates, sensitive data, locks with holders, lock release, with crashes; for one process refinement of `RevisionedFile` | 5 threads of one process; 2 processes; a process beside 2 CLI commands | 33,538 |
| `provider_call` | budget, retries, deadline, cache, termination | 4 compilations of which two share a cache key, logical budgets 0 and 2, network budgets 1 and 3, one retry; a fifth whose catalog is ambiguous | 503,370 |
| `dialogue` | askable blocks, bounded rounds, verdicts of conditions, forced capability | static provider, 2 contracts, 3 fields, 2 mistakes, 1 restart | 12,076 |
| `dialogue_evolving` | meaning of `ready`, the last answer wins, retained inputs | a model whose drafts change, 2 questions a round, 3 catalogs, 1 mistake, 1 change, 1 restart, 3 rounds | 16,934 |
| `contract_directory` | whole files, true reports, kept protection, complete catalogs, linted ambiguity, no downgrade | 2 files and their outputs, 7 drafts, a list and a broken file, 3 edits, migrations and loads in any mix, with crashes | 1,704,860 |
| `evaluation` | events, `reproducible`, the report | 5 compilers, 8 replies, 4 rounds of questions, datasets of 0, 1 and 2 scenarios | 2,581,882 |
| `cli_continue`, `cached_retry`, `overwritten_constraint`, `reference_presence`, `conflict_question` (violations) | documented promises the code does not keep, section 6 | small | |

Bounds and why they are enough. Four calls in `sessions` let two calls race on
one revision while a third overtakes and a fourth restarts or continues a
namesake question of another session; each property needs at most three
calls to fail, as its faulty variant shows. Five file updates give a creator,
two racing writers, a later one and a refused one. In `provider_call` one call
has fewer attempts than its retries need, one has none, and two meet in the
cache. In `dialogue` three fields suffice for a requirement triggered by one
field, a constraint on another and a secret; two mistakes are the first wrong
answer and a wrong choice in the conflict it causes. `MaxRevision` (10) is never
reached in that run, so it cuts off nothing; `dialogue_evolving` is cut at
revision 2 and its properties are about single results and single steps. Its
joint constraint lets one batch correct one input and satisfy the rule for
another, which is where keeping the wrong answer would go unnoticed, and a
non-blocking constraint follows a blocking one of the same code and targets.
`contract_directory` has the identifiers 2 and 10, whose order as numbers is not
their order as texts, versions that differ in build metadata only, a contract
the loader refuses for its structure, one that outgrows 2 MB in being rewritten, and any
initial content of the two files; `MaxBegun` (3) allows a migration that
crashes, its rerun and an edit or a load, or a load, an edit and a reload. In
`evaluation` a script entry may name a target, the capability or the first
question; `MaxLost` (1) allows one lost event in any place; two scenarios show
what one leaves to the next. Where a theorem exists (section 5) the bound is of
no consequence for it.

Deadlock checking is on in every run: `Finished` (in `Evaluation`, `Over`)
stutters only where all calls have ended, every bound is used up and nobody has
a step, or, in `Dialogue`, where the result is terminal, the bound is reached or
the session is incompatible with the catalog. A dialogue that waits for nobody,
an update that waits for a lock nobody holds, or a stage without a successor
would be reported.

## 4. Fairness

- `SessionFile`: weak fairness of each thread's next step. A thread waits for
  nothing but the lock, and the operating system schedules runnable threads.
  The updates are finitely many, so weak fairness also suffices for the lock.
- `ProviderCall`: weak fairness, for each call, of its next step or the clock (`Run`
  or `TimePasses`): while a call is under way the event loop runs it or its deadline
  comes nearer, and neither depends on other calls. Nothing is assumed of the model: it may never reply.
- The other modules assume none and state safety only. That a dialogue comes to
  an end is stated as safety, `RoundsAreBounded`: a user who knows the answers is
  asked one question about the capability, one about each input and two more for
  each mistake (proved for every instance with `WantedSuffices`, section 5). Whether a user answers at all is nobody's promise.

## 5. Proofs

Each theorem holds for every value of the constants that satisfies the named
assumption of its module (`SessionsAssumption`, `SessionFileAssumption`, ...);
TLC evaluates the assumptions in the runs. Three theorems assume more and say so:
`ForcedIsFollowed` (the static provider), `RoundsEnd` (the static provider and
`WantedSuffices`) and `ReadyIsDispatched` (below). What is stated under `OneWriter`
is about the behaviours whose deployment is of one process.

**Sessions** (`SessionsProofs`): `TypeCorrect`, `AnswersAreNeverLost`,
`RacesHaveOneWinner`, `LosersWereOvertaken`, for any number of calls. The last
three are not inductive. The argument is one invariant `Inv` over the history of
calls: a call that succeeded from revision `n` of a session leaves the session
beyond `n` (`OvertakenByWinner`); a running call started from a revision the
session has reached (`NeverBehind`), and while the session is still there its
copy holds all stored answers (`CopyIsCurrent`); and if the session has moved
past it, some call succeeded from that revision (`WinnerIsKnown`). `put`'s
comparison then says that the session has not moved since the call read it.

**The register** (also `SessionsProofs`): `CompilerRefinesRegister`, every step of
the compiler over its store is a step of `SessionRegister` or a stutter; with
`FailuresLeaveNothing`, `AnswersHaveQuestions` and `QuestionsAreAnsweredOnce`.
The strengthening `History` adds to `Inv` where each stored answer comes from:
its result was shown (`ResultWasShown`), its record is one the batch check
accepts (`RecordsAreGood`), and the copy a call holds is what it read plus its
own batch (`FreshCopy`), which makes a `put` the register's append.

**Session files** (`SessionFileProofs`): `FileTypes`, `SecretsStayInMemory` and
`LocksAreReleased` for any deployment (`Clean`: nobody past the check is sensitive,
and neither is what anybody has copied; a lock is taken on passing the comparison
and given back by whatever ends the update). For one process `SessionFileIsWhole`,
`AcknowledgementsHold` and `UpdatesAreSerial`, from `Guarded`: whoever writes
holds the lock (`Alone`), an update that has not opened its temporary file owns
no inode in use (`Fresh`), what it holds is what is published or was overtaken
(`Current`), the inode behind the temporary name is its own and holds what it
wrote (`Staged`), and an update is in the file when it is acknowledged
(`Stored`). `FileRefinesStore` rests on the same invariant: only the rename moves the
published session (`OnlyRenamePublishes`), and because the lock is held since the
comparison (`Alone`, `Current`) what it puts there is the session that was compared
with one update more, which is the `Put` of `RevisionedFile`; every other step maps
to a step of one update or to a stutter, and a crash to a crash. What a host sees of
the file alone, `OneUpdateAtATime`, follows from it and is proved, not run.

**Provider calls** (`ProviderCallProofs`): `ProviderTypes`, `BudgetsHold`,
`CandidatesWereHeard`, `SilenceIsNoFailure`, `RetriesTakeEffect`, for any budgets,
keys and numbers of calls, from how attempts and requests are counted (`Counted`),
that a cached good response was heard by a call of its key (`Fit`), and what each
end rests on (`Ended`). `SilenceIsNoFailure` says that a call nobody answered ends as
`budget_exceeded`; `provider_failure` without an answer is left to a call whose
catalog is ambiguous, and then no request was made for it either.

**Contract directories** (`ContractDirectoryProofs`). Of operators, for any
identifiers and any finite catalog: `PrecedenceIsTotal` (the order of
`versions.py` is a total preorder on all versions), `GrowingNeverDowngrades`,
`AmbiguityIsLinted`. Of the directory, for any files, drafts and numbers of edits,
migrations and crashes: `DirectoryTypes`, `FilesAreWhole`, `MigrationProtects`,
`ReportIsTrue`, `LintNamesAmbiguity`, `ReloadNeverDowngrades` and
`CatalogsAreComplete`. `MigrationHolds` says what the running command has in hand
and in its temporary file; `StemsFromDocument` that a document stems from a
document; `Replaced` that a file written and not touched since is no longer at 0.1
and, if no failure was counted, a valid 0.2 contract. `ReportIsTrue` concludes from it
that after exit 0 only the loader's own limits can refuse such a file
(`ContentLoads` says what the loader answers at all); `FilesAreCounted` that the files read so far and
those still to be read are together those discovered, which with the refusal of
duplicates makes the catalog as large as the directory was.

**Conditions** (`ConditionsProofs`): `VerdictsAreSound`, for conditions of any shape
and depth: a verdict on some of the values is the two-valued meaning of the
condition under every completion of them, unless the condition asks for presence;
and `VerdictsReadTheirFields`: readings that agree on the referenced fields give one
verdict. The base is `RecursionHasSolution`: a step that looks at the children of a
condition only is solved by exactly one function on `Expressions`, so that
`Evaluate`, `Holds`, `ReferencedFields` and `AsksForPresence` satisfy the equations
they are written with. It is proved from the well-foundedness of `Expressions`
alone, by uniting the partial solutions on sets closed under children; the two
theorems then take a condition none of whose children is a counterexample.

**Dialogues** (`DialogueProofs`), for any contracts, drafts, requests, answers,
catalogs and numbers of rounds. The inductive invariant `Inv` (checked by TLC on
both dialogue instances before it was proved):
- `Stored`: the result is what the pipeline makes of the stored request, some draft
  and the catalog of that call (`Explained`), so that everything said of a result
  can be read off the analysis of one candidate;
- `Memory`: the answers kept for an input end in the one last accepted, and there
  are none if nothing was said. `ReadyHoldsLastAnswer` alone is not inductive,
  because a wrong answer is corrected by appending and only a conflict resets it;
- types and counters.

On it rest
- `DialogueTypes`, and `ForcedIsFollowed` with the static provider (it is false of a
  model provider, section 6);
- `VerdictsStand`, from `VerdictsAreSound`;
- `LastAnswerIsDispatched`: once answered the answers alone are effective
  (`AnswersPrevail`); a ready result has no conflict, so they are all the same one;
- `BlockedAsks`: the questions are strictly ordered (`BeforeIsStrict`), so that the
  finite set of targets has a first one (`FirstExists`), and it survives any cut;
- `KnownInputsAreKept`: what was given prevails over inference and default
  (`RequestPrevails`), so the draft of the round has no part in it, and a compatible
  catalog has the same input (`GivenInputStays`);
- `RoundsEnd`: `RoundsAreBounded` with the static provider and `WantedSuffices`. The
  invariant `RoundsInv` adds to `Inv` a count (`RoundsAreCounted`): the rounds so far
  and those each open subject may still cost (`RoundsLeft`) are within the bound, and
  beyond the first of each subject no more are left than mistakes were made.
  What the user means settles
  an input for good (`WantedSettles`), a wrong answer costs a round to be seen and
  one to be resolved (`AnswerCounts`), the capability is asked about once
  (`CapabilityIsOpen`), and the static provider leaves no terms to ask about
  (`NoTermsAsked`); since every question of a batch has an open subject, each
  round uses up at least one (`BatchCounts`, `RoundCounts`);
- `ReadyIsDispatched`: `ReadyIsDispatchable` holds wherever no condition of the
  selected contract mentions an input that is held as a reference
  (`ReferencesAreUnread`). Without that it is false, as the run
  `reference_presence` shows: the conditions are shown literals only. Of the
  constraints it says what the deduplication leaves of them: a violated blocking one
  of a ready result has a violated, non-blocking namesake later in the contract
  (`OneStands`: of violated namesakes the last stands). That no blocking constraint
  is violated, without the exception, is `ConstraintsAreMet`, which the run
  `overwritten_constraint` refutes. The instance
  of `dialogue_evolving` checks the property without the restriction, for contracts
  in which it makes no difference.

**Compilations and evaluations** (`EvaluationProofs`, `ReportProofs`):
- `FlagsAreEarned`: the flag is right because every analysis carries its own
  (`Analysed`) and what was consulted is at each stage that of the verdict;
- `EventsAreTrue`: before the verdict neither the log nor the queue has a
  terminal event (`Quiet`); at the end the queue ends in the one the verdict
  announces, and then the log does (`Telling`). It needs that a verdict that is
  still to be planned is a blocked result (`Chosen`);
- `EvaluationTypes` and `ReportsAreEarned`, from the inductive invariant `Booked`:
  where the evaluation is (`Progress`), questions come with gaps (`Asked`), the
  scenarios that have ended are each a match, a rejection or a failure and those
  without a failure ended as they should, and a scenario that expects an error was
  counted before it can be counted as rejected (`Reported`).

Only model-checked: the liveness properties `UpdatesEnd` and `CallsEnd`, as
fairness is out of the prover's reach. What is safety in `UpdatesEnd`, that no lock
stays behind, is `LocksAreReleased`. The properties of section 6 are false, and
nothing is proved of them.

## 6. Where code and documents disagree

1. `cli_continue`: two `continue` commands on one session file both succeed and
   one answer is lost (`cli.py:324`); `README.md:73` promises that concurrent
   writes do not overwrite each other.
2. `cached_retry`: a malformed response is cached before it is validated, so the
   retry reads it again (`providers/cache.py:69`).
3. `overwritten_constraint`: gaps are merged by code, fields and candidate values,
   and the last one stays (`compiler/matching.py:82`). The codes of a contract's
   constraints need not differ, so a violated blocking constraint loses its gap to a
   violated non-blocking one that follows it, and the result is `ready`;
   `docs/implementation-spec-v0.2.md:437` says that it produces a gap, and line 761
   that a blocking gap is asked about or bars the candidate.
4. `reference_presence`: `exists: true` is false of an input supplied as a
   reference, so a requirement it triggers is skipped and the result is
   `ready` (`compiler/matching.py:271`).
5. `conflict_question`: a `conflicting` result whose only question is about
   another field (`compiler/questions.py:200`).

Noticed while modelling, without a run of its own:

- Requested capability: only the static provider follows the host's
  `requested_capability`; with a model provider (`providers/model.py:138`) another one
  may be selected, although `docs/implementation-spec-v0.2.md:671` and `README.md`
  present it as the host's choice. `ForcedCapabilityIsSelected` is therefore checked
  and proved of the static provider only.
- Dialogue: with one question a round a blocking constraint over two inputs can
  be asked about one of them for ever (`questions.py:91`): a user who is right about
  that one never gets to correct the other. `WantedSuffices` excludes exactly such
  constraints, so the instance of `RoundsAreBounded` has constraints on their own
  target. A corrected answer costs an extra
  round, because a second answer is first appended and reported as a conflict. An
  answer with a `value_ref` is not compared with the type of its question. A
  default is collected only for an input without any value (`providers/static.py:220`),
  so a model's inference is dispatched in its place, although
  `docs/implementation-spec-v0.2.md:248` and `_SOURCE_PRIORITY` in
  `compiler/matching.py` rank the default above it.
- Versions: two active versions of equal precedence of one id make the implicit
  selection raise inside `interpret`, and the pipeline turns that into
  E-PROVIDER-FAILURE for every implicit compilation of the catalog, also those
  about other ids; with the model provider also for exact ones. The model provider
  lists the active contracts without `allow_prerelease` (`providers/model.py`).
- Migration: a rerun after a crash reports E-MIGRATION-SOURCE-VERSION and exits
  with an error for the files that are already migrated; what an author saves
  between the read and the replace is lost; a file that does not parse ends the
  command with the earlier files rewritten; `--output` naming the source directory
  rewrites the sources without `--in-place` (`cli.py:260`). The limits of the loader
  are not applied, so a file that migrates with exit 0 (one with 1,001 examples, or
  one that exceeds 2 MB only as written out) may be refused by the next load with
  E-CONTRACT-007 or E-CONTRACT-006. A file of another schema version is reported as
  failed, but rewritten all the same. A 0.1 input that already carries a
  `classification` or `source_policy` has it overwritten (`migration.py:25-28`), so
  `secret` becomes `sensitive`; `ProtectionSurvives` speaks of protection or none.
- Telemetry: `provider.cache_hit` and `fields.extracted` are declared and never
  emitted; a failure after `provider.completed` is announced by no event; the store
  may refuse a result after `compilation.ready` was recorded, which
  `EventsTellTheOutcome` states as it is.
- Evaluation: an error of a continuation or of the factory ends the whole
  evaluation without a report; a scenario that expects `invalid_contract` can never
  be scored as rejected, since the constructor raises outside the `try`; a scenario
  that expects an error and returns its expected status instead is a match and no
  failure; a ratio with nothing to count is 1.0.
- HTTP client: a reply of an unexpected shape and the exceptions of `http.client`
  are not turned into provider errors; the thread of a cancelled call runs on.

## 7. Not modelled, and the plan

Not modelled: schema export and renderers of output (formatting without state);
Unicode and size checks of normalisation, the lexical score, the text of version
ranges, the validators of the data models and the lint warnings about a single
contract (pure functions of one value); redaction for display; the default thread
pool of a cancelled HTTP call; two migrations at once, which would share one
temporary file; `ModelCandidateProvider` and `ModelExtractionProvider`, which the
pipeline does not use. Redacted values in a session (a session read back from its
public form) are left out of `Dialogue`; the code drops or refuses them.

What is left, in this order:

1. two concurrent migrations;
2. thread-pool exhaustion behind the HTTP client, with the fairness it needs.
