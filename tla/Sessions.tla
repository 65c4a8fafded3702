------------------------------ MODULE Sessions ------------------------------
(***************************************************************************)
(* TaskCompiler (src/taskc/api.py) and its InMemorySessionStore, as the    *)
(* callers of one event loop see them.  compile_async, continue_async and  *)
(* restart_from_session_async each read the store, then await the compiler *)
(* pipeline, then put the session with the revision they read.  Every call *)
(* runs on a copy, so between the read and the put any number of other     *)
(* calls may have moved the session on.                                    *)
(*                                                                         *)
(* What the pipeline decides is left open here: a compilation returns any  *)
(* set of questions (none when the result is ready or unsupported) or      *)
(* fails.  An identifier (session_id, result_id) is the call that drew it  *)
(* from id_generator, which is taken to return fresh identifiers.          *)
(***************************************************************************)
EXTENDS Integers

CONSTANTS
  Calls,        \* the calls the host makes, each made once
  Targets,      \* question targets: capability, inputs.<f>, unresolved terms
  Kept,         \* the targets whose answers restart_from_session retains
  Values,       \* answer values that _validate_answer accepts
  BadValue,     \* stands for every value it rejects
  NoCall,       \* last_session_id before the first commit
  Revisions,    \* the expected_revision values callers pass
  MaxBatch      \* bound on the answers of one batch

ASSUME SessionsAssumption ==
  /\ Kept \subseteq Targets
  /\ BadValue \notin Values
  /\ NoCall \notin Calls
  /\ Revisions \subseteq Nat
  /\ MaxBatch \in Nat

VARIABLES
  store,        \* session -> stored CompilationSession; rev -1 when absent
  pc,           \* call -> idle, compiling (awaiting the pipeline) or done
  outcome,      \* call -> how it ended
  op,           \* call -> the local session copy it will put
  shown,        \* call -> the questions of the result returned to its caller
  last          \* TaskCompiler.last_session_id

vars == <<store, pc, outcome, op, shown, last>>

-----------------------------------------------------------------------------
(* Questions and answers.  A question's id is q-<revision>-<digest of its   *)
(* type, target and choices>: two sessions at the same revision that ask    *)
(* about the same target use the same id.                                   *)

Answer == [rid: Calls, rev: Nat, target: Targets, val: Values \cup {BadValue}]

Record == [rid: Calls, rev: Nat, target: Targets, val: Values, by: Calls]

Session == [rev: Nat \cup {-1}, rid: Calls, asks: SUBSET Targets,
            answers: SUBSET Record]

QuestionId(a) == <<a.rev, a.target>>

\* The answer names a question of the session's last result.
Asked(s, a) == a.rev = store[s].rev /\ a.target \in store[s].asks

\* Faulty variant of SameResult: the question id alone is trusted.
AnyResult(s, a) == TRUE

\* The answer was given to this very result, not to a namesake question.
SameResult(s, a) == a.rid = store[s].rid

\* Faulty variant of Repeated: a batch is not searched for repeated questions.
NeverRepeated(batch) == FALSE

Repeated(batch) == \E a, b \in batch : a # b /\ QuestionId(a) = QuestionId(b)

\* Faulty variant of Verdicts: _validate_answer is not called.
UntypedVerdicts(s, batch) ==
  IF batch # {} /\ ~Repeated(batch) /\ \A a \in batch : Asked(s, a) /\ SameResult(s, a)
  THEN {"accepted"} ELSE {"invalid_input"}

\* The verdicts on a batch: the first answer that fails decides, and the
\* order of a batch is the caller's.
Verdicts(s, batch) ==
  IF batch = {} \/ Repeated(batch) THEN {"invalid_input"}
  ELSE LET Fault(a) == IF ~Asked(s, a) THEN "invalid_input"
                       ELSE IF ~SameResult(s, a) THEN "stale_session"
                       ELSE IF a.val = BadValue THEN "invalid_input"
                       ELSE "accepted"
           faults == {Fault(a) : a \in batch} \ {"accepted"}
       IN  IF faults = {} THEN {"accepted"} ELSE faults

Accepted(c, batch) ==
  {[rid |-> a.rid, rev |-> a.rev, target |-> a.target, val |-> a.val, by |-> c]
     : a \in batch}

\* What a caller can submit: answers to questions of results it was shown,
\* or about something no result asked.
Answers == {[rid |-> d, rev |-> op[d].expected + 1, target |-> t, val |-> v] :
              d \in {c \in Calls : outcome[c] = "ok"}, t \in Targets,
              v \in Values \cup {BadValue}}

-----------------------------------------------------------------------------
Init ==
  /\ store = [s \in Calls |-> [rev |-> -1, rid |-> s, asks |-> {}, answers |-> {}]]
  /\ pc = [c \in Calls |-> "idle"]
  /\ outcome = [c \in Calls |-> "none"]
  /\ op = [c \in Calls |-> [sid |-> c, source |-> c, expected |-> -1, answers |-> {}]]
  /\ shown = [c \in Calls |-> {}]
  /\ last = NoCall

\* The call reaches its await with a private copy of what it will put.
Begin(c, sid, source, expected, answers) ==
  /\ pc[c] = "idle"
  /\ pc' = [pc EXCEPT ![c] = "compiling"]
  /\ op' = [op EXCEPT ![c] = [sid |-> sid, source |-> source,
                              expected |-> expected, answers |-> answers]]
  /\ UNCHANGED <<store, outcome, shown, last>>

\* The call raises: the store and last_session_id stay as they are.
Refuse(c, error) ==
  /\ pc' = [pc EXCEPT ![c] = "done"]
  /\ outcome' = [outcome EXCEPT ![c] = error]
  /\ UNCHANGED <<store, op, shown, last>>

\* compile_async up to its await; normalize_request may refuse the input.
Compile(c) == Begin(c, c, c, -1, {})

CompileRefused(c) == pc[c] = "idle" /\ Refuse(c, "invalid_input")

\* continue_async reads the session and compares its revision.
CanContinue(c, s, expected) ==
  pc[c] = "idle" /\ store[s].rev >= 0 /\ store[s].rev = expected

ContinueStale(c, s, expected) ==
  /\ pc[c] = "idle"
  /\ store[s].rev >= 0
  /\ store[s].rev # expected
  /\ Refuse(c, "stale_session")

\* continue_async up to its await, with a batch every answer of which passes.
Continue(c, s, expected, batch) ==
  /\ "accepted" \in Verdicts(s, batch)
  /\ Begin(c, s, s, expected, store[s].answers \cup Accepted(c, batch))

ContinueRefused(c, s, batch) ==
  \E v \in Verdicts(s, batch) \ {"accepted"} : Refuse(c, v)

\* Faulty variant of Restart: the session is emptied under its own id.
RestartInPlace(c, s) ==
  /\ store[s].rev >= 0
  /\ Begin(c, s, s, store[s].rev, {})

\* restart_from_session_async up to its await: a new session that keeps the
\* answers whose targets the catalog still understands.
Restart(c, s) ==
  /\ store[s].rev >= 0
  /\ Begin(c, c, s, -1, {r \in store[s].answers : r.target \in Kept})

\* continue_async and restart_from_session_async on an unknown session.
SessionUnknown(c, s) == pc[c] = "idle" /\ store[s].rev = -1 /\ Refuse(c, "invalid_input")

\* Faulty variant of CanPut: the revision is not compared.
PutAlways(c) == TRUE

\* Faulty variant of CanPut: an existing session must be behind the caller.
PutBeyondRevision(c) ==
  LET rev == store[op[c].sid].rev IN IF rev = -1 THEN op[c].expected = -1 ELSE rev < op[c].expected

\* SessionStore.put: compare the stored revision with the expected one.
CanPut(c) == store[op[c].sid].rev = op[c].expected

\* The pipeline returns a result asking about asks; the session is put and
\* the result is returned to the caller.
Commit(c, asks) ==
  /\ pc[c] = "compiling"
  /\ CanPut(c)
  /\ store' = [store EXCEPT ![op[c].sid] =
                 [rev |-> op[c].expected + 1, rid |-> c, asks |-> asks,
                  answers |-> op[c].answers]]
  /\ last' = op[c].sid
  /\ pc' = [pc EXCEPT ![c] = "done"]
  /\ outcome' = [outcome EXCEPT ![c] = "ok"]
  /\ shown' = [shown EXCEPT ![c] = asks]
  /\ UNCHANGED op

\* The pipeline returns but put finds another revision.
CommitRefused(c) ==
  /\ pc[c] = "compiling"
  /\ ~CanPut(c)
  /\ Refuse(c, "stale_session")

\* Faulty variant of CompileFailed: the session is saved although it failed.
FailedButSaved(c) ==
  /\ pc[c] = "compiling"
  /\ store' = [store EXCEPT ![op[c].sid].answers = op[c].answers]
  /\ pc' = [pc EXCEPT ![c] = "done"]
  /\ outcome' = [outcome EXCEPT ![c] = "failed"]
  /\ UNCHANGED <<op, shown, last>>

\* The pipeline raises, or the host cancels the awaiting task.
CompileFailed(c) == pc[c] = "compiling" /\ Refuse(c, "failed")

Finish(c) == \/ \E asks \in SUBSET Targets : Commit(c, asks)
             \/ CommitRefused(c)
             \/ CompileFailed(c)

\* Every call has been made and has ended.
Finished == (\A c \in Calls : pc[c] = "done") /\ UNCHANGED vars

Batches == {{}} \cup {{f[i] : i \in 1 .. MaxBatch} : f \in [1 .. MaxBatch -> Answers]}

Start(c) ==
  \/ Compile(c)
  \/ CompileRefused(c)
  \/ \E s \in Calls, e \in Revisions :
        \/ ContinueStale(c, s, e)
        \/ CanContinue(c, s, e) /\ \E batch \in Batches :
              Continue(c, s, e, batch) \/ ContinueRefused(c, s, batch)
  \/ \E s \in Calls : Restart(c, s) \/ SessionUnknown(c, s)

Next == (\E c \in Calls : Start(c) \/ Finish(c)) \/ Finished

Spec == Init /\ [][Next]_vars

-----------------------------------------------------------------------------
(* Properties.                                                             *)

Outcomes == {"none", "ok", "invalid_input", "stale_session", "failed"}

TypeOK ==
  /\ store \in [Calls -> Session]
  /\ pc \in [Calls -> {"idle", "compiling", "done"}]
  /\ outcome \in [Calls -> Outcomes]
  /\ op \in [Calls -> [sid: Calls, source: Calls, expected: Nat \cup {-1},
                       answers: SUBSET Record]]
  /\ shown \in [Calls -> SUBSET Targets]
  /\ last \in Calls \cup {NoCall}

\* No lost update: the answers of a call that reported success stay in its
\* session, whatever other calls were in flight when it committed
\* (session.answers.extend and put in continue_async).
NoLostAnswers ==
  \A c \in Calls : outcome[c] = "ok" => op[c].answers \subseteq store[op[c].sid].answers

\* Two calls that both succeed never started from the same revision of the
\* same session: one of any two racing continuations is refused by put.
OneWinnerPerRevision ==
  \A c, d \in Calls :
    (outcome[c] = "ok" /\ outcome[d] = "ok" /\ op[c].sid = op[d].sid
       /\ op[c].expected = op[d].expected) => c = d

\* A call refused by put lost to one that succeeded: put never refuses an
\* update that nobody overtook.
LoserWasOvertaken ==
  \A c \in Calls :
    (outcome[c] = "stale_session" /\ op[c].expected >= 0) =>
      \E d \in Calls : /\ outcome[d] = "ok"
                        /\ op[d].sid = op[c].sid
                        /\ op[d].expected = op[c].expected

\* A question is answered at most once in a session's whole life, although
\* several callers may hold it and question ids repeat across sessions.
OneAnswerPerQuestion ==
  \A s \in Calls : \A r1, r2 \in store[s].answers :
    (r1.rid = r2.rid /\ r1.target = r2.target) => r1 = r2

\* Every recorded answer was given to a question that its result asked, and
\* that result was one of this session, or the record was retained by the
\* restart that created this session.
AnswersMeetTheirQuestion ==
  \A s \in Calls : \A r \in store[s].answers :
    /\ outcome[r.rid] = "ok"
    /\ r.target \in shown[r.rid]
    /\ r.rev = op[r.rid].expected + 1
    /\ \/ op[r.rid].sid = s
       \/ op[s].source # s /\ r \in store[op[s].source].answers

\* A call that is refused, fails or is still running leaves nothing in the
\* store: neither its result nor any of its answers.
OnlySuccessIsStored ==
  \A s \in Calls : store[s].rev >= 0 =>
    /\ outcome[store[s].rid] = "ok"
    /\ \A r \in store[s].answers : outcome[r.by] = "ok"

\* The compiler over its store implements the session register.
Register == INSTANCE SessionRegister WITH Sessions <- Calls, reg <- store

ImplementsRegister == Register!Spec
=============================================================================
