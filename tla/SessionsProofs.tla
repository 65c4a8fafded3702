--------------------------- MODULE SessionsProofs ---------------------------
(***************************************************************************)
(* Machine-checked proofs about Sessions, for any number of calls, any     *)
(* targets, values and batch sizes.                                        *)
(***************************************************************************)
EXTENDS Sessions, TLAPS

-----------------------------------------------------------------------------
(* The inductive invariant.                                                *)

\* A session that does not exist holds nothing.
AbsentIsEmpty == \A s \in Calls : store[s].rev = -1 => store[s].answers = {}

\* A call has an outcome exactly when it is done.
OutcomeWhenDone == \A c \in Calls : outcome[c] = "none" <=> pc[c] # "done"

\* No session goes back behind the revision a running call has read ...
NeverBehind ==
  \A c \in Calls : pc[c] = "compiling" => store[op[c].sid].rev >= op[c].expected

\* ... and while it has not moved on, the call's copy holds all its answers.
CopyIsCurrent ==
  \A c \in Calls :
    (pc[c] = "compiling" /\ store[op[c].sid].rev = op[c].expected)
      => store[op[c].sid].answers \subseteq op[c].answers

\* A call that committed left its session ahead of the revision it read.
OvertakenByWinner ==
  \A c \in Calls : outcome[c] = "ok" => store[op[c].sid].rev > op[c].expected

\* A call that has not begun holds no revision.
IdleHoldsNothing == \A c \in Calls : pc[c] = "idle" => op[c].expected = -1

\* A session moves past the revision a running call read only by a winner.
WinnerIsKnown ==
  \A c \in Calls :
    (pc[c] = "compiling" /\ op[c].expected >= 0 /\ store[op[c].sid].rev > op[c].expected)
      => \E d \in Calls : /\ outcome[d] = "ok"
                          /\ op[d].sid = op[c].sid
                          /\ op[d].expected = op[c].expected

Inv ==
  /\ TypeOK
  /\ AbsentIsEmpty
  /\ OutcomeWhenDone
  /\ NeverBehind
  /\ CopyIsCurrent
  /\ OvertakenByWinner
  /\ NoLostAnswers
  /\ OneWinnerPerRevision
  /\ IdleHoldsNothing
  /\ WinnerIsKnown
  /\ LoserWasOvertaken

-----------------------------------------------------------------------------
(* What a caller can submit is well typed.                                 *)

LEMMA AnswersType == TypeOK => Answers \subseteq Answer
<1> SUFFICES ASSUME TypeOK, NEW a \in Answers PROVE a \in Answer
  OBVIOUS
<1>1. PICK d \in Calls, t \in Targets, v \in Values \cup {BadValue} :
        a = [rid |-> d, rev |-> op[d].expected + 1, target |-> t, val |-> v]
  BY DEF Answers
<1>2. op[d].expected + 1 \in Nat
  BY DEF TypeOK
<1> QED
  BY <1>1, <1>2 DEF Answer

LEMMA BatchesType == ASSUME TypeOK, NEW batch \in Batches PROVE batch \subseteq Answers
<1>1. CASE batch = {}
  BY <1>1
<1>2. CASE batch # {}
  <2>1. PICK f \in [1 .. MaxBatch -> Answers] : batch = {f[i] : i \in 1 .. MaxBatch}
    BY <1>2 DEF Batches
  <2> QED
    BY <2>1
<1> QED
  BY <1>1, <1>2

\* A batch that is accepted yields well-typed records of the calling call.
LEMMA AcceptedType ==
  ASSUME TypeOK, NEW c \in Calls, NEW s \in Calls, NEW batch \in Batches,
         "accepted" \in Verdicts(s, batch)
  PROVE  Accepted(c, batch) \subseteq Record
<1>1. batch \subseteq Answer
  BY AnswersType, BatchesType
<1>2. \A a \in batch : a.val # BadValue
  BY DEF Verdicts
<1> QED
  BY <1>1, <1>2 DEF Accepted, Answer, Record

-----------------------------------------------------------------------------
(* Each kind of step preserves the invariant.                              *)

\* A call that raises changes nothing but its own outcome; one that raises
\* stale_session after its await has found its session moved on.
LEMMA RefuseStep ==
  ASSUME Inv, NEW c \in Calls, pc[c] # "done",
         NEW error \in {"invalid_input", "stale_session", "failed"}, Refuse(c, error),
         (pc[c] = "compiling" /\ error = "stale_session") =>
            store[op[c].sid].rev # op[c].expected
  PROVE  Inv'
<1> USE DEF Inv, Refuse, TypeOK
<1>1. TypeOK'
  BY DEF Outcomes
<1>2. AbsentIsEmpty' /\ OutcomeWhenDone' /\ NeverBehind' /\ CopyIsCurrent'
  BY DEF AbsentIsEmpty, OutcomeWhenDone, NeverBehind, CopyIsCurrent
<1>3. OvertakenByWinner' /\ NoLostAnswers' /\ OneWinnerPerRevision'
  BY DEF OvertakenByWinner, NoLostAnswers, OneWinnerPerRevision
<1>4. IdleHoldsNothing'
  BY DEF IdleHoldsNothing
<1>5. outcome[c] = "none"
  BY DEF OutcomeWhenDone
<1>6. WinnerIsKnown'
  <2> SUFFICES ASSUME NEW d \in Calls, pc'[d] = "compiling", op[d].expected >= 0,
                      store[op[d].sid].rev > op[d].expected
               PROVE  \E e \in Calls : /\ outcome'[e] = "ok"
                                       /\ op[e].sid = op[d].sid
                                       /\ op[e].expected = op[d].expected
    BY DEF WinnerIsKnown
  <2>1. PICK e \in Calls : /\ outcome[e] = "ok"
                           /\ op[e].sid = op[d].sid
                           /\ op[e].expected = op[d].expected
    BY DEF WinnerIsKnown
  <2> QED
    BY <2>1, <1>5
<1>7. LoserWasOvertaken'
  <2> SUFFICES ASSUME NEW d \in Calls, outcome'[d] = "stale_session", op[d].expected >= 0
               PROVE  \E e \in Calls : /\ outcome'[e] = "ok"
                                       /\ op[e].sid = op[d].sid
                                       /\ op[e].expected = op[d].expected
    BY DEF LoserWasOvertaken
  <2>1. PICK e \in Calls : /\ outcome[e] = "ok"
                           /\ op[e].sid = op[d].sid
                           /\ op[e].expected = op[d].expected
    <3>1. CASE d = c
      <4>1. pc[c] = "compiling" /\ error = "stale_session"
        BY <3>1 DEF IdleHoldsNothing
      <4>2. store[op[c].sid].rev > op[c].expected
        <5>1. op[c].sid \in Calls /\ op[c].expected \in Nat \cup {-1}
          OBVIOUS
        <5>2. store[op[c].sid] \in Session
          BY <5>1
        <5>3. store[op[c].sid].rev \in Nat \cup {-1}
          BY <5>2 DEF Session
        <5>4. store[op[c].sid].rev >= op[c].expected
          BY <4>1 DEF NeverBehind
        <5>5. store[op[c].sid].rev # op[c].expected
          BY <4>1
        <5> HIDE DEF Inv, TypeOK, Refuse
        <5> QED
          BY <5>1, <5>3, <5>4, <5>5
      <4> QED
        BY <3>1, <4>1, <4>2 DEF WinnerIsKnown
    <3>2. CASE d # c
      BY <3>2 DEF LoserWasOvertaken
    <3> QED
      BY <3>1, <3>2
  <2> QED
    BY <2>1, <1>5
<1> QED
  BY <1>1, <1>2, <1>3, <1>4, <1>6, <1>7

\* A call that begins copies the answers of the session it has just read.
LEMMA BeginStep ==
  ASSUME Inv, NEW c \in Calls, NEW sid \in Calls, NEW source \in Calls,
         NEW expected \in Nat \cup {-1}, NEW answers \in SUBSET Record,
         store[sid].rev >= expected,
         store[sid].rev = expected => store[sid].answers \subseteq answers,
         expected >= 0 => store[sid].rev = expected,
         Begin(c, sid, source, expected, answers)
  PROVE  Inv'
<1> USE DEF Inv, Begin, TypeOK
<1>1. TypeOK'
  OBVIOUS
<1>2. AbsentIsEmpty' /\ OutcomeWhenDone'
  BY DEF AbsentIsEmpty, OutcomeWhenDone
<1>3. NeverBehind'
  BY DEF NeverBehind
<1>4. CopyIsCurrent'
  BY DEF CopyIsCurrent
<1>5. outcome[c] = "none"
  BY DEF OutcomeWhenDone
<1>6. OvertakenByWinner' /\ NoLostAnswers' /\ OneWinnerPerRevision'
  BY <1>5 DEF OvertakenByWinner, NoLostAnswers, OneWinnerPerRevision
<1>7. IdleHoldsNothing'
  BY DEF IdleHoldsNothing
<1>8. \A e \in Calls : outcome[e] # "none" => op'[e] = op[e]
  BY <1>5
<1>9. WinnerIsKnown'
  <2> SUFFICES ASSUME NEW d \in Calls, pc'[d] = "compiling", op'[d].expected >= 0,
                      store[op'[d].sid].rev > op'[d].expected
               PROVE  \E e \in Calls : /\ outcome[e] = "ok"
                                       /\ op'[e].sid = op'[d].sid
                                       /\ op'[e].expected = op'[d].expected
    BY DEF WinnerIsKnown
  <2>1. d # c
    OBVIOUS
  <2>2. PICK e \in Calls : /\ outcome[e] = "ok"
                           /\ op[e].sid = op[d].sid
                           /\ op[e].expected = op[d].expected
    BY <2>1 DEF WinnerIsKnown
  <2> QED
    BY <2>1, <2>2, <1>8
<1>10. LoserWasOvertaken'
  <2> SUFFICES ASSUME NEW d \in Calls, outcome[d] = "stale_session", op'[d].expected >= 0
               PROVE  \E e \in Calls : /\ outcome[e] = "ok"
                                       /\ op'[e].sid = op'[d].sid
                                       /\ op'[e].expected = op'[d].expected
    BY DEF LoserWasOvertaken
  <2>1. PICK e \in Calls : /\ outcome[e] = "ok"
                           /\ op[e].sid = op[d].sid
                           /\ op[e].expected = op[d].expected
    BY <1>8 DEF LoserWasOvertaken
  <2> QED
    BY <2>1, <1>8
<1> QED
  BY <1>1, <1>2, <1>3, <1>4, <1>6, <1>7, <1>9, <1>10

\* A call that commits finds its session where it read it, so the copy it
\* puts holds every answer of the session it replaces.
LEMMA CommitStep ==
  ASSUME Inv, NEW c \in Calls, NEW asks \in SUBSET Targets, Commit(c, asks)
  PROVE  Inv'
<1> USE DEF Inv, TypeOK
<1> DEFINE s == op[c].sid
           e == op[c].expected
<1>1. /\ s \in Calls /\ e \in Nat \cup {-1} /\ op[c].answers \in SUBSET Record
      /\ pc[c] = "compiling" /\ store[s].rev = e /\ op' = op
      /\ store' = [store EXCEPT ![s] = [rev |-> e + 1, rid |-> c, asks |-> asks,
                                        answers |-> op[c].answers]]
      /\ pc' = [pc EXCEPT ![c] = "done"]
      /\ outcome' = [outcome EXCEPT ![c] = "ok"]
      /\ shown' = [shown EXCEPT ![c] = asks]
      /\ last' = s
  BY DEF Commit, CanPut
<1> HIDE DEF s, e
<1>2. TypeOK'
  <2>1. e + 1 \in Nat
    BY <1>1
  <2>2. [rev |-> e + 1, rid |-> c, asks |-> asks, answers |-> op[c].answers] \in Session
    BY <1>1, <2>1 DEF Session
  <2>3. store' \in [Calls -> Session]
    BY <1>1, <2>2
  <2> QED
    BY <1>1, <2>3 DEF Outcomes
<1>3. /\ store'[s].rev = e + 1 /\ store'[s].answers = op[c].answers
      /\ \A t \in Calls \ {s} : store'[t] = store[t]
  BY <1>1
<1>4. \A d \in Calls : /\ op[d].sid \in Calls
                       /\ op[d].expected \in Nat \cup {-1}
                       /\ store[op[d].sid].rev \in Nat \cup {-1}
  BY DEF Session
<1>5. outcome[c] = "none"
  BY <1>1 DEF OutcomeWhenDone
<1>6. store[s].answers \subseteq op[c].answers
  BY <1>1 DEF CopyIsCurrent, s, e
<1>7. AbsentIsEmpty'
  BY <1>1, <1>3 DEF AbsentIsEmpty
<1>8. OutcomeWhenDone'
  BY <1>1 DEF OutcomeWhenDone
<1>9. NeverBehind'
  BY <1>1, <1>3, <1>4 DEF NeverBehind
<1>10. CopyIsCurrent'
  BY <1>1, <1>3, <1>4 DEF CopyIsCurrent, NeverBehind
<1>11. OvertakenByWinner'
  BY <1>1, <1>3, <1>4, <1>5 DEF OvertakenByWinner, s, e
<1>12. NoLostAnswers'
  BY <1>1, <1>3, <1>4, <1>5, <1>6 DEF NoLostAnswers, s
<1>13. OneWinnerPerRevision'
  BY <1>1, <1>4, <1>5 DEF OneWinnerPerRevision, OvertakenByWinner, s, e
<1>14. IdleHoldsNothing'
  BY <1>1 DEF IdleHoldsNothing
<1>15. WinnerIsKnown'
  <2> SUFFICES ASSUME NEW d \in Calls, pc'[d] = "compiling", op[d].expected >= 0,
                      store'[op[d].sid].rev > op[d].expected
               PROVE  \E w \in Calls : /\ outcome'[w] = "ok"
                                       /\ op[w].sid = op[d].sid
                                       /\ op[w].expected = op[d].expected
    BY <1>1 DEF WinnerIsKnown
  <2>1. pc[d] = "compiling"
    BY <1>1
  <2>2. CASE store[op[d].sid].rev > op[d].expected
    <3>1. PICK w \in Calls : /\ outcome[w] = "ok"
                             /\ op[w].sid = op[d].sid
                             /\ op[w].expected = op[d].expected
      BY <2>1, <2>2 DEF WinnerIsKnown
    <3> QED
      BY <3>1, <1>1, <1>5
  <2>3. CASE ~(store[op[d].sid].rev > op[d].expected)
    <3>1. op[d].sid = s
      BY <2>3, <1>3, <1>4
    <3>2. op[d].expected = e
      BY <3>1, <2>1, <2>3, <1>1, <1>3, <1>4 DEF NeverBehind
    <3> QED
      BY <3>1, <3>2, <1>1 DEF s, e
  <2> QED
    BY <2>2, <2>3
<1>16. LoserWasOvertaken'
  <2> SUFFICES ASSUME NEW d \in Calls, outcome'[d] = "stale_session", op[d].expected >= 0
               PROVE  \E w \in Calls : /\ outcome'[w] = "ok"
                                       /\ op[w].sid = op[d].sid
                                       /\ op[w].expected = op[d].expected
    BY <1>1 DEF LoserWasOvertaken
  <2>1. outcome[d] = "stale_session"
    BY <1>1
  <2>2. PICK w \in Calls : /\ outcome[w] = "ok"
                           /\ op[w].sid = op[d].sid
                           /\ op[w].expected = op[d].expected
    BY <2>1 DEF LoserWasOvertaken
  <2> QED
    BY <2>2, <1>1, <1>5
<1> QED
  BY <1>2, <1>7, <1>8, <1>9, <1>10, <1>11, <1>12, <1>13, <1>14, <1>15, <1>16

-----------------------------------------------------------------------------
(* The invariant holds initially and after every step.                     *)

LEMMA InitInv == Init => Inv
<1> SUFFICES ASSUME Init PROVE Inv
  OBVIOUS
<1>1. TypeOK
  BY DEF Init, TypeOK, Session, Outcomes
<1> QED
  BY <1>1 DEF Init, Inv, AbsentIsEmpty, OutcomeWhenDone, NeverBehind, CopyIsCurrent,
     OvertakenByWinner, NoLostAnswers, OneWinnerPerRevision, IdleHoldsNothing,
     WinnerIsKnown, LoserWasOvertaken

\* The verdicts of continue_async are errors, or "accepted".
LEMMA VerdictsType ==
  ASSUME NEW s, NEW batch, NEW v \in Verdicts(s, batch)
  PROVE  v \in {"accepted", "invalid_input", "stale_session"}
BY DEF Verdicts

LEMMA NextInv == Inv /\ [Next]_vars => Inv'
<1> SUFFICES ASSUME Inv, [Next]_vars PROVE Inv'
  OBVIOUS
<1>t. /\ store \in [Calls -> Session]
      /\ \A s \in Calls : /\ store[s].rev \in Nat \cup {-1}
                           /\ store[s].answers \in SUBSET Record
  BY DEF Inv, TypeOK, Session
<1>1. ASSUME NEW c \in Calls, Compile(c) PROVE Inv'
  BY <1>1, <1>t, BeginStep DEF Compile, Inv, AbsentIsEmpty
<1>2. ASSUME NEW c \in Calls, CompileRefused(c) PROVE Inv'
  BY <1>2, RefuseStep DEF CompileRefused
<1>3. ASSUME NEW c \in Calls, NEW s \in Calls, NEW e \in Revisions, ContinueStale(c, s, e)
      PROVE Inv'
  BY <1>3, RefuseStep DEF ContinueStale
<1>4. ASSUME NEW c \in Calls, NEW s \in Calls, NEW e \in Revisions, CanContinue(c, s, e),
             NEW batch \in Batches, Continue(c, s, e, batch)
      PROVE Inv'
  <2>1. e \in Nat
    BY SessionsAssumption
  <2>2. Accepted(c, batch) \subseteq Record
    BY <1>4, AcceptedType DEF Continue, Inv
  <2>3. store[s].answers \cup Accepted(c, batch) \in SUBSET Record
    BY <2>2, <1>t
  <2>4. store[s].rev = e
    BY <1>4 DEF CanContinue
  <2>5. Begin(c, s, s, e, store[s].answers \cup Accepted(c, batch))
    BY <1>4 DEF Continue
  <2> QED
    BY <2>1, <2>3, <2>4, <2>5, BeginStep
<1>5. ASSUME NEW c \in Calls, NEW s \in Calls, NEW e \in Revisions, CanContinue(c, s, e),
             NEW batch \in Batches, ContinueRefused(c, s, batch)
      PROVE Inv'
  <2>1. PICK v \in Verdicts(s, batch) \ {"accepted"} : Refuse(c, v)
    BY <1>5 DEF ContinueRefused
  <2>2. v \in {"invalid_input", "stale_session", "failed"}
    BY VerdictsType
  <2>3. pc[c] = "idle"
    BY <1>5 DEF CanContinue
  <2> QED
    BY <2>1, <2>2, <2>3, RefuseStep
<1>6. ASSUME NEW c \in Calls, NEW s \in Calls, Restart(c, s) PROVE Inv'
  <2>1. {r \in store[s].answers : r.target \in Kept} \in SUBSET Record
    BY <1>t
  <2>2. store[c].rev = -1 => store[c].answers = {}
    BY DEF Inv, AbsentIsEmpty
  <2>3. store[c].rev >= -1
    BY <1>t
  <2>4. Begin(c, c, s, -1, {r \in store[s].answers : r.target \in Kept})
    BY <1>6 DEF Restart
  <2> QED
    BY <2>1, <2>2, <2>3, <2>4, BeginStep
<1>7. ASSUME NEW c \in Calls, NEW s \in Calls, SessionUnknown(c, s) PROVE Inv'
  BY <1>7, RefuseStep DEF SessionUnknown
<1>8. ASSUME NEW c \in Calls, NEW asks \in SUBSET Targets, Commit(c, asks) PROVE Inv'
  BY <1>8, CommitStep
<1>9. ASSUME NEW c \in Calls, CommitRefused(c) PROVE Inv'
  BY <1>9, RefuseStep DEF CommitRefused, CanPut
<1>10. ASSUME NEW c \in Calls, CompileFailed(c) PROVE Inv'
  BY <1>10, RefuseStep DEF CompileFailed
<1>11. CASE UNCHANGED vars
  BY <1>11 DEF vars, Inv, TypeOK, AbsentIsEmpty, OutcomeWhenDone, NeverBehind,
     CopyIsCurrent, OvertakenByWinner, NoLostAnswers, OneWinnerPerRevision,
     IdleHoldsNothing, WinnerIsKnown, LoserWasOvertaken
<1> QED
  BY <1>1, <1>2, <1>3, <1>4, <1>5, <1>6, <1>7, <1>8, <1>9, <1>10, <1>11
     DEF Next, Start, Finish, Finished

-----------------------------------------------------------------------------
(* Theorems.                                                               *)

\* Every variable keeps its type.
THEOREM TypeCorrect == Spec => []TypeOK
<1>1. Inv => TypeOK
  BY DEF Inv
<1> QED
  BY InitInv, NextInv, <1>1, PTL DEF Spec

\* No lost update: what a call reported as accepted stays in its session,
\* whatever calls were interleaved with it.
THEOREM AnswersAreNeverLost == Spec => []NoLostAnswers
<1>1. Inv => NoLostAnswers
  BY DEF Inv
<1> QED
  BY InitInv, NextInv, <1>1, PTL DEF Spec

\* Of the calls that read the same revision of a session at most one succeeds.
THEOREM RacesHaveOneWinner == Spec => []OneWinnerPerRevision
<1>1. Inv => OneWinnerPerRevision
  BY DEF Inv
<1> QED
  BY InitInv, NextInv, <1>1, PTL DEF Spec

\* A call that put refuses was overtaken by a call that succeeded.
THEOREM LosersWereOvertaken == Spec => []LoserWasOvertaken
<1>1. Inv => LoserWasOvertaken
  BY DEF Inv
<1> QED
  BY InitInv, NextInv, <1>1, PTL DEF Spec

-----------------------------------------------------------------------------
(* The compiler's interleaved calls over one store implement the session   *)
(* register, and what the history of a session may consist of.             *)


Compiling(c) == pc[c] = "compiling"

\* A session exists only when the call that drew its identifier succeeded.
CreatorSucceeded == \A s \in Calls : store[s].rev >= 0 => outcome[s] = "ok"

\* The result a session holds is the one its last call returned to its caller.
ResultWasShown ==
  \A s \in Calls : store[s].rev >= 0 =>
    /\ outcome[store[s].rid] = "ok"
    /\ shown[store[s].rid] = store[s].asks
    /\ op[store[s].rid].expected + 1 = store[s].rev
    /\ op[store[s].rid].sid = s

\* A record answers a question some caller was shown, and came with a call that
\* succeeded.
Good(r) ==
  /\ outcome[r.rid] = "ok"
  /\ r.target \in shown[r.rid]
  /\ r.rev = op[r.rid].expected + 1
  /\ outcome[r.by] = "ok"

\* It was asked in this session, or retained by the restart that created it.
AtHome(r, s) ==
  \/ op[r.rid].sid = s
  \/ op[s].source # s /\ r \in store[op[s].source].answers

\* None of a session's records answers its current result.
RecordsAreGood ==
  \A s \in Calls : \A r \in store[s].answers : Good(r) /\ AtHome(r, s) /\ r.rid # store[s].rid

\* A call that will create a session puts nothing or a restart's selection.
FreshCopy ==
  \A c \in Calls : (Compiling(c) /\ op[c].expected = -1) =>
    /\ op[c].sid = c
    /\ op[c].answers = {} \/ (op[c].source # c /\ op[c].answers \subseteq store[op[c].source].answers)

\* What the call adds to its session: answers, once each, to what it now asks.
Added(c) == op[c].answers \ store[op[c].sid].answers

Answering(new, s, c) ==
  /\ new # {}
  /\ \A r \in new : /\ r.rid = store[s].rid /\ r.rev = store[s].rev
                    /\ r.target \in store[s].asks /\ r.by = c
  /\ \A r1, r2 \in new : r1.target = r2.target => r1 = r2

\* A call that continues a session nobody has moved on adds such answers.
NextCopy ==
  \A c \in Calls :
    (Compiling(c) /\ op[c].expected >= 0 /\ store[op[c].sid].rev = op[c].expected)
      => Answering(Added(c), op[c].sid, c)

History ==
  /\ CreatorSucceeded
  /\ ResultWasShown
  /\ RecordsAreGood
  /\ OneAnswerPerQuestion
  /\ FreshCopy
  /\ NextCopy

-----------------------------------------------------------------------------
LEMMA Types ==
  ASSUME Inv
  PROVE  /\ \A c \in Calls : /\ op[c].sid \in Calls /\ op[c].source \in Calls
                             /\ op[c].expected \in Nat \cup {-1}
                             /\ op[c].answers \subseteq Record
                             /\ store[c].rev \in Nat \cup {-1} /\ store[c].rid \in Calls
                             /\ store[c].answers \subseteq Record
         /\ \A r \in Record : r.rid \in Calls /\ r.by \in Calls /\ r.rev \in Nat
  BY DEF Inv, TypeOK, Session, Record

LEMMA InitHistory == Init => History
<1> SUFFICES ASSUME Init PROVE History
  OBVIOUS
<1>1. \A s \in Calls : /\ store[s].rev = -1 /\ store[s].answers = {}
                        /\ pc[s] = "idle"
  BY DEF Init
<1>2. CreatorSucceeded /\ ResultWasShown
  BY <1>1 DEF CreatorSucceeded, ResultWasShown
<1>3. RecordsAreGood /\ OneAnswerPerQuestion
  BY <1>1 DEF RecordsAreGood, OneAnswerPerQuestion
<1>4. FreshCopy /\ NextCopy
  BY <1>1 DEF FreshCopy, NextCopy, Compiling
<1> QED
  BY <1>2, <1>3, <1>4 DEF History

LEMMA RefuseHistory ==
  ASSUME Inv, History, NEW c \in Calls, NEW error, error # "ok", outcome[c] = "none",
         Refuse(c, error)
  PROVE  History'
<1> USE DEF Refuse
<1>1. /\ \A d \in Calls : outcome[d] = "ok" => outcome'[d] = "ok"
      /\ \A d \in Calls : pc'[d] = "compiling" => pc[d] = "compiling"
  BY DEF Inv, TypeOK
<1>2. CreatorSucceeded'
  BY <1>1 DEF History, CreatorSucceeded
<1>3. ResultWasShown'
  BY <1>1, Types DEF History, ResultWasShown
<1>4. RecordsAreGood'
  BY <1>1, Types DEF History, RecordsAreGood, Good, AtHome
<1>5. OneAnswerPerQuestion'
  BY DEF History, OneAnswerPerQuestion
<1>6. FreshCopy' /\ NextCopy'
  BY <1>1 DEF History, FreshCopy, NextCopy, Compiling, Answering, Added
<1> QED
  BY <1>2, <1>3, <1>4, <1>5, <1>6 DEF History

LEMMA BeginHistory ==
  ASSUME Inv, History, NEW c \in Calls, NEW sid \in Calls, NEW source \in Calls,
         NEW expected \in Nat \cup {-1}, NEW answers \in SUBSET Record,
         Begin(c, sid, source, expected, answers),
         expected = -1 => /\ sid = c
                          /\ answers = {} \/ (source # c /\ answers \subseteq store[source].answers),
         (expected >= 0 /\ store[sid].rev = expected)
            => Answering(answers \ store[sid].answers, sid, c)
  PROVE  History'
<1> USE DEF Begin
<1>1. outcome[c] = "none"
  BY DEF Inv, OutcomeWhenDone
<1>2. /\ op'[c] = [sid |-> sid, source |-> source, expected |-> expected, answers |-> answers]
      /\ \A d \in Calls \ {c} : op'[d] = op[d] /\ pc'[d] = pc[d]
      /\ UNCHANGED <<store, outcome, shown>>
  BY DEF Inv, TypeOK
<1>3. CreatorSucceeded' /\ OneAnswerPerQuestion'
  BY DEF History, CreatorSucceeded, OneAnswerPerQuestion
<1>4. ResultWasShown'
  BY <1>1, <1>2, Types DEF History, ResultWasShown
<1>5. RecordsAreGood'
  <2> SUFFICES ASSUME NEW s \in Calls, NEW r \in store[s].answers
               PROVE  Good(r)' /\ AtHome(r, s)' /\ r.rid # store[s].rid
    BY <1>2 DEF RecordsAreGood
  <2>1. r.rid \in Calls /\ Good(r) /\ AtHome(r, s) /\ r.rid # store[s].rid
    BY Types DEF History, RecordsAreGood
  <2>2. s # c
    BY <1>1, Types DEF Inv, AbsentIsEmpty, History, CreatorSucceeded
  <2>3. r.rid # c
    BY <1>1, <2>1 DEF Good
  <2> QED
    BY <1>2, <2>1, <2>2, <2>3 DEF Good, AtHome
<1>6. FreshCopy'
  BY <1>2 DEF History, FreshCopy, Compiling
<1>7. NextCopy'
  <2> SUFFICES ASSUME NEW d \in Calls, pc'[d] = "compiling", op'[d].expected >= 0,
                      store[op'[d].sid].rev = op'[d].expected
               PROVE  Answering(op'[d].answers \ store[op'[d].sid].answers, op'[d].sid, d)
    BY <1>2 DEF NextCopy, Compiling, Added, Answering
  <2>1. CASE d = c
    BY <1>2, <2>1
  <2>2. CASE d # c
    BY <1>2, <2>2 DEF History, NextCopy, Compiling, Added
  <2> QED
    BY <2>1, <2>2
<1> QED
  BY <1>3, <1>4, <1>5, <1>6, <1>7 DEF History

LEMMA CommitHistory ==
  ASSUME Inv, History, NEW c \in Calls, NEW asks \in SUBSET Targets, Commit(c, asks)
  PROVE  History'
<1> DEFINE s == op[c].sid
           e == op[c].expected
<1>1. /\ s \in Calls /\ e \in Nat \cup {-1} /\ op[c].answers \subseteq Record
      /\ pc[c] = "compiling" /\ store[s].rev = e /\ op' = op
      /\ store'[s] = [rev |-> e + 1, rid |-> c, asks |-> asks, answers |-> op[c].answers]
      /\ \A t \in Calls \ {s} : store'[t] = store[t]
      /\ \A d \in Calls \ {c} : outcome'[d] = outcome[d] /\ shown'[d] = shown[d] /\ pc'[d] = pc[d]
      /\ pc'[c] = "done" /\ outcome'[c] = "ok" /\ shown'[c] = asks
  BY Types DEF Commit, CanPut, Inv, TypeOK
<1>2. outcome[c] = "none"
  BY <1>1 DEF Inv, OutcomeWhenDone
<1>3. store[s].answers \subseteq op[c].answers
  BY <1>1 DEF Inv, CopyIsCurrent
<1>4. \A t \in Calls : store[t].answers \subseteq store'[t].answers
  BY <1>1, <1>3
<1>5. \A d \in Calls : outcome[d] = "ok" => d # c
  BY <1>2
<1>6. s # c => e >= 0
  BY <1>1, Types DEF History, FreshCopy, Compiling
<1>7. CreatorSucceeded'
  <2>1. outcome'[s] = "ok"
    BY <1>1, <1>6 DEF History, CreatorSucceeded
  <2> QED
    BY <1>1, <2>1 DEF History, CreatorSucceeded
<1>8. ResultWasShown'
  <2> SUFFICES ASSUME NEW t \in Calls, store'[t].rev >= 0
               PROVE  /\ outcome'[store'[t].rid] = "ok"
                      /\ shown'[store'[t].rid] = store'[t].asks
                      /\ op[store'[t].rid].expected + 1 = store'[t].rev
                      /\ op[store'[t].rid].sid = t
    BY <1>1 DEF ResultWasShown
  <2>1. CASE t = s
    BY <1>1, <2>1
  <2>2. CASE t # s
    <3>1. /\ store'[t] = store[t] /\ store[t].rid \in Calls
          /\ outcome[store[t].rid] = "ok" /\ shown[store[t].rid] = store[t].asks
          /\ op[store[t].rid].expected + 1 = store[t].rev /\ op[store[t].rid].sid = t
      BY <1>1, <2>2, Types DEF History, ResultWasShown
    <3> QED
      BY <1>1, <1>5, <3>1
  <2> QED
    BY <2>1, <2>2
\* What c puts: records of the session it read, and the answers it adds.
<1>9. \A r \in op[c].answers :
        \/ e >= 0 /\ r \in store[s].answers
        \/ e >= 0 /\ r \notin store[s].answers /\ r.rid = store[s].rid /\ r.rev = store[s].rev
           /\ r.target \in store[s].asks /\ r.by = c
        \/ e = -1 /\ s = c /\ op[c].source # c /\ r \in store[op[c].source].answers
  BY <1>1 DEF History, FreshCopy, NextCopy, Compiling, Added, Answering
<1>10. ASSUME NEW t \in Calls, NEW r \in store[t].answers
       PROVE  /\ Good(r) /\ Good(r)' /\ AtHome(r, t) /\ AtHome(r, t)' /\ r.rid # c
              /\ r.rid # store[t].rid
  <2>1. r.rid \in Calls /\ r.by \in Calls /\ Good(r) /\ AtHome(r, t) /\ r.rid # store[t].rid
    BY <1>10, Types DEF History, RecordsAreGood
  <2>2. r.rid # c
    BY <2>1, <1>5 DEF Good
  <2>3. Good(r)'
    BY <2>1, <2>2, <1>1 DEF Good
  <2>4. AtHome(r, t)'
    BY <2>1, <1>1, <1>4, Types DEF AtHome
  <2> QED
    BY <2>1, <2>2, <2>3, <2>4
<1>11. ASSUME NEW r \in op[c].answers
       PROVE  Good(r)' /\ AtHome(r, s)' /\ r.rid # c
  <2>1. CASE e >= 0 /\ r \in store[s].answers
    BY <2>1, <1>1, <1>10
  <2>2. CASE e >= 0 /\ r.rid = store[s].rid /\ r.rev = store[s].rev
             /\ r.target \in store[s].asks /\ r.by = c
    <3>1. /\ store[s].rid \in Calls /\ outcome[store[s].rid] = "ok"
          /\ shown[store[s].rid] = store[s].asks /\ op[store[s].rid].expected + 1 = store[s].rev
          /\ op[store[s].rid].sid = s
      BY <1>1, <2>2, Types DEF History, ResultWasShown
    <3>2. r.rid # c
      BY <2>2, <3>1, <1>5
    <3> QED
      BY <1>1, <2>2, <3>1, <3>2 DEF Good, AtHome
  <2>3. CASE s = c /\ op[c].source # c /\ r \in store[op[c].source].answers
    <3>1. Good(r)' /\ r.rid # c
      BY <2>3, <1>10, Types
    <3>2. r \in store'[op[c].source].answers
      BY <2>3, <1>1, Types
    <3> QED
      BY <2>3, <3>1, <3>2, <1>1 DEF AtHome
  <2> QED
    BY <1>9, <2>1, <2>2, <2>3
<1>12. RecordsAreGood'
  <2> SUFFICES ASSUME NEW t \in Calls, NEW r \in store'[t].answers
               PROVE  Good(r)' /\ AtHome(r, t)' /\ r.rid # store'[t].rid
    BY DEF RecordsAreGood
  <2>1. CASE t = s
    BY <2>1, <1>1, <1>11
  <2>2. CASE t # s
    BY <2>2, <1>1, <1>10
  <2> QED
    BY <2>1, <2>2
<1>13. OneAnswerPerQuestion'
  <2> SUFFICES ASSUME NEW t \in Calls, NEW r1 \in store'[t].answers, NEW r2 \in store'[t].answers,
                      r1.rid = r2.rid, r1.target = r2.target
               PROVE  r1 = r2
    BY DEF OneAnswerPerQuestion
  <2>0. \A u \in Calls : \A x, y \in store[u].answers :
          x.rid = y.rid /\ x.target = y.target => x = y
    BY DEF History, OneAnswerPerQuestion
  <2>1. CASE t # s
    BY <2>0, <2>1, <1>1
  <2>2. CASE t = s /\ e = -1
    BY <2>0, <2>2, <1>1, <1>9, Types
  <2>3. CASE t = s /\ e >= 0
    <3>1. r1 \in op[c].answers /\ r2 \in op[c].answers
      BY <2>3, <1>1
    <3>2. CASE r1 \in store[s].answers /\ r2 \in store[s].answers
      BY <2>0, <3>2, <1>1
    <3>3. CASE r1 \notin store[s].answers /\ r2 \notin store[s].answers
      <4>1. Answering(Added(c), s, c)
        BY <2>3, <1>1 DEF History, NextCopy, Compiling
      <4>2. r1 \in Added(c) /\ r2 \in Added(c)
        BY <3>1, <3>3 DEF Added
      <4> QED
        BY <4>1, <4>2 DEF Answering
    <3>4. CASE r1 \in store[s].answers /\ r2 \notin store[s].answers
      BY <3>1, <3>4, <2>3, <1>1, <1>9, <1>10
    <3>5. CASE r1 \notin store[s].answers /\ r2 \in store[s].answers
      BY <3>1, <3>5, <2>3, <1>1, <1>9, <1>10
    <3> QED
      BY <3>2, <3>3, <3>4, <3>5
  <2> QED
    BY <2>1, <2>2, <2>3, <1>1
<1>14. FreshCopy'
  <2> SUFFICES ASSUME NEW d \in Calls, pc'[d] = "compiling", op[d].expected = -1
               PROVE  /\ op[d].sid = d
                      /\ \/ op[d].answers = {}
                         \/ op[d].source # d /\ op[d].answers \subseteq store'[op[d].source].answers
    BY <1>1 DEF FreshCopy, Compiling
  <2> QED
    BY <1>1, <1>4, Types DEF History, FreshCopy, Compiling
<1>15. NextCopy'
  <2> SUFFICES ASSUME NEW d \in Calls, pc'[d] = "compiling", op[d].expected >= 0,
                      store'[op[d].sid].rev = op[d].expected
               PROVE  (Answering(Added(d), op[d].sid, d))'
    BY <1>1 DEF NextCopy, Compiling
  <2>1. pc[d] = "compiling" /\ op[d].sid \in Calls /\ op[d].expected \in Nat
    BY <1>1, Types
  <2>2. op[d].sid # s
    <3>1. store[op[d].sid].rev >= op[d].expected
      BY <2>1 DEF Inv, NeverBehind
    <3> QED
      BY <3>1, <2>1, <1>1
  <2>3. store[op[d].sid].rev = op[d].expected
    BY <2>1, <2>2, <1>1
  <2>4. Answering(Added(d), op[d].sid, d)
    BY <2>1, <2>3 DEF History, NextCopy, Compiling
  <2> QED
    BY <2>1, <2>2, <2>4, <1>1 DEF Answering, Added
<1> QED
  BY <1>7, <1>8, <1>12, <1>13, <1>14, <1>15 DEF History

-----------------------------------------------------------------------------
(* Every step keeps the history.                                            *)

\* An accepted batch answers, once each, what the session asks.
LEMMA AcceptedAnswers ==
  ASSUME Inv, History, NEW c \in Calls, NEW s \in Calls, NEW batch \in Batches,
         outcome[c] = "none", store[s].rev >= 0, "accepted" \in Verdicts(s, batch)
  PROVE  Answering((store[s].answers \cup Accepted(c, batch)) \ store[s].answers, s, c)
<1> DEFINE new == (store[s].answers \cup Accepted(c, batch)) \ store[s].answers
<1>1. /\ batch # {} /\ ~Repeated(batch)
      /\ \A a \in batch : a.rev = store[s].rev /\ a.target \in store[s].asks /\ a.rid = store[s].rid
  BY DEF Verdicts, Asked, SameResult
<1>2. \A r \in store[s].answers : r.by # c
  BY DEF History, RecordsAreGood, Good
<1>3. \A r \in Accepted(c, batch) : r.by = c
  BY DEF Accepted
<1>4. new = Accepted(c, batch)
  BY <1>2, <1>3
<1>5. Accepted(c, batch) # {}
  BY <1>1 DEF Accepted
<1>6. \A r \in Accepted(c, batch) :
        r.rid = store[s].rid /\ r.rev = store[s].rev /\ r.target \in store[s].asks /\ r.by = c
  BY <1>1 DEF Accepted
<1>7. ASSUME NEW r1 \in Accepted(c, batch), NEW r2 \in Accepted(c, batch), r1.target = r2.target
      PROVE  r1 = r2
  <2>1. PICK a1 \in batch : r1 = [rid |-> a1.rid, rev |-> a1.rev, target |-> a1.target,
                                  val |-> a1.val, by |-> c]
    BY DEF Accepted
  <2>2. PICK a2 \in batch : r2 = [rid |-> a2.rid, rev |-> a2.rev, target |-> a2.target,
                                  val |-> a2.val, by |-> c]
    BY DEF Accepted
  <2>3. QuestionId(a1) = QuestionId(a2)
    BY <1>1, <1>7, <2>1, <2>2 DEF QuestionId
  <2> QED
    BY <1>1, <2>1, <2>2, <2>3 DEF Repeated
<1> QED
  BY <1>4, <1>5, <1>6, <1>7 DEF Answering

LEMMA NextHistory == ASSUME Inv, History, [Next]_vars PROVE History'
<1>0. \A c \in Calls : pc[c] # "done" => outcome[c] = "none"
  BY DEF Inv, OutcomeWhenDone
<1>1. ASSUME NEW c \in Calls, Compile(c) PROVE History'
  BY <1>1, BeginHistory DEF Compile
<1>2. ASSUME NEW c \in Calls, NEW s \in Calls, NEW e \in Revisions, CanContinue(c, s, e),
             NEW batch \in Batches, Continue(c, s, e, batch)
      PROVE  History'
  <2>1. e \in Nat /\ store[s].rev = e /\ outcome[c] = "none"
    BY <1>0, <1>2, SessionsAssumption DEF CanContinue
  <2>2. Accepted(c, batch) \subseteq Record
    BY <1>2, AcceptedType DEF Continue, Inv
  <2>3. store[s].answers \cup Accepted(c, batch) \in SUBSET Record
    BY <2>2, Types
  <2>4. Answering((store[s].answers \cup Accepted(c, batch)) \ store[s].answers, s, c)
    BY <1>2, <2>1, AcceptedAnswers DEF Continue
  <2>5. Begin(c, s, s, e, store[s].answers \cup Accepted(c, batch)) /\ e # -1
    BY <1>2, <2>1 DEF Continue
  <2> QED
    BY <2>1, <2>3, <2>4, <2>5, BeginHistory
<1>3. ASSUME NEW c \in Calls, NEW s \in Calls, Restart(c, s) PROVE History'
  <2> DEFINE kept == {r \in store[s].answers : r.target \in Kept}
  <2>1. Begin(c, c, s, -1, kept) /\ store[s].rev >= 0 /\ kept \in SUBSET Record
    BY <1>3, Types DEF Restart
  <2>2. s # c
    BY <1>0, <2>1 DEF Begin, History, CreatorSucceeded
  <2>3. -1 \in Nat \cup {-1} /\ ~(-1 >= 0) /\ kept \subseteq store[s].answers
    OBVIOUS
  <2> HIDE DEF kept
  <2> QED
    BY <2>1, <2>2, <2>3, BeginHistory
<1>4. ASSUME NEW c \in Calls, NEW error, error # "ok", pc[c] # "done", Refuse(c, error)
      PROVE  History'
  BY <1>0, <1>4, RefuseHistory
<1>5. ASSUME NEW c \in Calls, NEW s \in Calls, NEW e \in Revisions, CanContinue(c, s, e),
             NEW batch \in Batches, ContinueRefused(c, s, batch)
      PROVE  History'
  <2>1. PICK v \in Verdicts(s, batch) \ {"accepted"} : Refuse(c, v)
    BY <1>5 DEF ContinueRefused
  <2>2. v # "ok" /\ pc[c] # "done"
    BY <1>5, VerdictsType DEF CanContinue
  <2> QED
    BY <1>4, <2>1, <2>2
<1>6. ASSUME NEW c \in Calls, NEW s \in Calls, NEW e \in Revisions, ContinueStale(c, s, e)
      PROVE  History'
  BY <1>4, <1>6 DEF ContinueStale
<1>7. ASSUME NEW c \in Calls, NEW s \in Calls,
             CompileRefused(c) \/ SessionUnknown(c, s) \/ CommitRefused(c) \/ CompileFailed(c)
      PROVE  History'
  BY <1>4, <1>7 DEF CompileRefused, SessionUnknown, CommitRefused, CompileFailed
<1>8. ASSUME NEW c \in Calls, NEW asks \in SUBSET Targets, Commit(c, asks) PROVE History'
  BY <1>8, CommitHistory
<1>9. CASE UNCHANGED vars
  BY <1>9 DEF vars, History, CreatorSucceeded, ResultWasShown, RecordsAreGood, OneAnswerPerQuestion,
              FreshCopy, NextCopy, Compiling, Good, AtHome, Added, Answering
<1> QED
  BY <1>1, <1>2, <1>3, <1>5, <1>6, <1>7, <1>8, <1>9 DEF Next, Start, Finish, Finished

LEMMA HistoryInvariant == Spec => [](Inv /\ History)
  BY InitInv, NextInv, InitHistory, NextHistory, PTL DEF Spec

-----------------------------------------------------------------------------
(* Theorems.                                                                *)

\* Neither the result nor an answer of a call that failed, was refused or is
\* still running is in the store.
THEOREM FailuresLeaveNothing == Spec => []OnlySuccessIsStored
<1>1. Inv /\ History => OnlySuccessIsStored
  BY DEF History, ResultWasShown, RecordsAreGood, Good, OnlySuccessIsStored
<1> QED
  BY <1>1, HistoryInvariant, PTL

\* Each recorded answer meets a question that a caller was shown, in this session
\* or in the one it was restarted from.
THEOREM AnswersHaveQuestions == Spec => []AnswersMeetTheirQuestion
<1>1. Inv /\ History => AnswersMeetTheirQuestion
  BY DEF History, RecordsAreGood, Good, AtHome, AnswersMeetTheirQuestion
<1> QED
  BY <1>1, HistoryInvariant, PTL

\* No question is answered twice in the life of a session.
THEOREM QuestionsAreAnsweredOnce == Spec => []OneAnswerPerQuestion
<1>1. Inv /\ History => OneAnswerPerQuestion
  BY DEF History
<1> QED
  BY <1>1, HistoryInvariant, PTL

\* A step of the compiler is a step of the register or changes no session.
LEMMA StepRefines ==
  ASSUME Inv, Inv', History, [Next]_vars
  PROVE  [Register!Next]_store
<1>1. ASSUME NEW c \in Calls, NEW asks \in SUBSET Targets, Commit(c, asks)
      PROVE  Register!Next
  <2> DEFINE s == op[c].sid
             e == op[c].expected
  <2>1. /\ s \in Calls /\ e \in Nat \cup {-1} /\ pc[c] = "compiling" /\ store[s].rev = e
        /\ store'[s] = [rev |-> e + 1, rid |-> c, asks |-> asks, answers |-> op[c].answers]
        /\ \A t \in Calls \ {s} : store'[t] = store[t]
    BY <1>1, Types DEF Commit, CanPut, Inv, TypeOK
  <2>2. store' \in [Calls -> Register!State]
    BY DEF Inv, TypeOK, Session, Record, Register!State, Register!Record
  <2>3. Register!Only(s)
    BY <2>1 DEF Register!Only
  <2>4. CASE e = -1
    <3>1. /\ s = c
          /\ op[c].answers = {} \/ (op[c].source # c /\ op[c].answers \subseteq store[op[c].source].answers)
      BY <2>1, <2>4 DEF History, FreshCopy, Compiling
    <3>2. op[c].source \in Calls
      BY Types
    <3>3. Register!Create(s)
      BY <2>1, <2>3, <2>4, <3>1, <3>2 DEF Register!Create
    <3> QED
      BY <2>1, <2>2, <3>3 DEF Register!Next
  <2>5. CASE e >= 0
    <3>1. Answering(op[c].answers \ store[s].answers, s, c)
      BY <2>1, <2>5 DEF History, NextCopy, Compiling, Added
    <3>2. store[s].answers \subseteq op[c].answers
      BY <2>1 DEF Inv, CopyIsCurrent
    <3>3. store[s].rid # c
      BY <2>1, <2>5 DEF History, ResultWasShown, Inv, OutcomeWhenDone
    <3>4. Register!Advance(s)
      BY <2>1, <2>3, <2>5, <3>1, <3>2, <3>3 DEF Register!Advance, Answering
    <3> QED
      BY <2>1, <2>2, <3>4 DEF Register!Next
  <2> QED
    BY <2>1, <2>4, <2>5
<1>2. ASSUME ~ \E c \in Calls : \E asks \in SUBSET Targets : Commit(c, asks)
      PROVE  UNCHANGED store
  BY <1>2 DEF Next, Start, Finish, Finished, vars, Compile, CompileRefused, ContinueStale, Continue,
     ContinueRefused, Restart, SessionUnknown, CommitRefused, CompileFailed, Begin, Refuse
<1> QED
  BY <1>1, <1>2

\* The compiler over its store implements the register: for its callers each
\* session is one history that moves a revision at a time.
THEOREM CompilerRefinesRegister == Spec => ImplementsRegister
<1>1. Init => Register!Init
  BY DEF Init, Register!Init
<1> QED
  BY <1>1, StepRefines, HistoryInvariant, PTL DEF Spec, ImplementsRegister, Register!Spec
=============================================================================
