-------------------------- MODULE SessionRegister --------------------------
(***************************************************************************)
(* What a host may rely on when it keeps compilation sessions: a session   *)
(* is a register holding one history.  It is created once, and afterwards  *)
(* it moves only from revision n to revision n+1, by answers to questions  *)
(* that the result at revision n asked.  Nothing recorded is ever lost.    *)
(* The detailed module Sessions (the compiler's calls interleaved on a     *)
(* shared store) is shown to implement this one.                           *)
(***************************************************************************)
EXTENDS Integers

CONSTANTS Sessions,     \* the identities of sessions and of results
          Targets,      \* what a clarification question can ask about
          Values        \* the acceptable values of an answer

VARIABLE reg            \* session -> its latest committed state

\* An accepted answer: the question it answers (the result that asked, that
\* result's revision, the target), its value, and the call that supplied it.
Record == [rid: Sessions, rev: Nat, target: Targets, val: Values, by: Sessions]

\* Revision -1 is a session that does not exist (expected_revision=-1).
State == [rev: Nat \cup {-1}, rid: Sessions, asks: SUBSET Targets,
          answers: SUBSET Record]

Init == reg = [s \in Sessions |->
                 [rev |-> -1, rid |-> s, asks |-> {}, answers |-> {}]]

Only(s) == \A t \in Sessions \ {s} : reg'[t] = reg[t]

\* A session appears at revision 0, empty or with answers another session holds.
Create(s) ==
  /\ reg[s].rev = -1
  /\ reg'[s].rev = 0
  /\ reg'[s].rid = s
  /\ \/ reg'[s].answers = {}
     \/ \E p \in Sessions \ {s} : reg'[s].answers \subseteq reg[p].answers
  /\ Only(s)

\* The next revision answers, once each, questions the current one asked.
Advance(s) ==
  LET new == reg'[s].answers \ reg[s].answers IN
  /\ reg[s].rev >= 0
  /\ reg'[s].rev = reg[s].rev + 1
  /\ reg'[s].rid # reg[s].rid
  /\ reg[s].answers \subseteq reg'[s].answers
  /\ new # {}
  /\ \A r \in new : /\ r.rid = reg[s].rid
                    /\ r.rev = reg[s].rev
                    /\ r.target \in reg[s].asks
  /\ \A r1, r2 \in new : r1.target = r2.target => r1 = r2
  /\ Only(s)

Next == \E s \in Sessions : reg' \in [Sessions -> State] /\ (Create(s) \/ Advance(s))

Spec == Init /\ [][Next]_reg
=============================================================================
