--------------------------- MODULE RevisionedFile ---------------------------
(***************************************************************************)
(* What the threads of one process may rely on when they keep a session in *)
(* a file (SessionStore in src/taskc/session.py promises it of any store): *)
(* reading yields a whole session, writing compares the revision and       *)
(* replaces the session in one step, and a crash happens before that step  *)
(* or after it.  SessionFile, with its inodes, temporary file and lock, is *)
(* shown to implement this module.                                         *)
(***************************************************************************)
EXTENDS Integers

CONSTANTS
  Updates,      \* the updates: each reads, compiles and writes once
  Creator,      \* the update that creates the session
  Sensitive     \* the updates whose session holds a sensitive literal

VARIABLES
  stored,       \* the session in the file: its revision and the updates merged
  held,         \* update -> the session it has read
  stage,        \* update -> how far it is
  outcome       \* update -> what its caller is told

vars == <<stored, held, stage, outcome>>

Absent == [rev |-> -1, updates |-> {}]

Init ==
  /\ stored = Absent
  /\ held = [u \in Updates |-> Absent]
  /\ stage = [u \in Updates |-> "idle"]
  /\ outcome = [u \in Updates |-> "none"]

To(u, label) == stage' = [stage EXCEPT ![u] = label]

\* The caller of u is told the result; the file stays as it is.
End(u, result) ==
  /\ To(u, "done")
  /\ outcome' = [outcome EXCEPT ![u] = result]
  /\ UNCHANGED <<stored, held>>

\* The creator starts where there is no session, the others where there is one.
Get(u) ==
  /\ stage[u] = "idle"
  /\ (u = Creator) <=> (stored = Absent)
  /\ held' = [held EXCEPT ![u] = stored]
  /\ To(u, "compiled")
  /\ UNCHANGED <<stored, outcome>>

FindNothing(u) == stage[u] = "idle" /\ u # Creator /\ stored = Absent /\ End(u, "unreadable")

\* Compare and replace: nothing that is in the file is lost.
Put(u) ==
  /\ stage[u] = "compiled"
  /\ u \notin Sensitive
  /\ held[u].rev = stored.rev
  /\ stored' = [rev |-> stored.rev + 1, updates |-> stored.updates \cup {u}]
  /\ To(u, "replaced")
  /\ UNCHANGED <<held, outcome>>

RefuseStale(u) ==
  stage[u] = "compiled" /\ held[u].rev # stored.rev /\ End(u, "stale_session")

RefuseSensitive(u) == stage[u] = "compiled" /\ u \in Sensitive /\ End(u, "sensitive")

Acknowledge(u) == stage[u] = "replaced" /\ End(u, "ok")

\* The process dies with all the updates that are under way.
Crash ==
  LET running == {u \in Updates : stage[u] \in {"compiled", "replaced"}} IN
  /\ running # {}
  /\ stage' = [u \in Updates |-> IF u \in running THEN "done" ELSE stage[u]]
  /\ outcome' = [u \in Updates |-> IF u \in running THEN "crashed" ELSE outcome[u]]
  /\ UNCHANGED <<stored, held>>

Next ==
  \/ \E u \in Updates : \/ Get(u) \/ FindNothing(u) \/ Put(u) \/ RefuseStale(u)
                        \/ RefuseSensitive(u) \/ Acknowledge(u)
  \/ Crash

Spec == Init /\ [][Next]_vars
=============================================================================
