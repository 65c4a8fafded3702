-------------------------- MODULE SessionFileProofs --------------------------
(***************************************************************************)
(* The safety of the session file, for any number of updates, processes    *)
(* and deployments.                                                        *)
(*                                                                         *)
(* Types and the absence of sensitive literals hold in every deployment    *)
(* and are shown first.  The rest holds where the lock reaches every       *)
(* writer (OneWriter).  Its inductive invariant says of every update what  *)
(* the lock buys it: alone between the comparison of revisions and the     *)
(* rename (Alone), it writes a temporary file that nobody else has open    *)
(* and that is not the session file (Staged, Fresh), and what it read is   *)
(* still what is published (Current).                                      *)
(***************************************************************************)
EXTENDS SessionFile, TLAPS

USE SessionFileAssumption DEF Made, Home, Cli, Goto, End

LEMMA RunTypes == Init => TypeOK
  BY DEF Init, TypeOK, Content, Absent

LEMMA AbsentIsNotASession == Absent \notin Content /\ Absent \notin {Empty, Torn}
  BY DEF Absent, Content

LEMMA PublishedType == TypeOK => Published \in Content \cup {Absent, Empty, Torn}
  BY DEF TypeOK, Published

LEMMA CopyType ==
  ASSUME TypeOK, NEW u \in Updates
  PROVE /\ copy[u].rev \in Int /\ copy[u].rev >= -1
        /\ copy[u].updates \in SUBSET Updates
        /\ NewContent(u) \in Content
        /\ NewContent(u).rev = copy[u].rev + 1
        /\ NewContent(u).updates = copy[u].updates \cup {u}
<1>1. copy[u] \in Content \cup {Absent}
  BY DEF TypeOK
<1>2. copy[u].rev \in Int /\ copy[u].rev >= -1 /\ copy[u].updates \in SUBSET Updates
  BY <1>1 DEF Content, Absent
<1>3. copy[u].rev + 1 \in Nat
  BY <1>2
<1> QED
  BY <1>2, <1>3 DEF NewContent, Content

LEMMA StepTypes == TypeOK /\ [Next]_vars => TypeOK'
<1> SUFFICES ASSUME TypeOK, [Next]_vars PROVE TypeOK'
  OBVIOUS
<1>0. ASSUME NEW d \in Deployments
      PROVE d.made \subseteq Updates /\ d.home \in [Updates -> Processes]
  OBVIOUS
<1>1. Made \subseteq Updates /\ Home \in [Updates -> Processes]
  BY <1>0 DEF TypeOK
<1>2. ASSUME NEW u \in Made, Step(u), UNCHANGED deployment PROVE TypeOK'
  <2>0. u \in Updates
    BY <1>1
  <2>1. CASE Read(u)
    <3>1. Published \in Content \cup {Absent, Empty, Torn}
      BY PublishedType
    <3> QED BY <1>2, <2>0, <2>1, <3>1 DEF Read, TypeOK
  <2>2. CASE RefuseSensitive(u)
    BY <1>2, <2>0, <2>2 DEF RefuseSensitive, TypeOK
  <2>3. CASE Enter(u)
    BY <1>2, <2>0, <2>3 DEF Enter, TypeOK
  <2>4. CASE RefuseStale(u)
    BY <1>2, <2>0, <2>4 DEF RefuseStale, TypeOK
  <2>5. CASE EnterCli(u)
    BY <1>2, <2>0, <2>5 DEF EnterCli, TypeOK
  <2>6. CASE Open(u)
    BY <1>2, <2>0, <2>6 DEF Open, TypeOK
  <2>7. CASE Write(u)
    <3>1. NewContent(u) \in Content
      BY <2>0, CopyType
    <3> QED BY <1>2, <2>0, <2>7, <3>1 DEF Write, TypeOK
  <2>8. CASE Replace(u)
    BY <1>2, <2>0, <2>8 DEF Replace, TypeOK
  <2>9. CASE ReplaceFails(u)
    BY <1>2, <2>0, <2>9 DEF ReplaceFails, Unlocked, TypeOK
  <2>10. CASE Acknowledge(u)
    BY <1>2, <2>0, <2>10 DEF Acknowledge, Unlocked, TypeOK
  <2> QED
    BY <1>2, <2>1, <2>2, <2>3, <2>4, <2>5, <2>6, <2>7, <2>8, <2>9, <2>10 DEF Step
<1>3. ASSUME NEW p \in Processes, Crash(p), UNCHANGED deployment PROVE TypeOK'
  BY <1>3 DEF Crash, TypeOK
<1>4. CASE UNCHANGED vars
  BY <1>4 DEF vars, TypeOK
<1> QED
  BY <1>2, <1>3, <1>4 DEF Next, Finished

\* The variables keep their types in every deployment.
THEOREM FileTypes == Spec => []TypeOK
  BY RunTypes, StepTypes, PTL DEF Spec

-----------------------------------------------------------------------------
\* No copy holds a sensitive literal, and who is past the refusal has none.
Clean ==
  /\ SensitiveStaysInMemory
  /\ \A u \in Updates :
       /\ copy[u].updates \cap Sensitive = {}
       /\ pc[u] \in {"checked", "open", "written"} => u \notin Sensitive

LEMMA InitClean == Init => Clean
  BY DEF Init, Clean, SensitiveStaysInMemory, Absent

LEMMA StepClean == TypeOK /\ Clean /\ [Next]_vars => Clean'
<1> SUFFICES ASSUME TypeOK, Clean, [Next]_vars PROVE Clean'
  OBVIOUS
<1> DEFINE CleanCopy(v) == /\ copy[v].updates \cap Sensitive = {}
                           /\ pc[v] \in {"checked", "open", "written"} => v \notin Sensitive
<1>0. ASSUME NEW d \in Deployments PROVE d.made \subseteq Updates
  OBVIOUS
<1>1. Made \subseteq Updates
  BY <1>0 DEF TypeOK
<1>2. ASSUME NEW u \in Made, Step(u) PROVE Clean'
  <2>0. u \in Updates
    BY <1>1
  <2>1. CASE Read(u)
    <3>1. data' = data
      BY <2>1 DEF Read
    <3>2. ASSUME Published \notin {Absent, Empty, Torn}
          PROVE Published.updates \cap Sensitive = {}
      BY <3>2 DEF Published, Clean, SensitiveStaysInMemory, TypeOK
    <3>3. ASSUME NEW v \in Updates PROVE CleanCopy(v)'
      BY <2>0, <2>1, <3>2 DEF Read, Clean, TypeOK
    <3> QED BY <3>1, <3>3 DEF Clean, SensitiveStaysInMemory
  <2>2. CASE RefuseSensitive(u) \/ Enter(u) \/ RefuseStale(u) \/ EnterCli(u)
    <3>1. data' = data /\ copy' = copy
      BY <2>2 DEF RefuseSensitive, Enter, RefuseStale, EnterCli
    <3>2. ASSUME NEW v \in Updates PROVE CleanCopy(v)'
      BY <2>0, <2>2, <3>1
         DEF RefuseSensitive, Enter, RefuseStale, EnterCli, HasSensitiveLiterals, Clean, TypeOK
    <3> QED BY <3>1, <3>2 DEF Clean, SensitiveStaysInMemory
  <2>3. CASE Open(u)
    <3>1. ASSUME NEW v \in Updates PROVE CleanCopy(v)'
      BY <2>0, <2>3 DEF Open, Clean, TypeOK
    <3>2. SensitiveStaysInMemory'
      BY <2>3 DEF Open, Clean, SensitiveStaysInMemory, TypeOK
    <3> QED BY <3>1, <3>2 DEF Clean
  <2>4. CASE Write(u)
    <3>1. ASSUME NEW v \in Updates PROVE CleanCopy(v)'
      BY <2>0, <2>4 DEF Write, Clean, TypeOK
    <3>2. NewContent(u).updates \cap Sensitive = {}
      BY <2>0, <2>4, CopyType DEF Write, Clean
    <3>3. SensitiveStaysInMemory'
      BY <2>4, <3>2 DEF Write, Clean, SensitiveStaysInMemory, TypeOK
    <3> QED BY <3>1, <3>3 DEF Clean
  <2>5. CASE Replace(u) \/ ReplaceFails(u) \/ Acknowledge(u)
    <3>1. data' = data /\ copy' = copy
      BY <2>5 DEF Replace, ReplaceFails, Acknowledge
    <3>2. ASSUME NEW v \in Updates PROVE CleanCopy(v)'
      BY <2>0, <2>5, <3>1 DEF Replace, ReplaceFails, Acknowledge, Clean, TypeOK
    <3> QED BY <3>1, <3>2 DEF Clean, SensitiveStaysInMemory
  <2> QED
    BY <1>2, <2>1, <2>2, <2>3, <2>4, <2>5 DEF Step
<1>3. ASSUME NEW p \in Processes, Crash(p) PROVE Clean'
  BY <1>3 DEF Crash, Clean, SensitiveStaysInMemory, TypeOK
<1>4. CASE UNCHANGED vars
  BY <1>4 DEF vars, Clean, SensitiveStaysInMemory
<1> QED
  BY <1>2, <1>3, <1>4 DEF Next, Finished

\* In every deployment, commands and other processes included, no file holds
\* a sensitive literal.
THEOREM SecretsStayInMemory == Spec => []SensitiveStaysInMemory
<1>1. Clean => SensitiveStaysInMemory
  BY DEF Clean
<1> QED
  BY <1>1, FileTypes, InitClean, StepClean, PTL DEF Spec

-----------------------------------------------------------------------------
LEMMA StepLocks == TypeOK /\ LocksHaveHolders /\ [Next]_vars => LocksHaveHolders'
<1> SUFFICES ASSUME TypeOK, LocksHaveHolders, [Next]_vars, NEW p \in Processes, lock'[p] # None
             PROVE  /\ lock'[p] \in Made' /\ Home'[lock'[p]] = p
                    /\ pc'[lock'[p]] \in {"checked", "open", "written", "replaced"}
  BY DEF LocksHaveHolders
<1>0. deployment' = deployment
  BY DEF Next, Finished, vars
<1>1. lock[p] # None => /\ lock[p] \in Made /\ Home[lock[p]] = p
                        /\ pc[lock[p]] \in {"checked", "open", "written", "replaced"}
  BY DEF LocksHaveHolders
<1>2. Made \subseteq Updates /\ Home \in [Updates -> Processes]
  <2>1. ASSUME NEW d \in Deployments
        PROVE  d.made \subseteq Updates /\ d.home \in [Updates -> Processes]
    OBVIOUS
  <2> QED BY <2>1 DEF TypeOK
<1>3. ASSUME NEW u \in Made, Step(u)
      PROVE  /\ lock'[p] \in Made /\ Home[lock'[p]] = p
             /\ pc'[lock'[p]] \in {"checked", "open", "written", "replaced"}
  <2>1. CASE Read(u) \/ RefuseSensitive(u) \/ RefuseStale(u) \/ EnterCli(u)
    <3>1. pc[u] \in {"idle", "compiled"} /\ lock' = lock /\ \A v \in Updates \ {u} : pc'[v] = pc[v]
      BY <2>1 DEF Read, RefuseSensitive, RefuseStale, EnterCli, TypeOK
    <3> QED
      BY <1>1, <1>2, <3>1
  <2>2. CASE Enter(u)
    <3>1. lock' = [lock EXCEPT ![Home[u]] = u] /\ pc' = [pc EXCEPT ![u] = "checked"]
      BY <2>2 DEF Enter
    <3>2. CASE p = Home[u]
      BY <1>2, <3>1, <3>2 DEF TypeOK
    <3>3. CASE p # Home[u]
      <4>1. lock'[p] = lock[p] /\ lock[p] # u
        BY <1>1, <3>1, <3>3 DEF TypeOK
      <4> QED
        BY <1>1, <1>2, <3>1, <4>1 DEF TypeOK
    <3> QED
      BY <3>2, <3>3
  <2>3. CASE Open(u) \/ Write(u) \/ Replace(u)
    <3>1. lock' = lock /\ \E label \in {"open", "written", "replaced"} : pc' = [pc EXCEPT ![u] = label]
      BY <2>3 DEF Open, Write, Replace
    <3> QED
      BY <1>1, <1>2, <3>1 DEF TypeOK
  <2>4. CASE ReplaceFails(u) \/ Acknowledge(u)
    <3>1. lock' = [lock EXCEPT ![Home[u]] = IF @ = u THEN None ELSE @] /\ pc' = [pc EXCEPT ![u] = "done"]
      BY <2>4 DEF ReplaceFails, Acknowledge, Unlocked
    <3>2. lock'[p] = lock[p] /\ lock[p] # u
      BY <1>1, <1>2, <3>1 DEF TypeOK
    <3> QED
      BY <1>1, <1>2, <3>1, <3>2 DEF TypeOK
  <2> QED
    BY <1>3, <2>1, <2>2, <2>3, <2>4 DEF Step
<1>4. ASSUME NEW q \in Processes, Crash(q)
      PROVE  /\ lock'[p] \in Made /\ Home[lock'[p]] = p
             /\ pc'[lock'[p]] \in {"checked", "open", "written", "replaced"}
  <2>1. lock' = [lock EXCEPT ![q] = None] /\ \A v \in Updates : Home[v] # q => pc'[v] = pc[v]
    BY <1>4 DEF Crash
  <2>2. p # q /\ lock'[p] = lock[p]
    BY <2>1 DEF TypeOK
  <2> QED
    BY <1>1, <1>2, <2>1, <2>2
<1>5. CASE UNCHANGED vars
  BY <1>1, <1>5 DEF vars
<1> QED
  BY <1>0, <1>3, <1>4, <1>5 DEF Next, Finished

\* In every deployment a lock is held by an update that is on its way through put, and
\* never by one that has failed, ended or crashed.
THEOREM LocksAreReleased == Spec => []LocksHaveHolders
<1>1. Init => LocksHaveHolders
  BY DEF Init, LocksHaveHolders
<1> QED
  BY <1>1, FileTypes, StepLocks, PTL DEF Spec

-----------------------------------------------------------------------------
Writing(u) == pc[u] \in {"checked", "open", "written", "replaced"}

\* Whoever is past the comparison holds the lock of its process.
Alone(u) == Writing(u) => u \in Made /\ lock[Home[u]] = u

\* The inode an update would create is not in use before it opens the file.
Fresh(u) == pc[u] \in {"idle", "compiled", "checked"} => target # u /\ tmp # u

\* An update holds no copy before it reads.  What it read is older than what is published, or is what is published;
\* after the comparison it is what is published.
Current(u) ==
  /\ pc[u] = "idle" => copy[u] = Absent
  /\ pc[u] = "compiled" => copy[u].rev < Published.rev \/ copy[u] = Published
  /\ pc[u] \in {"checked", "open", "written"} => copy[u] = Published

\* The temporary file belongs to the update that has it open.
Staged(u) ==
  /\ pc[u] \in {"open", "written"} => tmp # None /\ handle[u] = tmp
  /\ pc[u] = "open" => data[tmp] = Empty
  /\ pc[u] = "written" => data[tmp] = NewContent(u)

\* Exactly the updates that were renamed into place are in the file.
Stored(u) ==
  /\ pc[u] = "replaced" \/ outcome[u] = "ok" => u \in Published.updates
  /\ u \in Published.updates => pc[u] \in {"replaced", "done"}
  /\ pc[u] # "done" => outcome[u] = "none"

Good(u) == Alone(u) /\ Fresh(u) /\ Current(u) /\ Staged(u) /\ Stored(u)

Serial ==
  /\ Published \in Content \cup {Absent}
  /\ tmp # None => tmp # target
  /\ \A u \in Updates : Good(u)

Guarded == OneWriter => Serial

LEMMA InitSerial == Init => Serial
<1> SUFFICES ASSUME Init PROVE Serial
  OBVIOUS
<1>1. Published = Absent
  BY DEF Init, Published
<1>2. ASSUME NEW u \in Updates PROVE Good(u)
  <2>1. pc[u] = "idle" /\ outcome[u] = "none" /\ target = None /\ tmp = None
        /\ copy[u] = Absent
    BY DEF Init
  <2> QED
    BY <1>1, <2>1
       DEF Good, Writing, Alone, Fresh, Current, Staged, Stored, Absent
<1> QED
  BY <1>1, <1>2 DEF Serial, Init

\* Of the updates of one process only one is past the comparison.
LEMMA OnlyWriter ==
  ASSUME OneWriter, Serial, NEW u \in Updates, NEW v \in Updates, Writing(u), Writing(v)
  PROVE u = v
  BY DEF OneWriter, Serial, Good, Alone

\* A step that refuses an update which has claimed nothing keeps the rest.
LEMMA RefusalKeeps ==
  ASSUME TypeOK, OneWriter, Serial, NEW u \in Updates, ~Writing(u), NEW r, r # "ok", End(u, r),
         UNCHANGED <<deployment, target, tmp, data, handle, lock, copy>>
  PROVE Serial'
<1>1. Published' = Published
  BY DEF Published
<1>2. pc' = [pc EXCEPT ![u] = "done"] /\ pc[u] # "replaced"
  BY DEF Writing
<1>3. \A v \in Updates \ {u} : pc'[v] = pc[v] /\ outcome'[v] = outcome[v]
  BY DEF TypeOK
<1>4. pc'[u] = "done" /\ outcome'[u] # "ok"
  BY DEF TypeOK
<1>5. ASSUME NEW v \in Updates, v # u PROVE Good(v)'
  <2>1. Good(v)
    BY DEF Serial
  <2> QED
    BY <1>1, <1>3, <1>5, <2>1
       DEF Good, Writing, Alone, Fresh, Current, Staged, Stored, NewContent
<1>6. Good(u)'
  BY <1>1, <1>4 DEF Good, Writing, Alone, Fresh, Current, Staged, Stored
<1> QED
  BY <1>1, <1>5, <1>6 DEF Serial

LEMMA StepSerial ==
  ASSUME TypeOK, OneWriter, Serial, NEW u \in Made, u \in Updates, Step(u), UNCHANGED deployment
  PROVE Serial'
<1> USE DEF Good
<1>0. Good(u) /\ \A v \in Updates : Good(v)
  BY DEF Serial
<1>a. lock \in [Processes -> Updates \cup {None}] /\ Home[u] \in Processes
  BY DEF TypeOK
<1>b. \A v \in Made : Home[v] = Home[u]
  BY DEF OneWriter
<1>1. CASE Read(u)
  <2>1. Published' = Published
    BY <1>1 DEF Read, Published
  <2>2. pc[u] = "idle"
    BY <1>1 DEF Read
  <2>3. CASE u # Creator /\ Published \in {Absent, Empty, Torn}
    BY <1>1, <2>2, <2>3, RefusalKeeps DEF Read, Writing
  <2>4. CASE ~(u # Creator /\ Published \in {Absent, Empty, Torn})
    <3>1. /\ pc' = [pc EXCEPT ![u] = "compiled"] /\ copy'[u] = Published
          /\ \A v \in Updates \ {u} : copy'[v] = copy[v]
          /\ UNCHANGED <<target, tmp, data, handle, lock, outcome>>
      <4>1. CASE u = Creator
        <5>1. copy[u] = Absent
          BY <1>0, <2>2 DEF Current
        <5> QED BY <1>1, <4>1, <5>1 DEF Read, Published
      <4>2. CASE u # Creator
        BY <1>1, <2>4, <4>2 DEF Read, TypeOK
      <4> QED BY <4>1, <4>2
    <3>2. ASSUME NEW v \in Updates, v # u PROVE Good(v)'
      <4>1. pc'[v] = pc[v] /\ copy'[v] = copy[v]
        BY <3>1, <3>2 DEF TypeOK
      <4> QED
        BY <1>0, <2>1, <3>1, <4>1
           DEF Writing, Alone, Fresh, Current, Staged, Stored, NewContent
    <3>3. pc'[u] = "compiled"
      BY <3>1 DEF TypeOK
    <3>4. Good(u)'
      BY <1>0, <2>1, <2>2, <3>1, <3>3
         DEF Writing, Alone, Fresh, Current, Staged, Stored, NewContent
    <3> QED BY <2>1, <3>1, <3>2, <3>4 DEF Serial
  <2> QED BY <2>3, <2>4
<1>2. CASE RefuseSensitive(u)
  BY <1>2, RefusalKeeps DEF RefuseSensitive, Writing
<1>3. CASE RefuseStale(u)
  <2>1. ~Writing(u)
    BY <1>3 DEF RefuseStale, Writing
  <2>2. CASE Published \in {Empty, Torn}
    BY <1>3, <2>1, <2>2, RefusalKeeps DEF RefuseStale
  <2>3. CASE Published \notin {Empty, Torn}
    BY <1>3, <2>1, <2>3, RefusalKeeps DEF RefuseStale
  <2> QED BY <2>2, <2>3
<1>4. CASE Enter(u)
  <2>0. /\ pc[u] = "compiled" /\ lock[Home[u]] = None /\ SameRevision(u)
        /\ lock' = [lock EXCEPT ![Home[u]] = u] /\ pc' = [pc EXCEPT ![u] = "checked"]
        /\ UNCHANGED <<target, tmp, data, handle, copy, outcome>>
    BY <1>4 DEF Enter, LockIsFree
  <2>1. Published' = Published
    BY <2>0 DEF Published
  <2>2. lock'[Home[u]] = u /\ pc'[u] = "checked"
    BY <1>a, <2>0 DEF TypeOK
  <2>3. copy[u] = Published
    <3>1. Published.rev = copy[u].rev /\ copy[u].rev \in Int
      BY <2>0, CopyType DEF SameRevision
    <3> QED BY <1>0, <2>0, <3>1 DEF Current
  <2>4. ASSUME NEW v \in Updates, v # u PROVE Good(v)'
    <3>1. pc'[v] = pc[v]
      BY <2>0, <2>4 DEF TypeOK
    <3>2. ~Writing(v)
      BY <1>0, <1>b, <2>0 DEF Alone
    <3> QED
      BY <1>0, <2>0, <2>1, <3>1, <3>2
         DEF Writing, Alone, Fresh, Current, Staged, Stored, NewContent
  <2>5. Good(u)'
    BY <1>0, <2>0, <2>1, <2>2, <2>3
       DEF Writing, Alone, Fresh, Current, Staged, Stored, NewContent
  <2> QED BY <2>0, <2>1, <2>4, <2>5 DEF Serial
<1>5. CASE EnterCli(u)
  BY <1>5 DEF EnterCli, OneWriter
\* From here on u is the only update past the comparison.
<1>c. ASSUME Writing(u), NEW v \in Updates, v # u PROVE ~Writing(v)
  BY <1>c, OnlyWriter
<1>6. CASE Open(u)
  <2> DEFINE inode == IF tmp = None THEN u ELSE tmp
  <2>0. /\ pc[u] = "checked" /\ tmp' = inode
        /\ handle' = [handle EXCEPT ![u] = inode] /\ data' = [data EXCEPT ![inode] = Empty]
        /\ pc' = [pc EXCEPT ![u] = "open"] /\ UNCHANGED <<target, lock, copy, outcome>>
    BY <1>6 DEF Open
  <2>1. inode \in Updates /\ inode # target
    BY <1>0, <2>0 DEF Fresh, Serial, TypeOK
  <2> HIDE DEF inode
  <2>2. Published' = Published
    BY <2>0, <2>1 DEF Published, TypeOK
  <2>3. pc'[u] = "open" /\ handle'[u] = inode /\ data'[inode] = Empty /\ inode # None
    BY <2>0, <2>1 DEF TypeOK
  <2>4. ASSUME NEW v \in Updates, v # u PROVE Good(v)'
    <3>1. pc'[v] = pc[v]
      BY <2>0, <2>4 DEF TypeOK
    <3>2. ~Writing(v)
      BY <1>c, <2>0, <2>4 DEF Writing
    <3>3. inode # v \/ inode = tmp
      BY <2>4 DEF inode
    <3> QED
      BY <1>0, <2>0, <2>2, <3>1, <3>2, <3>3
         DEF Writing, Alone, Fresh, Current, Staged, Stored, NewContent
  <2>5. Good(u)'
    BY <1>0, <2>0, <2>2, <2>3
       DEF Writing, Alone, Fresh, Current, Staged, Stored, NewContent
  <2> QED BY <2>0, <2>1, <2>2, <2>4, <2>5 DEF Serial
<1>7. CASE Write(u)
  <2>0. /\ pc[u] = "open" /\ handle[u] = tmp /\ tmp # None /\ tmp # target
        /\ data' = [data EXCEPT ![tmp] = NewContent(u)]
        /\ pc' = [pc EXCEPT ![u] = "written"] /\ UNCHANGED <<target, tmp, handle, lock, copy, outcome>>
    BY <1>0, <1>7 DEF Write, Staged, Serial
  <2>1. Published' = Published
    BY <2>0 DEF Published, TypeOK
  <2>2. pc'[u] = "written" /\ data'[tmp] = NewContent(u) /\ NewContent(u)' = NewContent(u)
    BY <2>0 DEF TypeOK, NewContent
  <2>3. ASSUME NEW v \in Updates, v # u PROVE Good(v)'
    <3>1. pc'[v] = pc[v]
      BY <2>0, <2>3 DEF TypeOK
    <3>2. ~Writing(v)
      BY <1>c, <2>0, <2>3 DEF Writing
    <3> QED
      BY <1>0, <2>0, <2>1, <3>1, <3>2
         DEF Writing, Alone, Fresh, Current, Staged, Stored
  <2>4. Good(u)'
    BY <1>0, <2>0, <2>1, <2>2
       DEF Writing, Alone, Fresh, Current, Staged, Stored
  <2> QED BY <2>0, <2>1, <2>3, <2>4 DEF Serial
<1>8. CASE Replace(u)
  <2>0. /\ pc[u] = "written" /\ tmp # None /\ target' = tmp /\ tmp' = None
        /\ pc' = [pc EXCEPT ![u] = "replaced"] /\ UNCHANGED <<data, handle, lock, copy, outcome>>
    BY <1>8 DEF Replace
  <2>1. Published' = NewContent(u) /\ copy[u] = Published
    BY <1>0, <2>0 DEF Published, Staged, Current
  <2>2. /\ NewContent(u) \in Content
        /\ NewContent(u).rev = Published.rev + 1 /\ Published.rev \in Int
        /\ NewContent(u).updates = Published.updates \cup {u}
    BY <2>1, CopyType
  <2>3. pc'[u] = "replaced"
    BY <2>0 DEF TypeOK
  <2>4. ASSUME NEW v \in Updates, v # u PROVE Good(v)'
    <3>1. pc'[v] = pc[v]
      BY <2>0, <2>4 DEF TypeOK
    <3>2. ~Writing(v)
      BY <1>c, <2>0, <2>4 DEF Writing
    <3>3. copy[v].rev < Published.rev \/ copy[v] = Published => copy[v].rev < Published.rev + 1
      BY <2>2, CopyType
    <3>4. Current(v)'
      BY <1>0, <2>0, <2>1, <2>2, <3>1, <3>2, <3>3 DEF Current, Writing
    <3>5. Stored(v)'
      BY <1>0, <2>0, <2>1, <2>2, <2>4, <3>1 DEF Stored
    <3>6. Alone(v)' /\ Fresh(v)' /\ Staged(v)'
      BY <1>0, <2>0, <3>1, <3>2 DEF Alone, Fresh, Staged, Writing, TypeOK
    <3> QED BY <3>4, <3>5, <3>6
  <2>5. Good(u)'
    BY <1>0, <2>0, <2>1, <2>2, <2>3
       DEF Writing, Alone, Fresh, Current, Staged, Stored
  <2> QED BY <2>0, <2>1, <2>2, <2>4, <2>5 DEF Serial
<1>9. CASE ReplaceFails(u)
  BY <1>0, <1>9 DEF ReplaceFails, Staged
<1>10. CASE Acknowledge(u)
  <2>0. /\ pc[u] = "replaced" /\ pc' = [pc EXCEPT ![u] = "done"]
        /\ outcome' = [outcome EXCEPT ![u] = "ok"]
        /\ UNCHANGED <<target, tmp, data, handle, copy>>
    BY <1>10 DEF Acknowledge
  <2>1. Published' = Published
    BY <2>0 DEF Published
  <2>2. pc'[u] = "done"
    BY <2>0 DEF TypeOK
  <2>3. ASSUME NEW v \in Updates, v # u PROVE Good(v)'
    <3>1. pc'[v] = pc[v] /\ outcome'[v] = outcome[v]
      BY <2>0, <2>3 DEF TypeOK
    <3>2. ~Writing(v)
      BY <1>c, <2>0, <2>3 DEF Writing
    <3> QED
      BY <1>0, <2>0, <2>1, <3>1, <3>2
         DEF Writing, Alone, Fresh, Current, Staged, Stored, NewContent
  <2>4. Good(u)'
    BY <1>0, <2>0, <2>1, <2>2
       DEF Writing, Alone, Fresh, Current, Staged, Stored, NewContent
  <2> QED BY <2>0, <2>1, <2>3, <2>4 DEF Serial
<1> QED
  BY <1>1, <1>2, <1>3, <1>4, <1>5, <1>6, <1>7, <1>8, <1>9, <1>10 DEF Step

LEMMA CrashSerial ==
  ASSUME TypeOK, OneWriter, Serial, NEW p \in Processes, Crash(p), UNCHANGED deployment
  PROVE Serial'
<1> DEFINE dies == {u \in Updates : Home[u] = p /\ pc[u] \notin {"idle", "done"}}
<1>0. /\ pc' = [u \in Updates |-> IF u \in dies THEN "done" ELSE pc[u]]
      /\ outcome' = [u \in Updates |-> IF u \in dies THEN "crashed" ELSE outcome[u]]
      /\ lock' = [lock EXCEPT ![p] = None]
      /\ UNCHANGED <<target, tmp, data, handle, copy>>
  BY DEF Crash
<1>1. Published' = Published
  BY <1>0 DEF Published
<1>2. ASSUME NEW v \in Updates PROVE Good(v)'
  <2>0. Good(v)
    BY DEF Serial
  <2>1. CASE v \in dies
    <3>1. pc'[v] = "done" /\ outcome'[v] = "crashed"
      BY <1>0, <2>1
    <3> QED
      BY <1>0, <1>1, <3>1
         DEF Good, Writing, Alone, Fresh, Current, Staged, Stored, NewContent
  <2>2. CASE v \notin dies
    <3>1. pc'[v] = pc[v] /\ outcome'[v] = outcome[v]
      BY <1>0, <2>2
    <3>2. Alone(v)'
      <4>1. ASSUME Writing(v) PROVE v \in Made /\ lock'[Home[v]] = v
        <5>1. v \in Made /\ lock[Home[v]] = v
          BY <2>0, <4>1 DEF Good, Alone
        <5>2. Home[v] # p
          BY <2>2, <4>1 DEF Writing
        <5> QED BY <1>0, <5>1, <5>2 DEF TypeOK
      <4> QED BY <3>1, <4>1 DEF Alone, Writing
    <3> QED
      BY <1>0, <1>1, <2>0, <3>1, <3>2
         DEF Good, Writing, Fresh, Current, Staged, Stored, NewContent
  <2> QED BY <2>1, <2>2
<1> QED
  BY <1>0, <1>1, <1>2 DEF Serial

LEMMA StepGuarded == TypeOK /\ Guarded /\ [Next]_vars => Guarded'
<1> SUFFICES ASSUME TypeOK, Guarded, [Next]_vars, OneWriter' PROVE Serial'
  BY DEF Guarded
<1>1. deployment' = deployment /\ OneWriter
  BY DEF Next, Finished, vars, OneWriter
<1>2. Serial
  BY <1>1 DEF Guarded
<1>3. Made \subseteq Updates
  <2>1. ASSUME NEW d \in Deployments PROVE d.made \subseteq Updates
    OBVIOUS
  <2> QED BY <2>1 DEF TypeOK
<1>4. ASSUME NEW u \in Made, Step(u) PROVE Serial'
  BY <1>1, <1>2, <1>3, <1>4, StepSerial
<1>5. ASSUME NEW p \in Processes, Crash(p) PROVE Serial'
  BY <1>1, <1>2, <1>5, CrashSerial
<1>6. CASE UNCHANGED vars
  BY <1>2, <1>6
     DEF vars, Serial, Good, Writing, Alone, Fresh, Current, Staged, Stored, NewContent, Published
<1> QED
  BY <1>4, <1>5, <1>6 DEF Next, Finished

LEMMA GuardedAlways == Spec => []Guarded
<1>1. Init => Guarded
  BY InitSerial DEF Guarded
<1> QED
  BY <1>1, StepGuarded, FileTypes, PTL DEF Spec

\* Threads of one process never leave a truncated or mixed session file,
\* whatever crashes where.
THEOREM SessionFileIsWhole == Spec => []FileIsWhole
<1>1. Guarded => FileIsWhole
  BY DEF Guarded, Serial, FileIsWhole
<1> QED
  BY <1>1, GuardedAlways, PTL

\* What put acknowledged stays in the file, through the later updates of the
\* process and its crashes.
THEOREM AcknowledgementsHold == Spec => []AcknowledgedStaysStored
<1>1. Guarded => AcknowledgedStaysStored
  BY DEF Guarded, Serial, Good, Stored, AcknowledgedStaysStored, AcknowledgedIsStored
<1> QED
  BY <1>1, GuardedAlways, PTL

\* The session file changes when the temporary file is renamed, by the renaming update.
LEMMA OnlyRenamePublishes ==
  ASSUME TypeOK, Serial, NEW u \in Updates, Step(u)
  PROVE  /\ Replace(u) => /\ u \notin Published.updates /\ copy[u] = Published
                          /\ Published' = NewContent(u)
         /\ ~Replace(u) => Published' = Published
<1>0. Good(u)
  BY DEF Serial
<1>1. ASSUME Replace(u)
      PROVE  u \notin Published.updates /\ copy[u] = Published /\ Published' = NewContent(u)
  <2>1. pc[u] = "written" /\ tmp # None /\ target' = tmp /\ data' = data
    BY <1>1 DEF Replace
  <2> QED
    BY <1>0, <2>1 DEF Published, Good, Staged, Current, Stored
<1>2. CASE Open(u)
  <2>1. pc[u] = "checked" /\ target' = target
        /\ data' = [data EXCEPT ![IF tmp = None THEN u ELSE tmp] = Empty]
    BY <1>2 DEF Open
  <2>2. target # (IF tmp = None THEN u ELSE tmp)
    BY <1>0, <2>1 DEF Serial, Good, Fresh
  <2>3. Published' = Published
    BY <2>1, <2>2 DEF Published, TypeOK
  <2> QED BY <1>1, <2>3
<1>3. CASE Write(u)
  <2>1. target' = target /\ handle[u] = tmp /\ tmp # target
        /\ \E c : data' = [data EXCEPT ![handle[u]] = c]
    BY <1>0, <1>3 DEF Write, Serial, Good, Staged
  <2>2. Published' = Published
    BY <2>1 DEF Published, TypeOK
  <2> QED BY <1>1, <2>2
<1>4. CASE Read(u) \/ RefuseSensitive(u) \/ Enter(u) \/ RefuseStale(u) \/ EnterCli(u)
             \/ ReplaceFails(u) \/ Acknowledge(u)
  <2>1. target' = target /\ data' = data
    BY <1>4 DEF Read, RefuseSensitive, Enter, RefuseStale, EnterCli, ReplaceFails, Acknowledge
  <2> QED BY <1>1, <2>1 DEF Published
<1> QED
  BY <1>1, <1>2, <1>3, <1>4 DEF Step

\* The file moves from a session to the session with one update more.
THEOREM UpdatesAreSerial == Spec => OneUpdateAtATime
<1> DEFINE Moves == (OneWriter /\ Published' # Published) =>
       /\ Published' \notin {Empty, Torn}
       /\ Published'.rev = Published.rev + 1
       /\ \E u \in Updates \ Published.updates :
            Published'.updates = Published.updates \cup {u}
<1>1. ASSUME TypeOK, Guarded, Guarded', [Next]_vars PROVE [Moves]_vars
  <2> SUFFICES ASSUME OneWriter, Published' # Published
               PROVE /\ Published' \notin {Empty, Torn}
                     /\ Published'.rev = Published.rev + 1
                     /\ \E u \in Updates \ Published.updates :
                          Published'.updates = Published.updates \cup {u}
    OBVIOUS
  <2>1. deployment' = deployment /\ Serial /\ OneWriter'
    BY <1>1 DEF Next, Finished, vars, OneWriter, Guarded
  <2>2. Published' \notin {Empty, Torn}
    BY <1>1, <2>1 DEF Guarded, Serial
  <2>3. Made \subseteq Updates
    <3>1. ASSUME NEW d \in Deployments PROVE d.made \subseteq Updates
      OBVIOUS
    <3> QED BY <1>1, <3>1 DEF TypeOK
  <2>4. CASE \E p \in Processes : Crash(p)
    BY <2>4 DEF Crash, Published
  <2>5. CASE UNCHANGED vars
    BY <2>5 DEF vars, Published
  <2>6. ASSUME NEW u \in Made, Step(u)
        PROVE /\ Published'.rev = Published.rev + 1
              /\ \E w \in Updates \ Published.updates :
                   Published'.updates = Published.updates \cup {w}
    <3>0. u \in Updates
      BY <2>3
    <3>1. u \notin Published.updates /\ copy[u] = Published /\ Published' = NewContent(u)
      BY <1>1, <2>1, <2>6, <3>0, OnlyRenamePublishes
    <3>2. /\ Published'.rev = Published.rev + 1
          /\ Published'.updates = Published.updates \cup {u}
      BY <1>1, <3>0, <3>1, CopyType
    <3> QED BY <3>0, <3>1, <3>2
  <2> QED
    BY <1>1, <2>2, <2>4, <2>5, <2>6 DEF Next, Finished
<1>2. TypeOK /\ Guarded /\ Guarded' /\ [Next]_vars => [Moves]_vars
  BY <1>1
<1> QED
  BY <1>2, GuardedAlways, FileTypes, PTL DEF Spec, OneUpdateAtATime

-----------------------------------------------------------------------------
(* The file of one process implements an atomic store.                      *)

\* Nothing is done for an update that is not made.
OnlyMade == \A u \in Updates \ Made : pc[u] = "idle"

LEMMA StepOnlyMade == TypeOK /\ OnlyMade /\ [Next]_vars => OnlyMade'
<1> SUFFICES ASSUME TypeOK, OnlyMade, [Next]_vars PROVE OnlyMade'
  OBVIOUS
<1>1. /\ deployment' = deployment
      /\ pc \in [Updates -> {"idle", "compiled", "checked", "open", "written", "replaced", "done"}]
  BY DEF Next, Finished, vars, TypeOK
<1>2. ASSUME NEW u \in Made, Step(u) PROVE OnlyMade'
  <2>1. \E label : pc' = [pc EXCEPT ![u] = label]
    BY <1>2 DEF Step, Read, RefuseSensitive, Enter, RefuseStale, EnterCli, Open, Write,
                Replace, ReplaceFails, Acknowledge
  <2> QED
    BY <1>1, <2>1 DEF OnlyMade
<1>3. ASSUME NEW p \in Processes, Crash(p) PROVE OnlyMade'
  BY <1>1, <1>3 DEF Crash, OnlyMade
<1>4. CASE UNCHANGED vars
  BY <1>4 DEF vars, OnlyMade
<1> QED
  BY <1>2, <1>3, <1>4 DEF Next, Finished

\* What the caller sees when an update moves on.
LEMMA ProgressMoves ==
  ASSUME TypeOK, NEW u \in Updates, NEW label, Goto(u, label)
  PROVE  [v \in Updates |-> Progress(v)'] =
           [[v \in Updates |-> Progress(v)] EXCEPT
              ![u] = IF label \in {"checked", "open", "written"} THEN "compiled" ELSE label]
  BY DEF TypeOK, Progress

LEMMA StepRefines ==
  ASSUME TypeOK, OneWriter, Serial, Clean, NEW u \in Made, u \in Updates, Step(u)
  PROVE  Revisioned!Next \/ UNCHANGED Revisioned!vars
<1> DEFINE progress == [v \in Updates |-> Progress(v)]
<1>0. /\ Good(u) /\ u \notin Cli /\ Published \in Content \cup {Absent}
      /\ Published \notin {Empty, Torn} /\ Absent \notin Content
  BY AbsentIsNotASession DEF Serial, OneWriter
<1>1. Published' = Published \/ Replace(u)
  BY OnlyRenamePublishes
<1>2. \A label : Goto(u, label) =>
        progress' = [progress EXCEPT
          ![u] = IF label \in {"checked", "open", "written"} THEN "compiled" ELSE label]
  BY ProgressMoves
<1>3. /\ progress \in [Updates -> {"idle", "compiled", "replaced", "done"}]
      /\ progress[u] = Progress(u) /\ copy = [copy EXCEPT ![u] = copy[u]]
  BY DEF TypeOK, Progress
<1> HIDE DEF progress
<1>4. CASE Read(u)
  <2>1. pc[u] = "idle" /\ Published' = Published
    BY <1>1, <1>4 DEF Read, Replace
  <2>2. progress[u] = "idle" /\ copy[u] = Absent
    BY <1>0, <1>3, <2>1 DEF Progress, Good, Current
  <2>3. CASE u = Creator
    <3>1. /\ Published = Absent /\ copy' = [copy EXCEPT ![u] = Published] /\ outcome' = outcome
          /\ progress' = [progress EXCEPT ![u] = "compiled"]
      BY <1>2, <1>3, <1>4, <2>2, <2>3 DEF Read, Published
    <3>2. Revisioned!Get(u)
      BY <2>1, <2>2, <2>3, <3>1 DEF Revisioned!Get, Revisioned!To, Revisioned!Absent, Absent, progress
    <3> QED
      BY <3>2 DEF Revisioned!Next
  <2>4. CASE u # Creator /\ Published = Absent
    <3>1. /\ copy' = copy /\ outcome' = [outcome EXCEPT ![u] = "unreadable"]
          /\ progress' = [progress EXCEPT ![u] = "done"]
      BY <1>2, <1>4, <2>4 DEF Read
    <3>2. Revisioned!FindNothing(u)
      BY <2>1, <2>2, <2>4, <3>1
         DEF Revisioned!FindNothing, Revisioned!End, Revisioned!To, Revisioned!Absent, Absent, progress
    <3> QED
      BY <3>2 DEF Revisioned!Next
  <2>5. CASE u # Creator /\ Published # Absent
    <3>1. /\ copy' = [copy EXCEPT ![u] = Published] /\ outcome' = outcome
          /\ progress' = [progress EXCEPT ![u] = "compiled"]
      BY <1>0, <1>2, <1>4, <2>5 DEF Read
    <3>2. Revisioned!Get(u)
      BY <2>1, <2>2, <2>5, <3>1 DEF Revisioned!Get, Revisioned!To, Revisioned!Absent, Absent, progress
    <3> QED
      BY <3>2 DEF Revisioned!Next
  <2> QED
    BY <2>3, <2>4, <2>5
<1>5. CASE RefuseSensitive(u)
  <2>1. /\ pc[u] = "compiled" /\ Published' = Published /\ copy' = copy /\ u \in Sensitive
        /\ outcome' = [outcome EXCEPT ![u] = "sensitive"]
        /\ progress' = [progress EXCEPT ![u] = "done"]
    BY <1>1, <1>2, <1>5 DEF RefuseSensitive, HasSensitiveLiterals, Replace
  <2>2. Revisioned!RefuseSensitive(u)
    BY <1>3, <2>1 DEF Progress, Revisioned!RefuseSensitive, Revisioned!End, Revisioned!To, progress
  <2> QED
    BY <2>2 DEF Revisioned!Next
<1>6. CASE Enter(u) \/ Open(u) \/ Write(u)
  <2>1. /\ pc[u] \in {"compiled", "checked", "open"} /\ Published' = Published
        /\ copy' = copy /\ outcome' = outcome
        /\ progress' = [progress EXCEPT ![u] = "compiled"]
    BY <1>1, <1>2, <1>6 DEF Enter, Open, Write, Replace
  <2>2. progress[u] = "compiled"
    BY <1>3, <2>1 DEF Progress
  <2>3. progress' = progress
    BY <1>3, <2>1, <2>2
  <2> QED
    BY <2>1, <2>3 DEF Revisioned!vars, progress
<1>7. CASE RefuseStale(u)
  <2>1. /\ pc[u] = "compiled" /\ Published' = Published /\ copy' = copy
        /\ copy[u].rev # Published.rev
        /\ outcome' = [outcome EXCEPT ![u] = "stale_session"]
        /\ progress' = [progress EXCEPT ![u] = "done"]
    BY <1>0, <1>1, <1>2, <1>7 DEF RefuseStale, SameRevision, Replace
  <2>2. Revisioned!RefuseStale(u)
    BY <1>3, <2>1 DEF Progress, Revisioned!RefuseStale, Revisioned!End, Revisioned!To, progress
  <2> QED
    BY <2>2 DEF Revisioned!Next
<1>8. CASE Replace(u)
  <2>1. /\ pc[u] = "written" /\ copy' = copy /\ outcome' = outcome
        /\ progress' = [progress EXCEPT ![u] = "replaced"]
    BY <1>2, <1>8 DEF Replace
  <2>2. copy[u] = Published /\ Published' = NewContent(u)
    BY <1>8, OnlyRenamePublishes
  <2>3. Published' = [rev |-> Published.rev + 1, updates |-> Published.updates \cup {u}]
    BY <2>2 DEF NewContent
  <2>4. u \notin Sensitive
    BY <2>1 DEF Clean
  <2>5. Revisioned!Put(u)
    BY <1>3, <2>1, <2>2, <2>3, <2>4 DEF Progress, Revisioned!Put, Revisioned!To, progress
  <2> QED
    BY <2>5 DEF Revisioned!Next
<1>9. CASE Acknowledge(u)
  <2>1. /\ pc[u] = "replaced" /\ Published' = Published /\ copy' = copy
        /\ outcome' = [outcome EXCEPT ![u] = "ok"]
        /\ progress' = [progress EXCEPT ![u] = "done"]
    BY <1>1, <1>2, <1>9 DEF Acknowledge, Replace
  <2>2. Revisioned!Acknowledge(u)
    BY <1>3, <2>1 DEF Progress, Revisioned!Acknowledge, Revisioned!End, Revisioned!To, progress
  <2> QED
    BY <2>2 DEF Revisioned!Next
<1>10. ~EnterCli(u) /\ ~ReplaceFails(u)
  BY <1>0 DEF EnterCli, ReplaceFails, Good, Staged
<1> QED
  BY <1>4, <1>5, <1>6, <1>7, <1>8, <1>9, <1>10 DEF Step

LEMMA CrashRefines ==
  ASSUME TypeOK, OneWriter, OnlyMade, NEW p \in Processes, Crash(p)
  PROVE  Revisioned!Crash
<1> DEFINE dies == {u \in Updates : Home[u] = p /\ pc[u] \notin {"idle", "done"}}
           progress == [u \in Updates |-> Progress(u)]
           running == {u \in Updates : progress[u] \in {"compiled", "replaced"}}
<1>1. dies # {} /\ Published' = Published /\ copy' = copy
      /\ pc' = [u \in Updates |-> IF u \in dies THEN "done" ELSE pc[u]]
      /\ outcome' = [u \in Updates |-> IF u \in dies THEN "crashed" ELSE outcome[u]]
  BY DEF Crash, Published
<1>2. running = dies
  <2>1. \A u \in Updates : progress[u] \in {"compiled", "replaced"} <=> pc[u] \notin {"idle", "done"}
    BY DEF TypeOK, Progress
  <2>2. \A u \in Updates : pc[u] \notin {"idle", "done"} => u \in Made
    BY DEF OnlyMade
  <2>3. \A u, v \in Made : Home[u] = Home[v]
    BY DEF OneWriter
  <2> HIDE DEF progress
  <2>4. PICK w \in dies : TRUE
    BY <1>1
  <2>5. \A u \in Updates : pc[u] \notin {"idle", "done"} => Home[u] = p
    BY <2>2, <2>3, <2>4
  <2> QED
    BY <2>1, <2>5
<1>3. progress' = [u \in Updates |-> IF u \in dies THEN "done" ELSE progress[u]]
  BY <1>1 DEF Progress
<1>4. outcome' = [u \in Updates |-> IF u \in running THEN "crashed" ELSE outcome[u]]
      /\ progress' = [u \in Updates |-> IF u \in running THEN "done" ELSE progress[u]]
      /\ running # {}
  BY <1>1, <1>2, <1>3
<1> HIDE DEF dies
<1> QED
  BY <1>1, <1>4 DEF Revisioned!Crash

\* For the threads of one process, in any deployment, the store implements
\* RevisionedFile: callers see get and put as single steps, whatever the threads
\* interleave and wherever the process crashes.
THEOREM FileRefinesStore == Spec => StoreIsAtomic
<1>1. Init => Revisioned!Init
  BY DEF Init, Revisioned!Init, Revisioned!Absent, Absent, Published, Progress
<1>2. Init => OnlyMade
  BY DEF Init, OnlyMade
<1>3. TypeOK /\ Clean /\ Guarded /\ OnlyMade /\ [Next]_vars
        => [OneWriter => [Revisioned!Next]_(Revisioned!vars)]_vars
  <2> SUFFICES ASSUME TypeOK, Clean, Guarded, OnlyMade, [Next]_vars, OneWriter
               PROVE  Revisioned!Next \/ UNCHANGED Revisioned!vars
    OBVIOUS
  <2>1. Made \subseteq Updates
    <3>1. ASSUME NEW d \in Deployments PROVE d.made \subseteq Updates
      OBVIOUS
    <3> QED BY <3>1 DEF TypeOK
  <2>2. Serial
    BY DEF Guarded
  <2>3. ASSUME NEW u \in Made, Step(u) PROVE Revisioned!Next \/ UNCHANGED Revisioned!vars
    BY <2>1, <2>2, <2>3, StepRefines
  <2>4. ASSUME NEW p \in Processes, Crash(p) PROVE Revisioned!Next
    BY <2>4, CrashRefines DEF Revisioned!Next
  <2>5. CASE UNCHANGED vars
    BY <2>5 DEF vars, Revisioned!vars, Published, Progress
  <2> QED
    BY <2>3, <2>4, <2>5 DEF Next, Finished
<1> QED
  BY <1>1, <1>2, <1>3, StepOnlyMade, GuardedAlways, FileTypes, InitClean, StepClean, PTL
     DEF Spec, StoreIsAtomic
=============================================================================
