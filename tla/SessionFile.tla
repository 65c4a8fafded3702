---------------------------- MODULE SessionFile ----------------------------
(***************************************************************************)
(* One session kept as a JSON file, and the two programs that update it:   *)
(* JsonFileSessionStore (src/taskc/adapters/json_session.py), whose get    *)
(* and put hold a lock shared by the threads of one process, and the CLI   *)
(* (_write_session in src/taskc/cli.py), one process per command, which    *)
(* takes no lock and compares no revision.  Both write a temporary file of *)
(* the same name and rename it over the session file; a process may crash  *)
(* between any two of these steps.                                         *)
(*                                                                         *)
(* The file system is modelled by inodes: a name refers to an inode, a     *)
(* writer keeps the inode it opened even when the name moves on.           *)
(***************************************************************************)
EXTENDS Integers

CONSTANTS
  Updates,      \* the updates made: each reads, compiles and writes once
  Creator,      \* the update that creates the session (compile)
  Sensitive,    \* the updates whose session holds a sensitive literal
  Processes,    \* the processes that work on the file
  Deployments,  \* which updates are made, the home process of each, and those of
                \* them that are a CLI command of their own
  None,         \* no inode, no lock holder
  Empty, Torn   \* contents of an inode: truncated, and not a session

\* A whole session: its revision and the updates merged into it.
Content == [rev: Nat, updates: SUBSET Updates]

Absent == [rev |-> -1, updates |-> {}]

ASSUME SessionFileAssumption ==
  /\ Creator \in Updates
  /\ Sensitive \subseteq Updates
  /\ \A d \in Deployments :
       /\ d.made \subseteq Updates /\ Creator \in d.made /\ d.cli \subseteq d.made
       /\ d.home \in [Updates -> Processes]
  /\ None \notin Updates
  /\ {Empty, Torn} \cap (Content \cup {Absent}) = {}

VARIABLES
  deployment,   \* the deployment this run is of
  target,       \* the inode of <session>.json
  tmp,          \* the inode of <session>.json.tmp
  data,         \* inode -> its content; an inode is named by who created it
  handle,       \* update -> the inode it has open
  lock,         \* process -> the update holding the lock of the path
  pc, copy, outcome

vars == <<deployment, target, tmp, data, handle, lock, pc, copy, outcome>>

Made == deployment.made
Home == deployment.home
Cli == deployment.cli

\* What reading the session file yields.
Published == IF target = None THEN Absent ELSE data[target]

Init ==
  /\ deployment \in Deployments
  /\ target = None
  /\ tmp = None
  /\ data = [u \in Updates |-> Empty]
  /\ handle = [u \in Updates |-> None]
  /\ lock = [p \in Processes |-> None]
  /\ pc = [u \in Updates |-> "idle"]
  /\ copy = [u \in Updates |-> Absent]
  /\ outcome = [u \in Updates |-> "none"]

Goto(u, label) == pc' = [pc EXCEPT ![u] = label]

End(u, result) == Goto(u, "done") /\ outcome' = [outcome EXCEPT ![u] = result]

\* Faulty variant of LockIsFree: nobody waits for the lock.
NoLock(u) == TRUE

\* Only the store's updates wait for the lock of their process.
LockIsFree(u) == u \in Cli \/ lock[Home[u]] = None

-----------------------------------------------------------------------------
\* get, or the CLI's read_text: the update takes a copy and starts compiling.
\* The creator has nothing to read.
Read(u) ==
  /\ pc[u] = "idle"
  /\ LockIsFree(u)
  /\ IF u = Creator
     THEN target = None /\ copy' = copy /\ Goto(u, "compiled") /\ UNCHANGED outcome
     ELSE IF Published \in {Absent, Empty, Torn}
     THEN End(u, "unreadable") /\ UNCHANGED copy
     ELSE copy' = [copy EXCEPT ![u] = Published] /\ Goto(u, "compiled") /\ UNCHANGED outcome
  /\ UNCHANGED <<target, tmp, data, handle, lock>>

\* Faulty variant of HasSensitiveLiterals: the session is not searched.
NotSearched(u) == FALSE

\* session_contains_sensitive_literals on the session about to be written.
HasSensitiveLiterals(u) == u \in Sensitive

\* put and _write_session refuse a session with sensitive literals.
RefuseSensitive(u) ==
  /\ pc[u] = "compiled"
  /\ HasSensitiveLiterals(u)
  /\ End(u, "sensitive")
  /\ UNCHANGED <<target, tmp, data, handle, lock, copy>>

\* Faulty variant of SameRevision: any whole session may be replaced.
AnyRevision(u) == Published \notin {Empty, Torn}

\* put compares the stored revision with the expected one.
SameRevision(u) == Published \notin {Empty, Torn} /\ Published.rev = copy[u].rev

\* put, under the lock: the comparison succeeds.
Enter(u) ==
  /\ pc[u] = "compiled"
  /\ ~HasSensitiveLiterals(u)
  /\ u \notin Cli
  /\ LockIsFree(u)
  /\ SameRevision(u)
  /\ lock' = [lock EXCEPT ![Home[u]] = u]
  /\ Goto(u, "checked")
  /\ UNCHANGED <<target, tmp, data, handle, copy, outcome>>

\* put, under the lock: the comparison fails (or the file does not parse) and
\* the lock is released.
RefuseStale(u) ==
  /\ pc[u] = "compiled"
  /\ ~HasSensitiveLiterals(u)
  /\ u \notin Cli
  /\ LockIsFree(u)
  /\ ~SameRevision(u)
  /\ End(u, IF Published \in {Empty, Torn} THEN "unreadable" ELSE "stale_session")
  /\ UNCHANGED <<target, tmp, data, handle, lock, copy>>

\* _write_session goes on to the file at once.
EnterCli(u) ==
  /\ pc[u] = "compiled"
  /\ u \in Cli
  /\ ~HasSensitiveLiterals(u)
  /\ Goto(u, "checked")
  /\ UNCHANGED <<target, tmp, data, handle, lock, copy, outcome>>

\* Faulty variant of Open: the session file itself is truncated.
OpenInPlace(u) ==
  /\ pc[u] = "checked"
  /\ LET inode == IF target = None THEN u ELSE target IN
       /\ tmp' = inode
       /\ handle' = [handle EXCEPT ![u] = inode]
       /\ data' = [data EXCEPT ![inode] = Empty]
  /\ Goto(u, "open")
  /\ UNCHANGED <<target, lock, copy, outcome>>

\* write_text opens the temporary file: it is created, or truncated.
Open(u) ==
  /\ pc[u] = "checked"
  /\ LET inode == IF tmp = None THEN u ELSE tmp IN
       /\ tmp' = inode
       /\ handle' = [handle EXCEPT ![u] = inode]
       /\ data' = [data EXCEPT ![inode] = Empty]
  /\ Goto(u, "open")
  /\ UNCHANGED <<target, lock, copy, outcome>>

\* Faulty variant of NewContent: the revision is not incremented.
SameRevisionContent(u) == [rev |-> copy[u].rev, updates |-> copy[u].updates \cup {u}]

NewContent(u) == [rev |-> copy[u].rev + 1, updates |-> copy[u].updates \cup {u}]

\* write_text writes the session.  Over another writer's text of another
\* length the two mix.
Write(u) ==
  /\ pc[u] = "open"
  /\ \/ data' = [data EXCEPT ![handle[u]] = NewContent(u)]
     \/ data[handle[u]] # Empty /\ data' = [data EXCEPT ![handle[u]] = Torn]
  /\ Goto(u, "written")
  /\ UNCHANGED <<target, tmp, handle, lock, copy, outcome>>

\* Path.replace renames the temporary file over the session file.
Replace(u) ==
  /\ pc[u] = "written"
  /\ tmp # None
  /\ target' = tmp
  /\ tmp' = None
  /\ Goto(u, "replaced")
  /\ UNCHANGED <<data, handle, lock, copy, outcome>>

\* Faulty variant of Unlocked: the lock is kept.
StillLocked(u) == lock

\* Leaving the lock of the path.
Unlocked(u) == [lock EXCEPT ![Home[u]] = IF @ = u THEN None ELSE @]

\* The temporary file is gone: another writer has renamed it.
ReplaceFails(u) ==
  /\ pc[u] = "written"
  /\ tmp = None
  /\ End(u, "io_error")
  /\ lock' = Unlocked(u)
  /\ UNCHANGED <<target, tmp, data, handle, copy>>

\* The lock is released and the caller is told that its update is stored.
Acknowledge(u) ==
  /\ pc[u] = "replaced"
  /\ End(u, "ok")
  /\ lock' = Unlocked(u)
  /\ UNCHANGED <<target, tmp, data, handle, copy>>

\* A process dies with its threads and its locks; the files stay.
Crash(p) ==
  /\ \E u \in Updates : Home[u] = p /\ pc[u] \notin {"idle", "done"}
  /\ LET dies == {u \in Updates : Home[u] = p /\ pc[u] \notin {"idle", "done"}} IN
       /\ pc' = [u \in Updates |-> IF u \in dies THEN "done" ELSE pc[u]]
       /\ outcome' = [u \in Updates |-> IF u \in dies THEN "crashed" ELSE outcome[u]]
  /\ lock' = [lock EXCEPT ![p] = None]
  /\ UNCHANGED <<target, tmp, data, handle, copy>>

Step(u) ==
  \/ Read(u) \/ RefuseSensitive(u) \/ Enter(u) \/ RefuseStale(u) \/ EnterCli(u)
  \/ Open(u) \/ Write(u) \/ Replace(u) \/ ReplaceFails(u) \/ Acknowledge(u)

Finished == (\A u \in Made : pc[u] = "done") /\ UNCHANGED vars

Next ==
  \/ /\ (\E u \in Made : Step(u)) \/ (\E p \in Processes : Crash(p))
     /\ UNCHANGED deployment
  \/ Finished

Spec == Init /\ [][Next]_vars

\* A thread that can run does run: it waits for nothing but the lock.
FairSpec == Spec /\ \A u \in Updates : WF_vars(u \in Made /\ Step(u) /\ UNCHANGED deployment)

-----------------------------------------------------------------------------
(* Properties.                                                             *)

TypeOK ==
  /\ deployment \in Deployments
  /\ target \in Updates \cup {None}
  /\ tmp \in Updates \cup {None}
  /\ data \in [Updates -> Content \cup {Empty, Torn}]
  /\ handle \in [Updates -> Updates \cup {None}]
  /\ lock \in [Processes -> Updates \cup {None}]
  /\ pc \in [Updates -> {"idle", "compiled", "checked", "open", "written", "replaced", "done"}]
  /\ copy \in [Updates -> Content \cup {Absent}]
  /\ outcome \in [Updates -> {"none", "ok", "crashed", "stale_session", "sensitive",
                              "unreadable", "io_error"}]

\* The lock of the path reaches every writer: one process, and no command.
OneWriter == Cli = {} /\ \A u, v \in Made : Home[u] = Home[v]

\* Whoever reads the session file finds a whole session, even while another
\* thread writes or after a crash in the middle of writing.
FileIsWhole == OneWriter => Published \notin {Empty, Torn}

\* What the README says of any writers: an update that was acknowledged is in
\* the file, through later updates and through crashes.
AcknowledgedIsStored ==
  \A u \in Updates :
    (outcome[u] = "ok" /\ Published \notin {Empty, Torn}) => u \in Published.updates

\* It holds for the threads of one process.
AcknowledgedStaysStored == OneWriter => AcknowledgedIsStored

\* The file only moves to the next revision, by one update (which is what StoreIsAtomic
\* says of the file alone).
OneUpdateAtATime ==
  [][(OneWriter /\ Published' # Published) =>
       /\ Published' \notin {Empty, Torn}
       /\ Published'.rev = Published.rev + 1
       /\ \E u \in Updates \ Published.updates :
            Published'.updates = Published.updates \cup {u}]_vars

\* No file on disk, not even a temporary one, holds a sensitive literal.
SensitiveStaysInMemory ==
  \A i \in Updates : data[i] \notin {Empty, Torn} =>
    data[i].updates \cap Sensitive = {}

\* Whoever waits for the lock of a path waits for an update of its own process that is
\* between the comparison of revisions and the end of put: the lock is not left behind
\* by a failed rename, an acknowledgement or a crash, also where commands and other
\* processes write the same file.
LocksHaveHolders ==
  \A p \in Processes : lock[p] # None =>
    /\ lock[p] \in Made /\ Home[lock[p]] = p
    /\ pc[lock[p]] \in {"checked", "open", "written", "replaced"}

\* Every update ends, stored, refused or with its process, whoever else shares
\* the file: no lock stays held by a thread that is through.
UpdatesEnd == \A u \in Updates : <>(u \in Made => pc[u] = "done")

\* What an update has done as its caller sees it: nothing between the comparison of
\* revisions and the rename shows.
Progress(u) == IF pc[u] \in {"checked", "open", "written"} THEN "compiled" ELSE pc[u]

Revisioned == INSTANCE RevisionedFile WITH
  stored <- Published, held <- copy, stage <- [u \in Updates |-> Progress(u)]

\* For the threads of one process get and put are atomic: the lock, the temporary file
\* and the rename implement the comparison and the replacement as one step, through
\* every crash.  Each step of such a deployment is one of RevisionedFile or a stutter.
StoreIsAtomic ==
  /\ Revisioned!Init
  /\ [][OneWriter => [Revisioned!Next]_(Revisioned!vars)]_vars
=============================================================================
