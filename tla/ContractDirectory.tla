-------------------------- MODULE ContractDirectory --------------------------
(***************************************************************************)
(* A directory of contract files and who works on it: authors edit files,  *)
(* `taskfront contract migrate` rewrites them one after the other through  *)
(* a temporary file and may crash, and a host loads a catalog from them,   *)
(* file by file, and asks it for the active versions.  None of them locks  *)
(* the directory.                                                          *)
(***************************************************************************)
EXTENDS Versions

CONSTANTS Sources,       \* contract files of the directory
          Place,         \* the place of each in the order they are discovered
          OutputOf,      \* where `--output` puts the migrated copy of a source
          Drafts,        \* what an author may save in a file
          Configs,       \* provider kinds and allow_prerelease settings
          MaxBegun,      \* bound on the edits, migrations and loads together
          Absent, Broken,  \* no file; a file that does not parse
          Rootless,        \* a file that parses, but not to an object
          Torn             \* half a write

VARIABLES disk,       \* content of every path
          tmp,        \* content of its .tmp neighbour, which no discovery picks up
          origin,     \* history: what the author saved that the file stems from
          migration,  \* the migrate command
          host,       \* the process that loads and serves a catalog
          config,     \* its provider and configuration
          begun       \* edits, migrations and loads so far

vars == <<disk, tmp, origin, migration, host, config, begun>>

Paths == Sources \cup {OutputOf[p] : p \in Sources}

-----------------------------------------------------------------------------
(* Documents.  A document has one input, and a blocking constraint whose   *)
(* targets are named, given as an empty list, or not given at all.  Its    *)
(* schema is "other" when schema_version is missing or a third one.  The   *)
(* limit of the loader it exceeds, if any, is that of the file as it is    *)
(* ("over") and as it is once migrate has written it out ("rewritten").    *)

\* What the loader answers with: 2 MB of text, depth, nodes and elements.
Limits == {"none", "E-CONTRACT-006", "E-CONTRACT-007"}

Document == [schema : {"0.1", "0.2", "other"}, id : STRING, version : Version,
             must_be_explicit : BOOLEAN, sensitive : BOOLEAN,
             source_policy : {"any", "trusted", "user_confirmed"},
             classification : {"public", "sensitive", "secret"},
             targets : {"named", "empty", "unset"},
             over : Limits, rewritten : Limits]

NoDocument == {Absent, Broken, Rootless, Torn}

IsDocument(d) == d \notin NoDocument

Content == Document \cup NoDocument

ASSUME DirectoryAssumption ==
    /\ IsFiniteSet(Sources)
    /\ Place \in [Sources -> Nat]
    /\ \A p, q \in Sources : Place[p] = Place[q] => p = q
    /\ Drafts \subseteq Document \cup {Broken, Rootless}
    /\ Configs \subseteq [provider : {"static", "model"}, allow_prerelease : BOOLEAN]
    /\ MaxBegun \in Nat
    /\ NoDocument \cap Document = {}
    /\ Torn \notin {Absent, Broken, Rootless} /\ Absent \notin {Broken, Rootless} /\ Broken # Rootless

\* Faulty variant of Migrated: defaults are written without looking at the source version.
MigratedAgain(d) ==
    [d EXCEPT !.schema = "0.2",
              !.source_policy = IF d.must_be_explicit THEN "trusted" ELSE "any",
              !.classification = IF d.sensitive THEN "sensitive" ELSE "public",
              !.must_be_explicit = FALSE,
              !.sensitive = FALSE,
              !.targets = IF @ = "unset" THEN "empty" ELSE @,
              !.over = d.rewritten]

\* migrate_contract_data and the writing out: only 0.1 is touched, every file rewritten.
Migrated(d) ==
    IF d.schema # "0.1" THEN [d EXCEPT !.over = d.rewritten]
    ELSE [d EXCEPT !.schema = "0.2",
                   !.source_policy = IF d.must_be_explicit THEN "trusted" ELSE @,
                   !.classification = IF d.sensitive THEN "sensitive" ELSE @,
                   !.must_be_explicit = FALSE,
                   !.sensitive = FALSE,
                   !.targets = IF @ = "unset" THEN "empty" ELSE @,
                   !.over = d.rewritten]

\* The error diagnostics migration itself adds to the report.
MigrationFails(d) == d.schema # "0.1" \/ d.targets = "unset"

\* validate_contract_data: the code it raises.  Unknown keys and other schema
\* versions fail the JSON Schema, a blocking constraint without targets the model.
ValidationError(d) ==
    CASE d.schema # "0.2" \/ d.must_be_explicit \/ d.sensitive -> "E-CONTRACT-002"
      [] d.targets # "named" -> "E-CONTRACT-003"
      [] OTHER -> "none"

\* _parse_file, with the limits migrate does not apply, then validate_contract_data.
LoadError(d) ==
    CASE d = Rootless -> "E-CONTRACT-001"
      [] d \in {Absent, Broken, Torn} -> "E-CONTRACT-006"
      [] IsDocument(d) /\ d.over # "none" -> d.over
      [] OTHER -> ValidationError(d)

\* What a document asks to be protected, in any schema.
Protection(d) ==
    {x \in {"source", "class"} :
        \/ x = "source" /\ (d.must_be_explicit \/ d.source_policy # "any")
        \/ x = "class" /\ (d.sensitive \/ d.classification # "public")}

\* discover_contract_files on the directory: sorted, what exists now.
Discovered(files) == {p \in Sources : files[p] # Absent}

IsFirst(p, files) == p \in files /\ \A q \in files : Place[p] <= Place[q]

-----------------------------------------------------------------------------
(* Types and initial states: a directory as authors left it.               *)

MigrationIdle == [phase |-> "idle", mode |-> "in_place", todo |-> {}, path |-> Absent, doc |-> Absent,
                  stem |-> Absent, failures |-> 0, written |-> {}, touched |-> {}]

HostIdle == [phase |-> "idle", todo |-> {}, read |-> <<>>, found |-> 0, catalog |-> {},
             error |-> "none", answer |-> "none"]

Paused == {"idle", "done", "aborted", "crashed"}

MigrationType ==
    [phase : Paused \cup {"next", "opening", "filling", "replacing"}, mode : {"in_place", "output"},
     todo : SUBSET Sources, path : Sources \cup {Absent}, doc : Content, stem : Content,
     failures : Nat, written : SUBSET Paths, touched : SUBSET Paths]

HostType ==
    [phase : {"idle", "reading", "loaded", "failed"}, todo : SUBSET Sources, read : Seq(Document),
     found : Nat, catalog : SUBSET Document,
     error : {"none", "E-CONTRACT-001", "E-CONTRACT-002", "E-CONTRACT-003", "E-CONTRACT-004",
              "E-CONTRACT-006", "E-CONTRACT-007", "E-CONTRACT-008"},
     answer : {"none", "drafts", "unsupported", "E-PROVIDER-FAILURE"}]

\* Nothing but what these processes write is ever in these variables.
TypeOK ==
    /\ disk \in [Paths -> Content]
    /\ tmp \in [Paths -> Content]
    /\ origin \in [Paths -> Content]
    /\ migration \in MigrationType
    /\ host \in HostType
    /\ config \in Configs
    /\ begun \in 0 .. MaxBegun

Init ==
    /\ disk \in [Paths -> Drafts \cup {Absent}]
    /\ \A p \in Paths \ Sources : disk[p] = Absent
    /\ tmp = [p \in Paths |-> Absent]
    /\ origin = disk
    /\ migration = MigrationIdle
    /\ host = HostIdle
    /\ config \in Configs
    /\ begun = 0

-----------------------------------------------------------------------------
(* Authors.                                                                *)

Begin == begun < MaxBegun /\ begun' = begun + 1

\* An author saves or withdraws a file.
Edit(p, content) ==
    /\ content # disk[p]
    /\ Begin
    /\ disk' = [disk EXCEPT ![p] = content]
    /\ origin' = [origin EXCEPT ![p] = content]
    /\ migration' = [migration EXCEPT !.touched = @ \cup {p}]
    /\ UNCHANGED <<tmp, host, config>>

-----------------------------------------------------------------------------
(* taskfront contract migrate.                                             *)

Destination == IF migration.mode = "in_place" THEN migration.path ELSE OutputOf[migration.path]

StartMigration(mode) ==
    /\ migration.phase \in Paused
    /\ Begin
    /\ LET found == Discovered(disk) IN
         migration' = [MigrationIdle EXCEPT !.phase = IF found = {} THEN "done" ELSE "next",
                                            !.mode = mode, !.todo = found]
    /\ UNCHANGED <<disk, tmp, origin, host, config>>

\* read_text, the parse and the look at the root: a file withdrawn, broken or without
\* an object in it ends the command.
ReadSource ==
    /\ migration.phase = "next"
    /\ \E p \in migration.todo :
         /\ IsFirst(p, migration.todo)
         /\ migration' = IF IsDocument(disk[p])
                         THEN [migration EXCEPT !.phase = "opening", !.todo = @ \ {p}, !.path = p,
                                                !.doc = disk[p], !.stem = origin[p]]
                         ELSE [migration EXCEPT !.phase = "aborted"]
    /\ UNCHANGED <<disk, tmp, origin, host, config, begun>>

\* Faulty variant of OpenTemporary: the destination itself is opened for writing.
OpenDestination ==
    /\ migration.phase = "opening"
    /\ disk' = [disk EXCEPT ![Destination] = Torn]
    /\ migration' = [migration EXCEPT !.phase = "filling"]
    /\ UNCHANGED <<tmp, origin, host, config, begun>>

\* _write_migrated_file: the temporary file is created empty,
OpenTemporary ==
    /\ migration.phase = "opening"
    /\ tmp' = [tmp EXCEPT ![Destination] = Torn]
    /\ migration' = [migration EXCEPT !.phase = "filling"]
    /\ UNCHANGED <<disk, origin, host, config, begun>>

\* written,
FillTemporary ==
    /\ migration.phase = "filling"
    /\ tmp' = [tmp EXCEPT ![Destination] = Migrated(migration.doc)]
    /\ migration' = [migration EXCEPT !.phase = "replacing"]
    /\ UNCHANGED <<disk, origin, host, config, begun>>

\* Faulty variant of Failed: what the migrated document fails of is not counted.
FailedMigrationOnly(d) == d.schema # "0.1"

Failed(d) == MigrationFails(d) \/ ValidationError(Migrated(d)) # "none"

\* and put in place of the destination; then the document is validated and reported.
ReplaceDestination ==
    /\ migration.phase = "replacing"
    /\ disk' = [disk EXCEPT ![Destination] = tmp[Destination]]
    /\ tmp' = [tmp EXCEPT ![Destination] = Absent]
    /\ origin' = [origin EXCEPT ![Destination] = migration.stem]
    /\ migration' = [migration EXCEPT !.phase = IF migration.todo = {} THEN "done" ELSE "next",
                                      !.failures = @ + (IF Failed(migration.doc) THEN 1 ELSE 0),
                                      !.written = @ \cup {Destination},
                                      !.touched = @ \ {Destination}]
    /\ UNCHANGED <<host, config, begun>>

\* Killed between any two steps: the temporary file stays behind.
Crash ==
    /\ migration.phase \in {"next", "opening", "filling", "replacing"}
    /\ migration' = [migration EXCEPT !.phase = "crashed"]
    /\ UNCHANGED <<disk, tmp, origin, host, config, begun>>

Migrate ==
    \/ \E mode \in {"in_place", "output"} : StartMigration(mode)
    \/ ReadSource \/ OpenTemporary \/ FillTemporary \/ ReplaceDestination \/ Crash

-----------------------------------------------------------------------------
(* The host: load_catalog, then compilations.                              *)

LoadFails(code) == host' = [host EXCEPT !.phase = "failed", !.error = code, !.todo = {},
                                        !.read = <<>>, !.answer = "none"]

\* A load, or a reload beside the catalog that is being served.
StartLoad ==
    /\ host.phase # "reading"
    /\ Begin
    /\ LET found == Discovered(disk) IN
         host' = [host EXCEPT !.phase = IF found = {} THEN "failed" ELSE "reading",
                              !.error = IF found = {} THEN "E-CONTRACT-008" ELSE "none",
                              !.todo = found, !.read = <<>>, !.found = Cardinality(found),
                              !.answer = "none"]
    /\ UNCHANGED <<disk, tmp, origin, migration, config>>

\* Faulty variant of ReadContract: nothing is validated.
ReadContractUnvalidated ==
    /\ host.phase = "reading"
    /\ \E p \in host.todo :
         /\ IsFirst(p, host.todo)
         /\ host' = [host EXCEPT !.todo = @ \ {p}, !.read = Append(@, disk[p])]
    /\ UNCHANGED <<disk, tmp, origin, migration, config, begun>>

\* Faulty variant of ReadContract: a file that does not load is passed over.
ReadContractSkipping ==
    /\ host.phase = "reading"
    /\ \E p \in host.todo :
         /\ IsFirst(p, host.todo)
         /\ host' = [host EXCEPT !.todo = @ \ {p},
                                 !.read = IF LoadError(disk[p]) = "none" THEN Append(@, disk[p]) ELSE @]
    /\ UNCHANGED <<disk, tmp, origin, migration, config, begun>>

\* The next file is parsed and validated; the first failure ends the load.
ReadContract ==
    /\ host.phase = "reading"
    /\ \E p \in host.todo :
         /\ IsFirst(p, host.todo)
         /\ IF LoadError(disk[p]) = "none"
            THEN host' = [host EXCEPT !.todo = @ \ {p}, !.read = Append(@, disk[p])]
            ELSE LoadFails(LoadError(disk[p]))
    /\ UNCHANGED <<disk, tmp, origin, migration, config, begun>>

\* validate_catalog: an exact version appears once.
HasDuplicates(contracts) ==
    \E i, j \in DOMAIN contracts :
        /\ i < j
        /\ contracts[i].id = contracts[j].id
        /\ contracts[i].version = contracts[j].version

\* The catalog is built when every discovered file has been read.
BuildCatalog ==
    /\ host.phase = "reading"
    /\ host.todo = {}
    /\ IF HasDuplicates(host.read)
       THEN LoadFails("E-CONTRACT-004")
       ELSE host' = [host EXCEPT !.phase = "loaded", !.read = <<>>,
                                 !.catalog = {host.read[i] : i \in DOMAIN host.read}]
    /\ UNCHANGED <<disk, tmp, origin, migration, config, begun>>

\* The model provider lists the active contracts without the configured setting.
AllowsPrerelease == config.provider = "static" /\ config.allow_prerelease

\* What an interpretation without a requested capability ends in: resolve()'s
\* error is none of those the pipeline lets through, so it becomes a provider failure.
InterpretImplicit ==
    /\ host.phase = "loaded"
    /\ host' = [host EXCEPT !.answer =
                  IF SelectionRaises(host.catalog, AllowsPrerelease)
                  THEN "E-PROVIDER-FAILURE"
                  ELSE IF ActiveContracts(host.catalog, AllowsPrerelease) = {}
                       THEN "unsupported" ELSE "drafts"]
    /\ UNCHANGED <<disk, tmp, origin, migration, config, begun>>

Host == StartLoad \/ ReadContract \/ BuildCatalog \/ InterpretImplicit

-----------------------------------------------------------------------------
\* Every bound is used up and nobody has a step left.
Finished ==
    /\ begun = MaxBegun
    /\ migration.phase \in Paused
    /\ host.phase # "reading"
    /\ UNCHANGED vars

Next ==
    \/ \E p \in Sources, content \in Drafts \cup {Absent} : Edit(p, content)
    \/ Migrate
    \/ Host
    \/ Finished

Spec == Init /\ [][Next]_vars

-----------------------------------------------------------------------------
(* Properties.                                                             *)

\* However the migration, its crashes and reruns interleave with the authors, no
\* path ever shows half a document: a destination changes in one replace.
FileIsWhole == \A p \in Paths : disk[p] # Torn

\* A completed migration leaves no file it wrote at 0.1, and when it exits 0 each
\* of them is valid until an author touches it, also where runs were interrupted:
\* nothing but the loader's own limits, which the command never looks at, can then
\* keep the file from loading.
ReportAgreesWithLoad ==
    migration.phase = "done" =>
        \A p \in migration.written \ migration.touched :
            /\ IsDocument(disk[p]) => disk[p].schema # "0.1"
            /\ migration.failures = 0 =>
                 ValidationError(disk[p]) = "none" /\ LoadError(disk[p]) = disk[p].over

\* What the author marked must_be_explicit or sensitive stays so through any number
\* of migrations, also those that meet files an interrupted one has already migrated.
ProtectionSurvives ==
    \A p \in Paths :
        IsDocument(disk[p]) => Protection(origin[p]) \subseteq Protection(disk[p])

\* A catalog accounts for every file its load discovered: a load that runs into a
\* migration, an edit or a bad file gives no catalog rather than a part of one.
CatalogIsComplete == host.phase = "loaded" => Cardinality(host.catalog) = host.found

\* The ids whose implicit selection raises are among those lint_catalog warns of.
AmbiguityWasLinted ==
    \A id \in Ids(host.catalog) :
        IsAmbiguous(host.catalog, id, AllowsPrerelease) => id \in LintedIds(host.catalog)

\* A reload that only adds contracts never lowers the active version of an id.
NeverDowngraded ==
    [][host.catalog \subseteq host'.catalog =>
         \A id \in Ids(host.catalog) :
            \A c \in Active(host.catalog, id, AllowsPrerelease),
               d \in Active(host'.catalog, id, AllowsPrerelease) : ~Less(d.version, c.version)]_vars
=============================================================================
