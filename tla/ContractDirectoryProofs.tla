----------------------- MODULE ContractDirectoryProofs -----------------------
(***************************************************************************)
(* Machine-checked facts about the order of versions and the selection of  *)
(* the active one, for any identifiers and any finite catalog, and proofs  *)
(* about ContractDirectory: any number of files, documents, edits,         *)
(* migrations, crashes and loads.                                          *)
(***************************************************************************)
EXTENDS ContractDirectory, FiniteSetTheorems, WellFoundedInduction, TLAPS

Prerelease == Seq(Identifiers)

\* A catalog the loader can build.
IsCatalog(C) == IsFiniteSet(C) /\ \A c \in C : c.version \in Version

-----------------------------------------------------------------------------
(* Identifiers are strictly and totally ordered.                           *)

LEMMA IdentifierOrder ==
  /\ \A x \in Identifiers : ~IdentifierLess(x, x)
  /\ \A x, y, z \in Identifiers :
       IdentifierLess(x, y) /\ IdentifierLess(y, z) => IdentifierLess(x, z)
  /\ \A x, y \in Identifiers : x = y \/ IdentifierLess(x, y) \/ IdentifierLess(y, x)
<1> USE IdentifiersAssumption DEF IdentifierLess
<1>1. \A x \in Identifiers : ~IdentifierLess(x, x)
  OBVIOUS
<1>2. ASSUME NEW x \in Identifiers, NEW y \in Identifiers, NEW z \in Identifiers,
             IdentifierLess(x, y), IdentifierLess(y, z)
      PROVE  IdentifierLess(x, z)
  BY <1>2
<1>3. ASSUME NEW x \in Identifiers, NEW y \in Identifiers, x # y
      PROVE  IdentifierLess(x, y) \/ IdentifierLess(y, x)
  BY <1>3
<1> QED
  BY <1>1, <1>2, <1>3

-----------------------------------------------------------------------------
(* Lists of identifiers: the first difference decides, or the length does. *)

\* Two lists that are not prefixes of each other have a first difference.
LEMMA FirstDifferenceExists ==
  ASSUME NEW p \in Prerelease, NEW q \in Prerelease,
         ~IsPrefixOf(p, q), ~IsPrefixOf(q, p)
  PROVE  \E i \in 1 .. Len(p) : FirstDifference(p, q, i)
<1> DEFINE T == {i \in Nat : i \in 1 .. Len(p) /\ i \in 1 .. Len(q) /\ p[i] # q[i]}
<1>0. Len(p) \in Nat /\ Len(q) \in Nat
  BY DEF Prerelease
<1>1. T # {}
  <2>1. CASE Len(p) <= Len(q)
    <3>1. PICK j \in 1 .. Len(p) : p[j] # q[j]
      BY <2>1 DEF IsPrefixOf
    <3> QED
      BY <1>0, <2>1, <3>1
  <2>2. CASE Len(q) <= Len(p)
    <3>1. PICK j \in 1 .. Len(q) : p[j] # q[j]
      BY <2>2 DEF IsPrefixOf
    <3> QED
      BY <1>0, <2>2, <3>1
  <2> QED
    BY <1>0, <2>1, <2>2
<1>2. PICK m \in T : \A k \in T : <<k, m>> \notin OpToRel(<, Nat)
  <2>1. T \subseteq Nat
    OBVIOUS
  <2> QED
    BY <1>1, <2>1, NatLessThanWellFounded, WFMin, Zenon
<1>3. \A k \in T : ~(k < m)
  BY <1>2, Zenon DEF OpToRel
<1> QED
  BY <1>0, <1>3 DEF FirstDifference

LEMMA PrereleaseTotal ==
  ASSUME NEW p \in Prerelease, NEW q \in Prerelease
  PROVE  p = q \/ PrereleaseLess(p, q) \/ PrereleaseLess(q, p)
<1>0. Len(p) \in Nat /\ Len(q) \in Nat
  BY DEF Prerelease
<1>1. CASE IsPrefixOf(p, q)
  <2>1. CASE Len(p) < Len(q)
    BY <1>1, <2>1 DEF PrereleaseLess
  <2>2. CASE Len(p) = Len(q)
    BY <1>1, <2>2 DEF IsPrefixOf, Prerelease
  <2> QED
    BY <1>0, <1>1, <2>1, <2>2 DEF IsPrefixOf
<1>2. CASE IsPrefixOf(q, p)
  <2>1. CASE Len(q) < Len(p)
    BY <1>2, <2>1 DEF PrereleaseLess
  <2>2. CASE Len(p) = Len(q)
    BY <1>2, <2>2 DEF IsPrefixOf, Prerelease
  <2> QED
    BY <1>0, <1>2, <2>1, <2>2 DEF IsPrefixOf
<1>3. CASE ~IsPrefixOf(p, q) /\ ~IsPrefixOf(q, p)
  <2>1. PICK i \in 1 .. Len(p) : FirstDifference(p, q, i)
    BY <1>3, FirstDifferenceExists
  <2>2. i \in 1 .. Len(q) /\ FirstDifference(q, p, i)
    BY <2>1 DEF FirstDifference
  <2>3. p[i] \in Identifiers /\ q[i] \in Identifiers /\ p[i] # q[i]
    BY <2>1, <2>2 DEF FirstDifference, Prerelease
  <2>4. IdentifierLess(p[i], q[i]) \/ IdentifierLess(q[i], p[i])
    BY <2>3, IdentifierOrder
  <2> QED
    BY <2>1, <2>2, <2>4 DEF PrereleaseLess
<1> QED
  BY <1>1, <1>2, <1>3

LEMMA PrereleaseIrreflexive == ASSUME NEW p \in Prerelease PROVE ~PrereleaseLess(p, p)
  BY DEF PrereleaseLess, FirstDifference, Prerelease

LEMMA PrereleaseTransitive ==
  ASSUME NEW p \in Prerelease, NEW q \in Prerelease, NEW r \in Prerelease,
         PrereleaseLess(p, q), PrereleaseLess(q, r)
  PROVE  PrereleaseLess(p, r)
<1>0. Len(p) \in Nat /\ Len(q) \in Nat /\ Len(r) \in Nat
  BY DEF Prerelease
<1>1. ASSUME NEW i \in 1 .. Len(p), FirstDifference(p, q, i), IdentifierLess(p[i], q[i]),
             NEW j \in 1 .. Len(q), FirstDifference(q, r, j), IdentifierLess(q[j], r[j])
      PROVE  PrereleaseLess(p, r)
  <2>0. /\ i \in 1 .. Len(q) /\ \A k \in 1 .. (i - 1) : p[k] = q[k]
        /\ j \in 1 .. Len(r) /\ \A k \in 1 .. (j - 1) : q[k] = r[k]
    BY <1>1 DEF FirstDifference
  <2>1. CASE i < j
    <3>1. q[i] = r[i] /\ i \in 1 .. Len(r) /\ \A k \in 1 .. (i - 1) : p[k] = r[k]
      BY <1>0, <2>0, <2>1
    <3> QED
      BY <1>1, <3>1 DEF PrereleaseLess, FirstDifference
  <2>2. CASE j < i
    <3>1. /\ p[j] = q[j] /\ j \in 1 .. Len(p) /\ q[j] # r[j]
          /\ \A k \in 1 .. (j - 1) : p[k] = r[k]
      BY <1>0, <1>1, <2>0, <2>2 DEF FirstDifference
    <3> QED
      BY <1>1, <2>0, <3>1 DEF PrereleaseLess, FirstDifference
  <2>3. CASE i = j
    <3>1. p[i] \in Identifiers /\ q[i] \in Identifiers /\ r[i] \in Identifiers
      BY <2>0, <2>3 DEF Prerelease
    <3>2. IdentifierLess(p[i], r[i]) /\ p[i] # r[i]
      BY <1>1, <2>3, <3>1, IdentifierOrder
    <3>3. i \in 1 .. Len(r) /\ \A k \in 1 .. (i - 1) : p[k] = r[k]
      BY <1>0, <2>0, <2>3
    <3> QED
      BY <3>2, <3>3 DEF PrereleaseLess, FirstDifference
  <2> QED
    BY <1>0, <2>1, <2>2, <2>3
<1>2. ASSUME NEW i \in 1 .. Len(p), FirstDifference(p, q, i), IdentifierLess(p[i], q[i]),
             IsPrefixOf(q, r)
      PROVE  PrereleaseLess(p, r)
  <2>1. i \in 1 .. Len(r) /\ q[i] = r[i] /\ \A k \in 1 .. (i - 1) : p[k] = r[k]
    BY <1>0, <1>2 DEF FirstDifference, IsPrefixOf
  <2> QED
    BY <1>2, <2>1 DEF PrereleaseLess, FirstDifference
<1>3. ASSUME IsPrefixOf(p, q), Len(p) < Len(q),
             NEW j \in 1 .. Len(q), FirstDifference(q, r, j), IdentifierLess(q[j], r[j])
      PROVE  PrereleaseLess(p, r)
  <2>1. CASE j <= Len(p)
    <3>1. j \in 1 .. Len(p) /\ p[j] = q[j] /\ \A k \in 1 .. (j - 1) : p[k] = r[k]
      BY <1>0, <1>3, <2>1 DEF FirstDifference, IsPrefixOf
    <3> QED
      BY <1>3, <3>1 DEF PrereleaseLess, FirstDifference
  <2>2. CASE Len(p) < j
    <3>1. Len(p) < Len(r) /\ \A k \in 1 .. Len(p) : p[k] = r[k]
      BY <1>0, <1>3, <2>2 DEF FirstDifference, IsPrefixOf
    <3> QED
      BY <1>0, <3>1 DEF PrereleaseLess, IsPrefixOf
  <2> QED
    BY <1>0, <2>1, <2>2
<1>4. ASSUME IsPrefixOf(p, q), Len(p) < Len(q), IsPrefixOf(q, r), Len(q) < Len(r)
      PROVE  PrereleaseLess(p, r)
  BY <1>0, <1>4 DEF PrereleaseLess, IsPrefixOf
<1> QED
  BY <1>1, <1>2, <1>3, <1>4 DEF PrereleaseLess

-----------------------------------------------------------------------------
(* The order of versions.                                                  *)

\* Precedence is a strict order, and two versions neither of which precedes the
\* other differ at most in build metadata: __lt__ orders versions as SemVer does.
THEOREM PrecedenceIsTotal ==
  /\ \A v \in Version : ~Less(v, v)
  /\ \A u, v, w \in Version : Less(u, v) /\ Less(v, w) => Less(u, w)
  /\ \A v, w \in Version : SamePrecedence(v, w) <=> SameCore(v, w) /\ v.pre = w.pre
<1>0. \A v \in Version : /\ v.major \in Nat /\ v.minor \in Nat /\ v.patch \in Nat
                         /\ v.pre \in Prerelease /\ <<>> \in Prerelease
  BY DEF Version, Prerelease
<1>1. ASSUME NEW v \in Version PROVE ~Less(v, v)
  BY <1>0, PrereleaseIrreflexive DEF Less, CoreLess, SameCore, Stable
<1>2. ASSUME NEW u \in Version, NEW v \in Version, NEW w \in Version, Less(u, v), Less(v, w)
      PROVE  Less(u, w)
  <2>1. CASE CoreLess(u, v) \/ CoreLess(v, w)
    BY <1>0, <1>2, <2>1 DEF Less, CoreLess, SameCore
  <2>2. CASE SameCore(u, v) /\ SameCore(v, w)
    <3>1. SameCore(u, w) /\ ~Stable(u) /\ ~Stable(v)
      BY <1>0, <1>2, <2>2 DEF Less, CoreLess, SameCore
    <3>2. CASE Stable(w)
      BY <3>1, <3>2 DEF Less
    <3>3. CASE ~Stable(w)
      <4>1. PrereleaseLess(u.pre, v.pre) /\ PrereleaseLess(v.pre, w.pre)
        BY <1>0, <1>2, <2>2, <3>1, <3>3 DEF Less, CoreLess, SameCore
      <4>2. PrereleaseLess(u.pre, w.pre)
        BY <1>0, <4>1, PrereleaseTransitive
      <4> QED
        BY <3>1, <4>2 DEF Less
    <3> QED
      BY <3>2, <3>3
  <2> QED
    BY <1>2, <2>1, <2>2 DEF Less
<1>3. ASSUME NEW v \in Version, NEW w \in Version, SamePrecedence(v, w)
      PROVE  SameCore(v, w) /\ v.pre = w.pre
  <2>1. SameCore(v, w) /\ SameCore(w, v)
    BY <1>0, <1>3 DEF SamePrecedence, Less, CoreLess, SameCore
  <2>2. CASE Stable(v) \/ Stable(w)
    BY <1>3, <2>1, <2>2 DEF SamePrecedence, Less, Stable
  <2>3. CASE ~Stable(v) /\ ~Stable(w)
    BY <1>0, <1>3, <2>1, <2>3, PrereleaseTotal DEF SamePrecedence, Less
  <2> QED
    BY <2>1, <2>2, <2>3
<1>4. ASSUME NEW v \in Version, NEW w \in Version, SameCore(v, w), v.pre = w.pre
      PROVE  SamePrecedence(v, w)
  BY <1>0, <1>4, PrereleaseIrreflexive DEF SamePrecedence, Less, CoreLess, SameCore, Stable
<1> QED
  BY <1>1, <1>2, <1>3, <1>4

\* What equal precedence is compared with stays the same.
LEMMA SamePrecedenceCongruence ==
  ASSUME NEW u \in Version, NEW v \in Version, NEW w \in Version, SamePrecedence(u, v)
  PROVE  /\ Less(u, w) <=> Less(v, w)
         /\ Less(w, u) <=> Less(w, v)
         /\ SamePrecedence(u, w) <=> SamePrecedence(v, w)
<1>1. SameCore(u, v) /\ u.pre = v.pre
  BY PrecedenceIsTotal
<1>2. Less(u, w) <=> Less(v, w)
  BY <1>1 DEF Less, CoreLess, SameCore, Stable
<1>3. Less(w, u) <=> Less(w, v)
  BY <1>1 DEF Less, CoreLess, SameCore, Stable
<1> QED
  BY <1>2, <1>3 DEF SamePrecedence

-----------------------------------------------------------------------------
(* The selection of the active version.                                    *)

\* A finite set of contracts that is not empty has one of highest precedence.
LEMMA HighestExists ==
  ASSUME NEW E, IsCatalog(E), E # {}
  PROVE  \E c \in E : IsHighest(E, c)
<1> DEFINE Above(c) == {d \in E : Less(c.version, d.version)}
<1> DEFINE Sizes == {Cardinality(Above(c)) : c \in E}
<1>1. \A c \in E : IsFiniteSet(Above(c)) /\ Cardinality(Above(c)) \in Nat
  <2> TAKE c \in E
  <2>1. Above(c) \subseteq E /\ IsFiniteSet(E)
    BY DEF IsCatalog
  <2>2. IsFiniteSet(Above(c))
    BY <2>1, FS_Subset
  <2> QED
    BY <2>2, FS_CardinalityType
<1>2. Sizes \subseteq Nat /\ Sizes # {}
  BY <1>1
<1>3. PICK m \in Sizes : \A k \in Sizes : ~(k < m)
  <2> HIDE DEF Sizes
  <2>1. PICK m \in Sizes : \A k \in Sizes : <<k, m>> \notin OpToRel(<, Nat)
    BY <1>2, NatLessThanWellFounded, WFMin, Zenon
  <2> QED
    BY <1>2, <2>1, Zenon DEF OpToRel
<1>4. PICK c \in E : m = Cardinality(Above(c))
  BY <1>3
<1>5. ASSUME NEW d \in E, Less(c.version, d.version) PROVE FALSE
  <2>1. /\ c.version \in Version /\ d.version \in Version
        /\ \A e \in E : e.version \in Version
    BY DEF IsCatalog
  <2>2. Above(d) \subseteq Above(c)
    BY <1>5, <2>1, PrecedenceIsTotal
  <2>3. d \in Above(c) /\ d \notin Above(d)
    BY <1>5, <2>1, PrecedenceIsTotal
  <2>4. Cardinality(Above(d)) < Cardinality(Above(c))
    <3>1. Above(d) # Above(c)
      BY <2>3
    <3>2. /\ IsFiniteSet(Above(c)) /\ Above(d) \in SUBSET Above(c)
          /\ Cardinality(Above(c)) \in Nat /\ Cardinality(Above(d)) \in Nat
      BY <1>1, <2>2
    <3> HIDE DEF Above
    <3>3. /\ Cardinality(Above(d)) <= Cardinality(Above(c))
          /\ Cardinality(Above(d)) = Cardinality(Above(c)) => Above(d) = Above(c)
      BY <3>2, FS_Subset
    <3> QED
      BY <3>1, <3>2, <3>3
  <2>5. Cardinality(Above(d)) \in Sizes /\ Cardinality(Above(d)) \in Nat
    BY <1>1
  <2> QED
    BY <1>3, <1>4, <2>4, <2>5
<1> QED
  BY <1>5 DEF IsHighest

LEMMA EligibleIsCatalog ==
  ASSUME NEW C, IsCatalog(C), NEW id, NEW allow
  PROVE  IsCatalog(Eligible(C, id, allow)) /\ Eligible(C, id, allow) \subseteq C
<1>1. Eligible(C, id, allow) \subseteq C
  BY DEF Eligible
<1> QED
  BY <1>1, FS_Subset DEF IsCatalog

\* The winners are the contracts of highest precedence: never none of them.
LEMMA WinnersAreHighest ==
  ASSUME NEW E, IsCatalog(E), E # {}
  PROVE  /\ Winners(E) # {}
         /\ \A c \in Winners(E) : IsHighest(E, c)
<1>1. Best(E) \in E /\ IsHighest(E, Best(E))
  BY HighestExists DEF Best
<1>2. SamePrecedence(Best(E).version, Best(E).version)
  BY <1>1, PrecedenceIsTotal DEF IsCatalog, SamePrecedence
<1>3. ASSUME NEW c \in Winners(E), NEW d \in E PROVE ~Less(c.version, d.version)
  <2>1. /\ c.version \in Version /\ d.version \in Version /\ Best(E).version \in Version
        /\ SamePrecedence(c.version, Best(E).version)
    BY <1>1, <1>3 DEF IsCatalog, Winners
  <2> QED
    BY <1>1, <2>1, SamePrecedenceCongruence DEF IsHighest
<1> QED
  BY <1>1, <1>2, <1>3 DEF Winners, IsHighest

\* A catalog that grows never lowers an active version: what resolve() returns for
\* the larger catalog is not below what it returned for the smaller one.
THEOREM GrowingNeverDowngrades ==
  ASSUME NEW C, NEW D, IsCatalog(C), IsCatalog(D), C \subseteq D,
         NEW id, NEW allow \in BOOLEAN,
         NEW c \in Active(C, id, allow), NEW d \in Active(D, id, allow)
  PROVE  ~Less(d.version, c.version)
<1>1. c \in Eligible(D, id, allow) /\ d \in Eligible(D, id, allow)
  BY DEF Active, Winners, Eligible
<1>2. IsHighest(Eligible(D, id, allow), d)
  BY <1>1, EligibleIsCatalog, WinnersAreHighest DEF Active
<1> QED
  BY <1>1, <1>2 DEF IsHighest

\* Whatever the rest of the catalog holds, lint_catalog warns of the id whose
\* implicit selection resolve() refuses.
THEOREM AmbiguityIsLinted ==
  ASSUME NEW C, IsCatalog(C), NEW id, NEW allow \in BOOLEAN, IsAmbiguous(C, id, allow)
  PROVE  id \in LintedIds(C)
<1> DEFINE E == Eligible(C, id, allow)
<1>1. PICK c \in Winners(E), d \in Winners(E) : c.version # d.version
  BY DEF IsAmbiguous
<1>2. /\ IsCatalog(E) /\ E \subseteq C /\ c \in E /\ d \in E
      /\ SamePrecedence(c.version, Best(E).version)
      /\ SamePrecedence(d.version, Best(E).version)
  BY EligibleIsCatalog DEF Winners
<1>3. Best(E) \in E
  BY <1>2, HighestExists DEF Best
<1>4. SamePrecedence(c.version, d.version)
  BY <1>2, <1>3, SamePrecedenceCongruence DEF IsCatalog, SamePrecedence
<1>5. c.id = id /\ d.id = id
  BY <1>2 DEF Eligible
<1> QED
  BY <1>1, <1>2, <1>4, <1>5 DEF LintedIds, EqualPrecedencePair

-----------------------------------------------------------------------------
(* The invariant of the directory.                                          *)

Working == {"opening", "filling", "replacing"}

\* What the migration holds between its read and its replace: a document that
\* protects what its author asked for, and at the end its migrated copy.
MigrationHolds ==
  migration.phase \in Working =>
    /\ migration.path \in Sources
    /\ migration.doc \in Document
    /\ migration.stem \in Document
    /\ Protection(migration.stem) \subseteq Protection(migration.doc)
    /\ migration.phase = "replacing" => tmp[Destination] = Migrated(migration.doc)

\* A document stems from a document.
StemsFromDocument == \A p \in Paths : IsDocument(disk[p]) => origin[p] \in Document

\* A file the running migration has replaced, and nobody has touched since.
Replaced ==
  \A p \in migration.written \ migration.touched :
    /\ disk[p] \in Document
    /\ disk[p].schema # "0.1"
    /\ migration.failures = 0 => ValidationError(disk[p]) = "none"

CatalogIsFinite == IsFiniteSet(host.catalog)

Inv ==
  /\ TypeOK
  /\ MigrationHolds
  /\ StemsFromDocument
  /\ Replaced
  /\ FileIsWhole
  /\ ProtectionSurvives
  /\ CatalogIsFinite

-----------------------------------------------------------------------------
(* What migration does to one document.                                     *)

LEMMA DocumentIsDocument == \A d \in Document : IsDocument(d)
  BY DirectoryAssumption DEF IsDocument, NoDocument

\* The loader accepts only documents, and names an error for the rest.
LEMMA ContentLoads ==
  ASSUME NEW d \in Content
  PROVE  /\ LoadError(d) = "none" => d \in Document
         /\ LoadError(d) \in {"none", "E-CONTRACT-001", "E-CONTRACT-002", "E-CONTRACT-003",
                              "E-CONTRACT-006", "E-CONTRACT-007"}
<1>1. CASE d \in Document
  <2>1. d.over \in Limits
    BY <1>1 DEF Document
  <2>2. d \notin NoDocument
    BY <1>1, DocumentIsDocument DEF IsDocument, NoDocument
  <2> QED
    BY <1>1, <2>1, <2>2 DEF LoadError, ValidationError, Limits, NoDocument, IsDocument
<1>2. CASE d \in NoDocument
  BY <1>2, DirectoryAssumption DEF LoadError, IsDocument, NoDocument
<1> QED
  BY <1>1, <1>2 DEF Content, NoDocument

\* It stays a document, not at 0.1, loses no protection, and is valid if reported so.
LEMMA MigratedDocument ==
  ASSUME NEW d \in Document
  PROVE  /\ Migrated(d) \in Document
         /\ Migrated(d).schema # "0.1"
         /\ Protection(d) \subseteq Protection(Migrated(d))
         /\ ~Failed(d) => ValidationError(Migrated(d)) = "none"
<1>1. Migrated(d) \in Document
  BY DEF Migrated, Document, Limits
<1>2. Migrated(d).schema # "0.1"
  BY DEF Migrated, Document
<1>3. Protection(d) \subseteq Protection(Migrated(d))
  BY DEF Migrated, Document, Protection
<1>4. ~Failed(d) => ValidationError(Migrated(d)) = "none"
  BY DEF Failed
<1> QED
  BY <1>1, <1>2, <1>3, <1>4

LEMMA DestinationIsPath ==
  ASSUME TypeOK, migration.path \in Sources
  PROVE  Destination \in Paths
  BY DEF Destination, Paths

LEMMA InitInv == Init => Inv
<1> SUFFICES ASSUME Init PROVE Inv
  OBVIOUS
<1>1. TypeOK
  BY DirectoryAssumption DEF Init, TypeOK, Content, NoDocument, MigrationType, Paused, HostType, MigrationIdle, HostIdle
<1>2. MigrationHolds /\ Replaced
  BY DEF Init, MigrationHolds, Replaced, MigrationIdle, Working
<1>3. StemsFromDocument /\ FileIsWhole /\ ProtectionSurvives
  BY DirectoryAssumption, DocumentIsDocument
     DEF Init, StemsFromDocument, FileIsWhole, ProtectionSurvives, IsDocument, NoDocument
<1>4. CatalogIsFinite
  BY FS_EmptySet DEF Init, CatalogIsFinite, HostIdle
<1> QED
  BY <1>1, <1>2, <1>3, <1>4 DEF Inv

-----------------------------------------------------------------------------
(* Authors.                                                                 *)

LEMMA EditStep ==
  ASSUME Inv, NEW p \in Sources, NEW content \in Drafts \cup {Absent}, Edit(p, content)
  PROVE  Inv'
<1> USE DEF Edit, Begin
<1>0. p \in Paths /\ content \in Content /\ content # Torn
  BY DirectoryAssumption, DocumentIsDocument DEF Paths, Content, NoDocument, IsDocument
<1>1. TypeOK'
  <2>1. disk' \in [Paths -> Content] /\ origin' \in [Paths -> Content]
    BY <1>0 DEF Inv, TypeOK
  <2>2. migration' \in MigrationType
    BY <1>0 DEF Inv, TypeOK, MigrationType
  <2>3. begun' \in 0 .. MaxBegun
    BY DirectoryAssumption DEF Inv, TypeOK
  <2> QED
    BY <2>1, <2>2, <2>3 DEF Inv, TypeOK
<1>2. MigrationHolds'
  BY DEF Inv, TypeOK, MigrationType, MigrationHolds, Destination
<1>3. StemsFromDocument' /\ FileIsWhole' /\ ProtectionSurvives'
  BY <1>0 DEF Inv, TypeOK, StemsFromDocument, FileIsWhole, ProtectionSurvives, IsDocument, Content, NoDocument
<1>4. Replaced'
  BY DEF Inv, TypeOK, MigrationType, Replaced
<1>5. CatalogIsFinite'
  BY DEF Inv, CatalogIsFinite
<1> QED
  BY <1>1, <1>2, <1>3, <1>4, <1>5 DEF Inv

-----------------------------------------------------------------------------
(* The migration.                                                           *)

LEMMA StartMigrationStep ==
  ASSUME Inv, NEW mode \in {"in_place", "output"}, StartMigration(mode)
  PROVE  Inv'
<1> USE DEF StartMigration, Begin, MigrationIdle
<1>1. TypeOK'
  <2>1. Discovered(disk) \subseteq Sources
    BY DEF Discovered
  <2>2. migration' \in MigrationType
    BY <2>1 DEF MigrationType, Content, NoDocument, Paused
  <2>3. begun' \in 0 .. MaxBegun
    BY DirectoryAssumption DEF Inv, TypeOK
  <2> QED
    BY <2>2, <2>3 DEF Inv, TypeOK
<1>2. MigrationHolds' /\ Replaced'
  BY DEF MigrationHolds, Replaced, Working
<1>3. StemsFromDocument' /\ FileIsWhole' /\ ProtectionSurvives' /\ CatalogIsFinite'
  BY DEF Inv, StemsFromDocument, FileIsWhole, ProtectionSurvives, CatalogIsFinite
<1> QED
  BY <1>1, <1>2, <1>3 DEF Inv

LEMMA ReadSourceStep == ASSUME Inv, ReadSource PROVE Inv'
<1> USE DEF ReadSource
<1>1. PICK p \in migration.todo :
        migration' = IF IsDocument(disk[p])
                     THEN [migration EXCEPT !.phase = "opening", !.todo = @ \ {p}, !.path = p,
                                            !.doc = disk[p], !.stem = origin[p]]
                     ELSE [migration EXCEPT !.phase = "aborted"]
  OBVIOUS
<1>2. p \in Sources /\ p \in Paths
  BY DEF Inv, TypeOK, MigrationType, Paths
<1>3. IsDocument(disk[p]) =>
        disk[p] \in Document /\ origin[p] \in Document /\ Protection(origin[p]) \subseteq Protection(disk[p])
  BY <1>2 DEF Inv, TypeOK, Content, NoDocument, IsDocument, StemsFromDocument, ProtectionSurvives
<1>4. TypeOK'
  <2>1. migration' \in MigrationType
    BY <1>1, <1>2, <1>3 DEF Inv, TypeOK, MigrationType, Paused, Content, NoDocument
  <2> QED
    BY <2>1 DEF Inv, TypeOK
<1>5. MigrationHolds'
  <2>1. CASE IsDocument(disk[p])
    BY <2>1, <1>1, <1>2, <1>3 DEF Inv, TypeOK, MigrationType, MigrationHolds, Working
  <2>2. CASE ~IsDocument(disk[p])
    BY <2>2, <1>1 DEF Inv, TypeOK, MigrationType, MigrationHolds, Working
  <2> QED
    BY <2>1, <2>2
<1>6. Replaced'
  BY <1>1 DEF Inv, TypeOK, MigrationType, Replaced
<1>7. StemsFromDocument' /\ FileIsWhole' /\ ProtectionSurvives' /\ CatalogIsFinite'
  BY DEF Inv, StemsFromDocument, FileIsWhole, ProtectionSurvives, CatalogIsFinite
<1> QED
  BY <1>4, <1>5, <1>6, <1>7 DEF Inv

LEMMA TemporaryStep == ASSUME Inv, OpenTemporary \/ FillTemporary PROVE Inv'
<1>1. migration.path \in Sources /\ migration.doc \in Document /\ Destination \in Paths
  BY DestinationIsPath DEF Inv, MigrationHolds, Working, OpenTemporary, FillTemporary
<1>2. Migrated(migration.doc) \in Document
  BY <1>1, MigratedDocument
<1>3. TypeOK'
  <2>1. CASE OpenTemporary
    <3>1. tmp' \in [Paths -> Content] /\ migration' \in MigrationType
      BY <2>1, <1>1 DEF Inv, TypeOK, OpenTemporary, Content, NoDocument, MigrationType, Paused
    <3> QED
      BY <3>1, <2>1 DEF Inv, TypeOK, OpenTemporary
  <2>2. CASE FillTemporary
    <3>1. tmp' \in [Paths -> Content] /\ migration' \in MigrationType
      BY <2>2, <1>1, <1>2 DEF Inv, TypeOK, FillTemporary, Content, NoDocument, MigrationType, Paused
    <3> QED
      BY <3>1, <2>2 DEF Inv, TypeOK, FillTemporary
  <2> QED
    BY <2>1, <2>2
<1>4. MigrationHolds'
  <2>1. CASE OpenTemporary
    BY <2>1 DEF Inv, TypeOK, MigrationType, MigrationHolds, Working, OpenTemporary
  <2>2. CASE FillTemporary
    <3>1. Destination' = Destination /\ tmp'[Destination] = Migrated(migration.doc)
      BY <2>2, <1>1 DEF Inv, TypeOK, MigrationType, Destination, FillTemporary
    <3> QED
      BY <3>1, <2>2 DEF Inv, TypeOK, MigrationType, MigrationHolds, Working, FillTemporary
  <2> QED
    BY <2>1, <2>2
<1>5. Replaced'
  BY DEF Inv, TypeOK, MigrationType, Replaced, OpenTemporary, FillTemporary
<1>6. StemsFromDocument' /\ FileIsWhole' /\ ProtectionSurvives' /\ CatalogIsFinite'
  BY DEF Inv, StemsFromDocument, FileIsWhole, ProtectionSurvives, CatalogIsFinite,
         OpenTemporary, FillTemporary
<1> QED
  BY <1>3, <1>4, <1>5, <1>6 DEF Inv

LEMMA ReplaceStep == ASSUME Inv, ReplaceDestination PROVE Inv'
<1> USE DEF ReplaceDestination
<1> DEFINE d == migration.doc
<1>1. /\ d \in Document /\ migration.stem \in Document /\ Destination \in Paths
      /\ tmp[Destination] = Migrated(d) /\ Protection(migration.stem) \subseteq Protection(d)
  BY DestinationIsPath DEF Inv, MigrationHolds, Working
<1>2. /\ Migrated(d) \in Document /\ Migrated(d).schema # "0.1"
      /\ Protection(migration.stem) \subseteq Protection(Migrated(d))
      /\ ~Failed(d) => ValidationError(Migrated(d)) = "none"
      /\ Migrated(d) # Torn
  BY <1>1, MigratedDocument, DocumentIsDocument DEF IsDocument, NoDocument
<1>3. disk' = [disk EXCEPT ![Destination] = Migrated(d)]
  BY <1>1
<1>4. TypeOK'
  <2>1. disk' \in [Paths -> Content] /\ tmp' \in [Paths -> Content] /\ origin' \in [Paths -> Content]
    BY <1>1, <1>2, <1>3 DEF Inv, TypeOK, Content, NoDocument
  <2> DEFINE phase == IF migration.todo = {} THEN "done" ELSE "next"
             failures == migration.failures + (IF Failed(d) THEN 1 ELSE 0)
             written == migration.written \cup {Destination}
             touched == migration.touched \ {Destination}
  <2>2. /\ migration \in MigrationType /\ phase \in {"done", "next"} /\ failures \in Nat
        /\ written \in SUBSET Paths /\ touched \in SUBSET Paths
    BY <1>1 DEF Inv, TypeOK, MigrationType
  <2>3. migration' = [migration EXCEPT !.phase = phase, !.failures = failures,
                                       !.written = written, !.touched = touched]
    OBVIOUS
  <2> HIDE DEF phase, failures, written, touched, ReplaceDestination
  <2>4. migration' = [phase |-> phase, mode |-> migration.mode, todo |-> migration.todo,
                      path |-> migration.path, doc |-> migration.doc, stem |-> migration.stem,
                      failures |-> failures, written |-> written, touched |-> touched]
    BY <2>2, <2>3 DEF MigrationType
  <2>5. migration' \in MigrationType
    BY <2>2, <2>4 DEF MigrationType, Paused
  <2> QED
    BY <2>1, <2>5 DEF Inv, TypeOK, ReplaceDestination
<1>5. MigrationHolds'
  BY DEF Inv, TypeOK, MigrationType, MigrationHolds, Working
<1>6. /\ StemsFromDocument' /\ FileIsWhole' /\ ProtectionSurvives'
  BY <1>1, <1>2, <1>3 DEF Inv, TypeOK, StemsFromDocument, FileIsWhole, ProtectionSurvives
<1>7. Replaced'
  <2> SUFFICES ASSUME NEW p \in migration'.written \ migration'.touched
               PROVE  /\ disk'[p] \in Document /\ disk'[p].schema # "0.1"
                      /\ migration'.failures = 0 => ValidationError(disk'[p]) = "none"
    BY DEF Replaced, ValidationError
  <2>1. p \in Paths /\ migration.failures \in Nat
    BY <1>1 DEF Inv, TypeOK, MigrationType
  <2>2. migration'.failures = 0 => migration.failures = 0 /\ ~Failed(d)
    BY <2>1 DEF Inv, TypeOK, MigrationType
  <2>3. CASE p = Destination
    BY <2>1, <2>2, <2>3, <1>2, <1>3 DEF Inv, TypeOK
  <2>4. CASE p # Destination
    <3>1. p \in migration.written \ migration.touched /\ disk'[p] = disk[p]
      BY <2>1, <2>4, <1>3 DEF Inv, TypeOK, MigrationType
    <3> QED
      BY <3>1, <2>2 DEF Inv, Replaced
  <2> QED
    BY <2>3, <2>4
<1>8. CatalogIsFinite'
  BY DEF Inv, CatalogIsFinite
<1> QED
  BY <1>4, <1>5, <1>6, <1>7, <1>8 DEF Inv

LEMMA CrashStep == ASSUME Inv, Crash PROVE Inv'
<1> USE DEF Crash
<1>1. migration' \in MigrationType
  BY DEF Inv, TypeOK, MigrationType, Paused
<1>2. TypeOK'
  BY <1>1 DEF Inv, TypeOK
<1>3. MigrationHolds' /\ Replaced'
  BY DEF Inv, TypeOK, MigrationType, MigrationHolds, Replaced, Working
<1>4. StemsFromDocument' /\ FileIsWhole' /\ ProtectionSurvives' /\ CatalogIsFinite'
  BY DEF Inv, StemsFromDocument, FileIsWhole, ProtectionSurvives, CatalogIsFinite
<1> QED
  BY <1>2, <1>3, <1>4 DEF Inv

-----------------------------------------------------------------------------
(* The host.                                                                *)

LEMMA HostStep == ASSUME Inv, Host PROVE Inv'
<1> SUFFICES TypeOK' /\ CatalogIsFinite'
  BY DEF Inv, MigrationHolds, StemsFromDocument, Replaced, FileIsWhole, ProtectionSurvives, Destination,
         Host, StartLoad, ReadContract, BuildCatalog, InterpretImplicit
<1>0. host \in HostType /\ <<>> \in Seq(Document)
  BY DEF Inv, TypeOK
<1>1. UNCHANGED <<disk, tmp, origin, migration, config>>
  BY DEF Host, StartLoad, ReadContract, BuildCatalog, InterpretImplicit
<1>2. CASE StartLoad
  <2>1. IsFiniteSet(Discovered(disk)) /\ Discovered(disk) \subseteq Sources
    BY DirectoryAssumption, FS_Subset DEF Discovered
  <2>2. Cardinality(Discovered(disk)) \in Nat
    BY <2>1, FS_CardinalityType
  <2> QED
    <3>1. host' \in HostType /\ host'.catalog = host.catalog
      BY <1>0, <1>2, <2>1, <2>2 DEF HostType, StartLoad
    <3>2. begun' \in 0 .. MaxBegun
      BY <1>2, DirectoryAssumption DEF Inv, TypeOK, StartLoad, Begin
    <3> QED
      BY <1>1, <3>1, <3>2 DEF Inv, TypeOK, CatalogIsFinite
<1>3. CASE ReadContract
  <2>1. PICK p \in host.todo :
          IF LoadError(disk[p]) = "none"
          THEN host' = [host EXCEPT !.todo = @ \ {p}, !.read = Append(@, disk[p])]
          ELSE LoadFails(LoadError(disk[p]))
    BY <1>3 DEF ReadContract
  <2>2. p \in Paths /\ p \in Sources
    BY DEF Inv, TypeOK, HostType, Paths
  <2>5. /\ LoadError(disk[p]) = "none" => disk[p] \in Document
        /\ LoadError(disk[p]) \in {"none", "E-CONTRACT-001", "E-CONTRACT-002", "E-CONTRACT-003",
                                  "E-CONTRACT-006", "E-CONTRACT-007"}
    BY <2>2, ContentLoads DEF Inv, TypeOK
  <2>3. CASE LoadError(disk[p]) = "none"
    <3>1. disk[p] \in Document
      BY <2>3, <2>5
    <3>2. Append(host.read, disk[p]) \in Seq(Document)
      BY <3>1 DEF Inv, TypeOK, HostType
    <3>3. host' \in HostType /\ host'.catalog = host.catalog
      BY <1>0, <2>1, <2>3, <3>2 DEF HostType
    <3> QED
      BY <1>1, <1>3, <3>3 DEF Inv, TypeOK, CatalogIsFinite, ReadContract
  <2>4. CASE LoadError(disk[p]) # "none"
    <3>1. LoadError(disk[p]) \in {"none", "E-CONTRACT-001", "E-CONTRACT-002", "E-CONTRACT-003",
                                  "E-CONTRACT-006", "E-CONTRACT-007"}
      BY <2>2, <2>5
    <3>2. host' \in HostType /\ host'.catalog = host.catalog
      BY <1>0, <2>1, <2>4, <3>1 DEF HostType, LoadFails
    <3> QED
      BY <1>1, <1>3, <3>2 DEF Inv, TypeOK, CatalogIsFinite, ReadContract
  <2> QED
    BY <2>3, <2>4
<1>4. CASE BuildCatalog
  <2> DEFINE built == {host.read[i] : i \in DOMAIN host.read}
  <2>1. built \subseteq Document /\ IsFiniteSet(built)
    <3>1. host.read \in Seq(Document)
      BY DEF Inv, TypeOK, HostType
    <3>2. DOMAIN host.read = 1 .. Len(host.read) /\ 1 \in Int /\ Len(host.read) \in Int
      BY <3>1
    <3>3. IsFiniteSet(DOMAIN host.read)
      BY <3>2, FS_Interval
    <3>4. host.read \in Surjection(DOMAIN host.read, built)
      BY <3>1 DEF Surjection
    <3>5. IsFiniteSet(built)
      BY <3>3, <3>4, FS_Surjection
    <3> QED
      BY <3>1, <3>5
  <2>2. CASE HasDuplicates(host.read)
    <3>1. host' \in HostType /\ host'.catalog = host.catalog
      BY <1>0, <1>4, <2>2 DEF HostType, BuildCatalog, LoadFails
    <3> QED
      BY <1>1, <1>4, <3>1 DEF Inv, TypeOK, CatalogIsFinite, BuildCatalog
  <2>3. CASE ~HasDuplicates(host.read)
    <3>1. host' \in HostType /\ host'.catalog = built
      BY <1>0, <1>4, <2>1, <2>3 DEF HostType, BuildCatalog
    <3> QED
      BY <1>1, <1>4, <2>1, <3>1 DEF Inv, TypeOK, CatalogIsFinite, BuildCatalog
  <2> QED
    BY <2>2, <2>3
<1>5. CASE InterpretImplicit
  <2>1. host' \in HostType /\ host'.catalog = host.catalog
    BY <1>5 DEF Inv, TypeOK, HostType, InterpretImplicit
  <2> QED
    BY <1>1, <1>5, <2>1 DEF Inv, TypeOK, CatalogIsFinite, InterpretImplicit
<1> QED
  BY <1>2, <1>3, <1>4, <1>5 DEF Host

-----------------------------------------------------------------------------
(* The invariant and what follows from it.                                  *)

LEMMA StutterStep == ASSUME Inv, UNCHANGED vars PROVE Inv'
  BY DEF Inv, TypeOK, MigrationType, MigrationHolds, StemsFromDocument, Replaced, FileIsWhole, ProtectionSurvives,
         CatalogIsFinite, Destination, vars

LEMMA NextStep == ASSUME Inv, [Next]_vars PROVE Inv'
  BY EditStep, StartMigrationStep, ReadSourceStep, TemporaryStep, ReplaceStep, CrashStep,
     HostStep, StutterStep DEF Next, Migrate, Finished

LEMMA Invariance == Spec => []Inv
  BY InitInv, NextStep, PTL DEF Spec

LEMMA CatalogOfHost == ASSUME Inv PROVE IsCatalog(host.catalog) /\ AllowsPrerelease \in BOOLEAN
  BY DEF Inv, TypeOK, MigrationType, HostType, CatalogIsFinite, IsCatalog, Document, AllowsPrerelease

\* The types of the directory, the migration and the host.
THEOREM DirectoryTypes == Spec => []TypeOK
  BY Invariance, PTL DEF Inv

\* Whatever the migration, its crashes and the authors do to the files, nobody
\* reads half of one: the temporary file is whole when it takes its place.
THEOREM FilesAreWhole == Spec => []FileIsWhole
  BY Invariance, PTL DEF Inv

\* No number of migrations, reruns and edits in any order takes the protection an
\* author asked for from a contract.
THEOREM MigrationProtects == Spec => []ProtectionSurvives
  BY Invariance, PTL DEF Inv

\* The report of a completed migration speaks for the files it wrote: after exit 0
\* they are valid 0.2 contracts, whatever runs, crashes and edits came before, and
\* only a limit of the loader itself can refuse one.
THEOREM ReportIsTrue == Spec => []ReportAgreesWithLoad
<1>1. Inv => ReportAgreesWithLoad
  <2> SUFFICES ASSUME Inv, NEW p \in migration.written \ migration.touched,
                      migration.failures = 0
               PROVE  LoadError(disk[p]) = disk[p].over
    BY DEF Inv, Replaced, ReportAgreesWithLoad
  <2>1. disk[p] \in Document /\ ValidationError(disk[p]) = "none"
    BY DEF Inv, Replaced
  <2>2. IsDocument(disk[p])
    BY <2>1, DocumentIsDocument
  <2> QED
    BY <2>1, <2>2 DEF LoadError, IsDocument, NoDocument
<1> QED
  BY <1>1, Invariance, PTL

\* Whatever catalog the host loads, the lint of it names the ids that an implicit
\* selection stumbles over.
THEOREM LintNamesAmbiguity == Spec => []AmbiguityWasLinted
<1>1. Inv => AmbiguityWasLinted
  BY CatalogOfHost, AmbiguityIsLinted DEF AmbiguityWasLinted
<1> QED
  BY <1>1, Invariance, PTL

\* A reload that adds contracts never lowers the version an id resolves to.
THEOREM ReloadNeverDowngrades == Spec => NeverDowngraded
<1>1. ASSUME Inv, Inv', [Next]_vars
      PROVE  [host.catalog \subseteq host'.catalog =>
                \A id \in Ids(host.catalog) :
                   \A c \in Active(host.catalog, id, AllowsPrerelease),
                      d \in Active(host'.catalog, id, AllowsPrerelease) :
                        ~Less(d.version, c.version)]_vars
  <2>1. IsCatalog(host.catalog) /\ IsCatalog(host'.catalog) /\ AllowsPrerelease \in BOOLEAN
    BY <1>1, CatalogOfHost DEF Inv, TypeOK, MigrationType, HostType, CatalogIsFinite, IsCatalog, Document
  <2> QED
    BY <2>1, GrowingNeverDowngrades
<1> QED
  BY <1>1, Invariance, PTL DEF NeverDowngraded, Spec

-----------------------------------------------------------------------------
(* A load counts the files it discovered.                                   *)

\* While it reads: what is read and what is left are what was found.
FilesAreCounted ==
  /\ host.phase = "reading" => Len(host.read) + Cardinality(host.todo) = host.found
  /\ CatalogIsComplete

\* Contracts of which no two have one id and version are as many as their set has.
LEMMA DistinctAreCounted ==
  ASSUME NEW contracts \in Seq(Document), ~HasDuplicates(contracts)
  PROVE  Cardinality({contracts[i] : i \in DOMAIN contracts}) = Len(contracts)
<1> DEFINE I == 1 .. Len(contracts)
           built == {contracts[i] : i \in I}
<1>1. Len(contracts) \in Nat /\ DOMAIN contracts = I /\ I \subseteq Nat
  OBVIOUS
<1>2. contracts \in [I -> built]
  BY <1>1
<1>3. contracts \in Surjection(I, built)
  BY <1>2 DEF Surjection
<1>4. \A i, j \in I : contracts[i] = contracts[j] => i = j
  <2> SUFFICES ASSUME NEW i \in I, NEW j \in I, contracts[i] = contracts[j], i # j PROVE FALSE
    OBVIOUS
  <2>1. i < j \/ j < i
    BY <1>1
  <2> QED
    BY <1>1, <2>1 DEF HasDuplicates
<1>5. contracts \in Injection(I, built)
  <2> HIDE DEF I, built
  <2> QED
    BY <1>2, <1>4 DEF Injection, IsInjective
<1>6. IsFiniteSet(I) /\ Cardinality(I) = Len(contracts)
  <2>1. 1 \in Int /\ Len(contracts) \in Int
    BY <1>1
  <2>2. IsFiniteSet(I)
    BY <2>1, FS_Interval
  <2>3. Cardinality(I) = IF 1 > Len(contracts) THEN 0 ELSE Len(contracts) - 1 + 1
    BY <2>1, FS_Interval
  <2> QED
    BY <1>1, <2>2, <2>3
<1>7. Cardinality(built) = Cardinality(I)
  <2> HIDE DEF I, built
  <2> QED
    BY <1>3, <1>5, <1>6, FS_Surjection
<1> QED
  BY <1>1, <1>6, <1>7

LEMMA CountedStep ==
  ASSUME Inv, FilesAreCounted, [Next]_vars
  PROVE  FilesAreCounted'
<1>0. host \in HostType /\ IsFiniteSet(host.todo) /\ Cardinality(host.todo) \in Nat
  <2>1. host \in HostType /\ host.todo \in SUBSET Sources /\ IsFiniteSet(Sources)
    BY DirectoryAssumption DEF Inv, TypeOK, HostType
  <2>2. IsFiniteSet(host.todo)
    BY <2>1, FS_Subset
  <2> QED
    BY <2>1, <2>2, FS_CardinalityType
<1>1. CASE StartLoad
  <2>1. IsFiniteSet(Discovered(disk))
    BY DirectoryAssumption, FS_Subset DEF Discovered
  <2>2. Cardinality(Discovered(disk)) \in Nat
    BY <2>1, FS_CardinalityType
  <2> QED
    BY <1>0, <1>1, <2>2 DEF StartLoad, HostType, FilesAreCounted, CatalogIsComplete
<1>2. CASE ReadContract
  <2>1. PICK p \in host.todo :
          IF LoadError(disk[p]) = "none"
          THEN host' = [host EXCEPT !.todo = @ \ {p}, !.read = Append(@, disk[p])]
          ELSE LoadFails(LoadError(disk[p]))
    BY <1>2 DEF ReadContract
  <2>2. CASE LoadError(disk[p]) = "none"
    <3>1. Cardinality(host.todo \ {p}) = Cardinality(host.todo) - 1
      BY <1>0, <2>1, FS_RemoveElement
    <3>2. host.read \in Seq(Document) /\ Len(Append(host.read, disk[p])) = Len(host.read) + 1
      BY <1>0 DEF HostType
    <3>3. /\ host'.phase = "reading" /\ host'.found = host.found
          /\ host'.todo = host.todo \ {p} /\ host'.read = Append(host.read, disk[p])
      BY <1>0, <1>2, <2>1, <2>2 DEF HostType, ReadContract
    <3>4. Len(host.read) + Cardinality(host.todo) = host.found
      BY <1>2 DEF FilesAreCounted, ReadContract
    <3>5. \A m, n, k \in Nat : m + n = k => (m + 1) + (n - 1) = k
      OBVIOUS
    <3>6. Len(host.read) \in Nat /\ host.found \in Nat
      BY <1>0, <3>2 DEF HostType
    <3>7. Len(host'.read) + Cardinality(host'.todo) = host'.found
      BY <1>0, <3>1, <3>2, <3>3, <3>4, <3>5, <3>6
    <3> QED
      BY <3>3, <3>7 DEF FilesAreCounted, CatalogIsComplete
  <2>3. CASE LoadError(disk[p]) # "none"
    BY <1>0, <2>1, <2>3 DEF LoadFails, HostType, FilesAreCounted, CatalogIsComplete
  <2> QED
    BY <2>2, <2>3
<1>3. CASE BuildCatalog
  <2>1. CASE HasDuplicates(host.read)
    BY <1>0, <1>3, <2>1 DEF BuildCatalog, LoadFails, HostType, FilesAreCounted, CatalogIsComplete
  <2>2. CASE ~HasDuplicates(host.read)
    <3>1. host.read \in Seq(Document)
      BY <1>0 DEF HostType
    <3>2. Cardinality({host.read[i] : i \in DOMAIN host.read}) = Len(host.read)
      BY <2>2, <3>1, DistinctAreCounted
    <3>3. Len(host.read) + 0 = host.found
      BY <1>3, FS_EmptySet DEF BuildCatalog, FilesAreCounted
    <3>4. /\ host'.phase = "loaded" /\ host'.found = host.found
          /\ host'.catalog = {host.read[i] : i \in DOMAIN host.read}
      BY <1>0, <1>3, <2>2 DEF BuildCatalog, HostType
    <3>5. Cardinality(host'.catalog) = host'.found
      BY <3>1, <3>2, <3>3, <3>4
    <3> QED
      BY <3>4, <3>5 DEF FilesAreCounted, CatalogIsComplete
  <2> QED
    BY <2>1, <2>2
<1>4. CASE InterpretImplicit
  BY <1>0, <1>4 DEF InterpretImplicit, HostType, FilesAreCounted, CatalogIsComplete
<1>5. CASE UNCHANGED host
  BY <1>5 DEF FilesAreCounted, CatalogIsComplete
<1> QED
  BY <1>1, <1>2, <1>3, <1>4, <1>5
     DEF Next, Host, Edit, Migrate, StartMigration, ReadSource, OpenTemporary, FillTemporary,
         ReplaceDestination, Crash, Finished, vars

\* A catalog accounts for every file its load discovered, whatever happens to the
\* files meanwhile: a load that meets a bad file or a duplicate gives no catalog.
THEOREM CatalogsAreComplete == Spec => []CatalogIsComplete
<1>1. Init => FilesAreCounted
  BY DEF Init, HostIdle, FilesAreCounted, CatalogIsComplete
<1>2. FilesAreCounted => CatalogIsComplete
  BY DEF FilesAreCounted
<1> QED
  BY <1>1, <1>2, CountedStep, Invariance, PTL DEF Spec
=============================================================================
