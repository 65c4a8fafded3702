------------------------------ MODULE Versions ------------------------------
(***************************************************************************)
(* Capability versions and the selection of the active one: the order of   *)
(* taskc/versions.py, CapabilityCatalog.resolve and active_contracts, and  *)
(* the catalog half of the lint.  A version's text is determined by its    *)
(* core, its prerelease identifiers and its build metadata, so the record  *)
(* stands for the text too.                                                *)
(***************************************************************************)
EXTENDS Naturals, Sequences, FiniteSets

CONSTANTS Identifiers,  \* prerelease identifiers
          Numeric,      \* those made of digits only
          NumericValue, \* the number a digits-only identifier stands for
          TextRank,     \* the place of an identifier in the order of texts
          Builds        \* build metadata, none included

\* Leading zeroes are refused, so a number has one text; texts are ordered totally.
ASSUME IdentifiersAssumption ==
    /\ Numeric \subseteq Identifiers
    /\ NumericValue \in [Numeric -> Nat]
    /\ \A x, y \in Numeric : NumericValue[x] = NumericValue[y] => x = y
    /\ TextRank \in [Identifiers -> Nat]
    /\ \A x, y \in Identifiers : TextRank[x] = TextRank[y] => x = y

Version == [major : Nat, minor : Nat, patch : Nat, pre : Seq(Identifiers), build : Builds]

Stable(v) == v.pre = <<>>

SameCore(v, w) == v.major = w.major /\ v.minor = w.minor /\ v.patch = w.patch

CoreLess(v, w) ==
    \/ v.major < w.major
    \/ v.major = w.major /\ v.minor < w.minor
    \/ v.major = w.major /\ v.minor = w.minor /\ v.patch < w.patch

IdentifierLess(x, y) ==
    \/ x \in Numeric /\ y \in Numeric /\ NumericValue[x] < NumericValue[y]
    \/ x \in Numeric /\ y \notin Numeric
    \/ x \notin Numeric /\ y \notin Numeric /\ TextRank[x] < TextRank[y]

\* p and q agree before place i and both have one there.
FirstDifference(p, q, i) ==
    /\ i \in 1 .. Len(p)
    /\ i \in 1 .. Len(q)
    /\ p[i] # q[i]
    /\ \A j \in 1 .. (i - 1) : p[j] = q[j]

IsPrefixOf(p, q) == Len(p) <= Len(q) /\ \A j \in 1 .. Len(p) : p[j] = q[j]

PrereleaseLess(p, q) ==
    \/ \E i \in 1 .. Len(p) : FirstDifference(p, q, i) /\ IdentifierLess(p[i], q[i])
    \/ IsPrefixOf(p, q) /\ Len(p) < Len(q)

Less(v, w) ==
    \/ CoreLess(v, w)
    \/ /\ SameCore(v, w)
       /\ ~Stable(v)
       /\ Stable(w) \/ PrereleaseLess(v.pre, w.pre)

SamePrecedence(v, w) == ~Less(v, w) /\ ~Less(w, v)

-----------------------------------------------------------------------------
(* A contract is a record with an id and a version; a catalog is a set of them. *)

Ids(catalog) == {c.id : c \in catalog}

Eligible(catalog, id, allowPrerelease) ==
    {c \in catalog : c.id = id /\ (allowPrerelease \/ Stable(c.version))}

\* Faulty variant of IsHighest: the comparison is turned round.
IsHighestTurned(catalog, c) == \A d \in catalog : ~Less(d.version, c.version)

IsHighest(catalog, c) == \A d \in catalog : ~Less(c.version, d.version)

\* max() keeps the first of several equal ones: any of them.
Best(eligible) == CHOOSE c \in eligible : IsHighest(eligible, c)

Winners(eligible) ==
    {c \in eligible : SamePrecedence(c.version, Best(eligible).version)}

\* resolve() raises: two texts share the highest precedence.
IsAmbiguous(catalog, id, allowPrerelease) ==
    \E c, d \in Winners(Eligible(catalog, id, allowPrerelease)) : c.version # d.version

\* What resolve() returns for an id that is not ambiguous: at most one contract.
Active(catalog, id, allowPrerelease) == Winners(Eligible(catalog, id, allowPrerelease))

ActiveContracts(catalog, allowPrerelease) ==
    UNION {Active(catalog, id, allowPrerelease) : id \in Ids(catalog)}

\* active_contracts() resolves every id: one that is ambiguous raises for all of them.
SelectionRaises(catalog, allowPrerelease) ==
    \E id \in Ids(catalog) : IsAmbiguous(catalog, id, allowPrerelease)

\* Faulty variant of EqualPrecedencePair: __eq__ in place of same_precedence, on the raw text.
EqualTextPair(c, d) == c.id = d.id /\ c.version = d.version /\ c # d

EqualPrecedencePair(c, d) ==
    c.id = d.id /\ c.version # d.version /\ SamePrecedence(c.version, d.version)

\* lint_catalog: the ids it reports W-CONTRACT-EQUAL-VERSION-PRECEDENCE for.
LintedIds(catalog) == {c.id : c \in {x \in catalog : \E y \in catalog : EqualPrecedencePair(x, y)}}
=============================================================================
