------------------------- MODULE MCContractDirectory -------------------------
EXTENDS ContractDirectory, TLC

\* Digits-only identifiers whose order as text is not their order as numbers.
MCIdentifiers == {"2", "10", "rc"}
MCNumeric == {"2", "10"}
MCNumericValue == [x \in MCNumeric |-> IF x = "2" THEN 2 ELSE 10]
MCTextRank == [x \in MCIdentifiers |-> CASE x = "10" -> 1 [] x = "2" -> 2 [] OTHER -> 3]
MCBuilds == {"", "x"}

MCVersion(major, pre, build) ==
    [major |-> major, minor |-> 0, patch |-> 0, pre |-> pre, build |-> build]

MCDraft(schema, id, version, protected, targets) ==
    [schema |-> schema, id |-> id, version |-> version,
     must_be_explicit |-> schema = "0.1" /\ protected,
     sensitive |-> schema = "0.1" /\ protected,
     source_policy |-> IF schema = "0.2" /\ protected THEN "trusted" ELSE "any",
     classification |-> IF schema = "0.2" /\ protected THEN "sensitive" ELSE "public",
     targets |-> targets, over |-> "none", rewritten |-> "none"]

\* 1.0.0 to be migrated, the same with build metadata already migrated, two
\* prereleases of 2.0.0, a second capability whose targets an author must name, the
\* same with more examples than the loader takes, one of a later schema that exceeds
\* 2 MB only when written out with indentation, and a list instead of an object.
MCDrafts ==
    {MCDraft("0.1", "a", MCVersion(1, <<>>, ""), TRUE, "named"),
     MCDraft("0.2", "a", MCVersion(1, <<>>, "x"), FALSE, "named"),
     MCDraft("0.2", "a", MCVersion(2, <<"2">>, ""), TRUE, "named"),
     MCDraft("0.2", "a", MCVersion(2, <<"10">>, ""), FALSE, "named"),
     MCDraft("0.1", "b", MCVersion(1, <<>>, ""), FALSE, "unset"),
     [MCDraft("0.1", "b", MCVersion(1, <<>>, ""), FALSE, "named")
        EXCEPT !.over = "E-CONTRACT-007", !.rewritten = "E-CONTRACT-007"],
     [MCDraft("other", "b", MCVersion(1, <<>>, ""), FALSE, "named")
        EXCEPT !.classification = "secret", !.source_policy = "user_confirmed",
               !.rewritten = "E-CONTRACT-006"],
     Rootless, Broken}

MCSources == {"one", "two"}
MCPlace == ("one" :> 1 @@ "two" :> 2)
MCOutputOf == ("one" :> "out one" @@ "two" :> "out two")

MCConfigs == {[provider |-> "static", allow_prerelease |-> TRUE],
              [provider |-> "model", allow_prerelease |-> TRUE]}
=============================================================================
