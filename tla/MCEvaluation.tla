---------------------------- MODULE MCEvaluation ----------------------------
(* Compilers, provider replies and datasets for TLC.                        *)
EXTENDS Evaluation

MCRefs == {"ship", "move"}
MCFields == {"to", "via"}

Draft(ref) == [ref |-> ref, declared |-> TRUE]

\* No candidate, one, two, one twice, one too many, an unknown capability and
\* undeclared inputs.
MCReplies ==
  {<<>>, <<Draft("ship")>>, <<Draft("move")>>, <<Draft("ship"), Draft("move")>>, <<Draft("ship"), Draft("ship")>>,
   <<Draft("ship"), Draft("move"), Draft("ship")>>, <<Draft("none")>>,
   <<[ref |-> "ship", declared |-> FALSE]>>}

MCRounds == {<<{"to"}>>, <<{"via"}>>, <<{"to"}, {"via"}>>, <<{"to", "via"}>>}

\* What the CLI constructs: no extension and the silent recorder.
Plain ==
  [evaluator |-> [r \in MCRefs |-> "none"], ranker |-> [r \in MCRefs |-> "none"],
   known |-> {}, registered |-> {}, deterministic |-> {},
   allow |-> FALSE, strict |-> FALSE, auto |-> FALSE, renderer |-> FALSE]

\* A host's compiler with a deterministic evaluator and a ranker that is not.
Extended ==
  [Plain EXCEPT !.evaluator = [r \in MCRefs |-> IF r = "ship" THEN "rule" ELSE "none"],
                !.ranker = [r \in MCRefs |-> IF r = "move" THEN "luck" ELSE "none"],
                !.known = {"rule", "luck"}, !.registered = {"rule", "luck"},
                !.deterministic = {"rule"}, !.allow = TRUE, !.strict = TRUE,
                !.auto = TRUE, !.renderer = TRUE]

\* An evaluator that is not deterministic, with and without the opt-in.
Chance ==
  [Plain EXCEPT !.evaluator = [r \in MCRefs |-> IF r = "move" THEN "luck" ELSE "none"],
                !.known = {"luck"}, !.registered = {"luck"}, !.allow = TRUE, !.strict = TRUE]
Unwilling == [Chance EXCEPT !.allow = FALSE]
Unregistered == [Chance EXCEPT !.registered = {}]

MCSetups == {Plain, Extended, Chance, Unwilling, Unregistered}

Expect(status, script) ==
  [script |-> script, status |-> status, category |-> "none", targets |-> {"to"},
   capabilities |-> {"ship"}, forbidReady |-> FALSE]

Asks == Expect("ready", <<"to", "none">>)
Blocks == [Expect("needs_clarification", <<>>) EXCEPT !.forbidReady = TRUE]
Rejects == [Expect("unsupported", <<"capability">>)
            EXCEPT !.category = "provider_failure", !.targets = {}, !.capabilities = {}]

MCDatasets == {<<>>, <<Asks>>, <<Rejects, Blocks>>}
=============================================================================
