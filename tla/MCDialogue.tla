----------------------------- MODULE MCDialogue -----------------------------
(* Contracts and requests for TLC.                                          *)
EXTENDS Dialogue

\* Leaves and nodes of conditions.
Equals(f, v) == [op |-> "equals", field |-> f, operands |-> {v}]
Differs(f, v) == [op |-> "not_equals", field |-> f, operands |-> {v}]
OneOf(f, vs) == [op |-> "in", field |-> f, operands |-> vs]
Exists(f, b) == [op |-> "exists", field |-> f, wanted |-> b]
All(es) == [op |-> "all", children |-> es]
Any(es) == [op |-> "any", children |-> es]

KindIsX == Equals("kind", "x")
KindIsY == Equals("kind", "y")
SizeIsY == Equals("size", "y")
SizeSet == Exists("size", TRUE)
TokenSet == Exists("token", TRUE)
SizeIsX == OneOf("size", {"x"})
KindGiven == OneOf("kind", {"x", "y"})
NotBothY == Any({Differs("kind", "y"), Differs("size", "y")})
SomeY == Any({KindIsY, SizeIsY})
BothX == All({KindIsX, SizeIsX})

MCExpressions == {KindIsX, KindIsY, SizeIsY, SizeSet, TokenSet, SizeIsX, KindGiven, NotBothY, SomeY, BothX}
                 \cup NotBothY.children \cup SomeY.children \cup BothX.children

MCOrder == [kind |-> 0, size |-> 1, token |-> 2]

\* Costs: 70 thousandths of the answer cost and 30 of the sensitivity.
Kind == [required |-> TRUE, default |-> None, policy |-> "any", class |-> "public",
         enum |-> TRUE, typed |-> {}, accepts |-> {"x", "y"},
         read |-> [x |-> "x", y |-> "y", z |-> "x"], cost |-> 14]
Size == [required |-> FALSE, default |-> None, policy |-> "trusted", class |-> "sensitive",
         enum |-> FALSE, typed |-> {"x", "y", "z"}, accepts |-> {"x", "y"},
         read |-> [x |-> "x", y |-> "y", z |-> "z"], cost |-> 36]
Token == [required |-> FALSE, default |-> None, policy |-> "any", class |-> "secret",
          enum |-> FALSE, typed |-> {"x", "y", "z"}, accepts |-> {"x", "y", "z"},
          read |-> [x |-> "x", y |-> "y", z |-> "z"], cost |-> 72]
RequiredToken == [Token EXCEPT !.required = TRUE]
RequiredSize == [Size EXCEPT !.required = TRUE]
ConfirmedKind == [Kind EXCEPT !.policy = "user_confirmed"]
DefaultSize == [Size EXCEPT !.default = "x"]

SizeLimit == [code |-> "limit", when |-> None, assert |-> SizeIsX, targets |-> {"size"},
              blocking |-> TRUE, place |-> 1]
\* A namesake of the limit that comes later and only advises, for one kind.
SizeHint == [SizeLimit EXCEPT !.when = KindIsX, !.blocking = FALSE, !.place = 2]
Advice == [code |-> "advice", when |-> KindIsX, assert |-> SizeIsX, targets |-> {},
           blocking |-> FALSE, place |-> 0]

\* A size that kind = x asks for and a limit on it; a token once a y occurs.
Repair == [inputs |-> [kind |-> Kind, size |-> Size, token |-> Token],
           requirements |-> {[when |-> KindIsX, require |-> {"size"}],
                             [when |-> SomeY, require |-> {"token"}]},
           constraints |-> {SizeLimit}]
\* A kind that the user has to confirm, a size by default and limited, a token always.
Review == [inputs |-> [kind |-> ConfirmedKind, size |-> DefaultSize, token |-> RequiredToken],
           requirements |-> {[when |-> BothX, require |-> {"token"}],
                             [when |-> SizeSet, require |-> {"kind"}]},
           constraints |-> {Advice, SizeLimit, SizeHint}]
\* A size once there is a kind, and a rule that correcting either may satisfy.
Joint == [code |-> "joint", when |-> None, assert |-> NotBothY, targets |-> {"kind", "size"},
          blocking |-> TRUE, place |-> 0]
Bare == [inputs |-> [kind |-> Kind, size |-> Size],
         requirements |-> {[when |-> KindGiven, require |-> {"size"}]},
         constraints |-> {Joint}]
\* Bare with an optional token, and with nothing but a required size.
Extended == [Bare EXCEPT !.inputs = [kind |-> Kind, size |-> Size, token |-> Token]]
Reduced == [Bare EXCEPT !.inputs = [size |-> RequiredSize], !.requirements = {},
                           !.constraints = {SizeLimit}]
\* A kind that is asked for once a token is there.
Guarded == [inputs |-> [kind |-> [Kind EXCEPT !.required = FALSE], token |-> RequiredToken],
            requirements |-> {[when |-> TokenSet, require |-> {"kind"}]},
            constraints |-> {}]

TwoCapabilities == {[a |-> Repair, b |-> Review]}
Evolving == {[a |-> Bare], [a |-> Extended, b |-> Review], [a |-> Reduced]}
GuardedOnly == {[a |-> Guarded]}

Say(kind, size, token) == [kind |-> kind, size |-> size, token |-> token]

\* First requests: nothing, a wrong and a literal secret value in the context,
\* an assignment in the text that shadows the context.
MCContexts == {[context |-> Nothing, text |-> Nothing],
               [context |-> Say("z", "y", "x"), text |-> Nothing],
               [context |-> Say("y", None, None), text |-> Say(None, "z", None)]}
OneContext == {[context |-> Say("y", None, None), text |-> Nothing]}
FewContexts == {[context |-> Nothing, text |-> Nothing],
                [context |-> Say("x", "y", None), text |-> Nothing]}

MCInferences == {Nothing, Say("x", "y", "z")}
MCAssigns == [plain |-> Nothing, size |-> Say(None, "x", None)]

MCWanted == [kind |-> "x", size |-> "x", token |-> "ref", capability |-> "a", terms |-> "plain"]

\* The contracts of a static provider are ones whose questions come to an end.
ASSUME MCDialogueAssumption == Static => WantedSuffices
=============================================================================
