----------------------------- MODULE Conditions -----------------------------
(***************************************************************************)
(* ConditionExpression and evaluate_condition                              *)
(* (src/taskc/models/capability.py): the three-valued conditions of a      *)
(* contract over the field values known so far.                            *)
(*                                                                         *)
(* A leaf is [op |-> "equals", "not_equals" or "in", field, operands], the *)
(* operands being a set (of one value for the first two), or               *)
(* [op |-> "exists", field, wanted].  A node is [op |-> "all" or "any",    *)
(* children].  Values are compared as model values, so Python's equality   *)
(* of values of different types (1 == True) is outside.                    *)
(***************************************************************************)
EXTENDS Integers

CONSTANT Expressions    \* the conditions in use, with all their children

\* The children of a node.
Children(e) == IF e.op \in {"all", "any"} THEN e.children ELSE {}

\* Conditions are trees: what they are made of belongs to them, and going from
\* a condition to a child of it ends (_validate_condition_size bounds the depth).
ASSUME ExpressionsAssumption ==
  /\ \A e \in Expressions : Children(e) \subseteq Expressions
  /\ \A T \in SUBSET Expressions : T # {} => \E e \in T : Children(e) \cap T = {}

True == "true"
False == "false"
Unknown == "unknown"

Verdict(b) == IF b THEN True ELSE False

\* Faulty variant of LeafVerdict: a comparison with a missing value fails.
LeafVerdictTwoValued(e, values) ==
  LET present == e.field \in DOMAIN values IN
  CASE e.op = "exists"     -> Verdict(present = e.wanted)
    [] e.op = "not_equals" -> Verdict(~present \/ values[e.field] \notin e.operands)
    [] OTHER               -> Verdict(present /\ values[e.field] \in e.operands)

LeafVerdict(e, values) ==
  LET present == e.field \in DOMAIN values IN
  IF e.op = "exists" THEN Verdict(present = e.wanted)
  ELSE IF ~present THEN Unknown
  ELSE IF e.op = "not_equals" THEN Verdict(values[e.field] \notin e.operands)
  ELSE Verdict(values[e.field] \in e.operands)

AllOf(verdicts) == IF False \in verdicts THEN False
                   ELSE IF verdicts \subseteq {True} THEN True ELSE Unknown

AnyOf(verdicts) == IF True \in verdicts THEN True
                   ELSE IF verdicts \subseteq {False} THEN False ELSE Unknown

\* evaluate_condition(e, values); values is a function on the known fields.
Evaluate(e, values) ==
  LET verdict[x \in Expressions] ==
        CASE x.op = "all" -> AllOf({verdict[child] : child \in x.children})
          [] x.op = "any" -> AnyOf({verdict[child] : child \in x.children})
          [] OTHER        -> LeafVerdict(x, values)
  IN  verdict[e]

\* The fields a condition mentions, and whether it asks for presence.
ReferencedFields(e) ==
  LET fields[x \in Expressions] ==
        IF x.op \in {"all", "any"} THEN UNION {fields[child] : child \in x.children}
        ELSE {x.field}
  IN  fields[e]

AsksForPresence(e) ==
  LET asks[x \in Expressions] ==
        IF x.op \in {"all", "any"} THEN \E child \in x.children : asks[child]
        ELSE x.op = "exists"
  IN  asks[e]

\* The two-valued meaning of a condition on complete values: the reference.
Holds(e, values) ==
  LET holds[x \in Expressions] ==
        CASE x.op = "all"        -> \A child \in x.children : holds[child]
          [] x.op = "any"        -> \E child \in x.children : holds[child]
          [] x.op = "exists"     -> (x.field \in DOMAIN values) = x.wanted
          [] x.op = "not_equals" -> values[x.field] \notin x.operands
          [] OTHER               -> values[x.field] \in x.operands
  IN  holds[e]
=============================================================================
