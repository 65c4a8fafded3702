---------------------------- MODULE MCSessionFile ----------------------------
(* Instances of SessionFile for TLC.                                        *)
EXTENDS SessionFile

CONSTANTS u1, u2, u3, u4, u5, p1, p2, p3

\* The threads of one process.
OneProcess == [made |-> Updates, home |-> [u \in Updates |-> p1], cli |-> {}]

\* Two processes of the host that share the directory.
TwoProcesses ==
  [made |-> {u1, u2, u3}, home |-> [u \in Updates |-> IF u = u2 THEN p2 ELSE p1], cli |-> {}]

\* A process of the host beside two commands, one of which meets a sensitive value.
Homes == [u \in Updates |-> CASE u = u2 -> p2 [] u = u5 -> p3 [] OTHER -> p1]
WithCommands == [made |-> {u1, u2, u3, u5}, home |-> Homes, cli |-> {u2, u5}]

\* Nothing but commands.
OnlyCommands == [made |-> {u1, u2, u5}, home |-> Homes, cli |-> {u1, u2, u5}]

MCDeployments == {OneProcess, TwoProcesses, WithCommands}
MCOnlyCommands == {OnlyCommands}
=============================================================================
