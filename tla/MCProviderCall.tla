--------------------------- MODULE MCProviderCall ---------------------------
(* Instances of ProviderCall for TLC.                                      *)
EXTENDS ProviderCall

CONSTANTS c1, c2, c3, c4, c5, k1

\* Two compilations of the same cached request beside three without a cache, one of
\* which (c5) cannot list its contracts.
TwoCached == [c \in Calls |-> IF c \in {c1, c2} THEN k1 ELSE NoCache]

\* Budgets below and above what the retries need, and one of no call at all.
Logical == [c \in Calls |-> IF c = c4 THEN 0 ELSE 2]
Network == [c \in Calls |-> IF c = c1 THEN 1 ELSE 3]
=============================================================================
