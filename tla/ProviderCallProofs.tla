------------------------- MODULE ProviderCallProofs -------------------------
(***************************************************************************)
(* The safety of the provider phase, for any number of compilations, any   *)
(* keys, retries and budgets.                                              *)
(*                                                                         *)
(* None of the properties is inductive by itself.  Counted ties the        *)
(* requests the model received to the attempts the budget counted, and the *)
(* attempts to the loop over range(retries + 1); Fit says where a response *)
(* fit for use can come from; Ended says what each outcome was made of.    *)
(***************************************************************************)
EXTENDS ProviderCall, TLAPS

\* A call uses the loop and the budget up one attempt at a time, and only
\* attempts that no cache answered reach the model.  A call that cannot list its
\* contracts asks nobody.
Counted(c) ==
  /\ requests[c] <= attempts[c]
  /\ attempts[c] <= MaxAttempts[c]
  /\ attempts[c] <= Retries + 1
  /\ pc[c] \in {"idle", "trying"} => attempts[c] <= Retries
  /\ Key[c] = NoCache /\ c \notin Ambiguous => requests[c] = attempts[c]
  /\ c \in Ambiguous => requests[c] = 0 /\ heard[c] = {} /\ failure[c] = Nothing
                       /\ pc[c] # "waiting"

\* The model gave an answer fit for use to c or to a call of its key.
HeardGood(c) ==
  \E d \in Calls : "good" \in heard[d] /\ (d = c \/ (Key[c] = Key[d] /\ Key[c] # NoCache))

\* A cached response fit for use was heard by some call of the key.
Fit == \A k \in Keys : cache[k] = "good" =>
         \E d \in Calls : "good" \in heard[d] /\ Key[d] = k

Ended(c) ==
  /\ outcome[c] = "none" <=> pc[c] # "done"
  /\ outcome[c] = "ok" => HeardGood(c)
  /\ outcome[c] = "provider_failure" /\ Key[c] = NoCache => heard[c] # {} \/ c \in Ambiguous
  /\ outcome[c] = "ok" /\ Key[c] = NoCache => heard[c] # {}
  /\ outcome[c] = "provider_failure" /\ Retryable(failure[c]) => attempts[c] = Retries + 1

Inv == TypeOK /\ Fit /\ \A c \in Calls : Counted(c) /\ Ended(c)

-----------------------------------------------------------------------------
LEMMA InitInv == Init => Inv
<1> SUFFICES ASSUME Init PROVE Inv
  OBVIOUS
<1> USE ProviderAssumption DEF Init
<1>1. TypeOK
  BY DEF TypeOK
<1>2. Fit
  BY DEF Fit, Replies, Responses
<1>3. ASSUME NEW c \in Calls PROVE Counted(c) /\ Ended(c)
  <2>1. /\ pc[c] = "idle" /\ outcome[c] = "none" /\ requests[c] = 0 /\ attempts[c] = 0
        /\ heard[c] = {} /\ failure[c] = Nothing /\ MaxAttempts[c] \in Nat
    OBVIOUS
  <2> QED
    BY <2>1 DEF Counted, Ended
<1> QED
  BY <1>1, <1>2, <1>3 DEF Inv

\* What an attempt's reply makes of the call that made it; the others keep
\* their program counter, their outcome and their failure.
LEMMA SettleEffect ==
  ASSUME TypeOK, NEW c \in Calls, NEW reply \in Replies, NEW n \in Nat, Settle(c, reply, n)
  PROVE /\ pc' \in [Calls -> {"idle", "trying", "waiting", "done"}]
        /\ outcome' \in [Calls -> {"none", "ok", "provider_failure", "budget_exceeded"}]
        /\ failure' \in [Calls -> Replies \cup {Nothing}]
        /\ \A d \in Calls \ {c} : pc'[d] = pc[d] /\ outcome'[d] = outcome[d] /\ failure'[d] = failure[d]
        /\ \/ reply = "good" /\ pc'[c] = "done" /\ outcome'[c] = "ok"
           \/ reply # "good" /\ pc'[c] = "trying" /\ n # Retries + 1 /\ outcome'[c] = outcome[c]
           \/ /\ reply # "good" /\ pc'[c] = "done" /\ outcome'[c] = "provider_failure"
              /\ failure'[c] = reply /\ (Retryable(reply) => n = Retries + 1)
<1>1. failure' \in [Calls -> Replies \cup {Nothing}] /\ \A d \in Calls \ {c} : failure'[d] = failure[d]
  BY DEF Settle, TypeOK
<1>2. CASE reply = "good"
  BY <1>1, <1>2 DEF Settle, End, TypeOK
<1>3. CASE reply # "good" /\ Retryable(reply) /\ ~LastAttempt(n)
  BY <1>1, <1>3 DEF Settle, LastAttempt, TypeOK
<1>4. CASE reply # "good" /\ ~(Retryable(reply) /\ ~LastAttempt(n))
  <2>1. End(c, "provider_failure") /\ failure' = [failure EXCEPT ![c] = reply]
    BY <1>4 DEF Settle
  <2>2. failure'[c] = reply
    BY <2>1 DEF TypeOK
  <2>3. Retryable(reply) => n = Retries + 1
    BY <1>4 DEF LastAttempt
  <2> QED
    BY <1>1, <1>4, <2>1, <2>2, <2>3 DEF End, TypeOK
<1> QED
  BY <1>2, <1>3, <1>4

\* A step that ends calls over the budget and changes nothing else.
LEMMA BudgetEnds ==
  ASSUME Inv, NEW c \in Calls, pc[c] # "done", End(c, "budget_exceeded"),
         UNCHANGED <<attempts, expired, failure, cache, requests, heard>>
  PROVE Inv'
<1> USE DEF Inv, End
<1>1. TypeOK'
  BY DEF TypeOK
<1>2. Fit'
  BY DEF Fit
<1>3. ASSUME NEW d \in Calls PROVE Counted(d)' /\ Ended(d)'
  <2>1. HeardGood(d)' <=> HeardGood(d)
    BY DEF HeardGood
  <2>2. Counted(d)'
    BY DEF Counted, TypeOK
  <2>3. Ended(d)'
    <3>1. CASE d = c
      BY <2>1, <3>1 DEF Ended, TypeOK
    <3>2. CASE d # c
      BY <2>1, <3>2 DEF Ended, TypeOK
    <3> QED BY <3>1, <3>2
  <2> QED BY <2>2, <2>3
<1> QED
  BY <1>1, <1>2, <1>3

LEMMA NextInv == Inv /\ [Next]_vars => Inv'
<1> SUFFICES ASSUME Inv, [Next]_vars PROVE Inv'
  OBVIOUS
<1> USE ProviderAssumption
<1>0. TypeOK
  BY DEF Inv
<1>1. ASSUME NEW c \in Calls, Start(c) PROVE Inv'
  <2>1. CASE MaxLogical[c] = 0
    BY <1>1, <2>1, BudgetEnds DEF Start
  <2>2. CASE MaxLogical[c] # 0
    <3>0. pc[c] = "idle" /\ pc' = [pc EXCEPT ![c] = "trying"]
          /\ UNCHANGED <<outcome, attempts, expired, failure, cache, requests, heard>>
      BY <1>1, <2>2 DEF Start
    <3>1. TypeOK' /\ Fit'
      BY <3>0 DEF Inv, TypeOK, Fit
    <3>2. ASSUME NEW d \in Calls PROVE Counted(d)' /\ Ended(d)'
      <4>1. HeardGood(d)' <=> HeardGood(d)
        BY <3>0 DEF HeardGood
      <4> QED
        BY <3>0, <4>1 DEF Inv, Counted, Ended, TypeOK
    <3> QED BY <3>1, <3>2 DEF Inv
  <2> QED BY <2>1, <2>2
<1>2. ASSUME NEW c \in Calls, OverBudget(c) PROVE Inv'
  BY <1>2, BudgetEnds DEF OverBudget
<1>3. ASSUME NEW c \in Calls, Hit(c) PROVE Inv'
  <2>0. /\ pc[c] = "trying" /\ ~expired[c] /\ attempts[c] < MaxAttempts[c]
        /\ c \notin Ambiguous /\ Key[c] # NoCache /\ cache[Key[c]] # Nothing
        /\ attempts' = [attempts EXCEPT ![c] = @ + 1]
        /\ UNCHANGED <<expired, cache, requests, heard>>
    BY <1>3 DEF Hit, Hits, CanAttempt
  <2>1. Key[c] \in Keys /\ cache[Key[c]] \in Replies
    BY <2>0 DEF Inv, TypeOK, Replies
  <2>2. attempts[c] + 1 \in Nat
    BY DEF Inv, TypeOK
  <2> DEFINE reply == cache[Key[c]]
             n == attempts[c] + 1
  <2>3. /\ pc' \in [Calls -> {"idle", "trying", "waiting", "done"}]
        /\ outcome' \in [Calls -> {"none", "ok", "provider_failure", "budget_exceeded"}]
        /\ failure' \in [Calls -> Replies \cup {Nothing}]
        /\ \A d \in Calls \ {c} : pc'[d] = pc[d] /\ outcome'[d] = outcome[d] /\ failure'[d] = failure[d]
        /\ \/ reply = "good" /\ pc'[c] = "done" /\ outcome'[c] = "ok"
           \/ reply # "good" /\ pc'[c] = "trying" /\ n # Retries + 1 /\ outcome'[c] = outcome[c]
           \/ /\ reply # "good" /\ pc'[c] = "done" /\ outcome'[c] = "provider_failure"
              /\ failure'[c] = reply /\ (Retryable(reply) => n = Retries + 1)
    BY <1>0, <1>3, <2>1, <2>2, SettleEffect DEF Hit
  <2>4. TypeOK'
    BY <2>0, <2>2, <2>3 DEF Inv, TypeOK
  <2>5. Fit'
    BY <2>0 DEF Inv, Fit
  <2>6. ASSUME NEW d \in Calls PROVE Counted(d)' /\ Ended(d)'
    <3>1. HeardGood(d)' <=> HeardGood(d)
      BY <2>0 DEF HeardGood
    <3>2. CASE d # c
      BY <2>0, <2>3, <3>1, <3>2 DEF Inv, Counted, Ended, TypeOK
    <3>3. CASE d = c
      <4>1. attempts'[c] = n
        BY <2>0 DEF Inv, TypeOK
      <4>2. attempts[c] <= Retries /\ requests[c] <= attempts[c]
        BY <2>0 DEF Inv, Counted
      <4>3. requests'[c] = requests[c] /\ requests[c] \in Nat /\ attempts[c] \in Nat /\ MaxAttempts[c] \in Nat
        BY <2>0 DEF Inv, TypeOK
      <4>4. Counted(c)'
        BY <2>0, <2>3, <4>1, <4>2, <4>3 DEF Counted
      <4>5. reply = "good" => HeardGood(c)
        BY <2>0, <2>1 DEF Inv, Fit, HeardGood
      <4>6. Ended(c)'
        BY <2>0, <2>3, <3>1, <3>3, <4>1, <4>5 DEF Inv, Ended
      <4> QED BY <3>3, <4>4, <4>6
    <3> QED BY <3>2, <3>3
  <2> QED BY <2>4, <2>5, <2>6 DEF Inv
<1>4. ASSUME NEW c \in Calls, Ask(c) PROVE Inv'
  <2>0. /\ pc[c] = "trying" /\ attempts[c] < MaxAttempts[c] /\ c \notin Ambiguous
        /\ attempts' = [attempts EXCEPT ![c] = @ + 1]
        /\ requests' = [requests EXCEPT ![c] = @ + 1]
        /\ pc' = [pc EXCEPT ![c] = "waiting"]
        /\ UNCHANGED <<outcome, expired, failure, cache, heard>>
    BY <1>4 DEF Ask, CanAttempt
  <2>1. TypeOK' /\ Fit'
    BY <2>0 DEF Inv, TypeOK, Fit
  <2>2. ASSUME NEW d \in Calls PROVE Counted(d)' /\ Ended(d)'
    <3>1. HeardGood(d)' <=> HeardGood(d)
      BY <2>0 DEF HeardGood
    <3>2. Counted(d)'
      BY <2>0 DEF Inv, Counted, TypeOK
    <3>3. Ended(d)'
      BY <2>0, <3>1 DEF Inv, Ended, TypeOK
    <3> QED BY <3>2, <3>3
  <2> QED BY <2>1, <2>2 DEF Inv
<1>5. ASSUME NEW c \in Calls, Cancel(c) PROVE Inv'
  BY <1>5, BudgetEnds DEF Cancel
<1>6. ASSUME NEW c \in Calls, TimePasses(c) PROVE Inv'
  <2>1. TypeOK' /\ Fit'
    BY <1>6 DEF TimePasses, Inv, TypeOK, Fit
  <2>2. ASSUME NEW d \in Calls PROVE Counted(d)' /\ Ended(d)'
    BY <1>6 DEF TimePasses, Inv, Counted, Ended, HeardGood
  <2> QED BY <2>1, <2>2 DEF Inv
<1>7. ASSUME NEW c \in Calls, NEW reply \in Replies, Reply(c, reply) PROVE Inv'
  <2>0. /\ pc[c] = "waiting"
        /\ cache' = IF Key[c] # NoCache /\ reply \in Responses
                    THEN [cache EXCEPT ![Key[c]] = reply] ELSE cache
        /\ heard' = [heard EXCEPT ![c] = @ \cup {reply}]
        /\ UNCHANGED <<attempts, expired, requests>>
    BY <1>7 DEF Reply
  <2>1. attempts[c] \in Nat
    BY DEF Inv, TypeOK
  <2>2. /\ pc' \in [Calls -> {"idle", "trying", "waiting", "done"}]
        /\ outcome' \in [Calls -> {"none", "ok", "provider_failure", "budget_exceeded"}]
        /\ failure' \in [Calls -> Replies \cup {Nothing}]
        /\ \A d \in Calls \ {c} : pc'[d] = pc[d] /\ outcome'[d] = outcome[d] /\ failure'[d] = failure[d]
        /\ \/ reply = "good" /\ pc'[c] = "done" /\ outcome'[c] = "ok"
           \/ reply # "good" /\ pc'[c] = "trying" /\ attempts[c] # Retries + 1 /\ outcome'[c] = outcome[c]
           \/ /\ reply # "good" /\ pc'[c] = "done" /\ outcome'[c] = "provider_failure"
              /\ failure'[c] = reply /\ (Retryable(reply) => attempts[c] = Retries + 1)
    BY <1>0, <1>7, <2>1, SettleEffect DEF Reply
  <2>3. heard' \in [Calls -> SUBSET Replies] /\ cache' \in [Keys -> Responses \cup {Nothing}]
    BY <2>0 DEF Inv, TypeOK
  <2>4. TypeOK'
    BY <2>0, <2>2, <2>3 DEF Inv, TypeOK
  <2>5. \A d \in Calls : heard[d] \subseteq heard'[d] /\ (d # c => heard'[d] = heard[d])
    BY <2>0 DEF Inv, TypeOK
  <2>6. reply \in heard'[c]
    BY <2>0 DEF Inv, TypeOK
  <2>7. Fit'
    <3> SUFFICES ASSUME NEW k \in Keys, cache'[k] = "good"
                 PROVE \E d \in Calls : "good" \in heard'[d] /\ Key[d] = k
      BY DEF Fit
    <3>1. CASE cache[k] = "good"
      BY <2>5, <3>1 DEF Inv, Fit
    <3>2. CASE cache[k] # "good"
      <4>1. k = Key[c] /\ reply = "good"
        BY <2>0, <3>2 DEF Inv, TypeOK
      <4> QED BY <2>6, <4>1
    <3> QED BY <3>1, <3>2
  <2>8. ASSUME NEW d \in Calls PROVE Counted(d)' /\ Ended(d)'
    <3>1. HeardGood(d) => HeardGood(d)'
      BY <2>5 DEF HeardGood
    <3>2. Counted(d)'
      BY <2>0, <2>2 DEF Inv, Counted, TypeOK
    <3>3. CASE d # c
      BY <2>0, <2>2, <2>5, <3>1, <3>2, <3>3 DEF Inv, Ended
    <3>4. CASE d = c
      <4>1. reply = "good" => HeardGood(c)'
        BY <2>6 DEF HeardGood
      <4>2. heard'[c] # {}
        BY <2>6
      <4>3. outcome[c] = "none" /\ attempts'[c] = attempts[c]
        BY <2>0 DEF Inv, Ended
      <4> QED BY <2>2, <3>2, <3>4, <4>1, <4>2, <4>3 DEF Ended
    <3> QED BY <3>3, <3>4
  <2> QED BY <2>4, <2>7, <2>8 DEF Inv
<1>8. ASSUME NEW c \in Calls, ListingFails(c) PROVE Inv'
  <2>0. /\ pc[c] = "trying" /\ attempts[c] < MaxAttempts[c] /\ c \in Ambiguous
        /\ attempts' = [attempts EXCEPT ![c] = @ + 1]
        /\ pc' = [pc EXCEPT ![c] = "done"]
        /\ outcome' = [outcome EXCEPT ![c] = "provider_failure"]
        /\ UNCHANGED <<expired, failure, cache, requests, heard>>
    BY <1>8 DEF ListingFails, CanAttempt, End
  <2>1. TypeOK' /\ Fit'
    BY <2>0 DEF Inv, TypeOK, Fit
  <2>2. ~Retryable(Nothing)
    BY DEF Retryable, Replies, Responses, Errors
  <2>3. ASSUME NEW d \in Calls PROVE Counted(d)' /\ Ended(d)'
    <3>1. HeardGood(d)' <=> HeardGood(d)
      BY <2>0 DEF HeardGood
    <3>2. Counted(d)'
      BY <2>0 DEF Inv, Counted, TypeOK
    <3>3. CASE d = c
      <4>1. failure'[c] = Nothing /\ pc'[c] = "done" /\ outcome'[c] = "provider_failure"
        BY <2>0 DEF Inv, Counted, TypeOK
      <4> QED
        BY <2>0, <2>2, <3>2, <3>3, <4>1 DEF Ended
    <3>4. CASE d # c
      BY <2>0, <3>1, <3>2, <3>4 DEF Inv, Ended, TypeOK
    <3> QED BY <3>3, <3>4
  <2> QED BY <2>1, <2>3 DEF Inv
<1>9. CASE UNCHANGED vars
  <2>1. TypeOK' /\ Fit'
    BY <1>9 DEF vars, Inv, TypeOK, Fit
  <2>2. ASSUME NEW d \in Calls PROVE Counted(d)' /\ Ended(d)'
    BY <1>9 DEF vars, Inv, Counted, Ended, HeardGood
  <2> QED BY <2>1, <2>2 DEF Inv
<1> QED
  BY <1>1, <1>2, <1>3, <1>4, <1>5, <1>6, <1>7, <1>8, <1>9 DEF Next, Run, Finished

LEMMA InvAlways == Spec => []Inv
  BY InitInv, NextInv, PTL DEF Spec

\* The variables of the provider phase keep their types; the cache holds
\* responses only, never the error a request ended with.
THEOREM ProviderTypes == Spec => []TypeOK
<1>1. Inv => TypeOK
  BY DEF Inv
<1> QED BY <1>1, InvAlways, PTL

\* The model receives at most max_network_attempts and at most retries + 1
\* requests of a compilation.
THEOREM BudgetsHold == Spec => []RequestsWithinBudget
<1>1. ASSUME Inv, NEW c \in Calls
      PROVE requests[c] <= MaxAttempts[c] /\ requests[c] <= Retries + 1
  <2>1. requests[c] \in Nat /\ attempts[c] \in Nat /\ MaxAttempts[c] \in Nat /\ Retries \in Nat
    BY <1>1, ProviderAssumption DEF Inv, TypeOK
  <2> QED
    BY <1>1, <2>1 DEF Inv, Counted
<1>2. Inv => RequestsWithinBudget
  BY <1>1 DEF RequestsWithinBudget
<1> QED BY <1>2, InvAlways, PTL

\* A compilation goes on only with an answer fit for use that the model gave
\* to it or, through the cache, to a compilation of the same key.
THEOREM CandidatesWereHeard == Spec => []SuccessWasHeard
<1>1. Inv => SuccessWasHeard
  BY DEF Inv, Ended, HeardGood, SuccessWasHeard
<1> QED BY <1>1, InvAlways, PTL

\* A silent model never becomes a result, nor a provider failure of a call that got
\* as far as asking it: the only failure without an answer is that of the listing of
\* the contracts, before the first request.
THEOREM SilenceIsNoFailure == Spec => []SilenceIsBudget
<1>1. Inv => SilenceIsBudget
  BY DEF Inv, Counted, Ended, SilenceIsBudget, TypeOK
<1> QED BY <1>1, InvAlways, PTL

\* Without a cache a retryable failure is reported only after retries + 1
\* requests.
THEOREM RetriesTakeEffect == Spec => []RetriesAreUsed
<1>1. Inv => RetriesAreUsed
  <2> SUFFICES ASSUME Inv, NEW c \in Calls, Key[c] = NoCache,
                      outcome[c] = "provider_failure", Retryable(failure[c])
               PROVE  requests[c] = Retries + 1
    BY DEF RetriesAreUsed
  <2>1. c \notin Ambiguous
    BY ProviderAssumption DEF Inv, Counted, Retryable, Replies, Responses, Errors
  <2> QED
    BY <2>1 DEF Inv, Ended, Counted
<1> QED BY <1>1, InvAlways, PTL
=============================================================================
