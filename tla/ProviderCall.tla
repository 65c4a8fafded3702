---------------------------- MODULE ProviderCall ----------------------------
(***************************************************************************)
(* The provider phase of CompilerPipeline.compile                          *)
(* (src/taskc/compiler/pipeline.py) with a ModelInterpretationProvider     *)
(* (src/taskc/providers/model.py): one logical call, retried within the    *)
(* ProviderBudget, cancelled by asyncio.timeout, optionally behind the     *)
(* CachedStructuredModelProvider (src/taskc/providers/cache.py) that       *)
(* concurrent compilations of the same request share.                      *)
(*                                                                         *)
(* The model is outside: it answers any outstanding request with any       *)
(* reply, or never.  An attempt first lists the active contracts for the   *)
(* model, which raises when two versions of a capability are of equal      *)
(* precedence.                                                             *)
(***************************************************************************)
EXTENDS Integers

CONSTANTS
  Calls,          \* the compilations
  Keys,           \* cache keys: a key stands for one request and catalog
  Key,            \* call -> its cache key, or NoCache when not cached
  NoCache, Nothing,
  Ambiguous,      \* the calls whose catalog has such versions
  Retries,        \* ModelInterpretationProvider.retries
  MaxLogical,     \* call -> max_logical_model_calls of its compiler
  MaxAttempts     \* call -> max_network_attempts of its compiler

\* Structured answers: fit for use, violating the response schema, or unusable
\* because larger than max_response_bytes or naming a capability that is not in the
\* catalog: neither is retried.
Responses == {"good", "malformed", "unusable"}

\* What a client may raise.  OpenAICompatibleProvider._request makes a retryable
\* ProviderError of its timeout, of 429, of 5xx and of a failed connection, and a
\* fatal one of any other status and of a reply it cannot read; what neither it nor
\* interpret catches is fatal too.  Another client may raise TimeoutError itself.
Errors == {"transient", "fatal", "timeout"}

Replies == Responses \cup Errors

ASSUME ProviderAssumption ==
  /\ Key \in [Calls -> Keys \cup {NoCache}]
  /\ NoCache \notin Keys
  /\ Nothing \notin Replies
  /\ Ambiguous \subseteq Calls
  /\ Retries \in Nat
  /\ MaxLogical \in [Calls -> Nat]
  /\ MaxAttempts \in [Calls -> Nat]

VARIABLES
  pc,             \* call -> idle, trying, waiting (on the model) or done
  outcome,        \* call -> how the provider phase ended
  attempts,       \* call -> ProviderBudget.network_attempts
  expired,        \* call -> max_provider_time_seconds have passed
  failure,        \* call -> last_failure of interpret
  cache,          \* key -> the cached response
  requests,       \* call -> requests the model received (history)
  heard           \* call -> replies the model gave it in time (history)

vars == <<pc, outcome, attempts, expired, failure, cache, requests, heard>>

Init ==
  /\ pc = [c \in Calls |-> "idle"]
  /\ outcome = [c \in Calls |-> "none"]
  /\ attempts = [c \in Calls |-> 0]
  /\ expired = [c \in Calls |-> FALSE]
  /\ failure = [c \in Calls |-> Nothing]
  /\ cache = [k \in Keys |-> Nothing]
  /\ requests = [c \in Calls |-> 0]
  /\ heard = [c \in Calls |-> {}]

End(c, result) ==
  /\ pc' = [pc EXCEPT ![c] = "done"]
  /\ outcome' = [outcome EXCEPT ![c] = result]

\* Faulty variant of CanAttempt: the attempts are not counted.
CanAttemptForever(c) == ~expired[c]

\* consume_network_attempt: time left and an attempt left.
CanAttempt(c) == ~expired[c] /\ attempts[c] < MaxAttempts[c]

\* The failures interpret catches and tries again.
Retryable(reply) == reply \in {"malformed", "transient"}

\* Faulty variant of LastAttempt: the range stops one attempt early.
LastAttemptEarly(n) == n >= Retries

\* The loop over range(retries + 1) has no further attempt.
LastAttempt(n) == n = Retries + 1

\* Faulty variant of Settle: a failed provider means no candidates.
SettleAsEmpty(c, reply, n) ==
  /\ failure' = [failure EXCEPT ![c] = IF reply = "good" THEN @ ELSE reply]
  /\ End(c, "ok")

\* What interpret and the pipeline make of the n-th attempt's reply.
Settle(c, reply, n) ==
  /\ failure' = [failure EXCEPT ![c] = IF reply = "good" THEN @ ELSE reply]
  /\ IF reply = "good" THEN End(c, "ok")
     ELSE IF Retryable(reply) /\ ~LastAttempt(n)
     THEN pc' = [pc EXCEPT ![c] = "trying"] /\ UNCHANGED outcome
     ELSE End(c, "provider_failure")

-----------------------------------------------------------------------------
\* The pipeline starts the provider, which consumes its logical call.
Start(c) ==
  /\ pc[c] = "idle"
  /\ IF MaxLogical[c] = 0 THEN End(c, "budget_exceeded")
     ELSE pc' = [pc EXCEPT ![c] = "trying"] /\ UNCHANGED outcome
  /\ UNCHANGED <<attempts, expired, failure, cache, requests, heard>>

\* The budget refuses another attempt.
OverBudget(c) ==
  /\ pc[c] = "trying"
  /\ ~CanAttempt(c)
  /\ End(c, "budget_exceeded")
  /\ UNCHANGED <<attempts, expired, failure, cache, requests, heard>>

\* catalog.active_contracts raises before the cache or the model are asked.  The
\* loop does not catch its ContractValidationError, the pipeline does.
ListingFails(c) ==
  /\ pc[c] = "trying"
  /\ CanAttempt(c)
  /\ c \in Ambiguous
  /\ attempts' = [attempts EXCEPT ![c] = @ + 1]
  /\ End(c, "provider_failure")
  /\ UNCHANGED <<expired, failure, cache, requests, heard>>

Hits(c) == Key[c] # NoCache /\ cache[Key[c]] # Nothing

\* The attempt is answered by the cache, without suspending.
Hit(c) ==
  /\ pc[c] = "trying"
  /\ CanAttempt(c)
  /\ c \notin Ambiguous
  /\ Hits(c)
  /\ attempts' = [attempts EXCEPT ![c] = @ + 1]
  /\ Settle(c, cache[Key[c]], attempts[c] + 1)
  /\ UNCHANGED <<expired, cache, requests, heard>>

\* The attempt goes to the model and the call is suspended.
Ask(c) ==
  /\ pc[c] = "trying"
  /\ CanAttempt(c)
  /\ c \notin Ambiguous
  /\ ~Hits(c)
  /\ attempts' = [attempts EXCEPT ![c] = @ + 1]
  /\ requests' = [requests EXCEPT ![c] = @ + 1]
  /\ pc' = [pc EXCEPT ![c] = "waiting"]
  /\ UNCHANGED <<outcome, expired, failure, cache, heard>>

\* Faulty variant of Reply: whatever the request ended with is cached.
ReplyCachesErrors(c, reply) ==
  /\ pc[c] = "waiting"
  /\ cache' = IF Key[c] # NoCache THEN [cache EXCEPT ![Key[c]] = reply] ELSE cache
  /\ heard' = [heard EXCEPT ![c] = @ \cup {reply}]
  /\ Settle(c, reply, attempts[c])
  /\ UNCHANGED <<attempts, expired, requests>>

\* The model's reply resumes the call; a response is cached as it came.
Reply(c, reply) ==
  /\ pc[c] = "waiting"
  /\ cache' = IF Key[c] # NoCache /\ reply \in Responses
              THEN [cache EXCEPT ![Key[c]] = reply] ELSE cache
  /\ heard' = [heard EXCEPT ![c] = @ \cup {reply}]
  /\ Settle(c, reply, attempts[c])
  /\ UNCHANGED <<attempts, expired, requests>>

\* Faulty variant of Cancel: the deadline is taken for the model's own timeout.
CancelAsFailure(c) ==
  /\ pc[c] = "waiting"
  /\ expired[c]
  /\ End(c, "provider_failure")
  /\ UNCHANGED <<attempts, expired, failure, cache, requests, heard>>

\* Faulty variant of Cancel: the deadline is only seen between two attempts.
CancelNever(c) ==
  /\ pc[c] = "trying"
  /\ expired[c]
  /\ End(c, "budget_exceeded")
  /\ UNCHANGED <<attempts, expired, failure, cache, requests, heard>>

\* asyncio.timeout cancels the suspended call; a later reply is dropped.
Cancel(c) ==
  /\ pc[c] = "waiting"
  /\ expired[c]
  /\ End(c, "budget_exceeded")
  /\ UNCHANGED <<attempts, expired, failure, cache, requests, heard>>

\* max_provider_time_seconds pass.
TimePasses(c) ==
  /\ pc[c] \in {"trying", "waiting"}
  /\ ~expired[c]
  /\ expired' = [expired EXCEPT ![c] = TRUE]
  /\ UNCHANGED <<pc, outcome, attempts, failure, cache, requests, heard>>

Finished == (\A c \in Calls : pc[c] = "done") /\ UNCHANGED vars

Run(c) == OverBudget(c) \/ ListingFails(c) \/ Hit(c) \/ Ask(c) \/ Cancel(c)

Next == \/ \E c \in Calls : Start(c) \/ Run(c) \/ TimePasses(c)
        \/ \E c \in Calls, reply \in Replies : Reply(c, reply)
        \/ Finished

Spec == Init /\ [][Next]_vars

\* The event loop runs what is ready or time passes; the model need not reply.
FairSpec == Spec /\ \A c \in Calls : WF_vars(Run(c) \/ TimePasses(c))

-----------------------------------------------------------------------------
(* Properties.                                                             *)

TypeOK ==
  /\ pc \in [Calls -> {"idle", "trying", "waiting", "done"}]
  /\ outcome \in [Calls -> {"none", "ok", "provider_failure", "budget_exceeded"}]
  /\ attempts \in [Calls -> Nat]
  /\ expired \in [Calls -> BOOLEAN]
  /\ failure \in [Calls -> Replies \cup {Nothing}]
  /\ cache \in [Keys -> Responses \cup {Nothing}]
  /\ requests \in [Calls -> Nat]
  /\ heard \in [Calls -> SUBSET Replies]

\* The model never receives more requests than the budget and the retries
\* allow, whatever the cache and the clock do in between.
RequestsWithinBudget ==
  \A c \in Calls : requests[c] <= MaxAttempts[c] /\ requests[c] <= Retries + 1

\* A compilation goes on to candidates only with an answer fit for use that
\* the model gave to this call, or to a call of the same key.
SuccessWasHeard ==
  \A c \in Calls : outcome[c] = "ok" =>
    \E d \in Calls : /\ "good" \in heard[d]
                     /\ d = c \/ (Key[c] = Key[d] /\ Key[c] # NoCache)

\* A call that the model never answered, and no cache could, is no result, and it
\* is a provider failure only when its contracts could not be listed, before any
\* request: silence ends as budget_exceeded.
SilenceIsBudget ==
  \A c \in Calls : (pc[c] = "done" /\ heard[c] = {} /\ Key[c] = NoCache) =>
    \/ outcome[c] = "budget_exceeded"
    \/ outcome[c] = "provider_failure" /\ c \in Ambiguous /\ requests[c] = 0

\* A retryable failure is reported only after the model itself was asked
\* retries + 1 times (a call without a cache).
RetriesAreUsed ==
  \A c \in Calls : (Key[c] = NoCache /\ outcome[c] = "provider_failure"
                      /\ Retryable(failure[c])) => requests[c] = Retries + 1

\* The same for a call behind the cache: the configured retries take effect.
CachedRetriesAreUsed ==
  \A c \in Calls : (Key[c] # NoCache /\ outcome[c] = "provider_failure"
                      /\ Retryable(failure[c])) => heard[c] = {} \/ requests[c] = Retries + 1

\* Every started call ends even if the model never replies (a call starts once, so
\* there comes a time when none of them is under way).
CallsEnd ==
  (\E c \in Calls : pc[c] = "trying") ~> (\A c \in Calls : pc[c] \in {"idle", "done"})
=============================================================================
