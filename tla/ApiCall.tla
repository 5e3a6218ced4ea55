------------------------------ MODULE ApiCall -------------------------------
(***************************************************************************)
(* One command to the Mega API: api_call, api_request, api_request_unsafe  *)
(* and api_response_check (libtools/oldmega.c:1190-1411).  An attempt is   *)
(* one mega_http_client_post_simple, of which only the outcomes            *)
(* HttpExchange promises are kept.  The server may carry a command out and *)
(* its answer may still be lost on the way back.                           *)
(***************************************************************************)
EXTENDS Naturals, FiniteSets

CONSTANTS
    InitialDelay,  \* first pause, 250000 us
    MaxDelay,      \* longest pause before giving up, 64 * 1000 * 1000 us
    MaxCalls       \* bound: commands in a behaviour

ASSUME DelaysAssumption ==
    /\ InitialDelay \in Nat \ {0}
    /\ MaxDelay \in Nat /\ InitialDelay <= MaxDelay
    /\ MaxCalls \in Nat

VARIABLES
    \* the session
    calls,     \* commands so far
    id,        \* s->id, the id of the last attempt
    phase,     \* "idle", "attempt", "sent", "answered", "received", "sleep"
    delay,     \* the next pause
    response,  \* what api_request_unsafe returned
    verdict,    \* what api_call returned last
    \* the server and the network, for the current command
    reply,     \* the answer on its way back
    executed,  \* ids of the attempts that carried the command out
    lost,      \* answers lost after that
    slept      \* time spent in pauses

apiVars == <<calls, id, phase, delay, response, verdict, reply, executed, lost, slept>>

\* A response to one command: an element of the expected type, something
\* else (another type, an empty array, a non-negative number), a negative
\* number alone or in the array, the number SRV_EAGAIN, or no valid JSON.
Replies == {"value", "unexpected", "error", "EAGAIN", "invalid"}
HttpErrors == {"CONNECTION_BROKEN", "SERVER_BUSY", "OTHER"}
Results == {"none", "ok", "server_error", "unexpected", "gave_up", "http_error", "invalid"}

ApiTypeOK ==
    /\ calls \in Nat /\ id \in Nat
    /\ phase \in {"idle", "attempt", "sent", "answered", "received", "sleep"}
    /\ delay \in Nat /\ slept \in Nat
    /\ response \in Replies \cup {"none"} /\ reply \in Replies \cup {"none"}
    /\ verdict \in Results
    /\ executed \in SUBSET (0 .. id) /\ lost \in Nat

ApiInit ==
    /\ calls = 0 /\ id = 0 /\ phase = "idle"
    /\ delay = InitialDelay /\ slept = 0
    /\ response = "none" /\ reply = "none" /\ verdict = "none"
    /\ executed = {} /\ lost = 0

\* api_call builds the request and api_request starts with the first pause.
Call ==
    /\ phase = "idle" /\ calls < MaxCalls
    /\ calls' = calls + 1
    /\ phase' = "attempt" /\ delay' = InitialDelay
    /\ response' = "none" /\ verdict' = "none"
    /\ executed' = {} /\ lost' = 0 /\ slept' = 0
    /\ UNCHANGED <<id, reply>>

\* Every attempt has an id of its own: s->id++.
Attempt ==
    /\ phase = "attempt"
    /\ id' = id + 1 /\ phase' = "sent"
    /\ UNCHANGED <<calls, delay, response, verdict, reply, executed, lost, slept>>

\* The server carries the command out and answers; no id keeps it from doing
\* so again.
Execute ==
    /\ phase = "sent"
    /\ executed' = executed \cup {id}
    /\ reply' \in {"value", "unexpected", "invalid"}
    /\ phase' = "answered"
    /\ UNCHANGED <<calls, id, delay, response, verdict, lost, slept>>

\* The server refuses it, or asks to be asked again.
Decline ==
    /\ phase = "sent"
    /\ reply' \in {"error", "EAGAIN", "unexpected", "invalid"}
    /\ phase' = "answered"
    /\ UNCHANGED <<calls, id, delay, response, verdict, executed, lost, slept>>

\* api_request_unsafe on a post_simple that failed with e: a broken
\* connection and a busy server count as SRV_EAGAIN, other errors end the call.
HttpFailed(e) ==
    IF e \in {"CONNECTION_BROKEN", "SERVER_BUSY"}
    THEN response' = "EAGAIN" /\ phase' = "received" /\ UNCHANGED verdict
    ELSE response' = "none" /\ phase' = "idle" /\ verdict' = "http_error"

\* The request never reached the server.
RequestLost ==
    /\ phase = "sent"
    /\ \E e \in HttpErrors : HttpFailed(e)
    /\ UNCHANGED <<calls, id, delay, reply, executed, lost, slept>>

\* The answer never reached the client, or not the whole of it.
AnswerLost ==
    /\ phase = "answered"
    /\ \E e \in {"CONNECTION_BROKEN", "OTHER"} : HttpFailed(e)
    /\ reply' = "none"
    /\ lost' = IF id \in executed THEN lost + 1 ELSE lost
    /\ UNCHANGED <<calls, id, delay, executed, slept>>

\* Mutant of Receive: what is not JSON counts as SRV_EAGAIN.
ReceiveRetriesInvalid ==
    /\ phase = "answered"
    /\ reply' = "none" /\ response' = IF reply = "invalid" THEN "EAGAIN" ELSE reply
    /\ phase' = "received"
    /\ UNCHANGED <<calls, id, delay, verdict, executed, lost, slept>>

\* The answer arrives; what is not JSON ends the call.
Receive ==
    /\ phase = "answered"
    /\ reply' = "none" /\ response' = reply
    /\ IF reply = "invalid"
       THEN phase' = "idle" /\ verdict' = "invalid"
       ELSE phase' = "received" /\ UNCHANGED verdict
    /\ UNCHANGED <<calls, id, delay, executed, lost, slept>>

\* Mutants of Check: the type of the element is not compared with the expected
\* one; every response but the expected one is an error of the server; there
\* is no default.
CheckAnyType ==
    /\ phase = "received" /\ response # "EAGAIN"
    /\ phase' = "idle" /\ verdict' = IF response = "error" THEN "server_error" ELSE "ok"
    /\ UNCHANGED <<calls, id, delay, response, reply, executed, lost, slept>>

CheckNoDefault ==
    /\ phase = "received" /\ response \in {"value", "error"}
    /\ phase' = "idle" /\ verdict' = IF response = "value" THEN "ok" ELSE "server_error"
    /\ UNCHANGED <<calls, id, delay, response, reply, executed, lost, slept>>

\* api_response_check on anything that is not SRV_EAGAIN.
Check ==
    /\ phase = "received" /\ response # "EAGAIN"
    /\ phase' = "idle"
    /\ verdict' = CASE response = "value" -> "ok"
                   [] response = "error" -> "server_error"
                   [] OTHER -> "unexpected"
    /\ UNCHANGED <<calls, id, delay, response, reply, executed, lost, slept>>

Pause ==
    /\ phase = "received" /\ response = "EAGAIN" /\ phase' = "sleep"
    /\ UNCHANGED <<calls, id, delay, response, verdict, reply, executed, lost, slept>>

\* Mutant of Backoff: the pause just made is checked, not the next one.
BackoffChecksFirst ==
    /\ phase = "sleep"
    /\ slept' = slept + delay
    /\ delay' = 2 * delay
    /\ IF delay > MaxDelay
       THEN phase' = "idle" /\ verdict' = "gave_up"
       ELSE phase' = "attempt" /\ UNCHANGED verdict
    /\ UNCHANGED <<calls, id, response, reply, executed, lost>>

\* The exponential backoff of api_request: the pause comes before the check.
Backoff ==
    /\ phase = "sleep"
    /\ slept' = slept + delay
    /\ delay' = 2 * delay
    /\ IF 2 * delay > MaxDelay
       THEN phase' = "idle" /\ verdict' = "gave_up"
       ELSE phase' = "attempt" /\ UNCHANGED verdict
    /\ UNCHANGED <<calls, id, response, reply, executed, lost>>

ApiProgress ==
    \/ Attempt \/ Execute \/ Decline \/ RequestLost \/ AnswerLost
    \/ Receive \/ Check \/ Pause \/ Backoff

ApiNext == Call \/ ApiProgress

\* The thread that makes the call waits for nothing without a timeout.
ApiSpec == ApiInit /\ [][ApiNext]_apiVars /\ WF_apiVars(ApiProgress)

-----------------------------------------------------------------------------
\* The pauses of one call add up to less than twice the longest: retries are
\* bounded even when every attempt fails.
BoundedRetry ==
    /\ phase # "idle" => slept + InitialDelay = delay
    /\ slept < 2 * MaxDelay
    /\ phase \in {"attempt", "sent", "answered", "received", "sleep"} => delay <= MaxDelay

\* A command reported successful was carried out, by the attempt whose answer
\* was read and not by an earlier one.
SuccessWasExecuted == verdict = "ok" => id \in executed

\* Retrying a command that is not idempotent is safe as long as no answer is
\* lost: it is carried out twice only after a lost answer.
RepeatedOnlyAfterLoss == Cardinality(executed) <= lost + 1

\* A call the server refused, or that gave up, left nothing behind unless an
\* earlier answer was lost.
RefusalLeavesNothing ==
    verdict \in {"server_error", "gave_up"} /\ lost = 0 => executed = {}

\* What the caller is told is what the server did.
ResultIsTrue == SuccessWasExecuted /\ RefusalLeavesNothing

\* Every call returns.
CallReturns == (phase # "idle") ~> (phase = "idle")
=============================================================================
