---------------------------- MODULE HttpExchange ----------------------------
(***************************************************************************)
(* What mega_http_client_post_simple (mega/mega-http-client.c:690-772)     *)
(* promises its caller, with no connection and no bytes: each request ends *)
(* once, with an error or with the whole body of the answer to that very   *)
(* request, and never with a body larger than MaxSimple.                   *)
(***************************************************************************)
EXTENDS Naturals

CONSTANTS MaxRequests, MaxSimple, Lengths

VARIABLES
    number,   \* requests made so far
    busy,     \* a request is being made
    answer    \* how the last one ended

Pending == [kind |-> "pending", req |-> 0, announced |-> 0, received |-> 0]
Failure == [Pending EXCEPT !.kind = "error"]
Body(r, n) == [kind |-> "body", req |-> r, announced |-> n, received |-> n]

Init == number = 0 /\ busy = FALSE /\ answer = Pending

Request ==
    /\ ~busy /\ number < MaxRequests
    /\ number' = number + 1 /\ busy' = TRUE /\ answer' = Pending

Answer ==
    /\ busy
    /\ busy' = FALSE
    /\ answer' \in {Failure} \cup {Body(number, n) : n \in {l \in Lengths : l <= MaxSimple}}
    /\ UNCHANGED number

\* A request that cannot even be sent fails on the spot.
Refuse ==
    /\ ~busy /\ number < MaxRequests
    /\ number' = number + 1 /\ answer' = Failure
    /\ UNCHANGED busy

Next == Request \/ Answer \/ Refuse

\* What may happen, whether or not anything does.
Safety == Init /\ [][Next]_<<number, busy, answer>>

\* A request that was made is answered: the caller is never left waiting.
Spec == Safety /\ WF_<<number, busy, answer>>(Answer)
=============================================================================
