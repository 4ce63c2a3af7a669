----------------------------- MODULE LiveQueries -----------------------------
(***************************************************************************)
(* The requests of one lookup to the ArcGIS map service.  A request is sent *)
(* again while its answer is a retryable status or a transport failure, up  *)
(* to MaxAttempts times.  The probes, and the scrutiny, wait for one of the  *)
(* Slots of their Pool and hold it during the delays between the attempts.   *)
(***************************************************************************)
EXTENDS FiniteSets, Naturals

CONSTANTS
    Requests,    \* every request that the lookup may make: <<kind, id>>
    Slots,       \* pool -> number of its requests in flight
    MaxAttempts  \* RetryPolicy.max_attempts

ASSUME RetryPolicy ==
    /\ MaxAttempts \in Nat \ {0}
    /\ Slots \in [{"probes", "scrutiny"} -> Nat \ {0}]

VARIABLE request  \* request -> its state, the attempts while it is sent, and what was found

Kind(r) == r[1]

\* The semaphore a request waits for.  Road and neighbour probes share one.
Pool(r) == IF Kind(r) \in {"road", "plot"} THEN "probes" ELSE Kind(r)

Limited(r) == Pool(r) \in DOMAIN Slots

Unsent == [state |-> "unsent", attempts |-> 0, found |-> {}]

Outcomes == {"answered", "malformed", "truncated", "failed"}

Sent(rs) ==
    [r \in Requests |->
        IF r \notin rs THEN request[r]
        ELSE IF Limited(r) THEN [Unsent EXCEPT !.state = "queued"]
        ELSE [Unsent EXCEPT !.state = "sent", !.attempts = 1]]

Ended(rs) == \A r \in rs : request[r].state \in Outcomes

InFlight(pool) == {r \in Requests : Pool(r) = pool /\ request[r].state = "sent"}

\* Mutant: the semaphore is left before the request.
AdmitAll(r) ==
    /\ request[r].state = "queued"
    /\ request' = [request EXCEPT ![r].state = "sent", ![r].attempts = 1]

Admit(r) ==
    /\ request[r].state = "queued"
    /\ Cardinality(InFlight(Pool(r))) < Slots[Pool(r)]
    /\ request' = [request EXCEPT ![r].state = "sent", ![r].attempts = 1]

\* Mutant: the count of the attempts starts over.
RetryForever(r) ==
    /\ request[r].state = "sent"
    /\ request' = [request EXCEPT ![r].attempts = (@ % MaxAttempts) + 1]

Retry(r) ==
    /\ request[r].state = "sent"
    /\ request[r].attempts < MaxAttempts
    /\ request' = [request EXCEPT ![r].attempts = @ + 1]

\* The last retryable answer, one that is not retried, or an error document.
Fail(r) ==
    /\ request[r].state = "sent"
    /\ request' = [request EXCEPT ![r] = [Unsent EXCEPT !.state = "failed"]]

Answer(r, outcome, found) ==
    /\ request[r].state = "sent"
    /\ request' = [request EXCEPT ![r] = [Unsent EXCEPT !.state = outcome, !.found = found]]

\* A step of request r that does not depend on what it is about.
Transport(r) == Admit(r) \/ Retry(r) \/ Fail(r)

=============================================================================
