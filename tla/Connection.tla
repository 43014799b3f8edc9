----------------------------- MODULE Connection -----------------------------
(***************************************************************************)
(* One WSHDDcoinConnection and the two nodes at its ends: send_request,    *)
(* its timeout task, inbound_handler, the API calls and their replies, and *)
(* close.  A request is matched to its response by a nonce, which each end *)
(* takes from a range of its own.  Messages may overtake one another: one  *)
(* that the rate limiter holds back is sent a second later.                *)
(***************************************************************************)
EXTENDS Integers, FiniteSets, Functions

CONSTANTS
    Side,          \* the two ends, "out" (it opened the connection) and "in"
    Request,       \* the calls of send_request ...
    SideOf,        \* ... and the end that makes each
    NonceCount,    \* 2^15 in the code
    Cancelled,     \* the requests whose calling task may be cancelled
    ClosesAtOnce   \* the ends where close may run to its end without a wait

VARIABLES
    nonce,                     \* request_nonce of each end
    pending_requests,          \* of each end: id -> the request whose event it is
    request_results,           \* of each end: id -> the message stored for it
    event,                     \* the requests whose event is set
    call,                      \* where each call of send_request is
    id, result,                \* the id of each request, and what it returned
    timer,                     \* where the timeout task of each request is
    pending_timeouts,          \* of each end: id -> the request whose timeout task it is
    wire,                      \* the messages queued or under way, by addressee
    api,                       \* the messages each end has handed to its API
    closed                     \* "no", "closing" or "done", for each end

vars == <<nonce, pending_requests, request_results, event, call, id, result, timer,
          pending_timeouts, wire, api, closed>>
requests == <<nonce, id, pending_timeouts>>

Other(s) == CHOOSE o \in Side : o # s
NoMessage == [kind |-> "none"]
Message == [kind : {"request", "response"}, id : 0 .. (2 * NonceCount - 1), of : Request]
Empty == [x \in {} |-> NoMessage]

With(f, k, v) == [x \in DOMAIN f \cup {k} |-> IF x = k THEN v ELSE f[x]]
Without(f, k) == Restrict(f, DOMAIN f \ {k})

-----------------------------------------------------------------------------

\* The first nonce of an end, and the one after n.
FirstNonce(s) == IF s = "out" THEN 0 ELSE NonceCount
NextNonce(s, n) == IF n = FirstNonce(s) + NonceCount - 1 THEN FirstNonce(s) ELSE n + 1

Init ==
    /\ nonce = [s \in Side |-> FirstNonce(s)]
    /\ pending_requests = [s \in Side |-> Empty] /\ request_results = [s \in Side |-> Empty]
    /\ event = {} /\ call = [r \in Request |-> "idle"]
    /\ id = [r \in Request |-> 0] /\ result = [r \in Request |-> NoMessage]
    /\ timer = [r \in Request |-> "none"] /\ pending_timeouts = [s \in Side |-> Empty]
    /\ wire = [s \in Side |-> {}] /\ api = [s \in Side |-> {}]
    /\ closed = [s \in Side |-> "no"]

\* A bound in place of 2^15 requests: a nonce comes round again only when nothing
\* of its earlier use is under way (no message, no waiting call, no timeout).
Settled(s, n) ==
    /\ \A o \in Side : \A m \in wire[o] \cup api[o] : m.id # n
    /\ \A r \in Request :
          SideOf[r] = s /\ id[r] = n => call[r] # "waiting" /\ timer[r] \in {"none", "over"}

\* send_request up to the wait for the event.
send_request(r) ==
    LET s == SideOf[r]
        n == nonce[s]
    IN  /\ call[r] = "idle" /\ closed[s] = "no" /\ Settled(s, n)
        /\ nonce' = [nonce EXCEPT ![s] = NextNonce(s, n)]
        /\ id' = [id EXCEPT ![r] = n]
        /\ pending_requests' = [pending_requests EXCEPT ![s] = With(@, n, r)]
        /\ wire' = [wire EXCEPT ![Other(s)] = @ \cup {[kind |-> "request", id |-> n, of |-> r]}]
        /\ timer' = [timer EXCEPT ![r] = "created"]
        /\ pending_timeouts' = [pending_timeouts EXCEPT ![s] = With(@, n, r)]
        /\ call' = [call EXCEPT ![r] = "waiting"]
        /\ UNCHANGED <<request_results, event, result, api, closed>>

\* send_request on a closed connection.
send_request_closed(r) ==
    /\ call[r] = "idle" /\ closed[SideOf[r]] # "no"
    /\ call' = [call EXCEPT ![r] = "returned"]
    /\ UNCHANGED <<requests, pending_requests, request_results, event, result, timer, wire, api, closed>>

\* The event that the timeout tasks of R set: that of whoever is pending under their ids.
EventsOf(R) ==
    {pending_requests[SideOf[r]][id[r]] :
        r \in {q \in R : id[q] \in DOMAIN pending_requests[SideOf[q]]}}

\* The timeout task gets its first turn, and later its timeout passes.
TimerStart(r) ==
    /\ timer[r] = "created"
    /\ timer' = [timer EXCEPT ![r] = "sleeping"]
    /\ UNCHANGED <<requests, pending_requests, request_results, event, call, result, wire, api, closed>>

time_out(r) ==
    /\ timer[r] = "sleeping"
    /\ timer' = [timer EXCEPT ![r] = "over"]
    /\ event' = event \cup EventsOf({r})
    /\ UNCHANGED <<requests, pending_requests, request_results, call, result, wire, api, closed>>

\* A mutant: the result of a request is left in request_results.
ReturnedKeeps(r) ==
    LET s == SideOf[r]
        n == id[r]
    IN  /\ call[r] = "waiting" /\ r \in event
        /\ pending_requests' = [pending_requests EXCEPT ![s] = Without(@, n)]
        /\ result' = [result EXCEPT ![r] = IF n \in DOMAIN request_results[s] THEN request_results[s][n] ELSE NoMessage]
        /\ call' = [call EXCEPT ![r] = "returned"]
        /\ UNCHANGED <<requests, request_results, event, timer, wire, api, closed>>

\* send_request after the wait.
Returned(r) ==
    LET s == SideOf[r]
        n == id[r]
    IN  /\ call[r] = "waiting" /\ r \in event
        /\ pending_requests' = [pending_requests EXCEPT ![s] = Without(@, n)]
        /\ result' = [result EXCEPT ![r] = IF n \in DOMAIN request_results[s] THEN request_results[s][n] ELSE NoMessage]
        /\ request_results' = [request_results EXCEPT ![s] = Without(@, n)]
        /\ call' = [call EXCEPT ![r] = "returned"]
        /\ UNCHANGED <<requests, event, timer, wire, api, closed>>

\* The task that waits in send_request is cancelled (its API call's peer is gone, or
\* the call took too long).
Cancel(r) ==
    /\ r \in Cancelled /\ call[r] = "waiting"
    /\ call' = [call EXCEPT ![r] = "cancelled"]
    /\ UNCHANGED <<requests, pending_requests, request_results, event, result, timer, wire, api, closed>>

-----------------------------------------------------------------------------

\* inbound_handler, for one message that arrives at s.
inbound_handler(s, m) ==
    /\ closed[s] = "no" /\ m \in wire[s]
    /\ wire' = [wire EXCEPT ![s] = @ \ {m}]
    /\ IF m.id \in DOMAIN pending_requests[s]
       THEN /\ request_results' = [request_results EXCEPT ![s] = With(@, m.id, m)]
            /\ event' = event \cup {pending_requests[s][m.id]}
            /\ UNCHANGED api
       ELSE /\ api' = [api EXCEPT ![s] = @ \cup {m}]
            /\ UNCHANGED <<request_results, event>>
    /\ UNCHANGED <<requests, pending_requests, call, result, timer, closed>>

\* api_call ends: a request is replied to, or its handler returns None; a response
\* that came too late is only logged.
api_call(s, m) ==
    /\ m \in api[s]
    /\ api' = [api EXCEPT ![s] = @ \ {m}]
    /\ \/ /\ m.kind = "request" /\ closed[s] = "no"
          /\ wire' = [wire EXCEPT ![Other(s)] = @ \cup {[m EXCEPT !.kind = "response"]}]
       \/ UNCHANGED wire
    /\ UNCHANGED <<requests, pending_requests, request_results, event, call, result, timer, closed>>

\* A message is lost with the connection.
Lose(s, m) ==
    /\ m \in wire[s] /\ closed # [o \in Side |-> "no"]
    /\ wire' = [wire EXCEPT ![s] = @ \ {m}]
    /\ UNCHANGED <<requests, pending_requests, request_results, event, call, result, timer, api, closed>>

\* cancel_pending_timeouts.  A task that sleeps sets the event it is for; one that
\* has not had its first turn has not entered its `try` and sets nothing.
cancel_pending_timeouts(s) ==
    LET mine == Range(pending_timeouts[s])
    IN  /\ event' = event \cup EventsOf({r \in mine : timer[r] = "sleeping"})
        /\ timer' = [r \in Request |-> IF r \in mine /\ timer[r] # "none" THEN "over" ELSE timer[r]]

\* close: at once when the socket is closed already and there is no session to
\* close, else with a wait in between.
close(s) ==
    /\ closed[s] = "no"
    /\ \/ /\ s \in ClosesAtOnce
          /\ cancel_pending_timeouts(s)
          /\ closed' = [closed EXCEPT ![s] = "done"]
       \/ /\ closed' = [closed EXCEPT ![s] = "closing"]
          /\ UNCHANGED <<event, timer>>
    /\ UNCHANGED <<requests, pending_requests, request_results, call, result, wire, api>>

\* After the wait.  Tasks that were ready before it have had their turn.
close_end(s) ==
    /\ closed[s] = "closing"
    /\ \A r \in Range(pending_timeouts[s]) : timer[r] # "created"
    /\ cancel_pending_timeouts(s)
    /\ closed' = [closed EXCEPT ![s] = "done"]
    /\ UNCHANGED <<requests, pending_requests, request_results, call, result, wire, api>>

-----------------------------------------------------------------------------
Next ==
    \/ \E r \in Request : \/ send_request(r) \/ send_request_closed(r)
                          \/ TimerStart(r) \/ time_out(r) \/ Returned(r) \/ Cancel(r)
    \/ \E s \in Side : \/ close(s) \/ close_end(s)
                       \/ \E m \in wire[s] : inbound_handler(s, m) \/ Lose(s, m)
                       \/ \E m \in api[s] : api_call(s, m)

Spec == Init /\ [][Next]_vars

-----------------------------------------------------------------------------
\* The state has the types of the connection's attributes.
TypeOK ==
    /\ \A s \in Side : nonce[s] \in FirstNonce(s) .. (FirstNonce(s) + NonceCount - 1)
    /\ \A s \in Side :
          /\ Range(pending_requests[s]) \cup Range(pending_timeouts[s]) \subseteq Request
          /\ Range(request_results[s]) \cup wire[s] \cup api[s] \subseteq Message
    /\ event \subseteq Request
    /\ \A r \in Request : result[r] \in Message \cup {NoMessage}

\* "The request nonce ... is used to match requests to responses": what a call
\* returns is the response to its own request, or nothing.
AnswerIsOwn ==
    \A r \in Request : result[r] # NoMessage => result[r].kind = "response" /\ result[r].of = r

\* A waiting call still owns the entry under its id, so that the pop after the wait
\* finds it and removes no other call's entry.
WaitingIsPending ==
    \A r \in Request :
        call[r] = "waiting" =>
            id[r] \in DOMAIN pending_requests[SideOf[r]] /\ pending_requests[SideOf[r]][id[r]] = r
=============================================================================
