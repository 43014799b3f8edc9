--------------------------- MODULE ServiceProofs ----------------------------
(***************************************************************************)
(* The connections between the services and the services around the node,  *)
(* one section each: a request gets its own answer, the lists of           *)
(* connections agree, the farmer can sign for what it has announced, the   *)
(* daemon loses no process, and the timelord sends proofs of one state.    *)
(* Each section declares the state and the constants of the component it   *)
(* instantiates, states the property and proves it for all constants.      *)
(***************************************************************************)
EXTENDS Sequences, FiniteFacts

\* The provers of a step that names none, and the seconds they may take.
USE ZenonT(2), SMTT(30)

-----------------------------------------------------------------------------
(* Requests over a connection *)

CONSTANTS Side, Request, SideOf, NonceCount, Cancelled, ClosesAtOnce
VARIABLES nonce, pending_requests, request_results, event, call, id, result, timer,
          pending_timeouts, wire, api, closed

Con == INSTANCE Connection

ConnectionConstants ==
    /\ Side = {"out", "in"} /\ SideOf \in [Request -> Side] /\ NonceCount \in Nat \ {0}

\* The requests of an end.
Of(s) == {r \in Request : SideOf[r] = s}

\* No end makes more requests than it has nonces.
FewRequests == IsFiniteSet(Request) /\ \A s \in Side : Cardinality(Of(s)) <= NonceCount

\* The requests of s that have been sent.
Sent(s, t) == {r \in Of(s) : t[r] # "none"}

Ids(s) == Con!FirstNonce(s) .. (Con!FirstNonce(s) + NonceCount - 1)

ConnTypes ==
    /\ nonce \in [Side -> Int] /\ \A s \in Side : nonce[s] \in Ids(s)
    /\ pending_requests = [s \in Side |-> pending_requests[s]]
    /\ request_results = [s \in Side |-> request_results[s]]
    /\ wire = [s \in Side |-> wire[s]] /\ api = [s \in Side |-> api[s]]
    /\ call = [r \in Request |-> call[r]] /\ id \in [Request -> Int]
    /\ result = [r \in Request |-> result[r]] /\ timer = [r \in Request |-> timer[r]]

\* The requests: one that was not sent is idle or was refused, one that was sent has an id of its end.
SentInv ==
    \A r \in Request : /\ call[r] = "idle" => timer[r] = "none"
                       /\ call[r] \in {"waiting", "cancelled"} => timer[r] # "none"
                       /\ timer[r] # "none" => id[r] \in Ids(SideOf[r])
                       /\ call[r] = "cancelled" => r \in Cancelled

\* Until the nonces come round, the next is larger than every id.
NonceInv ==
    FewRequests => \A s \in Side : Cardinality(Sent(s, timer)) < NonceCount =>
       /\ nonce[s] = Con!FirstNonce(s) + Cardinality(Sent(s, timer))
       /\ \A r \in Sent(s, timer) : id[r] < nonce[s]

\* A message m at s is a request of the other end or a response to one of s; and while its id is
\* pending at the end that made the request, it is of the request that is pending.
MessageOk(s, m, p, i, t) ==
    /\ m = [kind |-> m.kind, id |-> m.id, of |-> m.of]
    /\ m.of \in Request /\ m.id = i[m.of] /\ t[m.of] # "none"
    /\ \/ m.kind = "request" /\ SideOf[m.of] # s
       \/ m.kind = "response" /\ SideOf[m.of] = s
    /\ m.id \in DOMAIN p[SideOf[m.of]] => p[SideOf[m.of]][m.id] = m.of

MessagesOk == \A s \in Side : \A m \in wire[s] \cup api[s] : MessageOk(s, m, pending_requests, id, timer)

\* What is pending, and what is stored for it.
PendingInv ==
    \A s \in Side :
      /\ \A n \in DOMAIN pending_requests[s] :
            LET r == pending_requests[s][n]
            IN  r \in Of(s) /\ id[r] = n /\ call[r] \in {"waiting", "cancelled"}
      /\ \A n \in DOMAIN request_results[s] :
            /\ n \in DOMAIN pending_requests[s]
            /\ request_results[s][n].kind = "response" /\ request_results[s][n].of = pending_requests[s][n]

ConnInv == ConnTypes /\ SentInv /\ NonceInv /\ MessagesOk /\ PendingInv /\ Con!AnswerIsOwn /\ Con!WaitingIsPending

\* The two ends have nonces of their own.
LEMMA Ends ==
    ASSUME ConnectionConstants
    PROVE  /\ \A s \in Side : Con!Other(s) \in Side /\ Con!Other(s) # s
           /\ \A s, o \in Side : s # o => Ids(s) \cap Ids(o) = {} /\ o = Con!Other(s)
           /\ \A s \in Side : /\ Con!FirstNonce(s) \in Int /\ Con!FirstNonce(s) \in Ids(s)
                              /\ \A n \in Ids(s) : n \in Int /\ Con!NextNonce(s, n) \in Ids(s)
<1>1. Side = {"out", "in"} /\ NonceCount \in Nat \ {0}
  BY DEF ConnectionConstants
<1>2. \A s \in Side : Con!Other(s) \in Side /\ Con!Other(s) # s
  <2>1. \A s \in Side : \E o \in Side : o # s
    BY <1>1
  <2> QED BY <2>1 DEF Con!Other
<1>3. \A s, o \in Side : s # o => Ids(s) \cap Ids(o) = {} /\ o = Con!Other(s)
  BY <1>1, <1>2 DEF Ids, Con!FirstNonce
<1>4. \A s \in Side : /\ Con!FirstNonce(s) \in Int /\ Con!FirstNonce(s) \in Ids(s)
                      /\ \A n \in Ids(s) : n \in Int /\ Con!NextNonce(s, n) \in Ids(s)
  BY <1>1 DEF Ids, Con!FirstNonce, Con!NextNonce
<1> QED BY <1>2, <1>3, <1>4

\* The nonce of the next request has no result stored for it.
LEMMA NonceFree ==
    ASSUME ConnectionConstants, ConnInv, Cancelled = {} \/ FewRequests,
           NEW r \in Request, call[r] = "idle", Con!Settled(SideOf[r], nonce[SideOf[r]])
    PROVE  nonce[SideOf[r]] \notin DOMAIN pending_requests[SideOf[r]]
<1> DEFINE s == SideOf[r]
           n == nonce[s]
<1>1. s \in Side
  BY DEF ConnectionConstants
<1> SUFFICES ASSUME n \in DOMAIN pending_requests[s] PROVE FALSE
  OBVIOUS
<1>2. PICK q : q = pending_requests[s][n] /\ q \in Of(s) /\ id[q] = n /\ call[q] \in {"waiting", "cancelled"}
  BY <1>1 DEF ConnInv, PendingInv
<1>3. q \in Request /\ SideOf[q] = s /\ timer[q] # "none"
  BY <1>2, Zenon DEF Of, ConnInv, SentInv
<1>4. CASE Cancelled = {}
  BY <1>2, <1>3, <1>4, Zenon DEF Con!Settled, ConnInv, SentInv
<1>5. CASE FewRequests
  <2>1. IsFiniteSet(Request) /\ Cardinality(Of(s)) <= NonceCount
    BY <1>1, <1>5 DEF FewRequests
  <2>2. Of(s) \in SUBSET Request /\ Sent(s, timer) \in SUBSET (Of(s) \ {r}) /\ r \in Of(s)
    BY <1>3 DEF Of, Sent, ConnInv, SentInv
  <2>3. IsFiniteSet(Of(s)) /\ IsFiniteSet(Of(s) \ {r})
    BY <2>1, <2>2, FS_Subset
  <2>4. Cardinality(Of(s) \ {r}) = Cardinality(Of(s)) - 1 /\ Cardinality(Of(s)) \in Nat
    BY <2>2, <2>3, FS_RemoveElement, FS_CardinalityType
  <2>5. IsFiniteSet(Sent(s, timer)) /\ Cardinality(Sent(s, timer)) <= Cardinality(Of(s) \ {r})
    BY <2>2, <2>3, FS_Subset, Zenon
  <2>6. Cardinality(Sent(s, timer)) \in Nat
    BY <2>5, FS_CardinalityType, Zenon
  <2>7. Cardinality(Sent(s, timer)) < NonceCount
    BY <2>1, <2>4, <2>5, <2>6 DEF ConnectionConstants
  <2>8. q \in Sent(s, timer)
    BY <1>2, <1>3, Zenon DEF Sent
  <2>9. id[q] < n
    BY <1>1, <1>5, <2>7, <2>8 DEF ConnInv, NonceInv
  <2>10. id[q] \in Int
    BY <1>3 DEF ConnInv, ConnTypes
  <2> QED BY <1>2, <2>9, <2>10
<1> QED BY <1>4, <1>5

\* send_request registers a new request under a nonce that nothing else has.
LEMMA SendInv ==
    ASSUME ConnectionConstants, ConnInv, Cancelled = {} \/ FewRequests, NEW r \in Request, Con!send_request(r)
    PROVE  ConnInv'
<1>1. PICK s \in Side : s = SideOf[r]
  BY DEF ConnectionConstants
<1>2. PICK n : n = nonce[s]
  OBVIOUS
<1>3. /\ call[r] = "idle" /\ Con!Settled(s, n)
      /\ nonce' = [nonce EXCEPT ![s] = Con!NextNonce(s, n)] /\ id' = [id EXCEPT ![r] = n]
      /\ pending_requests' = [pending_requests EXCEPT ![s] = Con!With(pending_requests[s], n, r)]
      /\ wire' = [wire EXCEPT ![Con!Other(s)] = wire[Con!Other(s)] \cup {[kind |-> "request", id |-> n, of |-> r]}]
      /\ timer' = [timer EXCEPT ![r] = "created"] /\ call' = [call EXCEPT ![r] = "waiting"]
      /\ UNCHANGED <<request_results, result, api>>
  BY <1>1, <1>2, Zenon DEF Con!send_request
<1>4. n \notin DOMAIN pending_requests[s] /\ n \in Ids(s) /\ n \in Int /\ timer[r] = "none"
  BY <1>1, <1>2, <1>3, NonceFree, Ends, Zenon DEF ConnInv, ConnTypes, SentInv
<1>5. /\ pending_requests'[s] = Con!With(pending_requests[s], n, r)
      /\ \A o \in Side : o # s => pending_requests'[o] = pending_requests[o]
  BY <1>3 DEF ConnInv, ConnTypes
<1>6. /\ DOMAIN pending_requests'[s] = DOMAIN pending_requests[s] \cup {n} /\ pending_requests'[s][n] = r
      /\ \A k \in DOMAIN pending_requests[s] : pending_requests'[s][k] = pending_requests[s][k]
  BY <1>4, <1>5, Zenon DEF Con!With
<1>7. /\ id'[r] = n /\ timer'[r] = "created" /\ call'[r] = "waiting"
      /\ \A q \in Request \ {r} : id'[q] = id[q] /\ timer'[q] = timer[q] /\ call'[q] = call[q]
  BY <1>3 DEF ConnInv, ConnTypes
<1>8. ConnTypes'
  <2>1. nonce' \in [Side -> Int] /\ \A o \in Side : nonce'[o] \in Ids(o)
    BY <1>1, <1>3, <1>4, Ends DEF ConnInv, ConnTypes
  <2>2. id' \in [Request -> Int]
    BY <1>3, <1>4 DEF ConnInv, ConnTypes
  <2> QED BY <1>3, <2>1, <2>2, Zenon DEF ConnInv, ConnTypes
<1>9. SentInv'
  <2>1. ASSUME NEW q \in Request
        PROVE  /\ call'[q] = "idle" => timer'[q] = "none"
               /\ call'[q] \in {"waiting", "cancelled"} => timer'[q] # "none"
               /\ timer'[q] # "none" => id'[q] \in Ids(SideOf[q])
               /\ call'[q] = "cancelled" => q \in Cancelled
    BY <1>1, <1>4, <1>7 DEF ConnInv, SentInv
  <2> QED BY <2>1 DEF SentInv
<1>10. PendingInv'
  <2>1. ASSUME NEW o \in Side, NEW k \in DOMAIN pending_requests'[o]
        PROVE  /\ pending_requests'[o][k] \in Of(o) /\ id'[pending_requests'[o][k]] = k
               /\ call'[pending_requests'[o][k]] \in {"waiting", "cancelled"}
    <3>1. CASE o = s /\ k = n
      BY <1>1, <1>6, <1>7, <3>1 DEF Of
    <3>2. CASE ~(o = s /\ k = n)
      <4>1. k \in DOMAIN pending_requests[o] /\ pending_requests'[o][k] = pending_requests[o][k]
        BY <1>5, <1>6, <2>1, <3>2
      <4>2. PICK q : q = pending_requests[o][k] /\ q \in Of(o) /\ id[q] = k /\ call[q] \in {"waiting", "cancelled"}
        BY <4>1 DEF ConnInv, PendingInv
      <4>3. q \in Request \ {r}
        BY <1>3, <4>2 DEF Of
      <4> QED BY <1>7, <4>1, <4>2, <4>3
    <3> QED BY <3>1, <3>2
  <2>2. ASSUME NEW o \in Side, NEW k \in DOMAIN request_results'[o]
        PROVE  /\ k \in DOMAIN pending_requests'[o]
               /\ request_results'[o][k].kind = "response"
               /\ request_results'[o][k].of = pending_requests'[o][k]
    <3>1. /\ k \in DOMAIN pending_requests[o]
          /\ request_results[o][k].kind = "response" /\ request_results[o][k].of = pending_requests[o][k]
      BY <1>3, <2>2 DEF ConnInv, PendingInv
    <3> QED BY <1>3, <1>5, <1>6, <3>1
  <2> QED BY <2>1, <2>2 DEF PendingInv
<1>11. MessagesOk'
  <2>1. ASSUME NEW o \in Side, NEW m \in wire'[o] \cup api'[o]
        PROVE  MessageOk(o, m, pending_requests', id', timer')
    <3>1. CASE o = Con!Other(s) /\ m = [kind |-> "request", id |-> n, of |-> r]
      BY <1>1, <1>6, <1>7, <3>1, Ends DEF MessageOk
    <3>2. CASE m \in wire[o] \cup api[o]
      <4>1. MessageOk(o, m, pending_requests, id, timer)
        BY <3>2 DEF ConnInv, MessagesOk
      <4>2. m.id # n
        BY <1>3, <3>2 DEF Con!Settled
      <4>3. m.of \in Request \ {r} /\ SideOf[m.of] \in Side
        BY <1>4, <4>1 DEF MessageOk, ConnectionConstants
      <4>4. m.id \in DOMAIN pending_requests'[SideOf[m.of]] =>
               /\ m.id \in DOMAIN pending_requests[SideOf[m.of]]
               /\ pending_requests'[SideOf[m.of]][m.id] = pending_requests[SideOf[m.of]][m.id]
        BY <1>5, <1>6, <4>2, <4>3
      <4> QED BY <1>7, <4>1, <4>3, <4>4 DEF MessageOk
    <3> QED BY <1>3, <2>1, <3>1, <3>2, Ends DEF ConnInv, ConnTypes
  <2> QED BY <2>1 DEF MessagesOk
<1>12. Con!AnswerIsOwn'
  BY <1>3 DEF ConnInv, Con!AnswerIsOwn, Con!NoMessage
<1>13. Con!WaitingIsPending'
  <2>1. ASSUME NEW q \in Request, call'[q] = "waiting"
        PROVE  id'[q] \in DOMAIN pending_requests'[SideOf[q]] /\ pending_requests'[SideOf[q]][id'[q]] = q
    <3>1. CASE q = r
      BY <1>1, <1>6, <1>7, <3>1
    <3>2. CASE q # r
      <4>1. id[q] \in DOMAIN pending_requests[SideOf[q]] /\ pending_requests[SideOf[q]][id[q]] = q
            /\ SideOf[q] \in Side
        BY <1>7, <2>1, <3>2 DEF ConnInv, Con!WaitingIsPending, ConnectionConstants
      <4> QED BY <1>5, <1>6, <1>7, <3>2, <4>1
    <3> QED BY <3>1, <3>2
  <2> QED BY <2>1 DEF Con!WaitingIsPending
<1>14. NonceInv'
  <2> SUFFICES ASSUME FewRequests, NEW o \in Side, Cardinality(Sent(o, timer')) < NonceCount
      PROVE  /\ nonce'[o] = Con!FirstNonce(o) + Cardinality(Sent(o, timer'))
             /\ \A q \in Sent(o, timer') : id'[q] < nonce'[o]
    BY DEF NonceInv
  <2>1. CASE o # s
    <3>1. Sent(o, timer') = Sent(o, timer) /\ nonce'[o] = nonce[o] /\ \A q \in Sent(o, timer) : id'[q] = id[q]
      BY <1>1, <1>3, <1>7, <2>1 DEF Sent, Of, ConnInv, ConnTypes
    <3> QED BY <3>1 DEF ConnInv, NonceInv
  <2>2. CASE o = s
    <3> DEFINE c == Cardinality(Sent(s, timer))
    <3>1. Sent(s, timer') = Sent(s, timer) \cup {r} /\ r \notin Sent(s, timer)
      BY <1>1, <1>4, <1>7 DEF Sent, Of
    <3>2. IsFiniteSet(Sent(s, timer))
      <4>1. IsFiniteSet(Request)
        BY DEF FewRequests
      <4>2. Sent(s, timer) \in SUBSET Request
        BY DEF Sent, Of
      <4> QED BY <4>1, <4>2, FS_Subset
    <3>3. c \in Nat /\ Cardinality(Sent(s, timer')) = c + 1
      BY <3>1, <3>2, FS_AddElement, FS_CardinalityType
    <3>4. nonce[s] = Con!FirstNonce(s) + c /\ \A q \in Sent(s, timer) : id[q] < nonce[s]
      BY <2>2, <3>3 DEF ConnInv, NonceInv, ConnectionConstants
    <3>5. nonce'[s] = n + 1 /\ n = Con!FirstNonce(s) + c
      BY <1>2, <1>3, <2>2, <3>3, <3>4, Ends DEF ConnInv, ConnTypes, Con!NextNonce, ConnectionConstants
    <3>6. \A q \in Sent(s, timer) : q \in Request \ {r} /\ id[q] \in Int
      BY <3>1 DEF Sent, Of, ConnInv, ConnTypes
    <3>7. \A q \in Sent(s, timer') : id'[q] < nonce'[s]
      BY <1>2, <1>4, <1>7, <3>1, <3>4, <3>5, <3>6
    <3> QED BY <2>2, <3>3, <3>5, <3>7, Ends
  <2> QED BY <2>1, <2>2
<1> QED BY <1>8, <1>9, <1>10, <1>11, <1>12, <1>13, <1>14 DEF ConnInv

\* The call returns with what was stored for it, and what was registered for it is gone.
LEMMA ReturnedInv ==
    ASSUME ConnectionConstants, ConnInv, NEW r \in Request, Con!Returned(r)
    PROVE  ConnInv'
<1>1. PICK s \in Side : s = SideOf[r]
  BY DEF ConnectionConstants
<1>2. PICK n : n = id[r]
  OBVIOUS
<1>3. PICK v : v = IF n \in DOMAIN request_results[s] THEN request_results[s][n] ELSE Con!NoMessage
  OBVIOUS
<1>4. /\ call[r] = "waiting" /\ r \in event
      /\ pending_requests' = [pending_requests EXCEPT ![s] = Con!Without(pending_requests[s], n)]
      /\ result' = [result EXCEPT ![r] = v]
      /\ request_results' = [request_results EXCEPT ![s] = Con!Without(request_results[s], n)]
      /\ call' = [call EXCEPT ![r] = "returned"]
      /\ UNCHANGED <<nonce, id, timer, wire, api>>
  BY <1>1, <1>2, <1>3 DEF Con!Returned, Con!requests
<1>5. n \in DOMAIN pending_requests[s] /\ pending_requests[s][n] = r
  BY <1>1, <1>2, <1>4 DEF ConnInv, Con!WaitingIsPending
<1>6. /\ \A o \in Side : o # s => pending_requests'[o] = pending_requests[o] /\ request_results'[o] = request_results[o]
      /\ DOMAIN pending_requests'[s] = DOMAIN pending_requests[s] \ {n}
      /\ \A k \in DOMAIN pending_requests[s] \ {n} : pending_requests'[s][k] = pending_requests[s][k]
      /\ DOMAIN request_results'[s] = DOMAIN request_results[s] \ {n}
      /\ \A k \in DOMAIN request_results[s] \ {n} : request_results'[s][k] = request_results[s][k]
  BY <1>4 DEF ConnInv, ConnTypes, Con!Without, Con!Restrict
<1>7. call'[r] = "returned" /\ \A q \in Request \ {r} : call'[q] = call[q] /\ result'[q] = result[q]
  BY <1>4 DEF ConnInv, ConnTypes
<1>8. ConnTypes'
  BY <1>4, Zenon DEF ConnInv, ConnTypes
<1>9. SentInv'
  BY <1>4, <1>7 DEF ConnInv, SentInv
<1>10. NonceInv'
  BY <1>4 DEF ConnInv, NonceInv
<1>11. PendingInv'
  <2>1. ASSUME NEW o \in Side, NEW k \in DOMAIN pending_requests'[o]
        PROVE  /\ pending_requests'[o][k] \in Of(o) /\ id'[pending_requests'[o][k]] = k
               /\ call'[pending_requests'[o][k]] \in {"waiting", "cancelled"}
    <3>1. k \in DOMAIN pending_requests[o] /\ pending_requests'[o][k] = pending_requests[o][k] /\ ~(o = s /\ k = n)
      BY <1>6, <2>1
    <3>2. PICK q : q = pending_requests[o][k] /\ q \in Of(o) /\ id[q] = k /\ call[q] \in {"waiting", "cancelled"}
      BY <3>1 DEF ConnInv, PendingInv
    <3>3. q \in Request \ {r}
      BY <1>1, <1>2, <3>1, <3>2 DEF Of
    <3> QED BY <1>4, <1>7, <3>1, <3>2, <3>3
  <2>2. ASSUME NEW o \in Side, NEW k \in DOMAIN request_results'[o]
        PROVE  /\ k \in DOMAIN pending_requests'[o]
               /\ request_results'[o][k].kind = "response"
               /\ request_results'[o][k].of = pending_requests'[o][k]
    <3>1. k \in DOMAIN request_results[o] /\ request_results'[o][k] = request_results[o][k] /\ ~(o = s /\ k = n)
      BY <1>6, <2>2
    <3>2. /\ k \in DOMAIN pending_requests[o]
          /\ request_results[o][k].kind = "response" /\ request_results[o][k].of = pending_requests[o][k]
      BY <3>1 DEF ConnInv, PendingInv
    <3> QED BY <1>6, <3>1, <3>2
  <2> QED BY <2>1, <2>2 DEF PendingInv
<1>12. MessagesOk'
  <2>1. ASSUME NEW o \in Side, NEW m, MessageOk(o, m, pending_requests, id, timer)
        PROVE  MessageOk(o, m, pending_requests', id', timer')
    <3>1. SideOf[m.of] \in Side
      BY <2>1 DEF MessageOk, ConnectionConstants
    <3> QED BY <1>4, <1>6, <2>1, <3>1 DEF MessageOk
  <2> QED BY <1>4, <2>1, Zenon DEF ConnInv, MessagesOk
<1>13. Con!AnswerIsOwn'
  <2>1. v # Con!NoMessage => v.kind = "response" /\ v.of = r
    BY <1>3, <1>5 DEF ConnInv, PendingInv
  <2>2. result'[r] = v
    BY <1>4 DEF ConnInv, ConnTypes
  <2> QED BY <1>7, <2>1, <2>2 DEF ConnInv, Con!AnswerIsOwn, Con!NoMessage
<1>14. Con!WaitingIsPending'
  <2>1. ASSUME NEW q \in Request, call'[q] = "waiting"
        PROVE  id'[q] \in DOMAIN pending_requests'[SideOf[q]] /\ pending_requests'[SideOf[q]][id'[q]] = q
    <3>1. q # r /\ call[q] = "waiting"
      BY <1>7, <2>1
    <3>2. id[q] \in DOMAIN pending_requests[SideOf[q]] /\ pending_requests[SideOf[q]][id[q]] = q /\ SideOf[q] \in Side
      BY <3>1 DEF ConnInv, Con!WaitingIsPending, ConnectionConstants
    <3> QED BY <1>4, <1>5, <1>6, <3>1, <3>2
  <2> QED BY <2>1 DEF Con!WaitingIsPending
<1> QED BY <1>8, <1>9, <1>10, <1>11, <1>12, <1>13, <1>14 DEF ConnInv

\* A message that arrives: a response to what is pending, or something for the API.
LEMMA InboundInv ==
    ASSUME ConnectionConstants, ConnInv, NEW s \in Side, NEW m \in wire[s], Con!inbound_handler(s, m)
    PROVE  ConnInv'
<1>1. /\ wire' = [wire EXCEPT ![s] = wire[s] \ {m}]
      /\ UNCHANGED <<nonce, id, pending_requests, call, result, timer>>
      /\ \/ /\ m.id \in DOMAIN pending_requests[s] /\ api' = api
            /\ request_results' = [request_results EXCEPT ![s] = Con!With(request_results[s], m.id, m)]
         \/ api' = [api EXCEPT ![s] = api[s] \cup {m}] /\ request_results' = request_results
  BY DEF Con!inbound_handler, Con!requests
<1>2. MessageOk(s, m, pending_requests, id, timer)
  BY DEF ConnInv, MessagesOk
<1>3. ConnTypes'
  BY <1>1, Zenon DEF ConnInv, ConnTypes
<1>4. SentInv' /\ NonceInv'
  BY <1>1 DEF ConnInv, SentInv, NonceInv
<1>5. MessagesOk'
  <2>1. \A o \in Side : wire'[o] \cup api'[o] \subseteq wire[o] \cup api[o] \cup (IF o = s THEN {m} ELSE {})
    BY <1>1 DEF ConnInv, ConnTypes
  <2> QED BY <1>1, <1>2, <2>1 DEF ConnInv, MessagesOk
<1>6. Con!AnswerIsOwn' /\ Con!WaitingIsPending'
  BY <1>1 DEF ConnInv, Con!AnswerIsOwn, Con!WaitingIsPending, Con!NoMessage
<1>7. PendingInv'
  <2>1. CASE request_results' = request_results
    BY <1>1, <2>1 DEF ConnInv, PendingInv
  <2>2. CASE /\ m.id \in DOMAIN pending_requests[s]
             /\ request_results' = [request_results EXCEPT ![s] = Con!With(request_results[s], m.id, m)]
    <3>1. pending_requests[s][m.id] \in Of(s) /\ id[pending_requests[s][m.id]] = m.id
          /\ call[pending_requests[s][m.id]] \in {"waiting", "cancelled"}
      BY <2>2 DEF ConnInv, PendingInv
    <3>2. m.id \in Ids(s)
      BY <3>1 DEF Of, ConnInv, SentInv
    <3>3. SideOf[m.of] = s
      <4>1. m.id \in Ids(SideOf[m.of]) /\ SideOf[m.of] \in Side
        BY <1>2 DEF MessageOk, ConnInv, SentInv, ConnectionConstants
      <4> QED BY <3>2, <4>1, Ends
    <3>4. m.kind = "response" /\ m.of = pending_requests[s][m.id]
      BY <1>2, <2>2, <3>3 DEF MessageOk
    <3>5. /\ DOMAIN request_results'[s] = DOMAIN request_results[s] \cup {m.id}
          /\ request_results'[s][m.id] = m
          /\ \A k \in DOMAIN request_results[s] \ {m.id} : request_results'[s][k] = request_results[s][k]
          /\ \A o \in Side : o # s => request_results'[o] = request_results[o]
      BY <2>2 DEF ConnInv, ConnTypes, Con!With
    <3>6. ASSUME NEW o \in Side, NEW k \in DOMAIN request_results'[o]
          PROVE  /\ k \in DOMAIN pending_requests[o]
                 /\ request_results'[o][k].kind = "response"
                 /\ request_results'[o][k].of = pending_requests[o][k]
      <4>1. CASE o = s /\ k = m.id
        BY <2>2, <3>4, <3>5, <4>1
      <4>2. CASE ~(o = s /\ k = m.id)
        <5>1. k \in DOMAIN request_results[o] /\ request_results'[o][k] = request_results[o][k]
          BY <3>5, <3>6, <4>2
        <5> QED BY <5>1 DEF ConnInv, PendingInv
      <4> QED BY <4>1, <4>2
    <3> QED BY <1>1, <3>6 DEF ConnInv, PendingInv
  <2> QED BY <1>1, <2>1, <2>2
<1> QED BY <1>3, <1>4, <1>5, <1>6, <1>7 DEF ConnInv

\* Steps of the timers, of the API and of closing, which change no entry.
LEMMA OtherInv ==
    ASSUME ConnectionConstants, ConnInv,
           UNCHANGED <<nonce, id, pending_requests, request_results, result>>,
           call' = [r \in Request |-> call'[r]], timer' = [r \in Request |-> timer'[r]],
           wire' = [s \in Side |-> wire'[s]], api' = [s \in Side |-> api'[s]],
           \A r \in Request : /\ timer[r] = "none" <=> timer'[r] = "none"
                              /\ \/ call'[r] = call[r]
                                 \/ call[r] = "idle" /\ call'[r] = "returned"
                                 \/ call[r] = "waiting" /\ call'[r] = "cancelled" /\ r \in Cancelled,
           \A s \in Side : \A m \in wire'[s] \cup api'[s] : MessageOk(s, m, pending_requests, id, timer)
    PROVE  ConnInv'
<1>1. ConnTypes'
  BY DEF ConnInv, ConnTypes
<1>2. SentInv'
  BY DEF ConnInv, SentInv
<1>3. NonceInv'
  <2>1. \A s : Sent(s, timer') = Sent(s, timer)
    BY DEF Sent, Of
  <2> QED BY <2>1 DEF ConnInv, NonceInv
<1>4. MessagesOk'
  BY DEF MessagesOk, MessageOk
<1>5. PendingInv'
  <2>1. \A s \in Side : \A n \in DOMAIN pending_requests[s] :
           /\ pending_requests[s][n] \in Of(s) /\ id[pending_requests[s][n]] = n
           /\ call[pending_requests[s][n]] \in {"waiting", "cancelled"} /\ pending_requests[s][n] \in Request
    BY DEF ConnInv, PendingInv, Of
  <2>2. \A s \in Side : \A n \in DOMAIN pending_requests[s] :
           call'[pending_requests[s][n]] \in {"waiting", "cancelled"}
    BY <2>1
  <2> QED BY <2>1, <2>2 DEF ConnInv, PendingInv
<1>6. Con!AnswerIsOwn'
  BY DEF ConnInv, Con!AnswerIsOwn, Con!NoMessage
<1>7. Con!WaitingIsPending'
  BY DEF ConnInv, Con!WaitingIsPending
<1> QED BY <1>1, <1>2, <1>3, <1>4, <1>5, <1>6, <1>7 DEF ConnInv

\* The API replies to a request of the other end, under its id.
LEMMA ReplyOk ==
    ASSUME ConnectionConstants, NEW s \in Side, NEW m, MessageOk(s, m, pending_requests, id, timer), m.kind = "request"
    PROVE  MessageOk(Con!Other(s), [m EXCEPT !.kind = "response"], pending_requests, id, timer)
<1>1. PICK f : f = [m EXCEPT !.kind = "response"]
  BY Zenon
<1>2. f = [kind |-> "response", id |-> m.id, of |-> m.of]
  <2>1. m = [kind |-> m.kind, id |-> m.id, of |-> m.of]
    BY DEF MessageOk
  <2> QED BY <1>1, <2>1
<1>3. SideOf[m.of] = Con!Other(s)
  BY Ends DEF MessageOk, ConnectionConstants
<1> QED BY <1>1, <1>2, <1>3 DEF MessageOk

\* Each step of the two ends of a connection and of the wire between them.
LEMMA ConnNext ==
    ASSUME ConnectionConstants, Cancelled = {} \/ FewRequests, ConnInv, [Con!Next]_Con!vars PROVE ConnInv'
<1>0. /\ call = [r \in Request |-> call[r]] /\ timer = [r \in Request |-> timer[r]]
      /\ wire = [s \in Side |-> wire[s]] /\ api = [s \in Side |-> api[s]]
      /\ \A s \in Side : \A m \in wire[s] \cup api[s] : MessageOk(s, m, pending_requests, id, timer)
  BY DEF ConnInv, ConnTypes, MessagesOk
<1>1. ASSUME NEW r \in Request, Con!send_request(r) \/ Con!Returned(r) PROVE ConnInv'
  BY <1>1, SendInv, ReturnedInv
<1>2. ASSUME NEW r \in Request, Con!send_request_closed(r) \/ Con!TimerStart(r) \/ Con!time_out(r) \/ Con!Cancel(r)
      PROVE  ConnInv'
  <2>1. /\ UNCHANGED <<nonce, id, pending_requests, request_results, result, wire, api>>
        /\ \/ timer' = timer
           \/ timer[r] = "created" /\ timer' = [timer EXCEPT ![r] = "sleeping"]
           \/ timer[r] = "sleeping" /\ timer' = [timer EXCEPT ![r] = "over"]
        /\ \/ call' = call
           \/ call[r] = "idle" /\ call' = [call EXCEPT ![r] = "returned"]
           \/ call[r] = "waiting" /\ r \in Cancelled /\ call' = [call EXCEPT ![r] = "cancelled"]
    BY <1>2 DEF Con!send_request_closed, Con!TimerStart, Con!time_out, Con!Cancel, Con!requests
  <2>2. call' = [q \in Request |-> call'[q]] /\ timer' = [q \in Request |-> timer'[q]]
    BY <1>0, <2>1
  <2>3. \A q \in Request : /\ timer[q] = "none" <=> timer'[q] = "none"
                           /\ \/ call'[q] = call[q]
                              \/ call[q] = "idle" /\ call'[q] = "returned"
                              \/ call[q] = "waiting" /\ call'[q] = "cancelled" /\ q \in Cancelled
    BY <1>0, <2>1
  <2> QED BY <1>0, <2>1, <2>2, <2>3, OtherInv
<1>3. ASSUME NEW s \in Side, Con!close(s) \/ Con!close_end(s) PROVE ConnInv'
  <2>1. UNCHANGED <<nonce, id, pending_requests, request_results, result, wire, api, call>>
    BY <1>3 DEF Con!close, Con!close_end, Con!requests
  <2>2. \/ timer' = timer
        \/ timer' = [r \in Request |-> IF r \in Con!Range(pending_timeouts[s]) /\ timer[r] # "none"
                                       THEN "over" ELSE timer[r]]
    BY <1>3 DEF Con!close, Con!close_end, Con!cancel_pending_timeouts
  <2>3. timer' = [q \in Request |-> timer'[q]] /\ \A q \in Request : timer[q] = "none" <=> timer'[q] = "none"
    BY <1>0, <2>2
  <2> QED BY <1>0, <2>1, <2>3, OtherInv
<1>4. ASSUME NEW s \in Side, NEW m \in wire[s], Con!inbound_handler(s, m) PROVE ConnInv'
  BY <1>4, InboundInv
<1>5. ASSUME NEW s \in Side, NEW m \in wire[s], Con!Lose(s, m) PROVE ConnInv'
  <2>1. /\ UNCHANGED <<nonce, id, pending_requests, request_results, result, api, call, timer>>
        /\ wire' = [wire EXCEPT ![s] = wire[s] \ {m}]
    BY <1>5 DEF Con!Lose, Con!requests
  <2>2. wire' = [o \in Side |-> wire'[o]] /\ \A o \in Side : wire'[o] \subseteq wire[o]
    BY <1>0, <2>1
  <2> QED BY <1>0, <2>1, <2>2, OtherInv
<1>6. ASSUME NEW s \in Side, NEW m \in api[s], Con!api_call(s, m) PROVE ConnInv'
  <2>1. PICK f : f = [m EXCEPT !.kind = "response"]
    BY Zenon
  <2>2. /\ UNCHANGED <<nonce, id, pending_requests, request_results, result, call, timer>>
        /\ api' = [api EXCEPT ![s] = api[s] \ {m}]
        /\ \/ wire' = wire
           \/ m.kind = "request" /\ wire' = [wire EXCEPT ![Con!Other(s)] = wire[Con!Other(s)] \cup {f}]
    BY <1>6, <2>1 DEF Con!api_call, Con!requests
  <2>3. wire' = [o \in Side |-> wire'[o]] /\ api' = [o \in Side |-> api'[o]] /\ \A o \in Side : api'[o] \subseteq api[o]
    BY <1>0, <2>2, Zenon
  <2>4. m.kind = "request" => MessageOk(Con!Other(s), f, pending_requests, id, timer)
    BY <1>0, <2>1, ReplyOk
  <2>5. \A o \in Side : \A x \in wire'[o] : x \in wire[o] \/ (m.kind = "request" /\ o = Con!Other(s) /\ x = f)
    BY <1>0, <2>2, Ends
  <2>6. \A o \in Side : \A x \in wire'[o] \cup api'[o] : MessageOk(o, x, pending_requests, id, timer)
    BY <1>0, <2>3, <2>4, <2>5
  <2> QED BY <1>0, <2>2, <2>3, <2>6, OtherInv
<1>7. CASE UNCHANGED Con!vars
  BY <1>0, <1>7, OtherInv DEF Con!vars
<1> QED BY <1>1, <1>2, <1>3, <1>4, <1>5, <1>6, <1>7 DEF Con!Next

\* The request nonce matches requests to responses: what send_request returns is the
\* response to its own request, or nothing; and a call that waits still owns the entry
\* under its id, so that the pop after the wait removes no other call's.
AnswerIsOwn == Con!AnswerIsOwn /\ Con!WaitingIsPending

\* A request gets the answer to itself or none: create_request hands out what came back under
\* its nonce, and as long as no nonce is in use twice that is the answer of the other end to this
\* request, over answers that are late, timeouts and closed connections.  And who waits is listed
\* in pending_requests.  Nonces are used again after NonceCount requests (2^15 in the code): a
\* cancelled call leaves its entries behind, so either none is cancelled or the nonces suffice.
THEOREM Connection_AnswerIsOwn ==
    ASSUME ConnectionConstants, Cancelled = {} \/ FewRequests
    PROVE  Con!Spec => []AnswerIsOwn
<1>1. Con!Init => ConnInv
  <2> SUFFICES ASSUME Con!Init PROVE ConnInv
    OBVIOUS
  <2>1. ConnTypes
    BY Ends DEF Con!Init, ConnTypes
  <2>2. SentInv /\ MessagesOk
    BY DEF Con!Init, SentInv, MessagesOk
  <2>3. PendingInv
    BY DEF Con!Init, PendingInv, Con!Empty
  <2>4. Con!AnswerIsOwn /\ Con!WaitingIsPending
    BY DEF Con!Init, Con!AnswerIsOwn, Con!WaitingIsPending
  <2>5. NonceInv
    <3>1. \A s : Sent(s, timer) = {}
      BY DEF Con!Init, Sent, Of
    <3>2. \A s : Cardinality(Sent(s, timer)) = 0
      BY <3>1, FS_EmptySet
    <3> QED BY <3>1, <3>2, Ends DEF Con!Init, NonceInv
  <2> QED BY <2>1, <2>2, <2>3, <2>4, <2>5 DEF ConnInv
<1>2. ConnInv /\ [Con!Next]_Con!vars => ConnInv'
  BY ConnNext
<1>3. ConnInv => AnswerIsOwn
  BY DEF ConnInv, AnswerIsOwn
<1> QED BY <1>1, <1>2, <1>3, PTL DEF Con!Spec

-----------------------------------------------------------------------------
(* The list of connections *)

CONSTANTS Conn, PeerOf, Outbound, InboundLimit, Overlap
VARIABLES all_connections, connection_by_type, stage, old, conn_closed, ban, banned_peers

Srv == INSTANCE Server WITH closed <- conn_closed

ServerConstants == IsFiniteSet(Conn) /\ InboundLimit \in Nat /\ Overlap = FALSE

ServerTypes ==
    /\ stage \in [Conn -> Srv!Stages] /\ conn_closed \in [Conn -> {"no", "closing", "done"}]
    /\ \A c \in Conn : /\ stage[c] # "replacing"
                       /\ stage[c] \in {"none", "handshake"} => conn_closed[c] = "no"
                       /\ stage[c] \in {"failed", "refused"} => conn_closed[c] # "no"

\* A peer has one connection that is not over, at most.
OneEach == \A c, d \in Conn : c # d /\ PeerOf[c] = PeerOf[d] => Srv!Over(c) \/ Srv!Over(d)

\* The list has those that were added and are not over, under their node ids.
ListInv ==
    /\ connection_by_type = all_connections
    /\ all_connections = [p \in DOMAIN all_connections |-> all_connections[p]]
    /\ \A p \in DOMAIN all_connections :
         all_connections[p] \in Conn /\ PeerOf[all_connections[p]] = p
         /\ stage[all_connections[p]] = "added" /\ conn_closed[all_connections[p]] # "done"
    /\ \A c \in Conn : stage[c] = "added" /\ conn_closed[c] # "done" =>
         PeerOf[c] \in DOMAIN all_connections /\ all_connections[PeerOf[c]] = c

\* The inbound connections of the list.
InboundOf(list) == {list[p] : p \in {q \in DOMAIN list : list[q] \notin Outbound}}

ServerInv == ServerTypes /\ OneEach /\ ListInv /\ Cardinality(InboundOf(all_connections)) <= InboundLimit

\* The incoming connections of the list, by their node ids.
LEMMA InboundIs ==
    /\ Srv!Inbound = InboundOf(connection_by_type)
    /\ \A X : Srv!Cardinality(X) = Cardinality(X)
<1>1. Srv!Inbound = InboundOf(connection_by_type)
  BY DEF Srv!Inbound, InboundOf, Srv!Range
<1>2. \A X : Srv!Cardinality(X) = Cardinality(X)
  BY DEF Srv!Cardinality, Cardinality
<1> QED BY <1>1, <1>2

\* There are finitely many incoming connections.
LEMMA InboundFinite ==
    ASSUME ServerConstants, ServerInv
    PROVE  /\ IsFiniteSet(InboundOf(all_connections)) /\ Cardinality(InboundOf(all_connections)) \in Nat
           /\ \A R \in SUBSET InboundOf(all_connections) : Cardinality(R) <= Cardinality(InboundOf(all_connections))
<1>1. InboundOf(all_connections) \in SUBSET Conn
  BY DEF InboundOf, ServerInv, ListInv
<1>2. IsFiniteSet(Conn)
  BY DEF ServerConstants
<1>3. IsFiniteSet(InboundOf(all_connections))
  BY <1>1, <1>2, FS_Subset
<1> QED BY <1>3, FS_Subset, FS_CardinalityType

\* Steps that leave the lists alone, and close no connection for good.
LEMMA ListsStay ==
    ASSUME ServerInv, UNCHANGED <<all_connections, connection_by_type>>, ServerTypes',
           \A c \in Conn : /\ stage[c] = "added" <=> stage'[c] = "added"
                           /\ conn_closed[c] = "done" <=> conn_closed'[c] = "done",
           OneEach'
    PROVE  ServerInv'
<1>1. ListInv'
  BY DEF ServerInv, ListInv
<1> QED BY <1>1 DEF ServerInv

\* A connection is opened, if its peer has no other that is not over.
LEMMA OpenInv ==
    ASSUME ServerConstants, ServerInv, NEW c \in Conn, Srv!incoming_connection(c) \/ Srv!start_client(c)
    PROVE  ServerInv'
<1>1. /\ stage[c] = "none" /\ stage' = [stage EXCEPT ![c] = "handshake"] /\ conn_closed' = conn_closed
      /\ UNCHANGED <<all_connections, connection_by_type>>
      /\ \A d \in Conn \ {c} : PeerOf[d] = PeerOf[c] => Srv!Over(d)
  BY DEF Srv!incoming_connection, Srv!start_client, Srv!MayConnect, Srv!lists, ServerConstants
<1>2. ServerTypes'
  BY <1>1 DEF ServerInv, ServerTypes, Srv!Stages
<1>3. \A d \in Conn \ {c} : Srv!Over(d) <=> Srv!Over(d)'
  BY <1>1 DEF ServerInv, ServerTypes, Srv!Over
<1>4. OneEach'
  BY <1>1, <1>3 DEF ServerInv, OneEach
<1>5. \A d \in Conn : stage[d] = "added" <=> stage'[d] = "added"
  BY <1>1 DEF ServerInv, ServerTypes
<1> QED BY <1>1, <1>2, <1>4, <1>5, ListsStay

\* A connection is refused, or its handshake fails: it is not listed.
LEMMA RefuseInv ==
    ASSUME ServerConstants, ServerInv, NEW c \in Conn, Srv!HandshakeFails(c) \/ Srv!Refuse(c) \/ Srv!close(c)
    PROVE  ServerInv'
<1>1. /\ UNCHANGED <<all_connections, connection_by_type>> /\ conn_closed' = [conn_closed EXCEPT ![c] = "closing"]
      /\ \/ /\ stage[c] = "handshake"
            /\ stage' = [stage EXCEPT ![c] = "failed"] \/ stage' = [stage EXCEPT ![c] = "refused"]
         \/ stage[c] \in {"replacing", "added"} /\ conn_closed[c] = "no" /\ stage' = stage
  BY DEF Srv!HandshakeFails, Srv!Refuse, Srv!close, Srv!lists
<1>2. ServerTypes'
  BY <1>1 DEF ServerInv, ServerTypes, Srv!Stages
<1>3. \A d \in Conn : Srv!Over(d) <=> Srv!Over(d)'
  BY <1>1 DEF ServerInv, ServerTypes, Srv!Over
<1>4. OneEach'
  BY <1>3 DEF ServerInv, OneEach
<1>5. \A d \in Conn : /\ stage[d] = "added" <=> stage'[d] = "added"
                      /\ conn_closed[d] = "done" <=> conn_closed'[d] = "done"
  BY <1>1 DEF ServerInv, ServerTypes
<1> QED BY <1>1, <1>2, <1>4, <1>5, ListsStay

\* A connection whose handshake is over is the only one of its peer, and nothing is listed for it.
LEMMA AddedInv ==
    ASSUME ServerConstants, ServerInv, NEW c \in Conn, Srv!connection_added(c)
    PROVE  ServerInv'
<1> DEFINE p == PeerOf[c]
<1>1. stage[c] = "handshake" /\ (c \in Outbound \/ Srv!accept_inbound_connections) /\ conn_closed[c] = "no"
  BY DEF Srv!connection_added, ServerInv, ServerTypes
<1>2. p \notin DOMAIN all_connections
  BY <1>1 DEF ServerInv, ListInv, OneEach, Srv!Over
<1>3. /\ stage' = [stage EXCEPT ![c] = "added"] /\ conn_closed' = conn_closed
      /\ all_connections' = Srv!With(all_connections, p, c)
      /\ connection_by_type' = Srv!With(connection_by_type, p, c)
  BY <1>2 DEF Srv!connection_added
<1>4. /\ DOMAIN all_connections' = DOMAIN all_connections \cup {p} /\ all_connections'[p] = c
      /\ \A q \in DOMAIN all_connections : all_connections'[q] = all_connections[q]
      /\ connection_by_type' = all_connections'
      /\ all_connections' = [q \in DOMAIN all_connections' |-> all_connections'[q]]
  BY <1>2, <1>3 DEF Srv!With, ServerInv, ListInv
<1>5. ServerTypes'
  BY <1>1, <1>3 DEF ServerInv, ServerTypes, Srv!Stages
<1>6. OneEach'
  <2>1. \A d \in Conn : Srv!Over(d) <=> Srv!Over(d)'
    BY <1>1, <1>3 DEF ServerInv, ServerTypes, Srv!Over
  <2> QED BY <2>1 DEF ServerInv, OneEach
<1>7. stage'[c] = "added" /\ \A d \in Conn \ {c} : stage'[d] = stage[d]
  BY <1>3 DEF ServerInv, ServerTypes
<1>8. ListInv'
  <2>1. ASSUME NEW q \in DOMAIN all_connections'
        PROVE  all_connections'[q] \in Conn /\ PeerOf[all_connections'[q]] = q
               /\ stage'[all_connections'[q]] = "added" /\ conn_closed'[all_connections'[q]] # "done"
    BY <1>1, <1>3, <1>4, <1>7 DEF ServerInv, ListInv
  <2>2. ASSUME NEW d \in Conn, stage'[d] = "added", conn_closed'[d] # "done"
        PROVE  PeerOf[d] \in DOMAIN all_connections' /\ all_connections'[PeerOf[d]] = d
    BY <1>3, <1>4, <1>7, <2>2 DEF ServerInv, ListInv
  <2> QED BY <1>4, <2>1, <2>2 DEF ListInv
<1>9. Cardinality(InboundOf(all_connections')) <= InboundLimit
  <2>1. CASE c \in Outbound
    <3>1. InboundOf(all_connections') = InboundOf(all_connections)
      BY <1>2, <1>4, <2>1 DEF InboundOf
    <3> QED BY <3>1 DEF ServerInv
  <2>2. CASE c \notin Outbound
    <3>1. Cardinality(InboundOf(all_connections)) < InboundLimit
      BY <1>1, <2>2, InboundIs DEF Srv!accept_inbound_connections, ServerInv, ListInv
    <3>2. InboundOf(all_connections') = InboundOf(all_connections) \cup {c}
      BY <1>2, <1>4, <2>2 DEF InboundOf
    <3>3. Cardinality(InboundOf(all_connections) \cup {c}) <= Cardinality(InboundOf(all_connections)) + 1
      <4> DEFINE I == InboundOf(all_connections)
      <4>1. IsFiniteSet(I) /\ Cardinality(I) \in Nat
        BY InboundFinite
      <4> HIDE DEF I
      <4>2. Cardinality(I \cup {c}) = IF c \in I THEN Cardinality(I) ELSE Cardinality(I) + 1
        BY <4>1, FS_AddElement, Zenon
      <4>3. Cardinality(I \cup {c}) <= Cardinality(I) + 1
        BY <4>1, <4>2
      <4> QED BY <4>3 DEF I
    <3>4. Cardinality(InboundOf(all_connections)) \in Nat
      BY InboundFinite
    <3>5. Cardinality(InboundOf(all_connections) \cup {c}) \in Nat
      BY InboundFinite, FS_AddElement, FS_CardinalityType
    <3> QED BY <3>1, <3>2, <3>3, <3>4, <3>5 DEF ServerConstants
  <2> QED BY <2>1, <2>2
<1> QED BY <1>5, <1>6, <1>8, <1>9 DEF ServerInv

\* The end of a close removes what is listed for the peer, which is the connection or nothing.
LEMMA CloseEndInv ==
    ASSUME ServerConstants, ServerInv, NEW c \in Conn, Srv!close_end(c) \/ Srv!close_raises(c)
    PROVE  ServerInv'
<1> DEFINE p == PeerOf[c]
<1>1. Srv!Waiting(c) = {}
  BY DEF Srv!Waiting, ServerInv, ServerTypes
<1>2. /\ conn_closed[c] = "closing"
      /\ all_connections' = Srv!Closed(all_connections, c) /\ connection_by_type' = Srv!ClosedByType(c)
      /\ stage' = [d \in Conn |-> stage[d]]
      /\ conn_closed' = [d \in Conn |-> IF d = c THEN "done" ELSE conn_closed[d]]
  BY <1>1 DEF Srv!close_end, Srv!close_raises, Srv!CloseCallback, Srv!Replaced, ServerInv, ServerTypes
<1>3. stage' = stage
  BY <1>2 DEF ServerInv, ServerTypes
<1>4. p \in DOMAIN all_connections => all_connections[p] = c /\ stage[c] = "added"
  BY <1>2 DEF ServerInv, ListInv, OneEach, Srv!Over, ServerTypes
<1>5. /\ DOMAIN all_connections' = DOMAIN all_connections \ {p}
      /\ \A q \in DOMAIN all_connections' : all_connections'[q] = all_connections[q]
      /\ all_connections' = [q \in DOMAIN all_connections' |-> all_connections'[q]]
  BY <1>2 DEF Srv!Closed, Srv!Without, Srv!Restrict
<1>6. connection_by_type' = all_connections'
  <2>1. CASE stage[c] = "failed"
    <3>1. p \notin DOMAIN all_connections /\ connection_by_type' = all_connections
      BY <1>2, <1>4, <2>1 DEF Srv!ClosedByType, ServerInv, ListInv
    <3>2. all_connections' = [q \in DOMAIN all_connections |-> all_connections[q]]
      BY <1>2, <3>1 DEF Srv!Closed, Srv!Without, Srv!Restrict
    <3> QED BY <3>1, <3>2 DEF ServerInv, ListInv
  <2>2. CASE stage[c] # "failed"
    BY <1>2, <2>2 DEF Srv!ClosedByType, ServerInv, ListInv
  <2> QED BY <2>1, <2>2
<1>7. ServerTypes'
  BY <1>2, <1>3 DEF ServerInv, ServerTypes
<1>8. OneEach'
  <2>1. \A d \in Conn : Srv!Over(d) => Srv!Over(d)'
    BY <1>2, <1>3 DEF Srv!Over
  <2> QED BY <2>1 DEF ServerInv, OneEach
<1>9. ListInv'
  <2>1. ASSUME NEW q \in DOMAIN all_connections'
        PROVE  all_connections'[q] \in Conn /\ PeerOf[all_connections'[q]] = q
               /\ stage'[all_connections'[q]] = "added" /\ conn_closed'[all_connections'[q]] # "done"
    BY <1>2, <1>3, <1>5 DEF ServerInv, ListInv
  <2>2. ASSUME NEW d \in Conn, stage'[d] = "added", conn_closed'[d] # "done"
        PROVE  PeerOf[d] \in DOMAIN all_connections' /\ all_connections'[PeerOf[d]] = d
    <3>1. d # c /\ stage[d] = "added" /\ conn_closed[d] # "done"
      BY <1>2, <1>3, <2>2
    <3>2. PeerOf[d] \in DOMAIN all_connections /\ all_connections[PeerOf[d]] = d
      BY <3>1 DEF ServerInv, ListInv
    <3> QED BY <1>4, <1>5, <3>1, <3>2
  <2> QED BY <1>5, <1>6, <2>1, <2>2 DEF ListInv
<1>10. Cardinality(InboundOf(all_connections')) <= InboundLimit
  <2>1. InboundOf(all_connections') \in SUBSET InboundOf(all_connections)
    BY <1>5 DEF InboundOf
  <2>2. Cardinality(InboundOf(all_connections')) <= Cardinality(InboundOf(all_connections))
    BY <2>1, InboundFinite
  <2>3. Cardinality(InboundOf(all_connections')) \in Nat /\ Cardinality(InboundOf(all_connections)) \in Nat
    BY <2>1, InboundFinite, FS_Subset, FS_CardinalityType
  <2> QED BY <2>2, <2>3 DEF ServerInv, ServerConstants
<1> QED BY <1>7, <1>8, <1>9, <1>10 DEF ServerInv

\* all_connections and connection_by_type hold exactly the connections that were added
\* and are not closed, through failed handshakes, refusals, bans and closes; and no more
\* inbound ones than the configuration allows.
ListsMatch == Srv!ListsMatch

\* The list of all connections and the lists by type have the same connections, each under its
\* node id and none that was closed, and the incoming ones are within their limit: over handshakes
\* that fail or are refused, bans, and connections closed from either side, as long as a peer does
\* not open a second connection while its first one is not over (Overlap).
THEOREM Server_ListsMatch == ASSUME ServerConstants PROVE Srv!Spec => []ListsMatch
<1>1. Srv!Init => ServerInv
  <2> SUFFICES ASSUME Srv!Init PROVE ServerInv
    OBVIOUS
  <2>1. ServerTypes /\ OneEach /\ ListInv
    BY DEF Srv!Init, ServerTypes, OneEach, ListInv, Srv!Stages, Srv!Over
  <2>2. InboundOf(all_connections) = {}
    BY DEF Srv!Init, InboundOf
  <2>3. Cardinality({}) = 0
    BY FS_EmptySet
  <2> QED BY <2>1, <2>2, <2>3 DEF ServerInv, ServerConstants
<1>2. ServerInv /\ [Srv!Next]_Srv!vars => ServerInv'
  <2> SUFFICES ASSUME ServerInv, [Srv!Next]_Srv!vars PROVE ServerInv'
    OBVIOUS
  <2>1. ASSUME UNCHANGED <<all_connections, connection_by_type, stage, conn_closed>> PROVE ServerInv'
    BY <2>1 DEF ServerInv, ServerTypes, OneEach, ListInv, Srv!Over, Srv!Stages
  <2>2. ASSUME NEW q, Srv!Unban(q) PROVE ServerInv'
    BY <2>1, <2>2 DEF Srv!Unban, Srv!lists
  <2>3. CASE UNCHANGED Srv!vars
    BY <2>1, <2>3 DEF Srv!vars
  <2> QED BY <2>2, <2>3, OpenInv, RefuseInv, AddedInv, CloseEndInv DEF Srv!Next
<1>3. ServerInv => ListsMatch
  <2> SUFFICES ASSUME ServerInv PROVE ListsMatch
    OBVIOUS
  <2>1. Srv!OpenIsListed /\ Srv!ListedIsOpen
    BY DEF ServerInv, ListInv, Srv!OpenIsListed, Srv!ListedIsOpen, Srv!Listed, Srv!Range
  <2>2. Srv!ListsAgree /\ Srv!InboundBounded
    BY InboundIs DEF ServerInv, ListInv, Srv!ListsAgree, Srv!InboundBounded
  <2> QED BY <2>1, <2>2 DEF ListsMatch, Srv!ListsMatch
<1> QED BY <1>1, <1>2, <1>3, PTL DEF Srv!Spec

-----------------------------------------------------------------------------
(* The farmer *)

CONSTANTS Sp, Quality, SpOf, Winning, Expiry, MaxClock
VARIABLES sps, proofs, idents, responses, addTime, clock, farmLink, handshaken, lookups, plots,
          mail, declared, signedFor

F == INSTANCE Farmer

\* Signage points and quality strings are hashes of different things, kept under one
\* table of times.
FarmerConstants ==
    /\ SpOf \in [Quality -> Sp] /\ Sp \cap Quality = {}
    /\ Expiry \in Nat

\* The table of times: none is in the future.
Times(f, now) == \A k \in DOMAIN f : f[k] \in Nat /\ f[k] <= now

\* A proof that can be signed for has its point, and is not younger than it.
Signable(f) ==
    \A q \in idents : SpOf[q] \in sps /\ q \in proofs /\ f[q] <= f[SpOf[q]]

Timed(f) == sps \cup idents \cup responses \cup {SpOf[q] : q \in proofs} \subseteq DOMAIN f

FarmerTypes ==
    /\ clock \in Nat /\ sps \subseteq Sp /\ responses \subseteq Sp
    /\ idents \subseteq Quality /\ proofs \subseteq Quality /\ lookups \subseteq Quality /\ plots \subseteq Quality
    /\ \A m \in mail : m.type = "proof" => m.q \in Quality

FarmerInv == FarmerTypes /\ Times(addTime, clock) /\ Signable(addTime) /\ Timed(addTime)

\* What Touch does to the table of times.
LEMMA TouchIs ==
    ASSUME NEW f, NEW keys
    PROVE  /\ DOMAIN F!Touch(f, keys) = DOMAIN f \cup keys
           /\ \A k \in DOMAIN f \cup keys : F!Touch(f, keys)[k] = IF k \in keys THEN clock ELSE f[k]
BY DEF F!Touch

\* The steps that leave the caches alone.
LEMMA FarmerFrame ==
    ASSUME FarmerInv, sps' = sps, proofs' = proofs, idents' = idents, responses' = responses, addTime' = addTime,
           clock' \in Nat, clock' >= clock, lookups' \subseteq Quality, plots' \subseteq Quality,
           \A m \in mail' : m \in mail \/ (m.type = "proof" => m.q \in Quality)
    PROVE  FarmerInv'
<1>1. FarmerTypes'
  BY DEF FarmerInv, FarmerTypes
<1>2. Times(addTime', clock')
  BY DEF FarmerInv, FarmerTypes, Times
<1>3. Signable(addTime)' /\ Timed(addTime)'
  BY DEF FarmerInv, Signable, Timed
<1> QED BY <1>1, <1>2, <1>3 DEF FarmerInv

\* Each step of the farmer, its harvester and the node.
LEMMA FarmerStep ==
    ASSUME FarmerConstants, FarmerInv, [F!Next]_(F!farmerVars)
    PROVE  FarmerInv'
<1>1. /\ clock \in Nat /\ sps \subseteq Sp /\ responses \subseteq Sp
      /\ idents \subseteq Quality /\ proofs \subseteq Quality /\ lookups \subseteq Quality /\ plots \subseteq Quality
      /\ \A m \in mail : m.type = "proof" => m.q \in Quality
  BY DEF FarmerInv, FarmerTypes
<1>2. Times(addTime, clock) /\ Signable(addTime) /\ Timed(addTime)
  BY DEF FarmerInv
<1>3. CASE UNCHANGED F!farmerVars
  BY <1>1, <1>3, FarmerFrame DEF F!farmerVars, F!caches, F!harvester, F!nodeSide
<1>4. CASE F!on_connect \/ F!on_disconnect
  BY <1>1, <1>4, FarmerFrame DEF F!on_connect, F!on_disconnect, F!caches, F!harvester
<1>5. ASSUME NEW p \in Sp, F!new_signage_point(p) PROVE FarmerInv'
  <2>1. \A m \in mail' : m \in mail \/ (m.type = "proof" => m.q \in Quality)
    BY <1>5 DEF F!new_signage_point
  <2>2. CASE p \in sps
    BY <1>1, <1>5, <2>1, <2>2, FarmerFrame DEF F!new_signage_point, F!harvester
  <2>3. CASE p \notin sps
    <3>1. /\ sps' = sps \cup {p} /\ addTime' = F!Touch(addTime, {p}) /\ clock' = clock
          /\ proofs' = proofs /\ idents' = idents /\ responses' = responses /\ lookups' = lookups /\ plots' = plots
      BY <1>5, <2>3 DEF F!new_signage_point, F!harvester
    <3>2. /\ DOMAIN addTime' = DOMAIN addTime \cup {p}
          /\ \A k \in DOMAIN addTime \cup {p} : addTime'[k] = IF k = p THEN clock ELSE addTime[k]
      BY <3>1, TouchIs, Zenon
    <3>3. FarmerTypes'
      BY <1>1, <1>5, <2>1, <3>1 DEF FarmerTypes
    <3>4. Times(addTime', clock')
      BY <1>1, <1>2, <3>1, <3>2 DEF Times
    <3>5. Timed(addTime)'
      BY <1>2, <3>1, <3>2 DEF Timed
    <3>6. Signable(addTime)'
      <4>1. ASSUME NEW q \in idents PROVE SpOf[q] \in sps' /\ q \in proofs /\ addTime'[q] <= addTime'[SpOf[q]]
        <5>1. /\ SpOf[q] \in sps /\ q \in proofs /\ addTime[q] <= addTime[SpOf[q]]
              /\ q \in DOMAIN addTime /\ SpOf[q] \in DOMAIN addTime
          BY <1>2 DEF Signable, Timed
        <5>2. q # p /\ SpOf[q] # p
          BY <1>1, <1>5, <2>3, <5>1 DEF FarmerConstants
        <5> QED BY <3>1, <3>2, <5>1, <5>2
      <4> QED BY <3>1, <4>1 DEF Signable
    <3> QED BY <3>3, <3>4, <3>5, <3>6 DEF FarmerInv
  <2> QED BY <2>2, <2>3
<1>6. CASE F!harvester_handshake
  BY <1>1, <1>6, FarmerFrame DEF F!harvester_handshake, F!caches
<1>7. CASE F!new_signage_point_harvester
  <2>1. lookups' \subseteq Quality
    BY <1>1, <1>7 DEF F!new_signage_point_harvester, F!PlotsPassing
  <2> QED BY <1>1, <1>7, <2>1, FarmerFrame DEF F!new_signage_point_harvester, F!caches
<1>8. CASE F!EndLookup
  <2>1. PICK q \in lookups : lookups' = lookups \ {q} /\ mail' \in {mail, F!SendProof(q)}
          /\ UNCHANGED <<F!caches, handshaken, plots, F!nodeSide, clock, farmLink>>
    BY <1>8 DEF F!EndLookup
  <2>2. \A m \in mail' : m \in mail \/ (m.type = "proof" => m.q \in Quality)
    BY <1>1, <2>1 DEF F!SendProof
  <2> QED BY <1>1, <2>1, <2>2, FarmerFrame DEF F!caches
<1>9. CASE F!PlotGone
  BY <1>1, <1>9, FarmerFrame DEF F!PlotGone, F!caches
<1>10. CASE F!request_signatures
  <2>1. PICK m \in mail : mail' = (mail \ {m}) \cup
                   (IF m.q \in plots THEN {[type |-> "signed", q |-> m.q, what |-> m.what]} ELSE {})
    BY <1>10 DEF F!request_signatures
  <2>2. \A n \in mail' : n \in mail \/ (n.type = "proof" => n.q \in Quality)
    BY <2>1
  <2> QED BY <1>1, <1>10, <2>2, FarmerFrame DEF F!request_signatures, F!caches, F!harvester
<1>11. CASE F!respond_signatures
  BY <1>1, <1>11, FarmerFrame DEF F!respond_signatures, F!caches, F!harvester
<1>12. CASE F!request_signed_values
  <2>1. \A m \in mail' : m \in mail \/ (m.type = "proof" => m.q \in Quality)
    BY <1>12 DEF F!request_signed_values, F!Sign
  <2> QED BY <1>1, <1>12, <2>1, FarmerFrame DEF F!request_signed_values, F!caches, F!harvester
<1>13. CASE F!Pass
  BY <1>1, <1>13, FarmerFrame DEF F!Pass, F!caches, F!harvester
<1>14. CASE F!clear_cache
  <2>1. PICK gone : gone = {k \in DOMAIN addTime : clock - addTime[k] > Expiry}
    BY Zenon
  <2>2. /\ sps' = sps \ gone /\ idents' = idents \ gone /\ responses' = responses \ gone
        /\ proofs' = {q \in proofs : SpOf[q] \notin gone}
        /\ addTime' = [k \in DOMAIN addTime \ gone |-> addTime[k]]
        /\ lookups' = lookups /\ plots' = plots /\ clock' = clock /\ mail' = mail
    BY <1>14, <2>1 DEF F!clear_cache, F!harvester
  <2>3. FarmerTypes'
    BY <1>1, <2>2 DEF FarmerTypes
  <2>4. Times(addTime', clock')
    BY <1>2, <2>2 DEF Times
  <2>5. Timed(addTime)'
    BY <1>2, <2>2 DEF Timed
  <2>6. ASSUME NEW q \in idents \ gone
        PROVE  SpOf[q] \in sps \ gone /\ q \in proofs /\ addTime[q] <= addTime[SpOf[q]] /\ {q, SpOf[q]} \subseteq DOMAIN addTime \ gone
    <3>1. /\ SpOf[q] \in sps /\ q \in proofs /\ addTime[q] <= addTime[SpOf[q]]
          /\ q \in DOMAIN addTime /\ SpOf[q] \in DOMAIN addTime
      BY <1>2 DEF Signable, Timed
    <3>2. addTime[q] \in Nat /\ addTime[SpOf[q]] \in Nat /\ ~(clock - addTime[q] > Expiry)
      BY <1>2, <2>1, <3>1 DEF Times
    <3>3. ~(clock - addTime[SpOf[q]] > Expiry)
      BY <1>1, <3>1, <3>2 DEF FarmerConstants
    <3> QED BY <2>1, <3>1, <3>3
  <2>7. Signable(addTime)'
    BY <2>2, <2>6 DEF Signable
  <2> QED BY <2>3, <2>4, <2>5, <2>7 DEF FarmerInv
<1>15. CASE F!new_proof_of_space
  <2>1. PICK m \in mail : m.type = "proof"
          /\ LET p == SpOf[m.q]
                 known == p \in sps
                 wins == known /\ m.q \in Winning
             IN  /\ responses' = responses \cup {p}
                 /\ addTime' = F!Touch(addTime, (IF wins THEN {p, m.q} ELSE {})
                                              \cup (IF p \in responses THEN {} ELSE {p}))
                 /\ proofs' = IF wins THEN proofs \cup {m.q} ELSE proofs
                 /\ idents' = IF wins THEN idents \cup {m.q} ELSE idents
                 /\ mail' = (mail \ {m}) \cup (IF wins THEN {F!Sign(m.q, "sp")} ELSE {})
    BY <1>15, Zenon DEF F!new_proof_of_space
  <2>2. UNCHANGED <<sps, lookups, plots, clock>>
    BY <1>15 DEF F!new_proof_of_space, F!harvester
  <2>3. PICK q \in Quality : q = m.q
    BY <1>1, <2>1
  <2>4. PICK p \in Sp : p = SpOf[q]
    BY <2>3 DEF FarmerConstants
  <2>5. \A n \in mail' : n \in mail \/ (n.type = "proof" => n.q \in Quality)
    BY <2>1 DEF F!Sign
  <2>6. p # q
    BY <2>3, <2>4 DEF FarmerConstants
  <2>7. CASE p \in sps /\ q \in Winning
    <3>1. /\ responses' = responses \cup {p} /\ proofs' = proofs \cup {q} /\ idents' = idents \cup {q}
          /\ addTime' = F!Touch(addTime, {p, q})
      <4>1. {p, q} \cup (IF p \in responses THEN {} ELSE {p}) = {p, q}
        OBVIOUS
      <4> QED BY <2>1, <2>3, <2>4, <2>7, <4>1
    <3>2. /\ DOMAIN addTime' = DOMAIN addTime \cup {p, q}
          /\ \A k \in DOMAIN addTime \cup {p, q} : addTime'[k] = IF k \in {p, q} THEN clock ELSE addTime[k]
      BY <3>1, TouchIs, Zenon
    <3>3. FarmerTypes'
      BY <1>1, <2>2, <2>5, <3>1 DEF FarmerTypes
    <3>4. Times(addTime', clock')
      BY <1>1, <1>2, <2>2, <3>2 DEF Times
    <3>5. Timed(addTime)'
      BY <1>2, <2>2, <2>4, <3>1, <3>2 DEF Timed
    <3>6. Signable(addTime)'
      <4>1. ASSUME NEW r \in idents \cup {q} PROVE SpOf[r] \in sps /\ r \in proofs \cup {q} /\ addTime'[r] <= addTime'[SpOf[r]]
        <5>1. CASE r = q
          BY <1>1, <2>4, <2>7, <3>2, <5>1
        <5>2. CASE r # q
          <6>1. /\ SpOf[r] \in sps /\ r \in proofs /\ addTime[r] <= addTime[SpOf[r]]
                /\ r \in DOMAIN addTime /\ SpOf[r] \in DOMAIN addTime
            BY <4>1, <5>2, <1>2 DEF Signable, Timed
          <6>2. r # p /\ SpOf[r] # q
            BY <1>1, <2>3, <2>4, <4>1, <5>2, <6>1 DEF FarmerConstants
          <6>3. addTime[r] \in Nat /\ addTime[r] <= clock
            BY <1>2, <6>1 DEF Times
          <6>4. addTime'[r] = addTime[r] /\ addTime'[SpOf[r]] = IF SpOf[r] = p THEN clock ELSE addTime[SpOf[r]]
            BY <3>2, <5>2, <6>1, <6>2
          <6> QED BY <6>1, <6>3, <6>4
        <5> QED BY <5>1, <5>2
      <4> QED BY <2>2, <3>1, <4>1, Zenon DEF Signable
    <3> QED BY <3>3, <3>4, <3>5, <3>6 DEF FarmerInv
  <2>8. CASE ~(p \in sps /\ q \in Winning)
    <3>1. PICK keys \in SUBSET {p} :
             /\ responses' = responses \cup {p} /\ proofs' = proofs /\ idents' = idents
             /\ addTime' = F!Touch(addTime, keys) /\ (p \in responses \/ keys = {p})
      <4>1. {} \cup (IF p \in responses THEN {} ELSE {p}) = IF p \in responses THEN {} ELSE {p}
        OBVIOUS
      <4> QED BY <2>1, <2>3, <2>4, <2>8, <4>1
    <3>2. /\ DOMAIN addTime' = DOMAIN addTime \cup keys
          /\ \A k \in DOMAIN addTime \cup keys : addTime'[k] = IF k \in keys THEN clock ELSE addTime[k]
      BY <3>1, TouchIs, Zenon
    <3>3. FarmerTypes'
      BY <1>1, <2>2, <2>5, <3>1 DEF FarmerTypes
    <3>4. Times(addTime', clock')
      BY <1>1, <1>2, <2>2, <3>2 DEF Times
    <3>5. Timed(addTime)'
      BY <1>2, <2>2, <2>4, <3>1, <3>2 DEF Timed
    <3>6. Signable(addTime)'
      <4>1. ASSUME NEW r \in idents PROVE SpOf[r] \in sps /\ r \in proofs /\ addTime'[r] <= addTime'[SpOf[r]]
        <5>1. /\ SpOf[r] \in sps /\ r \in proofs /\ addTime[r] <= addTime[SpOf[r]]
              /\ r \in DOMAIN addTime /\ SpOf[r] \in DOMAIN addTime
          BY <1>2 DEF Signable, Timed
        <5>2. r # p
          BY <1>1, <2>4 DEF FarmerConstants
        <5>3. addTime[r] \in Nat /\ addTime[r] <= clock
          BY <1>2, <5>1 DEF Times
        <5>4. addTime'[r] = addTime[r] /\ addTime'[SpOf[r]] \in {clock, addTime[SpOf[r]]}
          BY <3>1, <3>2, <5>1, <5>2
        <5> QED BY <5>1, <5>3, <5>4
      <4> QED BY <2>2, <3>1, <4>1 DEF Signable
    <3> QED BY <3>3, <3>4, <3>5, <3>6 DEF FarmerInv
  <2> QED BY <2>7, <2>8
<1> QED BY <1>3, <1>4, <1>5, <1>6, <1>7, <1>8, <1>9, <1>10, <1>11, <1>12, <1>13, <1>14, <1>15 DEF F!Next, F!Handle

\* A proof for which the farmer can still ask signatures is one whose answer it can use, although
\* each of its tables drops entries by an age of its own.
SignableIsUsable == F!SignableIsUsable

\* A proof for which signatures can be asked has its signage point and its proof in the
\* other tables, whatever the order of points, proofs, signatures, reconnections and
\* clear_cache, and each entry has a time after which it goes.
THEOREM Farmer_SignableIsUsable == ASSUME FarmerConstants PROVE F!Spec => []SignableIsUsable
<1>1. F!Init => FarmerInv
  <2>1. SUFFICES ASSUME F!Init PROVE FarmerInv
    OBVIOUS
  <2>2. addTime = <<>> /\ DOMAIN addTime = {}
    BY <2>1 DEF F!Init
  <2>3. sps = {} /\ proofs = {} /\ idents = {} /\ responses = {} /\ clock = 0 /\ lookups = {} /\ plots = Quality /\ mail = {}
    BY <2>1 DEF F!Init
  <2> QED BY <2>2, <2>3 DEF FarmerInv, FarmerTypes, Times, Signable, Timed
<1>2. FarmerInv /\ [F!Next]_(F!farmerVars) => FarmerInv'
  BY FarmerStep
<1>3. FarmerInv => SignableIsUsable
  BY DEF FarmerInv, Signable, Timed, SignableIsUsable, F!SignableIsUsable
<1> QED BY <1>1, <1>2, <1>3, PTL DEF F!Spec

-----------------------------------------------------------------------------
(* The daemon *)

CONSTANTS Service, Pid, Plot, Parallel, PlotRequests, MaxPlotFaults, MaxCrashes
VARIABLES services, pstat, held, kills, shutting, plotQueue, plotState, delayed, plotter, watching, plotStops,
          plotFaults, crashes

D == INSTANCE Daemon

\* No process has the number that stands for none.
DaemonConstants == Pid \subseteq Nat \ {0}

Stats == [svc : Service \cup {"none"}, at : {"none", "launched", "running", "stopping", "dead"}]

\* While the daemon has not been told to exit: the process it has for a service is one of that
\* service, and each live process is in its map or being killed.
DaemonInv ==
    /\ pstat \in [Pid -> Stats] /\ services \in [Service -> Pid \cup {0}]
    /\ \A p \in Pid : pstat[p].at # "none" => pstat[p].svc \in Service
    /\ \A s \in Service : services[s] # 0 => pstat[services[s]].svc = s /\ pstat[services[s]].at # "none"
    /\ \A p \in kills : p \in Pid /\ pstat[p].at # "none"
    /\ D!Managed

\* A step that kills or moves on processes, and hands no service to another one.
LEMMA ProcessesGoOn ==
    ASSUME DaemonInv, shutting = "no",
           pstat' \in [Pid -> Stats], services' \in [Service -> Pid \cup {0}],
           \A p \in Pid : /\ pstat'[p].svc = pstat[p].svc
                          /\ pstat[p].at \in {"none", "dead"} => pstat'[p].at = pstat[p].at
                          /\ pstat'[p].at = "none" => pstat[p].at = "none",
           \A s \in Service : services'[s] \in {services[s], 0},
           \A p \in kills' : p \in kills \/ \E s \in Service : p = services[s] /\ p # 0,
           \A p \in Pid : D!Live(p)' /\ (services[pstat[p].svc] = p \/ p \in kills)
                            => services'[pstat[p].svc] = p \/ p \in kills'
    PROVE  DaemonInv'
<1>1. \A p \in Pid : D!Live(p)' => D!Live(p)
  BY DEF D!Live, DaemonInv
<1>2. \A p \in Pid : D!Live(p) => services[pstat[p].svc] = p \/ p \in kills
  BY DEF DaemonInv, D!Managed
<1>3. \A p \in Pid : D!Live(p)' => services'[pstat'[p].svc] = p \/ p \in kills'
  BY <1>1, <1>2
<1>4. D!Managed'
  BY <1>3 DEF D!Managed
<1>5. \A p \in Pid : pstat'[p].at # "none" => pstat'[p].svc \in Service
  BY DEF DaemonInv
<1>6. \A s \in Service : services'[s] # 0 => pstat'[services'[s]].svc = s /\ pstat'[services'[s]].at # "none"
  BY DEF DaemonInv
<1>7. \A p \in kills' : p \in Pid /\ pstat'[p].at # "none"
  BY DEF DaemonInv
<1> QED BY <1>4, <1>5, <1>6, <1>7 DEF DaemonInv

\* Each step of the daemon and of the processes keeps the map.
LEMMA DaemonStep ==
    ASSUME DaemonConstants, DaemonInv, shutting = "no", [D!Next]_(D!daemonVars)
    PROVE  DaemonInv' \/ shutting' # "no"
<1>1. /\ pstat \in [Pid -> Stats] /\ services \in [Service -> Pid \cup {0}]
      /\ \A p \in Pid : pstat[p].at # "none" => pstat[p].svc \in Service
      /\ \A s \in Service : services[s] # 0 => pstat[services[s]].svc = s /\ pstat[services[s]].at # "none"
      /\ \A p \in kills : p \in Pid /\ pstat[p].at # "none"
      /\ \A p \in Pid : D!Live(p) => services[pstat[p].svc] = p \/ p \in kills
  BY DEF DaemonInv, D!Managed
<1>2. CASE UNCHANGED D!serviceVars
  BY <1>1, <1>2 DEF D!serviceVars, DaemonInv, D!Managed, D!Live
<1>3. CASE D!QueueNext
  <2>1. UNCHANGED D!serviceVars
    BY <1>3, Zenon DEF D!QueueNext, D!PlotStep, D!start_plotting, D!PassOver, D!StartPlotter, D!LaunchFails, D!PlotterEnds,
                D!FinishPlotting, D!stop_plotting, D!TerminatePlotter, D!EndStop
  <2> QED BY <2>1, <1>2
<1>4. ASSUME NEW s \in Service, D!start_service(s) PROVE DaemonInv'
  <2>1. PICK p \in Pid : D!launch_service(s, p)
    BY <1>4 DEF D!start_service
  <2>2. /\ pstat[p].at = "none" /\ ~(services[s] # 0 /\ D!Live(services[s])) /\ kills' = kills
        /\ pstat' = [pstat EXCEPT ![p] = [svc |-> s, at |-> "launched"]]
        /\ services' = [services EXCEPT ![s] = p]
    BY <1>4, <2>1, Zenon DEF D!start_service, D!launch_service, D!Launchable, D!is_running, D!NoPid
  <2>3. pstat' \in [Pid -> Stats] /\ services' \in [Service -> Pid \cup {0}]
    BY <1>1, <2>2 DEF Stats
  <2>4. \A q \in Pid : pstat'[q].at # "none" => pstat'[q].svc \in Service
    BY <1>1, <2>2
  <2>5. ASSUME NEW r \in Service, services'[r] # 0 PROVE pstat'[services'[r]].svc = r /\ pstat'[services'[r]].at # "none"
    <3>1. CASE r = s
      BY <1>1, <2>2, <3>1
    <3>2. CASE r # s
      <4>1. services'[r] = services[r]
        BY <1>1, <2>2, <3>2
      <4>2. services[r] \in Pid /\ pstat[services[r]].svc = r /\ pstat[services[r]].at # "none"
        BY <1>1, <2>5, <4>1
      <4>3. pstat'[services[r]] = pstat[services[r]]
        BY <1>1, <2>2, <4>2
      <4> QED BY <4>1, <4>2, <4>3
    <3> QED BY <3>1, <3>2
  <2>6. ASSUME NEW q \in Pid, D!Live(q)' PROVE services'[pstat'[q].svc] = q \/ q \in kills'
    <3>1. CASE q = p
      BY <1>1, <2>2, <3>1
    <3>2. CASE q # p
      <4>1. D!Live(q) /\ pstat'[q] = pstat[q] /\ pstat[q].svc \in Service
        BY <1>1, <2>2, <2>6, <3>2 DEF D!Live
      <4>2. CASE q \in kills
        BY <2>2, <4>2
      <4>3. CASE services[pstat[q].svc] = q
        <5>1. pstat[q].svc # s
          BY <2>2, <4>1, <4>3 DEF DaemonConstants
        <5> QED BY <1>1, <2>2, <4>1, <4>3, <5>1
      <4> QED BY <1>1, <4>1, <4>2, <4>3
    <3> QED BY <3>1, <3>2
  <2>7. \A q \in kills' : q \in Pid /\ pstat'[q].at # "none"
    BY <1>1, <2>2
  <2> QED BY <2>3, <2>4, <2>5, <2>6, <2>7 DEF DaemonInv, D!Managed
<1>5. ASSUME NEW s \in Service, D!stop_service(s) PROVE DaemonInv'
  <2>1. /\ services[s] \in Pid /\ services' = [services EXCEPT ![s] = 0] /\ kills' = kills \cup {services[s]}
        /\ pstat' = [pstat EXCEPT ![services[s]].at =
                   CASE @ = "launched" -> "dead" [] @ = "running" -> "stopping" [] OTHER -> @]
    BY <1>1, <1>5 DEF D!stop_service, D!kill_service, D!NoPid
  <2>2. PICK a : a = CASE pstat[services[s]].at = "launched" -> "dead" [] pstat[services[s]].at = "running" -> "stopping"
                       [] OTHER -> pstat[services[s]].at
    OBVIOUS
  <2>3. PICK p \in Pid : p = services[s]
    BY <2>1
  <2>4. pstat' = [pstat EXCEPT ![p].at = a]
    BY <2>1, <2>2, <2>3
  <2>5. /\ a \in {"none", "launched", "running", "stopping", "dead"}
        /\ pstat[p].at \in {"none", "dead"} => a = pstat[p].at
        /\ a = "none" => pstat[p].at = "none"
    BY <1>1, <2>2, <2>3 DEF Stats
  <2>6. pstat' \in [Pid -> Stats] /\ services' \in [Service -> Pid \cup {0}]
    BY <1>1, <2>1, <2>4, <2>5 DEF Stats
  <2>7. \A q \in Pid : pstat'[q].svc = pstat[q].svc /\ pstat'[q].at = IF q = p THEN a ELSE pstat[q].at
    BY <1>1, <2>4 DEF Stats
  <2>8. \A r \in Service : services'[r] \in {services[r], 0}
    BY <1>1, <2>1
  <2>9. \A q \in Pid : D!Live(q)' /\ (services[pstat[q].svc] = q \/ q \in kills)
                            => services'[pstat[q].svc] = q \/ q \in kills'
    <3>1. SUFFICES ASSUME NEW q \in Pid, D!Live(q)', services[pstat[q].svc] = q \/ q \in kills
                   PROVE  services'[pstat[q].svc] = q \/ q \in kills'
      OBVIOUS
    <3>2. CASE q = p
      BY <2>1, <2>3, <3>2
    <3>3. CASE q # p
      <4>1. pstat[q].svc \in Service
        BY <1>1, <2>7, <3>1, <3>3 DEF D!Live
      <4> QED BY <1>1, <2>1, <2>3, <3>1, <3>3, <4>1
    <3> QED BY <3>2, <3>3
  <2>10. \A q \in kills' : q \in kills \/ \E r \in Service : q = services[r] /\ q # 0
    BY <2>1 DEF DaemonConstants
  <2> QED BY <2>5, <2>6, <2>7, <2>8, <2>9, <2>10, ProcessesGoOn, Zenon
<1>6. ASSUME NEW p \in Pid, D!kill_process(p) PROVE DaemonInv'
  <2>1. /\ kills' = kills \ {p} /\ services' = services /\ pstat' = [pstat EXCEPT ![p].at = "dead"] /\ p \in kills
    BY <1>6 DEF D!kill_process
  <2>2. pstat' \in [Pid -> Stats]
    BY <1>1, <2>1 DEF Stats
  <2>3. \A q \in Pid : pstat'[q].svc = pstat[q].svc /\ pstat'[q].at = IF q = p THEN "dead" ELSE pstat[q].at
    BY <1>1, <2>1 DEF Stats
  <2>4. \A q \in Pid : D!Live(q)' => q # p
    BY <2>3 DEF D!Live
  <2> QED BY <1>1, <2>1, <2>2, <2>3, <2>4, ProcessesGoOn
<1>7. ASSUME NEW p \in Pid, NEW a \in {"running", "stopping", "dead"}, pstat[p].at \notin {"none", "dead"},
             pstat' = [pstat EXCEPT ![p].at = a], services' = services, kills' = kills
      PROVE  DaemonInv'
  <2>1. pstat' \in [Pid -> Stats]
    BY <1>1, <1>7 DEF Stats
  <2>2. \A q \in Pid : pstat'[q].svc = pstat[q].svc /\ pstat'[q].at = IF q = p THEN a ELSE pstat[q].at
    BY <1>1, <1>7 DEF Stats
  <2> QED BY <1>1, <1>7, <2>1, <2>2, ProcessesGoOn
<1>8. ASSUME NEW p \in Pid, D!RunService(p) \/ D!StopByRpc(p) \/ D!wait_closed(p) PROVE DaemonInv'
  BY <1>7, <1>8 DEF D!RunService, D!StopByRpc, D!wait_closed
<1>9. CASE D!ExitKills \/ D!ExitClears
  BY <1>9 DEF D!ExitKills, D!ExitClears
<1> QED BY <1>2, <1>3, <1>4, <1>5, <1>6, <1>8, <1>9 DEF D!Next, D!ServiceNext, D!daemonVars

\* Once the daemon exits it does not come back.
LEMMA ExitStays ==
    ASSUME shutting # "no", [D!Next]_(D!daemonVars)
    PROVE  shutting' # "no"
<1>1. CASE UNCHANGED D!daemonVars
  BY <1>1 DEF D!daemonVars, D!serviceVars
<1>2. CASE D!QueueNext
  BY <1>2, Zenon DEF D!QueueNext, D!PlotStep, D!start_plotting, D!PassOver, D!StartPlotter, D!LaunchFails, D!PlotterEnds,
              D!FinishPlotting, D!stop_plotting, D!TerminatePlotter, D!EndStop, D!serviceVars
<1>3. CASE D!ServiceNext
  BY <1>3 DEF D!ServiceNext, D!start_service, D!stop_service, D!kill_process, D!RunService, D!StopByRpc, D!wait_closed,
              D!ExitKills, D!ExitClears
<1> QED BY <1>1, <1>2, <1>3 DEF D!Next

\* The daemon loses no process of a service, however starts, stops and ends of processes fall.
Managed == D!Managed

\* The daemon loses no process of a service: whatever the order of start, stop and kill
\* requests, of processes that end by themselves or find the lock file taken, and of the
\* plots of its queue, a live process is in its map or is being killed until it exits.
THEOREM Daemon_Managed == ASSUME DaemonConstants PROVE D!Spec => []Managed
<1> DEFINE Inv == shutting = "no" => DaemonInv
<1>1. D!Init => Inv
  BY DEF D!Init, DaemonInv, Stats, D!NotLaunched, D!NoPid, D!Managed, D!Live
<1>2. Inv /\ [D!Next]_(D!daemonVars) => Inv'
  BY DaemonStep, ExitStays
<1>3. Inv => Managed
  BY DEF DaemonInv, Managed, D!Managed
<1> HIDE DEF Inv
<1> QED BY <1>1, <1>2, <1>3, PTL DEF D!Spec

-----------------------------------------------------------------------------
(* The timelord *)

CONSTANTS Block, SubSlotIters, NumSps, SpWindow, MinBlocks, MaxSubSlotBlocks, FirstOwnHeight, MaxTotal, MaxFaults
VARIABLES lastState, newPeak, unfinishedBlocks, overflowBlocks, spIters, toSubmit, submitted, itersDone, proofType,
          proofsDone, resets, unspawned, streams, allows, freeClients, tasks, broken, vdfFailures,
          tpc, stopping, onlyEos, afterStop, sent, known, budget

T == INSTANCE Timelord

\* What a label says: a task or a proof with the number of the last reset is on the state of
\* the timelord, unless a reset is under way.
Labelled(x, n, chain, pc) ==
    x.label \in Nat /\ x.label <= n /\ (pc # "stop" /\ x.label = n => x.on = chain)

IsTask(t) == DOMAIN t = {"chain", "label", "on", "of", "stage", "work"}

TimelordInv ==
    /\ resets \in Nat /\ afterStop # "stop"
    /\ \A t \in tasks : IsTask(t) /\ Labelled(t, resets, T!rc, tpc)
    /\ \A p \in proofsDone : Labelled(p, resets, T!rc, tpc)
    /\ T!ProofsOfOneState

\* Tasks and proofs keep their label and their state.
From(x, y) == x.label = y.label /\ x.on = y.on

\* A step that does not reset: the state stays, or a reset has begun.
LEMMA NoReset ==
    ASSUME TimelordInv, resets' = resets, afterStop' # "stop",
           tpc' = "stop" \/ (lastState' = lastState /\ tpc # "stop"),
           \A t \in tasks' : IsTask(t) /\ \E u \in tasks : From(t, u),
           \A p \in proofsDone' : p \in proofsDone \/ \E u \in tasks : From(p, u),
           sent' = sent \/ \A p \in sent'.proofs : p.on = sent'.on
    PROVE  TimelordInv'
<1>1. ASSUME NEW x, NEW y, From(x, y), Labelled(y, resets, T!rc, tpc)
      PROVE  Labelled(x, resets', T!rc', tpc')
  BY <1>1 DEF From, Labelled, T!rc
<1>2. \A t \in tasks' : IsTask(t) /\ Labelled(t, resets', T!rc', tpc')
  BY <1>1 DEF TimelordInv
<1>3. \A p \in proofsDone' : Labelled(p, resets', T!rc', tpc')
  BY <1>1 DEF TimelordInv, From
<1>4. T!ProofsOfOneState'
  BY DEF TimelordInv, T!ProofsOfOneState
<1> QED BY <1>2, <1>3, <1>4 DEF TimelordInv

\* A task that moves on keeps its label and its state.
LEMMA TaskMoves ==
    ASSUME NEW t \in tasks, IsTask(t), NEW v, NEW n,
           n = [t EXCEPT !.stage = v] \/ n = [t EXCEPT !.work = v]
    PROVE  IsTask(n) /\ \E u \in tasks : From(n, u)
<1>1. IsTask(n) /\ n.label = t.label /\ n.on = t.on
  <2>1. CASE n = [t EXCEPT !.stage = v]
    BY <2>1 DEF IsTask
  <2>2. CASE n = [t EXCEPT !.work = v]
    BY <2>2 DEF IsTask
  <2> QED BY <2>1, <2>2
<1> QED BY <1>1 DEF From

\* What is announced is made of proofs with the number of the last reset.
LEMMA AnnounceOneState ==
    ASSUME TimelordInv, tpc = "check", NEW type, T!Announce(type)
    PROVE  \A p \in sent'.proofs : p.on = sent'.on
<1>1. sent'.on = T!rc /\ \A p \in sent'.proofs : p \in proofsDone /\ p.label = resets
  BY DEF T!Announce, T!ProofsWith, T!CountsFor
<1> QED BY <1>1 DEF TimelordInv, Labelled

\* Each step of the main loop, of the node's messages and of the communication tasks.
LEMMA TimelordStep ==
    ASSUME TimelordInv, [T!Next]_(T!timelordVars)
    PROVE  TimelordInv'
<1>1. /\ resets \in Nat /\ afterStop # "stop"
      /\ \A t \in tasks : IsTask(t) /\ Labelled(t, resets, T!rc, tpc)
      /\ \A p \in proofsDone : Labelled(p, resets, T!rc, tpc)
      /\ T!ProofsOfOneState
  BY DEF TimelordInv
<1>2. \A t \in tasks : IsTask(t) /\ \E u \in tasks : From(t, u)
  BY <1>1 DEF From
<1>3. ASSUME UNCHANGED <<lastState, proofsDone, resets, tasks, tpc, afterStop, sent>>
      PROVE  TimelordInv'
  BY <1>1, <1>3, Zenon DEF TimelordInv, T!rc, T!ProofsOfOneState
<1>4. CASE UNCHANGED T!timelordVars
  BY <1>3, <1>4 DEF T!timelordVars, T!state, T!work, T!clients, T!loop, T!env
<1>5. CASE T!new_peak_timelord \/ T!new_unfinished_block_timelord
  <2>1. CASE T!new_peak_timelord
    <3>1. UNCHANGED <<lastState, proofsDone, resets, tasks, tpc, afterStop, sent>>
      BY <2>1, Zenon DEF T!new_peak_timelord, T!work, T!clients, T!loop
    <3> QED BY <1>3, <3>1, Zenon
  <2>2. CASE T!new_unfinished_block_timelord
    <3>1. UNCHANGED <<lastState, proofsDone, resets, tasks, tpc, afterStop, sent>>
      BY <2>2, Zenon DEF T!new_unfinished_block_timelord, T!work, T!clients, T!loop
    <3> QED BY <1>3, <3>1, Zenon
  <2> QED BY <1>5, <2>1, <2>2, Zenon
<1>6. CASE T!StopNext
  <2>1. PICK c : T!StopUnspawned(c)
    BY <1>6 DEF T!StopNext, T!StopChain
  <2>2. \A t \in tasks' : IsTask(t) /\ \E u \in tasks : From(t, u)
    <3>1. CASE tasks' = tasks
      BY <1>2, <3>1
    <3>2. CASE tasks' = {IF t.chain = c THEN [t EXCEPT !.stage = "stopping"] ELSE t : t \in tasks}
      <4>1. ASSUME NEW n \in tasks' PROVE IsTask(n) /\ \E u \in tasks : From(n, u)
        <5>1. PICK t \in tasks : n = IF t.chain = c THEN [t EXCEPT !.stage = "stopping"] ELSE t
          BY <3>2, <4>1
        <5>2. CASE n = t
          BY <1>2, <5>2
        <5>3. CASE n = [t EXCEPT !.stage = "stopping"]
          BY <1>1, <5>3, TaskMoves
        <5> QED BY <5>1, <5>2, <5>3
      <4> QED BY <4>1
    <3> QED BY <2>1, <3>1, <3>2 DEF T!StopUnspawned
  <2> QED BY <1>1, <1>6, <2>2, NoReset, Zenon DEF T!StopNext, T!work, T!env
<1>7. CASE T!_reset_chains
  <2>1. /\ resets' = resets + 1 /\ proofsDone' = {} /\ tasks' = tasks /\ sent' = sent /\ afterStop' = afterStop
    BY <1>7, Zenon DEF T!_reset_chains, T!clients, T!env
  <2>2. \A t \in tasks : IsTask(t) /\ Labelled(t, resets', T!rc', tpc')
    BY <1>1, <2>1 DEF Labelled
  <2>3. resets' \in Nat /\ afterStop' # "stop"
    <3>1. resets \in Nat /\ afterStop # "stop"
      BY <1>1, Zenon DEF TimelordInv
    <3> QED BY ONLY <2>1, <3>1
  <2>4. T!ProofsOfOneState'
    BY <1>1, <2>1, Zenon DEF TimelordInv, T!ProofsOfOneState
  <2>5. \A p \in proofsDone' : Labelled(p, resets', T!rc', tpc')
    BY <2>1, Zenon
  <2>6. \A t \in tasks' : IsTask(t) /\ Labelled(t, resets', T!rc', tpc')
    BY <2>1, <2>2, Zenon
  <2> QED BY <2>3, <2>4, <2>5, <2>6, Zenon DEF TimelordInv
<1>8. CASE T!_handle_failures
  <2>1. /\ UNCHANGED <<lastState, proofsDone, resets, tasks, sent>>
        /\ (tpc' = "stop" /\ afterStop' \in {"failures", "peak"}) \/ UNCHANGED <<tpc, afterStop>>
        /\ tpc = "failures"
    BY <1>8 DEF T!_handle_failures, T!StartReset, T!state, T!work, T!loop
  <2> QED BY <1>1, <1>2, <2>1, NoReset, Zenon
<1>9. CASE T!_handle_new_peak
  <2>1. /\ UNCHANGED <<proofsDone, resets, tasks, sent>>
        /\ (tpc' = "stop" /\ afterStop' = "map") \/ (tpc' = "map" /\ UNCHANGED <<lastState, afterStop>>)
        /\ tpc # "stop"
    BY <1>9 DEF T!_handle_new_peak, T!StartReset, T!state, T!work, T!clients, T!env
  <2> QED BY <1>1, <1>2, <2>1, NoReset
<1>10. CASE T!_map_chains_with_vdf_clients
  <2>1. PICK c, d : tasks' = tasks \cup {[chain |-> c, label |-> resets, on |-> T!rc, of |-> d, stage |-> "init", work |-> {}]}
    BY <1>10, Zenon DEF T!_map_chains_with_vdf_clients
  <2>2. UNCHANGED <<lastState, proofsDone, resets, tpc, afterStop, sent>>
    BY <1>10 DEF T!_map_chains_with_vdf_clients, T!state, T!work, T!loop, T!env
  <2>3. PICK n : n = [chain |-> c, label |-> resets, on |-> T!rc, of |-> d, stage |-> "init", work |-> {}]
    BY ONLY <2>2, Zenon
  <2>4. IsTask(n) /\ Labelled(n, resets, T!rc, tpc)
    <3>1. /\ DOMAIN n = {"chain", "label", "on", "of", "stage", "work"}
          /\ n.label = resets /\ n.on = T!rc
      BY ONLY <2>3, Zenon
    <3>2. resets \in Nat /\ resets <= resets
      <4>1. resets \in Nat
        BY <1>1, Zenon DEF TimelordInv
      <4> QED BY ONLY <4>1
    <3> QED BY <3>1, <3>2, Zenon DEF IsTask, Labelled
  <2>5. \A t \in tasks' : IsTask(t) /\ Labelled(t, resets, T!rc, tpc)
    BY <1>1, <2>1, <2>3, <2>4, Zenon
  <2> QED BY <1>1, <2>2, <2>5, Zenon DEF TimelordInv, T!rc, T!ProofsOfOneState
<1>11. CASE T!SubmitRaises \/ T!NothingFinished
  <2>1. UNCHANGED <<lastState, proofsDone, resets, tasks, afterStop, sent>> /\ tpc # "stop" /\ tpc' = "failures"
    BY <1>11 DEF T!SubmitRaises, T!NothingFinished, T!state, T!work, T!clients, T!env
  <2> QED BY <1>1, <1>2, <2>1, NoReset, Zenon
<1>12. CASE T!_submit_iterations
  <2>1. \A t \in tasks' : \E u \in tasks : t = u \/ \E v : t = [u EXCEPT !.work = v]
    BY <1>12 DEF T!_submit_iterations
  <2>2. ASSUME NEW t \in tasks' PROVE IsTask(t) /\ \E u \in tasks : From(t, u)
    <3>1. PICK u \in tasks : t = u \/ \E v : t = [u EXCEPT !.work = v]
      BY <2>1, <2>2
    <3>2. CASE t = u
      BY <1>2, <3>2
    <3>3. ASSUME NEW v, t = [u EXCEPT !.work = v] PROVE IsTask(t) /\ \E x \in tasks : From(t, x)
      BY <1>1, <3>3, TaskMoves
    <3> QED BY <3>1, <3>2, <3>3
  <2>3. UNCHANGED <<lastState, proofsDone, resets, afterStop, sent>> /\ tpc # "stop" /\ tpc' = "check"
    BY <1>12 DEF T!_submit_iterations, T!state, T!env
  <2> QED BY <1>1, <2>2, <2>3, NoReset, Zenon
<1>13. CASE T!_check_for_new_sp
  <2>1. /\ UNCHANGED <<lastState, resets, tasks, afterStop>> /\ tpc = "check" /\ tpc' = "failures"
        /\ proofsDone' \subseteq proofsDone /\ T!Announce("sp")
    BY <1>13 DEF T!_check_for_new_sp, T!Ready, T!Cleared, T!state, T!clients
  <2> QED BY <1>1, <1>2, <2>1, AnnounceOneState, NoReset, Zenon
<1>14. CASE T!_check_for_new_ip
  <2>1. UNCHANGED <<resets, tasks>> /\ tpc = "check"
    BY <1>14, Zenon DEF T!_check_for_new_ip, T!Ready, T!clients
  <2>2. CASE ~T!can_infuse_block
    <3>1. UNCHANGED <<lastState, proofsDone, afterStop, sent>> /\ tpc' = "failures"
      BY <1>14, <2>2, Zenon DEF T!_check_for_new_ip, T!state
    <3> QED BY <1>1, <1>2, <2>1, <3>1, NoReset, Zenon
  <2>3. CASE T!can_infuse_block
    <3>1. /\ T!Announce("ip") /\ proofsDone' = T!Cleared
          /\ \/ tpc' = "failures" /\ UNCHANGED <<lastState, afterStop>>
             \/ tpc' = "stop" /\ afterStop' = "failures"
      <4>1. T!Announce("ip") /\ proofsDone' = T!Cleared
        BY <1>14, <2>3, Zenon DEF T!_check_for_new_ip
      <4>2. \/ tpc' = "failures" /\ UNCHANGED <<lastState, afterStop>>
            \/ tpc' = "stop" /\ afterStop' = "failures"
        BY <1>14, <2>3, Zenon DEF T!_check_for_new_ip, T!StartReset, T!state
      <4> QED BY <4>1, <4>2, Zenon
    <3>2. proofsDone' \subseteq proofsDone
      BY <3>1 DEF T!Cleared
    <3> QED BY <1>1, <1>2, <2>1, <3>1, <3>2, AnnounceOneState, NoReset, Zenon
  <2> QED BY <2>2, <2>3
<1>15. CASE T!_check_for_end_of_subslot
  <2>1. /\ UNCHANGED <<resets, tasks, proofsDone>> /\ tpc = "check" /\ tpc' = "stop" /\ afterStop' = "failures"
        /\ T!Announce("eos")
    BY <1>15 DEF T!_check_for_end_of_subslot, T!Ready, T!StartReset, T!clients
  <2> QED BY <1>1, <1>2, <2>1, AnnounceOneState, NoReset, Zenon
<1>16. ASSUME NEW t \in tasks, T!Handshake(t) PROVE TimelordInv'
  <2>1. /\ tasks' = (tasks \ {t}) \cup {[t EXCEPT !.stage = "ready"]}
        /\ UNCHANGED <<lastState, proofsDone, resets, tpc, afterStop, sent>>
    BY <1>16 DEF T!Handshake, T!state, T!work, T!loop, T!env
  <2>2. PICK n : n = [t EXCEPT !.stage = "ready"]
    BY Zenon
  <2>3. IsTask(n) /\ \E u \in tasks : From(n, u)
    BY <1>1, <2>2, TaskMoves
  <2>4. \A x \in tasks' : IsTask(x) /\ \E u \in tasks : From(x, u)
    BY <1>2, <2>1, <2>2, <2>3
  <2> QED BY <1>1, <2>1, <2>4, NoReset
<1>17. ASSUME NEW t \in tasks, T!ReceiveProof(t) PROVE TimelordInv'
  <2>1. PICK i : /\ proofsDone' = proofsDone \cup {[chain |-> t.chain, iters |-> i, label |-> t.label, on |-> t.on]}
                 /\ tasks' = (tasks \ {t}) \cup {[t EXCEPT !.work = @ \ {i}]}
    BY <1>17, Zenon DEF T!ReceiveProof
  <2>2. UNCHANGED <<lastState, resets, tpc, afterStop, sent>>
    BY <1>17 DEF T!ReceiveProof, T!state, T!loop, T!env
  <2>3. \A x \in tasks' : IsTask(x) /\ \E u \in tasks : From(x, u)
    <3>1. PICK v, n : n = [t EXCEPT !.work = v] /\ tasks' = (tasks \ {t}) \cup {n}
      BY <2>1, Zenon
    <3>2. IsTask(n) /\ \E u \in tasks : From(n, u)
      BY <1>1, <3>1, TaskMoves
    <3> QED BY <1>2, <3>1, <3>2
  <2>4. \A p \in proofsDone' : p \in proofsDone \/ \E u \in tasks : From(p, u)
    BY <1>17, <2>1 DEF From
  <2> QED BY <1>1, <2>2, <2>3, <2>4, NoReset, Zenon
<1>18. ASSUME NEW t \in tasks, T!Stopped(t) \/ T!ClientFails(t) PROVE TimelordInv'
  <2>1. tasks' \subseteq tasks /\ UNCHANGED <<lastState, proofsDone, resets, tpc, afterStop, sent>>
    BY <1>18 DEF T!Stopped, T!ClientFails, T!state, T!work, T!loop, T!env
  <2> QED BY <1>1, <1>2, <2>1, NoReset, Zenon
<1> QED BY <1>4, <1>5, <1>6, <1>7, <1>8, <1>9, <1>10, <1>11, <1>12, <1>13, <1>14, <1>15, <1>16, <1>17, <1>18
       DEF T!Next, T!MainLoop

\* What the timelord sends is made of proofs of all its chains on the state it holds, never with
\* a late proof of a client it has stopped.
ProofsOfOneState == T!ProofsOfOneState

\* Every signage point, infusion point and end of sub-slot that is sent is made of proofs on
\* the state the timelord holds, however late the proofs of stopped or failed clients arrive:
\* the number of resets, which a proof carries, is enough to tell them apart.
THEOREM Timelord_ProofsOfOneState == T!Spec => []ProofsOfOneState
<1>1. T!Init => TimelordInv
  <2> SUFFICES ASSUME T!Init PROVE TimelordInv
    OBVIOUS
  <2>1. resets = 0 /\ afterStop # "stop" /\ tasks = {} /\ proofsDone = {}
    BY DEF T!Init
  <2>2. T!ProofsOfOneState
    BY Zenon DEF T!Init, T!ProofsOfOneState
  <2> QED BY <2>1, <2>2 DEF TimelordInv
<1>2. TimelordInv /\ [T!Next]_(T!timelordVars) => TimelordInv'
  BY TimelordStep
<1>3. TimelordInv => ProofsOfOneState
  BY DEF TimelordInv, ProofsOfOneState
<1> QED BY <1>1, <1>2, <1>3, PTL DEF T!Spec
=============================================================================
