------------------------ MODULE HttpMiddlewareProofs ------------------------
(***************************************************************************)
(* The connector around a transaction that keeps its contract, for every   *)
(* set of verdicts and statuses, every kind of writer and any number of    *)
(* writes.                                                                 *)
(***************************************************************************)
EXTENDS HttpMiddleware, SequenceTheorems, TLAPS

(* Before the handler is called, and until its response is on the way. *)
Early   == {"new", "plain", "headersReturned", "requestBody", "bodyRead", "bodyReturned"}
Serving == {"handler", "write", "respond", "responseBodyReturned"}
Late    == {"log", "close", "finish", "done"}

Client  == [status : Nat, body : Seq(Nat), hijacked : BOOLEAN]
Handler == [status : Nat, body : Seq(Nat)]

Chunks(s) == {s[i] : i \in DOMAIN s}

TypeOK ==
    /\ inspecting \in 0..5 /\ stage \in 0..5
    /\ verdict \in Verdicts \union {NoVerdict, LimitVerdict}
    /\ off \in BOOLEAN /\ accessible \in BOOLEAN /\ processable \in BOOLEAN
    /\ hasStatusCode \in BOOLEAN /\ direct \in BOOLEAN
    /\ buffered \in Seq(Nat) /\ statusCode \in Nat
    /\ client \in Client /\ handler \in Handler
    /\ pc \in Early \union Serving \union Late

(* Which phase is inspected where, and what a verdict tells of the phase. *)
PhaseInv ==
    /\ off => verdict = NoVerdict
    /\ inspecting # 0 => stage = inspecting
    /\ inspecting = 1 => pc = "headersReturned"
    /\ inspecting = 2 => pc \in {"bodyRead", "bodyReturned"}
    /\ inspecting = 3 => pc \in {"handler", "write"} /\ hasStatusCode
    /\ inspecting = 4 => pc = "responseBodyReturned"
    /\ inspecting = 5 => pc = "close"
    /\ pc \in Early => stage <= 2
    /\ pc \in {"handler", "write", "respond"} => stage <= 3
    /\ pc = "responseBodyReturned" => accessible /\ processable /\ (off \/ stage = 4)
    /\ pc = "plain" => off

(* Nothing has happened to the response before the handler is called. *)
EarlyInv ==
    pc \in Early =>
        /\ client = [status |-> 0, body |-> <<>>, hijacked |-> FALSE]
        /\ handler = [status |-> 0, body |-> <<>>]
        /\ buffered = <<>> /\ processable = FALSE
        /\ hasStatusCode = FALSE /\ statusCode = 0
        /\ direct = FALSE

(* The status the interceptor keeps is the handler's. *)
StatusInv ==
    pc \in Serving =>
        /\ handler.status = statusCode
        /\ hasStatusCode => statusCode \in 100..999
        /\ ~hasStatusCode => statusCode = 0 /\ ~processable
        /\ pc = "write" => hasStatusCode

(* While nobody has gone past the interceptor, the client has nothing that  *)
(* is to be inspected and no status that a Write did not give it.           *)
HeldInv ==
    pc \in Serving /\ ~direct =>
        /\ ~client.hijacked
        /\ ~hasStatusCode \/ inspecting # 0 => client.body = <<>>
        /\ ~hasStatusCode => handler.body = <<>>
        /\ accessible \/ handler.body = <<>> => client.status = 0 /\ client.body = <<>>

(* Every chunk is with the client or in the buffer, once. *)
ChunksInv ==
    pc \in Serving /\ verdict = NoVerdict /\ failed = "no" =>
        /\ Len(client.body) + Len(buffered) = Len(handler.body)
        /\ Chunks(client.body) \union Chunks(buffered) = Chunks(handler.body)
        /\ ~accessible => client.body = handler.body
        /\ accessible /\ ~direct => buffered = handler.body

(* What has been sent around the rules: nothing. *)
SentInv ==
    ~direct /\ client.body # <<>> =>
        /\ inspecting \in {0, 5}
        /\ verdict = NoVerdict \/ stage = 5
        /\ accessible /\ ~off => stage >= 4

(* The inductive invariant. *)
IInv == TypeOK /\ PhaseInv /\ EarlyInv /\ StatusInv /\ HeldInv /\ ChunksInv /\ SentInv
        /\ RefusedRequestUnserved /\ FaithfulResponse
-----------------------------------------------------------------------------
(* A verdict is a verdict, whatever denies. *)
LEMMA VerdictTyped ==
    /\ NoVerdict \notin Verdicts /\ LimitVerdict # NoVerdict
    /\ \A v \in Verdicts \union {LimitVerdict} : v.status \in Nat
  BY HttpAssumption DEF LimitVerdict

(* The empty response. *)
LEMMA EmptyTyped ==
    /\ [status |-> 0, body |-> <<>>, hijacked |-> FALSE] \in Client
    /\ [status |-> 0, body |-> <<>>] \in Handler
    /\ <<>> \in Seq(Nat)
<1>1. <<>> \in Seq(Nat)
  BY EmptySeq
<1>2. \A e \in Seq(Nat) : /\ [status |-> 0, body |-> e, hijacked |-> FALSE] \in Client
                         /\ [status |-> 0, body |-> e] \in Handler
  BY DEF Client, Handler
<1> QED BY <1>1, <1>2, Zenon

(* The initial states satisfy the invariant. *)
LEMMA InitInv == Init => IInv
<1> SUFFICES ASSUME Init PROVE IInv
  OBVIOUS
<1>1. /\ inspecting = 0 /\ stage = 0 /\ verdict = NoVerdict /\ pc = "new"
      /\ off \in BOOLEAN /\ accessible \in BOOLEAN /\ processable = FALSE
      /\ buffered = <<>> /\ hasStatusCode = FALSE /\ statusCode = 0
      /\ client = [status |-> 0, body |-> <<>>, hijacked |-> FALSE]
      /\ handler = [status |-> 0, body |-> <<>>]
      /\ direct = FALSE /\ failed = "no"
  BY HttpAssumption DEF Init, Tx!ContractInit
<1>2. client \in Client /\ handler \in Handler /\ buffered \in Seq(Nat)
  BY <1>1, EmptyTyped
<1>3. TypeOK
  <2>1. processable \in BOOLEAN /\ hasStatusCode \in BOOLEAN /\ direct \in BOOLEAN
    BY <1>1, Zenon
  <2>2. inspecting \in 0..5 /\ stage \in 0..5 /\ statusCode \in Nat
    BY <1>1
  <2> QED BY <1>1, <1>2, <2>1, <2>2, Zenon DEF TypeOK, Early
<1>4. PhaseInv /\ EarlyInv
  BY <1>1 DEF PhaseInv, EarlyInv, Early
<1>5. client.body = <<>>
  BY <1>1
<1> QED BY <1>1, <1>3, <1>4, <1>5
        DEF IInv, StatusInv, HeldInv, ChunksInv, SentInv, RefusedRequestUnserved, FaithfulResponse,
            Serving, At

(* The steps of an inspection keep the invariant. *)
LEMMA InspectionInv == IInv /\ Inspection => IInv'
<1> SUFFICES ASSUME IInv, Inspection PROVE IInv'
  OBVIOUS
<1>1. /\ inspecting # 0 /\ stage' = stage
      /\ accessible' = accessible /\ processable' = processable /\ buffered' = buffered
      /\ pc' = pc /\ hasStatusCode' = hasStatusCode /\ statusCode' = statusCode
      /\ client' = client /\ handler' = handler /\ direct' = direct /\ failed' = failed
  BY DEF Inspection, httpVars, txVars, Tx!Decide, Tx!Report
<1>2. \/ ~off /\ verdict' \in Verdicts /\ inspecting' = inspecting /\ off' = off
      \/ verdict = NoVerdict /\ verdict' = verdict /\ inspecting' = inspecting /\ off' = TRUE
      \/ verdict' = verdict /\ inspecting' = 0 /\ off' = off
  BY DEF Inspection, txVars, Tx!Decide, Tx!Report
<1>3. /\ inspecting' \in {0, inspecting}
      /\ off' \in BOOLEAN /\ (off => off')
      /\ verdict' \in Verdicts \union {NoVerdict, LimitVerdict}
      /\ verdict' = verdict \/ (verdict' # NoVerdict /\ inspecting' = inspecting)
      /\ off' => verdict' = NoVerdict
  <2>1. /\ off \in BOOLEAN /\ (off => verdict = NoVerdict)
        /\ verdict \in Verdicts \union {NoVerdict, LimitVerdict}
    BY DEF IInv, TypeOK, PhaseInv
  <2>2. CASE ~off /\ verdict' \in Verdicts /\ inspecting' = inspecting /\ off' = off
    BY <2>1, <2>2, VerdictTyped, Zenon
  <2>3. CASE verdict = NoVerdict /\ verdict' = verdict /\ inspecting' = inspecting /\ off' = TRUE
    BY <2>1, <2>3, Zenon
  <2>4. CASE verdict' = verdict /\ inspecting' = 0 /\ off' = off
    BY <2>1, <2>4, Zenon
  <2> QED BY <1>2, <2>2, <2>3, <2>4, Zenon
<1>4. stage = inspecting
  BY <1>1 DEF IInv, PhaseInv
<1>5. TypeOK'
  BY <1>1, <1>3 DEF IInv, TypeOK
<1>6. PhaseInv'
  BY <1>1, <1>3, <1>4 DEF IInv, TypeOK, PhaseInv
<1>7. EarlyInv' /\ StatusInv' /\ HeldInv'
  BY <1>1, <1>3 DEF IInv, EarlyInv, StatusInv, HeldInv
<1>8. ChunksInv'
  BY <1>1, <1>3 DEF IInv, ChunksInv
<1>9. pc \notin Late \/ pc = "close"
  BY <1>1 DEF IInv, TypeOK, PhaseInv, Late
<1>10. SentInv'
  BY <1>1, <1>3, <1>4 DEF IInv, SentInv
<1>11. RefusedRequestUnserved'
  BY <1>1, <1>3, <1>4 DEF IInv, TypeOK, PhaseInv, RefusedRequestUnserved
<1>12. FaithfulResponse'
  BY <1>1, <1>9 DEF FaithfulResponse, At, Late
<1> QED BY <1>5, <1>6, <1>7, <1>8, <1>10, <1>11, <1>12 DEF IInv
-----------------------------------------------------------------------------
(* WriteHeader of the original writer. *)
LEMMA SendHeaderFields ==
    ASSUME NEW c \in Client, NEW s \in Nat
    PROVE  /\ SendHeader(c, s) \in Client
           /\ SendHeader(c, s).body = c.body /\ SendHeader(c, s).hijacked = c.hijacked
           /\ SendHeader(c, s).status =
                IF c.status = 0 /\ ~c.hijacked /\ s \notin Informational THEN s ELSE c.status
<1>1. CASE c.status = 0 /\ ~c.hijacked /\ s \notin Informational
  BY <1>1 DEF SendHeader, Client
<1>2. CASE ~(c.status = 0 /\ ~c.hijacked /\ s \notin Informational)
  BY <1>2 DEF SendHeader, Client
<1> QED BY <1>1, <1>2

(* Write sends a status of 200 if there is none. *)
LEMMA SendBodyFields ==
    ASSUME NEW c \in Client, NEW x \in Seq(Nat)
    PROVE  /\ SendBody(c, x) \in Client
           /\ SendBody(c, x).body = c.body \o x /\ SendBody(c, x).hijacked = c.hijacked
           /\ SendBody(c, x).status = IF c.status = 0 /\ ~c.hijacked THEN 200 ELSE c.status
<1> DEFINE h == SendHeader(c, 200)
<1>1. /\ h \in Client /\ h.body = c.body /\ h.hijacked = c.hijacked
      /\ h.status = IF c.status = 0 /\ ~c.hijacked THEN 200 ELSE c.status
  BY SendHeaderFields DEF Informational
<1>2. SendBody(c, x) = [h EXCEPT !.body = @ \o x]
  BY DEF SendBody
<1> HIDE DEF h
<1>3. h.body \in Seq(Nat) /\ h.body \o x \in Seq(Nat)
  BY <1>1, ConcatProperties DEF Client
<1> DEFINE e == h.body \o x
<1>4. e \in Seq(Nat) /\ SendBody(c, x) = [h EXCEPT !.body = e] /\ e = c.body \o x
  BY <1>1, <1>2, <1>3
<1> HIDE DEF e
<1>5. /\ SendBody(c, x) \in Client
      /\ SendBody(c, x).body = e /\ SendBody(c, x).hijacked = h.hijacked
      /\ SendBody(c, x).status = h.status
  BY <1>1, <1>4, Zenon DEF Client
<1> QED BY <1>1, <1>4, <1>5

(* Chunks that are appended. *)
LEMMA ChunksAppended ==
    ASSUME NEW s \in Seq(Nat), NEW t \in Seq(Nat)
    PROVE  /\ s \o t \in Seq(Nat) /\ Len(s \o t) = Len(s) + Len(t)
           /\ Chunks(s \o t) = Chunks(s) \union Chunks(t)
<1>1. s \o t \in Seq(Nat) /\ Len(s \o t) = Len(s) + Len(t)
  BY ConcatProperties
<1>2. Chunks(s \o t) = Chunks(s) \union Chunks(t)
  <2>1. \A u : Chunks(u) = Range(u)
    BY DEF Chunks, Range
  <2> QED BY <2>1, RangeConcatenation
<1> QED BY <1>1, <1>2

(* A Process method inspects its phase, or does nothing. *)
LEMMA ProcessStep ==
    ASSUME TypeOK, inspecting = 0, NEW p \in 1..4, NEW next, Process(p, next)
    PROVE  /\ pc' = next /\ verdict' = verdict
           /\ \/ /\ inspecting' = 0 /\ stage' = stage
                 /\ off \/ stage >= p \/ verdict # NoVerdict
              \/ inspecting' = p /\ stage' = p /\ ~off /\ stage < p /\ verdict = NoVerdict
  BY DEF Process, txVars, Tx!Inspect, TypeOK

(* Where the request is still in the connector's hands. *)
LEMMA EarlyStep ==
    ASSUME IInv, inspecting = 0, pc \in Early, pc' \in Early,
           UNCHANGED <<off, accessible, processable, buffered, wrapped, hasStatusCode, statusCode,
                       client, handler, direct, failed>>,
           PhaseInv', inspecting' \in 0..2, stage' \in 0..5,
           verdict' \in Verdicts \union {NoVerdict, LimitVerdict}
    PROVE  IInv'
<1>1. TypeOK'
  BY DEF IInv, TypeOK
<1>2. pc' \notin Serving /\ pc' # "log"
  BY DEF Early, Serving
<1>3. EarlyInv'
  BY DEF IInv, EarlyInv
<1>4. StatusInv' /\ HeldInv' /\ ChunksInv'
  BY <1>2 DEF StatusInv, HeldInv, ChunksInv
<1>5. SentInv'
  <2>1. client' = [status |-> 0, body |-> <<>>, hijacked |-> FALSE]
    BY DEF IInv, EarlyInv
  <2>2. client'.body = <<>>
    BY <2>1
  <2> QED BY <2>2 DEF SentInv
<1>6. RefusedRequestUnserved' /\ FaithfulResponse'
  BY <1>2 DEF RefusedRequestUnserved, FaithfulResponse, At, Serving
<1> QED BY <1>1, <1>3, <1>4, <1>5, <1>6 DEF IInv

(* Where the response is over. *)
LEMMA LateStep ==
    ASSUME IInv, inspecting = 0, pc' \in Late, pc' # "close", inspecting' = 0,
           stage' = stage, verdict' = verdict,
           UNCHANGED <<off, accessible, processable, buffered, wrapped, hasStatusCode, statusCode, direct>>,
           client' \in Client, handler' \in Handler, SentInv', FaithfulResponse'
    PROVE  IInv'
<1>1. TypeOK'
  BY DEF IInv, TypeOK
<1>2. pc' \notin Serving /\ pc' \notin Early
  BY DEF Early, Serving, Late
<1>3. EarlyInv' /\ StatusInv' /\ HeldInv' /\ ChunksInv'
  BY <1>2 DEF EarlyInv, StatusInv, HeldInv, ChunksInv
<1>4. PhaseInv'
  BY <1>2 DEF IInv, PhaseInv, Early, Serving
<1>5. RefusedRequestUnserved'
  BY <1>2 DEF RefusedRequestUnserved, Serving
<1> QED BY <1>1, <1>3, <1>4, <1>5 DEF IInv

(* A status is sent and the response is over. *)
LEMMA RespondStep ==
    ASSUME IInv, inspecting = 0, NEW status \in Nat, Respond(status, "log"),
           UNCHANGED <<txVars, off, accessible, processable, buffered, interceptor, handler>>,
           FaithfulResponse'
    PROVE  IInv'
<1>1. /\ pc' = "log" /\ inspecting' = 0 /\ stage' = stage /\ verdict' = verdict
      /\ UNCHANGED <<off, accessible, processable, buffered, wrapped, hasStatusCode, statusCode, direct>>
      /\ handler' = handler
      /\ client' = client \/ client' = SendHeader(client, status)
  BY DEF Respond, Goto, txVars, interceptor
<1>2. client' \in Client /\ client'.body = client.body
  BY <1>1, SendHeaderFields DEF IInv, TypeOK
<1>3. SentInv'
  BY <1>1, <1>2 DEF IInv, SentInv
<1>4. pc' \in Late /\ pc' # "close" /\ handler' \in Handler
  BY <1>1 DEF Late, IInv, TypeOK
<1> QED BY <1>1, <1>2, <1>3, <1>4, LateStep
-----------------------------------------------------------------------------
(* Without the engine the handler is called at once, otherwise phase 1 runs. *)
LEMMA StartInv == IInv /\ Start => IInv'
<1> SUFFICES ASSUME IInv, Start PROVE IInv'
  OBVIOUS
<1>1. /\ inspecting = 0 /\ pc = "new"
      /\ UNCHANGED <<off, accessible, processable, buffered, wrapped, hasStatusCode, statusCode,
                     client, handler, direct, failed>>
  BY DEF Start, At, interceptor
<1>2. \/ off /\ pc' = "plain" /\ inspecting' = 0 /\ stage' = stage /\ verdict' = verdict
      \/ /\ pc' = "headersReturned" /\ verdict' = verdict
         /\ (inspecting' = 0 /\ stage' = stage) \/ (inspecting' = 1 /\ stage' = 1)
  BY <1>1, ProcessStep DEF Start, Goto, txVars, IInv
<1>3. PhaseInv'
  BY <1>1, <1>2 DEF IInv, PhaseInv, Early
<1>4. inspecting' \in 0..2 /\ stage' \in 0..5 /\ verdict' \in Verdicts \union {NoVerdict, LimitVerdict}
  BY <1>1, <1>2 DEF IInv, TypeOK
<1>5. pc \in Early /\ pc' \in Early
  BY <1>1, <1>2 DEF Early
<1> QED BY <1>1, <1>3, <1>4, <1>5, EarlyStep

(* Without a verdict the request goes on, with one it is over. *)
LEMMA ReturnedIsVerdict == IInv => Returned = verdict
  BY DEF IInv, PhaseInv, Returned

(* The status of an interruption is a number. *)
LEMMA StatusForTyped ==
    ASSUME IInv, Returned # NoVerdict, NEW default \in Nat
    PROVE  StatusFor(Returned, default) \in Nat
<1>1. Returned \in Verdicts \union {LimitVerdict}
  BY ReturnedIsVerdict DEF IInv, TypeOK
<1> QED BY <1>1, VerdictTyped DEF StatusFor

(* The answer to a request that is interrupted. *)
LEMMA InterruptedStep ==
    ASSUME IInv, inspecting = 0, NEW default \in Nat, Returned # NoVerdict,
           Respond(StatusFor(Returned, default), "log"),
           UNCHANGED <<txVars, off, accessible, processable, buffered, interceptor, handler>>
    PROVE  IInv'
<1>1. verdict' # NoVerdict
  BY ReturnedIsVerdict DEF txVars
<1>2. FaithfulResponse'
  BY <1>1 DEF FaithfulResponse
<1> QED BY <1>2, StatusForTyped, RespondStep

(* After phase 1. *)
LEMMA HeadersReturnedInv == IInv /\ HeadersReturned => IInv'
<1> SUFFICES ASSUME IInv, HeadersReturned PROVE IInv'
  OBVIOUS
<1>1. /\ inspecting = 0 /\ pc = "headersReturned"
      /\ UNCHANGED <<txVars, off, accessible, processable, buffered, interceptor, handler>>
  BY DEF HeadersReturned, At
<1>2. CASE Returned # NoVerdict
  BY <1>1, <1>2, InterruptedStep DEF HeadersReturned, Blocked
<1>3. CASE ~(Returned # NoVerdict)
  <2>1. /\ pc' = "requestBody" /\ inspecting' = 0 /\ stage' = stage /\ verdict' = verdict
        /\ UNCHANGED <<off, accessible, processable, buffered, wrapped, hasStatusCode, statusCode,
                       client, handler, direct, failed>>
    BY <1>1, <1>3 DEF HeadersReturned, Blocked, Goto, txVars, interceptor
  <2>2. PhaseInv'
    BY <1>1, <2>1 DEF IInv, PhaseInv, Early
  <2>3. inspecting' \in 0..2 /\ stage' \in 0..5 /\ verdict' \in Verdicts \union {NoVerdict, LimitVerdict}
    BY <2>1 DEF IInv, TypeOK
  <2>4. pc \in Early /\ pc' \in Early
    BY <1>1, <2>1 DEF Early
  <2> QED BY <1>1, <2>1, <2>2, <2>3, <2>4, EarlyStep
<1> QED BY <1>2, <1>3

(* The body of the request: read, refused for its size, or failed. *)
LEMMA RequestBodyInv == IInv /\ RequestBody => IInv'
<1> SUFFICES ASSUME IInv, RequestBody PROVE IInv'
  OBVIOUS
<1>1. /\ inspecting = 0 /\ pc = "requestBody" /\ pc \in Early
      /\ UNCHANGED <<off, accessible, processable, buffered, wrapped, hasStatusCode, statusCode,
                     client, handler, direct>>
  BY DEF RequestBody, At, interceptor, Early
<1>2. CASE failed' = "error" /\ Goto("log") /\ UNCHANGED txVars
  <2>1. pc' = "log" /\ inspecting' = 0 /\ stage' = stage /\ verdict' = verdict
    BY <1>1, <1>2 DEF Goto, txVars
  <2>2. FaithfulResponse'
    BY <1>2 DEF FaithfulResponse
  <2>3. SentInv'
    BY <1>1, <2>1 DEF IInv, SentInv
  <2>4. pc' \in Late /\ pc' # "close" /\ handler' \in Handler /\ client' \in Client
    BY <1>1, <2>1 DEF Late, IInv, TypeOK
  <2> QED BY <1>1, <2>1, <2>2, <2>3, <2>4, LateStep
<1>3. CASE ~(failed' = "error" /\ Goto("log") /\ UNCHANGED txVars)
  <2>1. \/ Process(2, "bodyReturned") /\ UNCHANGED failed
        \/ Process(2, "bodyRead") /\ UNCHANGED failed
        \/ /\ ~off /\ verdict' = LimitVerdict /\ inspecting' = 0 /\ stage' = stage
           /\ pc' = "bodyRead" /\ UNCHANGED failed
        \/ /\ pc' = "bodyRead" /\ inspecting' = 0 /\ stage' = stage /\ verdict' = verdict
           /\ UNCHANGED failed
    BY <1>1, <1>3 DEF RequestBody, Goto, txVars, Tx!DenyForSize
  <2>2. /\ pc' \in {"bodyRead", "bodyReturned"} /\ failed' = failed
        /\ (inspecting' = 0 /\ stage' = stage) \/ (inspecting' = 2 /\ stage' = 2)
        /\ verdict' = verdict \/ (~off /\ verdict' = LimitVerdict)
    BY <1>1, <2>1, ProcessStep DEF IInv
  <2>3. PhaseInv'
    BY <1>1, <2>2 DEF IInv, PhaseInv, Early
  <2>4. inspecting' \in 0..2 /\ stage' \in 0..5 /\ verdict' \in Verdicts \union {NoVerdict, LimitVerdict}
    BY <2>2 DEF IInv, TypeOK
  <2>5. pc' \in Early
    BY <2>2 DEF Early
  <2> QED BY <1>1, <2>2, <2>3, <2>4, <2>5, EarlyStep
<1> QED BY <1>2, <1>3

(* After ReadRequestBodyFrom. *)
LEMMA BodyReadInv == IInv /\ BodyRead => IInv'
<1> SUFFICES ASSUME IInv, BodyRead PROVE IInv'
  OBVIOUS
<1>1. /\ inspecting = 0 /\ pc = "bodyRead" /\ pc \in Early
      /\ UNCHANGED <<off, accessible, processable, buffered, interceptor, handler>>
  BY DEF BodyRead, At, Early
<1>2. CASE Returned # NoVerdict
  BY <1>1, <1>2, InterruptedStep DEF BodyRead
<1>3. CASE ~(Returned # NoVerdict)
  <2>1. Process(2, "bodyReturned") /\ client' = client /\ failed' = failed
    BY <1>3 DEF BodyRead
  <2>2. /\ pc' = "bodyReturned" /\ verdict' = verdict
        /\ (inspecting' = 0 /\ stage' = stage) \/ (inspecting' = 2 /\ stage' = 2)
    BY <1>1, <2>1, ProcessStep DEF IInv
  <2>3. PhaseInv'
    BY <1>1, <2>2 DEF IInv, PhaseInv, Early, interceptor
  <2>4. inspecting' \in 0..2 /\ stage' \in 0..5 /\ verdict' \in Verdicts \union {NoVerdict, LimitVerdict}
    BY <2>2 DEF IInv, TypeOK
  <2>5. pc' \in Early
    BY <2>2 DEF Early
  <2> QED BY <1>1, <2>1, <2>2, <2>3, <2>4, <2>5, EarlyStep DEF interceptor
<1> QED BY <1>2, <1>3

(* After phase 2 the handler is called, with nothing sent. *)
LEMMA BodyReturnedInv == IInv /\ BodyReturned => IInv'
<1> SUFFICES ASSUME IInv, BodyReturned PROVE IInv'
  OBVIOUS
<1>1. /\ inspecting = 0 /\ pc = "bodyReturned" /\ pc \in Early
      /\ UNCHANGED <<txVars, off, accessible, processable, buffered, interceptor, handler>>
  BY DEF BodyReturned, At, Early
<1>2. CASE Returned # NoVerdict
  BY <1>1, <1>2, InterruptedStep DEF BodyReturned, Blocked
<1>3. CASE ~(Returned # NoVerdict)
  <2>1. /\ pc' = "handler" /\ inspecting' = 0 /\ stage' = stage /\ verdict' = verdict
        /\ UNCHANGED <<off, accessible, processable, buffered, wrapped, hasStatusCode, statusCode,
                       client, handler, direct, failed>>
    BY <1>1, <1>3 DEF BodyReturned, Blocked, Goto, txVars, interceptor
  <2>2. verdict = NoVerdict
    BY <1>3, ReturnedIsVerdict
  <2>3. /\ client = [status |-> 0, body |-> <<>>, hijacked |-> FALSE]
        /\ handler = [status |-> 0, body |-> <<>>]
        /\ buffered = <<>> /\ processable = FALSE
        /\ hasStatusCode = FALSE /\ statusCode = 0 /\ direct = FALSE
    BY <1>1 DEF IInv, EarlyInv
  <2>4. /\ client.status = 0 /\ client.body = <<>> /\ client.hijacked = FALSE
        /\ handler.status = 0 /\ handler.body = <<>>
    BY <2>3
  <2>5. TypeOK'
    BY <2>1 DEF IInv, TypeOK, Serving
  <2>6. PhaseInv'
    BY <1>1, <2>1 DEF IInv, TypeOK, PhaseInv, Early
  <2>7. EarlyInv' /\ FaithfulResponse'
    BY <2>1 DEF EarlyInv, FaithfulResponse, At, Early
  <2>8. StatusInv'
    BY <2>1, <2>3, <2>4 DEF StatusInv
  <2>9. HeldInv' /\ SentInv'
    BY <2>1, <2>3, <2>4 DEF HeldInv, SentInv
  <2>10. ChunksInv'
    BY <2>1, <2>3, <2>4 DEF ChunksInv
  <2>11. RefusedRequestUnserved'
    BY <2>1, <2>2 DEF RefusedRequestUnserved
  <2> QED BY <2>5, <2>6, <2>7, <2>8, <2>9, <2>10, <2>11 DEF IInv
<1> QED BY <1>2, <1>3

(* The handler of a request whose engine is off writes to the client. *)
LEMMA ServePlainInv == IInv /\ ServePlain => IInv'
<1> SUFFICES ASSUME IInv, ServePlain PROVE IInv'
  OBVIOUS
<1>1. /\ inspecting = 0 /\ pc = "plain" /\ pc' = "log"
      /\ inspecting' = 0 /\ stage' = stage /\ verdict' = verdict
      /\ UNCHANGED <<off, accessible, processable, buffered, wrapped, hasStatusCode, statusCode, direct>>
      /\ failed' = failed
  BY DEF ServePlain, At, Goto, txVars, interceptor
<1>2. PICK s \in Statuses : /\ handler' = [status |-> s, body |-> <<1>>]
                            /\ client' = SendBody(SendHeader(client, s), <<1>>)
  BY DEF ServePlain
<1>3. s \in Nat /\ s # 0
  BY HttpAssumption
<1>4. /\ client \in Client /\ client.status = 0 /\ client.body = <<>> /\ ~client.hijacked
  <2>1. client = [status |-> 0, body |-> <<>>, hijacked |-> FALSE]
    BY <1>1 DEF IInv, EarlyInv, Early
  <2> QED BY <2>1 DEF IInv, TypeOK
<1> DEFINE h == SendHeader(client, s)
           x == <<1>>
<1>5. /\ h \in Client /\ h.body = <<>> /\ h.hijacked = client.hijacked
      /\ s \notin Informational => h.status = s
  BY <1>3, <1>4, SendHeaderFields
<1>6. x \in Seq(Nat)
  OBVIOUS
<1>7. client' = SendBody(h, x) /\ handler' = [status |-> s, body |-> x]
  BY <1>2
<1> HIDE DEF h, x
<1>8. client' \in Client /\ client'.body = <<>> \o x /\ (s \notin Informational => client'.status = s)
  BY <1>3, <1>5, <1>6, <1>7, SendBodyFields, Zenon
<1>9. handler' \in Handler /\ handler'.body = x /\ handler'.status = s
  BY <1>3, <1>6, <1>7 DEF Handler
<1>10. client'.body = handler'.body
  BY <1>6, <1>8, <1>9, ConcatEmptySeq
<1>11. FaithfulResponse'
  BY <1>1, <1>8, <1>9, <1>10 DEF FaithfulResponse
<1>12. SentInv'
  BY <1>1 DEF IInv, PhaseInv, SentInv
<1>13. pc' \in Late /\ pc' # "close"
  BY <1>1 DEF Late
<1> QED BY <1>1, <1>8, <1>9, <1>11, <1>12, <1>13, LateStep

(* The first WriteHeader of the handler: phase 3 starts with nothing sent,  *)
(* unless the handler has gone past the interceptor.                        *)
LEMMA FirstHeaderInv ==
    ASSUME IInv, inspecting = 0, pc = "handler", ~hasStatusCode,
           NEW s \in 100..999, NEW next \in {"handler", "write"}, FirstHeader(s, next)
    PROVE  IInv'
<1>1. /\ hasStatusCode' = TRUE /\ statusCode' = s /\ processable' \in BOOLEAN
      /\ handler' = [handler EXCEPT !.status = s]
      /\ UNCHANGED <<off, accessible, buffered, wrapped, direct, client, failed>>
  BY HttpAssumption DEF FirstHeader
<1>2. /\ pc' = next /\ verdict' = verdict
      /\ \/ inspecting' = 0 /\ stage' = stage
         \/ inspecting' = 3 /\ stage' = 3 /\ ~off /\ verdict = NoVerdict
  BY ProcessStep DEF IInv, FirstHeader
<1>0. s \in Nat /\ handler \in Handler
  BY DEF IInv, TypeOK
<1>3. handler' \in Handler /\ handler'.status = s /\ handler'.body = handler.body
  BY <1>0, <1>1, Zenon DEF Handler
<1>4. pc \in Serving /\ pc' \in Serving /\ pc' \notin Early /\ pc' # "log"
  BY <1>2 DEF Serving, Early
<1>5. hasStatusCode' \in BOOLEAN /\ statusCode' \in Nat /\ inspecting' \in 0..5 /\ stage' \in 0..5
  <2>1. hasStatusCode' \in BOOLEAN
    BY <1>1, Zenon
  <2>2. statusCode' \in Nat /\ inspecting' \in 0..5 /\ stage' \in 0..5
    BY <1>0, <1>1, <1>2 DEF IInv, TypeOK
  <2> QED BY <2>1, <2>2
<1>6. TypeOK'
  BY <1>1, <1>2, <1>3, <1>4, <1>5 DEF IInv, TypeOK
<1>7. PhaseInv'
  BY <1>1, <1>2, <1>4 DEF IInv, PhaseInv, Serving
<1>8. EarlyInv' /\ FaithfulResponse'
  BY <1>4 DEF EarlyInv, FaithfulResponse, At
<1>9. StatusInv'
  BY <1>1, <1>3 DEF StatusInv
<1>10. HeldInv'
  BY <1>1, <1>2, <1>3, <1>4 DEF IInv, HeldInv
<1>11. ChunksInv'
  BY <1>1, <1>2, <1>3, <1>4 DEF IInv, ChunksInv
<1>12. SentInv'
  BY <1>1, <1>2, <1>4 DEF IInv, HeldInv, SentInv
<1>13. RefusedRequestUnserved'
  BY <1>2, <1>4 DEF IInv, RefusedRequestUnserved, Serving
<1> QED BY <1>6, <1>7, <1>8, <1>9, <1>10, <1>11, <1>12, <1>13 DEF IInv

(* WriteHeader called by the handler. *)
LEMMA HandlerWriteHeaderInv == IInv /\ HandlerWriteHeader => IInv'
<1> SUFFICES ASSUME IInv, HandlerWriteHeader PROVE IInv'
  OBVIOUS
<1>1. inspecting = 0 /\ pc = "handler" /\ ~hasStatusCode
  BY DEF HandlerWriteHeader, At
<1>2. PICK s \in Statuses : FirstHeader(s, "handler")
  BY DEF HandlerWriteHeader
<1>3. s \in 100..999
  BY HttpAssumption
<1> QED BY <1>1, <1>2, <1>3, FirstHeaderInv

(* WriteHeader called by the interceptor's Write. *)
LEMMA HandlerWriteImplicitInv == IInv /\ HandlerWriteImplicit => IInv'
<1> SUFFICES ASSUME IInv, HandlerWriteImplicit PROVE IInv'
  OBVIOUS
<1>1. inspecting = 0 /\ pc = "handler" /\ ~hasStatusCode /\ FirstHeader(200, "write")
  BY DEF HandlerWriteImplicit, At
<1>2. 200 \in 100..999
  OBVIOUS
<1> QED BY <1>1, <1>2, FirstHeaderInv

(* Where the handler goes on without a new phase. *)
LEMMA ServingStep ==
    ASSUME IInv, inspecting = 0, pc \in {"handler", "write"}, pc' \in {"handler", "write", "respond"},
           pc' = "write" => hasStatusCode,
           UNCHANGED <<txVars, off, accessible, processable, hasStatusCode, statusCode>>,
           client' \in Client, handler' \in Handler, handler'.status = handler.status,
           buffered' \in Seq(Nat), direct' \in BOOLEAN,
           HeldInv', ChunksInv', SentInv'
    PROVE  IInv'
<1>1. inspecting' = 0 /\ stage' = stage /\ verdict' = verdict
  BY DEF txVars
<1>2. pc \in Serving /\ pc' \in Serving /\ pc' \notin Early /\ pc' # "log"
  BY DEF Serving, Early
<1>3. TypeOK'
  BY <1>1, <1>2 DEF IInv, TypeOK
<1>4. PhaseInv'
  BY <1>1, <1>2 DEF IInv, PhaseInv
<1>5. EarlyInv' /\ FaithfulResponse'
  BY <1>2 DEF EarlyInv, FaithfulResponse, At
<1>6. StatusInv'
  BY <1>2 DEF IInv, StatusInv
<1>7. RefusedRequestUnserved'
  BY <1>1, <1>2 DEF IInv, RefusedRequestUnserved, Serving
<1> QED BY <1>3, <1>4, <1>5, <1>6, <1>7 DEF IInv

(* Moves of the handler that touch no state but its place. *)
LEMMA HandlerMovesInv == IInv /\ (HandlerWriteNext \/ HandlerReturns) => IInv'
<1> SUFFICES ASSUME IInv, HandlerWriteNext \/ HandlerReturns PROVE IInv'
  OBVIOUS
<1>1. /\ inspecting = 0 /\ pc = "handler" /\ pc' \in {"write", "respond"}
      /\ pc' = "write" => hasStatusCode
      /\ UNCHANGED <<txVars, off, accessible, processable, buffered, wrapped, hasStatusCode, statusCode,
                     client, handler, direct, failed>>
  BY DEF HandlerWriteNext, HandlerReturns, At, Goto, interceptor
<1>2. pc \in Serving
  BY <1>1 DEF Serving
<1>3. HeldInv' /\ ChunksInv' /\ SentInv'
  BY <1>1, <1>2 DEF IInv, HeldInv, ChunksInv, SentInv, txVars
<1>4. /\ client' \in Client /\ handler' \in Handler /\ handler'.status = handler.status
      /\ buffered' \in Seq(Nat) /\ direct' \in BOOLEAN
  BY <1>1 DEF IInv, TypeOK
<1> QED BY <1>1, <1>3, <1>4, ServingStep

(* The chunk that follows those the handler has written. *)
LEMMA ChunkWritten ==
    ASSUME IInv, handler' = [handler EXCEPT !.body = @ \o Chunk]
    PROVE  /\ Chunk \in Seq(Nat) /\ handler' \in Handler
           /\ handler'.status = handler.status /\ handler'.body = handler.body \o Chunk
           /\ handler'.body # <<>>
           /\ handler.body \in Seq(Nat) /\ client.body \in Seq(Nat) /\ buffered \in Seq(Nat)
<1>1. handler \in Handler /\ handler.body \in Seq(Nat) /\ client.body \in Seq(Nat) /\ buffered \in Seq(Nat)
  BY DEF IInv, TypeOK, Handler, Client
<1>2. Chunk \in Seq(Nat) /\ Len(Chunk) = 1
  BY <1>1 DEF Chunk
<1> DEFINE e == handler.body \o Chunk
<1>3. e \in Seq(Nat) /\ Len(e) = Len(handler.body) + Len(Chunk)
  BY <1>1, <1>2, ChunksAppended, Zenon
<1>4. e # <<>>
  <2>1. Chunk # <<>>
    BY <1>2
  <2>2. \A s, t \in Seq(Nat) : s \o t = <<>> => t = <<>>
    BY ConcatEqualIffEmpty
  <2> QED BY <1>1, <1>2, <2>1, <2>2, Zenon
<1>5. handler' = [handler EXCEPT !.body = e]
  OBVIOUS
<1> HIDE DEF e
<1>6. handler' \in Handler /\ handler'.status = handler.status /\ handler'.body = e
  BY <1>1, <1>3, <1>5, Zenon DEF Handler
<1> QED BY <1>1, <1>2, <1>4, <1>6 DEF e

(* A chunk that goes to the client at once keeps the account of the chunks. *)
LEMMA SentChunksInv ==
    ASSUME IInv, pc \in Serving, accessible' = accessible, buffered' = buffered,
           verdict' = verdict, failed' = failed,
           Chunk \in Seq(Nat), handler.body \in Seq(Nat), client.body \in Seq(Nat), buffered \in Seq(Nat),
           client'.body = client.body \o Chunk, handler'.body = handler.body \o Chunk,
           ~accessible \/ direct'
    PROVE  ChunksInv'
<1> SUFFICES ASSUME verdict = NoVerdict, failed = "no"
             PROVE  /\ Len(client'.body) + Len(buffered) = Len(handler'.body)
                    /\ Chunks(client'.body) \union Chunks(buffered) = Chunks(handler'.body)
                    /\ ~accessible => client'.body = handler'.body
  BY Zenon DEF ChunksInv
<1>1. /\ Len(client.body) + Len(buffered) = Len(handler.body)
      /\ Chunks(client.body) \union Chunks(buffered) = Chunks(handler.body)
      /\ ~accessible => client.body = handler.body
  BY DEF IInv, ChunksInv
<1>2. /\ Len(client'.body) = Len(client.body) + Len(Chunk)
      /\ Chunks(client'.body) = Chunks(client.body) \union Chunks(Chunk)
      /\ Len(handler'.body) = Len(handler.body) + Len(Chunk)
      /\ Chunks(handler'.body) = Chunks(handler.body) \union Chunks(Chunk)
  BY ChunksAppended
<1>3. Len(client.body) \in Nat /\ Len(buffered) \in Nat /\ Len(handler.body) \in Nat /\ Len(Chunk) \in Nat
  OBVIOUS
<1>4. Len(client'.body) + Len(buffered) = Len(handler'.body)
  <2> DEFINE a == Len(client.body)
             b == Len(buffered)
             c == Len(handler.body)
             d == Len(Chunk)
  <2>1. a \in Nat /\ b \in Nat /\ c \in Nat /\ d \in Nat /\ a + b = c
    BY <1>1, <1>3
  <2>2. Len(client'.body) = a + d /\ Len(handler'.body) = c + d
    BY <1>2
  <2>3. (a + d) + b = c + d
    <3> HIDE DEF a, b, c, d
    <3> QED BY <2>1
  <2> QED BY <2>2, <2>3, Zenon
<1>5. Chunks(client'.body) \union Chunks(buffered) = Chunks(handler'.body)
  BY <1>1, <1>2, Zenon
<1>6. ~accessible => client'.body = handler'.body
  BY <1>1, Zenon
<1> QED BY <1>4, <1>5, <1>6, Zenon

(* Write: after an interruption nothing moves, with body access the chunk   *)
(* waits in the buffer, without it the client gets it.                      *)
LEMMA WriteInv == IInv /\ Write => IInv'
<1> SUFFICES ASSUME IInv, Write PROVE IInv'
  OBVIOUS
<1>1. /\ inspecting = 0 /\ pc = "write" /\ pc' = "handler" /\ pc \in Serving
      /\ UNCHANGED <<txVars, off, accessible, processable, wrapped, hasStatusCode, statusCode, direct>>
      /\ handler' = [handler EXCEPT !.body = @ \o Chunk]
  BY DEF Write, At, Goto, interceptor, Serving
<1>2. /\ Chunk \in Seq(Nat) /\ handler' \in Handler
      /\ handler'.status = handler.status /\ handler'.body = handler.body \o Chunk
      /\ handler'.body # <<>>
      /\ handler.body \in Seq(Nat) /\ client.body \in Seq(Nat) /\ buffered \in Seq(Nat)
  BY <1>1, ChunkWritten
<1>3. hasStatusCode /\ inspecting' = 0 /\ verdict' = verdict /\ stage' = stage /\ direct' \in BOOLEAN
  BY <1>1 DEF IInv, TypeOK, StatusInv, txVars
<1>4. CASE client' = client /\ buffered' = buffered /\ (verdict # NoVerdict \/ failed' = "error")
  <2>1. HeldInv'
    BY <1>1, <1>2, <1>3, <1>4 DEF IInv, HeldInv
  <2>2. ChunksInv'
    BY <1>3, <1>4 DEF ChunksInv
  <2>3. SentInv'
    BY <1>1, <1>3, <1>4 DEF IInv, SentInv
  <2>4. client' \in Client /\ buffered' \in Seq(Nat)
    BY <1>4 DEF IInv, TypeOK
  <2> QED BY <1>1, <1>2, <1>3, <2>1, <2>2, <2>3, <2>4, ServingStep
<1>5. CASE /\ verdict = NoVerdict /\ accessible /\ buffered' = buffered \o Chunk
           /\ client' = client /\ failed' = failed
  <2>1. HeldInv'
    BY <1>1, <1>2, <1>3, <1>5 DEF IInv, HeldInv
  <2>2. /\ buffered' \in Seq(Nat) /\ Len(buffered') = Len(buffered) + Len(Chunk)
        /\ Chunks(buffered') = Chunks(buffered) \union Chunks(Chunk)
        /\ Len(handler'.body) = Len(handler.body) + Len(Chunk)
        /\ Chunks(handler'.body) = Chunks(handler.body) \union Chunks(Chunk)
    BY <1>2, <1>5, ChunksAppended
  <2>3. Len(client.body) \in Nat /\ Len(buffered) \in Nat /\ Len(handler.body) \in Nat /\ Len(Chunk) \in Nat
    BY <1>2
  <2>4. ChunksInv'
    <3> SUFFICES ASSUME failed = "no"
                 PROVE  /\ Len(client.body) + Len(buffered') = Len(handler'.body)
                        /\ Chunks(client.body) \union Chunks(buffered') = Chunks(handler'.body)
                        /\ ~direct => buffered' = handler'.body
      BY <1>1, <1>5, Zenon DEF ChunksInv
    <3>1. /\ Len(client.body) + Len(buffered) = Len(handler.body)
          /\ Chunks(client.body) \union Chunks(buffered) = Chunks(handler.body)
          /\ ~direct => buffered = handler.body
      BY <1>1, <1>5 DEF IInv, ChunksInv
    <3>2. Len(client.body) + Len(buffered') = Len(handler'.body)
      <4> DEFINE a == Len(client.body)
                 b == Len(buffered)
                 c == Len(handler.body)
                 d == Len(Chunk)
      <4>1. a \in Nat /\ b \in Nat /\ c \in Nat /\ d \in Nat /\ a + b = c
        BY <2>3, <3>1
      <4>2. Len(buffered') = b + d /\ Len(handler'.body) = c + d
        BY <2>2
      <4>3. a + (b + d) = c + d
        <5> HIDE DEF a, b, c, d
        <5> QED BY <4>1
      <4> QED BY <4>2, <4>3, Zenon
    <3>3. Chunks(client.body) \union Chunks(buffered') = Chunks(handler'.body)
      BY <2>2, <3>1, Zenon
    <3>4. ~direct => buffered' = handler'.body
      BY <1>2, <1>5, <3>1, Zenon
    <3> QED BY <3>2, <3>3, <3>4
  <2>5. SentInv'
    BY <1>1, <1>3, <1>5 DEF IInv, SentInv
  <2>6. client' \in Client
    BY <1>5 DEF IInv, TypeOK
  <2> QED BY <1>1, <1>2, <1>3, <2>1, <2>2, <2>4, <2>5, <2>6, ServingStep
<1>6. CASE /\ verdict = NoVerdict /\ ~accessible /\ client' = SendBody(client, Chunk)
           /\ buffered' = buffered /\ failed' = failed
  <2>1. client' \in Client /\ client'.body = client.body \o Chunk /\ client'.hijacked = client.hijacked
    BY <1>2, <1>6, SendBodyFields, Zenon DEF IInv, TypeOK
  <2>2. HeldInv'
    BY <1>1, <1>2, <1>3, <1>6, <2>1 DEF IInv, HeldInv
  <2>3. ChunksInv'
    BY <1>1, <1>2, <1>3, <1>6, <2>1, SentChunksInv
  <2>4. SentInv'
    BY <1>1, <1>3, <1>6 DEF SentInv
  <2>5. buffered' \in Seq(Nat)
    BY <1>2, <1>6
  <2> QED BY <1>1, <1>2, <1>3, <2>1, <2>2, <2>3, <2>4, <2>5, ServingStep
<1> QED BY <1>4, <1>5, <1>6 DEF Write

(* The optional interfaces of the original writer, used by the handler. *)
LEMMA DirectInv == IInv /\ (HandlerFlush \/ HandlerReadFrom \/ HandlerHijack) => IInv'
<1> SUFFICES ASSUME IInv, HandlerFlush \/ HandlerReadFrom \/ HandlerHijack PROVE IInv'
  OBVIOUS
<1>1. /\ inspecting = 0 /\ pc = "handler" /\ pc' = pc /\ pc \in Serving /\ direct' = TRUE
      /\ UNCHANGED <<txVars, off, accessible, processable, buffered, hasStatusCode, statusCode>>
  BY DEF HandlerFlush, HandlerReadFrom, HandlerHijack, At, Serving
<1>2. HeldInv' /\ SentInv'
  BY <1>1 DEF HeldInv, SentInv
<1>3. direct' \in BOOLEAN
  BY <1>1, Zenon
<1>4. /\ client \in Client /\ handler \in Handler /\ buffered' \in Seq(Nat)
      /\ verdict' = verdict
  BY <1>1 DEF IInv, TypeOK, txVars
<1>5. CASE HandlerFlush \/ HandlerHijack
  <2>1. handler' = handler /\ failed' = failed
    BY <1>5 DEF HandlerFlush, HandlerHijack
  <2>2. client' \in Client /\ client'.body = client.body
    <3>1. CASE HandlerFlush
      BY <1>4, <3>1, SendHeaderFields DEF HandlerFlush
    <3>2. CASE HandlerHijack
      BY <1>4, <3>2, Zenon DEF HandlerHijack, Client
    <3> QED BY <1>5, <3>1, <3>2
  <2>3. ChunksInv'
    BY <1>1, <1>4, <2>1, <2>2, Zenon DEF IInv, ChunksInv
  <2> QED BY <1>1, <1>2, <1>3, <1>4, <2>1, <2>2, <2>3, ServingStep
<1>6. CASE HandlerReadFrom
  <2>1. handler' = [handler EXCEPT !.body = @ \o Chunk]
    BY <1>6 DEF HandlerReadFrom
  <2>2. /\ Chunk \in Seq(Nat) /\ handler' \in Handler
        /\ handler'.status = handler.status /\ handler'.body = handler.body \o Chunk
        /\ handler.body \in Seq(Nat) /\ client.body \in Seq(Nat) /\ buffered \in Seq(Nat)
    BY <2>1, ChunkWritten
  <2>3. CASE failed' = "error" /\ client' = client
    <3>1. ChunksInv'
      BY <2>3 DEF ChunksInv
    <3> QED BY <1>1, <1>2, <1>3, <1>4, <2>2, <2>3, <3>1, ServingStep
  <2>4. CASE client' = SendBody(client, Chunk) /\ failed' = failed
    <3>1. client' \in Client /\ client'.body = client.body \o Chunk
      BY <1>4, <2>2, <2>4, SendBodyFields, Zenon
    <3>2. ChunksInv'
      BY <1>1, <1>4, <2>2, <2>4, <3>1, SentChunksInv
    <3> QED BY <1>1, <1>2, <1>3, <1>4, <2>2, <3>1, <3>2, ServingStep
  <2> QED BY <1>6, <2>3, <2>4 DEF HandlerReadFrom
<1> QED BY <1>5, <1>6

(* A panic of the handler. *)
LEMMA HandlerPanicsInv == IInv /\ HandlerPanics => IInv'
<1> SUFFICES ASSUME IInv, HandlerPanics PROVE IInv'
  OBVIOUS
<1>1. /\ inspecting = 0 /\ pc' = "log" /\ failed' = "handler"
      /\ inspecting' = 0 /\ stage' = stage /\ verdict' = verdict
      /\ UNCHANGED <<off, accessible, processable, buffered, wrapped, hasStatusCode, statusCode, direct>>
      /\ client' = client /\ handler' = handler
  BY DEF HandlerPanics, At, Goto, interceptor, txVars
<1>2. FaithfulResponse'
  BY <1>1 DEF FaithfulResponse
<1>3. SentInv'
  BY <1>1 DEF IInv, SentInv
<1>4. pc' \in Late /\ pc' # "close" /\ client' \in Client /\ handler' \in Handler
  BY <1>1 DEF Late, IInv, TypeOK
<1> QED BY <1>1, <1>2, <1>3, <1>4, LateStep

(* A body that cannot be handed out. *)
LEMMA ServerErrorInv ==
    ASSUME IInv, inspecting = 0, ServerError,
           UNCHANGED <<txVars, off, accessible, processable, buffered, interceptor, handler>>
    PROVE  IInv'
<1>1. /\ pc' = "log" /\ failed' = "error" /\ client' = SendHeader(client, 500)
      /\ inspecting' = 0 /\ stage' = stage /\ verdict' = verdict
      /\ UNCHANGED <<off, accessible, processable, buffered, wrapped, hasStatusCode, statusCode, direct>>
      /\ handler' = handler
  BY DEF ServerError, Goto, interceptor, txVars
<1>2. client' \in Client /\ client'.body = client.body
  BY <1>1, SendHeaderFields DEF IInv, TypeOK
<1>3. FaithfulResponse'
  BY <1>1, Zenon DEF FaithfulResponse
<1>4. SentInv'
  BY <1>1, <1>2 DEF IInv, SentInv
<1>5. pc' \in Late /\ pc' # "close" /\ handler' \in Handler
  BY <1>1 DEF Late, IInv, TypeOK
<1> QED BY <1>1, <1>2, <1>3, <1>4, <1>5, LateStep

(* The response of a handler that is not interrupted and whose body is not  *)
(* inspected: the client has the body, and now gets the status.             *)
LEMMA PlainResponseFaithful ==
    ASSUME IInv, pc = "respond", verdict = NoVerdict, ~(accessible /\ processable),
           Respond(statusCode, "log"),
           UNCHANGED <<txVars, off, accessible, processable, buffered, interceptor, handler>>
    PROVE  FaithfulResponse'
<1>1. CASE statusCode < 100 /\ client.status = 0 /\ ~client.hijacked
  <2>1. failed' = "panic"
    BY <1>1 DEF Respond
  <2> QED BY <2>1 DEF FaithfulResponse
<1>2. CASE ~(statusCode < 100 /\ client.status = 0 /\ ~client.hijacked)
  <2>1. client' = SendHeader(client, statusCode) /\ failed' = failed
    BY <1>2 DEF Respond
  <2>2. /\ client'.body = client.body
        /\ client.status = 0 /\ ~client.hijacked /\ statusCode \notin Informational
              => client'.status = statusCode
    BY <2>1, SendHeaderFields DEF IInv, TypeOK
  <2>3. /\ accessible' = accessible /\ processable' = processable /\ direct' = direct
        /\ handler' = handler
    BY DEF interceptor
  <2>4. pc \in Serving
    BY DEF Serving
  <2>5. ASSUME failed = "no", ~accessible \/ processable
        PROVE  client'.body = handler'.body
    BY <2>2, <2>3, <2>4, <2>5 DEF IInv, ChunksInv
  <2>6. ASSUME ~direct, accessible \/ handler.body = <<>>, handler.status \notin Informational
        PROVE  client'.status = handler'.status
    <3>1. client.status = 0 /\ ~client.hijacked
      BY <2>4, <2>6 DEF IInv, HeldInv
    <3> QED BY <2>2, <2>3, <2>4, <2>6, <3>1 DEF IInv, StatusInv
  <2> QED BY <2>1, <2>3, <2>5, <2>6 DEF FaithfulResponse
<1> QED BY <1>1, <1>2

(* responseProcessor up to ProcessResponseBody. *)
LEMMA ProcessResponseInv == IInv /\ ProcessResponse => IInv'
<1> SUFFICES ASSUME IInv, ProcessResponse PROVE IInv'
  OBVIOUS
<1>1. /\ inspecting = 0 /\ pc = "respond" /\ pc \in Serving
      /\ UNCHANGED <<off, accessible, processable, buffered, interceptor, handler>>
  BY DEF ProcessResponse, At, Serving
<1>2. statusCode \in Nat
  BY DEF IInv, TypeOK
<1>3. CASE /\ verdict # NoVerdict \/ ~(accessible /\ processable)
           /\ Respond(ResolvedStatus, "log")
           /\ UNCHANGED txVars
  <2>1. ResolvedStatus \in Nat
    BY <1>2, StatusForTyped DEF ResolvedStatus
  <2>2. FaithfulResponse'
    <3>1. CASE verdict # NoVerdict
      BY <1>3, <3>1 DEF FaithfulResponse, txVars
    <3>2. CASE verdict = NoVerdict
      <4>1. ResolvedStatus = statusCode
        BY <3>2, ReturnedIsVerdict DEF ResolvedStatus
      <4> QED BY <1>1, <1>3, <3>2, <4>1, PlainResponseFaithful
    <3> QED BY <3>1, <3>2
  <2> QED BY <1>1, <1>3, <2>1, <2>2, RespondStep
<1>4. CASE /\ verdict = NoVerdict /\ accessible /\ processable
           /\ Process(4, "responseBodyReturned")
           /\ UNCHANGED <<client, failed>>
  <2>1. /\ pc' = "responseBodyReturned" /\ verdict' = verdict
        /\ \/ inspecting' = 0 /\ stage' = stage /\ (off \/ stage >= 4)
           \/ inspecting' = 4 /\ stage' = 4
    BY <1>1, <1>4, ProcessStep DEF IInv
  <2>2. /\ pc' \in Serving /\ pc' \notin Early /\ pc' # "log"
        /\ hasStatusCode' = hasStatusCode /\ statusCode' = statusCode /\ direct' = direct
    BY <1>1, <2>1 DEF Serving, Early, interceptor
  <2>3. TypeOK'
    BY <1>1, <1>4, <2>1, <2>2 DEF IInv, TypeOK
  <2>4. PhaseInv'
    BY <1>1, <1>4, <2>1, <2>2 DEF IInv, TypeOK, PhaseInv
  <2>5. EarlyInv' /\ FaithfulResponse'
    BY <2>2 DEF EarlyInv, FaithfulResponse, At
  <2>6. StatusInv'
    BY <1>1, <2>1, <2>2 DEF IInv, StatusInv
  <2>7. HeldInv' /\ SentInv'
    BY <1>1, <1>4, <2>1, <2>2 DEF IInv, HeldInv, SentInv
  <2>8. ChunksInv'
    BY <1>1, <1>4, <2>1, <2>2 DEF IInv, ChunksInv
  <2>9. RefusedRequestUnserved'
    BY <1>4, <2>1 DEF RefusedRequestUnserved
  <2> QED BY <2>3, <2>4, <2>5, <2>6, <2>7, <2>8, <2>9 DEF IInv
<1>5. CASE ServerError /\ UNCHANGED txVars
  BY <1>1, <1>5, ServerErrorInv
<1> QED BY <1>3, <1>4, <1>5 DEF ProcessResponse

(* After phase 4: the body follows what the handler has sent itself. *)
LEMMA ResponseBodyReturnedInv == IInv /\ ResponseBodyReturned => IInv'
<1> SUFFICES ASSUME IInv, ResponseBodyReturned PROVE IInv'
  OBVIOUS
<1>1. /\ inspecting = 0 /\ pc = "responseBodyReturned" /\ pc \in Serving
      /\ UNCHANGED <<txVars, off, accessible, processable, buffered, interceptor, handler>>
  BY DEF ResponseBodyReturned, At, Serving
<1>2. /\ accessible /\ processable /\ (off \/ stage = 4) /\ statusCode \in Nat
      /\ client \in Client /\ handler \in Handler /\ buffered \in Seq(Nat)
  BY <1>1 DEF IInv, PhaseInv, TypeOK
<1>3. CASE Returned # NoVerdict /\ Respond(StatusFor(Returned, statusCode), "log")
  BY <1>1, <1>2, <1>3, InterruptedStep
<1>4. CASE ServerError
  BY <1>1, <1>4, ServerErrorInv
<1>5. ASSUME Returned = NoVerdict, Goto("log"),
             NEW n \in 0..(IF client.hijacked THEN 0 ELSE Len(buffered)),
             client' = SendBody(SendHeader(client, statusCode), SubSeq(buffered, 1, n)),
             failed' = IF n < Len(buffered) THEN "error" ELSE failed
      PROVE  IInv'
  <2> DEFINE h == SendHeader(client, statusCode)
             x == SubSeq(buffered, 1, n)
  <2>1. /\ h \in Client /\ h.body = client.body /\ h.hijacked = client.hijacked
        /\ client.status = 0 /\ ~client.hijacked /\ statusCode \notin Informational
              => h.status = statusCode
    BY <1>2, SendHeaderFields
  <2>2. n \in 0..Len(buffered)
    BY <1>2, <1>5
  <2>3. x \in Seq(Nat) /\ (n = Len(buffered) => x = buffered)
    BY <1>2, <2>2
  <2>4. client' = SendBody(h, x)
    BY <1>5
  <2> HIDE DEF h, x
  <2>5. /\ client' \in Client /\ client'.body = client.body \o x
        /\ client'.status = IF h.status = 0 /\ ~h.hijacked THEN 200 ELSE h.status
    <3>1. /\ SendBody(h, x) \in Client /\ SendBody(h, x).body = h.body \o x
          /\ SendBody(h, x).status = IF h.status = 0 /\ ~h.hijacked THEN 200 ELSE h.status
      <4>1. h \in Client /\ x \in Seq(Nat)
        BY <2>1, <2>3
      <4> QED BY <4>1, SendBodyFields
    <3> QED BY <2>1, <2>4, <3>1
  <2>6. /\ pc' = "log" /\ inspecting' = 0 /\ stage' = stage /\ verdict' = verdict
        /\ UNCHANGED <<off, accessible, processable, buffered, wrapped, hasStatusCode, statusCode, direct>>
        /\ handler' = handler
    BY <1>1, <1>5 DEF Goto, txVars, interceptor
  <2>7. verdict = NoVerdict
    BY <1>5, ReturnedIsVerdict
  <2>8. SentInv'
    BY <1>1, <1>2, <2>6, <2>7 DEF SentInv, IInv, TypeOK
  <2>9. FaithfulResponse'
    <3> SUFFICES ASSUME failed' = "no"
                 PROVE  /\ Len(client'.body) = Len(handler.body)
                        /\ Chunks(client'.body) = Chunks(handler.body)
                        /\ ~direct => client'.body = handler.body
                        /\ ~direct /\ handler.status \notin Informational => client'.status = handler.status
      BY <2>6, Zenon DEF FaithfulResponse, Chunks
    <3>1. failed = "no" /\ n = Len(buffered)
      BY <1>2, <1>5, <2>2
    <3>2. /\ Len(client.body) + Len(buffered) = Len(handler.body)
          /\ Chunks(client.body) \union Chunks(buffered) = Chunks(handler.body)
          /\ ~direct => buffered = handler.body
      BY <1>1, <1>2, <2>7, <3>1 DEF IInv, ChunksInv
    <3>3. client.body \in Seq(Nat) /\ client'.body = client.body \o buffered
      BY <1>2, <2>3, <2>5, <3>1 DEF Client
    <3>4. /\ Len(client'.body) = Len(client.body) + Len(buffered)
          /\ Chunks(client'.body) = Chunks(client.body) \union Chunks(buffered)
      BY <1>2, <3>3, ChunksAppended, Zenon
    <3>5. ASSUME ~direct
          PROVE  client'.body = handler.body
                 /\ (handler.status \notin Informational => client'.status = handler.status)
      <4>1. client.status = 0 /\ client.body = <<>> /\ ~client.hijacked
        BY <1>1, <1>2, <3>5 DEF IInv, HeldInv
      <4>2. client'.body = handler.body
        BY <1>2, <3>2, <3>3, <3>5, <4>1, ConcatEmptySeq
      <4>3. statusCode # 0 /\ handler.status = statusCode
        BY <1>1, <1>2 DEF IInv, StatusInv
      <4> QED BY <2>1, <2>5, <4>1, <4>2, <4>3
    <3> QED BY <3>2, <3>4, <3>5, Zenon
  <2>10. pc' \in Late /\ pc' # "close" /\ handler' \in Handler
    BY <1>2, <2>6 DEF Late
  <2> QED BY <1>1, <2>5, <2>6, <2>8, <2>9, <2>10, LateStep
<1> QED BY <1>3, <1>4, <1>5 DEF ResponseBodyReturned

(* Logging may be interrupted, and interrupts nothing. *)
LEMMA ProcessLoggingInv == IInv /\ ProcessLogging => IInv'
<1> SUFFICES ASSUME IInv, ProcessLogging PROVE IInv'
  OBVIOUS
<1>1. /\ inspecting = 0 /\ pc = "log" /\ pc' = "close" /\ verdict' = verdict
      /\ (inspecting' = 0 /\ stage' = stage) \/ (inspecting' = 5 /\ stage' = 5)
      /\ UNCHANGED <<off, accessible, processable, buffered, wrapped, hasStatusCode, statusCode,
                     client, handler, direct, failed>>
  BY DEF ProcessLogging, At, Goto, txVars, interceptor, Tx!Inspect
<1>2. pc' \notin Serving /\ pc' \notin Early /\ pc' # "log" /\ pc' \in Late
  BY <1>1 DEF Serving, Early, Late
<1>3. TypeOK'
  BY <1>1, <1>2 DEF IInv, TypeOK
<1>4. PhaseInv'
  BY <1>1, <1>2 DEF IInv, PhaseInv
<1>5. EarlyInv' /\ StatusInv' /\ HeldInv' /\ ChunksInv' /\ FaithfulResponse'
  BY <1>2 DEF EarlyInv, StatusInv, HeldInv, ChunksInv, FaithfulResponse, At
<1>6. SentInv'
  BY <1>1 DEF IInv, TypeOK, SentInv
<1>7. RefusedRequestUnserved'
  BY <1>2 DEF RefusedRequestUnserved, Serving
<1> QED BY <1>3, <1>4, <1>5, <1>6, <1>7 DEF IInv

(* Closing the transaction and ending the response. *)
LEMMA EndInv == IInv /\ (Close \/ Finish) => IInv'
<1> SUFFICES ASSUME IInv, Close \/ Finish PROVE IInv'
  OBVIOUS
<1>1. /\ inspecting = 0 /\ pc' \in {"finish", "done"}
      /\ inspecting' = 0 /\ stage' = stage /\ verdict' = verdict
      /\ UNCHANGED <<off, accessible, processable, buffered, wrapped, hasStatusCode, statusCode, direct>>
      /\ handler' = handler
      /\ client' = client \/ client' = SendHeader(client, 200)
  BY DEF Close, Finish, At, Goto, txVars, interceptor, Tx!Release
<1>2. client' \in Client /\ client'.body = client.body
  BY <1>1, SendHeaderFields DEF IInv, TypeOK
<1>3. SentInv'
  BY <1>1, <1>2 DEF IInv, SentInv
<1>4. FaithfulResponse'
  BY <1>1 DEF FaithfulResponse, At
<1>5. pc' \in Late /\ pc' # "close" /\ handler' \in Handler
  BY <1>1 DEF Late, IInv, TypeOK
<1> QED BY <1>1, <1>2, <1>3, <1>4, <1>5, LateStep

(* Every step of the connector and of the transaction keeps the invariant. *)
LEMMA StepInv == IInv /\ [Next]_vars => IInv'
<1> SUFFICES ASSUME IInv, [Next]_vars PROVE IInv'
  OBVIOUS
<1>1. CASE Inspection
  BY <1>1, InspectionInv
<1>2. CASE Start \/ ServePlain \/ HeadersReturned \/ RequestBody \/ BodyRead \/ BodyReturned
  BY <1>2, StartInv, ServePlainInv, HeadersReturnedInv, RequestBodyInv, BodyReadInv, BodyReturnedInv
<1>3. CASE \/ HandlerWriteHeader \/ HandlerWriteImplicit \/ HandlerWriteNext \/ Write
           \/ HandlerFlush \/ HandlerReadFrom \/ HandlerHijack
           \/ HandlerReturns \/ HandlerPanics
  BY <1>3, HandlerWriteHeaderInv, HandlerWriteImplicitInv, HandlerMovesInv, WriteInv, DirectInv,
     HandlerPanicsInv
<1>4. CASE ProcessResponse \/ ResponseBodyReturned \/ ProcessLogging \/ Close \/ Finish
  BY <1>4, ProcessResponseInv, ResponseBodyReturnedInv, ProcessLoggingInv, EndInv
<1>5. CASE UNCHANGED vars
  <2>1. /\ UNCHANGED <<inspecting, stage, verdict, off, accessible, processable, buffered, pc,
                       hasStatusCode, statusCode, client, handler, direct, failed>>
    BY <1>5 DEF vars, txVars, httpVars
  <2>2. TypeOK' /\ PhaseInv' /\ EarlyInv'
    <3>1. TypeOK'
      BY <2>1, Zenon DEF IInv, TypeOK
    <3>2. PhaseInv'
      BY <2>1, Zenon DEF IInv, PhaseInv
    <3>3. EarlyInv'
      BY <2>1, Zenon DEF IInv, EarlyInv
    <3> QED BY <3>1, <3>2, <3>3, Zenon
  <2>3. StatusInv' /\ HeldInv' /\ ChunksInv' /\ SentInv'
    BY <2>1, Zenon DEF IInv, StatusInv, HeldInv, ChunksInv, SentInv
  <2>4. RefusedRequestUnserved' /\ FaithfulResponse'
    BY <2>1, Zenon DEF IInv, RefusedRequestUnserved, FaithfulResponse, At
  <2> QED BY <2>2, <2>3, <2>4 DEF IInv
<1> QED BY <1>1, <1>2, <1>3, <1>4, <1>5 DEF Next, Connector

(* The invariant holds of every behaviour. *)
LEMMA Invariance == Spec => []IInv
  BY InitInv, StepInv, PTL DEF Spec

(* No request that the rules or the body limit refuse reaches the handler,  *)
(* whatever the verdicts (WrapHandler).                                     *)
THEOREM RefusedNeverServed == Spec => []RefusedRequestUnserved
<1>1. IInv => RefusedRequestUnserved
  BY DEF IInv
<1> QED BY <1>1, Invariance, PTL

(* Nothing the handler writes through the interceptor is sent after an      *)
(* interruption or, with body access, before its inspection                 *)
(* (rwInterceptor.Write, responseProcessor).                                *)
THEOREM NothingSentUninspected == Spec => []InspectedBeforeSent
<1>1. IInv => InspectedBeforeSent
  BY DEF IInv, SentInv, InspectedBeforeSent
<1> QED BY <1>1, Invariance, PTL

(* The connector neither loses nor repeats a chunk of a response it lets    *)
(* through, and keeps its status, for any number of writes and whichever    *)
(* optional interfaces the handler uses.                                    *)
THEOREM ResponseUnchanged == Spec => []FaithfulResponse
<1>1. IInv => FaithfulResponse
  BY DEF IInv
<1> QED BY <1>1, Invariance, PTL
=============================================================================
