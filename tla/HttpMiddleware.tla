--------------------------- MODULE HttpMiddleware ---------------------------
(***************************************************************************)
(* The net/http connector (http/middleware.go, http/interceptor.go) around *)
(* one request: the request phases, the handler behind the interceptor,    *)
(* the copy back of the response, logging and closing.  The transaction is *)
(* its TransactionContract, composed step by step: an inspection the       *)
(* connector starts decides and reports before the connector goes on.      *)
(*                                                                         *)
(* The handler's body is a sequence of chunks, numbered in the order       *)
(* written.  Pusher, the optional interface that does not touch the        *)
(* response, is left out.                                                  *)
(***************************************************************************)
EXTENDS Naturals, Sequences

CONSTANTS NoVerdict,
          Verdicts,        (* [action, status] of the rules' interruptions *)
          Statuses,        (* what the handler passes to WriteHeader       *)
          AccessChoices,   (* values of tx.IsResponseBodyAccessible()      *)
          MimeChoices,     (* values of tx.IsResponseBodyProcessable()     *)
          Writers,         (* the optional interfaces a writer may have    *)
          MaxWrites        (* bound: calls of Write by the handler         *)

LimitVerdict == [action |-> "deny", status |-> 403]

ASSUME HttpAssumption ==
    /\ Verdicts \subseteq [action : {"deny", "drop", "redirect"}, status : Nat]
    /\ NoVerdict \notin Verdicts \union {LimitVerdict}
    /\ Statuses \subseteq 100..999
    /\ AccessChoices \subseteq BOOLEAN /\ MimeChoices \subseteq BOOLEAN
    /\ Writers \subseteq SUBSET {"Hijacker", "Flusher", "ReaderFrom"}
    /\ MaxWrites \in Nat

VARIABLES
    open, inspecting, stage, verdict,   (* the transaction's contract       *)
    off,            (* tx.RuleEngine is Off                                 *)
    accessible,     (* tx.IsResponseBodyAccessible()                        *)
    processable,    (* tx.IsResponseBodyProcessable()                       *)
    buffered,       (* the response body in the transaction                 *)
    pc,             (* where WrapHandler is                                 *)
    wrapped,        (* the optional interfaces of the writer wrap returns   *)
    hasStatusCode, statusCode,          (* rwInterceptor                    *)
    client,         (* what the original writer has sent                    *)
    handler,        (* history: status and chunks the handler has produced  *)
    direct,         (* history: it has used one of the optional interfaces  *)
    failed          (* history: "error", "handler" or "panic" (of the handler
                       or of the connector) on the way, or "no"             *)

txVars   == <<open, inspecting, stage, verdict>>
httpVars == <<accessible, processable, buffered, pc, wrapped, hasStatusCode, statusCode,
              client, handler, direct, failed>>
vars     == <<txVars, off, httpVars>>

interceptor == <<wrapped, hasStatusCode, statusCode, direct>>

Tx == INSTANCE TransactionContract WITH RuleVerdicts <- Verdicts

Init ==
    /\ Tx!ContractInit
    /\ off \in BOOLEAN
    /\ accessible \in AccessChoices
    /\ processable = FALSE
    /\ buffered = <<>>
    /\ pc = "new"
    /\ hasStatusCode = FALSE /\ statusCode = 0
    /\ wrapped \in Writers
    /\ client = [status |-> 0, body |-> <<>>, hijacked |-> FALSE]
    /\ handler = [status |-> 0, body |-> <<>>]
    /\ direct = FALSE /\ failed = "no"
-----------------------------------------------------------------------------
(* Steps of an inspection.  A rule interrupts only while the engine is on.  *)
Inspection ==
    /\ inspecting # 0
    /\ \/ ~off /\ Tx!Decide /\ UNCHANGED off
       \/ verdict = NoVerdict /\ off' = TRUE /\ UNCHANGED txVars   (* ctl:ruleEngine=Off *)
       \/ Tx!Report /\ UNCHANGED off
    /\ UNCHANGED httpVars

(* A Process method is called; once the inspection is over, if there is     *)
(* one, the connector goes on at next.                                      *)
Process(p, next) ==
    /\ pc' = next
    /\ IF off \/ stage >= p \/ verdict # NoVerdict
       THEN UNCHANGED txVars
       ELSE Tx!Inspect(p)

(* What the method has returned. *)
Returned == IF off THEN NoVerdict ELSE verdict

At(label) == inspecting = 0 /\ pc = label

Goto(label) == pc' = label

(* obtainStatusCodeFromInterruptionOrDefault *)
StatusFor(it, default) ==
    IF it.action # "deny" THEN default
    ELSE IF it.status = 0 THEN 503 ELSE it.status

(* The statuses that announce a response without being one (since Go 1.19). *)
Informational == (100..199) \ {101}

(* The original ResponseWriter: the first status that is not informational  *)
(* counts, an invalid one panics, and once the connection is hijacked       *)
(* nothing is sent.                                                         *)
SendHeader(c, status) ==
    IF c.status = 0 /\ ~c.hijacked /\ status \notin Informational
    THEN [c EXCEPT !.status = status] ELSE c

SendBody(c, chunks) == [SendHeader(c, 200) EXCEPT !.body = @ \o chunks]

(* w.WriteHeader(status), after which the connector goes on at next. *)
Respond(status, next) ==
    IF status < 100 /\ client.status = 0 /\ ~client.hijacked
    THEN failed' = "panic" /\ Goto("log") /\ UNCHANGED client
    ELSE client' = SendHeader(client, status) /\ Goto(next) /\ UNCHANGED failed
-----------------------------------------------------------------------------
(* WrapHandler up to processRequest's ProcessRequestHeaders. *)
Start ==
    /\ At("new")
    /\ IF off THEN Goto("plain") /\ UNCHANGED txVars
       ELSE Process(1, "headersReturned")
    /\ UNCHANGED <<off, accessible, processable, buffered, interceptor,
                   client, handler, failed>>

(* The handler writes to the original writer: whatever it does is the response. *)
ServePlain ==
    /\ At("plain")
    /\ \E s \in Statuses :
          /\ handler' = [status |-> s, body |-> <<1>>]
          /\ client' = SendBody(SendHeader(client, s), <<1>>)
    /\ Goto("log")
    /\ UNCHANGED <<txVars, off, accessible, processable, buffered, interceptor, failed>>

(* mutant: the answer is sent and the request is served all the same *)
Blocked_ServesOn(next) ==
    IF Returned # NoVerdict
    THEN Respond(StatusFor(Returned, 200), next)
    ELSE Goto(next) /\ UNCHANGED <<client, failed>>

(* An interruption of the request ends it, otherwise it goes on at next. *)
Blocked(next) ==
    IF Returned # NoVerdict
    THEN Respond(StatusFor(Returned, 200), "log")
    ELSE Goto(next) /\ UNCHANGED <<client, failed>>

HeadersReturned ==
    /\ At("headersReturned")
    /\ Blocked("requestBody")
    /\ UNCHANGED <<txVars, off, accessible, processable, buffered, interceptor, handler>>

(* processRequest's body part.  Without body access, or without a body,     *)
(* ProcessRequestBody follows; otherwise ReadRequestBodyFrom fails, denies  *)
(* the body for its size, evaluates phase 2, or just buffers.               *)
RequestBody ==
    /\ At("requestBody")
    /\ \/ Process(2, "bodyReturned") /\ UNCHANGED failed
       \/ ~off /\ Tx!DenyForSize /\ Goto("bodyRead") /\ UNCHANGED failed
       \/ Process(2, "bodyRead") /\ UNCHANGED failed
       \/ Goto("bodyRead") /\ UNCHANGED <<txVars, failed>>
       \/ failed' = "error" /\ Goto("log") /\ UNCHANGED txVars
    /\ UNCHANGED <<off, accessible, processable, buffered, interceptor, client, handler>>

BodyRead ==
    /\ At("bodyRead")
    /\ IF Returned # NoVerdict
       THEN Respond(StatusFor(Returned, 200), "log") /\ UNCHANGED txVars
       ELSE Process(2, "bodyReturned") /\ UNCHANGED <<client, failed>>
    /\ UNCHANGED <<off, accessible, processable, buffered, interceptor, handler>>

BodyReturned ==
    /\ At("bodyReturned")
    /\ Blocked("handler")
    /\ UNCHANGED <<txVars, off, accessible, processable, buffered, interceptor, handler>>
-----------------------------------------------------------------------------
(* rwInterceptor.WriteHeader the first time: the response headers are       *)
(* known, phase 3 runs, and the call goes on at next.                       *)
FirstHeader(s, next) ==
    /\ hasStatusCode' = TRUE
    /\ statusCode' = s
    /\ processable' \in MimeChoices
    /\ Process(3, next)
    /\ handler' = [handler EXCEPT !.status = s]
    /\ UNCHANGED <<off, accessible, buffered, wrapped, direct, client, failed>>

(* The status an interruption of phase 3 gives the interceptor, once the    *)
(* inspection is over.                                                      *)
ResolvedStatus ==
    IF stage = 3 /\ Returned # NoVerdict THEN StatusFor(Returned, statusCode) ELSE statusCode

HandlerWriteHeader ==
    /\ At("handler")
    /\ ~hasStatusCode
    /\ \E s \in Statuses : FirstHeader(s, "handler")

(* Write without a status calls WriteHeader(200) before anything else. *)
HandlerWriteImplicit ==
    /\ At("handler")
    /\ Len(handler.body) < MaxWrites
    /\ ~hasStatusCode
    /\ FirstHeader(200, "write")

HandlerWriteNext ==
    /\ At("handler")
    /\ Len(handler.body) < MaxWrites
    /\ hasStatusCode
    /\ Goto("write")
    /\ UNCHANGED <<txVars, off, accessible, processable, buffered, interceptor,
                   client, handler, failed>>

Chunk == <<Len(handler.body) + 1>>

(* The rest of rwInterceptor.Write.  The transaction's buffer or the         *)
(* client's connection may refuse the chunk, and the handler is told.        *)
Write ==
    /\ At("write")
    /\ \/ /\ IF verdict # NoVerdict THEN UNCHANGED <<buffered, client>>
             ELSE IF accessible THEN buffered' = buffered \o Chunk /\ UNCHANGED client
             ELSE ~client.hijacked /\ client' = SendBody(client, Chunk) /\ UNCHANGED buffered
          /\ UNCHANGED failed
       \/ verdict = NoVerdict /\ failed' = "error" /\ UNCHANGED <<buffered, client>>
    /\ handler' = [handler EXCEPT !.body = @ \o Chunk]
    /\ Goto("handler")
    /\ UNCHANGED <<txVars, off, accessible, processable, interceptor>>

(* The optional interfaces: wrap puts those of the original writer beside    *)
(* the interceptor, so that their methods pass it by.                        *)
HandlerFlush ==
    /\ At("handler") /\ "Flusher" \in wrapped
    /\ client' = SendHeader(client, 200)
    /\ direct' = TRUE
    /\ UNCHANGED <<txVars, off, accessible, processable, buffered, pc, wrapped, hasStatusCode, statusCode,
                   handler, failed>>

HandlerReadFrom ==
    /\ At("handler") /\ "ReaderFrom" \in wrapped
    /\ Len(handler.body) < MaxWrites
    /\ \/ ~client.hijacked /\ client' = SendBody(client, Chunk) /\ UNCHANGED failed
       \/ failed' = "error" /\ UNCHANGED client
    /\ handler' = [handler EXCEPT !.body = @ \o Chunk]
    /\ direct' = TRUE
    /\ UNCHANGED <<txVars, off, accessible, processable, buffered, pc, wrapped, hasStatusCode, statusCode>>

HandlerHijack ==
    /\ At("handler") /\ "Hijacker" \in wrapped /\ ~client.hijacked
    /\ client' = [client EXCEPT !.hijacked = TRUE]
    /\ direct' = TRUE
    /\ UNCHANGED <<txVars, off, accessible, processable, buffered, pc, wrapped, hasStatusCode, statusCode,
                   handler, failed>>

HandlerReturns ==
    /\ At("handler")
    /\ Goto("respond")
    /\ UNCHANGED <<txVars, off, accessible, processable, buffered, interceptor,
                   client, handler, failed>>

(* mutant: logging and closing are not deferred *)
HandlerPanics_NotDeferred ==
    /\ At("handler")
    /\ failed' = "handler" /\ Goto("finish")
    /\ UNCHANGED <<txVars, off, accessible, processable, buffered, interceptor, client, handler>>

(* A panic of the handler unwinds through WrapHandler to its defer. *)
HandlerPanics ==
    /\ At("handler")
    /\ failed' = "handler" /\ Goto("log")
    /\ UNCHANGED <<txVars, off, accessible, processable, buffered, interceptor, client, handler>>
-----------------------------------------------------------------------------
(* A body the transaction cannot hand out is answered with a 500. *)
ServerError ==
    /\ client' = SendHeader(client, 500)
    /\ failed' = "error" /\ Goto("log")

(* mutant: phase 4 is left out, the body is copied back at once *)
ProcessResponse_Uninspected ==
    /\ At("respond")
    /\ \/ /\ verdict # NoVerdict \/ ~(accessible /\ processable)
          /\ Respond(ResolvedStatus, "log")
       \/ /\ verdict = NoVerdict /\ accessible /\ processable
          /\ Goto("responseBodyReturned") /\ UNCHANGED <<client, failed>>
    /\ UNCHANGED <<txVars, off, accessible, processable, buffered, interceptor, handler>>

(* responseProcessor: an interruption of phase 3 answers with its status,   *)
(* an inspected body waits for phase 4, which may fail to read it, and any  *)
(* other response gets its status.                                          *)
ProcessResponse ==
    /\ At("respond")
    /\ \/ /\ verdict # NoVerdict \/ ~(accessible /\ processable)
          /\ Respond(ResolvedStatus, "log")
          /\ UNCHANGED txVars
       \/ /\ verdict = NoVerdict /\ accessible /\ processable
          /\ Process(4, "responseBodyReturned")
          /\ UNCHANGED <<client, failed>>
       \/ /\ verdict = NoVerdict /\ accessible /\ processable /\ ~off
          /\ ServerError
          /\ UNCHANGED txVars
    /\ UNCHANGED <<off, accessible, processable, buffered, interceptor, handler>>

(* mutant: the body is copied before the status is sent *)
ResponseBodyReturned_BodyFirst ==
    /\ At("responseBodyReturned")
    /\ IF Returned # NoVerdict
       THEN Respond(StatusFor(Returned, statusCode), "log")
       ELSE /\ client' = SendHeader(SendBody(client, buffered), statusCode)
            /\ Goto("log") /\ UNCHANGED failed
    /\ UNCHANGED <<txVars, off, accessible, processable, buffered, interceptor, handler>>

(* After phase 4: the interruption's status; or the status and the body,    *)
(* of which the connection may take a part; or no reader for the body.      *)
ResponseBodyReturned ==
    /\ At("responseBodyReturned")
    /\ \/ /\ Returned # NoVerdict
          /\ Respond(StatusFor(Returned, statusCode), "log")
       \/ /\ Returned = NoVerdict
          /\ \E n \in 0..(IF client.hijacked THEN 0 ELSE Len(buffered)) :
                /\ client' = SendBody(SendHeader(client, statusCode), SubSeq(buffered, 1, n))
                /\ failed' = IF n < Len(buffered) THEN "error" ELSE failed
          /\ Goto("log")
       \/ Returned = NoVerdict /\ ServerError
    /\ UNCHANGED <<txVars, off, accessible, processable, buffered, interceptor, handler>>

(* The deferred function, whatever happened before. *)
ProcessLogging ==
    /\ At("log")
    /\ Goto("close")
    /\ IF off THEN UNCHANGED txVars ELSE Tx!Inspect(5)
    /\ UNCHANGED <<off, accessible, processable, buffered, interceptor, client, handler, failed>>

Close ==
    /\ At("close")
    /\ Tx!Release
    /\ Goto("finish")
    /\ UNCHANGED <<off, accessible, processable, buffered, interceptor, client, handler, failed>>

(* net/http ends the response: 200 if nothing was sent, nothing at all      *)
(* after a panic, which closes the connection.                              *)
Finish ==
    /\ At("finish")
    /\ Goto("done")
    /\ client' = IF failed \in {"handler", "panic"} THEN client ELSE SendHeader(client, 200)
    /\ UNCHANGED <<txVars, off, accessible, processable, buffered, interceptor, handler, failed>>

Connector ==
    \/ Start \/ ServePlain
    \/ HeadersReturned \/ RequestBody \/ BodyRead \/ BodyReturned
    \/ HandlerWriteHeader \/ HandlerWriteImplicit \/ HandlerWriteNext \/ Write
    \/ HandlerFlush \/ HandlerReadFrom \/ HandlerHijack
    \/ HandlerReturns \/ HandlerPanics
    \/ ProcessResponse \/ ResponseBodyReturned
    \/ ProcessLogging \/ Close \/ Finish

Next == Inspection \/ Connector

Spec == Init /\ [][Next]_vars

(* The goroutine of the request runs on, and an inspection ends: Eval goes   *)
(* through a slice of rules once.                                            *)
FairSpec == Spec /\ WF_vars(Connector) /\ WF_vars(Tx!Report /\ UNCHANGED <<off, httpVars>>)
-----------------------------------------------------------------------------
(* A request that phases 1 or 2, or its body's size, interrupt never reaches *)
(* the handler (WrapHandler returns).                                        *)
RefusedRequestUnserved ==
    verdict # NoVerdict /\ stage <= 2 => pc \notin {"handler", "write", "respond", "responseBodyReturned"}

(* No byte of the response passes the rules by: once it is interrupted,      *)
(* nothing the handler writes, before the interruption or after it, is on    *)
(* its way to the client (Write's IsInterrupted, responseProcessor's early   *)
(* returns), and with response body access and an engine that is still on    *)
(* nothing is sent before phase 4 has inspected it.  A handler that uses the *)
(* optional interfaces of the original writer is not held to this.           *)
InspectedBeforeSent ==
    ~direct /\ client.body # <<>> =>
        /\ verdict = NoVerdict \/ stage = 5
        /\ accessible /\ ~off => stage >= 4

(* The middleware is invisible to an exchange it does not interrupt: the     *)
(* client gets the handler's chunks, all of them, once and in order, and its *)
(* status.  Four kinds of exchange are not promised that by the code: with   *)
(* body access a body of a mime type that is not processed stays in the      *)
(* buffer, without it a Write reaches the client before the status, an       *)
(* informational status keeps the interceptor from taking the one that       *)
(* follows it, and what goes through the optional interfaces overtakes what  *)
(* is buffered.  That part is still sent once.                               *)
FaithfulResponse ==
    At("log") /\ verdict = NoVerdict /\ failed = "no" =>
        /\ ~accessible \/ processable =>
              /\ Len(client.body) = Len(handler.body)
              /\ {client.body[i] : i \in DOMAIN client.body} = {handler.body[i] : i \in DOMAIN handler.body}
              /\ ~direct => client.body = handler.body
        /\ ~direct /\ (accessible \/ handler.body = <<>>) /\ handler.status \notin Informational
              => client.status = handler.status

(* Whatever happens to the request, an interruption, an error or a panic of  *)
(* the handler, its transaction is closed (WrapHandler's defer).             *)
TransactionClosed == <>(~open)
=============================================================================
