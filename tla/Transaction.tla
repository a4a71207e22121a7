----------------------------- MODULE Transaction -----------------------------
(***************************************************************************)
(* The life of a transaction (internal/corazawaf/transaction.go): the      *)
(* calls a connector makes, in any order, and the request body with its    *)
(* limit.  A call that evaluates a phase stays in progress (phase # 0)     *)
(* until the rule loop of RuleEngine is done.  Bodies are their lengths.   *)
(***************************************************************************)
EXTENDS RuleEngine

CONSTANTS Chunks,        (* sizes of what one body call is given          *)
          MaxLoggings    (* bound: calls of ProcessLogging per transaction *)

ASSUME TransactionAssumption == Chunks \subseteq Nat /\ MaxLoggings \in Nat

VARIABLES
    requestBodyLength,  (* requestBodyBuffer.length                        *)
    reqbodyError,       (* the variable REQBODY_ERROR                      *)
    auditLog,           (* entries given to the audit log writer           *)
    loggings,           (* calls of ProcessLogging                         *)
    closed,             (* the transaction is in the pool                  *)
    ret,                (* the last call and the interruption it returned  *)
    overLimit,          (* history: bytes up to the limit, or more, were given *)
    noRoom,             (* history: a body call met a limit at or below what   *)
                        (* is buffered, though no bytes had reached it         *)
    bodyFailed          (* history: the body buffer failed, or a call panicked *)

limitVars == <<overLimit, noRoom>>
bodyVars  == <<requestBodyLength, reqbodyError, bodyFailed, limitVars>>
logVars   == <<auditLog, loggings>>
vars      == <<engineVars, bodyVars, logVars, closed, ret>>

ProcessCalls == {"ProcessRequestHeaders", "ProcessRequestBody",
                 "ProcessResponseHeaders", "ProcessResponseBody"}
BodyCalls == {"WriteRequestBody", "ReadRequestBodyFrom"}

TypeOK ==
    /\ EngineTypeOK
    /\ requestBodyLength \in Nat
    /\ reqbodyError \in BOOLEAN
    /\ auditLog \in Nat
    /\ loggings \in Nat
    /\ closed \in BOOLEAN
    /\ ret \in [call : ProcessCalls \union BodyCalls \union {"none"},
                it : Interruptions \union {None}]
    /\ overLimit \in BOOLEAN
    /\ noRoom \in BOOLEAN
    /\ bodyFailed \in BOOLEAN

Init ==
    /\ EngineInit
    /\ requestBodyLength = 0
    /\ reqbodyError = FALSE
    /\ auditLog = 0 /\ loggings = 0
    /\ closed = FALSE
    /\ ret = [call |-> "none", it |-> None]
    /\ overLimit = FALSE /\ noRoom = FALSE /\ bodyFailed = FALSE

Idle == phase = 0 /\ ~closed

Return(call, it) == ret' = [call |-> call, it |-> it]

(* Engine and body are as they were: the call only answers. *)
Answer(call, it) == Return(call, it) /\ UNCHANGED <<engineVars, reqbodyError>>

-----------------------------------------------------------------------------
(* The tests every Process method starts with. *)
Refused(p) == RuleEngine = "Off" \/ LastPhase >= p \/ interruption # None

(* mutant: a call refused for its phase answers nil *)
Refusal_Mute(call) == Answer(call, None)

Refusal(call) == Answer(call, IF RuleEngine = "Off" THEN None ELSE interruption)

ProcessRequestHeaders ==
    /\ Idle
    /\ IF Refused(1) THEN Refusal("ProcessRequestHeaders")
       ELSE StartEval(1) /\ Return("ProcessRequestHeaders", None) /\ UNCHANGED reqbodyError
    /\ UNCHANGED <<requestBodyLength, bodyFailed, limitVars, logVars, closed>>

(* mutant: the phase test of ProcessRequestHeaders pasted here *)
RequestBodyPhase_AfterHeaders(call) ==
    IF Refused(1) THEN Refusal(call)
    ELSE StartEval(2) /\ Return(call, None) /\ UNCHANGED reqbodyError

(* Phase 2.  Whatever becomes of the body, no processor, an unknown one,   *)
(* one that fails or one that succeeds, the rules are evaluated.           *)
RequestBodyPhase(call) ==
    IF Refused(2) THEN Refusal(call)
    ELSE /\ StartEval(2)
         /\ Return(call, None)
         /\ \/ UNCHANGED reqbodyError
            \/ RequestBodyAccess /\ requestBodyLength' > 0 /\ reqbodyError' = TRUE

ProcessRequestBody ==
    /\ Idle
    /\ UNCHANGED requestBodyLength
    /\ RequestBodyPhase("ProcessRequestBody")
    /\ UNCHANGED <<bodyFailed, limitVars, logVars, closed>>

ProcessResponseHeaders ==
    /\ Idle
    /\ IF Refused(3) THEN Refusal("ProcessResponseHeaders")
       ELSE StartEval(3) /\ Return("ProcessResponseHeaders", None) /\ UNCHANGED reqbodyError
    /\ UNCHANGED <<requestBodyLength, bodyFailed, limitVars, logVars, closed>>

(* Reading the buffered response may fail, and then no rule is evaluated.  *)
ProcessResponseBody ==
    /\ Idle
    /\ IF Refused(4) THEN Refusal("ProcessResponseBody")
       ELSE \/ StartEval(4) /\ Return("ProcessResponseBody", None) /\ UNCHANGED reqbodyError
            \/ waf.ResponseBodyAccess /\ Answer("ProcessResponseBody", interruption)
    /\ UNCHANGED <<requestBodyLength, bodyFailed, limitVars, logVars, closed>>
-----------------------------------------------------------------------------
Reject == waf.RequestBodyLimitAction = "Reject"

BodyIgnored == RuleEngine = "Off" \/ ~RequestBodyAccess

BodyFull == RequestBodyLimit = requestBodyLength

(* setAndReturnBodyLimitInterruption *)
LimitDenial == [rule |-> 0, action |-> "deny", cause |-> "limit"]

DenyBody(call) ==
    /\ interruption' = LimitDenial
    /\ Return(call, LimitDenial)
    /\ UNCHANGED <<waf, settings, LastPhase, Skip, SkipAfter, matchedRules, audit,
                   cursor, jump, reqbodyError>>

(* The early returns both body calls share. *)
BodyShortcut(call) ==
    /\ BodyIgnored \/ BodyFull
    /\ Answer(call, IF ~BodyIgnored /\ Reject THEN interruption ELSE None)
    /\ UNCHANGED <<requestBodyLength, bodyFailed>>

(* BodyBuffer.Write failed: the length is the old one or already the new.  *)
BodyWriteError(call, lengths) ==
    /\ requestBodyLength' \in lengths
    /\ Answer(call, None)
    /\ bodyFailed' = TRUE

Over(n) == requestBodyLength + n >= RequestBodyLimit

Room == RequestBodyLimit - requestBodyLength

(* The histories of a body call that is given n bytes, whatever it does. *)
BodyGiven(n) ==
    /\ overLimit' = (overLimit \/ (~BodyIgnored /\ Over(n)))
    /\ noRoom' = (noRoom \/ (~BodyIgnored /\ Room <= 0 /\ ~overLimit))

(* How much of n bytes WriteRequestBody passes on. *)
WriteBytes(n) == IF Over(n) THEN Room ELSE n

WriteRequestBody(n) ==
    LET call  == "WriteRequestBody"
        over  == Over(n)
        bytes == WriteBytes(n)
    IN
    /\ Idle
    /\ BodyGiven(n)
    /\ \/ BodyShortcut(call)
       \/ /\ ~BodyIgnored /\ ~BodyFull /\ over /\ Reject
          /\ DenyBody(call)
          /\ UNCHANGED <<requestBodyLength, bodyFailed>>
       \/ /\ ~BodyIgnored /\ ~BodyFull /\ over /\ ~Reject
          /\ bytes < 0                              (* b[:bytes] panics *)
          /\ bodyFailed' = TRUE
          /\ UNCHANGED <<engineVars, requestBodyLength, reqbodyError, ret>>
       \/ /\ ~BodyIgnored /\ ~BodyFull /\ ~(over /\ Reject) /\ bytes > 0
          /\ BodyWriteError(call, {requestBodyLength, requestBodyLength + bytes})
       \/ /\ ~BodyIgnored /\ ~BodyFull /\ ~(over /\ Reject) /\ bytes >= 0
          /\ requestBodyLength' = requestBodyLength + bytes
          /\ IF over THEN RequestBodyPhase(call) ELSE Answer(call, interruption)
          /\ UNCHANGED bodyFailed
    /\ UNCHANGED <<logVars, closed>>

(* io.CopyN: what a reader that holds n bytes yields when asked for some. *)
CopyN(n, asked) == IF asked < 0 THEN 0 ELSE IF n < asked THEN n ELSE asked

(* The reader holds n bytes; sized says that it is a ByteLenger. *)
ReadRequestBodyFrom(n, sized) ==
    LET call  == "ReadRequestBodyFrom"
        over  == sized /\ Over(n)
        asked == IF sized /\ ~over THEN n ELSE Room
        bytes == CopyN(n, asked)
    IN
    /\ Idle
    /\ BodyGiven(n)
    /\ \/ BodyShortcut(call)
       \/ /\ ~BodyIgnored /\ ~BodyFull /\ over /\ Reject
          /\ DenyBody(call)
          /\ UNCHANGED <<requestBodyLength, bodyFailed>>
       \/ /\ ~BodyIgnored /\ ~BodyFull /\ ~(over /\ Reject) /\ asked > 0
          /\ BodyWriteError(call, requestBodyLength .. (requestBodyLength + bytes))
       \/ /\ ~BodyIgnored /\ ~BodyFull /\ ~(over /\ Reject)
          /\ requestBodyLength' = requestBodyLength + bytes
          /\ LET full == requestBodyLength' = RequestBodyLimit IN
             IF full /\ Reject THEN DenyBody(call)
             ELSE IF over \/ full THEN RequestBodyPhase(call)
             ELSE Answer(call, interruption)
          /\ UNCHANGED bodyFailed
    /\ UNCHANGED <<logVars, closed>>
-----------------------------------------------------------------------------
(* The end of ProcessLogging.  relevant: AuditLogRelevantStatus is unset or *)
(* matches the response status.                                             *)
WriteAuditLog ==
    \E relevant \in BOOLEAN :
        auditLog' = IF \/ AuditEngine = "On"
                       \/ AuditEngine = "RelevantOnly" /\ audit /\ relevant
                    THEN auditLog + 1 ELSE auditLog

ProcessLogging ==
    /\ Idle
    /\ loggings < MaxLoggings
    /\ loggings' = loggings + 1
    /\ IF RuleEngine # "Off"
       THEN StartEval(Logging) /\ UNCHANGED auditLog
       ELSE WriteAuditLog /\ UNCHANGED engineVars
    /\ UNCHANGED <<bodyVars, closed, ret>>

(* The rule loop is done and the call it ran in goes on to its return.      *)
EvalReturn ==
    /\ EvalDone
    /\ phase' = 0 /\ cur' = 1 /\ UNCHANGED pos
    /\ IF phase = Logging THEN WriteAuditLog /\ UNCHANGED ret
       ELSE Return(ret.call, interruption) /\ UNCHANGED auditLog
    /\ UNCHANGED <<waf, settings, LastPhase, interruption, Skip, SkipAfter, matchedRules,
                   audit, jump, bodyVars, loggings, closed>>

(* Close: variables and body buffers are reset, the rest stays as it is.    *)
Close ==
    /\ Idle
    /\ closed' = TRUE
    /\ requestBodyLength' = 0
    /\ reqbodyError' = FALSE
    /\ UNCHANGED <<engineVars, bodyFailed, limitVars, logVars, ret>>

(* NewTransaction takes the transaction out of the pool.  The histories and *)
(* the counters are the new transaction's own.                              *)
NewTransaction ==
    /\ closed
    /\ closed' = FALSE
    /\ EngineReset
    /\ ret' = [call |-> "none", it |-> None]
    /\ auditLog' = 0 /\ loggings' = 0
    /\ overLimit' = FALSE /\ noRoom' = FALSE /\ bodyFailed' = FALSE
    /\ UNCHANGED <<requestBodyLength, reqbodyError>>

Eval == (EvalStep /\ UNCHANGED <<bodyVars, logVars, closed, ret>>) \/ EvalReturn

Call ==
    \/ ProcessRequestHeaders
    \/ ProcessRequestBody
    \/ ProcessResponseHeaders
    \/ ProcessResponseBody
    \/ \E n \in Chunks : WriteRequestBody(n)
    \/ \E n \in Chunks, sized \in BOOLEAN : ReadRequestBodyFrom(n, sized)
    \/ ProcessLogging
    \/ Close
    \/ NewTransaction

Next == Call \/ Eval

Spec == Init /\ [][Next]_vars
-----------------------------------------------------------------------------
(* Before the logging phase an interruption stands only while the engine is *)
(* not Off, and one that a rule raised only while it is On: so the Process  *)
(* methods, which answer nil as soon as the engine is Off, cannot hide it,  *)
(* although ctl:ruleEngine may change the engine in the middle of a phase.  *)
InterruptionNeedsEngine ==
    interruption # None /\ LastPhase < Logging =>
        /\ RuleEngine # "Off"
        /\ interruption.cause = "rule" => RuleEngine = "On"

(* Whenever a Process method has returned, it has returned the interruption *)
(* that stands, whether its own phase raised it, an earlier phase or the    *)
(* body limit, and also when the phase had already been evaluated.          *)
ProcessCallsReport ==
    Idle /\ LastPhase < Logging /\ ret.call \in ProcessCalls => ret.it = interruption

(* Disruptive actions and the record of a match wait for the whole chain:   *)
(* a step that raises an interruption for a rule, or records the rule as    *)
(* matched, is the one where the last link of the chain has matched.        *)
WholeChainMatched ==
    [][(~closed /\ (\/ interruption' \notin {interruption, None, LimitDenial}
                    \/ Len(matchedRules') > Len(matchedRules)))
        => phase # 0 /\ pos = Len(rules[cur].chain)]_vars

(* Inside one evaluation of a phase, no rule matches between a skipAfter    *)
(* that fired and a marker of its name.                                     *)
SkipAfterReachesMark ==
    [][Len(matchedRules') > Len(matchedRules) /\ jump.at # 0
        => \E k \in (jump.at + 1)..(cur - 1) : rules[k].secMark = jump.mark]_vars

(* tx.audit says exactly that a rule with audit logging has matched, and    *)
(* also for a transaction that came out of the pool.                        *)
AuditFollowsMatches ==
    ~closed => (audit <=> \E i \in DOMAIN matchedRules, k \in DOMAIN rules :
                             rules[k].id = matchedRules[i] /\ rules[k].audit)

(* Once the body calls have been given bytes up to the limit or more, the   *)
(* body is rejected or what is kept of it is inspected: an interruption     *)
(* stands, or under ProcessPartial phase 2 has been evaluated.  This is     *)
(* promised of a limit that was above what is buffered until the body       *)
(* reached it: not of a limit of zero, nor of one that ctl:requestBodyLimit *)
(* has moved to or below the buffered length; nor after an error of the     *)
(* buffer, which the call returns.                                          *)
OversizedBodyHandled ==
    overLimit /\ ~noRoom /\ ~bodyFailed => interruption # None \/ (~Reject /\ LastPhase >= 2)

Contract == INSTANCE TransactionContract WITH
    NoVerdict <- None,
    RuleVerdicts <- {i \in Interruptions : i.cause = "rule"},
    LimitVerdict <- LimitDenial,
    open <- ~closed, inspecting <- phase, stage <- LastPhase, verdict <- interruption

(* The transaction implements its contract: phases in order and once, no    *)
(* inspection but logging after an interruption, no interruption withdrawn. *)
ImplementsContract == Contract!ContractSpec
=============================================================================
