------------------------------ MODULE WAFConfig ------------------------------
(***************************************************************************)
(* The configuration builder and NewWAF (config.go, waf.go).  Every With   *)
(* method copies its receiver and changes the copy; a WAFConfig keeps      *)
(* pointers to the audit log and body configurations it was given.         *)
(*                                                                         *)
(* The heap is one sequence per type of object; a pointer is an index and  *)
(* 0 is nil.  A source is a sequence of directives that set a field of the *)
(* WAF, or rules by their ids: what else a text may hold is SecLang's.     *)
(* The rules of a WAFConfig are those of its sources, one after the other: *)
(* NewWAF reads them in order and the first error ends it.                 *)
(* Debug logger and root file system are passed on as they are and left    *)
(* out.                                                                    *)
(***************************************************************************)
EXTENDS Settings

CONSTANTS Programs,      (* sequence of [sources, MaxObjects]: the texts a   *)
                         (* program may give, and a bound on its objects     *)
          Limits         (* arguments of WithLimit and WithInMemoryLimit     *)

ASSUME WAFConfigAssumption ==
    /\ Limits \subseteq Int
    /\ \A p \in DOMAIN Programs :
        /\ Programs[p].MaxObjects \in Nat
        /\ \A source \in Programs[p].sources : source \in Seq(Directives)

VARIABLES
    program,             (* an index of Programs                             *)
    wafConfigs,          (* [rules, auditLog, requestBody, responseBody,     *)
                         (* contentInjection, errorCallback]                 *)
    auditLogConfigs,     (* [relevantOnly, parts, logger]                    *)
    requestBodyConfigs,  (* [limit, inMemoryLimit]                           *)
    responseBodyConfigs, (* [limit, mimeTypes]                               *)
    waf                  (* what the last NewWAF returned, for which config  *)

objects == <<wafConfigs, auditLogConfigs, requestBodyConfigs, responseBodyConfigs>>
vars    == <<program, objects, waf>>

(* NewWAFConfig, NewAuditLogConfig, NewRequestBodyConfig,                   *)
(* NewResponseBodyConfig, once each.                                        *)
Init ==
    /\ program \in DOMAIN Programs
    /\ wafConfigs = <<[rules |-> <<>>, auditLog |-> 0, requestBody |-> 0, responseBody |-> 0,
                       contentInjection |-> FALSE, errorCallback |-> FALSE]>>
    /\ auditLogConfigs = <<[relevantOnly |-> FALSE, parts |-> <<>>, logger |-> FALSE]>>
    /\ requestBodyConfigs = <<[limit |-> 0, inMemoryLimit |-> 0]>>
    /\ responseBodyConfigs = <<[limit |-> 0, mimeTypes |-> FALSE]>>
    /\ waf = [built |-> FALSE, config |-> 0, is |-> DefaultWAF]

Room == Len(wafConfigs) + Len(auditLogConfigs) + Len(requestBodyConfigs) + Len(responseBodyConfigs)
            < Programs[program].MaxObjects
-----------------------------------------------------------------------------
(* mutant: a method changes its receiver and returns it *)
Derive_InPlace(heap, c, object) == [heap EXCEPT ![c] = object]

(* clone, then assignments to the copy. *)
Derive(heap, c, object) == Append(heap, object)

(* A With method of the WAFConfig c. *)
With(c, object) ==
    /\ Room
    /\ wafConfigs' = Derive(wafConfigs, c, object)
    /\ UNCHANGED <<program, auditLogConfigs, requestBodyConfigs, responseBodyConfigs, waf>>

WithDirectives(c, source)    == With(c, [wafConfigs[c] EXCEPT !.rules = @ \o source])
WithAuditLog(c, a)           == With(c, [wafConfigs[c] EXCEPT !.auditLog = a])
WithContentInjection(c)      == With(c, [wafConfigs[c] EXCEPT !.contentInjection = TRUE])
WithRequestBodyAccess(c, r)  == With(c, [wafConfigs[c] EXCEPT !.requestBody = r])
WithResponseBodyAccess(c, r) == With(c, [wafConfigs[c] EXCEPT !.responseBody = r])
WithErrorCallback(c)         == With(c, [wafConfigs[c] EXCEPT !.errorCallback = TRUE])

AuditLog(heap) ==
    /\ Room
    /\ auditLogConfigs' = heap
    /\ UNCHANGED <<program, wafConfigs, requestBodyConfigs, responseBodyConfigs, waf>>

(* The copy is made first and the receiver changed. *)
LogRelevantOnly(a) == AuditLog(Append([auditLogConfigs EXCEPT ![a].relevantOnly = TRUE], auditLogConfigs[a]))
WithParts(a)       == AuditLog(Derive(auditLogConfigs, a, [auditLogConfigs[a] EXCEPT !.parts = <<"AZ">>]))
WithLogger(a)      == AuditLog(Derive(auditLogConfigs, a, [auditLogConfigs[a] EXCEPT !.logger = TRUE]))

RequestBody(r, object) ==
    /\ Room
    /\ requestBodyConfigs' = Derive(requestBodyConfigs, r, object)
    /\ UNCHANGED <<program, wafConfigs, auditLogConfigs, responseBodyConfigs, waf>>

RequestWithLimit(r, n)         == RequestBody(r, [requestBodyConfigs[r] EXCEPT !.limit = n])
RequestWithInMemoryLimit(r, n) == RequestBody(r, [requestBodyConfigs[r] EXCEPT !.inMemoryLimit = n])

ResponseBody(r, object) ==
    /\ Room
    /\ responseBodyConfigs' = Derive(responseBodyConfigs, r, object)
    /\ UNCHANGED <<program, wafConfigs, auditLogConfigs, requestBodyConfigs, waf>>

ResponseWithLimit(r, n) == ResponseBody(r, [responseBodyConfigs[r] EXCEPT !.limit = n])
WithMimeTypes(r)        == ResponseBody(r, [responseBodyConfigs[r] EXCEPT !.mimeTypes = TRUE])
-----------------------------------------------------------------------------
(* The rules and directives of a config, in order. *)
ReadAll(c) == FromString(DefaultWAF, c.rules)

LimitsRefused(c) ==
    \/ c.requestBody # 0 /\ LET r == requestBodyConfigs[c.requestBody]
                            IN  r.limit <= 0 \/ r.limit < r.inMemoryLimit
    \/ c.responseBody # 0 /\ responseBodyConfigs[c.responseBody].limit <= 0

Rejected(c) == ~ReadAll(c).ok \/ LimitsRefused(c)

(* What is configured stands over what was read: with an audit log its      *)
(* parts, even when it has none. The MIME types go nowhere.                 *)
Configured(c) ==
    LET a   == auditLogConfigs[c.auditLog]
        req == requestBodyConfigs[c.requestBody]
    IN  [ReadAll(c).waf EXCEPT
            !.AuditEngine    = IF c.auditLog = 0 THEN @ ELSE IF a.relevantOnly THEN "relevantonly" ELSE "on",
            !.AuditLogParts  = IF c.auditLog = 0 THEN @ ELSE a.parts,
            !.AuditLogWriter = IF c.auditLog # 0 /\ a.logger THEN "configured" ELSE @,
            !.ContentInjection         = @ \/ c.contentInjection,
            !.RequestBodyAccess        = @ \/ c.requestBody # 0,
            !.RequestBodyLimit         = IF c.requestBody = 0 THEN @ ELSE req.limit,
            !.RequestBodyInMemoryLimit = IF c.requestBody = 0 THEN @ ELSE req.inMemoryLimit,
            !.ResponseBodyAccess       = @ \/ c.responseBody # 0,
            !.ResponseBodyLimit = IF c.responseBody = 0 THEN @ ELSE responseBodyConfigs[c.responseBody].limit,
            !.ErrorLogCb               = c.errorCallback]

NewWAF(i) ==
    /\ waf' = IF Rejected(wafConfigs[i]) THEN [built |-> FALSE, config |-> i, is |-> DefaultWAF]
              ELSE [built |-> TRUE, config |-> i, is |-> Configured(wafConfigs[i])]
    /\ UNCHANGED <<program, objects>>

Next ==
    \/ \E c \in DOMAIN wafConfigs :
          \/ \E source \in Programs[program].sources : WithDirectives(c, source)
          \/ \E a \in DOMAIN auditLogConfigs : WithAuditLog(c, a)
          \/ WithContentInjection(c)
          \/ \E r \in DOMAIN requestBodyConfigs : WithRequestBodyAccess(c, r)
          \/ \E r \in DOMAIN responseBodyConfigs : WithResponseBodyAccess(c, r)
          \/ WithErrorCallback(c)
          \/ NewWAF(c)
    \/ \E a \in DOMAIN auditLogConfigs : LogRelevantOnly(a) \/ WithParts(a) \/ WithLogger(a)
    \/ \E r \in DOMAIN requestBodyConfigs, n \in Limits : RequestWithLimit(r, n) \/ RequestWithInMemoryLimit(r, n)
    \/ \E r \in DOMAIN responseBodyConfigs : WithMimeTypes(r) \/ \E n \in Limits : ResponseWithLimit(r, n)

Spec == Init /\ [][Next]_vars
-----------------------------------------------------------------------------
(* "WAFConfig is immutable" (config.go:16): a configuration that exists     *)
(* never changes its meaning, whatever is derived from it or from the       *)
(* configurations it points to: NewWAF would refuse it as before or build   *)
(* the same.  The one exception the code makes is the audit engine, which   *)
(* LogRelevantOnly sets in its receiver, and not in the copy it returns.    *)
ConfigsStay ==
    [][\A i \in DOMAIN wafConfigs :
        LET before == Configured(wafConfigs[i])
            after  == Configured(wafConfigs[i])'
        IN
        /\ Rejected(wafConfigs[i])' = Rejected(wafConfigs[i])
        /\ \/ after = before
           \/ /\ wafConfigs[i].auditLog # 0 /\ LogRelevantOnly(wafConfigs[i].auditLog)
              /\ after = [before EXCEPT !.AuditEngine = "relevantonly"]]_vars

(* A WAF has, when its config gives body access, a body limit above zero    *)
(* and not below the part kept in memory, whatever its directives say.      *)
BuiltLimitsHold ==
    waf.built =>
        LET c == wafConfigs[waf.config] IN
        /\ c.requestBody # 0 => /\ waf.is.RequestBodyAccess /\ waf.is.RequestBodyLimit > 0
                                /\ waf.is.RequestBodyInMemoryLimit <= waf.is.RequestBodyLimit
        /\ c.responseBody # 0 => waf.is.ResponseBodyAccess /\ waf.is.ResponseBodyLimit > 0

(* The fields that the WAFConfig c gives itself; of the MIME types it gives *)
(* NewWAF makes nothing.                                                    *)
Given(c) ==
    (IF c.auditLog = 0 THEN {} ELSE {"AuditEngine", "AuditLogParts"})
    \cup (IF c.contentInjection THEN {"ContentInjection"} ELSE {})
    \cup (IF c.requestBody = 0 THEN {} ELSE {"RequestBodyAccess", "RequestBodyLimit", "RequestBodyInMemoryLimit"})
    \cup (IF c.responseBody = 0 THEN {} ELSE {"ResponseBodyAccess", "ResponseBodyLimit"})
    \cup (IF c.responseBody # 0 /\ responseBodyConfigs[c.responseBody].mimeTypes
          THEN {"ResponseBodyMimeTypes"} ELSE {})

(* A WAF is built only from known directives that all say something about   *)
(* their field, and then each field the config does not give has what the   *)
(* last of them says, or its default.  Exempt are the two request body      *)
(* limits, whose directives drop the error of a number that cannot be read  *)
(* and leave 0, or the largest number, as the limit; a negative file mode;  *)
(* the limit actions, which take any word; and the MIME types when the      *)
(* config gives them too, which NewWAF does not pass on.  Body access that  *)
(* the config gives comes with a limit above zero, not below the part kept  *)
(* in memory, which WriteRequestBody and BodyBuffer rely on.  Rules with an *)
(* id have different ones.                                                  *)
BuiltAsWritten ==
    waf.built =>
        LET c  == wafConfigs[waf.config]
            ds == c.rules
        IN  /\ \A k \in DOMAIN ds :
                  /\ ds[k].dir \in DOMAIN FieldOf \cup Others
                  /\ ds[k].dir \in DOMAIN FieldOf =>
                        \/ Says(FieldOf[ds[k].dir], ds[k].arg)
                        \/ FieldOf[ds[k].dir] \in Lax \cup Actions
            /\ \A d \in DOMAIN FieldOf : FieldOf[d] \in Given(c) \/ AsWritten(waf.is, ds, FieldOf[d])
            /\ BuiltLimitsHold
            /\ DifferentIDs(waf.is.rules)
=============================================================================
