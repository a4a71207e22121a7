------------------------------ MODULE Settings -------------------------------
(***************************************************************************)
(* The directives that set a field of the WAF (internal/seclang/           *)
(* directives.go), each as what it makes of the WAF and whether it         *)
(* returns an error.  Rules, defaults and includes are SecLang's, the      *)
(* audit writer's directives AuditWriter's.                                *)
(*                                                                         *)
(* An argument is its words, with case left out, and what strconv reads    *)
(* it as: valid says whether it is a number, and int is what ParseInt      *)
(* returns, error or not.                                                  *)
(***************************************************************************)
EXTENDS Integers, Sequences

Number(n) == [words |-> <<"number">>, int |-> n, valid |-> TRUE]
Words(ws) == [words |-> ws, int |-> 0, valid |-> FALSE]
Word(w)   == Words(<<w>>)

(* A number out of range: ParseInt returns the largest one with its error. *)
MaxInt == 2147483647      (* for 2^63 - 1 *)
Huge   == [words |-> <<"huge">>, int |-> MaxInt, valid |-> FALSE]

Directives == [dir : STRING, arg : [words : Seq(STRING), int : Int, valid : BOOLEAN]]

Done(w)    == [waf |-> w, ok |-> TRUE]
Refused(w) == [waf |-> w, ok |-> FALSE]
-----------------------------------------------------------------------------
(* mutant: what is not "on" is off *)
parseBoolean_Lenient(a) == [on |-> a.words = <<"on">>, ok |-> TRUE]

parseBoolean(a) == [on |-> a.words = <<"on">>, ok |-> a.words \in {<<"on">>, <<"off">>}]

Switch(w, field, a) ==
    LET b == parseBoolean(a) IN IF b.ok THEN Done([w EXCEPT ![field] = b.on]) ELSE Refused(w)

SecRequestBodyAccess(w, a)  == Switch(w, "RequestBodyAccess", a)
SecResponseBodyAccess(w, a) == Switch(w, "ResponseBodyAccess", a)
SecContentInjection(w, a)   == Switch(w, "ContentInjection", a)
SecUploadKeepFiles(w, a)    == Switch(w, "UploadKeepFiles", a)

(* The status is assigned before its error is returned. *)
ParseStatus(w, field, a, known) ==
    LET ok == Len(a.words) = 1 /\ a.words[1] \in known
    IN  [waf |-> [w EXCEPT ![field] = IF ok THEN a.words[1] ELSE "unknown"], ok |-> ok]

ParseRuleEngineStatus(w, a)  == ParseStatus(w, "RuleEngine", a, {"on", "detectiononly", "off"})
ParseAuditEngineStatus(w, a) == ParseStatus(w, "AuditEngine", a, {"on", "off", "relevantonly"})
SecRuleEngine(w, a)          == ParseRuleEngineStatus(w, a)
SecAuditEngine(w, a)         == ParseAuditEngineStatus(w, a)

(* fs.FileMode(n): 32 bits without a sign. *)
FileModes   == 65536      (* for 2^32 *)
FileMode(n) == IF n < 0 THEN FileModes + n ELSE n

(* So is a number, *)
Strict(w, field, a) == [waf |-> [w EXCEPT ![field] = a.int], ok |-> a.valid]

SecResponseBodyLimit(w, a)       == Strict(w, "ResponseBodyLimit", a)
SecUploadFileLimit(w, a)         == Strict(w, "UploadFileLimit", a)
SecUploadFileMode(w, a)          == Strict(w, "UploadFileMode", [a EXCEPT !.int = FileMode(@)])
SecRequestBodyNoFilesLimit(w, a) == Strict(w, "RequestBodyNoFilesLimit", a)

(* and of two limits the error is dropped. *)
SecRequestBodyLimit(w, a)         == Done([w EXCEPT !.RequestBodyLimit = a.int])
SecRequestBodyInMemoryLimit(w, a) == Done([w EXCEPT !.RequestBodyInMemoryLimit = a.int])

(* Any other word than the one asked for means the opposite. *)
SecResponseBodyLimitAction(w, a) == Done([w EXCEPT !.RejectOnResponseBodyLimit = a.words = <<"reject">>])
SecRequestBodyLimitAction(w, a)  == Done([w EXCEPT !.RejectOnRequestBodyLimit = a.words = <<"reject">>])
SecRemoteRulesFailAction(w, a)   == Done([w EXCEPT !.AbortOnRemoteRulesFail = a.words = <<"abort">>])
SecRemoteRules(w, a)             == Refused(w)

(* Texts are taken as they are. *)
SecWebAppID(w, a)        == Done([w EXCEPT !.WebAppID = a.words])
SecTmpDir(w, a)          == Done([w EXCEPT !.TmpDir = a.words])
SecServerSignature(w, a) == Done([w EXCEPT !.ServerSignature = a.words])
SecSensorID(w, a)        == Done([w EXCEPT !.SensorID = a.words])
SecDataDir(w, a)         == Done([w EXCEPT !.DataDir = a.words])
SecUploadDir(w, a)       == Done([w EXCEPT !.UploadDir = a.words])
SecAuditLogParts(w, a)   == Done([w EXCEPT !.AuditLogParts = a.words])

(* regexp.Compile: "(" stands for what is no expression. *)
SecAuditLogRelevantStatus(w, a) ==
    LET ok == a.words # <<"(">>
    IN  [waf |-> [w EXCEPT !.AuditLogRelevantStatus = IF ok THEN a.words ELSE <<>>], ok |-> ok]

SecComponentSignature(w, a)         == Done([w EXCEPT !.ComponentNames = Append(@, a.words)])
SecResponseBodyMimeType(w, a)       == Done([w EXCEPT !.ResponseBodyMimeTypes = a.words])
SecResponseBodyMimeTypesClear(w, a) == Done([w EXCEPT !.ResponseBodyMimeTypes = <<>>])

(* The first word names the dataset and the others are its items. *)
SecDataset(w, a) ==
    IF Len(a.words) < 2 THEN Refused(w)
    ELSE Done([w EXCEPT !.Datasets = [n \in DOMAIN @ \cup {a.words[1]} |->
                                         IF n = a.words[1] THEN Tail(a.words) ELSE @[n]]])

Unsupported(w, a) == Done(w)

(* RuleGroup.Add, for a rule given by its id. *)
AddRule(w, a) ==
    IF a.int # 0 /\ \E k \in DOMAIN w.rules : w.rules[k] = a.int THEN Refused(w)
    ELSE Done([w EXCEPT !.rules = Append(@, a.int)])

(* directivesMap: a name it does not hold is an error. *)
Apply(w, d) ==
    CASE d.dir = "SecRequestBodyAccess"          -> SecRequestBodyAccess(w, d.arg)
      [] d.dir = "SecResponseBodyAccess"         -> SecResponseBodyAccess(w, d.arg)
      [] d.dir = "SecContentInjection"           -> SecContentInjection(w, d.arg)
      [] d.dir = "SecUploadKeepFiles"            -> SecUploadKeepFiles(w, d.arg)
      [] d.dir = "SecRuleEngine"                 -> SecRuleEngine(w, d.arg)
      [] d.dir = "SecAuditEngine"                -> SecAuditEngine(w, d.arg)
      [] d.dir = "SecResponseBodyLimit"          -> SecResponseBodyLimit(w, d.arg)
      [] d.dir = "SecUploadFileLimit"            -> SecUploadFileLimit(w, d.arg)
      [] d.dir = "SecUploadFileMode"             -> SecUploadFileMode(w, d.arg)
      [] d.dir = "SecRequestBodyNoFilesLimit"    -> SecRequestBodyNoFilesLimit(w, d.arg)
      [] d.dir = "SecRequestBodyLimit"           -> SecRequestBodyLimit(w, d.arg)
      [] d.dir = "SecRequestBodyInMemoryLimit"   -> SecRequestBodyInMemoryLimit(w, d.arg)
      [] d.dir = "SecResponseBodyLimitAction"    -> SecResponseBodyLimitAction(w, d.arg)
      [] d.dir = "SecRequestBodyLimitAction"     -> SecRequestBodyLimitAction(w, d.arg)
      [] d.dir = "SecRemoteRulesFailAction"      -> SecRemoteRulesFailAction(w, d.arg)
      [] d.dir = "SecRemoteRules"                -> SecRemoteRules(w, d.arg)
      [] d.dir = "SecWebAppID"                   -> SecWebAppID(w, d.arg)
      [] d.dir = "SecTmpDir"                     -> SecTmpDir(w, d.arg)
      [] d.dir = "SecServerSignature"            -> SecServerSignature(w, d.arg)
      [] d.dir = "SecSensorID"                   -> SecSensorID(w, d.arg)
      [] d.dir = "SecDataDir"                    -> SecDataDir(w, d.arg)
      [] d.dir = "SecUploadDir"                  -> SecUploadDir(w, d.arg)
      [] d.dir = "SecAuditLogParts"              -> SecAuditLogParts(w, d.arg)
      [] d.dir = "SecAuditLogRelevantStatus"     -> SecAuditLogRelevantStatus(w, d.arg)
      [] d.dir = "SecComponentSignature"         -> SecComponentSignature(w, d.arg)
      [] d.dir = "SecResponseBodyMimeType"       -> SecResponseBodyMimeType(w, d.arg)
      [] d.dir = "SecResponseBodyMimeTypesClear" -> SecResponseBodyMimeTypesClear(w, d.arg)
      [] d.dir = "SecDataset"                    -> SecDataset(w, d.arg)
      [] d.dir = "Unsupported"                   -> Unsupported(w, d.arg)
      [] d.dir = "Rule"                          -> AddRule(w, d.arg)
      [] OTHER                                   -> Refused(w)

(* FromString: the first error ends the reading. *)
FromString(w, directives) ==
    LET read[n \in 0..Len(directives)] ==
            IF n = 0 THEN Done(w)
            ELSE LET before == read[n - 1] IN IF before.ok THEN Apply(before.waf, directives[n]) ELSE before
    IN  read[Len(directives)]

(* corazawaf.NewWAF *)
DefaultWAF == [
    rules |-> <<>>, Datasets |-> <<>>, RuleEngine |-> "on",
    AuditEngine |-> "off", AuditLogParts |-> <<"ABCFHZ">>, AuditLogRelevantStatus |-> <<".*">>, AuditLogWriter |-> "serial",
    RequestBodyAccess |-> FALSE, RequestBodyLimit |-> 134217728, RequestBodyInMemoryLimit |-> 131072,
    ResponseBodyAccess |-> FALSE, ResponseBodyLimit |-> 524288, ResponseBodyMimeTypes |-> <<"html", "plain">>,
    RejectOnResponseBodyLimit |-> FALSE, RejectOnRequestBodyLimit |-> FALSE, AbortOnRemoteRulesFail |-> FALSE,
    RequestBodyNoFilesLimit |-> 0, UploadFileLimit |-> 0, UploadFileMode |-> 0, UploadKeepFiles |-> FALSE,
    ContentInjection |-> FALSE, ComponentNames |-> <<>>, TmpDir |-> <<"tmp">>, WebAppID |-> <<>>,
    ServerSignature |-> <<>>, SensorID |-> <<>>, DataDir |-> <<>>, UploadDir |-> <<>>, ErrorLogCb |-> FALSE]
-----------------------------------------------------------------------------
(* Reference.  What a directive says of which field; a list says what it    *)
(* adds.  Lax directives accept what they cannot read.                      *)
FieldOf == [
    SecRequestBodyAccess |-> "RequestBodyAccess", SecResponseBodyAccess |-> "ResponseBodyAccess",
    SecContentInjection |-> "ContentInjection", SecUploadKeepFiles |-> "UploadKeepFiles",
    SecRuleEngine |-> "RuleEngine", SecAuditEngine |-> "AuditEngine",
    SecResponseBodyLimit |-> "ResponseBodyLimit", SecUploadFileLimit |-> "UploadFileLimit",
    SecUploadFileMode |-> "UploadFileMode", SecRequestBodyNoFilesLimit |-> "RequestBodyNoFilesLimit",
    SecRequestBodyLimit |-> "RequestBodyLimit", SecRequestBodyInMemoryLimit |-> "RequestBodyInMemoryLimit",
    SecResponseBodyLimitAction |-> "RejectOnResponseBodyLimit",
    SecRequestBodyLimitAction |-> "RejectOnRequestBodyLimit",
    SecRemoteRulesFailAction |-> "AbortOnRemoteRulesFail",
    SecWebAppID |-> "WebAppID", SecTmpDir |-> "TmpDir", SecServerSignature |-> "ServerSignature",
    SecSensorID |-> "SensorID", SecDataDir |-> "DataDir", SecUploadDir |-> "UploadDir",
    SecAuditLogParts |-> "AuditLogParts", SecAuditLogRelevantStatus |-> "AuditLogRelevantStatus",
    SecResponseBodyMimeType |-> "ResponseBodyMimeTypes", SecResponseBodyMimeTypesClear |-> "ResponseBodyMimeTypes"]

Flags   == {"RequestBodyAccess", "ResponseBodyAccess", "ContentInjection", "UploadKeepFiles"}
Actions == {"RejectOnResponseBodyLimit", "RejectOnRequestBodyLimit", "AbortOnRemoteRulesFail"}
Counts  == {"ResponseBodyLimit", "UploadFileLimit", "UploadFileMode", "RequestBodyNoFilesLimit",
            "RequestBodyLimit", "RequestBodyInMemoryLimit"}
Lax     == {"RequestBodyLimit", "RequestBodyInMemoryLimit"}

(* The other directives that are accepted. *)
Others == {"SecComponentSignature", "SecDataset", "Unsupported", "Rule"}

(* The arguments that say something about field f. *)
Says(f, a) ==
    CASE f \in Flags   -> a.words \in {<<"on">>, <<"off">>}
      [] f \in Actions -> a.words \in {<<"reject">>, <<"processpartial">>, <<"abort">>, <<"warn">>}
      [] f \in Counts  -> a.valid
      [] f = "RuleEngine"  -> a.words \in {<<"on">>, <<"off">>, <<"detectiononly">>}
      [] f = "AuditEngine" -> a.words \in {<<"on">>, <<"off">>, <<"relevantonly">>}
      [] f = "AuditLogRelevantStatus" -> a.words # <<"(">>
      [] OTHER         -> TRUE

(* What d says of the field it names. *)
Meant(d) ==
    LET f == FieldOf[d.dir] IN
    CASE f \in Flags   -> d.arg.words = <<"on">>
      [] f \in Actions -> d.arg.words = IF d.dir = "SecRemoteRulesFailAction" THEN <<"abort">> ELSE <<"reject">>
      [] f \in Counts  -> d.arg.int
      [] f \in {"RuleEngine", "AuditEngine"} -> d.arg.words[1]
      [] d.dir = "SecResponseBodyMimeTypesClear" -> <<>>
      [] OTHER         -> d.arg.words

(* The directives that name field f, by their place. *)
Naming(ds, f) == {k \in DOMAIN ds : ds[k].dir \in DOMAIN FieldOf /\ FieldOf[ds[k].dir] = f}

(* Directive k is the last one that names f. *)
IsLast(k, ds, f) == k \in Naming(ds, f) /\ \A j \in Naming(ds, f) : j <= k

(* A negative number is no file mode, and is taken for one. *)
NoMode(d) == d.dir = "SecUploadFileMode" /\ d.arg.int < 0

(* w has what the directives say: for every field what the last one that    *)
(* names it means, or the default.                                          *)
AsWritten(w, ds, f) ==
    /\ Naming(ds, f) = {} => w[f] = DefaultWAF[f]
    /\ \A k \in DOMAIN ds : IsLast(k, ds, f) => w[f] = Meant(ds[k]) \/ NoMode(ds[k])

(* The rules that have an id have different ones. *)
DifferentIDs(rules) == \A j, k \in DOMAIN rules : rules[j] = rules[k] /\ rules[j] # 0 => j = k
=============================================================================
