--------------------------- MODULE WAFConfigProofs ---------------------------
(***************************************************************************)
(* The theorems of Settings and WAFConfig.                                 *)
(***************************************************************************)
EXTENDS WAFConfig, SequenceTheorems, WellFoundedInduction, TLAPS

(* The result of a directive says what it should of field f. *)
FieldSet(w, d, f) ==
    /\ Apply(w, d).waf = [w EXCEPT ![f] = Meant(d)]
    /\ Says(f, d.arg) \/ f \in Lax \cup Actions
    /\ f \in Flags => Meant(d) \in BOOLEAN

(* A negative file mode is taken for another one. *)
ModeSet(w, d) ==
    /\ NoMode(d) /\ Says("UploadFileMode", d.arg)
    /\ \E x : Apply(w, d).waf = [w EXCEPT !["UploadFileMode"] = x]

(* The kinds of fields are different ones (the types of the fields of WAF). *)
LEMMA OtherKinds ==
  ASSUME NEW d, d.dir \in DOMAIN FieldOf, NEW f, f = FieldOf[d.dir]
  PROVE  /\ f \in Flags => f \notin Actions \cup Counts
         /\ f \in Actions => f \notin Flags \cup Counts
         /\ f \in Counts => f \notin Flags \cup Actions
         /\ f \in Flags \cup Actions \cup Counts =>
                f \notin {"RuleEngine", "AuditEngine", "AuditLogRelevantStatus", "ResponseBodyMimeTypes"}
         /\ d.dir = "SecResponseBodyMimeTypesClear" => f = "ResponseBodyMimeTypes"
<1>1. d.dir = "SecResponseBodyMimeTypesClear" => f = "ResponseBodyMimeTypes"
  BY DEF FieldOf
<1> QED BY <1>1 DEF Flags, Actions, Counts

(* Switches: on or off, or an error (directives.go, parseBoolean). *)
LEMMA SwitchSet ==
  ASSUME NEW w, NEW d, d.dir \in DOMAIN FieldOf, FieldOf[d.dir] \in Flags,
         Apply(w, d) = Switch(w, FieldOf[d.dir], d.arg), Apply(w, d).ok
  PROVE  FieldSet(w, d, FieldOf[d.dir])
<1> DEFINE f == FieldOf[d.dir]
           on == d.arg.words = <<"on">>
<1>0. /\ f \notin Actions /\ f \notin Counts /\ f \notin {"RuleEngine", "AuditEngine"}
      /\ f # "AuditLogRelevantStatus" /\ f # "RuleEngine" /\ f # "AuditEngine"
      /\ d.dir # "SecResponseBodyMimeTypesClear"
  BY OtherKinds
<1>1. Meant(d) = on
  BY <1>0, Zenon DEF Meant
<1>2. on \in BOOLEAN
  OBVIOUS
<1> HIDE DEF f, on
<1>3. f \in Flags
  BY DEF f
<1>4. parseBoolean(d.arg).on = on /\ parseBoolean(d.arg).ok = (d.arg.words \in {<<"on">>, <<"off">>})
  BY Zenon DEF parseBoolean, on
<1>5. CASE ~parseBoolean(d.arg).ok
  <2>1. Apply(w, d) = Refused(w)
    BY <1>5 DEF Switch
  <2> QED BY <2>1 DEF Refused
<1>6. CASE parseBoolean(d.arg).ok
  <2>1. Apply(w, d) = Done([w EXCEPT ![f] = parseBoolean(d.arg).on])
    BY <1>6 DEF Switch, f
  <2>2. Apply(w, d).waf = [w EXCEPT ![f] = on]
    <3>1. Apply(w, d).waf = [w EXCEPT ![f] = parseBoolean(d.arg).on]
      BY <2>1 DEF Done
    <3>2. parseBoolean(d.arg).on = on
      BY <1>4
    <3> QED BY <3>1, <3>2, Zenon
  <2>3. Says(f, d.arg)
    BY <1>0, <1>3, <1>4, <1>6, Zenon DEF Says
  <2> QED BY <1>1, <1>2, <2>2, <2>3, Zenon DEF FieldSet, f
<1> QED BY <1>5, <1>6

(* Engines: a known word, or an error (types.ParseRuleEngineStatus). *)
LEMMA StatusSet ==
  ASSUME NEW w, NEW d \in Directives, d.dir \in DOMAIN FieldOf, NEW known,
         \/ FieldOf[d.dir] = "RuleEngine" /\ known = {"on", "detectiononly", "off"}
         \/ FieldOf[d.dir] = "AuditEngine" /\ known = {"on", "off", "relevantonly"},
         Apply(w, d) = ParseStatus(w, FieldOf[d.dir], d.arg, known), Apply(w, d).ok
  PROVE  FieldSet(w, d, FieldOf[d.dir])
<1> DEFINE f == FieldOf[d.dir]
           x == d.arg.words[1]
           ok == Len(d.arg.words) = 1 /\ x \in known
<1>1. Meant(d) = x /\ f \notin Flags
  <2>1. f \notin Flags /\ f \notin Actions /\ f \notin Counts /\ d.dir # "SecResponseBodyMimeTypesClear"
    BY OtherKinds
  <2> QED BY <2>1 DEF Meant
<1>2. Apply(w, d) = [waf |-> [w EXCEPT ![f] = IF ok THEN x ELSE "unknown"], ok |-> ok]
  BY Zenon DEF ParseStatus
<1> HIDE DEF f, ok
<1>3. ok
  BY <1>2
<1>4. Apply(w, d).waf = [w EXCEPT ![f] = x]
  BY <1>2, <1>3
<1>5. d.arg.words = <<x>>
  BY <1>3 DEF ok, Directives
<1>6. Says(f, d.arg)
  BY <1>3, <1>5 DEF Says, Flags, Actions, Counts, f, ok
<1> QED BY <1>1, <1>4, <1>6, Zenon DEF FieldSet, f

(* Numbers: assigned before their error is returned. *)
LEMMA CountSet ==
  ASSUME NEW w, NEW d, d.dir \in DOMAIN FieldOf, FieldOf[d.dir] \in Counts,
         \/ Apply(w, d) = Strict(w, FieldOf[d.dir], d.arg)
         \/ FieldOf[d.dir] \in Lax /\ Apply(w, d).waf = [w EXCEPT ![FieldOf[d.dir]] = d.arg.int],
         Apply(w, d).ok
  PROVE  FieldSet(w, d, FieldOf[d.dir])
<1>1. Meant(d) = d.arg.int /\ FieldOf[d.dir] \notin Flags
  <2>1. /\ FieldOf[d.dir] \notin Flags /\ FieldOf[d.dir] \notin Actions
        /\ FieldOf[d.dir] \notin {"RuleEngine", "AuditEngine"} /\ d.dir # "SecResponseBodyMimeTypesClear"
    BY OtherKinds
  <2> QED BY <2>1, Zenon DEF Meant
<1>2. Apply(w, d).waf = [w EXCEPT ![FieldOf[d.dir]] = d.arg.int]
  BY DEF Strict
<1>3. FieldOf[d.dir] \in Lax \/ d.arg.valid
  BY DEF Strict
<1>4. FieldOf[d.dir] \in Lax \/ Says(FieldOf[d.dir], d.arg)
  BY <1>3 DEF Says, Flags, Actions, Counts
<1> QED BY <1>1, <1>2, <1>4, Zenon DEF FieldSet

(* Limit actions: any other word means the opposite. *)
LEMMA ActionSet ==
  ASSUME NEW w, NEW d, d.dir \in DOMAIN FieldOf, FieldOf[d.dir] \in Actions, NEW word,
         word = (IF d.dir = "SecRemoteRulesFailAction" THEN <<"abort">> ELSE <<"reject">>),
         Apply(w, d).waf = [w EXCEPT ![FieldOf[d.dir]] = (d.arg.words = word)]
  PROVE  FieldSet(w, d, FieldOf[d.dir])
<1>1. /\ FieldOf[d.dir] \notin Flags /\ FieldOf[d.dir] \notin Counts
      /\ FieldOf[d.dir] \notin {"RuleEngine", "AuditEngine"} /\ d.dir # "SecResponseBodyMimeTypesClear"
  BY OtherKinds
<1>2. Meant(d) = (d.arg.words = word)
  BY <1>1, Zenon DEF Meant
<1> QED BY <1>1, <1>2, Zenon DEF FieldSet

(* Texts are taken as they are. *)
LEMMA TextSet ==
  ASSUME NEW w, NEW d, d.dir \in DOMAIN FieldOf, d.dir # "SecResponseBodyMimeTypesClear",
         FieldOf[d.dir] \notin Flags \cup Actions \cup Counts \cup {"RuleEngine", "AuditEngine"},
         FieldOf[d.dir] = "AuditLogRelevantStatus" => d.arg.words # <<"(">>,
         Apply(w, d).waf = [w EXCEPT ![FieldOf[d.dir]] = d.arg.words]
  PROVE  FieldSet(w, d, FieldOf[d.dir])
<1>1. Meant(d) = d.arg.words
  BY Zenon DEF Meant
<1>2. Says(FieldOf[d.dir], d.arg)
  BY Zenon DEF Says
<1> QED BY <1>1, <1>2, Zenon DEF FieldSet

(* A directive that sets a field sets it to what it says, but for a negative *)
(* file mode (directives.go).                                                *)
LEMMA ApplyField ==
  ASSUME NEW w, NEW d \in Directives, d.dir \in DOMAIN FieldOf, Apply(w, d).ok
  PROVE  FieldSet(w, d, FieldOf[d.dir]) \/ ModeSet(w, d)
<1>1. CASE d.dir = "SecRequestBodyAccess"
  <2>1. FieldOf[d.dir] = "RequestBodyAccess" /\ Apply(w, d) = SecRequestBodyAccess(w, d.arg)
    BY <1>1 DEF FieldOf, Apply
  <2>2. FieldOf[d.dir] \in Flags /\ Apply(w, d) = Switch(w, FieldOf[d.dir], d.arg)
    BY <2>1 DEF Flags, SecRequestBodyAccess
  <2> QED BY <2>1, <2>2, SwitchSet
<1>2. CASE d.dir = "SecResponseBodyAccess"
  <2>1. FieldOf[d.dir] = "ResponseBodyAccess" /\ Apply(w, d) = SecResponseBodyAccess(w, d.arg)
    BY <1>2 DEF FieldOf, Apply
  <2>2. FieldOf[d.dir] \in Flags /\ Apply(w, d) = Switch(w, FieldOf[d.dir], d.arg)
    BY <2>1 DEF Flags, SecResponseBodyAccess
  <2> QED BY <2>1, <2>2, SwitchSet
<1>3. CASE d.dir = "SecContentInjection"
  <2>1. FieldOf[d.dir] = "ContentInjection" /\ Apply(w, d) = SecContentInjection(w, d.arg)
    BY <1>3 DEF FieldOf, Apply
  <2>2. FieldOf[d.dir] \in Flags /\ Apply(w, d) = Switch(w, FieldOf[d.dir], d.arg)
    BY <2>1 DEF Flags, SecContentInjection
  <2> QED BY <2>1, <2>2, SwitchSet
<1>4. CASE d.dir = "SecUploadKeepFiles"
  <2>1. FieldOf[d.dir] = "UploadKeepFiles" /\ Apply(w, d) = SecUploadKeepFiles(w, d.arg)
    BY <1>4 DEF FieldOf, Apply
  <2>2. FieldOf[d.dir] \in Flags /\ Apply(w, d) = Switch(w, FieldOf[d.dir], d.arg)
    BY <2>1 DEF Flags, SecUploadKeepFiles
  <2> QED BY <2>1, <2>2, SwitchSet
<1>5. CASE d.dir = "SecRuleEngine"
  <2>1. FieldOf[d.dir] = "RuleEngine" /\ Apply(w, d) = SecRuleEngine(w, d.arg)
    BY <1>5 DEF FieldOf, Apply
  <2>2. Apply(w, d) = ParseStatus(w, FieldOf[d.dir], d.arg, {"on", "detectiononly", "off"})
    BY <2>1, Zenon DEF SecRuleEngine, ParseRuleEngineStatus
  <2> QED BY <2>1, <2>2, StatusSet
<1>6. CASE d.dir = "SecAuditEngine"
  <2>1. FieldOf[d.dir] = "AuditEngine" /\ Apply(w, d) = SecAuditEngine(w, d.arg)
    BY <1>6 DEF FieldOf, Apply
  <2>2. Apply(w, d) = ParseStatus(w, FieldOf[d.dir], d.arg, {"on", "off", "relevantonly"})
    BY <2>1, Zenon DEF SecAuditEngine, ParseAuditEngineStatus
  <2> QED BY <2>1, <2>2, StatusSet
<1>7. CASE d.dir = "SecResponseBodyLimit"
  <2>1. FieldOf[d.dir] = "ResponseBodyLimit" /\ Apply(w, d) = SecResponseBodyLimit(w, d.arg)
    BY <1>7 DEF FieldOf, Apply
  <2>2. FieldOf[d.dir] \in Counts /\ Apply(w, d) = Strict(w, FieldOf[d.dir], d.arg)
    BY <2>1 DEF Counts, SecResponseBodyLimit
  <2> QED BY <2>1, <2>2, CountSet, Zenon
<1>8. CASE d.dir = "SecUploadFileLimit"
  <2>1. FieldOf[d.dir] = "UploadFileLimit" /\ Apply(w, d) = SecUploadFileLimit(w, d.arg)
    BY <1>8 DEF FieldOf, Apply
  <2>2. FieldOf[d.dir] \in Counts /\ Apply(w, d) = Strict(w, FieldOf[d.dir], d.arg)
    BY <2>1 DEF Counts, SecUploadFileLimit
  <2> QED BY <2>1, <2>2, CountSet, Zenon
<1>9. CASE d.dir = "SecUploadFileMode"
  <2>1. FieldOf[d.dir] = "UploadFileMode" /\ Apply(w, d) = SecUploadFileMode(w, d.arg)
    BY <1>9 DEF FieldOf, Apply
  <2>2. FieldOf[d.dir] \in Counts
    BY <2>1 DEF Counts
  <2>3. d.arg \in [words : Seq(STRING), int : Int, valid : BOOLEAN]
    BY DEF Directives
  <2>4. CASE d.arg.int < 0
    <3> DEFINE x == FileModes + d.arg.int
    <3>1. Apply(w, d) = [waf |-> [w EXCEPT !["UploadFileMode"] = x], ok |-> d.arg.valid]
      BY <2>1, <2>3, <2>4 DEF SecUploadFileMode, Strict, FileMode
    <3> HIDE DEF x
    <3>2. Apply(w, d).waf = [w EXCEPT !["UploadFileMode"] = x] /\ d.arg.valid
      BY <3>1
    <3>3. Says("UploadFileMode", d.arg)
      BY <3>2 DEF Says, Flags, Actions, Counts
    <3> QED BY <1>9, <2>4, <3>2, <3>3, Zenon DEF ModeSet, NoMode
  <2>5. CASE ~(d.arg.int < 0)
    <3>1. [d.arg EXCEPT !.int = FileMode(@)] = d.arg
      BY <2>3, <2>5 DEF FileMode
    <3>2. Apply(w, d) = Strict(w, FieldOf[d.dir], d.arg)
      BY <2>1, <3>1, Zenon DEF SecUploadFileMode
    <3> QED BY <2>1, <2>2, <3>2, CountSet, Zenon
  <2> QED BY <2>4, <2>5
<1>10. CASE d.dir = "SecRequestBodyNoFilesLimit"
  <2>1. FieldOf[d.dir] = "RequestBodyNoFilesLimit" /\ Apply(w, d) = SecRequestBodyNoFilesLimit(w, d.arg)
    BY <1>10 DEF FieldOf, Apply
  <2>2. FieldOf[d.dir] \in Counts /\ Apply(w, d) = Strict(w, FieldOf[d.dir], d.arg)
    BY <2>1 DEF Counts, SecRequestBodyNoFilesLimit
  <2> QED BY <2>1, <2>2, CountSet, Zenon
<1>11. CASE d.dir = "SecRequestBodyLimit"
  <2>1. FieldOf[d.dir] = "RequestBodyLimit" /\ Apply(w, d) = SecRequestBodyLimit(w, d.arg)
    BY <1>11 DEF FieldOf, Apply
  <2>2. /\ FieldOf[d.dir] \in Counts /\ FieldOf[d.dir] \in Lax
        /\ Apply(w, d).waf = [w EXCEPT ![FieldOf[d.dir]] = d.arg.int]
    BY <2>1 DEF Counts, Lax, SecRequestBodyLimit, Done
  <2> QED BY <2>1, <2>2, CountSet
<1>12. CASE d.dir = "SecRequestBodyInMemoryLimit"
  <2>1. FieldOf[d.dir] = "RequestBodyInMemoryLimit" /\ Apply(w, d) = SecRequestBodyInMemoryLimit(w, d.arg)
    BY <1>12 DEF FieldOf, Apply
  <2>2. /\ FieldOf[d.dir] \in Counts /\ FieldOf[d.dir] \in Lax
        /\ Apply(w, d).waf = [w EXCEPT ![FieldOf[d.dir]] = d.arg.int]
    BY <2>1 DEF Counts, Lax, SecRequestBodyInMemoryLimit, Done
  <2> QED BY <2>1, <2>2, CountSet
<1>13. CASE d.dir = "SecResponseBodyLimitAction"
  <2>1. FieldOf[d.dir] = "RejectOnResponseBodyLimit" /\ Apply(w, d) = SecResponseBodyLimitAction(w, d.arg)
    BY <1>13 DEF FieldOf, Apply
  <2> DEFINE b == d.arg.words = <<"reject">>
  <2>2. Apply(w, d).waf = [w EXCEPT ![FieldOf[d.dir]] = b]
    <3>1. Apply(w, d) = Done([w EXCEPT !.RejectOnResponseBodyLimit = b])
      BY <2>1, Zenon DEF SecResponseBodyLimitAction
    <3> HIDE DEF b
    <3> QED BY <2>1, <3>1 DEF Done
  <2>3. FieldOf[d.dir] \in Actions
    BY <2>1 DEF Actions
  <2>4. <<"reject">> = (IF d.dir = "SecRemoteRulesFailAction" THEN <<"abort">> ELSE <<"reject">>)
    BY <1>13
  <2> QED BY <2>2, <2>3, <2>4, ActionSet, Zenon
<1>14. CASE d.dir = "SecRequestBodyLimitAction"
  <2>1. FieldOf[d.dir] = "RejectOnRequestBodyLimit" /\ Apply(w, d) = SecRequestBodyLimitAction(w, d.arg)
    BY <1>14 DEF FieldOf, Apply
  <2> DEFINE b == d.arg.words = <<"reject">>
  <2>2. Apply(w, d).waf = [w EXCEPT ![FieldOf[d.dir]] = b]
    <3>1. Apply(w, d) = Done([w EXCEPT !.RejectOnRequestBodyLimit = b])
      BY <2>1, Zenon DEF SecRequestBodyLimitAction
    <3> HIDE DEF b
    <3> QED BY <2>1, <3>1 DEF Done
  <2>3. FieldOf[d.dir] \in Actions
    BY <2>1 DEF Actions
  <2>4. <<"reject">> = (IF d.dir = "SecRemoteRulesFailAction" THEN <<"abort">> ELSE <<"reject">>)
    BY <1>14
  <2> QED BY <2>2, <2>3, <2>4, ActionSet, Zenon
<1>15. CASE d.dir = "SecRemoteRulesFailAction"
  <2>1. FieldOf[d.dir] = "AbortOnRemoteRulesFail" /\ Apply(w, d) = SecRemoteRulesFailAction(w, d.arg)
    BY <1>15 DEF FieldOf, Apply
  <2> DEFINE b == d.arg.words = <<"abort">>
  <2>2. Apply(w, d).waf = [w EXCEPT ![FieldOf[d.dir]] = b]
    <3>1. Apply(w, d) = Done([w EXCEPT !.AbortOnRemoteRulesFail = b])
      BY <2>1, Zenon DEF SecRemoteRulesFailAction
    <3> HIDE DEF b
    <3> QED BY <2>1, <3>1 DEF Done
  <2>3. FieldOf[d.dir] \in Actions
    BY <2>1 DEF Actions
  <2>4. <<"abort">> = (IF d.dir = "SecRemoteRulesFailAction" THEN <<"abort">> ELSE <<"reject">>)
    BY <1>15
  <2> QED BY <2>2, <2>3, <2>4, ActionSet, Zenon
<1>16. CASE d.dir = "SecWebAppID"
  <2>1. FieldOf[d.dir] = "WebAppID" /\ Apply(w, d) = SecWebAppID(w, d.arg)
    BY <1>16 DEF FieldOf, Apply
  <2>2. /\ Apply(w, d).waf = [w EXCEPT ![FieldOf[d.dir]] = d.arg.words]
        /\ FieldOf[d.dir] \notin Flags \cup Actions \cup Counts \cup {"RuleEngine", "AuditEngine"}
        /\ FieldOf[d.dir] # "AuditLogRelevantStatus" /\ d.dir # "SecResponseBodyMimeTypesClear"
    BY <1>16, <2>1 DEF Flags, Actions, Counts, SecWebAppID, Done
  <2> QED BY <2>2, TextSet
<1>17. CASE d.dir = "SecTmpDir"
  <2>1. FieldOf[d.dir] = "TmpDir" /\ Apply(w, d) = SecTmpDir(w, d.arg)
    BY <1>17 DEF FieldOf, Apply
  <2>2. /\ Apply(w, d).waf = [w EXCEPT ![FieldOf[d.dir]] = d.arg.words]
        /\ FieldOf[d.dir] \notin Flags \cup Actions \cup Counts \cup {"RuleEngine", "AuditEngine"}
        /\ FieldOf[d.dir] # "AuditLogRelevantStatus" /\ d.dir # "SecResponseBodyMimeTypesClear"
    BY <1>17, <2>1 DEF Flags, Actions, Counts, SecTmpDir, Done
  <2> QED BY <2>2, TextSet
<1>18. CASE d.dir = "SecServerSignature"
  <2>1. FieldOf[d.dir] = "ServerSignature" /\ Apply(w, d) = SecServerSignature(w, d.arg)
    BY <1>18 DEF FieldOf, Apply
  <2>2. /\ Apply(w, d).waf = [w EXCEPT ![FieldOf[d.dir]] = d.arg.words]
        /\ FieldOf[d.dir] \notin Flags \cup Actions \cup Counts \cup {"RuleEngine", "AuditEngine"}
        /\ FieldOf[d.dir] # "AuditLogRelevantStatus" /\ d.dir # "SecResponseBodyMimeTypesClear"
    BY <1>18, <2>1 DEF Flags, Actions, Counts, SecServerSignature, Done
  <2> QED BY <2>2, TextSet
<1>19. CASE d.dir = "SecSensorID"
  <2>1. FieldOf[d.dir] = "SensorID" /\ Apply(w, d) = SecSensorID(w, d.arg)
    BY <1>19 DEF FieldOf, Apply
  <2>2. /\ Apply(w, d).waf = [w EXCEPT ![FieldOf[d.dir]] = d.arg.words]
        /\ FieldOf[d.dir] \notin Flags \cup Actions \cup Counts \cup {"RuleEngine", "AuditEngine"}
        /\ FieldOf[d.dir] # "AuditLogRelevantStatus" /\ d.dir # "SecResponseBodyMimeTypesClear"
    BY <1>19, <2>1 DEF Flags, Actions, Counts, SecSensorID, Done
  <2> QED BY <2>2, TextSet
<1>20. CASE d.dir = "SecDataDir"
  <2>1. FieldOf[d.dir] = "DataDir" /\ Apply(w, d) = SecDataDir(w, d.arg)
    BY <1>20 DEF FieldOf, Apply
  <2>2. /\ Apply(w, d).waf = [w EXCEPT ![FieldOf[d.dir]] = d.arg.words]
        /\ FieldOf[d.dir] \notin Flags \cup Actions \cup Counts \cup {"RuleEngine", "AuditEngine"}
        /\ FieldOf[d.dir] # "AuditLogRelevantStatus" /\ d.dir # "SecResponseBodyMimeTypesClear"
    BY <1>20, <2>1 DEF Flags, Actions, Counts, SecDataDir, Done
  <2> QED BY <2>2, TextSet
<1>21. CASE d.dir = "SecUploadDir"
  <2>1. FieldOf[d.dir] = "UploadDir" /\ Apply(w, d) = SecUploadDir(w, d.arg)
    BY <1>21 DEF FieldOf, Apply
  <2>2. /\ Apply(w, d).waf = [w EXCEPT ![FieldOf[d.dir]] = d.arg.words]
        /\ FieldOf[d.dir] \notin Flags \cup Actions \cup Counts \cup {"RuleEngine", "AuditEngine"}
        /\ FieldOf[d.dir] # "AuditLogRelevantStatus" /\ d.dir # "SecResponseBodyMimeTypesClear"
    BY <1>21, <2>1 DEF Flags, Actions, Counts, SecUploadDir, Done
  <2> QED BY <2>2, TextSet
<1>22. CASE d.dir = "SecAuditLogParts"
  <2>1. FieldOf[d.dir] = "AuditLogParts" /\ Apply(w, d) = SecAuditLogParts(w, d.arg)
    BY <1>22 DEF FieldOf, Apply
  <2>2. /\ Apply(w, d).waf = [w EXCEPT ![FieldOf[d.dir]] = d.arg.words]
        /\ FieldOf[d.dir] \notin Flags \cup Actions \cup Counts \cup {"RuleEngine", "AuditEngine"}
        /\ FieldOf[d.dir] # "AuditLogRelevantStatus" /\ d.dir # "SecResponseBodyMimeTypesClear"
    BY <1>22, <2>1 DEF Flags, Actions, Counts, SecAuditLogParts, Done
  <2> QED BY <2>2, TextSet
<1>23. CASE d.dir = "SecAuditLogRelevantStatus"
  <2> DEFINE ok == d.arg.words # <<"(">>
  <2>1. FieldOf[d.dir] = "AuditLogRelevantStatus" /\ Apply(w, d) = SecAuditLogRelevantStatus(w, d.arg)
    BY <1>23 DEF FieldOf, Apply
  <2>2. Apply(w, d) = [waf |-> [w EXCEPT !.AuditLogRelevantStatus = IF ok THEN d.arg.words ELSE <<>>], ok |-> ok]
    BY <2>1, Zenon DEF SecAuditLogRelevantStatus
  <2> HIDE DEF ok
  <2>3. ok
    BY <2>2
  <2>4. Apply(w, d).waf = [w EXCEPT ![FieldOf[d.dir]] = d.arg.words]
    BY <2>1, <2>2, <2>3
  <2>5. FieldOf[d.dir] \notin Flags \cup Actions \cup Counts \cup {"RuleEngine", "AuditEngine"}
    BY <2>1 DEF Flags, Actions, Counts
  <2> QED BY <1>23, <2>3, <2>4, <2>5, TextSet DEF ok
<1>24. CASE d.dir = "SecResponseBodyMimeType"
  <2>1. FieldOf[d.dir] = "ResponseBodyMimeTypes" /\ Apply(w, d) = SecResponseBodyMimeType(w, d.arg)
    BY <1>24 DEF FieldOf, Apply
  <2>2. /\ Apply(w, d).waf = [w EXCEPT ![FieldOf[d.dir]] = d.arg.words]
        /\ FieldOf[d.dir] \notin Flags \cup Actions \cup Counts \cup {"RuleEngine", "AuditEngine"}
        /\ FieldOf[d.dir] # "AuditLogRelevantStatus" /\ d.dir # "SecResponseBodyMimeTypesClear"
    BY <1>24, <2>1 DEF Flags, Actions, Counts, SecResponseBodyMimeType, Done
  <2> QED BY <2>2, TextSet
<1>25. CASE d.dir = "SecResponseBodyMimeTypesClear"
  <2>1. FieldOf[d.dir] = "ResponseBodyMimeTypes" /\ Apply(w, d) = SecResponseBodyMimeTypesClear(w, d.arg)
    BY <1>25 DEF FieldOf, Apply
  <2>2. Apply(w, d).waf = [w EXCEPT ![FieldOf[d.dir]] = <<>>]
    BY <2>1 DEF SecResponseBodyMimeTypesClear, Done
  <2>3. FieldOf[d.dir] \notin Flags \cup Actions \cup Counts \cup {"RuleEngine", "AuditEngine"}
    BY <2>1 DEF Flags, Actions, Counts
  <2>4. Meant(d) = <<>>
    BY <1>25, <2>3, Zenon DEF Meant
  <2>5. Says(FieldOf[d.dir], d.arg)
    BY <2>1, <2>3 DEF Says
  <2> QED BY <2>2, <2>3, <2>4, <2>5, Zenon DEF FieldSet
<1> QED BY <1>1, <1>2, <1>3, <1>4, <1>5, <1>6, <1>7, <1>8, <1>9, <1>10, <1>11, <1>12, <1>13, <1>14, <1>15, <1>16, <1>17, <1>18, <1>19, <1>20, <1>21, <1>22, <1>23, <1>24, <1>25 DEF FieldOf

(* A set of numbers has a least one (the first directive that is not read as *)
(* it says).                                                                 *)
LEMMA LeastNat ==
  ASSUME NEW T, T \subseteq Nat, T # {}
  PROVE  \E x \in T : \A y \in T : x <= y
<1> DEFINE R == {ss \in Nat \X Nat : ss[1] < ss[2]}
<1>1. IsWellFoundedOn(R, Nat)
  BY NatLessThanWellFounded DEF OpToRel
<1>2. \E x \in T : \A y \in T : ~ (<<y, x>> \in R)
  <2> HIDE DEF R
  <2> QED BY <1>1, WFMin, Zenon
<1>3. PICK x \in T : \A y \in T : ~ (<<y, x>> \in R)
  BY <1>2
<1>4. ASSUME NEW y \in T PROVE x <= y
  <2>1. <<y, x>> \notin R
    BY <1>3
  <2>2. y \in Nat /\ x \in Nat
    OBVIOUS
  <2> QED BY <2>1, <2>2
<1> QED BY <1>4

(* What is read after each directive. *)
Reads(f, w, ds) ==
    /\ f[0] = Done(w) /\ FromString(w, ds) = f[Len(ds)]
    /\ \A n \in 1..Len(ds) : f[n] = IF f[n - 1].ok THEN Apply(f[n - 1].waf, ds[n]) ELSE f[n - 1]

(* FromString is its loop (Parser.FromString). *)
LEMMA ReadLoop ==
  ASSUME NEW w, NEW ds \in Seq(Directives)
  PROVE  \E f : Reads(f, w, ds)
<1> DEFINE L == Len(ds)
           e == Done(w)
           Step(v, i) == IF v.ok THEN Apply(v.waf, ds[i]) ELSE v
           Turn(f, i) == IF i = 0 THEN e ELSE Step(f[i - 1], i)
           Loop(f, m) == f = [i \in 0..m |-> Turn(f, i)]
           P(m) == \E f : Loop(f, m)
           T == {m \in 0..L : ~P(m)}
           h == CHOOSE f : Loop(f, L)
<1>1. FromString(w, ds) = h[L]
  BY DEF FromString
<1>2. L \in Nat
  BY LenProperties
<1>3. \A f, i : i \in 1..L => i # 0 /\ Turn(f, i) = Step(f[i - 1], i)
  <2>1. \A i \in 1..L : i # 0
    BY <1>2
  <2> QED BY <2>1, Zenon
<1>4. \A f : Turn(f, 0) = e
  OBVIOUS
<1> HIDE DEF L, e, Step, Turn
<1>5. P(0)
  <2> DEFINE f == [i \in 0..0 |-> e]
  <2>1. \A i \in 0..0 : i = 0
    OBVIOUS
  <2>2. \A i \in 0..0 : f[i] = Turn(f, i)
    BY <1>4, <2>1, Zenon
  <2>3. f = [i \in 0..0 |-> f[i]]
    OBVIOUS
  <2> HIDE DEF f
  <2>4. Loop(f, 0)
    BY <2>2, <2>3
  <2> QED BY <2>4
<1>6. ASSUME NEW m \in 1..L, P(m - 1) PROVE P(m)
  <2>1. PICK g : Loop(g, m - 1)
    BY <1>6
  <2>2. \A i \in 0..(m - 1) : g[i] = Turn(g, i)
    BY <2>1
  <2> DEFINE v == Step(g[m - 1], m)
             f == [i \in 0..m |-> IF i = m THEN v ELSE g[i]]
  <2>3. /\ m \in Nat /\ m \in 0..m /\ m - 1 \in 0..(m - 1)
        /\ \A i \in 0..(m - 1) : i \in 0..m /\ i # m
        /\ \A i \in 0..m : i = m \/ (i \in 0..(m - 1) /\ (i = 0 \/ (i \in 1..L /\ i - 1 \in 0..(m - 1))))
    BY <1>2
  <2> HIDE DEF v
  <2>4. f[m] = v /\ (\A i \in 0..(m - 1) : f[i] = g[i]) /\ f = [i \in 0..m |-> f[i]]
    BY <2>3
  <2> HIDE DEF f
  <2>5. ASSUME NEW i \in 0..m PROVE f[i] = Turn(f, i)
    <3>1. CASE i = m
      BY <1>3, <2>3, <2>4, <3>1, Zenon DEF v
    <3>2. CASE i \in 0..(m - 1) /\ i = 0
      BY <1>4, <2>2, <2>4, <3>2, Zenon
    <3>3. CASE i \in 0..(m - 1) /\ i \in 1..L /\ i - 1 \in 0..(m - 1)
      <4>1. f[i] = g[i] /\ f[i - 1] = g[i - 1] /\ g[i] = Turn(g, i)
        BY <2>2, <2>4, <3>3, Zenon
      <4>2. Turn(g, i) = Step(g[i - 1], i) /\ Turn(f, i) = Step(f[i - 1], i)
        BY <1>3, <3>3, Zenon
      <4> QED BY <4>1, <4>2, Zenon
    <3> QED BY <2>3, <3>1, <3>2, <3>3
  <2>6. Loop(f, m)
    BY <2>4, <2>5
  <2> QED BY <2>6
<1> HIDE DEF P
<1>7. T = {}
  <2> SUFFICES ASSUME T # {} PROVE FALSE
    OBVIOUS
  <2>0. T \subseteq Nat
    BY <1>2
  <2>1. PICK x \in T : \A y \in T : x <= y
    <3> HIDE DEF T
    <3> QED BY <2>0, LeastNat, Zenon
  <2>2. x \in 1..L /\ x - 1 \in 0..L /\ x - 1 \notin T
    BY <1>2, <1>5, <2>1
  <2> QED BY <1>6, <2>1, <2>2
<1>8. Loop(h, L)
  <2>1. P(L)
    BY <1>2, <1>7
  <2> HIDE DEF Loop
  <2> QED BY <2>1, Zenon DEF P
<1> HIDE DEF h
<1>9. DOMAIN h = 0..L /\ \A i \in 0..L : h[i] = Turn(h, i)
  BY <1>8, Zenon
<1>10. 0 \in 0..L /\ \A i \in 1..L : i \in 0..L
  BY <1>2
<1>11. h[0] = Done(w)
  BY <1>4, <1>9, <1>10, Zenon DEF e
<1>12. \A i \in 1..L : h[i] = IF h[i - 1].ok THEN Apply(h[i - 1].waf, ds[i]) ELSE h[i - 1]
  BY <1>3, <1>9, <1>10, Zenon DEF Step
<1>13. Reads(h, w, ds)
  BY <1>1, <1>11, <1>12, Zenon DEF Reads, L
<1> QED BY <1>13

(* A WAF that is being configured: switches are on or off, and the rules     *)
(* that have an id have different ones.                                      *)
WAFOK(w) ==
    /\ DOMAIN w = DOMAIN DefaultWAF
    /\ \A f \in Flags : w[f] \in BOOLEAN
    /\ w.rules \in Seq(Int) /\ DifferentIDs(w.rules)

(* The fields that directives name are fields of the WAF, and not its rules. *)
LEMMA FieldsAre ==
  /\ \A e \in DOMAIN FieldOf : FieldOf[e] \in DOMAIN DefaultWAF
  /\ \A e \in DOMAIN FieldOf : FieldOf[e] \notin {"rules", "ComponentNames", "Datasets"}
  /\ Flags \subseteq DOMAIN DefaultWAF
  /\ {"rules", "ComponentNames", "Datasets"} \subseteq DOMAIN DefaultWAF
  /\ {"rules", "ComponentNames", "Datasets"} \cap Flags = {}
<1>1. \A e \in DOMAIN FieldOf : /\ FieldOf[e] \in DOMAIN DefaultWAF
                                /\ FieldOf[e] \notin {"rules", "ComponentNames", "Datasets"}
  BY DEF FieldOf, DefaultWAF
<1>2. Flags \subseteq DOMAIN DefaultWAF
  BY DEF Flags, DefaultWAF
<1>3. {"rules", "ComponentNames", "Datasets"} \subseteq DOMAIN DefaultWAF
  BY DEF DefaultWAF
<1>4. {"rules", "ComponentNames", "Datasets"} \cap Flags = {}
  BY DEF Flags
<1> QED BY <1>1, <1>2, <1>3, <1>4

(* The WAF that NewWAF starts from. *)
LEMMA DefaultOK == WAFOK(DefaultWAF)
<1>1. \A f \in Flags : DefaultWAF[f] = FALSE
  BY DEF Flags, DefaultWAF
<1>2. DefaultWAF.rules = <<>>
  BY DEF DefaultWAF
<1>3. <<>> \in Seq(Int) /\ DOMAIN <<>> = {}
  OBVIOUS
<1>4. DifferentIDs(<<>>)
  BY <1>3 DEF DifferentIDs
<1> QED BY <1>1, <1>2, <1>3, <1>4, Zenon DEF WAFOK

(* What changes of the WAF when one field is set. *)
LEMMA SetField ==
  ASSUME NEW w, DOMAIN w = DOMAIN DefaultWAF, NEW f \in DOMAIN DefaultWAF, NEW x, NEW v, v = [w EXCEPT ![f] = x]
  PROVE  DOMAIN v = DOMAIN DefaultWAF /\ v[f] = x /\ \A g \in DOMAIN DefaultWAF \ {f} : v[g] = w[g]
OBVIOUS

(* A rule is refused when its id is in use (RuleGroup.Add). *)
LEMMA AddRuleOK ==
  ASSUME NEW w, WAFOK(w), NEW a, a.int \in Int, AddRule(w, a).ok
  PROVE  LET v == AddRule(w, a).waf IN
         WAFOK(v) /\ \A g \in DOMAIN DefaultWAF \ {"rules"} : v[g] = w[g]
<1> DEFINE n == Len(w.rules)
           r == Append(w.rules, a.int)
           v == [w EXCEPT !.rules = r]
<1>1. w.rules \in Seq(Int) /\ DOMAIN w = DOMAIN DefaultWAF
  BY DEF WAFOK
<1>2. n \in Nat /\ DOMAIN w.rules = 1..n
  BY <1>1, LenProperties
<1>3. r \in Seq(Int) /\ DOMAIN r = 1..(n + 1) /\ r[n + 1] = a.int /\ \A k \in 1..n : r[k] = w.rules[k]
  BY <1>1, AppendProperties, LenProperties
<1>4. CASE a.int # 0 /\ \E k \in DOMAIN w.rules : w.rules[k] = a.int
  <2>1. AddRule(w, a) = Refused(w)
    BY <1>4 DEF AddRule
  <2> QED BY <2>1 DEF Refused
<1>5. CASE ~(a.int # 0 /\ \E k \in DOMAIN w.rules : w.rules[k] = a.int)
  <2>1. AddRule(w, a).waf = v
    BY <1>5 DEF AddRule, Done
  <2>2. /\ DOMAIN v = DOMAIN DefaultWAF /\ v.rules = r
        /\ \A g \in DOMAIN DefaultWAF \ {"rules"} : v[g] = w[g]
    <3>1. "rules" \in DOMAIN DefaultWAF
      BY FieldsAre
    <3> HIDE DEF r
    <3> QED BY <1>1, <3>1
  <2>3. \A f \in Flags : v[f] \in BOOLEAN
    <3>1. \A f \in Flags : f \in DOMAIN DefaultWAF \ {"rules"}
      BY FieldsAre
    <3>2. \A f \in Flags : w[f] \in BOOLEAN
      BY DEF WAFOK
    <3> HIDE DEF v
    <3> QED BY <2>2, <3>1, <3>2, Zenon
  <2>4. DifferentIDs(r)
    <3> SUFFICES ASSUME NEW j \in 1..(n + 1), NEW k \in 1..(n + 1), r[j] = r[k], r[j] # 0
                 PROVE  j = k
      BY <1>3, Zenon DEF DifferentIDs
    <3> HIDE DEF n, r
    <3>1. \A i \in 1..(n + 1) : i \in 1..n \/ i = n + 1
      BY <1>2
    <3>2. CASE j \in 1..n /\ k \in 1..n
      BY <1>2, <1>3, <3>2, Zenon DEF WAFOK, DifferentIDs
    <3>3. CASE j \in 1..n /\ k = n + 1
      BY <1>2, <1>3, <1>5, <3>3, Zenon
    <3>4. CASE j = n + 1 /\ k \in 1..n
      BY <1>2, <1>3, <1>5, <3>4, Zenon
    <3> QED BY <3>1, <3>2, <3>3, <3>4
  <2> HIDE DEF v, r
  <2> QED BY <1>3, <2>1, <2>2, <2>3, <2>4 DEF WAFOK
<1> QED BY <1>4, <1>5

(* A field that is not the rules is set, a switch to on or off. *)
LEMMA KeepsOK ==
  ASSUME NEW w, NEW v, NEW f, WAFOK(w), f # "rules", DOMAIN v = DOMAIN DefaultWAF,
         f \in Flags => v[f] \in BOOLEAN, \A g \in DOMAIN DefaultWAF \ {f} : v[g] = w[g]
  PROVE  WAFOK(v)
<1>1. v["rules"] = w["rules"]
  BY FieldsAre
<1>2. \A g \in Flags : v[g] \in BOOLEAN
  <2>1. \A g \in Flags : g \in DOMAIN DefaultWAF /\ w[g] \in BOOLEAN
    BY FieldsAre DEF WAFOK
  <2> QED BY <2>1, Zenon
<1> QED BY <1>1, <1>2 DEF WAFOK

(* The other directives leave the fields that have a directive as they are   *)
(* (directives.go); one that is not known is an error.                       *)
LEMMA ApplyOther ==
  ASSUME NEW w, WAFOK(w), NEW d \in Directives, d.dir \notin DOMAIN FieldOf, Apply(w, d).ok
  PROVE  /\ d.dir \in Others /\ WAFOK(Apply(w, d).waf)
         /\ \A e \in DOMAIN FieldOf : Apply(w, d).waf[FieldOf[e]] = w[FieldOf[e]]
<1> DEFINE Goal == /\ d.dir \in Others /\ WAFOK(Apply(w, d).waf)
                   /\ \A e \in DOMAIN FieldOf : Apply(w, d).waf[FieldOf[e]] = w[FieldOf[e]]
<1>1. d.dir \in Others
  <2>1. Apply(w, d) = Refused(w) \/ d.dir \in Others
    BY Zenon DEF FieldOf, Apply, Others, SecRemoteRules
  <2>2. Refused(w).ok = FALSE
    BY DEF Refused
  <2> QED BY <2>1, <2>2
<1>2. ASSUME NEW f \in {"ComponentNames", "Datasets"}, NEW x, Apply(w, d).waf = [w EXCEPT ![f] = x]
      PROVE  Goal
  <2>1. f \in DOMAIN DefaultWAF /\ f # "rules" /\ f \notin Flags
    BY FieldsAre
  <2>2. /\ DOMAIN Apply(w, d).waf = DOMAIN DefaultWAF
        /\ \A g \in DOMAIN DefaultWAF \ {f} : Apply(w, d).waf[g] = w[g]
    BY <1>2, <2>1, SetField DEF WAFOK
  <2>3. \A e \in DOMAIN FieldOf : FieldOf[e] \in DOMAIN DefaultWAF \ {f}
    BY FieldsAre
  <2>4. WAFOK(Apply(w, d).waf)
    BY <2>1, <2>2, KeepsOK, Zenon
  <2> QED BY <1>1, <2>2, <2>3, <2>4
<1>3. CASE d.dir = "SecComponentSignature"
  <2>1. Apply(w, d) = SecComponentSignature(w, d.arg)
    BY <1>3 DEF Apply
  <2> DEFINE x == Append(w.ComponentNames, d.arg.words)
  <2>2. Apply(w, d) = Done([w EXCEPT !["ComponentNames"] = x])
    BY <2>1, Zenon DEF SecComponentSignature
  <2> HIDE DEF x
  <2>3. Apply(w, d).waf = [w EXCEPT !["ComponentNames"] = x]
    BY <2>2 DEF Done
  <2> QED BY <1>2, <2>3, Zenon
<1>4. CASE d.dir = "SecDataset"
  <2> DEFINE x == [n \in DOMAIN w.Datasets \cup {d.arg.words[1]} |->
                     IF n = d.arg.words[1] THEN Tail(d.arg.words) ELSE w.Datasets[n]]
  <2>1. Apply(w, d) = SecDataset(w, d.arg)
    BY <1>4 DEF Apply
  <2>2. Apply(w, d) = Refused(w) \/ Apply(w, d) = Done([w EXCEPT !["Datasets"] = x])
    BY <2>1, Zenon DEF SecDataset
  <2> HIDE DEF x
  <2>3. Apply(w, d).waf = [w EXCEPT !["Datasets"] = x]
    BY <2>2 DEF Done, Refused
  <2> QED BY <1>2, <2>3, Zenon
<1>5. CASE d.dir = "Unsupported"
  <2>1. Apply(w, d) = Unsupported(w, d.arg)
    BY <1>5 DEF Apply
  <2>2. Apply(w, d).waf = w
    BY <2>1 DEF Unsupported, Done
  <2> QED BY <1>1, <2>2
<1>6. CASE d.dir = "Rule"
  <2>1. Apply(w, d) = AddRule(w, d.arg)
    BY <1>6 DEF Apply
  <2>2. d.arg.int \in Int
    BY DEF Directives
  <2>3. \A e \in DOMAIN FieldOf : FieldOf[e] \in DOMAIN DefaultWAF \ {"rules"}
    BY FieldsAre
  <2> QED BY <1>1, <2>1, <2>2, <2>3, AddRuleOK
<1> QED BY <1>1, <1>3, <1>4, <1>5, <1>6 DEF Others

(* The directive is known, and says something of its field. *)
Accepted(d) ==
    /\ d.dir \in DOMAIN FieldOf \cup Others
    /\ d.dir \in DOMAIN FieldOf =>
          \/ Says(FieldOf[d.dir], d.arg)
          \/ FieldOf[d.dir] \in Lax \cup Actions

(* The first n directives and what they say of field f. *)
NamingTo(ds, f, n) == {k \in 1..n : ds[k].dir \in DOMAIN FieldOf /\ FieldOf[ds[k].dir] = f}

AsWrittenTo(w, ds, f, n) ==
    /\ NamingTo(ds, f, n) = {} => w[f] = DefaultWAF[f]
    /\ \A k \in NamingTo(ds, f, n) : (\A j \in NamingTo(ds, f, n) : j <= k) => w[f] = Meant(ds[k]) \/ NoMode(ds[k])

ReadTo(w, ds, n) ==
    /\ WAFOK(w) /\ \A k \in 1..n : Accepted(ds[k])
    /\ \A e \in DOMAIN FieldOf : AsWrittenTo(w, ds, FieldOf[e], n)

(* One more directive (Parser.evaluate). *)
LEMMA ReadOne ==
  ASSUME NEW ds \in Seq(Directives), NEW n \in 1..Len(ds), NEW w, ReadTo(w, ds, n - 1), Apply(w, ds[n]).ok
  PROVE  ReadTo(Apply(w, ds[n]).waf, ds, n)
<1> DEFINE d == ds[n]
           v == Apply(w, ds[n]).waf
<1>1. d \in Directives
  BY ElementOfSeq
<1>2. /\ n \in Nat /\ n \in 1..n /\ \A k \in 1..n : k = n \/ k \in 1..(n - 1)
      /\ \A k \in 1..(n - 1) : k \in 1..n /\ k # n /\ k <= n /\ ~(n <= k)
  BY LenProperties
<1>3. /\ WAFOK(w) /\ \A k \in 1..(n - 1) : Accepted(ds[k])
      /\ \A e \in DOMAIN FieldOf : AsWrittenTo(w, ds, FieldOf[e], n - 1)
  BY DEF ReadTo
<1>4. ASSUME NEW e \in DOMAIN FieldOf, d.dir \in DOMAIN FieldOf, FieldOf[d.dir] = FieldOf[e],
             v[FieldOf[e]] = Meant(d) \/ NoMode(d)
      PROVE  AsWrittenTo(v, ds, FieldOf[e], n)
  <2> DEFINE N == NamingTo(ds, FieldOf[e], n)
  <2>1. n \in N
    BY <1>2, <1>4 DEF NamingTo
  <2>2. ASSUME NEW k \in N, \A j \in N : j <= k PROVE k = n
    <3>1. n <= k
      BY <2>1, <2>2
    <3>2. k \in 1..n
      BY DEF NamingTo
    <3> QED BY <1>2, <3>1, <3>2, Zenon
  <2> HIDE DEF N, v
  <2>3. /\ N = {} => v[FieldOf[e]] = DefaultWAF[FieldOf[e]]
        /\ \A k \in N : (\A j \in N : j <= k) => v[FieldOf[e]] = Meant(ds[k]) \/ NoMode(ds[k])
    BY <1>4, <2>1, <2>2, Zenon
  <2> QED BY <2>3, Zenon DEF N, AsWrittenTo
<1>5. ASSUME NEW e \in DOMAIN FieldOf, ~(d.dir \in DOMAIN FieldOf /\ FieldOf[d.dir] = FieldOf[e]),
             v[FieldOf[e]] = w[FieldOf[e]]
      PROVE  AsWrittenTo(v, ds, FieldOf[e], n)
  <2>1. NamingTo(ds, FieldOf[e], n) = NamingTo(ds, FieldOf[e], n - 1)
    BY <1>2, <1>5, Zenon DEF NamingTo
  <2>2. AsWrittenTo(w, ds, FieldOf[e], n - 1)
    BY <1>3
  <2> HIDE DEF v
  <2> QED BY <1>5, <2>1, <2>2, Zenon DEF AsWrittenTo
<1>6. ASSUME WAFOK(v), Accepted(d), \A e \in DOMAIN FieldOf : AsWrittenTo(v, ds, FieldOf[e], n)
      PROVE  ReadTo(v, ds, n)
  <2>1. \A k \in 1..n : Accepted(ds[k])
    BY <1>2, <1>3, <1>6, Zenon
  <2> QED BY <1>6, <2>1, Zenon DEF ReadTo
<1>7. CASE d.dir \in DOMAIN FieldOf
  <2> DEFINE f == FieldOf[d.dir]
  <2>1. PICK x : /\ v = [w EXCEPT ![f] = x] /\ (x = Meant(d) \/ NoMode(d))
                 /\ Says(f, d.arg) \/ f \in Lax \cup Actions
                 /\ f \in Flags => x \in BOOLEAN
    <3>1. CASE FieldSet(w, d, f)
      BY <3>1, Zenon DEF FieldSet
    <3>2. CASE ModeSet(w, d)
      <4>1. f = "UploadFileMode" /\ f \notin Flags
        BY <3>2 DEF ModeSet, NoMode, FieldOf, Flags
      <4> QED BY <3>2, <4>1, Zenon DEF ModeSet
    <3> QED BY <1>1, <1>7, <3>1, <3>2, ApplyField, Zenon
  <2>2. f \in DOMAIN DefaultWAF /\ f # "rules"
    BY <1>7, FieldsAre
  <2>3. WAFOK(v) /\ v[f] = x /\ \A g \in DOMAIN DefaultWAF \ {f} : v[g] = w[g]
    <3>1. v = [w EXCEPT ![f] = x] /\ DOMAIN w = DOMAIN DefaultWAF
      BY <1>3, <2>1 DEF WAFOK
    <3>2. f \in Flags => x \in BOOLEAN
      BY <2>1
    <3> HIDE DEF f, v
    <3>3. DOMAIN v = DOMAIN DefaultWAF /\ v[f] = x /\ \A g \in DOMAIN DefaultWAF \ {f} : v[g] = w[g]
      BY <2>2, <3>1, SetField
    <3>4. f \in Flags => v[f] \in BOOLEAN
      BY <3>2, <3>3, Zenon
    <3>5. WAFOK(v)
      BY <1>3, <2>2, <3>3, <3>4, KeepsOK, Zenon
    <3> QED BY <3>3, <3>5, Zenon
  <2>4. Accepted(d)
    BY <1>7, <2>1, Zenon DEF Accepted
  <2>5. ASSUME NEW e \in DOMAIN FieldOf PROVE AsWrittenTo(v, ds, FieldOf[e], n)
    <3>1. CASE FieldOf[e] = f
      BY <1>4, <1>7, <2>1, <2>3, <3>1, Zenon
    <3>2. CASE FieldOf[e] # f
      <4>1. FieldOf[e] \in DOMAIN DefaultWAF \ {f}
        BY <3>2, FieldsAre
      <4> QED BY <1>5, <2>3, <3>2, <4>1, Zenon
    <3> QED BY <3>1, <3>2
  <2> QED BY <1>6, <2>3, <2>4, <2>5, Zenon
<1>8. CASE d.dir \notin DOMAIN FieldOf
  <2>1. /\ d.dir \in Others /\ WAFOK(v)
        /\ \A e \in DOMAIN FieldOf : v[FieldOf[e]] = w[FieldOf[e]]
    BY <1>1, <1>3, <1>8, ApplyOther, Zenon
  <2>2. Accepted(d)
    BY <1>8, <2>1 DEF Accepted
  <2>3. ASSUME NEW e \in DOMAIN FieldOf PROVE AsWrittenTo(v, ds, FieldOf[e], n)
    BY <1>5, <1>8, <2>1, Zenon
  <2> QED BY <1>6, <2>1, <2>2, <2>3, Zenon
<1> QED BY <1>7, <1>8

(* What is read without an error is what the directives say (Parser.         *)
(* FromString).                                                              *)
LEMMA ReadAsWritten ==
  ASSUME NEW ds \in Seq(Directives), FromString(DefaultWAF, ds).ok
  PROVE  LET w == FromString(DefaultWAF, ds).waf IN
         /\ WAFOK(w) /\ \A k \in DOMAIN ds : Accepted(ds[k])
         /\ \A e \in DOMAIN FieldOf : AsWritten(w, ds, FieldOf[e])
<1> DEFINE L == Len(ds)
<1>1. L \in Nat /\ DOMAIN ds = 1..L
  BY LenProperties
<1>2. PICK f : Reads(f, DefaultWAF, ds)
  BY ReadLoop
<1>3. /\ f[0] = Done(DefaultWAF) /\ FromString(DefaultWAF, ds) = f[L]
      /\ \A n \in 1..L : f[n] = IF f[n - 1].ok THEN Apply(f[n - 1].waf, ds[n]) ELSE f[n - 1]
  BY <1>2 DEF Reads
<1> DEFINE Q(n) == f[n].ok => ReadTo(f[n].waf, ds, n)
           T == {n \in 0..L : ~Q(n)}
<1>4. Q(0)
  <2>1. f[0].waf = DefaultWAF
    BY <1>3 DEF Done
  <2>2. \A g : NamingTo(ds, g, 0) = {}
    BY DEF NamingTo
  <2>3. \A e \in DOMAIN FieldOf : AsWrittenTo(DefaultWAF, ds, FieldOf[e], 0)
    BY <2>2, Zenon DEF AsWrittenTo
  <2>4. \A k \in 1..0 : Accepted(ds[k])
    OBVIOUS
  <2>5. ReadTo(DefaultWAF, ds, 0)
    BY <2>3, <2>4, DefaultOK, Zenon DEF ReadTo
  <2> QED BY <2>1, <2>5
<1>5. ASSUME NEW n \in 1..L, Q(n - 1) PROVE Q(n)
  <2> SUFFICES ASSUME f[n].ok PROVE ReadTo(f[n].waf, ds, n)
    OBVIOUS
  <2>1. f[n - 1].ok /\ f[n] = Apply(f[n - 1].waf, ds[n])
    BY <1>3
  <2>2. ReadTo(f[n - 1].waf, ds, n - 1) /\ Apply(f[n - 1].waf, ds[n]).ok
    BY <1>5, <2>1
  <2> QED BY <2>1, <2>2, ReadOne
<1> HIDE DEF Q, L
<1>6. T = {}
  <2> SUFFICES ASSUME T # {} PROVE FALSE
    OBVIOUS
  <2>0. T \subseteq Nat
    BY <1>1
  <2>1. PICK x \in T : \A y \in T : x <= y
    <3> HIDE DEF T
    <3> QED BY <2>0, LeastNat, Zenon
  <2>2. x \in 1..L /\ x - 1 \in 0..L /\ x - 1 \notin T
    BY <1>1, <1>4, <2>1
  <2> QED BY <1>5, <2>1, <2>2
<1>7. Q(L)
  BY <1>1, <1>6
<1> DEFINE w == f[L].waf
<1>8. ReadTo(w, ds, L)
  BY <1>3, <1>7 DEF Q
<1> HIDE DEF w
<1>9. ASSUME NEW e \in DOMAIN FieldOf PROVE AsWritten(w, ds, FieldOf[e])
  <2>1. Naming(ds, FieldOf[e]) = NamingTo(ds, FieldOf[e], L)
    BY <1>1 DEF Naming, NamingTo
  <2>2. AsWrittenTo(w, ds, FieldOf[e], L)
    BY <1>8 DEF ReadTo
  <2> QED BY <2>1, <2>2, Zenon DEF AsWritten, AsWrittenTo, IsLast
<1>10. WAFOK(w) /\ \A k \in DOMAIN ds : Accepted(ds[k])
  BY <1>1, <1>8 DEF ReadTo
<1>11. FromString(DefaultWAF, ds).waf = w
  BY <1>3 DEF w
<1> QED BY <1>9, <1>10, <1>11
-----------------------------------------------------------------------------
(* The objects of the program. *)
WAFConfigs     == [rules : Seq(Directives), auditLog : Nat, requestBody : Nat, responseBody : Nat,
                   contentInjection : BOOLEAN, errorCallback : BOOLEAN]
AuditLogs      == [relevantOnly : BOOLEAN, parts : {<<>>, <<"AZ">>}, logger : BOOLEAN]
RequestBodies  == [limit : Int, inMemoryLimit : Int]
ResponseBodies == [limit : Int, mimeTypes : BOOLEAN]

ConfigTypeOK ==
    /\ program \in DOMAIN Programs
    /\ wafConfigs \in Seq(WAFConfigs)
    /\ auditLogConfigs \in Seq(AuditLogs)
    /\ requestBodyConfigs \in Seq(RequestBodies)
    /\ responseBodyConfigs \in Seq(ResponseBodies)

(* What a WAFConfig points to exists. *)
PointersInv ==
    \A i \in DOMAIN wafConfigs :
        /\ wafConfigs[i].auditLog \in 0..Len(auditLogConfigs)
        /\ wafConfigs[i].requestBody \in 0..Len(requestBodyConfigs)
        /\ wafConfigs[i].responseBody \in 0..Len(responseBodyConfigs)

(* What was built is a configuration that exists, as it was written. *)
BuiltInv == (waf.built => waf.config \in DOMAIN wafConfigs) /\ BuiltAsWritten

(* The inductive invariant. *)
ConfigInv == ConfigTypeOK /\ PointersInv /\ BuiltInv

(* The fields of the WAF that NewWAF returns (waf.go). *)
LEMMA ConfiguredFields ==
  ASSUME ConfigTypeOK, NEW c, WAFOK(ReadAll(c).waf)
  PROVE  LET v == Configured(c)
             w == ReadAll(c).waf
         IN  /\ \A f \in DOMAIN DefaultWAF \ {"AuditEngine", "AuditLogParts", "AuditLogWriter", "ContentInjection",
                     "RequestBodyAccess", "RequestBodyLimit", "RequestBodyInMemoryLimit",
                     "ResponseBodyAccess", "ResponseBodyLimit", "ErrorLogCb"} : v[f] = w[f]
             /\ c.auditLog = 0 => v.AuditEngine = w.AuditEngine /\ v.AuditLogParts = w.AuditLogParts
             /\ v.ContentInjection = (w.ContentInjection \/ c.contentInjection)
             /\ v.RequestBodyAccess = (w.RequestBodyAccess \/ c.requestBody # 0)
             /\ v.ResponseBodyAccess = (w.ResponseBodyAccess \/ c.responseBody # 0)
             /\ v.RequestBodyLimit = IF c.requestBody = 0 THEN w.RequestBodyLimit
                                     ELSE requestBodyConfigs[c.requestBody].limit
             /\ v.RequestBodyInMemoryLimit = IF c.requestBody = 0 THEN w.RequestBodyInMemoryLimit
                                             ELSE requestBodyConfigs[c.requestBody].inMemoryLimit
             /\ v.ResponseBodyLimit = IF c.responseBody = 0 THEN w.ResponseBodyLimit
                                      ELSE responseBodyConfigs[c.responseBody].limit
<1> DEFINE v == Configured(c)
           w == ReadAll(c).waf
           a == auditLogConfigs[c.auditLog]
           req == requestBodyConfigs[c.requestBody]
           e1 == IF c.auditLog = 0 THEN w.AuditEngine ELSE IF a.relevantOnly THEN "relevantonly" ELSE "on"
           e2 == IF c.auditLog = 0 THEN w.AuditLogParts ELSE a.parts
           e3 == IF c.auditLog # 0 /\ a.logger THEN "configured" ELSE w.AuditLogWriter
           e4 == w.ContentInjection \/ c.contentInjection
           e5 == w.RequestBodyAccess \/ c.requestBody # 0
           e6 == IF c.requestBody = 0 THEN w.RequestBodyLimit ELSE req.limit
           e7 == IF c.requestBody = 0 THEN w.RequestBodyInMemoryLimit ELSE req.inMemoryLimit
           e8 == w.ResponseBodyAccess \/ c.responseBody # 0
           e9 == IF c.responseBody = 0 THEN w.ResponseBodyLimit ELSE responseBodyConfigs[c.responseBody].limit
           e10 == c.errorCallback
           Set == {"AuditEngine", "AuditLogParts", "AuditLogWriter", "ContentInjection",
                   "RequestBodyAccess", "RequestBodyLimit", "RequestBodyInMemoryLimit",
                   "ResponseBodyAccess", "ResponseBodyLimit", "ErrorLogCb"}
<1>1. v = [w EXCEPT !.AuditEngine = e1, !.AuditLogParts = e2, !.AuditLogWriter = e3, !.ContentInjection = e4,
                    !.RequestBodyAccess = e5, !.RequestBodyLimit = e6, !.RequestBodyInMemoryLimit = e7,
                    !.ResponseBodyAccess = e8, !.ResponseBodyLimit = e9, !.ErrorLogCb = e10]
  BY Zenon DEF Configured
<1>2. DOMAIN w = DOMAIN DefaultWAF
  BY DEF WAFOK
<1>3. Set \subseteq DOMAIN DefaultWAF
  BY DEF DefaultWAF
<1> HIDE DEF v, w, a, req, e1, e2, e3, e4, e5, e6, e7, e8, e9, e10
<1>4. /\ \A f \in DOMAIN DefaultWAF \ Set : v[f] = w[f]
      /\ v.AuditEngine = e1 /\ v.AuditLogParts = e2 /\ v.ContentInjection = e4 /\ v.RequestBodyAccess = e5
      /\ v.RequestBodyLimit = e6 /\ v.RequestBodyInMemoryLimit = e7
      /\ v.ResponseBodyAccess = e8 /\ v.ResponseBodyLimit = e9
  BY <1>1, <1>2, <1>3, Zenon
<1>5. c.auditLog = 0 => v.AuditEngine = w.AuditEngine /\ v.AuditLogParts = w.AuditLogParts
  BY <1>4 DEF e1, e2
<1>6. /\ v.ContentInjection = (w.ContentInjection \/ c.contentInjection)
      /\ v.RequestBodyAccess = (w.RequestBodyAccess \/ c.requestBody # 0)
      /\ v.ResponseBodyAccess = (w.ResponseBodyAccess \/ c.responseBody # 0)
  BY <1>4, Zenon DEF e4, e5, e8
<1>7. /\ v.RequestBodyLimit = IF c.requestBody = 0 THEN w.RequestBodyLimit
                              ELSE requestBodyConfigs[c.requestBody].limit
      /\ v.RequestBodyInMemoryLimit = IF c.requestBody = 0 THEN w.RequestBodyInMemoryLimit
                                      ELSE requestBodyConfigs[c.requestBody].inMemoryLimit
      /\ v.ResponseBodyLimit = IF c.responseBody = 0 THEN w.ResponseBodyLimit
                               ELSE responseBodyConfigs[c.responseBody].limit
  BY <1>4, Zenon DEF e6, e7, e9, req
<1>8. \A f \in DOMAIN DefaultWAF \ Set : v[f] = w[f]
  BY <1>4
<1> QED BY <1>5, <1>6, <1>7, <1>8, Zenon DEF v, w

(* The fields of the WAF that the config c does not give are as written. *)
LEMMA NotGiven ==
  ASSUME ConfigTypeOK, NEW c \in WAFConfigs, WAFOK(ReadAll(c).waf),
         NEW e \in DOMAIN FieldOf, FieldOf[e] \notin Given(c)
  PROVE  Configured(c)[FieldOf[e]] = ReadAll(c).waf[FieldOf[e]]
<1> DEFINE v == Configured(c)
           w == ReadAll(c).waf
           f == FieldOf[e]
<1>1. f \in DOMAIN DefaultWAF /\ f \notin {"AuditLogWriter", "ErrorLogCb"}
  <2>1. f \notin {"AuditLogWriter", "ErrorLogCb"}
    BY DEF FieldOf
  <2> QED BY <2>1, FieldsAre
<1>2. c.contentInjection \in BOOLEAN
  BY DEF WAFConfigs
<1>3. \A g \in Flags : w[g] \in BOOLEAN
  BY DEF WAFOK
<1>4. /\ w.ContentInjection \in BOOLEAN /\ w.RequestBodyAccess \in BOOLEAN /\ w.ResponseBodyAccess \in BOOLEAN
  BY <1>3 DEF Flags
<1> HIDE DEF f
<1>5. /\ f \in {"AuditEngine", "AuditLogParts"} => c.auditLog = 0
      /\ f = "ContentInjection" => ~c.contentInjection
      /\ f \in {"RequestBodyAccess", "RequestBodyLimit", "RequestBodyInMemoryLimit"} => c.requestBody = 0
      /\ f \in {"ResponseBodyAccess", "ResponseBodyLimit"} => c.responseBody = 0
  BY DEF Given, f
<1>6. CASE f \in {"AuditEngine", "AuditLogParts"}
  BY <1>5, <1>6, ConfiguredFields DEF f
<1>7. CASE f = "ContentInjection"
  <2>1. v.ContentInjection = (w.ContentInjection \/ c.contentInjection)
    BY ConfiguredFields, Zenon
  <2>2. v.ContentInjection = w.ContentInjection
    BY <1>2, <1>4, <1>5, <1>7, <2>1, Zenon
  <2> QED BY <1>7, <2>2 DEF f
<1>8. CASE f = "RequestBodyAccess"
  <2>1. v.RequestBodyAccess = (w.RequestBodyAccess \/ c.requestBody # 0)
    BY ConfiguredFields, Zenon
  <2> DEFINE b == w.RequestBodyAccess
             given == c.requestBody # 0
  <2>2. ~given /\ b \in BOOLEAN
    BY <1>4, <1>5, <1>8
  <2>3. v.RequestBodyAccess = w.RequestBodyAccess
    <3>1. v.RequestBodyAccess = (b \/ given)
      BY <2>1, Zenon
    <3> HIDE DEF b, given
    <3>2. (b \/ given) = b
      BY <2>2
    <3> QED BY <3>1, <3>2, Zenon DEF b
  <2> QED BY <1>8, <2>3 DEF f
<1>9. CASE f = "ResponseBodyAccess"
  <2>1. v.ResponseBodyAccess = (w.ResponseBodyAccess \/ c.responseBody # 0)
    BY ConfiguredFields, Zenon
  <2> DEFINE b == w.ResponseBodyAccess
             given == c.responseBody # 0
  <2>2. ~given /\ b \in BOOLEAN
    BY <1>4, <1>5, <1>9
  <2>3. v.ResponseBodyAccess = w.ResponseBodyAccess
    <3>1. v.ResponseBodyAccess = (b \/ given)
      BY <2>1, Zenon
    <3> HIDE DEF b, given
    <3>2. (b \/ given) = b
      BY <2>2
    <3> QED BY <3>1, <3>2, Zenon DEF b
  <2> QED BY <1>9, <2>3 DEF f
<1>10. CASE f \in {"RequestBodyLimit", "RequestBodyInMemoryLimit", "ResponseBodyLimit"}
  <2> DEFINE r == requestBodyConfigs[c.requestBody]
             s == responseBodyConfigs[c.responseBody]
  <2>1. /\ v.RequestBodyLimit = (IF c.requestBody = 0 THEN w.RequestBodyLimit ELSE r.limit)
        /\ v.RequestBodyInMemoryLimit = (IF c.requestBody = 0 THEN w.RequestBodyInMemoryLimit ELSE r.inMemoryLimit)
        /\ v.ResponseBodyLimit = (IF c.responseBody = 0 THEN w.ResponseBodyLimit ELSE s.limit)
    BY ConfiguredFields, Zenon
  <2> HIDE DEF v, w, r, s
  <2>2. v[f] = w[f]
    BY <1>5, <1>10, <2>1
  <2> QED BY <2>2 DEF v, w, f
<1>11. CASE f \notin {"AuditEngine", "AuditLogParts", "ContentInjection", "RequestBodyAccess", "RequestBodyLimit",
                      "RequestBodyInMemoryLimit", "ResponseBodyAccess", "ResponseBodyLimit"}
  <2> DEFINE Set == {"AuditEngine", "AuditLogParts", "AuditLogWriter", "ContentInjection",
                     "RequestBodyAccess", "RequestBodyLimit", "RequestBodyInMemoryLimit",
                     "ResponseBodyAccess", "ResponseBodyLimit", "ErrorLogCb"}
  <2>1. f \in DOMAIN DefaultWAF \ Set
    BY <1>1, <1>11
  <2>2. \A g \in DOMAIN DefaultWAF \ Set : v[g] = w[g]
    BY ConfiguredFields, Zenon
  <2> QED BY <2>1, <2>2, Zenon DEF f
<1> QED BY <1>6, <1>7, <1>8, <1>9, <1>10, <1>11

(* NewWAF returns a WAF as its config and the directives say (waf.go). *)
LEMMA NewWAFBuilt ==
  ASSUME ConfigInv, NEW i \in DOMAIN wafConfigs, NewWAF(i)
  PROVE  BuiltInv'
<1> DEFINE c == wafConfigs[i]
           v == Configured(c)
           w == ReadAll(c).waf
<1>1. wafConfigs' = wafConfigs /\ responseBodyConfigs' = responseBodyConfigs
  BY DEF NewWAF, objects
<1>2. CASE Rejected(c)
  <2>1. ~waf'.built
    BY <1>2 DEF NewWAF
  <2> QED BY <2>1 DEF BuiltInv, BuiltAsWritten
<1>3. CASE ~Rejected(c)
  <2>1. waf' = [built |-> TRUE, config |-> i, is |-> v]
    BY <1>3, Zenon DEF NewWAF
  <2>2. waf'.config = i /\ waf'.is = v /\ wafConfigs'[waf'.config] = c
    <3> HIDE DEF v
    <3> QED BY <1>1, <2>1
  <2>3. c \in WAFConfigs /\ c.rules \in Seq(Directives)
    <3>1. c \in WAFConfigs
      BY LenProperties, ElementOfSeq DEF ConfigInv, ConfigTypeOK
    <3> QED BY <3>1 DEF WAFConfigs
  <2>4. FromString(DefaultWAF, c.rules).ok /\ w = FromString(DefaultWAF, c.rules).waf
    BY <1>3 DEF Rejected, ReadAll
  <2>5. /\ WAFOK(w) /\ \A k \in DOMAIN c.rules : Accepted(c.rules[k])
        /\ \A e \in DOMAIN FieldOf : AsWritten(w, c.rules, FieldOf[e])
    <3> HIDE DEF c
    <3> QED BY <2>3, <2>4, ReadAsWritten, Zenon
  <2>6. ConfigTypeOK
    BY DEF ConfigInv
  <2>7. ASSUME NEW e \in DOMAIN FieldOf, FieldOf[e] \notin Given(c)
        PROVE  AsWritten(v, c.rules, FieldOf[e])
    <3>1. v[FieldOf[e]] = w[FieldOf[e]]
      BY <2>3, <2>5, <2>6, <2>7, NotGiven, Zenon
    <3>2. AsWritten(w, c.rules, FieldOf[e])
      BY <2>5
    <3> HIDE DEF v, w, c
    <3> QED BY <3>1, <3>2, Zenon DEF AsWritten
  <2>8. DifferentIDs(v.rules)
    <3>1. v["rules"] = w["rules"]
      <4>1. "rules" \in DOMAIN DefaultWAF
        BY FieldsAre
      <4> QED BY <2>5, <2>6, <4>1, ConfiguredFields
    <3>2. v.rules = w.rules
      BY <3>1
    <3> QED BY <2>5, <3>2, Zenon DEF WAFOK
  <2>9. c.requestBody # 0 => /\ v.RequestBodyAccess /\ v.RequestBodyLimit > 0
                             /\ v.RequestBodyInMemoryLimit <= v.RequestBodyLimit
    <3> SUFFICES ASSUME c.requestBody # 0
                 PROVE  /\ v.RequestBodyAccess /\ v.RequestBodyLimit > 0
                        /\ v.RequestBodyInMemoryLimit <= v.RequestBodyLimit
      OBVIOUS
    <3> DEFINE r == requestBodyConfigs[c.requestBody]
    <3>1. v.RequestBodyAccess = (w.RequestBodyAccess \/ c.requestBody # 0)
      BY <2>5, <2>6, ConfiguredFields, Zenon
    <3>2. v.RequestBodyLimit = r.limit /\ v.RequestBodyInMemoryLimit = r.inMemoryLimit
      BY <2>5, <2>6, ConfiguredFields, Zenon
    <3>3. r \in RequestBodies
      <4>1. c.requestBody \in 1..Len(requestBodyConfigs)
        BY <2>6 DEF ConfigInv, PointersInv, ConfigTypeOK
      <4> QED BY <2>6, <4>1, ElementOfSeq DEF ConfigTypeOK
    <3>4. ~(r.limit <= 0 \/ r.limit < r.inMemoryLimit)
      BY <1>3 DEF Rejected, LimitsRefused
    <3>5. v.RequestBodyAccess
      BY <3>1, Zenon
    <3> HIDE DEF v, r
    <3> QED BY <3>2, <3>3, <3>4, <3>5 DEF RequestBodies
  <2>10. c.responseBody # 0 => v.ResponseBodyAccess /\ v.ResponseBodyLimit > 0
    <3> SUFFICES ASSUME c.responseBody # 0 PROVE v.ResponseBodyAccess /\ v.ResponseBodyLimit > 0
      OBVIOUS
    <3> DEFINE r == responseBodyConfigs[c.responseBody]
    <3>1. v.ResponseBodyAccess = (w.ResponseBodyAccess \/ c.responseBody # 0)
      BY <2>5, <2>6, ConfiguredFields, Zenon
    <3>2. v.ResponseBodyLimit = r.limit
      BY <2>5, <2>6, ConfiguredFields, Zenon
    <3>3. r \in ResponseBodies
      <4>1. c.responseBody \in 1..Len(responseBodyConfigs)
        BY <2>6 DEF ConfigInv, PointersInv, ConfigTypeOK
      <4> QED BY <2>6, <4>1, ElementOfSeq DEF ConfigTypeOK
    <3>4. ~(r.limit <= 0)
      BY <1>3 DEF Rejected, LimitsRefused
    <3>5. v.ResponseBodyAccess
      BY <3>1, Zenon
    <3> HIDE DEF v, r
    <3> QED BY <3>2, <3>3, <3>4, <3>5 DEF ResponseBodies
  <2> HIDE DEF v, w, c
  <2>11. BuiltLimitsHold'
    BY <2>2, <2>9, <2>10, Zenon DEF BuiltLimitsHold
  <2>12. Given(wafConfigs[waf.config])' = Given(c)
    BY <1>1, <2>2, Zenon DEF Given
  <2>13. BuiltAsWritten'
    BY <2>2, <2>5, <2>7, <2>8, <2>11, <2>12, Zenon DEF BuiltAsWritten, Accepted
  <2> QED BY <1>1, <2>2, <2>13 DEF BuiltInv
<1> QED BY <1>2, <1>3

(* Objects are added and those that exist stay. *)
Grows(old, new) == DOMAIN old \subseteq DOMAIN new /\ \A k \in DOMAIN old : new[k] = old[k]

AllGrow ==
    /\ Grows(wafConfigs, wafConfigs') /\ Grows(auditLogConfigs, auditLogConfigs')
    /\ Grows(requestBodyConfigs, requestBodyConfigs') /\ Grows(responseBodyConfigs, responseBodyConfigs')

(* A copy is appended (the clone methods of config.go). *)
LEMMA Appended ==
  ASSUME NEW S, NEW s \in Seq(S), NEW x \in S
  PROVE  /\ Append(s, x) \in Seq(S) /\ Grows(s, Append(s, x)) /\ Len(Append(s, x)) = Len(s) + 1
         /\ \A k \in DOMAIN Append(s, x) : k \in DOMAIN s \/ Append(s, x)[k] = x
<1> DEFINE n == Len(s)
           t == Append(s, x)
<1>1. n \in Nat /\ DOMAIN s = 1..n
  BY LenProperties
<1>2. t \in Seq(S) /\ Len(t) = n + 1 /\ DOMAIN t = 1..(n + 1) /\ t[n + 1] = x /\ \A k \in 1..n : t[k] = s[k]
  BY AppendProperties, LenProperties
<1> HIDE DEF n, t
<1>3. \A k \in 1..n : k \in 1..(n + 1)
  BY <1>1
<1>4. \A k \in 1..(n + 1) : k \in 1..n \/ k = n + 1
  BY <1>1
<1>5. Grows(s, t)
  BY <1>1, <1>2, <1>3 DEF Grows
<1>6. \A k \in DOMAIN t : k \in DOMAIN s \/ t[k] = x
  BY <1>1, <1>2, <1>4
<1> QED BY <1>2, <1>5, <1>6 DEF t, n

(* What the last NewWAF returned stays right while its config does. *)
LEMMA BuiltStays ==
  ASSUME ConfigInv, UNCHANGED waf, Grows(wafConfigs, wafConfigs'),
         Grows(responseBodyConfigs, responseBodyConfigs')
  PROVE  BuiltInv'
<1>1. waf.built => waf.config \in DOMAIN wafConfigs
  BY DEF ConfigInv, BuiltInv
<1>2. waf.built => waf.config \in DOMAIN wafConfigs' /\ wafConfigs'[waf.config] = wafConfigs[waf.config]
  BY <1>1 DEF Grows
<1>3. BuiltAsWritten
  BY DEF ConfigInv, BuiltInv
<1> DEFINE c == wafConfigs[waf.config]
<1>4. ASSUME waf.built PROVE Given(c)' = Given(c)
  <2>1. c.responseBody # 0 => c.responseBody \in DOMAIN responseBodyConfigs
    <3>1. c.responseBody \in 0..Len(responseBodyConfigs)
      BY <1>1, <1>4 DEF ConfigInv, PointersInv
    <3>2. responseBodyConfigs \in Seq(ResponseBodies)
      BY DEF ConfigInv, ConfigTypeOK
    <3> QED BY <3>1, <3>2, LenProperties
  <2>2. c.responseBody # 0 => responseBodyConfigs'[c.responseBody] = responseBodyConfigs[c.responseBody]
    BY <2>1 DEF Grows
  <2>3. c' = c
    BY <1>2, <1>4
  <2> HIDE DEF c
  <2> QED BY <2>2, <2>3, Zenon DEF Given
<1>5. BuiltAsWritten'
  BY <1>2, <1>3, <1>4, Zenon DEF BuiltAsWritten, BuiltLimitsHold
<1> QED BY <1>2, <1>5 DEF BuiltInv

(* A With method of a WAFConfig (config.go). *)
LEMMA WithStep ==
  ASSUME ConfigInv, NEW c, NEW object \in WAFConfigs,
         object.auditLog \in 0..Len(auditLogConfigs), object.requestBody \in 0..Len(requestBodyConfigs),
         object.responseBody \in 0..Len(responseBodyConfigs), With(c, object)
  PROVE  ConfigInv' /\ AllGrow
<1>1. wafConfigs \in Seq(WAFConfigs) /\ ConfigTypeOK /\ PointersInv /\ BuiltInv
  BY DEF ConfigInv, ConfigTypeOK
<1>2. wafConfigs' = Append(wafConfigs, object)
  BY DEF With, Derive
<1>3. UNCHANGED <<program, auditLogConfigs, requestBodyConfigs, responseBodyConfigs, waf>>
  BY DEF With
<1>4. /\ wafConfigs' \in Seq(WAFConfigs) /\ Grows(wafConfigs, wafConfigs')
      /\ \A k \in DOMAIN wafConfigs' : k \in DOMAIN wafConfigs \/ wafConfigs'[k] = object
  BY <1>1, <1>2, Appended
<1>5. AllGrow
  BY <1>3, <1>4 DEF AllGrow, Grows
<1>6. ConfigTypeOK'
  BY <1>1, <1>3, <1>4 DEF ConfigTypeOK
<1>7. PointersInv'
  <2> SUFFICES ASSUME NEW k \in DOMAIN wafConfigs'
               PROVE  /\ wafConfigs'[k].auditLog \in 0..Len(auditLogConfigs)
                      /\ wafConfigs'[k].requestBody \in 0..Len(requestBodyConfigs)
                      /\ wafConfigs'[k].responseBody \in 0..Len(responseBodyConfigs)
    BY <1>3 DEF PointersInv
  <2>1. CASE k \in DOMAIN wafConfigs
    BY <1>1, <1>4, <2>1 DEF PointersInv, Grows
  <2>2. CASE wafConfigs'[k] = object
    BY <2>2
  <2> QED BY <1>4, <2>1, <2>2
<1>8. BuiltInv'
  BY <1>3, <1>4, <1>5, BuiltStays DEF AllGrow
<1> QED BY <1>5, <1>6, <1>7, <1>8 DEF ConfigInv

(* Objects other than WAFConfigs are added or changed. *)
LEMMA OthersStep ==
  ASSUME ConfigInv, ConfigTypeOK', UNCHANGED <<wafConfigs, waf>>,
         Len(auditLogConfigs) <= Len(auditLogConfigs'), Len(requestBodyConfigs) <= Len(requestBodyConfigs'),
         Len(responseBodyConfigs) <= Len(responseBodyConfigs'), Grows(responseBodyConfigs, responseBodyConfigs')
  PROVE  ConfigInv'
<1>1. /\ Len(auditLogConfigs) \in Nat /\ Len(auditLogConfigs') \in Nat
      /\ Len(requestBodyConfigs) \in Nat /\ Len(requestBodyConfigs') \in Nat
      /\ Len(responseBodyConfigs) \in Nat /\ Len(responseBodyConfigs') \in Nat
  BY LenProperties DEF ConfigInv, ConfigTypeOK
<1>2. /\ \A p \in 0..Len(auditLogConfigs) : p \in 0..Len(auditLogConfigs')
      /\ \A p \in 0..Len(requestBodyConfigs) : p \in 0..Len(requestBodyConfigs')
      /\ \A p \in 0..Len(responseBodyConfigs) : p \in 0..Len(responseBodyConfigs')
  BY <1>1
<1>3. PointersInv'
  BY <1>2, Zenon DEF ConfigInv, PointersInv
<1>4. Grows(wafConfigs, wafConfigs')
  BY DEF Grows
<1>5. BuiltInv'
  BY <1>4, BuiltStays DEF ConfigInv
<1> QED BY <1>3, <1>5 DEF ConfigInv

(* The methods of the two body configurations (config.go). *)
LEMMA RequestBodyStep ==
  ASSUME ConfigInv, NEW r, NEW object \in RequestBodies, RequestBody(r, object)
  PROVE  ConfigInv' /\ AllGrow
<1>1. requestBodyConfigs \in Seq(RequestBodies) /\ ConfigTypeOK
  BY DEF ConfigInv, ConfigTypeOK
<1>2. requestBodyConfigs' = Append(requestBodyConfigs, object)
  BY DEF RequestBody, Derive
<1>3. UNCHANGED <<program, wafConfigs, auditLogConfigs, responseBodyConfigs, waf>>
  BY DEF RequestBody
<1>4. /\ requestBodyConfigs' \in Seq(RequestBodies) /\ Grows(requestBodyConfigs, requestBodyConfigs')
      /\ Len(requestBodyConfigs') = Len(requestBodyConfigs) + 1
  BY <1>1, <1>2, Appended
<1>5. AllGrow
  BY <1>3, <1>4 DEF AllGrow, Grows
<1>6. ConfigTypeOK'
  BY <1>1, <1>3, <1>4 DEF ConfigTypeOK
<1>7. /\ Len(auditLogConfigs) \in Nat /\ Len(requestBodyConfigs) \in Nat /\ Len(responseBodyConfigs) \in Nat
  BY <1>1, LenProperties DEF ConfigTypeOK
<1>8. /\ Len(auditLogConfigs) <= Len(auditLogConfigs') /\ Len(requestBodyConfigs) <= Len(requestBodyConfigs')
      /\ Len(responseBodyConfigs) <= Len(responseBodyConfigs')
  BY <1>3, <1>4, <1>7
<1> QED BY <1>3, <1>5, <1>6, <1>8, OthersStep DEF AllGrow

(* So for responses. *)
LEMMA ResponseBodyStep ==
  ASSUME ConfigInv, NEW r, NEW object \in ResponseBodies, ResponseBody(r, object)
  PROVE  ConfigInv' /\ AllGrow
<1>1. responseBodyConfigs \in Seq(ResponseBodies) /\ ConfigTypeOK
  BY DEF ConfigInv, ConfigTypeOK
<1>2. responseBodyConfigs' = Append(responseBodyConfigs, object)
  BY DEF ResponseBody, Derive
<1>3. UNCHANGED <<program, wafConfigs, auditLogConfigs, requestBodyConfigs, waf>>
  BY DEF ResponseBody
<1>4. /\ responseBodyConfigs' \in Seq(ResponseBodies) /\ Grows(responseBodyConfigs, responseBodyConfigs')
      /\ Len(responseBodyConfigs') = Len(responseBodyConfigs) + 1
  BY <1>1, <1>2, Appended
<1>5. AllGrow
  BY <1>3, <1>4 DEF AllGrow, Grows
<1>6. ConfigTypeOK'
  BY <1>1, <1>3, <1>4 DEF ConfigTypeOK
<1>7. /\ Len(auditLogConfigs) \in Nat /\ Len(requestBodyConfigs) \in Nat /\ Len(responseBodyConfigs) \in Nat
  BY <1>1, LenProperties DEF ConfigTypeOK
<1>8. /\ Len(auditLogConfigs) <= Len(auditLogConfigs') /\ Len(requestBodyConfigs) <= Len(requestBodyConfigs')
      /\ Len(responseBodyConfigs) <= Len(responseBodyConfigs')
  BY <1>3, <1>4, <1>7
<1> QED BY <1>3, <1>5, <1>6, <1>8, OthersStep DEF AllGrow

(* The methods of the audit log configuration (config.go). *)
LEMMA AuditLogStep ==
  ASSUME ConfigInv, NEW heap \in Seq(AuditLogs), Len(heap) = Len(auditLogConfigs) + 1, AuditLog(heap)
  PROVE  ConfigInv'
<1>1. auditLogConfigs' = heap /\ UNCHANGED <<program, wafConfigs, requestBodyConfigs, responseBodyConfigs, waf>>
  BY DEF AuditLog
<1>2. ConfigTypeOK
  BY DEF ConfigInv
<1>3. ConfigTypeOK'
  BY <1>1, <1>2 DEF ConfigTypeOK
<1>4. /\ Len(auditLogConfigs) \in Nat /\ Len(requestBodyConfigs) \in Nat /\ Len(responseBodyConfigs) \in Nat
  BY <1>2, LenProperties DEF ConfigTypeOK
<1>5. /\ Len(auditLogConfigs) <= Len(auditLogConfigs') /\ Len(requestBodyConfigs) <= Len(requestBodyConfigs')
      /\ Len(responseBodyConfigs) <= Len(responseBodyConfigs')
  BY <1>1, <1>4
<1>6. Grows(responseBodyConfigs, responseBodyConfigs')
  BY <1>1 DEF Grows
<1> QED BY <1>1, <1>3, <1>5, <1>6, OthersStep

(* The values that NewWAF gives fields, from the objects c points to (waf.go). *)
Engine(c, w, heap)       == IF c.auditLog = 0 THEN w.AuditEngine
                            ELSE IF heap[c.auditLog].relevantOnly THEN "relevantonly" ELSE "on"
Parts(c, w, heap)        == IF c.auditLog = 0 THEN w.AuditLogParts ELSE heap[c.auditLog].parts
Writer(c, w, heap)       == IF c.auditLog # 0 /\ heap[c.auditLog].logger THEN "configured" ELSE w.AuditLogWriter
RequestLimit(c, w, heap) == IF c.requestBody = 0 THEN w.RequestBodyLimit ELSE heap[c.requestBody].limit
MemoryLimit(c, w, heap)  == IF c.requestBody = 0 THEN w.RequestBodyInMemoryLimit
                            ELSE heap[c.requestBody].inMemoryLimit
ResponseLimit(c, w, heap) == IF c.responseBody = 0 THEN w.ResponseBodyLimit ELSE heap[c.responseBody].limit

Overlay(c, w, engine, parts, writer, request, memory, response) ==
    [w EXCEPT !.AuditEngine = engine, !.AuditLogParts = parts, !.AuditLogWriter = writer,
              !.ContentInjection = @ \/ c.contentInjection,
              !.RequestBodyAccess = @ \/ c.requestBody # 0,
              !.RequestBodyLimit = request, !.RequestBodyInMemoryLimit = memory,
              !.ResponseBodyAccess = @ \/ c.responseBody # 0, !.ResponseBodyLimit = response,
              !.ErrorLogCb = c.errorCallback]

Build(c, w, audit, requests, responses) ==
    Overlay(c, w, Engine(c, w, audit), Parts(c, w, audit), Writer(c, w, audit),
            RequestLimit(c, w, requests), MemoryLimit(c, w, requests), ResponseLimit(c, w, responses))

(* NewWAF, before and after a step. *)
LEMMA ConfiguredIs ==
  ASSUME NEW i
  PROVE  /\ Configured(wafConfigs[i]) =
                Build(wafConfigs[i], ReadAll(wafConfigs[i]).waf, auditLogConfigs, requestBodyConfigs, responseBodyConfigs)
         /\ Configured(wafConfigs[i])' =
                Build(wafConfigs'[i], ReadAll(wafConfigs'[i]).waf, auditLogConfigs', requestBodyConfigs', responseBodyConfigs')
<1>1. Configured(wafConfigs[i]) =
        Build(wafConfigs[i], ReadAll(wafConfigs[i]).waf, auditLogConfigs, requestBodyConfigs, responseBodyConfigs)
  BY Zenon DEF Configured, Build, Overlay, Engine, Parts, Writer, RequestLimit, MemoryLimit, ResponseLimit
<1>2. Configured(wafConfigs[i])' =
        Build(wafConfigs'[i], ReadAll(wafConfigs'[i]).waf, auditLogConfigs', requestBodyConfigs', responseBodyConfigs')
  BY Zenon DEF Configured, Build, Overlay, Engine, Parts, Writer, RequestLimit, MemoryLimit, ResponseLimit
<1> QED BY <1>1, <1>2

(* It depends on the config and on what it points to (waf.go). *)
LEMMA MeaningKept ==
  ASSUME ConfigInv, NEW i \in DOMAIN wafConfigs, wafConfigs'[i] = wafConfigs[i],
         wafConfigs[i].requestBody # 0 =>
             requestBodyConfigs'[wafConfigs[i].requestBody] = requestBodyConfigs[wafConfigs[i].requestBody],
         wafConfigs[i].responseBody # 0 =>
             responseBodyConfigs'[wafConfigs[i].responseBody] = responseBodyConfigs[wafConfigs[i].responseBody]
  PROVE  /\ Rejected(wafConfigs[i])' = Rejected(wafConfigs[i])
         /\ (wafConfigs[i].auditLog # 0 =>
                auditLogConfigs'[wafConfigs[i].auditLog] = auditLogConfigs[wafConfigs[i].auditLog])
               => Configured(wafConfigs[i])' = Configured(wafConfigs[i])
<1> DEFINE c == wafConfigs[i]
           R == ReadAll(c)
<1>1. (R)' = R /\ c' = c
  BY Zenon
<1> HIDE DEF R
<1>2. Rejected(c)' = Rejected(c)
  <2>1. LimitsRefused(c)' = LimitsRefused(c)
    BY DEF LimitsRefused
  <2>2. Rejected(c) = (~R.ok \/ LimitsRefused(c)) /\ Rejected(c)' = (~(R)'.ok \/ LimitsRefused(c)')
    BY Zenon DEF Rejected, R
  <2> QED BY <1>1, <2>1, <2>2, Zenon
<1>3. ASSUME c.auditLog # 0 => auditLogConfigs'[c.auditLog] = auditLogConfigs[c.auditLog]
      PROVE  Configured(c)' = Configured(c)
  <2> DEFINE w == ReadAll(c).waf
  <2>1. /\ Configured(c) = Build(c, w, auditLogConfigs, requestBodyConfigs, responseBodyConfigs)
        /\ Configured(c)' = Build(c', ReadAll(c').waf, auditLogConfigs', requestBodyConfigs', responseBodyConfigs')
    BY ConfiguredIs
  <2>2. /\ Configured(c) = Build(c, w, auditLogConfigs, requestBodyConfigs, responseBodyConfigs)
        /\ Configured(c)' = Build(c, w, auditLogConfigs', requestBodyConfigs', responseBodyConfigs')
    BY <1>1, <2>1, Zenon
  <2> HIDE DEF w
  <2>3. /\ Engine(c, w, auditLogConfigs') = Engine(c, w, auditLogConfigs)
        /\ Parts(c, w, auditLogConfigs') = Parts(c, w, auditLogConfigs)
        /\ Writer(c, w, auditLogConfigs') = Writer(c, w, auditLogConfigs)
    BY <1>3 DEF Engine, Parts, Writer
  <2>4. /\ RequestLimit(c, w, requestBodyConfigs') = RequestLimit(c, w, requestBodyConfigs)
        /\ MemoryLimit(c, w, requestBodyConfigs') = MemoryLimit(c, w, requestBodyConfigs)
        /\ ResponseLimit(c, w, responseBodyConfigs') = ResponseLimit(c, w, responseBodyConfigs)
    BY DEF RequestLimit, MemoryLimit, ResponseLimit
  <2> QED BY <2>2, <2>3, <2>4, Zenon DEF Build
<1> QED BY <1>2, <1>3

(* An audit log configuration that LogRelevantOnly is called on: the audit   *)
(* engine of the configs that point to it, and nothing else (config.go).     *)
LEMMA RelevantOnly ==
  ASSUME ConfigInv, NEW a \in DOMAIN auditLogConfigs, LogRelevantOnly(a),
         NEW i \in DOMAIN wafConfigs
  PROVE  /\ Rejected(wafConfigs[i])' = Rejected(wafConfigs[i])
         /\ wafConfigs[i].auditLog # a => Configured(wafConfigs[i])' = Configured(wafConfigs[i])
         /\ wafConfigs[i].auditLog = a =>
                Configured(wafConfigs[i])' = [Configured(wafConfigs[i]) EXCEPT !.AuditEngine = "relevantonly"]
<1> DEFINE c == wafConfigs[i]
           w == ReadAll(c).waf
           old == auditLogConfigs
           changed == [auditLogConfigs EXCEPT ![a].relevantOnly = TRUE]
<1>1. /\ UNCHANGED <<wafConfigs, requestBodyConfigs, responseBodyConfigs>>
      /\ auditLogConfigs' = Append(changed, auditLogConfigs[a])
  BY DEF LogRelevantOnly, AuditLog
<1>2. auditLogConfigs \in Seq(AuditLogs)
  BY DEF ConfigInv, ConfigTypeOK
<1>3. auditLogConfigs[a] \in AuditLogs
  BY <1>2, LenProperties, ElementOfSeq
<1>4. /\ changed \in Seq(AuditLogs) /\ DOMAIN changed = DOMAIN auditLogConfigs
      /\ \A k \in DOMAIN auditLogConfigs \ {a} : changed[k] = auditLogConfigs[k]
      /\ changed[a] = [auditLogConfigs[a] EXCEPT !.relevantOnly = TRUE]
  <2> DEFINE x == [auditLogConfigs[a] EXCEPT !.relevantOnly = TRUE]
  <2>1. x \in AuditLogs
    BY <1>3, Zenon DEF AuditLogs
  <2>2. changed = [auditLogConfigs EXCEPT ![a] = x] /\ a \in 1..Len(auditLogConfigs)
    BY <1>2, LenProperties
  <2> HIDE DEF x
  <2>3. changed \in Seq(AuditLogs)
    BY <1>2, <2>1, <2>2, ExceptSeq, Zenon
  <2>4. DOMAIN changed = DOMAIN auditLogConfigs /\ changed[a] = x
    BY <2>2
  <2> QED BY <2>2, <2>3, <2>4 DEF x
<1> HIDE DEF changed
<1>5. /\ \A k \in DOMAIN auditLogConfigs \ {a} : auditLogConfigs'[k] = auditLogConfigs[k]
      /\ auditLogConfigs'[a] = [auditLogConfigs[a] EXCEPT !.relevantOnly = TRUE]
  <2>1. Grows(changed, Append(changed, auditLogConfigs[a]))
    BY <1>3, <1>4, Appended
  <2> QED BY <1>1, <1>4, <2>1, Zenon DEF Grows
<1>6. c.auditLog # 0 => c.auditLog \in DOMAIN auditLogConfigs
  BY <1>2, LenProperties DEF ConfigInv, PointersInv
<1>7. wafConfigs'[i] = wafConfigs[i]
  BY <1>1
<1>8. /\ Rejected(wafConfigs[i])' = Rejected(wafConfigs[i])
      /\ c.auditLog # a => Configured(wafConfigs[i])' = Configured(wafConfigs[i])
  <2>1. c.auditLog # a => (c.auditLog # 0 => auditLogConfigs'[c.auditLog] = auditLogConfigs[c.auditLog])
    BY <1>5, <1>6
  <2> QED BY <1>1, <1>7, <2>1, MeaningKept, Zenon
<1>9. ASSUME c.auditLog = a
      PROVE  Configured(wafConfigs[i])' = [Configured(wafConfigs[i]) EXCEPT !.AuditEngine = "relevantonly"]
  <2>1. /\ Configured(wafConfigs[i]) = Build(c, w, auditLogConfigs, requestBodyConfigs, responseBodyConfigs)
        /\ Configured(wafConfigs[i])' = Build(c, w, auditLogConfigs', requestBodyConfigs, responseBodyConfigs)
    BY <1>1, <1>7, ConfiguredIs, Zenon
  <2> DEFINE e1 == Engine(c, w, auditLogConfigs)
             e2 == Parts(c, w, auditLogConfigs)
             e3 == Writer(c, w, auditLogConfigs)
             e6 == RequestLimit(c, w, requestBodyConfigs)
             e7 == MemoryLimit(c, w, requestBodyConfigs)
             e9 == ResponseLimit(c, w, responseBodyConfigs)
  <2>2. c.auditLog # 0
    BY <1>2, <1>9, LenProperties
  <2> HIDE DEF w, c
  <2>3. /\ Engine(c, w, auditLogConfigs') = "relevantonly"
        /\ Parts(c, w, auditLogConfigs') = e2 /\ Writer(c, w, auditLogConfigs') = e3
    BY <1>3, <1>5, <1>9, <2>2 DEF Engine, Parts, Writer, AuditLogs
  <2> HIDE DEF e1, e2, e3, e6, e7, e9
  <2>4. /\ Configured(wafConfigs[i]) = Overlay(c, w, e1, e2, e3, e6, e7, e9)
        /\ Configured(wafConfigs[i])' = Overlay(c, w, "relevantonly", e2, e3, e6, e7, e9)
    BY <2>1, <2>3, Zenon DEF Build, e1, e2, e3, e6, e7, e9
  <2>5. Overlay(c, w, "relevantonly", e2, e3, e6, e7, e9)
          = [Overlay(c, w, e1, e2, e3, e6, e7, e9) EXCEPT !.AuditEngine = "relevantonly"]
    <3> DEFINE b4 == w.ContentInjection \/ c.contentInjection
               b5 == w.RequestBodyAccess \/ c.requestBody # 0
               b8 == w.ResponseBodyAccess \/ c.responseBody # 0
               b10 == c.errorCallback
               Over(e) == [w EXCEPT !.AuditEngine = e, !.AuditLogParts = e2, !.AuditLogWriter = e3,
                                    !.ContentInjection = b4, !.RequestBodyAccess = b5, !.RequestBodyLimit = e6,
                                    !.RequestBodyInMemoryLimit = e7, !.ResponseBodyAccess = b8,
                                    !.ResponseBodyLimit = e9, !.ErrorLogCb = b10]
    <3>1. \A e : Overlay(c, w, e, e2, e3, e6, e7, e9) = Over(e)
      BY Zenon DEF Overlay
    <3> HIDE DEF b4, b5, b8, b10
    <3>2. Over("relevantonly") = [Over(e1) EXCEPT !.AuditEngine = "relevantonly"]
      BY Zenon
    <3> HIDE DEF Over
    <3> QED BY <3>1, <3>2, Zenon
  <2> QED BY <2>4, <2>5, Zenon
<1> QED BY <1>8, <1>9

(* One With method of a WAFConfig keeps what the others point to. *)
LEMMA WithMethods ==
  ASSUME ConfigInv, NEW c \in DOMAIN wafConfigs,
         \/ \E source \in Programs[program].sources : WithDirectives(c, source)
         \/ \E a \in DOMAIN auditLogConfigs : WithAuditLog(c, a)
         \/ WithContentInjection(c)
         \/ \E r \in DOMAIN requestBodyConfigs : WithRequestBodyAccess(c, r)
         \/ \E r \in DOMAIN responseBodyConfigs : WithResponseBodyAccess(c, r)
         \/ WithErrorCallback(c)
  PROVE  ConfigInv' /\ AllGrow
<1> DEFINE x == wafConfigs[c]
<1>1. ConfigTypeOK
  BY DEF ConfigInv
<1>2. /\ x.auditLog \in 0..Len(auditLogConfigs) /\ x.requestBody \in 0..Len(requestBodyConfigs)
      /\ x.responseBody \in 0..Len(responseBodyConfigs)
  BY DEF ConfigInv, PointersInv
<1>3. x \in WAFConfigs
  BY <1>1, LenProperties, ElementOfSeq DEF ConfigTypeOK
<1>4. /\ \A a \in DOMAIN auditLogConfigs : a \in 0..Len(auditLogConfigs) /\ a \in Nat
      /\ \A r \in DOMAIN requestBodyConfigs : r \in 0..Len(requestBodyConfigs) /\ r \in Nat
      /\ \A r \in DOMAIN responseBodyConfigs : r \in 0..Len(responseBodyConfigs) /\ r \in Nat
  BY <1>1, LenProperties DEF ConfigTypeOK
<1> HIDE DEF x
<1>5. ASSUME NEW source \in Programs[program].sources, WithDirectives(c, source) PROVE ConfigInv' /\ AllGrow
  <2> DEFINE y == [x EXCEPT !.rules = @ \o source]
  <2>1. source \in Seq(Directives)
    BY <1>1, WAFConfigAssumption DEF ConfigTypeOK
  <2>2. x.rules \o source \in Seq(Directives)
    <3>1. x.rules \in Seq(Directives)
      BY <1>3 DEF WAFConfigs
    <3> QED BY <2>1, <3>1, ConcatProperties
  <2>3. /\ y \in WAFConfigs /\ y.auditLog = x.auditLog /\ y.requestBody = x.requestBody
        /\ y.responseBody = x.responseBody
    <3> DEFINE all == x.rules \o source
    <3>1. y = [x EXCEPT !.rules = all] /\ all \in Seq(Directives)
      BY <2>2
    <3> HIDE DEF all
    <3> QED BY <1>3, <3>1, Zenon DEF WAFConfigs
  <2>4. With(c, y)
    BY <1>5 DEF WithDirectives, x
  <2> HIDE DEF y
  <2> QED BY <1>2, <2>3, <2>4, WithStep
<1>6. ASSUME NEW a \in DOMAIN auditLogConfigs, WithAuditLog(c, a) PROVE ConfigInv' /\ AllGrow
  <2> DEFINE y == [x EXCEPT !.auditLog = a]
  <2>1. y \in WAFConfigs /\ y.auditLog = a /\ y.requestBody = x.requestBody /\ y.responseBody = x.responseBody
    BY <1>3, <1>4, Zenon DEF WAFConfigs
  <2>2. With(c, y)
    BY <1>6 DEF WithAuditLog, x
  <2> HIDE DEF y
  <2> QED BY <1>2, <1>4, <2>1, <2>2, WithStep
<1>7. ASSUME WithContentInjection(c) PROVE ConfigInv' /\ AllGrow
  <2> DEFINE y == [x EXCEPT !.contentInjection = TRUE]
  <2>1. /\ y \in WAFConfigs /\ y.auditLog = x.auditLog /\ y.requestBody = x.requestBody
        /\ y.responseBody = x.responseBody
    BY <1>3, Zenon DEF WAFConfigs
  <2>2. With(c, y)
    BY <1>7 DEF WithContentInjection, x
  <2> HIDE DEF y
  <2> QED BY <1>2, <2>1, <2>2, WithStep
<1>8. ASSUME NEW r \in DOMAIN requestBodyConfigs, WithRequestBodyAccess(c, r) PROVE ConfigInv' /\ AllGrow
  <2> DEFINE y == [x EXCEPT !.requestBody = r]
  <2>1. y \in WAFConfigs /\ y.auditLog = x.auditLog /\ y.requestBody = r /\ y.responseBody = x.responseBody
    BY <1>3, <1>4, Zenon DEF WAFConfigs
  <2>2. With(c, y)
    BY <1>8 DEF WithRequestBodyAccess, x
  <2> HIDE DEF y
  <2> QED BY <1>2, <1>4, <2>1, <2>2, WithStep
<1>9. ASSUME NEW r \in DOMAIN responseBodyConfigs, WithResponseBodyAccess(c, r) PROVE ConfigInv' /\ AllGrow
  <2> DEFINE y == [x EXCEPT !.responseBody = r]
  <2>1. y \in WAFConfigs /\ y.auditLog = x.auditLog /\ y.requestBody = x.requestBody /\ y.responseBody = r
    BY <1>3, <1>4, Zenon DEF WAFConfigs
  <2>2. With(c, y)
    BY <1>9 DEF WithResponseBodyAccess, x
  <2> HIDE DEF y
  <2> QED BY <1>2, <1>4, <2>1, <2>2, WithStep
<1>10. ASSUME WithErrorCallback(c) PROVE ConfigInv' /\ AllGrow
  <2> DEFINE y == [x EXCEPT !.errorCallback = TRUE]
  <2>1. /\ y \in WAFConfigs /\ y.auditLog = x.auditLog /\ y.requestBody = x.requestBody
        /\ y.responseBody = x.responseBody
    BY <1>3, Zenon DEF WAFConfigs
  <2>2. With(c, y)
    BY <1>10 DEF WithErrorCallback, x
  <2> HIDE DEF y
  <2> QED BY <1>2, <2>1, <2>2, WithStep
<1> QED BY <1>5, <1>6, <1>7, <1>8, <1>9, <1>10

(* So do the methods of the objects they point to. *)
LEMMA OtherMethods ==
  ASSUME ConfigInv,
         \/ \E a \in DOMAIN auditLogConfigs : WithParts(a) \/ WithLogger(a)
         \/ \E r \in DOMAIN requestBodyConfigs, n \in Limits : RequestWithLimit(r, n) \/ RequestWithInMemoryLimit(r, n)
         \/ \E r \in DOMAIN responseBodyConfigs : WithMimeTypes(r) \/ \E n \in Limits : ResponseWithLimit(r, n)
  PROVE  ConfigInv' /\ AllGrow
<1>1. ConfigTypeOK
  BY DEF ConfigInv
<1>2. /\ \A a \in DOMAIN auditLogConfigs : auditLogConfigs[a] \in AuditLogs
      /\ \A r \in DOMAIN requestBodyConfigs : requestBodyConfigs[r] \in RequestBodies
      /\ \A r \in DOMAIN responseBodyConfigs : responseBodyConfigs[r] \in ResponseBodies
  BY <1>1, LenProperties, ElementOfSeq DEF ConfigTypeOK
<1>3. \A n \in Limits : n \in Int
  BY WAFConfigAssumption
<1>4. ASSUME NEW y \in AuditLogs, AuditLog(Append(auditLogConfigs, y)) PROVE ConfigInv' /\ AllGrow
  <2> DEFINE heap == Append(auditLogConfigs, y)
  <2>1. heap \in Seq(AuditLogs) /\ Grows(auditLogConfigs, heap) /\ Len(heap) = Len(auditLogConfigs) + 1
    BY <1>1, <1>4, Appended DEF ConfigTypeOK
  <2> HIDE DEF heap
  <2>2. AuditLog(heap)
    BY <1>4 DEF heap
  <2>3. AllGrow
    BY <2>1, <2>2 DEF AllGrow, AuditLog, Grows
  <2> QED BY <2>1, <2>2, <2>3, AuditLogStep
<1>5. ASSUME NEW a \in DOMAIN auditLogConfigs, WithParts(a) \/ WithLogger(a) PROVE ConfigInv' /\ AllGrow
  <2> DEFINE p == [auditLogConfigs[a] EXCEPT !.parts = <<"AZ">>]
             l == [auditLogConfigs[a] EXCEPT !.logger = TRUE]
  <2>1. p \in AuditLogs /\ l \in AuditLogs
    <3> DEFINE parts == <<"AZ">>
    <3>1. auditLogConfigs[a] \in AuditLogs
      BY <1>2
    <3>2. parts \in {<<>>, <<"AZ">>}
      BY Zenon
    <3>3. p = [auditLogConfigs[a] EXCEPT !.parts = parts]
      BY Zenon
    <3> HIDE DEF parts, p
    <3> QED BY <3>1, <3>2, <3>3, Zenon DEF AuditLogs
  <2>2. AuditLog(Append(auditLogConfigs, p)) \/ AuditLog(Append(auditLogConfigs, l))
    BY <1>5, Zenon DEF WithParts, WithLogger, Derive
  <2> HIDE DEF p, l
  <2> QED BY <1>4, <2>1, <2>2
<1>6. ASSUME NEW r \in DOMAIN requestBodyConfigs, NEW n \in Limits, RequestWithLimit(r, n) \/ RequestWithInMemoryLimit(r, n)
      PROVE  ConfigInv' /\ AllGrow
  <2> DEFINE p == [requestBodyConfigs[r] EXCEPT !.limit = n]
             l == [requestBodyConfigs[r] EXCEPT !.inMemoryLimit = n]
  <2>1. p \in RequestBodies /\ l \in RequestBodies
    BY <1>2, <1>3 DEF RequestBodies
  <2>2. RequestBody(r, p) \/ RequestBody(r, l)
    BY <1>6, Zenon DEF RequestWithLimit, RequestWithInMemoryLimit
  <2> HIDE DEF p, l
  <2> QED BY <2>1, <2>2, RequestBodyStep
<1>7. ASSUME NEW r \in DOMAIN responseBodyConfigs, WithMimeTypes(r) \/ \E n \in Limits : ResponseWithLimit(r, n)
      PROVE  ConfigInv' /\ AllGrow
  <2>1. ASSUME NEW n \in Limits, ResponseWithLimit(r, n) PROVE ConfigInv' /\ AllGrow
    <3> DEFINE p == [responseBodyConfigs[r] EXCEPT !.limit = n]
    <3>1. p \in ResponseBodies
      BY <1>2, <1>3 DEF ResponseBodies
    <3>2. ResponseBody(r, p)
      BY <2>1 DEF ResponseWithLimit
    <3> HIDE DEF p
    <3> QED BY <3>1, <3>2, ResponseBodyStep
  <2>2. ASSUME WithMimeTypes(r) PROVE ConfigInv' /\ AllGrow
    <3> DEFINE p == [responseBodyConfigs[r] EXCEPT !.mimeTypes = TRUE]
    <3>1. p \in ResponseBodies
      BY <1>2, Zenon DEF ResponseBodies
    <3>2. ResponseBody(r, p)
      BY <2>2 DEF WithMimeTypes
    <3> HIDE DEF p
    <3> QED BY <3>1, <3>2, ResponseBodyStep
  <2> QED BY <1>7, <2>1, <2>2
<1> QED BY <1>5, <1>6, <1>7

(* LogRelevantOnly changes its receiver. *)
LEMMA RelevantOnlyStep ==
  ASSUME ConfigInv, NEW a \in DOMAIN auditLogConfigs, LogRelevantOnly(a)
  PROVE  ConfigInv'
<1> DEFINE x == [auditLogConfigs[a] EXCEPT !.relevantOnly = TRUE]
           changed == [auditLogConfigs EXCEPT ![a].relevantOnly = TRUE]
           heap == Append(changed, auditLogConfigs[a])
<1>1. auditLogConfigs \in Seq(AuditLogs)
  BY DEF ConfigInv, ConfigTypeOK
<1>2. a \in 1..Len(auditLogConfigs) /\ auditLogConfigs[a] \in AuditLogs
  BY <1>1, LenProperties, ElementOfSeq
<1>3. x \in AuditLogs
  BY <1>2, Zenon DEF AuditLogs
<1>4. changed = [auditLogConfigs EXCEPT ![a] = x]
  OBVIOUS
<1> HIDE DEF x, changed
<1>5. changed \in Seq(AuditLogs) /\ Len(changed) = Len(auditLogConfigs)
  BY <1>1, <1>2, <1>3, <1>4, ExceptSeq
<1>6. heap \in Seq(AuditLogs) /\ Len(heap) = Len(auditLogConfigs) + 1
  BY <1>2, <1>5, Appended
<1>7. AuditLog(heap)
  BY DEF LogRelevantOnly, changed
<1> HIDE DEF heap
<1> QED BY <1>6, <1>7, AuditLogStep

(* The invariant holds of the first objects. *)
LEMMA ConfigInitInv == Init => ConfigInv
<1> SUFFICES ASSUME Init PROVE ConfigInv
  OBVIOUS
<1> DEFINE c == [rules |-> <<>>, auditLog |-> 0, requestBody |-> 0, responseBody |-> 0,
                 contentInjection |-> FALSE, errorCallback |-> FALSE]
           a == [relevantOnly |-> FALSE, parts |-> <<>>, logger |-> FALSE]
           r == [limit |-> 0, inMemoryLimit |-> 0]
           s == [limit |-> 0, mimeTypes |-> FALSE]
<1>1. /\ wafConfigs = <<c>> /\ auditLogConfigs = <<a>> /\ requestBodyConfigs = <<r>>
      /\ responseBodyConfigs = <<s>> /\ program \in DOMAIN Programs /\ waf.built = FALSE
  BY DEF Init
<1>2. c \in WAFConfigs /\ c.auditLog = 0 /\ c.requestBody = 0 /\ c.responseBody = 0
  BY DEF WAFConfigs
<1>3. a \in AuditLogs /\ r \in RequestBodies /\ s \in ResponseBodies
  BY DEF AuditLogs, RequestBodies, ResponseBodies
<1> HIDE DEF c, a, r, s
<1>4. ConfigTypeOK
  BY <1>1, <1>2, <1>3 DEF ConfigTypeOK
<1>5. PointersInv
  BY <1>1, <1>2 DEF PointersInv
<1>6. BuiltInv
  BY <1>1, Zenon DEF BuiltInv, BuiltAsWritten
<1> QED BY <1>4, <1>5, <1>6 DEF ConfigInv

(* Every step keeps the invariant, and adds objects but for LogRelevantOnly. *)
LEMMA ConfigStepInv ==
  ASSUME ConfigInv, Next
  PROVE  ConfigInv' /\ (AllGrow \/ \E a \in DOMAIN auditLogConfigs : LogRelevantOnly(a))
<1>1. ASSUME NEW a \in DOMAIN auditLogConfigs, LogRelevantOnly(a) PROVE ConfigInv'
  BY <1>1, RelevantOnlyStep
<1>2. ASSUME NEW i \in DOMAIN wafConfigs, NewWAF(i) PROVE ConfigInv' /\ AllGrow
  <2>1. UNCHANGED <<program, wafConfigs, auditLogConfigs, requestBodyConfigs, responseBodyConfigs>>
    BY <1>2 DEF NewWAF, objects
  <2>2. BuiltInv'
    BY <1>2, NewWAFBuilt
  <2>3. ConfigTypeOK' /\ PointersInv'
    BY <2>1 DEF ConfigInv, ConfigTypeOK, PointersInv
  <2>4. AllGrow
    BY <2>1 DEF AllGrow, Grows
  <2> QED BY <2>2, <2>3, <2>4 DEF ConfigInv
<1> QED BY <1>1, <1>2, WithMethods, OtherMethods, Zenon DEF Next

(* A step that changes nothing keeps it. *)
LEMMA ConfigStutter == ConfigInv /\ UNCHANGED vars => ConfigInv'
BY Zenon DEF ConfigInv, ConfigTypeOK, PointersInv, BuiltInv, BuiltAsWritten, BuiltLimitsHold, Given, vars, objects

(* A WAF that NewWAF returns has the settings that the directives of its     *)
(* config and its options say, and limits that can be used (waf.go,          *)
(* directives.go).                                                           *)
THEOREM WAFAsWritten == Spec => []BuiltAsWritten
<1>1. ConfigInv /\ [Next]_vars => ConfigInv'
  BY ConfigStepInv, ConfigStutter
<1>2. ConfigInv => BuiltAsWritten
  BY DEF ConfigInv, BuiltInv
<1> QED BY <1>1, <1>2, ConfigInitInv, PTL DEF Spec

(* A WAFConfig never changes its meaning, but for the audit engine that      *)
(* LogRelevantOnly sets (config.go).                                         *)
THEOREM ConfigsImmutable == Spec => ConfigsStay
<1> DEFINE A == \A i \in DOMAIN wafConfigs :
                 LET before == Configured(wafConfigs[i])
                     after  == Configured(wafConfigs[i])'
                 IN
                 /\ Rejected(wafConfigs[i])' = Rejected(wafConfigs[i])
                 /\ \/ after = before
                    \/ /\ wafConfigs[i].auditLog # 0 /\ LogRelevantOnly(wafConfigs[i].auditLog)
                       /\ after = [before EXCEPT !.AuditEngine = "relevantonly"]
<1>1. ConfigInv /\ [Next]_vars => ConfigInv'
  BY ConfigStepInv, ConfigStutter
<1>2. ConfigInv /\ [Next]_vars => [A]_vars
  <2> SUFFICES ASSUME ConfigInv, Next, NEW i \in DOMAIN wafConfigs
               PROVE  /\ Rejected(wafConfigs[i])' = Rejected(wafConfigs[i])
                      /\ \/ Configured(wafConfigs[i])' = Configured(wafConfigs[i])
                         \/ /\ wafConfigs[i].auditLog # 0 /\ LogRelevantOnly(wafConfigs[i].auditLog)
                            /\ Configured(wafConfigs[i])'
                                  = [Configured(wafConfigs[i]) EXCEPT !.AuditEngine = "relevantonly"]
    BY Zenon
  <2> DEFINE c == wafConfigs[i]
  <2>1. /\ c.auditLog # 0 => c.auditLog \in DOMAIN auditLogConfigs
        /\ c.requestBody # 0 => c.requestBody \in DOMAIN requestBodyConfigs
        /\ c.responseBody # 0 => c.responseBody \in DOMAIN responseBodyConfigs
    BY LenProperties DEF ConfigInv, PointersInv, ConfigTypeOK
  <2>2. CASE AllGrow
    <3>1. /\ wafConfigs'[i] = c
          /\ c.auditLog # 0 => auditLogConfigs'[c.auditLog] = auditLogConfigs[c.auditLog]
          /\ c.requestBody # 0 => requestBodyConfigs'[c.requestBody] = requestBodyConfigs[c.requestBody]
          /\ c.responseBody # 0 => responseBodyConfigs'[c.responseBody] = responseBodyConfigs[c.responseBody]
      BY <2>1, <2>2, Zenon DEF AllGrow, Grows
    <3> QED BY <3>1, MeaningKept
  <2>3. ASSUME NEW a \in DOMAIN auditLogConfigs, LogRelevantOnly(a)
        PROVE  /\ Rejected(wafConfigs[i])' = Rejected(wafConfigs[i])
               /\ \/ Configured(wafConfigs[i])' = Configured(wafConfigs[i])
                  \/ /\ wafConfigs[i].auditLog # 0 /\ LogRelevantOnly(wafConfigs[i].auditLog)
                     /\ Configured(wafConfigs[i])'
                           = [Configured(wafConfigs[i]) EXCEPT !.AuditEngine = "relevantonly"]
    <3>1. a # 0
      BY LenProperties DEF ConfigInv, ConfigTypeOK
    <3>2. CASE c.auditLog = a
      BY <2>3, <3>1, <3>2, RelevantOnly, Zenon
    <3>3. CASE c.auditLog # a
      BY <2>3, <3>3, RelevantOnly, Zenon
    <3> QED BY <3>2, <3>3
  <2> QED BY <2>2, <2>3, ConfigStepInv
<1> HIDE DEF A
<1> QED BY <1>1, <1>2, ConfigInitInv, PTL DEF A, Spec, ConfigsStay
=============================================================================
