---------------------------- MODULE MCWAFConfig -----------------------------
(***************************************************************************)
(* A small program gives at most two texts, or one and one configuration,  *)
(* and has directives of one kind; a large one can give a text and a body  *)
(* configuration with a limit.                                             *)
(***************************************************************************)
EXTENDS WAFConfig

Lines(dirs, args) == {<<[dir |-> d, arg |-> a]>> : d \in dirs, a \in args}

OnOff == {Word("on"), Word("off"), Word("yes")}

Small(sources) == [sources |-> sources, MaxObjects |-> 6]
Large(sources) == [sources |-> sources, MaxObjects |-> 7]

MCPrograms == <<
    Large({<<[dir |-> "SecRequestBodyAccess", arg |-> Word("on")], [dir |-> "SecRequestBodyLimit", arg |-> Word("10MB")]>>}),
    Small(Lines({"SecRequestBodyAccess", "SecResponseBodyAccess"}, OnOff)),
    Small(Lines({"SecContentInjection", "SecUploadKeepFiles"}, OnOff)),
    Small(Lines({"SecRuleEngine", "SecAuditEngine"},
                {Word("on"), Word("off"), Word("detectiononly"), Word("relevantonly")})),
    Small(Lines({"SecRequestBodyLimit", "SecRequestBodyInMemoryLimit"}, {Number(0), Number(3), Word("10MB"), Huge})),
    Small(Lines({"SecResponseBodyLimit", "SecUploadFileLimit"}, {Number(0), Number(3), Word("10MB")})),
    Small(Lines({"SecUploadFileMode", "SecRequestBodyNoFilesLimit"}, {Number(3), Number(0 - 1), Huge})),
    Small(Lines({"SecResponseBodyLimitAction", "SecRequestBodyLimitAction"},
                {Word("reject"), Word("processpartial"), Word("block")})),
    Small(Lines({"SecRemoteRulesFailAction", "SecRemoteRules"}, {Word("abort"), Word("warn")})),
    Small(Lines({"SecAuditLogParts", "SecAuditLogRelevantStatus"}, {Word("ABZ"), Word("(")})),
    Small(Lines({"SecResponseBodyMimeType", "SecResponseBodyMimeTypesClear"}, {Words(<<"json", "xml">>)})),
    Small(Lines({"SecWebAppID", "SecTmpDir", "SecServerSignature"}, {Word("a")})),
    Small(Lines({"SecSensorID", "SecDataDir", "SecUploadDir"}, {Word("a")})),
    Small(Lines({"SecComponentSignature", "SecDataset", "Unsupported", "Unknown"}, {Word("d"), Words(<<"d", "a">>)})),
    Small(Lines({"Rule"}, {Number(0), Number(1), Number(2)})) >>
=============================================================================
