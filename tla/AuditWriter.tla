----------------------------- MODULE AuditWriter -----------------------------
(***************************************************************************)
(* The audit log writers (loggers/) and the directives that set them up    *)
(* (internal/seclang/directives.go).  While the configuration is read,     *)
(* every SecAuditLog directive stores its value and initialises the writer *)
(* anew.  Then transactions write their records at the same time: the      *)
(* serial writer prints each record to one file; the concurrent writer     *)
(* stores each record in a file of its own and prints a line that names it.*)
(*                                                                         *)
(* A record is its transaction.  Transactions end in the same second, so   *)
(* their files differ by transaction ID alone.  A file system call may     *)
(* fail.                                                                   *)
(***************************************************************************)
EXTENDS Naturals, Sequences

CONSTANTS Transactions,  (* transactions that write a record                 *)
          IDs,           (* the ways they may get IDs: transaction -> ID     *)
          Paths, Dirs, Formats, Modes,    (* values of the directives        *)
          MaxDirectives  (* bound: directives read                           *)

ASSUME AuditWriterAssumption ==
    MaxDirectives \in Nat /\ \A id \in IDs : DOMAIN id = Transactions

VARIABLES
    ID,         (* transaction -> its ID                                     *)
    config,     (* options.Config: the settings the directives stored        *)
    writer,     (* WAF.AuditLogWriter: its type and the settings it took     *)
    directives, (* how many were read; MaxDirectives + 1 once serving        *)
    pc,         (* where each transaction's Write is                         *)
    dirs,       (* the directories that exist: dir -> mode                   *)
    files,      (* the record files: <<dir, ID>> -> [tx, formatter, mode],   *)
                (* where tx is "cut" while the file is empty                 *)
    log,        (* the lines printed: [file, tx, formatter, whole]           *)
    logs,       (* the log files: path -> the mode it was created with       *)
    older,      (* history: log files older than the current file mode       *)
    unprinted   (* history: transactions whose line the log file refused     *)

configVars == <<ID, config, writer, directives, logs, older>>
writeVars == <<pc, dirs, files, log, unprinted>>
vars == <<configVars, writeVars>>

Serving == directives > MaxDirectives

Empty == "empty"

(* What Config.Get gives for a setting that no directive stored. *)
Defaults == [file |-> Empty, dir |-> Empty, formatter |-> "nativeFormatter",
             dirMode |-> "0755", fileMode |-> "0644"]

(* LogWriter.Init: what a writer takes of the config.  The serial writer    *)
(* stores no files.                                                         *)
Taken(type, c) ==
    IF type = "concurrent" THEN c
    ELSE [c EXCEPT !.dir = Empty, !.dirMode = Defaults.dirMode]

(* corazawaf.NewWAF: the serial writer, initialised with nothing. *)
Init ==
    /\ ID \in IDs
    /\ config = Defaults
    /\ writer = [type |-> "serial", set |-> Taken("serial", Defaults)]
    /\ directives = 0
    /\ pc = [t \in Transactions |-> "start"]
    /\ dirs = <<>> /\ files = <<>> /\ log = <<>>
    /\ logs = <<>> /\ older = {} /\ unprinted = {}
-----------------------------------------------------------------------------
Stored(at, f, content) == [g \in DOMAIN at \cup {f} |-> IF g = f THEN content ELSE at[g]]

(* os.OpenFile or os.MkdirAll: what exists keeps its mode. *)
Created(at, f, mode) == IF f \in DOMAIN at THEN at ELSE Stored(at, f, mode)

(* The writer takes the config, and opens the log file, which it creates    *)
(* with the file mode of that moment.  A file that does not open fails the  *)
(* directive and the WAF is not built: that ends the program here, so only  *)
(* Inits that succeed are steps.                                            *)
InitWriter(type, c) ==
    /\ directives < MaxDirectives /\ directives' = directives + 1
    /\ config' = c
    /\ writer' = [type |-> type, set |-> Taken(type, c)]
    /\ logs' = IF c.file = Empty THEN logs ELSE Created(logs, c.file, c.fileMode)
    /\ older' = IF c.fileMode = config.fileMode THEN older ELSE DOMAIN logs
    /\ UNCHANGED <<ID, writeVars>>

(* mutant: the directive only stores its value *)
SecAuditLog_NoInit ==
    /\ directives < MaxDirectives /\ directives' = directives + 1
    /\ \E f \in Paths : config' = [config EXCEPT !.file = f]
    /\ UNCHANGED <<ID, writer, logs, older, writeVars>>

SecAuditLog == \E f \in Paths : InitWriter(writer.type, [config EXCEPT !.file = f])

SecAuditLogDir == \E d \in Dirs : InitWriter(writer.type, [config EXCEPT !.dir = d])

SecAuditLogFormat ==
    \E f \in Formats : InitWriter(writer.type, [config EXCEPT !.formatter = f])

SecAuditLogDirMode == \E m \in Modes : InitWriter(writer.type, [config EXCEPT !.dirMode = m])

SecAuditLogFileMode == \E m \in Modes : InitWriter(writer.type, [config EXCEPT !.fileMode = m])

(* A new writer of the type, which also takes what is configured so far.    *)
SecAuditLogType == \E type \in {"serial", "concurrent"} : InitWriter(type, config)

Serve ==
    /\ ~Serving /\ directives' = MaxDirectives + 1
    /\ UNCHANGED <<ID, config, writer, logs, older, writeVars>>
-----------------------------------------------------------------------------
At(t, step) == Serving /\ pc[t] = step /\ UNCHANGED configVars

Goto(t, step) == pc' = [pc EXCEPT ![t] = step]

(* Println to the log, which is io.Discard without a file.  The line is     *)
(* written, cut short or not written; log.Logger's error is not looked at.  *)
Println(t) ==
    LET line(whole) == [file |-> writer.set.file, tx |-> t, formatter |-> writer.set.formatter, whole |-> whole] IN
    IF writer.set.file = Empty THEN UNCHANGED <<log, unprinted>>
    ELSE \/ log' = Append(log, line(TRUE)) /\ UNCHANGED unprinted
         \/ (log' = Append(log, line(FALSE)) \/ UNCHANGED log) /\ unprinted' = unprinted \cup {t}

(* serialWriter.Write: format and print; a failing formatter prints nothing. *)
WriteSerial(t) ==
    /\ writer.type = "serial" /\ At(t, "start")
    /\ \/ Goto(t, "done") /\ Println(t)
       \/ Goto(t, "error") /\ UNCHANGED <<log, unprinted>>
    /\ UNCHANGED <<dirs, files>>

(* The file a transaction's record goes to. *)
FilePath(t) == <<writer.set.dir, ID[t]>>

(* concurrentWriter.Write, one action for each call it makes. *)
MkdirAll(t) ==
    LET dir == writer.set.dir IN
    /\ writer.type = "concurrent" /\ At(t, "start")
    /\ \/ Goto(t, "format")
          /\ dirs' = Created(dirs, dir, writer.set.dirMode)
       \/ Goto(t, "error") /\ UNCHANGED dirs
    /\ UNCHANGED <<files, log, unprinted>>

FormatRecord(t) ==
    /\ At(t, "format")
    /\ Goto(t, "open") \/ Goto(t, "error")
    /\ UNCHANGED <<dirs, files, log, unprinted>>

Record(t, content) ==
    [tx |-> content, formatter |-> writer.set.formatter, mode |-> writer.set.fileMode]

(* os.WriteFile opens the file, which empties it, and then writes. *)
OpenRecord(t) ==
    /\ At(t, "open")
    /\ \/ Goto(t, "content") /\ files' = Stored(files, FilePath(t), Record(t, "cut"))
       \/ Goto(t, "error") /\ UNCHANGED files
    /\ UNCHANGED <<dirs, log, unprinted>>

(* mutant: an error of WriteFile is not returned *)
WriteRecord_NoError(t) ==
    /\ At(t, "content") /\ Goto(t, "lock")
    /\ files' = Stored(files, FilePath(t), Record(t, t)) \/ UNCHANGED files
    /\ UNCHANGED <<dirs, log, unprinted>>

WriteRecord(t) ==
    /\ At(t, "content")
    /\ \/ Goto(t, "lock") /\ files' = Stored(files, FilePath(t), Record(t, t))
       \/ Goto(t, "error") /\ UNCHANGED files
    /\ UNCHANGED <<dirs, log, unprinted>>

(* The line is printed under the writer's lock. *)
PrintLine(t) ==
    /\ At(t, "lock") /\ Goto(t, "done")
    /\ Println(t)
    /\ UNCHANGED <<dirs, files>>

WriteConcurrent(t) ==
    MkdirAll(t) \/ FormatRecord(t) \/ OpenRecord(t) \/ WriteRecord(t) \/ PrintLine(t)

Next ==
    \/ SecAuditLog \/ SecAuditLogDir \/ SecAuditLogFormat \/ SecAuditLogDirMode
    \/ SecAuditLogFileMode \/ SecAuditLogType \/ Serve
    \/ \E t \in Transactions : WriteSerial(t) \/ WriteConcurrent(t)

Spec == Init /\ [][Next]_vars
-----------------------------------------------------------------------------
(* No other transaction has the transaction's ID. *)
OwnID(t) == \A u \in Transactions \ {t} : ID[u] # ID[t]

(* The lines of a transaction. *)
LinesOf(t) == {i \in DOMAIN log : log[i].tx = t}

(* A log file has one whole line for each transaction whose Write returned  *)
(* no error and whose line the file took, at most one for the other Writes  *)
(* without an error and none for the rest, whatever other transactions do   *)
(* and whichever calls fail; and the file that a line of a concurrent log   *)
(* is about holds the whole record, if no other transaction of that second  *)
(* has its ID (concurrentWriter.Write).                                     *)
IndexedRecordWhole ==
    /\ writer.set.file # Empty =>
          \A t \in Transactions :
              \/ pc[t] = "done" /\ \E i \in DOMAIN log : LinesOf(t) = {i} /\ (log[i].whole \/ t \in unprinted)
              \/ (pc[t] # "done" \/ t \in unprinted) /\ LinesOf(t) = {}
    /\ writer.type = "concurrent" =>
          \A i \in DOMAIN log :
              OwnID(log[i].tx) => FilePath(log[i].tx) \in DOMAIN files
                                  /\ files[FilePath(log[i].tx)].tx = log[i].tx

(* Every record is written as the configuration says, whatever the order of *)
(* its directives and wherever SecAuditLogType stands among them: to the    *)
(* log file, in the directory, in the format and with the modes that were   *)
(* given last.  Only a log file that was opened before SecAuditLogFileMode  *)
(* has another mode, and only a line the file refused is missing.           *)
RecordsAsConfigured ==
    /\ \A i \in DOMAIN log : log[i].file = config.file /\ log[i].formatter = config.formatter
    /\ \A f \in DOMAIN files : f[1] = config.dir /\ files[f].formatter = config.formatter
                               /\ files[f].mode = config.fileMode
    /\ \A d \in DOMAIN dirs : dirs[d] = config.dirMode
    /\ \A f \in DOMAIN logs \ older : logs[f] = config.fileMode
    /\ (Serving /\ config.file # Empty) =>
          \A t \in Transactions : pc[t] = "done" /\ t \notin unprinted => \E i \in DOMAIN log : log[i].tx = t
=============================================================================
