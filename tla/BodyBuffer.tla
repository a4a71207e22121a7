----------------------------- MODULE BodyBuffer -----------------------------
(***************************************************************************)
(* The buffer of a request or response body (internal/corazawaf/           *)
(* body_buffer.go): memory up to MemoryLimit, a temporary file beyond it.  *)
(* Creating and writing the file may fail.  The action prepend replaces    *)
(* the whole buffer of a response (actions/prepend.go).                    *)
(* A reader belongs to one body: it is gone when the buffer is reset.      *)
(***************************************************************************)
EXTENDS Naturals, Sequences

CONSTANTS Bytes, Readers,
          Builds,               (* the builds and configurations, see options *)
          NoFile,               (* the nil writer                           *)
          MaxChunk, MaxBody     (* bounds: bytes per write, bytes in all    *)

ASSUME BodyBufferAssumption ==
    /\ Builds \subseteq [MemoryLimit : Nat, IsTinyGo : BOOLEAN, ContentInjection : BOOLEAN]
    /\ MaxChunk \in Nat /\ MaxBody \in Nat
    /\ NoFile \notin Seq(Bytes)

VARIABLES options,      (* options.MemoryLimit, environment.IsTinyGo (no    *)
                        (* temporary files) and WAF.ContentInjection, fixed *)
          buf,          (* the BodyBuffer                                   *)
          pos,          (* the position of each reader                      *)
          body,         (* history: the bytes the buffer has accepted       *)
          seen,         (* history: what each reader has returned           *)
          eof,          (* history: readers whose last Read returned EOF    *)
          broken        (* history: an operation on this body failed        *)

vars == <<options, buf, pos, body, seen, eof, broken>>

MemoryLimit == options.MemoryLimit
IsTinyGo    == options.IsTinyGo

Data == UNION {[1..n -> Bytes] : n \in 0..MaxChunk}

(* file is the content of writer, or NoFile. *)
Buffer == [buffer : Seq(Bytes), length : Nat, file : Seq(Bytes) \union {NoFile}]

(* NewBodyBuffer *)
NewBodyBuffer == [buffer |-> <<>>, length |-> 0, file |-> NoFile]

Stream == INSTANCE ByteStream WITH Chunk <- Data

NoReaders == Stream!NoReaders

Init ==
    /\ options \in Builds
    /\ buf = NewBodyBuffer
    /\ pos = NoReaders /\ seen = NoReaders /\ eof = {}
    /\ body = <<>>
    /\ broken = FALSE
-----------------------------------------------------------------------------
Prefix(s, n) == SubSeq(s, 1, n)

(* What a call of Write may leave: the buffer, how much of the data it      *)
(* says it took, and whether it returned an error.                          *)
Outcome(b, n, err) == [buf |-> b, n |-> n, err |-> err]

(* mutant: the length is updated when the write has succeeded *)
FileWrites_CountsLast(b, d) ==
    {Outcome([b EXCEPT !.file = @ \o Prefix(d, n), !.length = IF n < Len(d) THEN @ ELSE @ + n], n, n < Len(d)) :
        n \in 0..Len(d)}

(* writer.Write(d): all of d, or an error after some of it.  The length has *)
(* been updated before.                                                     *)
FileWrites(b, d) ==
    {Outcome([b EXCEPT !.file = @ \o Prefix(d, n), !.length = @ + Len(d)], n, n < Len(d)) :
        n \in 0..Len(d)}

(* The first write beyond the memory: CreateTemp fails, dumping the memory  *)
(* fails on the way, or the data follows the memory into the file.          *)
Spills(b, d) ==
    {Outcome(b, 0, TRUE)}
    \union {Outcome([b EXCEPT !.file = Prefix(b.buffer, n)], 0, TRUE) : n \in 0..(Len(b.buffer) - 1)}
    \union FileWrites([b EXCEPT !.buffer = <<>>, !.file = b.buffer], d)

InMemory(b, d) == {Outcome([b EXCEPT !.buffer = @ \o d, !.length = @ + Len(d)], Len(d), FALSE)}

(* mutant: the limit is compared with the data, not with the whole body *)
WriteOutcomes_PerWrite(b, d) ==
    IF d = <<>> THEN {Outcome(b, 0, FALSE)}
    ELSE IF Len(d) <= MemoryLimit /\ b.file = NoFile THEN InMemory(b, d)
    ELSE IF b.file = NoFile THEN Spills(b, d)
    ELSE FileWrites(b, d)

(* BodyBuffer.Write *)
WriteOutcomes(b, d) ==
    IF d = <<>> THEN {Outcome(b, 0, FALSE)}
    ELSE IF b.length + Len(d) <= MemoryLimit THEN InMemory(b, d)
    ELSE IF IsTinyGo THEN LET n == MemoryLimit - b.length IN
        {Outcome([b EXCEPT !.buffer = @ \o Prefix(d, n), !.length = MemoryLimit], n, FALSE)}
    ELSE IF b.file = NoFile THEN Spills(b, d)
    ELSE FileWrites(b, d)

(* What a reader may read: bodyBufferReader.Read looks at the writer anew   *)
(* on every call.                                                           *)
Content(b) == IF IsTinyGo \/ b.file = NoFile THEN b.buffer ELSE b.file

(* The bound on the exploration. *)
Fits(d) == buf.length + Len(d) <= MaxBody /\ Len(body) + Len(d) <= MaxBody

Write(d) ==
    /\ Fits(d)
    /\ \E o \in WriteOutcomes(buf, d) :
          /\ buf' = o.buf
          /\ broken' = (broken \/ o.err)
          /\ body' = body \o Prefix(d, o.n)
    /\ UNCHANGED <<options, pos, seen, eof>>

Reader(r) ==
    /\ r \notin DOMAIN pos
    /\ pos'  = [q \in DOMAIN pos \union {r} |-> IF q = r THEN 0 ELSE pos[q]]
    /\ seen' = [q \in DOMAIN pos \union {r} |-> IF q = r THEN <<>> ELSE seen[q]]
    /\ UNCHANGED <<options, buf, body, eof, broken>>

(* mutant: the position is forgotten when the body moves to a file *)
Read_Rewinds(r, size) ==
    LET c  == Content(buf)
        at == IF buf.file = NoFile THEN pos[r] ELSE 0
        n  == IF at + size > Len(c) THEN Len(c) - at ELSE size
    IN
    /\ r \in DOMAIN pos /\ n >= 0
    /\ seen' = [seen EXCEPT ![r] = @ \o SubSeq(c, at + 1, at + n)]
    /\ pos' = [pos EXCEPT ![r] = @ + n]
    /\ eof' = IF n = 0 THEN eof \union {r} ELSE eof \ {r}
    /\ UNCHANGED <<options, buf, body, broken>>

(* bodyBufferReader.Read(p), Len(p) = size.  Memory reports the end when    *)
(* there is nothing left, ReadAt already when p is not filled.  Only a      *)
(* broken body can be shorter than a position in it.                        *)
Read(r, size) ==
    LET c    == Content(buf)
        left == IF pos[r] > Len(c) THEN 0 ELSE Len(c) - pos[r]
        n    == IF size > left THEN left ELSE size
    IN
    /\ r \in DOMAIN pos
    /\ seen' = [seen EXCEPT ![r] = @ \o SubSeq(c, pos[r] + 1, pos[r] + n)]
    /\ pos' = [pos EXCEPT ![r] = @ + n]
    /\ eof' = IF n = 0 \/ (Content(buf) = buf.file /\ n < size) THEN eof \union {r} ELSE eof \ {r}
    /\ UNCHANGED <<options, buf, body, broken>>

(* prependFn.Evaluate, during phase 4: nobody reads the response then.      *)
(* Errors are logged, a short write of io.Copy among them, and the buffer   *)
(* is replaced all the same, without its file being removed.                *)
Prepend(d) ==
    /\ options.ContentInjection
    /\ pos = NoReaders
    /\ Fits(d)
    /\ \E o1 \in WriteOutcomes(NewBodyBuffer, d) :
       \E o2 \in WriteOutcomes(o1.buf, Content(buf)) :
          /\ buf' = o2.buf
          /\ broken' = (broken \/ o1.err \/ o2.err \/ o2.n < Len(Content(buf)))
          /\ body' = Prefix(d, o1.n) \o body
    /\ UNCHANGED <<options, pos, seen, eof>>

(* Reset forgets the file before it closes and removes it, so that the      *)
(* buffer is as new also if that fails.                                     *)
Reset ==
    /\ buf' = NewBodyBuffer
    /\ pos' = NoReaders /\ seen' = NoReaders /\ eof' = {}
    /\ body' = <<>> /\ broken' = FALSE
    /\ UNCHANGED options

Next ==
    \/ \E d \in Data : Write(d) \/ Prepend(d)
    \/ \E r \in Readers : Reader(r) \/ \E size \in 1..MaxChunk : Read(r, size)
    \/ Reset

Spec == Init /\ [][Next]_vars
-----------------------------------------------------------------------------
(* The buffer is one stream of bytes to its readers, across the move from   *)
(* memory to file and while more is written, until an operation fails.      *)
ImplementsStream == Stream!StreamSpec

(* The memory never holds more than MemoryLimit bytes, however the writes   *)
(* are cut, and also after errors.                                          *)
MemoryBounded == Len(buf.buffer) <= MemoryLimit

(* length, with which the body limits are compared (transaction.go:812),    *)
(* counts every byte that is stored, also when creating the file, moving    *)
(* the memory into it or a write has failed half way and the caller goes    *)
(* on: a body cannot outgrow its limit through failing writes.  Until an    *)
(* operation fails it counts nothing else.                                  *)
StoredIsCounted ==
    /\ Len(Content(buf)) <= buf.length
    /\ ~broken => Len(Content(buf)) = buf.length
=============================================================================
