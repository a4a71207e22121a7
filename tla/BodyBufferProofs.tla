-------------------------- MODULE BodyBufferProofs --------------------------
(***************************************************************************)
(* The body buffer, for bodies, memory limits and chunks of any size: the  *)
(* memory stays bounded, every stored byte is counted, and it implements   *)
(* ByteStream.                                                             *)
(***************************************************************************)
EXTENDS BodyBuffer, SequenceTheorems, TLAPS

(* What a buffer is at any time, after errors too. *)
Bounded(b) ==
    /\ b \in Buffer
    /\ Len(b.buffer) <= b.length
    /\ Len(b.buffer) <= MemoryLimit
    /\ b.file # NoFile => Len(b.file) <= b.length
    /\ IsTinyGo => b.file = NoFile /\ b.length <= MemoryLimit

(* What it is besides until an operation fails: its length is that of its   *)
(* content, which is in a file only when it is too long for the memory.     *)
Sound(b) ==
    /\ b.length = Len(Content(b))
    /\ b.file # NoFile => b.length > MemoryLimit

TypeOK ==
    /\ options \in Builds
    /\ body \in Seq(Bytes)
    /\ seen \in [DOMAIN pos -> Seq(Bytes)] /\ pos \in [DOMAIN pos -> Nat]
    /\ broken \in BOOLEAN

(* Every reader has seen the content up to its position. *)
ReadersInv ==
    \A r \in DOMAIN pos : pos[r] <= Len(body) /\ seen[r] = SubSeq(body, 1, pos[r])

StreamInv == ~broken => Sound(buf) /\ Content(buf) = body /\ ReadersInv

(* The inductive invariant. *)
IInv == TypeOK /\ Bounded(buf) /\ StreamInv

-----------------------------------------------------------------------------
(* The options of a build. *)
LEMMA OptionsTyped ==
    ASSUME options \in Builds
    PROVE  MemoryLimit \in Nat /\ IsTinyGo \in BOOLEAN /\ options.ContentInjection \in BOOLEAN
  BY BodyBufferAssumption DEF MemoryLimit, IsTinyGo

(* A prefix of a sequence. *)
LEMMA PrefixProperties ==
    ASSUME NEW s \in Seq(Bytes), NEW n \in Int, n <= Len(s)
    PROVE  /\ Prefix(s, n) \in Seq(Bytes)
           /\ Len(Prefix(s, n)) = IF n < 0 THEN 0 ELSE n
           /\ n = Len(s) => Prefix(s, n) = s
  BY DEF Prefix

(* A write in memory that fits. *)
LEMMA InMemoryOutcome ==
    ASSUME options \in Builds, NEW b, Bounded(b), NEW d \in Seq(Bytes),
           b.length + Len(d) <= MemoryLimit, NEW o \in InMemory(b, d)
    PROVE  /\ Bounded(o.buf) /\ o.n = Len(d)
           /\ Sound(b) => Sound(o.buf) /\ Content(o.buf) = Content(b) \o d
<1>0. MemoryLimit \in Nat /\ IsTinyGo \in BOOLEAN
  BY OptionsTyped
<1>1. /\ o.n = Len(d)
      /\ o.buf = [b EXCEPT !.buffer = @ \o d, !.length = @ + Len(d)]
  BY DEF InMemory, Outcome
<1>2. /\ b.buffer \in Seq(Bytes) /\ b.length \in Nat /\ b \in Buffer
      /\ b.file \in Seq(Bytes) \union {NoFile}
  BY DEF Bounded, Buffer
<1>3. o.buf = [buffer |-> b.buffer \o d, length |-> b.length + Len(d), file |-> b.file]
  BY <1>1, <1>2, Zenon DEF Buffer
<1>4. /\ o.buf.buffer = b.buffer \o d /\ o.buf.length = b.length + Len(d) /\ o.buf.file = b.file
      /\ o.buf \in Buffer
  BY <1>3, <1>2 DEF Buffer
<1>5. Bounded(o.buf)
  BY <1>0, <1>2, <1>4 DEF Bounded
<1>6. ASSUME Sound(b) PROVE Sound(o.buf) /\ Content(o.buf) = Content(b) \o d
  <2>1. b.file = NoFile
    BY <1>0, <1>2, <1>6 DEF Sound
  <2> QED BY <1>2, <1>4, <1>6, <2>1 DEF Sound, Content
<1> QED BY <1>1, <1>5, <1>6

(* A write to the file, all of it or an error on the way. *)
LEMMA FileOutcome ==
    ASSUME options \in Builds, ~IsTinyGo, NEW b, Bounded(b), b.file # NoFile, NEW d \in Seq(Bytes),
           NEW o \in FileWrites(b, d)
    PROVE  /\ Bounded(o.buf) /\ o.n \in 0..Len(d)
           /\ o.buf.file # NoFile /\ o.buf.length = b.length + Len(d)
           /\ ~o.err => o.n = Len(d) /\ o.buf.file = b.file \o d
<1>0. MemoryLimit \in Nat /\ IsTinyGo \in BOOLEAN
  BY OptionsTyped
<1>1. PICK n \in 0..Len(d) :
        o = Outcome([b EXCEPT !.file = @ \o Prefix(d, n), !.length = @ + Len(d)], n, n < Len(d))
  BY Zenon DEF FileWrites
<1>2. /\ o.n = n /\ (o.err <=> n < Len(d))
      /\ o.buf = [b EXCEPT !.file = @ \o Prefix(d, n), !.length = @ + Len(d)]
  BY <1>1, Zenon DEF Outcome
<1>3. /\ b.buffer \in Seq(Bytes) /\ b.length \in Nat /\ b \in Buffer /\ b.file \in Seq(Bytes)
  BY DEF Bounded, Buffer
<1>4. Prefix(d, n) \in Seq(Bytes) /\ (n = Len(d) => Prefix(d, n) = d)
  BY PrefixProperties
<1>5. o.buf = [buffer |-> b.buffer, length |-> b.length + Len(d), file |-> b.file \o Prefix(d, n)]
  BY <1>2, <1>3, Zenon DEF Buffer
<1>6. /\ o.buf.buffer = b.buffer /\ o.buf.length = b.length + Len(d)
      /\ o.buf.file = b.file \o Prefix(d, n) /\ o.buf.file \in Seq(Bytes)
      /\ o.buf \in Buffer
  BY <1>3, <1>4, <1>5 DEF Buffer
<1>7. Bounded(o.buf)
  <2>1. Len(Prefix(d, n)) = n /\ n <= Len(d) /\ n \in Nat /\ Len(d) \in Nat
    BY PrefixProperties
  <2>2. Len(o.buf.file) = Len(b.file) + n
    <3>1. Len(b.file \o Prefix(d, n)) = Len(b.file) + Len(Prefix(d, n))
      BY <1>3, <1>4, ConcatProperties, Zenon
    <3> QED BY <1>6, <2>1, <3>1, Zenon
  <2>3. Len(b.file) <= b.length /\ Len(b.file) \in Nat
    BY <1>3 DEF Bounded
  <2>4. Len(o.buf.file) <= o.buf.length
    BY <1>3, <1>6, <2>1, <2>2, <2>3
  <2> QED BY <1>0, <1>3, <1>6, <2>4 DEF Bounded
<1>8. o.buf.file # NoFile
  BY <1>6, BodyBufferAssumption, Zenon
<1>9. ~o.err => n = Len(d)
  BY <1>2
<1>10. ~o.err => o.n = Len(d) /\ o.buf.file = b.file \o d
  BY <1>2, <1>4, <1>6, <1>9
<1> QED BY <1>2, <1>6, <1>7, <1>8, <1>10, Zenon

(* The buffer whose memory has gone to the file. *)
LEMMA SpiltBuffer ==
    ASSUME NEW b \in Buffer, NEW e \in Seq(Bytes)
    PROVE  LET spilt == [b EXCEPT !.buffer = e, !.file = b.buffer] IN
           /\ spilt.buffer = e /\ spilt.length = b.length /\ spilt.file = b.buffer
           /\ spilt \in Buffer
  BY Zenon DEF Buffer

(* The write that moves the body to a file. *)
LEMMA SpillOutcome ==
    ASSUME options \in Builds, ~IsTinyGo, NEW b, Bounded(b), b.file = NoFile, NEW d \in Seq(Bytes),
           NEW o \in Spills(b, d)
    PROVE  /\ Bounded(o.buf) /\ o.n \in 0..Len(d)
           /\ ~o.err => /\ o.n = Len(d) /\ o.buf.file = b.buffer \o d /\ o.buf.file # NoFile
                        /\ o.buf.length = b.length + Len(d)
<1>0. MemoryLimit \in Nat /\ IsTinyGo \in BOOLEAN
  BY OptionsTyped
<1> DEFINE spilt == [b EXCEPT !.buffer = <<>>, !.file = b.buffer]
<1>1. /\ b.buffer \in Seq(Bytes) /\ b.length \in Nat /\ b \in Buffer
  BY DEF Bounded, Buffer
<1>2. CASE o = Outcome(b, 0, TRUE)
  BY <1>2 DEF Outcome
<1>3. CASE \E n \in 0..(Len(b.buffer) - 1) : o = Outcome([b EXCEPT !.file = Prefix(b.buffer, n)], 0, TRUE)
  <2>1. PICK n \in 0..(Len(b.buffer) - 1) : o = Outcome([b EXCEPT !.file = Prefix(b.buffer, n)], 0, TRUE)
    BY <1>3, Zenon
  <2>2. o.n = 0 /\ o.err /\ o.buf = [b EXCEPT !.file = Prefix(b.buffer, n)]
    BY <2>1 DEF Outcome
  <2>3. Prefix(b.buffer, n) \in Seq(Bytes) /\ Len(Prefix(b.buffer, n)) = n
    BY <1>1, PrefixProperties
  <2>4. /\ o.buf.buffer = b.buffer /\ o.buf.length = b.length
        /\ o.buf.file = Prefix(b.buffer, n) /\ o.buf \in Buffer
    BY <1>1, <2>2, <2>3, Zenon DEF Buffer
  <2>5. Bounded(o.buf)
    BY <1>0, <1>1, <2>3, <2>4 DEF Bounded
  <2> QED BY <2>2, <2>5
<1>4. CASE o \in FileWrites(spilt, d)
  <2>2. /\ spilt.buffer = <<>> /\ spilt.length = b.length /\ spilt.file = b.buffer
        /\ spilt \in Buffer
    BY <1>1, SpiltBuffer, EmptySeq, Zenon
  <2> HIDE DEF spilt
  <2>3. Bounded(spilt)
    BY <1>0, <1>1, <2>2 DEF Bounded
  <2>4. spilt.file # NoFile
    BY <1>1, <2>2, BodyBufferAssumption
  <2> QED BY <1>4, <2>2, <2>3, <2>4, FileOutcome, Zenon
<1> QED BY <1>2, <1>3, <1>4, Zenon DEF Spills

(* BodyBuffer.Write leaves a bounded buffer in every case.  When it reports *)
(* no error, what it says it took follows the content there was.            *)
LEMMA WriteOutcome ==
    ASSUME options \in Builds, NEW b, Bounded(b), NEW d \in Seq(Bytes), NEW o \in WriteOutcomes(b, d)
    PROVE  /\ Bounded(o.buf) /\ o.n \in 0..Len(d)
           /\ Sound(b) /\ ~o.err =>
                 Sound(o.buf) /\ Content(o.buf) = Content(b) \o Prefix(d, o.n)
<1>0. MemoryLimit \in Nat /\ IsTinyGo \in BOOLEAN
  BY OptionsTyped
<1>1. /\ b.buffer \in Seq(Bytes) /\ b.length \in Nat /\ b \in Buffer
      /\ b.file \in Seq(Bytes) \union {NoFile}
      /\ Content(b) \in Seq(Bytes)
  BY DEF Bounded, Buffer, Content
<1>2. CASE d = <<>>
  <2>1. o = Outcome(b, 0, FALSE)
    BY <1>2 DEF WriteOutcomes
  <2>2. o.buf = b /\ o.n = 0 /\ ~o.err
    BY <2>1 DEF Outcome
  <2>3. Content(b) = Content(b) \o Prefix(d, 0)
    <3>1. Len(d) = 0
      BY <1>2
    <3>2. Prefix(d, Len(d)) = d
      BY PrefixProperties
    <3>3. Content(b) \o <<>> = Content(b)
      BY <1>1, ConcatEmptySeq, Zenon
    <3> QED BY <1>2, <3>1, <3>2, <3>3, Zenon
  <2> QED BY <2>2, <2>3
<1>3. CASE d # <<>> /\ b.length + Len(d) <= MemoryLimit
  <2>1. o \in InMemory(b, d)
    BY <1>3 DEF WriteOutcomes
  <2>2. ~o.err
    BY <2>1 DEF InMemory, Outcome
  <2>3. Prefix(d, Len(d)) = d
    BY PrefixProperties
  <2>4. /\ Bounded(o.buf) /\ o.n = Len(d)
        /\ Sound(b) => Sound(o.buf) /\ Content(o.buf) = Content(b) \o d
    BY <1>3, <2>1, InMemoryOutcome
  <2>5. o.n \in 0..Len(d)
    BY <2>4
  <2> QED BY <2>2, <2>3, <2>4, <2>5
<1>4. CASE d # <<>> /\ ~(b.length + Len(d) <= MemoryLimit) /\ IsTinyGo
  <2> DEFINE n == MemoryLimit - b.length
  <2>1. o = Outcome([b EXCEPT !.buffer = @ \o Prefix(d, n), !.length = MemoryLimit], n, FALSE)
    BY <1>4 DEF WriteOutcomes
  <2>2. /\ o.n = n /\ ~o.err
        /\ o.buf = [b EXCEPT !.buffer = @ \o Prefix(d, n), !.length = MemoryLimit]
    BY <2>1 DEF Outcome
  <2>3. n \in 0..Len(d) /\ b.length + n = MemoryLimit /\ b.file = NoFile /\ b.length <= MemoryLimit
    BY <1>0, <1>1, <1>4 DEF Bounded
  <2> HIDE DEF n
  <2>4. Prefix(d, n) \in Seq(Bytes) /\ Len(Prefix(d, n)) = n
    BY <2>3, PrefixProperties
  <2>6. /\ o.buf.buffer = b.buffer \o Prefix(d, n) /\ o.buf.length = MemoryLimit
        /\ o.buf.file = b.file
        /\ o.buf \in Buffer
    <3> DEFINE e == b.buffer \o Prefix(d, n)
    <3>1. e \in Seq(Bytes)
      BY <1>1, <2>4, ConcatProperties, Zenon
    <3>2. o.buf = [b EXCEPT !.buffer = e, !.length = MemoryLimit]
      BY <2>2, Zenon
    <3> HIDE DEF e
    <3>3. /\ o.buf.buffer = e /\ o.buf.length = MemoryLimit
          /\ o.buf.file = b.file
          /\ o.buf \in Buffer
      <4>1. b \in Buffer /\ MemoryLimit \in Nat
        BY <1>0, <1>1
      <4> QED BY <3>1, <3>2, <4>1, Zenon DEF Buffer
    <3> QED BY <3>3 DEF e
  <2>7. Len(o.buf.buffer) <= MemoryLimit /\ (Len(b.buffer) = b.length => Len(o.buf.buffer) = MemoryLimit)
    <3>1. Len(b.buffer) \in Nat /\ Len(b.buffer) <= b.length
      BY <1>1 DEF Bounded
    <3>2. Len(o.buf.buffer) = Len(b.buffer) + n
      <4>1. Len(b.buffer \o Prefix(d, n)) = Len(b.buffer) + Len(Prefix(d, n))
        BY <1>1, <2>4, ConcatProperties, Zenon
      <4> QED BY <2>4, <2>6, <4>1, Zenon
    <3> QED BY <1>0, <1>1, <2>3, <3>1, <3>2
  <2>8. Bounded(o.buf)
    BY <1>0, <2>3, <2>6, <2>7 DEF Bounded
  <2>9. Content(o.buf) = o.buf.buffer /\ Content(b) = b.buffer
    BY <1>4 DEF Content
  <2>10. Sound(b) => Sound(o.buf)
    BY <2>3, <2>6, <2>7, <2>9 DEF Sound
  <2> QED BY <2>2, <2>3, <2>6, <2>8, <2>9, <2>10
<1>5. CASE d # <<>> /\ ~(b.length + Len(d) <= MemoryLimit) /\ ~IsTinyGo /\ b.file = NoFile
  <2>1. o \in Spills(b, d)
    BY <1>5 DEF WriteOutcomes
  <2>2. /\ Bounded(o.buf) /\ o.n \in 0..Len(d)
        /\ ~o.err => /\ o.n = Len(d) /\ o.buf.file = b.buffer \o d /\ o.buf.file # NoFile
                     /\ o.buf.length = b.length + Len(d)
    BY <1>5, <2>1, SpillOutcome
  <2>3. ASSUME Sound(b), ~o.err
        PROVE  Sound(o.buf) /\ Content(o.buf) = Content(b) \o Prefix(d, o.n)
    <3>1. Prefix(d, o.n) = d
      BY <2>2, <2>3, PrefixProperties
    <3>2. Content(b) = b.buffer /\ Content(o.buf) = o.buf.file
      BY <1>5, <2>2, <2>3 DEF Content
    <3>3. Len(b.buffer \o d) = Len(b.buffer) + Len(d)
      BY <1>1
    <3>4. b.length = Len(b.buffer) /\ b.length + Len(d) > MemoryLimit
      BY <1>0, <1>1, <1>5, <2>3, <3>2 DEF Sound
    <3>5. o.buf.length = Len(Content(o.buf)) /\ o.buf.length > MemoryLimit
      BY <2>2, <2>3, <3>2, <3>3, <3>4
    <3>6. Sound(o.buf)
      BY <3>5 DEF Sound
    <3> QED BY <2>2, <2>3, <3>1, <3>2, <3>6
  <2> QED BY <2>2, <2>3
<1>6. CASE d # <<>> /\ ~(b.length + Len(d) <= MemoryLimit) /\ ~IsTinyGo /\ b.file # NoFile
  <2>1. o \in FileWrites(b, d)
    BY <1>6 DEF WriteOutcomes
  <2>2. /\ Bounded(o.buf) /\ o.n \in 0..Len(d)
        /\ o.buf.file # NoFile /\ o.buf.length = b.length + Len(d)
        /\ ~o.err => o.n = Len(d) /\ o.buf.file = b.file \o d
    BY <1>6, <2>1, FileOutcome
  <2>3. ASSUME Sound(b), ~o.err
        PROVE  Sound(o.buf) /\ Content(o.buf) = Content(b) \o Prefix(d, o.n)
    <3>1. Prefix(d, o.n) = d
      BY <2>2, <2>3, PrefixProperties
    <3>2. Content(b) = b.file /\ Content(o.buf) = o.buf.file
      BY <1>6, <2>2, <2>3 DEF Content
    <3>3. Len(b.file \o d) = Len(b.file) + Len(d)
      BY <1>1, <1>6
    <3>4. b.length = Len(b.file) /\ b.length + Len(d) > MemoryLimit
      BY <1>0, <1>1, <1>6, <2>3, <3>2 DEF Sound
    <3>5. o.buf.length = Len(Content(o.buf)) /\ o.buf.length > MemoryLimit
      BY <2>2, <2>3, <3>2, <3>3, <3>4
    <3>6. Sound(o.buf)
      BY <3>5 DEF Sound
    <3> QED BY <2>2, <2>3, <3>1, <3>2, <3>6
  <2> QED BY <2>2, <2>3
<1> QED BY <1>2, <1>3, <1>4, <1>5, <1>6
-----------------------------------------------------------------------------
(* A fresh buffer is bounded and sound. *)
LEMMA NewBufferSound ==
    ASSUME options \in Builds
    PROVE  /\ Bounded(NewBodyBuffer) /\ Sound(NewBodyBuffer)
           /\ Content(NewBodyBuffer) = <<>>
<1>1. MemoryLimit \in Nat
  BY OptionsTyped
<1>2. /\ NewBodyBuffer.buffer = <<>> /\ NewBodyBuffer.length = 0 /\ NewBodyBuffer.file = NoFile
      /\ NewBodyBuffer \in Buffer
  BY DEF NewBodyBuffer, Buffer
<1>3. Content(NewBodyBuffer) = <<>>
  BY <1>2 DEF Content
<1> QED BY <1>1, <1>2, <1>3 DEF Bounded, Sound

(* With no reader there is nothing to say of readers. *)
LEMMA NoReadersTyped ==
    /\ DOMAIN NoReaders = {}
    /\ NoReaders \in [{} -> Seq(Bytes)] /\ NoReaders \in [{} -> Nat]
  BY DEF NoReaders, Stream!NoReaders

(* What one call may write. *)
LEMMA DataTyped ==
    ASSUME NEW d
    PROVE  d \in Data <=> d \in Seq(Bytes) /\ Len(d) <= MaxChunk
<1>1. MaxChunk \in Nat
  BY BodyBufferAssumption
<1>2. ASSUME d \in Data PROVE d \in Seq(Bytes) /\ Len(d) <= MaxChunk
  <2>1. PICK m \in 0..MaxChunk : d \in [1..m -> Bytes]
    BY <1>2 DEF Data
  <2>2. d \in Seq(Bytes) /\ Len(d) = m
    BY <1>1, <2>1
  <2> QED BY <1>1, <2>2
<1>3. ASSUME d \in Seq(Bytes), Len(d) <= MaxChunk PROVE d \in Data
  <2>1. Len(d) \in 0..MaxChunk /\ d \in [1..Len(d) -> Bytes]
    BY <1>1, <1>3, LenProperties
  <2> QED BY <2>1 DEF Data
<1> QED BY <1>2, <1>3

(* The initial states satisfy the invariant. *)
LEMMA InitInv == Init => IInv
<1> SUFFICES ASSUME Init PROVE IInv
  OBVIOUS
<1>1. TypeOK
  <2>1. DOMAIN pos = {} /\ pos \in [{} -> Nat] /\ seen \in [{} -> Seq(Bytes)]
    BY NoReadersTyped DEF Init
  <2>2. options \in Builds /\ body = <<>> /\ broken = FALSE
    BY DEF Init
  <2>3. body \in Seq(Bytes) /\ broken \in BOOLEAN
    BY <2>2, EmptySeq, Zenon
  <2> QED BY <2>1, <2>2, <2>3, Zenon DEF TypeOK
<1>2. Bounded(buf) /\ Sound(buf) /\ Content(buf) = body
  BY NewBufferSound DEF Init
<1>3. ReadersInv
  BY NoReadersTyped DEF Init, ReadersInv
<1> QED BY <1>1, <1>2, <1>3 DEF IInv, StreamInv

(* What the buffer holds is a sequence of bytes. *)
LEMMA ContentTyped ==
    ASSUME NEW b, Bounded(b)
    PROVE  Content(b) \in Seq(Bytes)
  BY DEF Bounded, Buffer, Content

(* A write keeps the invariant: the readers have seen a prefix of what is   *)
(* now a longer body.                                                       *)
LEMMA WriteInv ==
    ASSUME IInv, NEW d \in Data, Write(d)
    PROVE  IInv'
<1>1. d \in Seq(Bytes)
  BY DataTyped
<1>2. PICK o \in WriteOutcomes(buf, d) :
        buf' = o.buf /\ broken' = (broken \/ o.err) /\ body' = body \o Prefix(d, o.n)
  BY DEF Write
<1>3. /\ Bounded(o.buf) /\ o.n \in 0..Len(d)
      /\ Sound(buf) /\ ~o.err => Sound(o.buf) /\ Content(o.buf) = Content(buf) \o Prefix(d, o.n)
  BY <1>1, WriteOutcome DEF IInv, TypeOK
<1>4. options' = options
  BY DEF Write
<1>5. Prefix(d, o.n) \in Seq(Bytes)
  BY <1>1, <1>3, PrefixProperties
<1>6. body' \in Seq(Bytes)
  BY <1>2, <1>5, ConcatProperties, Zenon DEF IInv, TypeOK
<1>7. TypeOK'
  BY <1>2, <1>6 DEF IInv, TypeOK, Write
<1>8. Bounded(buf)'
  BY <1>2, <1>3, <1>4 DEF Bounded, MemoryLimit, IsTinyGo
<1>9. StreamInv'
  <2> SUFFICES ASSUME ~broken' PROVE Sound(buf)' /\ (Content(buf) = body)' /\ ReadersInv'
    BY DEF StreamInv
  <2>1. ~broken /\ ~o.err
    BY <1>2, Zenon
  <2>2. Sound(buf) /\ Content(buf) = body /\ ReadersInv
    BY <2>1 DEF IInv, StreamInv
  <2>3. Sound(o.buf) /\ Content(o.buf) = body'
    BY <1>2, <1>3, <2>1, <2>2
  <2>4. Sound(buf)' /\ (Content(buf) = body)'
    BY <1>2, <1>4, <2>3 DEF Sound, Content, MemoryLimit, IsTinyGo
  <2>5. ReadersInv'
    <3>1. pos' = pos /\ seen' = seen
      BY DEF Write
    <3> SUFFICES ASSUME NEW r \in DOMAIN pos
                 PROVE  pos[r] <= Len(body') /\ seen[r] = SubSeq(body', 1, pos[r])
      BY <3>1 DEF ReadersInv
    <3>2. /\ pos[r] \in Nat /\ pos[r] <= Len(body) /\ seen[r] = SubSeq(body, 1, pos[r])
          /\ body \in Seq(Bytes)
      BY <2>2 DEF ReadersInv, IInv, TypeOK
    <3> QED BY <1>2, <1>5, <3>2
  <2> QED BY <2>4, <2>5
<1> QED BY <1>7, <1>8, <1>9 DEF IInv

(* A new reader keeps it. *)
LEMMA ReaderInv ==
    ASSUME IInv, NEW r \in Readers, Reader(r)
    PROVE  IInv'
<1>1. /\ pos'  = [q \in DOMAIN pos \union {r} |-> IF q = r THEN 0 ELSE pos[q]]
      /\ seen' = [q \in DOMAIN pos \union {r} |-> IF q = r THEN <<>> ELSE seen[q]]
      /\ UNCHANGED <<options, buf, body, eof, broken>>
  BY DEF Reader
<1>2. DOMAIN pos' = DOMAIN pos \union {r}
  BY <1>1
<1>3. pos' \in [DOMAIN pos' -> Nat]
  BY <1>1, <1>2 DEF IInv, TypeOK
<1>4. seen' \in [DOMAIN pos' -> Seq(Bytes)]
  BY <1>1, <1>2 DEF IInv, TypeOK
<1>5. TypeOK'
  BY <1>1, <1>3, <1>4 DEF IInv, TypeOK
<1>6. ASSUME ReadersInv PROVE ReadersInv'
  <2> SUFFICES ASSUME NEW q \in DOMAIN pos'
               PROVE  pos'[q] <= Len(body) /\ seen'[q] = SubSeq(body, 1, pos'[q])
    BY <1>1, Zenon DEF ReadersInv
  <2>1. body \in Seq(Bytes)
    BY DEF IInv, TypeOK
  <2>2. CASE q = r
    BY <1>1, <2>1, <2>2
  <2>3. CASE q # r
    BY <1>1, <1>2, <1>6, <2>3 DEF ReadersInv
  <2> QED BY <2>2, <2>3
<1>7. Bounded(buf)'
  BY <1>1 DEF IInv, Bounded, MemoryLimit, IsTinyGo
<1>8. StreamInv'
  BY <1>1, <1>6 DEF IInv, StreamInv, Sound, Content, MemoryLimit, IsTinyGo
<1> QED BY <1>5, <1>7, <1>8 DEF IInv

(* What a read returns of an unbroken body: it stops at the end of the body *)
(* and only there.                                                          *)
LEMMA ReadReturns ==
    ASSUME IInv, ~broken, NEW r, NEW size \in 1..MaxChunk, Read(r, size)
    PROVE  /\ r \in DOMAIN pos
           /\ \E n \in pos[r]..Len(body) :
                 /\ pos'  = [pos EXCEPT ![r] = n]
                 /\ seen' = [seen EXCEPT ![r] = SubSeq(body, 1, n)]
                 /\ \/ eof' = eof \ {r}
                    \/ n = Len(body) /\ eof' = eof \union {r}
<1> DEFINE c    == Content(buf)
           left == IF pos[r] > Len(c) THEN 0 ELSE Len(c) - pos[r]
           n    == IF size > left THEN left ELSE size
<1>1. /\ r \in DOMAIN pos
      /\ seen' = [seen EXCEPT ![r] = @ \o SubSeq(c, pos[r] + 1, pos[r] + n)]
      /\ pos' = [pos EXCEPT ![r] = @ + n]
      /\ eof' = IF n = 0 \/ (Content(buf) = buf.file /\ n < size) THEN eof \union {r} ELSE eof \ {r}
  BY DEF Read
<1>2. /\ c = body /\ body \in Seq(Bytes) /\ pos[r] \in Nat /\ pos[r] <= Len(body)
      /\ seen[r] = SubSeq(body, 1, pos[r])
      /\ pos \in [DOMAIN pos -> Nat] /\ seen \in [DOMAIN pos -> Seq(Bytes)]
  BY <1>1, Zenon DEF IInv, TypeOK, StreamInv, ReadersInv
<1>3. size \in Nat \ {0}
  BY BodyBufferAssumption
<1>4. left = Len(body) - pos[r] /\ left \in Nat
  BY <1>2
<1> HIDE DEF left
<1>5. n \in Nat /\ n <= left /\ (n < size => n = left) /\ (n = 0 => n = left)
  BY <1>3, <1>4
<1> HIDE DEF n, c
<1>6. pos[r] + n \in pos[r]..Len(body)
  BY <1>2, <1>4, <1>5
<1>7. SubSeq(body, 1, pos[r]) \o SubSeq(body, pos[r] + 1, pos[r] + n) = SubSeq(body, 1, pos[r] + n)
  <2>1. 1 \in 1 .. Len(body) + 1 /\ pos[r] \in 1 - 1 .. Len(body)
    BY <1>2
  <2> QED BY <1>2, <1>6, <2>1, ConcatAdjacentSubSeq, Zenon
<1>8. seen' = [seen EXCEPT ![r] = SubSeq(body, 1, pos[r] + n)]
  BY <1>1, <1>2, <1>7, Zenon
<1>9. \/ eof' = eof \ {r}
      \/ pos[r] + n = Len(body) /\ eof' = eof \union {r}
  <2>1. CASE n = 0 \/ (Content(buf) = buf.file /\ n < size)
    <3>1. n = left
      BY <1>5, <2>1
    <3>2. eof' = eof \union {r}
      BY <1>1, <2>1
    <3> QED BY <1>2, <1>4, <3>1, <3>2
  <2>2. CASE ~(n = 0 \/ (Content(buf) = buf.file /\ n < size))
    BY <1>1, <2>2
  <2> QED BY <2>1, <2>2
<1> QED BY <1>1, <1>6, <1>8, <1>9, Zenon

(* A read keeps the invariant. *)
LEMMA ReadInv ==
    ASSUME IInv, NEW r, NEW size \in 1..MaxChunk, Read(r, size)
    PROVE  IInv'
<1>1. UNCHANGED <<options, buf, body, broken>>
  BY DEF Read
<1>2. Bounded(buf)'
  BY <1>1 DEF IInv, Bounded, MemoryLimit, IsTinyGo
<1>3. TypeOK'
  <2> DEFINE c    == Content(buf)
             left == IF pos[r] > Len(c) THEN 0 ELSE Len(c) - pos[r]
             n    == IF size > left THEN left ELSE size
             more == SubSeq(c, pos[r] + 1, pos[r] + n)
  <2>1. /\ r \in DOMAIN pos
        /\ seen' = [seen EXCEPT ![r] = @ \o more]
        /\ pos' = [pos EXCEPT ![r] = @ + n]
    BY DEF Read
  <2>2. c \in Seq(Bytes) /\ size \in Nat /\ pos[r] \in Nat
    BY <2>1, ContentTyped, BodyBufferAssumption DEF IInv, TypeOK
  <2>3. n \in Nat /\ (pos[r] + n <= Len(c) \/ n = 0)
    BY <2>2
  <2> HIDE DEF n, c
  <2>4. n \in Nat
    BY <2>3
  <2>5. more \in Seq(Bytes)
    BY <2>2, <2>3, SubSeqEmpty
  <2> HIDE DEF more
  <2>6. seen[r] \o more \in Seq(Bytes)
    BY <2>1, <2>5 DEF IInv, TypeOK
  <2>7. pos' \in [DOMAIN pos -> Nat] /\ DOMAIN pos' = DOMAIN pos
    BY <2>1, <2>2, <2>4 DEF IInv, TypeOK
  <2>8. seen' \in [DOMAIN pos -> Seq(Bytes)]
    BY <2>1, <2>6 DEF IInv, TypeOK
  <2> QED BY <1>1, <2>7, <2>8 DEF IInv, TypeOK
<1>4. StreamInv'
  <2> SUFFICES ASSUME ~broken' PROVE Sound(buf)' /\ (Content(buf) = body)' /\ ReadersInv'
    BY DEF StreamInv
  <2>1. ~broken
    BY <1>1
  <2>2. Sound(buf)' /\ (Content(buf) = body)'
    BY <1>1, <2>1 DEF IInv, StreamInv, Sound, Content, MemoryLimit, IsTinyGo
  <2>3. PICK n \in pos[r]..Len(body) :
          /\ pos'  = [pos EXCEPT ![r] = n]
          /\ seen' = [seen EXCEPT ![r] = SubSeq(body, 1, n)]
    BY <2>1, ReadReturns
  <2>4. ReadersInv'
    <3> SUFFICES ASSUME NEW q \in DOMAIN pos'
                 PROVE  pos'[q] <= Len(body) /\ seen'[q] = SubSeq(body, 1, pos'[q])
      BY <1>1 DEF ReadersInv
    <3>1. q \in DOMAIN pos /\ DOMAIN seen = DOMAIN pos
      BY <2>3 DEF IInv, TypeOK
    <3>2. CASE q = r
      BY <2>3, <3>1, <3>2
    <3>3. CASE q # r
      BY <2>1, <2>3, <3>1, <3>3 DEF IInv, StreamInv, ReadersInv
    <3> QED BY <3>2, <3>3
  <2> QED BY <2>2, <2>4
<1> QED BY <1>2, <1>3, <1>4 DEF IInv

(* What prepend leaves when nothing fails: the data in front of the body. *)
LEMMA PrependLeaves ==
    ASSUME IInv, NEW d \in Data, Prepend(d)
    PROVE  /\ Bounded(buf') /\ body' \in Seq(Bytes)
           /\ ~broken' => ~broken /\ Sound(buf') /\ Content(buf') = body'
           /\ broken' \in BOOLEAN
           /\ \E n \in 0..Len(d) : body' = Prefix(d, n) \o body
<1>1. d \in Seq(Bytes) /\ options \in Builds /\ body \in Seq(Bytes)
  BY DataTyped DEF IInv, TypeOK
<1>0. PICK o1 \in WriteOutcomes(NewBodyBuffer, d) : \E o2 \in WriteOutcomes(o1.buf, Content(buf)) :
        /\ buf' = o2.buf
        /\ broken' = (broken \/ o1.err \/ o2.err \/ o2.n < Len(Content(buf)))
        /\ body' = Prefix(d, o1.n) \o body
  BY DEF Prepend
<1>2. PICK o2 \in WriteOutcomes(o1.buf, Content(buf)) :
        /\ buf' = o2.buf
        /\ broken' = (broken \/ o1.err \/ o2.err \/ o2.n < Len(Content(buf)))
        /\ body' = Prefix(d, o1.n) \o body
  BY <1>0
<1>3. /\ Bounded(o1.buf) /\ o1.n \in 0..Len(d)
      /\ ~o1.err => Sound(o1.buf) /\ Content(o1.buf) = <<>> \o Prefix(d, o1.n)
  <2>1. Bounded(NewBodyBuffer) /\ Sound(NewBodyBuffer) /\ Content(NewBodyBuffer) = <<>>
    BY <1>1, NewBufferSound
  <2> QED BY <1>1, <2>1, WriteOutcome, Zenon
<1>4. Content(buf) \in Seq(Bytes)
  BY ContentTyped DEF IInv
<1>5. /\ Bounded(o2.buf) /\ o2.n \in 0..Len(Content(buf))
      /\ Sound(o1.buf) /\ ~o2.err =>
            Sound(o2.buf) /\ Content(o2.buf) = Content(o1.buf) \o Prefix(Content(buf), o2.n)
  BY <1>1, <1>3, <1>4, WriteOutcome
<1>6. Prefix(d, o1.n) \in Seq(Bytes)
  BY <1>1, <1>3, PrefixProperties
<1>7. body' \in Seq(Bytes)
  BY <1>1, <1>2, <1>6, ConcatProperties, Zenon
<1>8. ASSUME ~broken' PROVE ~broken /\ Sound(buf') /\ Content(buf') = body'
  <2>1. ~broken /\ ~o1.err /\ ~o2.err /\ ~(o2.n < Len(Content(buf)))
    BY <1>2, <1>8, Zenon
  <2>2. o2.n = Len(Content(buf))
    BY <1>4, <1>5, <2>1
  <2>3. Prefix(Content(buf), o2.n) = Content(buf)
    BY <1>4, <2>2, PrefixProperties
  <2>4. Content(buf) = body
    BY <2>1 DEF IInv, StreamInv
  <2>5. <<>> \o Prefix(d, o1.n) = Prefix(d, o1.n)
    BY <1>6, ConcatEmptySeq
  <2> QED BY <1>2, <1>3, <1>5, <2>1, <2>3, <2>4, <2>5
<1> QED BY <1>2, <1>3, <1>5, <1>7, <1>8, Zenon

(* A prepend keeps the invariant. *)
LEMMA PrependInv ==
    ASSUME IInv, NEW d \in Data, Prepend(d)
    PROVE  IInv'
<1>1. /\ UNCHANGED <<options, pos, seen, eof>> /\ pos = NoReaders
      /\ options.ContentInjection
  BY DEF Prepend
<1>2. /\ Bounded(buf') /\ body' \in Seq(Bytes) /\ broken' \in BOOLEAN
      /\ ~broken' => ~broken /\ Sound(buf') /\ Content(buf') = body'
  BY PrependLeaves
<1>3. Bounded(buf)'
  BY <1>1, <1>2 DEF Bounded, MemoryLimit, IsTinyGo
<1>4. TypeOK'
  BY <1>1, <1>2 DEF IInv, TypeOK
<1>5. StreamInv'
  <2>1. ReadersInv'
    BY <1>1, NoReadersTyped DEF ReadersInv
  <2> QED BY <1>1, <1>2, <2>1 DEF StreamInv, Sound, Content, MemoryLimit, IsTinyGo
<1> QED BY <1>3, <1>4, <1>5 DEF IInv

(* Reset starts over. *)
LEMMA ResetInv ==
    ASSUME IInv, Reset
    PROVE  IInv'
<1>1. /\ buf' = NewBodyBuffer /\ pos' = NoReaders /\ seen' = NoReaders
      /\ body' = <<>> /\ broken' = FALSE /\ options' = options
  BY DEF Reset
<1>2. options \in Builds
  BY DEF IInv, TypeOK
<1>3. Bounded(buf)' /\ Sound(buf)' /\ (Content(buf) = body)'
  BY <1>1, <1>2, NewBufferSound DEF Bounded, Sound, Content, MemoryLimit, IsTinyGo
<1>4. TypeOK'
  <2>1. DOMAIN pos' = {} /\ pos' \in [{} -> Nat] /\ seen' \in [{} -> Seq(Bytes)]
    BY <1>1, NoReadersTyped
  <2>2. body' \in Seq(Bytes) /\ broken' \in BOOLEAN
    BY <1>1, EmptySeq, Zenon
  <2> QED BY <1>1, <1>2, <2>1, <2>2, Zenon DEF TypeOK
<1>5. ReadersInv'
  BY <1>1, NoReadersTyped DEF ReadersInv
<1> QED BY <1>3, <1>4, <1>5 DEF IInv, StreamInv

(* Every step of the buffer keeps the invariant. *)
LEMMA StepInv == IInv /\ [Next]_vars => IInv'
<1> SUFFICES ASSUME IInv, [Next]_vars PROVE IInv'
  OBVIOUS
<1>1. ASSUME NEW d \in Data, Write(d) PROVE IInv'
  BY <1>1, WriteInv
<1>2. ASSUME NEW d \in Data, Prepend(d) PROVE IInv'
  BY <1>2, PrependInv
<1>3. ASSUME NEW r \in Readers, Reader(r) PROVE IInv'
  BY <1>3, ReaderInv
<1>4. ASSUME NEW r \in Readers, NEW size \in 1..MaxChunk, Read(r, size) PROVE IInv'
  BY <1>4, ReadInv
<1>5. CASE Reset
  BY <1>5, ResetInv
<1>6. CASE UNCHANGED vars
  BY <1>6 DEF vars, IInv, TypeOK, Bounded, StreamInv, Sound, Content, ReadersInv,
              MemoryLimit, IsTinyGo
<1> QED BY <1>1, <1>2, <1>3, <1>4, <1>5, <1>6 DEF Next

(* The memory a body takes stays within MemoryLimit, for every limit, every *)
(* cut of the body into writes and every error of the file (BodyBuffer.     *)
(* Write).                                                                  *)
THEOREM MemoryStaysBounded == Spec => []MemoryBounded
<1>1. IInv => MemoryBounded
  BY DEF IInv, Bounded, MemoryBounded
<1> QED BY <1>1, InitInv, StepInv, PTL DEF Spec

(* Every byte a body stores counts towards its limit, for every limit of the *)
(* memory and wherever creating, filling or extending the file fails         *)
(* (BodyBuffer.Write, prependFn.Evaluate).                                   *)
THEOREM StoredCounted == Spec => []StoredIsCounted
<1>1. ASSUME IInv PROVE StoredIsCounted
  <2>1. Len(Content(buf)) <= buf.length
    BY <1>1 DEF IInv, Bounded, Content
  <2>2. ~broken => Len(Content(buf)) = buf.length
    BY <1>1 DEF IInv, StreamInv, Sound
  <2> QED BY <2>1, <2>2 DEF StoredIsCounted
<1> QED BY <1>1, InitInv, StepInv, PTL DEF Spec
-----------------------------------------------------------------------------
(* After an error any step is one of the stream. *)
LEMMA BrokenStep == broken' = TRUE => Stream!StreamNext
  BY DEF Stream!StreamNext, Stream!Fail

(* A write extends the stream, or fails. *)
LEMMA WriteStep ==
    ASSUME IInv, NEW d \in Data, Write(d)
    PROVE  Stream!StreamNext
<1>1. d \in Seq(Bytes) /\ Len(d) <= MaxChunk
  BY DataTyped
<1>2. PICK o \in WriteOutcomes(buf, d) :
        buf' = o.buf /\ broken' = (broken \/ o.err) /\ body' = body \o Prefix(d, o.n)
  BY DEF Write
<1>3. o.n \in 0..Len(d)
  BY <1>1, WriteOutcome DEF IInv, TypeOK
<1>4. CASE broken \/ o.err
  BY <1>2, <1>4, BrokenStep, Zenon
<1>5. CASE ~(broken \/ o.err)
  <2>1. broken' = broken
    BY <1>2, <1>5 DEF IInv, TypeOK
  <2>2. Prefix(d, o.n) \in Seq(Bytes) /\ Len(Prefix(d, o.n)) <= MaxChunk
    BY <1>1, <1>3, PrefixProperties, BodyBufferAssumption
  <2>3. Prefix(d, o.n) \in Data
    BY <2>2, DataTyped
  <2>4. seen' = seen /\ eof' = eof
    BY DEF Write
  <2>5. Stream!Extend
    BY <1>2, <2>1, <2>3, <2>4, Zenon DEF Stream!Extend
  <2> QED BY <2>5 DEF Stream!StreamNext
<1> QED BY <1>4, <1>5

(* A prepend injects before the stream, or fails. *)
LEMMA PrependStep ==
    ASSUME IInv, NEW d \in Data, Prepend(d)
    PROVE  Stream!StreamNext
<1>1. d \in Seq(Bytes) /\ Len(d) <= MaxChunk
  BY DataTyped
<1>2. broken' \in BOOLEAN /\ (~broken' => ~broken)
  BY PrependLeaves
<1>3. PICK n \in 0..Len(d) : body' = Prefix(d, n) \o body
  BY PrependLeaves
<1>4. CASE broken'
  BY <1>2, <1>4, BrokenStep
<1>5. CASE ~broken'
  <2>1. broken' = broken
    BY <1>2, <1>5 DEF IInv, TypeOK
  <2>2. Prefix(d, n) \in Seq(Bytes) /\ Len(Prefix(d, n)) <= MaxChunk
    BY <1>1, PrefixProperties, BodyBufferAssumption
  <2>3. Prefix(d, n) \in Data
    BY <2>2, DataTyped
  <2>4. seen' = seen /\ eof' = eof /\ pos = NoReaders
    BY DEF Prepend
  <2>5. DOMAIN pos = {} /\ seen \in [DOMAIN pos -> Seq(Bytes)]
    BY <2>4, NoReadersTyped DEF IInv, TypeOK
  <2>6. seen = Stream!NoReaders
    BY <2>5 DEF Stream!NoReaders
  <2>7. Stream!Inject
    BY <1>3, <2>1, <2>3, <2>4, <2>6 DEF Stream!Inject
  <2> QED BY <2>7 DEF Stream!StreamNext
<1> QED BY <1>4, <1>5

(* A new reader opens the stream. *)
LEMMA ReaderStep ==
    ASSUME IInv, NEW r \in Readers, Reader(r)
    PROVE  Stream!StreamNext
<1>1. DOMAIN seen = DOMAIN pos
  BY DEF IInv, TypeOK
<1>2. Stream!Open(r)
  BY <1>1 DEF Reader, Stream!Open
<1> QED BY <1>2 DEF Stream!StreamNext

(* A read of an unbroken body yields what comes next of the stream, and     *)
(* reports the end only at the end.                                         *)
LEMMA ReadStep ==
    ASSUME IInv, NEW r \in Readers, NEW size \in 1..MaxChunk, Read(r, size)
    PROVE  Stream!StreamNext
<1>1. broken' = broken /\ body' = body
  BY DEF Read
<1>2. CASE broken
  BY <1>1, <1>2, BrokenStep DEF IInv, TypeOK
<1>3. CASE ~broken
  <2>1. r \in DOMAIN pos
    BY <1>3, ReadReturns
  <2>2. PICK n \in pos[r]..Len(body) :
          /\ seen' = [seen EXCEPT ![r] = SubSeq(body, 1, n)]
          /\ \/ eof' = eof \ {r}
             \/ n = Len(body) /\ eof' = eof \union {r}
    BY <1>3, ReadReturns
  <2>3. /\ DOMAIN seen = DOMAIN pos /\ pos[r] \in Nat /\ body \in Seq(Bytes)
        /\ pos[r] <= Len(body) /\ seen[r] = SubSeq(body, 1, pos[r])
    BY <1>3, <2>1 DEF IInv, TypeOK, StreamInv, ReadersInv
  <2>4. Len(seen[r]) = pos[r]
    BY <2>3
  <2>5. Stream!Yield(r)
    BY <1>1, <2>1, <2>2, <2>3, <2>4, Zenon DEF Stream!Yield
  <2> QED BY <2>5 DEF Stream!StreamNext
<1> QED BY <1>2, <1>3

(* The buffer implements ByteStream, for every limit, build and size: what  *)
(* its readers are given is what was written, in order and from the first   *)
(* byte, across the move to the file, in bodyBufferReader.Read and          *)
(* BodyBuffer.Write.                                                        *)
THEOREM StreamImplemented == Spec => ImplementsStream
<1>1. Init => Stream!StreamInit
  BY DEF Init, Stream!StreamInit, NoReaders
<1>2. IInv /\ [Next]_vars => [Stream!StreamNext]_(Stream!streamVars)
  <2> SUFFICES ASSUME IInv, [Next]_vars PROVE [Stream!StreamNext]_(Stream!streamVars)
    OBVIOUS
  <2>1. ASSUME NEW d \in Data, Write(d) PROVE Stream!StreamNext
    BY <2>1, WriteStep
  <2>2. ASSUME NEW d \in Data, Prepend(d) PROVE Stream!StreamNext
    BY <2>2, PrependStep
  <2>3. ASSUME NEW r \in Readers, Reader(r) PROVE Stream!StreamNext
    BY <2>3, ReaderStep
  <2>4. ASSUME NEW r \in Readers, NEW size \in 1..MaxChunk, Read(r, size) PROVE Stream!StreamNext
    BY <2>4, ReadStep
  <2>5. CASE Reset
    BY <2>5 DEF Reset, Stream!StreamNext, Stream!Clear, NoReaders
  <2>6. CASE UNCHANGED vars
    BY <2>6 DEF vars, Stream!streamVars
  <2> QED BY <2>1, <2>2, <2>3, <2>4, <2>5, <2>6 DEF Next
<1> QED BY <1>1, <1>2, InitInv, StepInv, PTL DEF Spec, ImplementsStream, Stream!StreamSpec
=============================================================================
