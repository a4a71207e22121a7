----------------------------- MODULE ByteStream -----------------------------
(***************************************************************************)
(* What a body buffer promises to the code that fills and reads it: one    *)
(* stream of bytes, and readers that each see it from its first byte and   *)
(* are told the end only at the end.  Nothing is promised of the stream    *)
(* once an operation on it has reported an error, until the next reset.    *)
(***************************************************************************)
EXTENDS Naturals, Sequences

CONSTANTS Readers, Chunk    (* what one write or injection may add *)

VARIABLES body,      (* the bytes written                                  *)
          seen,      (* what each reader has been given; not in the domain: *)
                     (* the reader does not exist                          *)
          eof,       (* the readers whose last read reported the end       *)
          broken     (* an operation reported an error                     *)

streamVars == <<body, seen, eof, broken>>

NoReaders == [r \in {} |-> <<>>]

StreamInit == body = <<>> /\ seen = NoReaders /\ eof = {} /\ broken = FALSE

Extend == \E d \in Chunk : body' = body \o d /\ UNCHANGED <<seen, eof, broken>>

Inject ==
    /\ seen = NoReaders
    /\ \E d \in Chunk : body' = d \o body /\ UNCHANGED <<seen, eof, broken>>

Open(r) ==
    /\ r \notin DOMAIN seen
    /\ seen' = [q \in DOMAIN seen \union {r} |-> IF q = r THEN <<>> ELSE seen[q]]
    /\ UNCHANGED <<body, eof, broken>>

Yield(r) ==
    /\ r \in DOMAIN seen
    /\ \E n \in Len(seen[r])..Len(body) :
          /\ seen' = [seen EXCEPT ![r] = SubSeq(body, 1, n)]
          /\ \/ eof' = eof \ {r}
             \/ n = Len(body) /\ eof' = eof \union {r}
    /\ UNCHANGED <<body, broken>>

Clear == body' = <<>> /\ seen' = NoReaders /\ eof' = {} /\ broken' = FALSE

Fail == broken' = TRUE

StreamNext ==
    \/ Extend \/ Inject
    \/ \E r \in Readers : Open(r) \/ Yield(r)
    \/ Clear \/ Fail

StreamSpec == StreamInit /\ [][StreamNext]_streamVars
=============================================================================
