--------------------------------- MODULE Rbl ---------------------------------
(***************************************************************************)
(* The rbl operator (operators/rbl.go).  Evaluate starts a goroutine that  *)
(* looks the address up, first its host and then its text record, and      *)
(* waits for the answer on an unbuffered channel, at most 500 ms.  The     *)
(* goroutine holds the transaction and writes TX itself.                   *)
(*                                                                         *)
(* Calls are numbered; call c has its own channel, context and goroutine,  *)
(* and its text record, when there is one, is c.  The rest of the          *)
(* transaction goes on between calls and may end: its variables are then   *)
(* reset and the same object serves the next transaction.                  *)
(***************************************************************************)
EXTENDS Naturals

CONSTANT MaxCalls        (* bound: calls of Evaluate                         *)

ASSUME RblAssumption == MaxCalls \in Nat

VARIABLES
    call,       (* the last call of Evaluate, 0 before the first             *)
    waiting,    (* whether it is in its select                               *)
    cancelled,  (* the calls whose context was cancelled                     *)
    looker,     (* call -> its goroutine: [at, captures]; at is the lookup it    *)
                (* is in, "set", the value it sends or "closed"              *)
    result,     (* call -> what Evaluate returned                            *)
    transaction,(* the transaction the object serves                         *)
    owner,      (* call -> the transaction it was made for                   *)
    Capture,    (* tx.Capture: whether the rule of the last call captures    *)
    httpbl_msg, (* TX:httpbl_msg, 0 when it is not set                       *)
    capture     (* TX:0, likewise                                            *)

txVars == <<transaction, owner, Capture>>
rblVars == <<call, waiting, cancelled, looker, result, txVars, httpbl_msg, capture>>

Calls == 1..MaxCalls

RblInit ==
    /\ call = 0 /\ waiting = FALSE /\ cancelled = {}
    /\ looker = [c \in Calls |-> [at |-> "unborn", captures |-> 0]]
    /\ result = [c \in Calls |-> "none"]
    /\ transaction = 1 /\ owner = [c \in Calls |-> 0] /\ Capture = FALSE
    /\ httpbl_msg = 0 /\ capture = 0
-----------------------------------------------------------------------------
(* The rule has the capture action or not. *)
Evaluate ==
    /\ ~waiting /\ call < MaxCalls
    /\ call' = call + 1 /\ waiting' = TRUE
    /\ looker' = [looker EXCEPT ![call + 1].at = "LookupHost"]
    /\ owner' = [owner EXCEPT ![call + 1] = transaction]
    /\ Capture' \in BOOLEAN
    /\ UNCHANGED <<cancelled, result, transaction, httpbl_msg, capture>>

Goes(c, from, to) == looker[c].at = from /\ looker' = [looker EXCEPT ![c].at = to]

(* An error (an unlisted address, a cancelled context) is sent as false; no *)
(* host in the answer skips the text record.  A lookup under way when its   *)
(* context is cancelled may still answer, one begun later does not.         *)
LookupHost(c) ==
    /\ \E to \in {"false", "true"} \cup (IF c \in cancelled THEN {} ELSE {"LookupTXT"}) : Goes(c, "LookupHost", to)
    /\ UNCHANGED <<call, waiting, cancelled, result, txVars, httpbl_msg, capture>>

LookupTXT(c) ==
    /\ \E to \in {"false", "set", "true"} : Goes(c, "LookupTXT", to)
    /\ UNCHANGED <<call, waiting, cancelled, result, txVars, httpbl_msg, capture>>

SetMessage(c) ==
    /\ looker[c].at = "set"
    /\ looker' = [looker EXCEPT ![c] = [at |-> "true", captures |-> c]]
    /\ httpbl_msg' = c
    /\ UNCHANGED <<call, waiting, cancelled, result, txVars, capture>>

(* Transaction.CaptureField(0, value) *)
CaptureField(value) == capture' = IF Capture THEN value ELSE capture

(* The send meets the select; cancel is deferred. *)
Receive ==
    /\ waiting /\ waiting' = FALSE
    /\ \E res \in {"true", "false"} :
          /\ Goes(call, res, "closed")
          /\ result' = [result EXCEPT ![call] = res]
          /\ IF res = "true" /\ looker[call].captures # 0 THEN CaptureField(looker[call].captures)
             ELSE UNCHANGED capture
    /\ cancelled' = cancelled \cup {call}
    /\ UNCHANGED <<call, txVars, httpbl_msg>>

(* mutant: the timer's branch answers that the address is listed *)
Timeout_Matches ==
    /\ waiting
    /\ waiting' = FALSE
    /\ result' = [result EXCEPT ![call] = "true"]
    /\ cancelled' = cancelled \cup {call}
    /\ UNCHANGED <<call, looker, txVars, httpbl_msg, capture>>

(* mutant: no timer *)
Timeout_Never ==
    /\ FALSE
    /\ UNCHANGED rblVars

Timeout ==
    /\ waiting
    /\ waiting' = FALSE
    /\ result' = [result EXCEPT ![call] = "false"]
    /\ cancelled' = cancelled \cup {call}
    /\ UNCHANGED <<call, looker, txVars, httpbl_msg, capture>>

(* Close and the next NewTransaction on the same object. *)
Reuse ==
    /\ ~waiting /\ transaction <= call
    /\ transaction' = transaction + 1
    /\ httpbl_msg' = 0 /\ capture' = 0 /\ Capture' = FALSE
    /\ UNCHANGED <<call, waiting, cancelled, looker, result, owner>>

Goroutine(c) == LookupHost(c) \/ LookupTXT(c) \/ SetMessage(c)

RblNext == Evaluate \/ Receive \/ Timeout \/ Reuse \/ \E c \in Calls : Goroutine(c)

RblSpec == RblInit /\ [][RblNext]_rblVars

(* The runtime schedules the caller and fires its timer; a resolver may    *)
(* never answer.                                                            *)
RblFairSpec == RblSpec /\ WF_rblVars(Receive) /\ WF_rblVars(Timeout)
-----------------------------------------------------------------------------
(* An address is reported as listed only when the lookups of that very call *)
(* said so, and then TX:0 of its transaction is that call's record if there *)
(* is one and the rule captures, and not otherwise, also when the           *)
(* goroutines of earlier calls are still running.  TX:httpbl_msg            *)
(* is of a lookup made for this transaction, unless the timer had given the *)
(* lookup up (whose goroutine writes TX all the same).                      *)
MatchIsOwnAnswer ==
    /\ \A c \in Calls : result[c] = "true" => looker[c].at = "closed"
    /\ ~waiting /\ call > 0 /\ owner[call] = transaction /\ result[call] = "true" =>
          /\ looker[call].captures = 0 \/ ~Capture => capture # call
          /\ httpbl_msg = call /\ Capture => capture = call
    /\ httpbl_msg # 0 => owner[httpbl_msg] = transaction \/ result[httpbl_msg] = "false"

(* Evaluate always returns, even when the resolver never answers: the timer *)
(* bounds the time the rule takes.                                          *)
EvaluateReturns == []<>~waiting
=============================================================================
