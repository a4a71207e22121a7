---------------------------- MODULE MCBodyBuffer ----------------------------
(* Instances of BodyBuffer for TLC. *)
EXTENDS BodyBuffer

(* The body outgrows the memory in each of them: the ordinary build, the one *)
(* without files, and a response that rules may prepend to.                  *)
MCBuilds == {[MemoryLimit |-> 2, IsTinyGo |-> FALSE, ContentInjection |-> FALSE],
             [MemoryLimit |-> 3, IsTinyGo |-> TRUE,  ContentInjection |-> FALSE],
             [MemoryLimit |-> 1, IsTinyGo |-> FALSE, ContentInjection |-> TRUE]}
=============================================================================
