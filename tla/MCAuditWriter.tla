---------------------------- MODULE MCAuditWriter ----------------------------
(* Transactions for AuditWriter's runs: each with an ID of its own, or two  *)
(* with the same.                                                           *)
EXTENDS AuditWriter

Three  == {"t1", "t2", "t3"}
OwnIDs == [t \in Three |-> t]
Shared == [OwnIDs EXCEPT !["t2"] = "t1"]
MCIDs  == {OwnIDs, Shared}
=============================================================================
