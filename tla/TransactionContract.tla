------------------------ MODULE TransactionContract ------------------------
(***************************************************************************)
(* What a transaction promises to the connector that drives it, without    *)
(* its rules: phases are inspected in order and none of the first four     *)
(* twice; a verdict is reached during an inspection or by the body limit,  *)
(* it stops every inspection but the logging phase, and is never dropped   *)
(* while the transaction is open.                                          *)
(***************************************************************************)
EXTENDS Naturals

CONSTANTS NoVerdict, RuleVerdicts, LimitVerdict

VARIABLES open,         (* the connector holds the transaction            *)
          inspecting,   (* the phase under inspection, 0 between calls    *)
          stage,        (* the last phase inspected                       *)
          verdict

contractVars == <<open, inspecting, stage, verdict>>

ContractInit == open = TRUE /\ inspecting = 0 /\ stage = 0 /\ verdict = NoVerdict

(* Phases 1 to 4 once each, in order and only without a verdict; logging    *)
(* whenever the connector asks for it.                                      *)
Inspect(p) ==
    /\ open /\ inspecting = 0
    /\ p = 5 \/ (p > stage /\ verdict = NoVerdict)
    /\ inspecting' = p /\ stage' = p
    /\ UNCHANGED <<open, verdict>>

Decide ==
    /\ open /\ inspecting # 0
    /\ verdict = NoVerdict \/ inspecting = 5
    /\ verdict' \in RuleVerdicts
    /\ UNCHANGED <<open, inspecting, stage>>

(* The size of the body alone decides, between inspections. *)
DenyForSize ==
    /\ open /\ inspecting = 0
    /\ verdict' = LimitVerdict
    /\ UNCHANGED <<open, inspecting, stage>>

Report ==
    /\ open /\ inspecting # 0
    /\ inspecting' = 0
    /\ UNCHANGED <<open, stage, verdict>>

Release ==
    /\ open /\ inspecting = 0
    /\ open' = FALSE
    /\ UNCHANGED <<inspecting, stage, verdict>>

Acquire ==
    /\ ~open
    /\ open' = TRUE /\ inspecting' = 0 /\ stage' = 0 /\ verdict' = NoVerdict

ContractNext ==
    \/ \E p \in 1..5 : Inspect(p)
    \/ Decide \/ DenyForSize \/ Report
    \/ Release \/ Acquire

ContractSpec == ContractInit /\ [][ContractNext]_contractVars
=============================================================================
