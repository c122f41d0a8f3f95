--------------------------- MODULE PrefillCampaign ---------------------------
(***************************************************************************)
(* A prefill campaign and its retention: the engine runs the traces, and   *)
(* when the last of them has drained and cleared its index the measurement *)
(* is complete, and is packed and restored.                                *)
(***************************************************************************)
EXTENDS PrefillEngine, Retention

CONSTANT LastCells      \* the traces that may be a campaign's last

ASSUME LastCellsAssumption == LastCells \subseteq Cells

Completed == cell \in LastCells /\ phase = "cleared"

CampaignInit == Init /\ RetentionInit
CampaignNext ==
  \/ Next /\ UNCHANGED retentionVars
  \/ Completed /\ RetentionNext /\ UNCHANGED vars

CampaignSpec == CampaignInit /\ [][CampaignNext]_<<vars, retentionVars>>
=============================================================================
