------------------------------ MODULE MCCommand ------------------------------
(* An instance of Command.                                                   *)
EXTENDS Command

MCTargets == <<1, 2, 3>>
MCBatches == <<"b1", "b2">>
AllOps == {"train", "feedback", "scan", "standard", "dealias"}
OnlyStandard == {"standard"}
AllFaults == Fault
=============================================================================
