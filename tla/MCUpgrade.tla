------------------------------ MODULE MCUpgrade ------------------------------
(* Small instances of the firmware upgrade.                                *)
EXTENDS Upgrade
==============================================================================
