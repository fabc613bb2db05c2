-------------------------- MODULE MCTelegramAlerts --------------------------
(* Model-checking instances of TelegramAlerts.                             *)
EXTENDS TelegramAlertsInv, TLC
=============================================================================
