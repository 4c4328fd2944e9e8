---------------------------- MODULE MCRefundOutcome ----------------------------
(***************************************************************************)
(* One refund for TLC.  The relay is its own only issuer.                  *)
(***************************************************************************)
EXTENDS RefundOutcome

CONSTANT relay

MCBehind == -1
================================================================================
