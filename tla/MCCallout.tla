----------------------------- MODULE MCCallout -----------------------------
(* Callout for TLC.                                                        *)
EXTENDS Callout
=============================================================================
