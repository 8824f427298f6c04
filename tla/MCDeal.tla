------------------------------- MODULE MCDeal -------------------------------
(***************************************************************************)
(* Small instances of Deal for TLC.                                        *)
(***************************************************************************)
EXTENDS DealExchange, NextAction
=============================================================================
