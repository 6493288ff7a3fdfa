---------------------------- MODULE MCAitTimeout ----------------------------
(***************************************************************************)
(* AitTimeout with two platform threads: the broadcast stack and the       *)
(* browser.                                                                *)
(***************************************************************************)
EXTENDS AitTimeout
=============================================================================
