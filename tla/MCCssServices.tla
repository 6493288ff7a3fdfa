---------------------------- MODULE MCCssServices ----------------------------
(* Two synchronisers, so that one starts while the other's services stop.  *)
EXTENDS CssServices
=============================================================================
