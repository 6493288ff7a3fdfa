-------------------------------- MODULE Timer --------------------------------
(***************************************************************************)
(* What a one-shot timer promises its owner: once armed it either is       *)
(* disarmed or fires, once; it never fires when it is not armed.  It is    *)
(* the view the application manager has of Utils::Timeout: start() arms,   *)
(* stop() disarms, the callback is the timer firing.                       *)
(***************************************************************************)
VARIABLES armed,  \* the timer runs
          fired   \* it has fired since it was last armed

vars == <<armed, fired>>

Init == armed = FALSE /\ fired = FALSE

Arm == ~armed /\ armed' = TRUE /\ fired' = FALSE

Disarm == armed /\ armed' = FALSE /\ UNCHANGED fired

Fire == armed /\ armed' = FALSE /\ fired' = TRUE

Next == Arm \/ Disarm \/ Fire

Spec == Init /\ [][Next]_vars
=============================================================================
