------------------------------ MODULE MCApp2App ------------------------------
(* App2App with the connections of two local and of one remote client.      *)
EXTENDS App2App

AllFaults == PossibleFaults
=============================================================================
