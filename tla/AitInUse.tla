------------------------------- MODULE AitInUse -------------------------------
(***************************************************************************)
(* What class Ait promises the application manager: Ait::Get() is, at any  *)
(* time, no table, one whole sub-table of the service it was collected on, *)
(* or the table of an XML AIT.  A sub-table takes the place of another at  *)
(* once, and stays in use while the next one is still being collected.     *)
(* It is the view module ApplicationManager has of the broadcast: a        *)
(* section either completes a table of the service or only tells its PID.  *)
(***************************************************************************)
CONSTANTS Services, NoService, SubTables, NoTable, XmlTable, XML_AIT_PID

VARIABLES service,  \* the selected service
          aitPid,   \* the PID the table in use came on, 0 if none was seen
          inUse     \* the sub-table Ait::Get() holds

vars == <<service, aitPid, inUse>>

Init == service = NoService /\ aitPid = 0 /\ inUse = NoTable

(* OnChannelChanged and OnBroadcastStopped.                                *)
Select(s) == service' = s /\ aitPid' = 0 /\ inUse' = NoTable

(* RunApp for a broadcast-independent application.                         *)
Deselect == service' = NoService /\ UNCHANGED <<aitPid, inUse>>

(* A section that completes no table.                                      *)
Partial(t) ==
    /\ t.service = service
    /\ aitPid' = t.pid
    /\ inUse' = IF aitPid \in {0, t.pid} THEN inUse ELSE NoTable
    /\ UNCHANGED service

(* A section that completes table t.                                       *)
Complete(t) ==
    /\ t.service = service
    /\ aitPid' = t.pid
    /\ inUse' = t
    /\ UNCHANGED service

ApplyXml == aitPid' = XML_AIT_PID /\ inUse' = XmlTable /\ UNCHANGED service

Next ==
    \/ \E s \in Services \cup {NoService} : Select(s)
    \/ Deselect
    \/ \E t \in SubTables : Partial(t) \/ Complete(t)
    \/ ApplyXml

Spec == Init /\ [][Next]_vars
=============================================================================
