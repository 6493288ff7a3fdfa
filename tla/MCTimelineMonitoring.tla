------------------------ MODULE MCTimelineMonitoring ------------------------
(* Two companion screens, two DASH periods and one timeline of each other
   kind.                                                                   *)
EXTENDS TimelineMonitoring, TLC

CONSTANTS o1, o2, temi, pts

MCKind == [s \in Selectors |-> CASE s = temi -> "temi" [] s = pts -> "pts"
                                 [] OTHER -> "other"]

Symmetry == Permutations(Selectors \cap {o1, o2}) \cup Permutations(Clients)
=============================================================================
