---------------------------- MODULE MCAitSections ----------------------------
(***************************************************************************)
(* AitSections with two services.  Service s1 carries nine sections, so    *)
(* that the section mask takes two bytes; then another version on the same *)
(* PID; then the first version number again, on another PID and with other *)
(* applications.  Service s2 uses the PID and the version of the first.    *)
(***************************************************************************)
EXTENDS AitSections

Carried(s, pid, version, sections) ==
    [service |-> s, pid |-> pid, version |-> version,
     last |-> Cardinality(DOMAIN sections) - 1, sections |-> sections]

Nine == [n \in 0..8 |-> IF n = 0 THEN {1} ELSE IF n = 8 THEN {2} ELSE {}]
Two == [n \in 0..1 |-> IF n = 0 THEN {3} ELSE {1}]
Other == [n \in 0..1 |-> {4 - n}]
Single == [n \in {0} |-> {2, 4}]

Tables ==
    {Carried("s1", 1, 0, Nine), Carried("s1", 1, 1, Two),
     Carried("s1", 2, 0, Other), Carried("s2", 1, 0, Two),
     Carried("s2", 1, 1, Single)}
=============================================================================
