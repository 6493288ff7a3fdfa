------------------------------ MODULE AitSections ------------------------------
(***************************************************************************)
(* How class Ait (components/application_manager/ait.cpp) collects the     *)
(* sections of an AIT into a table, under ApplicationManager's             *)
(* ProcessAitSection, OnChannelChanged, OnBroadcastStopped, RunApp and     *)
(* ProcessXmlAit.                                                          *)
(*                                                                         *)
(* The environment is the broadcast: every service carries one sub-table   *)
(* at a time, on one PID and with one version, and repeats its sections;   *)
(* sections are lost, repeated, and may be delivered late, after the       *)
(* sub-table they belong to was replaced.  An application is its           *)
(* application id, the only thing ParseSection tells applications apart by.*)
(* Sections of another application type or of a wrong size change nothing. *)
(***************************************************************************)
EXTENDS Integers, FiniteSets

CONSTANTS Services,     \* services, each with a service_id of its own
          NoService,    \* the invalid triplet
          AppIds,       \* application ids
          SubTables,    \* the sub-tables the services may carry
          NoTable,      \* nullptr
          MaxChanges    \* bound on what the environment does beside repeating

XML_AIT_PID == 65535    \* UINT16_MAX, the PID of a DVB-I XML AIT

(* A sub-table is a version of the AIT of a service on a PID: its sections *)
(* are numbered from 0 to last, each signals some applications.            *)
ASSUME SubTablesAssumption ==
    /\ NoService \notin Services
    /\ \A t \in SubTables :
        /\ t.service \in Services
        /\ t.pid \in Nat \ {0, XML_AIT_PID}
        /\ t.version \in 0..31
        /\ t.last \in 0..255
        /\ t.sections \in [0..t.last -> SUBSET AppIds]
(* On one PID of one service a version number names one sub-table.         *)
ASSUME VersionAssumption ==
    \A t, u \in SubTables :
        t.service = u.service /\ t.pid = u.pid /\ t.version = u.version => t = u
(* Two sections of a sub-table signal the same application ids or have     *)
(* none in common.  ParseSection loses its place in a section that mixes   *)
(* ids it already has with new ones: it skips 7 bytes where 1 is left.     *)
ASSUME SectionsAssumption ==
    \A t \in SubTables : \A i, j \in 0..t.last :
        t.sections[i] = t.sections[j] \/ t.sections[i] \cap t.sections[j] = {}
ASSUME CarriedAssumption ==
    \A s \in Services : \E t \in SubTables : t.service = s
ASSUME ChangesAssumption == MaxChanges \in Nat

VARIABLES
    service,     \* m_currentService
    aitPid,      \* m_currentServiceAitPid
    collecting,  \* m_ait of class Ait, the table being collected
    completed,   \* m_aitCompleted, what Get() returns
    onAir,       \* external: the sub-table each service carries
    changes      \* what the environment did beside repeating sections

vars == <<service, aitPid, collecting, completed, onAir, changes>>
-----------------------------------------------------------------------------
(* S_AIT_TABLE.  `received' is the bit mask sectionData.  `of' is          *)
(* auxiliary: the sub-table of the first section.                          *)
XmlTable == [service |-> NoService, pid |-> XML_AIT_PID]

(* Section numbers.                                                        *)
Numbers == UNION {0..t.last : t \in SubTables}

ParsedTable ==
    [version : 0..31, received : SUBSET Numbers, apps : SUBSET AppIds,
     complete : BOOLEAN, of : SubTables \cup {XmlTable}]

ASSUME NoTableAssumption == NoTable \notin ParsedTable

ParsedXml ==
    [version |-> 0, received |-> {}, apps |-> {}, complete |-> FALSE,
     of |-> XmlTable]

NewTable(t) ==
    [version |-> t.version, received |-> {}, apps |-> {}, complete |-> FALSE,
     of |-> t]

SectionReceived(table, n) == n \in table.received

Slot(i) == (8 * i)..(8 * i + 7)

(* Mutant: the loop over the full bytes takes the last one in.             *)
MarkSectionReceivedAllFull(received, n, last) ==
    \/ n = 0 /\ last = 0
    \/ \A i \in 0..(last \div 8) : Slot(i) \subseteq received \cup {n}

(* The bits up to last are complete once n is marked: the full bytes of    *)
(* the mask are 0xFF and the last one is exactly the bits up to last.      *)
MarkSectionReceived(received, n, last) ==
    LET marked == received \cup {n}
        index == last \div 8
    IN  \/ n = 0 /\ last = 0
        \/ /\ \A i \in 0..(index - 1) : Slot(i) \subseteq marked
           /\ Slot(index) \cap marked = (8 * index)..last

(* ParseSection finds something new in section n of t.                     *)
Changed(table, t, n) ==
    \/ table = NoTable
    \/ ~SectionReceived(table, n)
    \/ table.version # t.version

(* Mutant: a new version is collected into the table of the old one.       *)
ParseSectionMixes(table, t, n) ==
    LET base == IF table = NoTable THEN NewTable(t) ELSE table
    IN  [base EXCEPT !.received = @ \cup {n},
                     !.complete = MarkSectionReceived(base.received, n, t.last),
                     !.apps = @ \cup t.sections[n]]

(* The table ParseSection leaves: a new version discards the old table;    *)
(* applications whose id is there already are skipped.                     *)
ParseSection(table, t, n) ==
    LET base == IF table = NoTable THEN NewTable(t)
                ELSE IF table.version # t.version THEN NewTable(t)
                ELSE table
    IN  [base EXCEPT
            !.received = @ \cup {n},
            !.complete = MarkSectionReceived(base.received, n, t.last),
            !.apps = @ \cup t.sections[n]]
-----------------------------------------------------------------------------
Init ==
    /\ service = NoService
    /\ aitPid = 0
    /\ collecting = NoTable
    /\ completed = NoTable
    /\ onAir \in {f \in [Services -> SubTables] :
                    \A s \in Services : f[s].service = s}
    /\ changes = 0

(* Mutant: the sections collected so far survive.                          *)
ClearKeepsPartial == completed' = NoTable /\ UNCHANGED collecting

Clear == collecting' = NoTable /\ completed' = NoTable

Environment == changes < MaxChanges /\ changes' = changes + 1

(* OnChannelChanged, and OnBroadcastStopped for NoService.                 *)
SelectService(s) ==
    /\ Environment
    /\ Clear
    /\ service' = s
    /\ aitPid' = 0
    /\ UNCHANGED onAir

(* RunApp stops the broadcast under a broadcast-independent application    *)
(* and, unless it is called back, keeps the table.                         *)
RunIndependentApp ==
    /\ Environment
    /\ service # NoService
    /\ service' = NoService
    /\ UNCHANGED <<aitPid, collecting, completed, onAir>>

(* ProcessXmlAit of a DVB-I service: ApplyAitTable.                        *)
ProcessDvbiXmlAit ==
    /\ Environment
    /\ collecting' = ParsedXml
    /\ completed' = ParsedXml
    /\ aitPid' = XML_AIT_PID
    /\ UNCHANGED <<service, onAir>>

(* ProcessAitSection with section n of t.                                  *)
ProcessAitSection(t, n) ==
    LET newPid == aitPid \notin {0, t.pid}
        table == IF newPid THEN NoTable ELSE collecting
        parsed == ParseSection(table, t, n)
    IN  /\ t.service = service
        /\ aitPid' = t.pid
        /\ IF Changed(table, t, n)
           THEN /\ collecting' = parsed
                /\ completed' = IF parsed.complete THEN parsed
                                ELSE IF newPid THEN NoTable ELSE completed
           ELSE UNCHANGED <<collecting, completed>>
        /\ UNCHANGED <<service, onAir>>

(* External: the service carries another version, or another PID.          *)
SignallingChanged(t) ==
    /\ Environment
    /\ onAir[t.service] # t
    /\ onAir' = [onAir EXCEPT ![t.service] = t]
    /\ UNCHANGED <<service, aitPid, collecting, completed>>

(* Section n of the sub-table on air is delivered.                         *)
Deliver(n) ==
    /\ service # NoService
    /\ n \in 0..onAir[service].last
    /\ ProcessAitSection(onAir[service], n)
    /\ UNCHANGED changes

(* A section of a sub-table no longer, or not yet, on air is delivered.    *)
DeliverLate(t, n) == Environment /\ ProcessAitSection(t, n)

Next ==
    \/ \E s \in Services \cup {NoService} : SelectService(s)
    \/ RunIndependentApp
    \/ ProcessDvbiXmlAit
    \/ \E t \in SubTables : SignallingChanged(t)
    \/ \E n \in Numbers : Deliver(n)
    \/ \E t \in SubTables : \E n \in 0..t.last : DeliverLate(t, n)

(* The carousel: the broadcast repeats every section of the sub-table on   *)
(* air, so none is lost for ever.                                          *)
Fairness == \A n \in Numbers : WF_vars(Deliver(n))

Spec == Init /\ [][Next]_vars /\ Fairness
-----------------------------------------------------------------------------
(* Properties.                                                             *)

(* The members keep their types, and a service carries its own tables.     *)
TypeOK ==
    /\ service \in Services \cup {NoService}
    /\ aitPid \in Nat
    /\ collecting \in ParsedTable \cup {NoTable}
    /\ completed \in ParsedTable \cup {NoTable}
    /\ onAir \in [Services -> SubTables]
    /\ \A s \in Services : onAir[s].service = s
    /\ changes \in 0..MaxChanges

(* The applications of the sections of t in a set of section numbers.      *)
Signalled(t, numbers) == UNION {t.sections[n] : n \in numbers}

(* A parsed table holds what the sections of one sub-table it received
   signal, and is complete exactly when it has them all.                   *)
FromOneSubTable(table) ==
    table # NoTable /\ table.of # XmlTable =>
        /\ table.version = table.of.version
        /\ table.received \subseteq 0..table.of.last
        /\ table.received # {}
        /\ table.apps = Signalled(table.of, table.received)
        /\ table.complete <=> table.received = 0..table.of.last

(* A parsed table belongs to the PID in use and, while one is selected, to
   the service in use.                                                     *)
OfThisService(table) ==
    table # NoTable =>
        /\ table.of.pid = aitPid
        /\ table.of = XmlTable \/ service \in {table.of.service, NoService}

(* However the sections of two services, PIDs or versions follow each other,
   the table being collected has applications of one sub-table only, that of
   the service and PID in use, and the table in use has all of them.       *)
CollectedFromOneSubTable ==
    /\ FromOneSubTable(collecting) /\ OfThisService(collecting)
    /\ FromOneSubTable(completed) /\ OfThisService(completed)
    /\ completed # NoTable =>
        completed.of = XmlTable \/ completed.received = 0..completed.of.last

(* The sub-table a parsed table amounts to.                                *)
Amounts(table) ==
    IF table = NoTable THEN NoTable
    ELSE IF table.of = XmlTable THEN XmlTable
    ELSE IF table.apps = Signalled(table.of, 0..table.of.last) THEN table.of
    ELSE [mixed |-> table]

InUse == INSTANCE AitInUse WITH inUse <- Amounts(completed)

(* Ait::Get() is one whole sub-table at a time, replaced at once and kept
   while the next is collected: what ApplicationManager takes for granted. *)
ImplementsAitInUse == InUse!Spec

(* "Process the input AIT section and update the AIT returned by Get()":
   when services, PIDs and versions stop changing, the table in use becomes
   the one on air, and stays it, whatever partial table was left behind.   *)
SettlesOnTheTable ==
    <>[](service # NoService =>
            completed # NoTable /\ Amounts(completed) = onAir[service])
=============================================================================
