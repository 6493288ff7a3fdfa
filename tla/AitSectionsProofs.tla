--------------------------- MODULE AitSectionsProofs ---------------------------
(***************************************************************************)
(* Proofs about AitSections, for any services, sub-tables and any number   *)
(* of changes of the environment: the section mask is complete exactly     *)
(* when every section was received, a table has the applications of one    *)
(* sub-table only, and class Ait implements module AitInUse.               *)
(***************************************************************************)
EXTENDS AitSections, TLAPS

(* MarkSectionReceived, byte by byte, decides whether every section from 0
   to the last has been received.                                          *)
LEMMA MarkCorrect ==
    ASSUME NEW last \in 0..255, NEW received \in SUBSET (0..last),
           NEW n \in 0..last
    PROVE  MarkSectionReceived(received, n, last)
             <=> received \cup {n} = 0..last
  <1> DEFINE marked == received \cup {n}
             index == last \div 8
  <1>0. /\ index \in Nat /\ 8 * index <= last /\ last <= 8 * index + 7
        /\ marked \subseteq 0..last
    OBVIOUS
  <1>1. ASSUME marked = 0..last PROVE MarkSectionReceived(received, n, last)
    <2>1. ASSUME NEW i \in 0..(index - 1) PROVE Slot(i) \subseteq marked
      BY <1>0, <1>1 DEF Slot
    <2>2. Slot(index) \cap marked = (8 * index)..last
      BY <1>0, <1>1 DEF Slot
    <2> QED
      BY <2>1, <2>2 DEF MarkSectionReceived
  <1>2. ASSUME MarkSectionReceived(received, n, last) PROVE marked = 0..last
    <2>1. CASE n = 0 /\ last = 0
      <3>1. 0..last = {0} /\ 0 \in marked
        BY <2>1
      <3> QED
        BY <1>0, <3>1
    <2>2. CASE /\ \A i \in 0..(index - 1) : Slot(i) \subseteq marked
               /\ Slot(index) \cap marked = (8 * index)..last
      <3>1. ASSUME NEW k \in 0..last PROVE k \in marked
        <4>1. CASE k >= 8 * index
          BY <1>0, <2>2, <4>1
        <4>2. CASE k < 8 * index
          <5> DEFINE i == k \div 8
          <5>1. i \in Nat /\ 8 * i <= k /\ k <= 8 * i + 7
            OBVIOUS
          <5>2. i \in 0..(index - 1)
            BY <1>0, <4>2, <5>1
          <5>3. k \in Slot(i)
            BY <5>1 DEF Slot
          <5> QED
            BY <2>2, <5>2, <5>3
        <4> QED
          BY <1>0, <4>1, <4>2
      <3> QED
        BY <1>0, <3>1
    <2> QED
      BY <1>2, <2>1, <2>2 DEF MarkSectionReceived
  <1> QED
    BY <1>1, <1>2

(* A table section n of t may be parsed into: the one of its own sub-table,
   or a new one; and what it becomes.                                      *)
Parsable(table, t) ==
    \/ table = NewTable(t)
    \/ /\ table \in ParsedTable
       /\ table.of = t
       /\ FromOneSubTable(table)

WithSection(table, t, n) ==
    [table EXCEPT
       !.received = @ \cup {n},
       !.complete = MarkSectionReceived(table.received, n, t.last),
       !.apps = @ \cup t.sections[n]]

GoodFor(table, t) ==
    /\ table \in ParsedTable
    /\ table.of = t
    /\ FromOneSubTable(table)

(* What the properties say of a section parsed into such a table.          *)
LEMMA ParsedGood ==
    ASSUME NEW t \in SubTables, NEW n \in 0..t.last, NEW table,
           Parsable(table, t)
    PROVE  GoodFor(WithSection(table, t, n), t)
  <1> DEFINE parsed == WithSection(table, t, n)
  <1>1. /\ t.last \in 0..255 /\ t.version \in 0..31 /\ t.pid # XML_AIT_PID
        /\ t.sections \in [0..t.last -> SUBSET AppIds]
        /\ 0..t.last \subseteq Numbers
    BY SubTablesAssumption DEF Numbers
  <1>2. t # XmlTable
    BY <1>1 DEF XmlTable
  <1>3. /\ table \in ParsedTable
        /\ table.of = t
        /\ table.version = t.version
        /\ table.received \subseteq 0..t.last
        /\ table.apps = Signalled(t, table.received)
    <2>1. CASE table = NewTable(t)
      BY <1>1, <2>1 DEF NewTable, ParsedTable, Signalled
    <2>2. CASE table \in ParsedTable /\ table.of = t /\ FromOneSubTable(table)
      BY <1>2, <2>2, NoTableAssumption DEF FromOneSubTable
    <2> QED
      BY <2>1, <2>2 DEF Parsable
  <1>4. MarkSectionReceived(table.received, n, t.last)
          <=> table.received \cup {n} = 0..t.last
    <2>1. t.last \in 0..255 /\ table.received \in SUBSET (0..t.last)
      BY <1>1, <1>3
    <2> QED
      BY <2>1, MarkCorrect, Zenon
  <1>5. /\ parsed.version = t.version
        /\ parsed.of = t
        /\ parsed.received = table.received \cup {n}
        /\ parsed.apps = table.apps \cup t.sections[n]
        /\ parsed.complete = MarkSectionReceived(table.received, n, t.last)
    BY <1>3 DEF ParsedTable, WithSection
  <1>6. MarkSectionReceived(table.received, n, t.last) \in BOOLEAN
    BY DEF MarkSectionReceived
  <1>7. parsed \in ParsedTable
    <2> DEFINE received == table.received \cup {n}
               apps == table.apps \cup t.sections[n]
               complete == MarkSectionReceived(table.received, n, t.last)
    <2>1. received \in SUBSET Numbers
      BY <1>1, <1>3
    <2>2. apps \in SUBSET AppIds
      <3>1. table.apps \in SUBSET AppIds
        BY <1>3 DEF ParsedTable
      <3>2. t.sections[n] \in SUBSET AppIds
        BY <1>1
      <3> QED
        BY <3>1, <3>2
    <2>3. parsed = [table EXCEPT !.received = received, !.complete = complete,
                                 !.apps = apps]
      BY DEF WithSection
    <2>4. complete \in BOOLEAN
      BY <1>6
    <2>5. table \in ParsedTable
      BY <1>3
    <2> HIDE DEF received, apps, complete, parsed
    <2> QED
      BY ONLY <2>1, <2>2, <2>3, <2>4, <2>5 DEF ParsedTable
  <1>8. parsed.apps = Signalled(t, parsed.received)
    BY <1>3, <1>5 DEF Signalled
  <1>9. /\ parsed.received \subseteq 0..t.last
        /\ parsed.received # {}
    BY <1>3, <1>5
  <1>10. parsed.complete <=> parsed.received = 0..t.last
    BY <1>4, <1>5, Zenon
  <1> QED
    BY <1>5, <1>7, <1>8, <1>9, <1>10, Zenon DEF FromOneSubTable, GoodFor

(* The inductive invariant.                                                *)
IInv == TypeOK /\ CollectedFromOneSubTable

(* IInv holds initially.                                                   *)
LEMMA InitIInv == Init => IInv
  BY SubTablesAssumption, ChangesAssumption
  DEF Init, IInv, TypeOK, CollectedFromOneSubTable, FromOneSubTable, OfThisService

(* What ProcessAitSection leaves of the two tables, when it parses section n
   of t: the parsed table is one of t, and it is in use if it is whole.    *)
LEMMA SectionParsed ==
    ASSUME IInv, NEW t \in SubTables, NEW n \in 0..t.last,
           ProcessAitSection(t, n)
    PROVE  /\ aitPid' = t.pid
           /\ t.service = service
           /\ UNCHANGED <<service, onAir>>
           /\ \/ UNCHANGED <<collecting, completed>> /\ aitPid = t.pid
              \/ /\ collecting' \in ParsedTable
                 /\ collecting'.of = t
                 /\ FromOneSubTable(collecting')
                 /\ completed' = IF collecting'.complete THEN collecting'
                                 ELSE IF aitPid \in {0, t.pid} THEN completed
                                 ELSE NoTable
  <1> DEFINE newPid == aitPid \notin {0, t.pid}
             table == IF newPid THEN NoTable ELSE collecting
             parsed == ParseSection(table, t, n)
             base == IF table = NoTable THEN NewTable(t)
                     ELSE IF table.version # t.version THEN NewTable(t)
                     ELSE table
  <1>1. /\ t.service = service /\ t.service \in Services
        /\ t.pid # 0 /\ t.pid # XML_AIT_PID /\ service # NoService
    BY SubTablesAssumption DEF ProcessAitSection
  <1>2. ASSUME ~Changed(table, t, n) PROVE aitPid = t.pid
    <2>1. ~newPid /\ collecting # NoTable
      BY <1>2 DEF Changed
    <2>2. collecting.of.pid = aitPid
      BY <2>1 DEF IInv, CollectedFromOneSubTable, OfThisService
    <2>3. collecting.of \in SubTables \cup {XmlTable}
      BY <2>1 DEF IInv, TypeOK, ParsedTable
    <2>4. collecting.of.pid # 0
      BY <2>3, SubTablesAssumption DEF XmlTable, XML_AIT_PID
    <2> QED
      BY <2>1, <2>2, <2>4
  <1>3. Parsable(base, t)
    <2>1. CASE table = NoTable \/ table.version # t.version
      BY <2>1 DEF Parsable
    <2>2. CASE table # NoTable /\ table.version = t.version
      <3>1. /\ table = collecting /\ base = collecting /\ collecting # NoTable
            /\ collecting \in ParsedTable /\ aitPid \in {0, t.pid}
        BY <2>2 DEF IInv, TypeOK
      <3>2. collecting.of.pid = aitPid /\ FromOneSubTable(collecting)
        BY <3>1 DEF IInv, CollectedFromOneSubTable, OfThisService
      <3>3. collecting.of # XmlTable
        <4>1. ASSUME collecting.of = XmlTable PROVE FALSE
          BY <1>1, <3>1, <3>2, <4>1 DEF XmlTable, XML_AIT_PID
        <4> QED
          BY <4>1
      <3>4. collecting.of \in SubTables
        BY <3>1, <3>3 DEF ParsedTable
      <3>5. collecting.of.service = t.service
        BY <1>1, <3>1, <3>3
        DEF IInv, CollectedFromOneSubTable, OfThisService
      <3>6. collecting.of.pid = t.pid
        BY <3>1, <3>2, <3>4, SubTablesAssumption
      <3>7. collecting.of.version = t.version
        BY <2>2, <3>1, <3>2, <3>3 DEF FromOneSubTable
      <3>8. collecting.of = t
        BY <3>4, <3>5, <3>6, <3>7, VersionAssumption
      <3> QED
        BY <3>1, <3>2, <3>8 DEF Parsable
    <2> QED
      BY <2>1, <2>2
  <1>4. parsed = WithSection(base, t, n)
    BY DEF ParseSection, WithSection
  <1>5. parsed \in ParsedTable /\ parsed.of = t /\ FromOneSubTable(parsed)
    <2> HIDE DEF base, parsed
    <2>1. GoodFor(WithSection(base, t, n), t)
      BY <1>3, ParsedGood
    <2> QED
      BY <1>4, <2>1 DEF GoodFor
  <1>6. CASE Changed(table, t, n)
    <2>1. /\ collecting' = parsed
          /\ completed' = IF parsed.complete THEN parsed
                          ELSE IF newPid THEN NoTable ELSE completed
      BY <1>6 DEF ProcessAitSection
    <2> HIDE DEF parsed
    <2> QED
      BY <1>1, <1>5, <2>1 DEF ProcessAitSection
  <1>7. CASE ~Changed(table, t, n)
    BY <1>1, <1>2, <1>7 DEF ProcessAitSection
  <1> QED
    BY <1>6, <1>7

(* A section, on air or late, keeps IInv.                                  *)
LEMMA SectionIInv ==
    ASSUME IInv, NEW t \in SubTables, NEW n \in 0..t.last,
           ProcessAitSection(t, n), changes' \in 0..MaxChanges
    PROVE  IInv'
  <1>1. /\ aitPid' = t.pid /\ t.service = service
        /\ UNCHANGED <<service, onAir>>
        /\ t.pid \in Nat /\ t.service \in Services
    BY SectionParsed, SubTablesAssumption
  <1>2. CASE UNCHANGED <<collecting, completed>> /\ aitPid = t.pid
    BY <1>1, <1>2
    DEF IInv, TypeOK, CollectedFromOneSubTable, FromOneSubTable, OfThisService
  <1>3. CASE /\ collecting' \in ParsedTable
             /\ collecting'.of = t
             /\ FromOneSubTable(collecting')
             /\ completed' = IF collecting'.complete THEN collecting'
                             ELSE IF aitPid \in {0, t.pid} THEN completed
                             ELSE NoTable
    <2>1. t # XmlTable
      BY SubTablesAssumption DEF XmlTable
    <2>2. OfThisService(collecting)'
      BY <1>1, <1>3 DEF OfThisService
    <2>3. CASE collecting'.complete
      <3>1. completed' = collecting' /\ completed'.received = 0..completed'.of.last
        BY <1>3, <2>1, <2>3, NoTableAssumption DEF FromOneSubTable
      <3> QED
        BY <1>1, <1>3, <2>2, <3>1
        DEF IInv, TypeOK, CollectedFromOneSubTable, FromOneSubTable, OfThisService
    <2>4. CASE ~collecting'.complete /\ aitPid \notin {0, t.pid}
      <3>1. completed' = NoTable
        BY <1>3, <2>4
      <3> QED
        BY <1>1, <1>3, <2>2, <3>1
        DEF IInv, TypeOK, CollectedFromOneSubTable, FromOneSubTable, OfThisService
    <2>5. CASE ~collecting'.complete /\ aitPid \in {0, t.pid}
      <3>1. completed' = completed
        BY <1>3, <2>5
      <3>2. completed # NoTable => aitPid = t.pid
        <4>1. ASSUME completed # NoTable PROVE completed.of.pid # 0
          BY <4>1, SubTablesAssumption
          DEF IInv, TypeOK, ParsedTable, XmlTable, XML_AIT_PID
        <4> QED
          BY <2>5, <4>1 DEF IInv, CollectedFromOneSubTable, OfThisService
      <3> QED
        BY <1>1, <1>3, <2>2, <3>1, <3>2
        DEF IInv, TypeOK, CollectedFromOneSubTable, FromOneSubTable, OfThisService
    <2> QED
      BY <2>3, <2>4, <2>5
  <1> QED
    BY <1>2, <1>3, SectionParsed

(* Every step keeps IInv.                                                  *)
LEMMA NextIInv == IInv /\ [Next]_vars => IInv'
  <1> SUFFICES ASSUME IInv, [Next]_vars PROVE IInv'
    OBVIOUS
  <1>e. ASSUME Environment PROVE changes' \in 0..MaxChanges
    BY <1>e, ChangesAssumption DEF Environment, IInv, TypeOK
  <1>1. ASSUME NEW s \in Services \cup {NoService}, SelectService(s)
        PROVE  IInv'
    BY <1>1, <1>e DEF SelectService, Clear, IInv, TypeOK,
       CollectedFromOneSubTable, FromOneSubTable, OfThisService
  <1>2. CASE RunIndependentApp
    BY <1>2, <1>e DEF RunIndependentApp, IInv, TypeOK,
       CollectedFromOneSubTable, FromOneSubTable, OfThisService
  <1>3. CASE ProcessDvbiXmlAit
    <2>1. ParsedXml \in ParsedTable /\ ParsedXml.of = XmlTable
          /\ XmlTable.pid = XML_AIT_PID /\ XML_AIT_PID \in Nat
      BY DEF ParsedXml, ParsedTable, XmlTable, XML_AIT_PID
    <2> QED
      BY <1>3, <1>e, <2>1 DEF ProcessDvbiXmlAit, IInv, TypeOK,
         CollectedFromOneSubTable, FromOneSubTable, OfThisService
  <1>4. ASSUME NEW t \in SubTables, SignallingChanged(t) PROVE IInv'
    BY <1>4, <1>e, SubTablesAssumption DEF SignallingChanged, IInv, TypeOK,
       CollectedFromOneSubTable, FromOneSubTable, OfThisService
  <1>5. ASSUME NEW n \in Numbers, Deliver(n) PROVE IInv'
    <2>1. /\ onAir[service] \in SubTables
          /\ n \in 0..onAir[service].last
          /\ ProcessAitSection(onAir[service], n)
          /\ changes' \in 0..MaxChanges
      BY <1>5 DEF Deliver, IInv, TypeOK
    <2> QED
      BY <2>1, SectionIInv
  <1>6. ASSUME NEW t \in SubTables, NEW n \in 0..t.last, DeliverLate(t, n)
        PROVE  IInv'
    BY <1>6, <1>e, SectionIInv DEF DeliverLate
  <1>7. CASE UNCHANGED vars
    BY <1>7 DEF vars, IInv, TypeOK, CollectedFromOneSubTable, FromOneSubTable,
       OfThisService
  <1> QED
    BY <1>1, <1>2, <1>3, <1>4, <1>5, <1>6, <1>7 DEF Next

(* IInv is an invariant.                                                   *)
LEMMA Invariance == Spec => []IInv
  BY InitIInv, NextIInv, PTL DEF Spec

(* ParseSection and Clear never mix sub-tables: whatever the order in which
   sections of services, PIDs and versions arrive, late ones included, a
   table has applications of one sub-table and Get() all of them.          *)
THEOREM OneSubTable == Spec => []CollectedFromOneSubTable
  <1>1. IInv => CollectedFromOneSubTable
    BY DEF IInv
  <1> QED
    BY <1>1, Invariance, PTL

(* The table in use, of a broadcast, amounts to its sub-table.             *)
LEMMA WholeAmounts ==
    ASSUME NEW table, table # NoTable, table.of # XmlTable,
           FromOneSubTable(table), table.received = 0..table.of.last
    PROVE  Amounts(table) = table.of
  BY DEF Amounts, FromOneSubTable

(* A section is a step of the abstract table in use.                       *)
LEMMA SectionRefines ==
    ASSUME IInv, NEW t \in SubTables, NEW n \in 0..t.last,
           ProcessAitSection(t, n)
    PROVE  InUse!Partial(t) \/ InUse!Complete(t)
  <1>1. /\ aitPid' = t.pid /\ t.service = service
        /\ UNCHANGED <<service, onAir>>
    BY SectionParsed
  <1>2. CASE UNCHANGED <<collecting, completed>> /\ aitPid = t.pid
    BY <1>1, <1>2 DEF InUse!Partial, Amounts
  <1>3. CASE /\ collecting' \in ParsedTable
             /\ collecting'.of = t
             /\ FromOneSubTable(collecting')
             /\ completed' = IF collecting'.complete THEN collecting'
                             ELSE IF aitPid \in {0, t.pid} THEN completed
                             ELSE NoTable
    <2>1. t # XmlTable
      BY SubTablesAssumption DEF XmlTable
    <2>2. CASE collecting'.complete
      <3>1. completed' = collecting' /\ completed' # NoTable
        BY <1>3, <2>2, NoTableAssumption
      <3>2. completed'.received = 0..completed'.of.last
        BY <1>3, <2>1, <2>2, <3>1 DEF FromOneSubTable
      <3>3. Amounts(completed') = t
        BY <1>3, <2>1, <3>1, <3>2, WholeAmounts
      <3> QED
        BY <1>1, <3>3 DEF InUse!Complete, Amounts
    <2>3. CASE ~collecting'.complete
      BY <1>1, <1>3, <2>3 DEF InUse!Partial, Amounts
    <2> QED
      BY <2>2, <2>3
  <1> QED
    BY <1>2, <1>3, SectionParsed

(* Class Ait, section by section, implements the table in use that module
   ApplicationManager relies on: Get() changes from whole sub-table to whole
   sub-table, is emptied only with the service or the PID, and is kept while
   a new version is collected.                                             *)
THEOREM Refinement == Spec => ImplementsAitInUse
  <1>1. Init => InUse!Init
    BY DEF Init, InUse!Init, Amounts
  <1>2. IInv /\ [Next]_vars => [InUse!Next]_(InUse!vars)
    <2> SUFFICES ASSUME IInv, [Next]_vars PROVE [InUse!Next]_(InUse!vars)
      OBVIOUS
    <2>1. ASSUME NEW s \in Services \cup {NoService}, SelectService(s)
          PROVE  InUse!Select(s)
      BY <2>1 DEF SelectService, Clear, InUse!Select, Amounts
    <2>2. ASSUME RunIndependentApp PROVE InUse!Deselect
      BY <2>2 DEF RunIndependentApp, InUse!Deselect, Amounts
    <2>3. ASSUME ProcessDvbiXmlAit PROVE InUse!ApplyXml
      <3>1. ParsedXml \in ParsedTable /\ ParsedXml.of = XmlTable
        BY DEF ParsedXml, ParsedTable
      <3> QED
        BY <2>3, <3>1, NoTableAssumption DEF ProcessDvbiXmlAit, InUse!ApplyXml, Amounts
    <2>4. ASSUME NEW t \in SubTables, SignallingChanged(t)
          PROVE  UNCHANGED InUse!vars
      BY <2>4 DEF SignallingChanged, InUse!vars, Amounts
    <2>5. ASSUME NEW n \in Numbers, Deliver(n)
          PROVE  \E t \in SubTables : InUse!Partial(t) \/ InUse!Complete(t)
      <3>1. /\ onAir[service] \in SubTables
            /\ n \in 0..onAir[service].last
            /\ ProcessAitSection(onAir[service], n)
        BY <2>5 DEF Deliver, IInv, TypeOK
      <3> QED
        BY <3>1, SectionRefines
    <2>6. ASSUME NEW t \in SubTables, NEW n \in 0..t.last, DeliverLate(t, n)
          PROVE  InUse!Partial(t) \/ InUse!Complete(t)
      BY <2>6, SectionRefines DEF DeliverLate
    <2>7. ASSUME UNCHANGED vars PROVE UNCHANGED InUse!vars
      BY <2>7 DEF vars, InUse!vars, Amounts
    <2> QED
      BY <2>1, <2>2, <2>3, <2>4, <2>5, <2>6, <2>7 DEF Next, InUse!Next
  <1> QED
    BY <1>1, <1>2, Invariance, PTL DEF Spec, ImplementsAitInUse, InUse!Spec
=============================================================================
