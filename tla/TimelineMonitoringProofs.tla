---------------------- MODULE TimelineMonitoringProofs ----------------------
(***************************************************************************)
(* What the MediaSynchroniser's counting of watchers achieves, for any     *)
(* selectors and clients: a source per watched timeline, no clock below a  *)
(* destroyed one, no stopped filter that is still read, every client told  *)
(* what holds, and no timeline taken from a client by another one.         *)
(*                                                                         *)
(* The operators of the model work on the MediaSynchroniser's state alone, *)
(* so there is a lemma for each about any state mm it is applied to; the   *)
(* steps of the application, the platform and the clients only put them    *)
(* together.                                                               *)
(***************************************************************************)
EXTENDS TimelineMonitoring, FiniteSetTheorems, TLAPS

(* A source per watched timeline, until the object is to be deleted.       *)
SourceFits(mm, s) == ~mm.deleted => (HasSource(mm, s) <=> mm.entry[s].num > 0)

(* Only TEMI timelines have filters, and the one an entry names runs.      *)
FilterFits(mm, s) ==
    /\ mm.entry[s].filter > 0 => <<s, mm.entry[s].filter>> \in mm.running
    /\ \A n \in 1..MaxFilters : <<s, n>> \in mm.running => Kind[s] = "temi"

(* No clock runs on a destroyed one, unless m_masterTimeline names a
   timeline without a source.                                              *)
ClocksFit(mm) ==
    (mm.master = None \/ HasSource(mm, mm.master)) =>
        \A s \in Selectors : HasSource(mm, s) =>
            \/ mm.source[s].parent = Sys
            \/ /\ mm.source[s].parent = mm.master
               /\ mm.source[mm.master].parent = Sys

(* The watchers of a timeline.                                             *)
Sum(mm, s) == At(mm, s).num + At(mm, s).pending
-----------------------------------------------------------------------------
(* What the operators leave alone: the clients and the content id, the
   sources, the filters.                                                   *)
SameClients(mm, nn) ==
    /\ nn.setup = mm.setup /\ nn.stem = mm.stem /\ nn.uses = mm.uses
    /\ nn.contentId = mm.contentId /\ nn.override = mm.override
    /\ nn.deleted = mm.deleted /\ nn.ts = mm.ts

SameSources(mm, nn) ==
    /\ nn.source = mm.source /\ nn.master = mm.master /\ nn.cii = mm.cii
    /\ nn.attached = mm.attached

SameFilters(mm, nn) == nn.opened = mm.opened /\ nn.running = mm.running

LEMMA Constants ==
  /\ None \notin Selectors /\ Sys \notin Selectors /\ Sys # None
  /\ MaxFilters \in Nat /\ 0 \in 0..MaxFilters
  /\ Kind \in [Selectors -> {"pts", "temi", "other", "invalid"}]
BY KindAssumption

LEMMA Entries ==
  /\ NewEntry \in Entry /\ NoEntry \in Entry /\ NewEntry # NoEntry
  /\ NewEntry.num = 0 /\ NewEntry.pending = 0 /\ NewEntry.filter = 0
  /\ NoEntry.num = -1 /\ NoEntry.pending = -1 /\ NoEntry.filter = -1
BY Constants DEF NewEntry, NoEntry, Entry

PlainEntry == [num : Nat, pending : Nat, filter : 0..MaxFilters]

LEMMA EntryType ==
  ASSUME NEW e \in Entry
  PROVE  e = NoEntry \/ (e \in PlainEntry /\ e # NoEntry)
<1>1. CASE e \in PlainEntry
  BY <1>1, Entries DEF PlainEntry
<1>2. CASE e \notin PlainEntry
  BY <1>2 DEF Entry, PlainEntry
<1> QED BY <1>1, <1>2

LEMMA PlainEntries ==
  ASSUME NEW e \in PlainEntry
  PROVE  e \in Entry /\ e # NoEntry /\ e.num \in Nat /\ e.pending \in Nat
         /\ e.filter \in 0..MaxFilters
BY Entries DEF Entry, PlainEntry

LEMMA AtType ==
  ASSUME NEW mm \in MediaSync, NEW s \in Selectors
  PROVE  /\ mm.entry[s] \in Entry
         /\ At(mm, s) \in PlainEntry /\ At(mm, s) \in Entry
         /\ At(mm, s).num \in Nat /\ At(mm, s).pending \in Nat
         /\ At(mm, s).filter \in 0..MaxFilters
         /\ mm.entry[s] = NoEntry => At(mm, s) = NewEntry
         /\ mm.entry[s] # NoEntry => At(mm, s) = mm.entry[s]
         /\ mm.entry[s].num > 0 <=> At(mm, s).num > 0
         /\ mm.entry[s].filter > 0 <=> At(mm, s).filter > 0
         /\ At(mm, s).filter > 0 => mm.entry[s].filter = At(mm, s).filter
<1>1. mm.entry[s] \in Entry
  BY DEF MediaSync
<1>2. NewEntry \in PlainEntry
  BY Constants DEF NewEntry, PlainEntry
<1>3. At(mm, s) \in PlainEntry
  BY <1>1, <1>2, EntryType DEF At
<1>4. At(mm, s).num \in Nat /\ At(mm, s).pending \in Nat /\ At(mm, s).filter \in 0..MaxFilters
  BY <1>3 DEF PlainEntry
<1>5. At(mm, s) \in Entry
  BY <1>3 DEF PlainEntry, Entry
<1>6. CASE mm.entry[s] = NoEntry
  BY <1>1, <1>3, <1>4, <1>5, <1>6, Entries DEF At
<1>7. CASE mm.entry[s] # NoEntry
  BY <1>1, <1>3, <1>4, <1>5, <1>7 DEF At
<1> QED BY <1>6, <1>7

(* An entry that is replaced.                                              *)
Put(mm, s, e) == [mm EXCEPT !.entry[s] = e]

LEMMA PutFits ==
  ASSUME NEW mm \in MediaSync, NEW s \in Selectors, NEW e \in Entry
  PROVE  /\ Put(mm, s, e) \in MediaSync /\ Put(mm, s, e).entry[s] = e
         /\ \A t \in Selectors \ {s} : Put(mm, s, e).entry[t] = mm.entry[t]
         /\ SameClients(mm, Put(mm, s, e)) /\ SameSources(mm, Put(mm, s, e))
         /\ SameFilters(mm, Put(mm, s, e))
<1> DEFINE nn == Put(mm, s, e)
<1>1. nn \in MediaSync
  BY DEF MediaSync, Put
<1>2. nn.entry = [mm.entry EXCEPT ![s] = e]
      /\ SameClients(mm, nn) /\ SameSources(mm, nn) /\ SameFilters(mm, nn)
  BY DEF MediaSync, SameClients, SameSources, SameFilters, Put
<1>3. mm.entry \in [Selectors -> Entry]
  BY DEF MediaSync
<1> HIDE DEF nn
<1>4. nn \in MediaSync /\ nn.entry[s] = e
      /\ \A t \in Selectors \ {s} : nn.entry[t] = mm.entry[t]
  BY <1>1, <1>2, <1>3
<1> QED BY <1>2, <1>4 DEF nn

(* What the model calls a source is one whatever its parent is.            *)
LEMMA Sources ==
  /\ NoSource \in Source
  /\ \A x \in Source : x # NoSource => x \in [available : BOOLEAN, parent : Selectors \cup {Sys}]
  /\ \A b \in BOOLEAN, p \in Selectors \cup {Sys} :
        [available |-> b, parent |-> p] \in Source /\ [available |-> b, parent |-> p] # NoSource
BY Constants DEF NoSource, Source
-----------------------------------------------------------------------------
(* The control timestamp of a client depends on the sources that are
   attached, their clocks, and what the client asked for.                  *)
LEMMA SameTimestamp ==
  ASSUME NEW mm, NEW nn, NEW c \in Clients,
         nn.setup[c] = mm.setup[c], nn.stem[c] = mm.stem[c],
         nn.contentId = mm.contentId, nn.override = mm.override,
         nn.attached = mm.attached, nn.source = mm.source
  PROVE  ControlTimestamp(nn, c) = ControlTimestamp(mm, c)
<1>1. IsAvailable(nn, mm.setup[c]) <=> IsAvailable(mm, mm.setup[c])
  BY DEF IsAvailable
<1>2. MatchesStem(nn, c) <=> MatchesStem(mm, c)
  BY DEF MatchesStem, ContentId
<1> QED BY <1>1, <1>2 DEF ControlTimestamp

LEMMA SetParentsFits ==
  ASSUME NEW mm \in MediaSync, NEW p \in Selectors \cup {Sys}, NEW nn,
         nn = SetParents(mm, p)
  PROVE  /\ nn \in MediaSync /\ SameClients(mm, nn) /\ SameFilters(mm, nn)
         /\ nn.entry = mm.entry /\ nn.master = mm.master
         /\ nn.cii = mm.cii /\ nn.attached = mm.attached
         /\ \A t \in Selectors : /\ HasSource(nn, t) <=> HasSource(mm, t)
                                 /\ HasSource(nn, t) => nn.source[t].parent = p
<1> DEFINE source == [s \in Selectors |->
                        IF HasSource(mm, s) THEN [mm.source[s] EXCEPT !.parent = p]
                        ELSE NoSource]
<1>1. nn = [mm EXCEPT !.source = source]
  BY DEF SetParents
<1>2. ASSUME NEW t \in Selectors
      PROVE  /\ source[t] \in Source /\ (source[t] # NoSource <=> HasSource(mm, t))
             /\ HasSource(mm, t) => source[t].parent = p
  <2>1. CASE HasSource(mm, t)
    <3>1. mm.source[t] \in Source /\ mm.source[t] # NoSource
      BY <2>1 DEF MediaSync, HasSource
    <3>2. mm.source[t] \in [available : BOOLEAN, parent : Selectors \cup {Sys}]
      BY <3>1, Sources
    <3>3. source[t] = [mm.source[t] EXCEPT !.parent = p]
      BY <2>1
    <3>4. source[t] = [available |-> mm.source[t].available, parent |-> p]
          /\ mm.source[t].available \in BOOLEAN
      BY <3>2, <3>3
    <3> QED BY <2>1, <3>4, Sources
  <2>2. CASE ~HasSource(mm, t)
    BY <2>2, Sources
  <2> QED BY <2>1, <2>2
<1>3. source \in [Selectors -> Source]
  BY <1>2
<1> HIDE DEF source
<1>4. /\ nn \in MediaSync /\ SameClients(mm, nn) /\ SameFilters(mm, nn)
      /\ nn.entry = mm.entry /\ nn.master = mm.master
      /\ nn.cii = mm.cii /\ nn.attached = mm.attached /\ nn.source = source
  BY <1>1, <1>3 DEF MediaSync, SameClients, SameFilters
<1> QED BY <1>2, <1>4 DEF HasSource

LEMMA SetAvailabilityFits ==
  ASSUME NEW mm \in MediaSync, NEW s \in Selectors, NEW a \in BOOLEAN, NEW nn,
         nn = SetAvailability(mm, s, a)
  PROVE  /\ nn \in MediaSync /\ SameClients(mm, nn) /\ SameFilters(mm, nn)
         /\ nn.entry = mm.entry /\ nn.master = mm.master
         /\ nn.cii = mm.cii /\ nn.attached = mm.attached
         /\ \A t \in Selectors : /\ HasSource(nn, t) <=> HasSource(mm, t)
                                 /\ nn.source[t].parent = mm.source[t].parent
<1>1. CASE ~HasSource(mm, s)
  BY <1>1 DEF SetAvailability, SameClients, SameFilters
<1>2. CASE HasSource(mm, s)
  <2> DEFINE x == [available |-> a, parent |-> mm.source[s].parent]
  <2>1. mm.source[s] \in Source /\ mm.source[s] # NoSource /\ mm.source \in [Selectors -> Source]
    BY <1>2 DEF MediaSync, HasSource
  <2>2. mm.source[s] \in [available : BOOLEAN, parent : Selectors \cup {Sys}]
    BY <2>1, Sources
  <2>3. x \in Source /\ x # NoSource /\ x.parent = mm.source[s].parent
        /\ x = [mm.source[s] EXCEPT !.available = a]
    BY <2>2, Sources
  <2> HIDE DEF x
  <2>4. nn = [mm EXCEPT !.source[s] = x]
    BY <1>2, <2>3 DEF SetAvailability, MediaSync
  <2>5. /\ nn \in MediaSync /\ SameClients(mm, nn) /\ SameFilters(mm, nn)
        /\ nn.entry = mm.entry /\ nn.master = mm.master /\ nn.cii = mm.cii
        /\ nn.attached = mm.attached /\ nn.source = [mm.source EXCEPT ![s] = x]
    <3> DEFINE source == [mm.source EXCEPT ![s] = x]
    <3>1. x \in Source
      BY <2>3
    <3>2. source \in [Selectors -> Source]
      BY <2>1, <3>1
    <3>3. nn = [mm EXCEPT !.source = source]
      BY <2>4
    <3> HIDE DEF source
    <3>4. /\ nn \in MediaSync /\ SameClients(mm, nn) /\ SameFilters(mm, nn)
          /\ nn.entry = mm.entry /\ nn.master = mm.master /\ nn.cii = mm.cii
          /\ nn.attached = mm.attached /\ nn.source = source
      BY <3>2, <3>3 DEF MediaSync, SameClients, SameFilters
    <3> QED BY <3>4 DEF source
  <2>6. ASSUME NEW t \in Selectors
        PROVE  /\ HasSource(nn, t) <=> HasSource(mm, t)
               /\ nn.source[t].parent = mm.source[t].parent
    BY <1>2, <2>1, <2>3, <2>5 DEF HasSource
  <2> QED BY <2>5, <2>6
<1> QED BY <1>1, <1>2

(* A source that is created: for the master's timeline, all others' clocks
   run on its clock.                                                       *)
LEMMA CreateFits ==
  ASSUME NEW mm \in MediaSync, NEW s \in Selectors, NEW nn, nn = CreateSource(mm, s)
  PROVE  /\ nn \in MediaSync /\ SameClients(mm, nn) /\ SameFilters(mm, nn)
         /\ nn.entry = mm.entry /\ nn.master = mm.master /\ nn.cii = mm.cii \cup {s}
         /\ HasSource(nn, s) /\ nn.source[s].parent = Sys
         /\ \A t \in Selectors \ {s} :
                /\ HasSource(nn, t) <=> HasSource(mm, t)
                /\ HasSource(nn, t) => nn.source[t].parent =
                       IF mm.master = s THEN s ELSE mm.source[t].parent
<1> DEFINE q == IF mm.master = s THEN SetParents(mm, s) ELSE mm
<1> DEFINE x == [available |-> TRUE, parent |-> Sys]
<1> DEFINE att == IF q.ts = "none" THEN q.attached ELSE q.attached \cup {s}
<1>1. /\ q \in MediaSync /\ SameClients(mm, q) /\ SameFilters(mm, q)
      /\ q.entry = mm.entry /\ q.master = mm.master /\ q.cii = mm.cii
      /\ \A t \in Selectors :
            /\ HasSource(q, t) <=> HasSource(mm, t)
            /\ HasSource(q, t) => q.source[t].parent =
                   IF mm.master = s THEN s ELSE mm.source[t].parent
  <2>1. CASE mm.master = s
    BY <2>1, SetParentsFits
  <2>2. CASE mm.master # s
    BY <2>2 DEF SameClients, SameFilters
  <2> QED BY <2>1, <2>2
<1>2. nn = [q EXCEPT !.source[s] = x, !.cii = @ \cup {s},
                     !.attached = IF mm.ts = "none" THEN @ ELSE @ \cup {s}]
  BY DEF CreateSource
<1> HIDE DEF q
<1>3. x \in Source /\ x # NoSource /\ x.parent = Sys
  BY Sources
<1> HIDE DEF x
<1>4. /\ q.source \in [Selectors -> Source] /\ att \subseteq Selectors
      /\ q.cii \cup {s} \subseteq Selectors /\ q.ts = mm.ts
  BY <1>1 DEF MediaSync, SameClients
<1> DEFINE source == [q.source EXCEPT ![s] = x]
<1> DEFINE cii == q.cii \cup {s}
<1>5. source \in [Selectors -> Source] /\ cii \subseteq Selectors
  BY <1>3, <1>4
<1>6. nn = [q EXCEPT !.source = source, !.cii = cii, !.attached = att]
  BY <1>1, <1>2, <1>4 DEF MediaSync
<1> HIDE DEF att, source, cii
<1>7. /\ nn \in MediaSync /\ SameClients(q, nn) /\ SameFilters(q, nn)
      /\ nn.entry = q.entry /\ nn.master = q.master /\ nn.cii = cii
      /\ nn.source = source
  <2>1. q \in MediaSync /\ att \subseteq Selectors
    BY <1>1, <1>4
  <2>2. nn \in MediaSync
    <3> DEFINE r == [q EXCEPT !.source = source]
    <3> DEFINE v == [r EXCEPT !.cii = cii]
    <3>1. r \in MediaSync
      BY <1>5, <2>1 DEF MediaSync
    <3> HIDE DEF r
    <3>2. v \in MediaSync
      BY <1>5, <3>1 DEF MediaSync
    <3>3. nn = [v EXCEPT !.attached = att]
      BY <1>6 DEF r
    <3> HIDE DEF v
    <3>4. att \in SUBSET Selectors
      BY <2>1
    <3> QED BY <3>2, <3>3, <3>4, SMTT(30) DEF MediaSync
  <2>3. /\ SameClients(q, nn) /\ SameFilters(q, nn) /\ nn.entry = q.entry
        /\ nn.master = q.master /\ nn.cii = cii /\ nn.source = source
    BY <1>6, <2>1 DEF MediaSync, SameClients, SameFilters
  <2> QED BY <2>2, <2>3
<1>8. HasSource(nn, s) /\ nn.source[s].parent = Sys
  BY <1>3, <1>4, <1>7 DEF HasSource, source
<1>9. ASSUME NEW t \in Selectors \ {s}
      PROVE  /\ HasSource(nn, t) <=> HasSource(mm, t)
             /\ HasSource(nn, t) => nn.source[t].parent =
                    IF mm.master = s THEN s ELSE mm.source[t].parent
  <2>1. nn.source[t] = q.source[t]
    BY <1>4, <1>7 DEF source
  <2> QED BY <1>1, <2>1 DEF HasSource
<1>10. SameClients(mm, nn) /\ SameFilters(mm, nn)
  BY <1>1, <1>7 DEF SameClients, SameFilters
<1>11. nn.cii = mm.cii \cup {s}
  BY <1>1, <1>7 DEF cii
<1> QED BY <1>1, <1>7, <1>8, <1>9, <1>10, <1>11
-----------------------------------------------------------------------------
(* What every operator on the MediaSynchroniser's state keeps.             *)
StateFits(mm) ==
    /\ mm \in MediaSync
    /\ \A s \in Selectors : SourceFits(mm, s) /\ FilterFits(mm, s)
    /\ ~mm.deleted => mm.cii = {s \in Selectors : HasSource(mm, s)}

(* Where no source comes or goes, none changes.                            *)
QuietSources(mm, nn) ==
    (\A t \in Selectors : HasSource(nn, t) <=> HasSource(mm, t)) =>
        nn.source = mm.source /\ nn.attached = mm.attached

Keeps(mm, nn, s) ==
    /\ StateFits(nn) /\ SameClients(mm, nn) /\ QuietSources(mm, nn)
    /\ \A t \in Selectors \ {s} : nn.entry[t] = mm.entry[t]
    /\ ClocksFit(mm) => ClocksFit(nn)

LEMMA KeepsTrans ==
  ASSUME NEW mm, NEW nn, NEW oo, NEW s \in Selectors,
         Keeps(mm, nn, s), nn.source = mm.source, nn.attached = mm.attached,
         Keeps(nn, oo, s)
  PROVE  Keeps(mm, oo, s)
<1>1. QuietSources(mm, oo)
  BY DEF Keeps, QuietSources, HasSource
<1> QED BY <1>1 DEF Keeps, SameClients

(* An entry that is replaced while its source stays what it is.            *)
LEMMA EntryStep ==
  ASSUME NEW mm, StateFits(mm), NEW s \in Selectors, NEW e \in Entry, NEW nn,
         nn = Put(mm, s, e),
         ~mm.deleted => (e.num > 0 <=> mm.entry[s].num > 0),
         e.filter > 0 => <<s, e.filter>> \in mm.running
  PROVE  /\ Keeps(mm, nn, s) /\ nn.master = mm.master
         /\ nn.entry[s] = e /\ SameSources(mm, nn) /\ SameFilters(mm, nn)
<1>1. mm \in MediaSync
  BY DEF StateFits
<1>2. /\ nn \in MediaSync /\ nn.entry[s] = e
      /\ \A t \in Selectors \ {s} : nn.entry[t] = mm.entry[t]
      /\ SameClients(mm, nn) /\ SameSources(mm, nn) /\ SameFilters(mm, nn)
  BY <1>1, PutFits
<1>3. \A t : HasSource(nn, t) <=> HasSource(mm, t)
  BY <1>2 DEF HasSource, SameSources
<1>4. ASSUME NEW t \in Selectors
      PROVE  SourceFits(nn, t) /\ FilterFits(nn, t)
  <2>1. SourceFits(mm, t) /\ FilterFits(mm, t)
    BY DEF StateFits
  <2>2. CASE t = s
    BY <1>2, <1>3, <2>1, <2>2 DEF SourceFits, FilterFits, SameClients, SameFilters
  <2>3. CASE t # s
    BY <1>2, <1>3, <2>1, <2>3 DEF SourceFits, FilterFits, SameClients, SameFilters
  <2> QED BY <2>2, <2>3
<1>5. ~nn.deleted => nn.cii = {t \in Selectors : HasSource(nn, t)}
  BY <1>2, <1>3 DEF StateFits, SameClients, SameSources
<1>6. QuietSources(mm, nn) /\ (ClocksFit(mm) => ClocksFit(nn))
  BY <1>2, <1>3 DEF QuietSources, ClocksFit, SameSources
<1> QED BY <1>2, <1>4, <1>5, <1>6 DEF Keeps, StateFits, SameSources

(* addTimeline flushes the awaited watchers into those that count, and
   creates the source for the first of them.                               *)
LEMMA AddFits ==
  ASSUME NEW mm, StateFits(mm), NEW s \in Selectors, NEW nn, nn = AddTimeline(mm, s)
  PROVE  /\ Keeps(mm, nn, s) /\ Sum(nn, s) = Sum(mm, s) /\ nn.master = mm.master
<1> DEFINE e == At(mm, s)
<1> DEFINE f == [e EXCEPT !.num = @ + e.pending, !.pending = 0]
<1> DEFINE w == Put(mm, s, f)
<1>1. mm \in MediaSync /\ SourceFits(mm, s) /\ FilterFits(mm, s)
  BY DEF StateFits
<1>2. /\ e \in PlainEntry /\ e.num \in Nat /\ e.pending \in Nat
      /\ e.filter \in 0..MaxFilters
      /\ mm.entry[s].num > 0 <=> e.num > 0
      /\ e.filter > 0 => mm.entry[s].filter = e.filter
      /\ mm.entry[s].filter > 0 <=> e.filter > 0
      /\ mm.entry[s] = NoEntry => e = NewEntry
  BY <1>1, AtType
<1>3. /\ f \in PlainEntry /\ f.num = e.num + e.pending /\ f.pending = 0
      /\ f.filter = e.filter
  <2> SUFFICES ASSUME NEW x \in PlainEntry, NEW y,
                      y = [x EXCEPT !.num = @ + x.pending, !.pending = 0]
               PROVE  /\ y \in PlainEntry /\ y.num = x.num + x.pending /\ y.pending = 0
                      /\ y.filter = x.filter
    BY <1>2, Zenon
  <2>1. x.num + x.pending \in Nat
    BY DEF PlainEntry
  <2> DEFINE i == x.num + x.pending
  <2>2. i \in Nat
    BY <2>1
  <2> HIDE DEF i
  <2>3. y = [x EXCEPT !.num = i, !.pending = 0]
    BY DEF i
  <2>4. y.num = i /\ y.pending = 0 /\ y.filter = x.filter
    BY <2>3 DEF PlainEntry
  <2>5. y \in PlainEntry
    <3> DEFINE z == [x EXCEPT !.num = i]
    <3>1. z \in PlainEntry
      BY <2>2 DEF PlainEntry
    <3>2. y = [z EXCEPT !.pending = 0]
      BY <2>3
    <3> HIDE DEF z
    <3> QED BY <3>1, <3>2 DEF PlainEntry
  <2> QED BY <2>4, <2>5 DEF i
<1>4. f \in Entry /\ f # NoEntry
  BY <1>3, PlainEntries
<1>5. nn = IF mm.entry[s] = NoEntry \/ f.num = 0 THEN Put(mm, s, NoEntry)
           ELSE IF e.num > 0 \/ HasSource(mm, s) THEN w
           ELSE CreateSource(w, s)
  BY DEF AddTimeline, Put
<1> HIDE DEF e
<1>6. /\ f.num = e.num + e.pending /\ f.pending = 0 /\ f.filter = e.filter
      /\ Sum(mm, s) = e.num + e.pending
  BY <1>3 DEF Sum, e
<1> HIDE DEF f
<1>7. f.filter > 0 => <<s, f.filter>> \in mm.running
  BY <1>1, <1>2, <1>6 DEF FilterFits
<1>8. CASE mm.entry[s] = NoEntry \/ f.num = 0
  <2>1. e.num = 0 /\ e.pending = 0
    BY <1>2, <1>6, <1>8, Entries
  <2>2. nn = Put(mm, s, NoEntry)
    BY <1>5, <1>8
  <2>3. /\ Keeps(mm, nn, s) /\ nn.entry[s] = NoEntry /\ nn.master = mm.master
    <3>1. /\ ~mm.deleted => (NoEntry.num > 0 <=> mm.entry[s].num > 0)
          /\ NoEntry.filter > 0 => <<s, NoEntry.filter>> \in mm.running
          /\ NoEntry \in Entry
      BY <1>2, <2>1, Entries
    <3> QED BY <2>2, <3>1, EntryStep
  <2>4. Sum(nn, s) = 0
    BY <2>3, Entries DEF Sum, At
  <2> QED BY <1>6, <2>1, <2>3, <2>4
<1>9. CASE ~(mm.entry[s] = NoEntry \/ f.num = 0) /\ (e.num > 0 \/ HasSource(mm, s))
  <2>1. nn = w
    BY <1>5, <1>9
  <2>2. f.num > 0
    BY <1>2, <1>6, <1>9
  <2>3. ~mm.deleted => mm.entry[s].num > 0
    BY <1>1, <1>2, <1>9 DEF SourceFits
  <2>4. /\ Keeps(mm, nn, s) /\ nn.entry[s] = f /\ nn.master = mm.master
    <3>1. /\ ~mm.deleted => (f.num > 0 <=> mm.entry[s].num > 0)
      BY <2>2, <2>3
    <3> QED BY <1>4, <1>7, <2>1, <3>1, EntryStep
  <2>5. Sum(nn, s) = f.num + f.pending
    BY <1>4, <2>4 DEF Sum, At
  <2> QED BY <1>2, <1>6, <2>4, <2>5
<1>10. CASE ~(mm.entry[s] = NoEntry \/ f.num = 0) /\ ~(e.num > 0 \/ HasSource(mm, s))
  <2>1. nn = CreateSource(w, s)
    BY <1>5, <1>10
  <2>2. /\ w \in MediaSync /\ w.entry[s] = f
        /\ \A t \in Selectors \ {s} : w.entry[t] = mm.entry[t]
        /\ SameClients(mm, w) /\ SameSources(mm, w) /\ SameFilters(mm, w)
    BY <1>1, <1>4, PutFits
  <2> HIDE DEF w
  <2>3. /\ nn \in MediaSync /\ SameClients(w, nn) /\ SameFilters(w, nn)
        /\ nn.entry = w.entry /\ nn.master = w.master /\ nn.cii = w.cii \cup {s}
        /\ HasSource(nn, s) /\ nn.source[s].parent = Sys
        /\ \A t \in Selectors \ {s} :
               /\ HasSource(nn, t) <=> HasSource(w, t)
               /\ HasSource(nn, t) => nn.source[t].parent =
                      IF w.master = s THEN s ELSE w.source[t].parent
    BY <2>1, <2>2, CreateFits
  <2>4. \A t : HasSource(w, t) <=> HasSource(mm, t)
    BY <2>2 DEF SameSources, HasSource
  <2>5. f.num > 0
    BY <1>2, <1>6, <1>10
  <2>6. ASSUME NEW t \in Selectors
        PROVE  SourceFits(nn, t) /\ FilterFits(nn, t)
    <3>1. SourceFits(mm, t) /\ FilterFits(mm, t)
      BY DEF StateFits
    <3>2. CASE t = s
      BY <1>7, <2>2, <2>3, <2>5, <3>1, <3>2
      DEF SourceFits, FilterFits, SameClients, SameFilters
    <3>3. CASE t # s
      BY <2>2, <2>3, <2>4, <3>1, <3>3
      DEF SourceFits, FilterFits, SameClients, SameFilters
    <3> QED BY <3>2, <3>3
  <2>7. ~nn.deleted => nn.cii = {t \in Selectors : HasSource(nn, t)}
    BY <2>2, <2>3, <2>4 DEF StateFits, SameClients, SameSources
  <2>8. QuietSources(mm, nn)
    BY <1>10, <2>3 DEF QuietSources
  <2>9. ClocksFit(mm) => ClocksFit(nn)
    <3>1. CASE mm.master = s
      BY <2>2, <2>3, <3>1 DEF ClocksFit, SameSources
    <3>2. CASE mm.master # s
      <4>1. nn.master = mm.master
        BY <2>2, <2>3 DEF SameSources
      <4>2. SUFFICES ASSUME ClocksFit(mm), mm.master = None \/ HasSource(nn, mm.master),
                            NEW t \in Selectors, HasSource(nn, t)
                     PROVE  \/ nn.source[t].parent = Sys
                            \/ /\ nn.source[t].parent = mm.master
                               /\ nn.source[mm.master].parent = Sys
        BY <4>1 DEF ClocksFit
      <4>3. mm.master \in Selectors \cup {None}
        BY <1>1 DEF MediaSync
      <4>4. ASSUME NEW u \in Selectors \ {s}, HasSource(nn, u)
            PROVE  HasSource(mm, u) /\ nn.source[u].parent = mm.source[u].parent
        BY <2>2, <2>3, <2>4, <3>2, <4>4 DEF SameSources
      <4>5. CASE t = s
        BY <2>3, <4>5
      <4>6. CASE t # s /\ mm.master = None
        <5>1. mm.source[t].parent = Sys \/ mm.source[t].parent = None
          BY <4>2, <4>4, <4>6 DEF ClocksFit
        <5>2. HasSource(mm, t) => mm.source[t].parent # None
          BY <1>1, Sources, Constants DEF HasSource, MediaSync
        <5> QED BY <4>2, <4>4, <4>6, <5>1, <5>2
      <4>7. CASE t # s /\ mm.master # None
        <5>1. mm.master \in Selectors \ {s} /\ HasSource(nn, mm.master)
          BY <3>2, <4>2, <4>3, <4>7
        <5>2. /\ HasSource(mm, mm.master)
              /\ nn.source[mm.master].parent = mm.source[mm.master].parent
          BY <4>4, <5>1
        <5> QED BY <4>2, <4>4, <4>7, <5>2 DEF ClocksFit
      <4> QED BY <4>5, <4>6, <4>7
    <3> QED BY <3>1, <3>2
  <2>11. Keeps(mm, nn, s)
    BY <2>2, <2>3, <2>6, <2>7, <2>8, <2>9 DEF Keeps, StateFits, SameClients
  <2>10. Sum(nn, s) = f.num + f.pending
    BY <1>4, <2>2, <2>3 DEF Sum, At
  <2> QED BY <1>2, <1>6, <2>2, <2>3, <2>10, <2>11 DEF SameSources
<1> QED BY <1>8, <1>9, <1>10

(* removeTimeline takes the source and the entry, and the clocks off the
   master's.                                                               *)
LEMMA RemoveFields ==
  ASSUME NEW mm \in MediaSync, NEW s \in Selectors, NEW nn, nn = RemoveTimeline(mm, s)
  PROVE  /\ nn \in MediaSync /\ SameClients(mm, nn) /\ SameFilters(mm, nn)
         /\ nn.entry[s] = NoEntry
         /\ \A t \in Selectors \ {s} : nn.entry[t] = mm.entry[t]
         /\ nn.cii = IF HasSource(mm, s) THEN mm.cii \ {s} ELSE mm.cii
         /\ nn.master = IF HasSource(mm, s) /\ mm.master = s THEN None ELSE mm.master
         /\ ~HasSource(mm, s) => nn.source = mm.source /\ nn.attached = mm.attached
         /\ ~HasSource(nn, s)
         /\ \A t \in Selectors \ {s} :
                /\ HasSource(nn, t) <=> HasSource(mm, t)
                /\ HasSource(nn, t) => nn.source[t].parent =
                       IF HasSource(mm, s) /\ mm.master = s THEN Sys
                       ELSE mm.source[t].parent
<1> DEFINE q == IF mm.master = s THEN [SetParents(mm, Sys) EXCEPT !.master = None] ELSE mm
<1> DEFINE r == [q EXCEPT !.source = [q.source EXCEPT ![s] = NoSource],
                          !.cii = q.cii \ {s}, !.attached = q.attached \ {s}]
<1> DEFINE g == IF HasSource(mm, s) THEN r ELSE mm
<1>1. nn = Put(g, s, NoEntry)
  BY DEF RemoveTimeline, Put
<1>2. /\ q \in MediaSync /\ SameClients(mm, q) /\ SameFilters(mm, q)
      /\ q.entry = mm.entry /\ q.cii = mm.cii
      /\ q.master = IF mm.master = s THEN None ELSE mm.master
      /\ \A t \in Selectors :
            /\ HasSource(q, t) <=> HasSource(mm, t)
            /\ HasSource(q, t) => q.source[t].parent =
                   IF mm.master = s THEN Sys ELSE mm.source[t].parent
  <2>1. CASE mm.master = s
    <3> DEFINE p == SetParents(mm, Sys)
    <3>1. /\ p \in MediaSync /\ SameClients(mm, p) /\ SameFilters(mm, p)
          /\ p.entry = mm.entry /\ p.cii = mm.cii
          /\ \A t \in Selectors : /\ HasSource(p, t) <=> HasSource(mm, t)
                                  /\ HasSource(p, t) => p.source[t].parent = Sys
      BY SetParentsFits
    <3>2. q = [p EXCEPT !.master = None]
      BY <2>1
    <3> HIDE DEF p, q
    <3>3. /\ q \in MediaSync /\ SameClients(p, q) /\ SameFilters(p, q)
          /\ q.entry = p.entry /\ q.cii = p.cii /\ q.source = p.source /\ q.master = None
      BY <3>1, <3>2 DEF MediaSync, SameClients, SameFilters
    <3>4. \A t : HasSource(q, t) <=> HasSource(p, t)
      BY <3>3 DEF HasSource
    <3> QED BY <2>1, <3>1, <3>3, <3>4 DEF SameClients, SameFilters
  <2>2. CASE mm.master # s
    BY <2>2 DEF SameClients, SameFilters
  <2> QED BY <2>1, <2>2
<1> HIDE DEF q
<1>3. /\ r \in MediaSync /\ SameClients(q, r) /\ SameFilters(q, r)
      /\ r.entry = q.entry /\ r.cii = q.cii \ {s} /\ r.master = q.master
      /\ r.source = [q.source EXCEPT ![s] = NoSource]
  <2>1. /\ [q.source EXCEPT ![s] = NoSource] \in [Selectors -> Source]
        /\ q.cii \ {s} \subseteq Selectors /\ q.attached \ {s} \subseteq Selectors
    BY <1>2, Sources DEF MediaSync
  <2> QED BY <1>2, <2>1 DEF MediaSync, SameClients, SameFilters
<1> HIDE DEF r
<1>4. q.source \in [Selectors -> Source]
  BY <1>2 DEF MediaSync
<1>5. CASE ~HasSource(mm, s)
  <2>1. nn = Put(mm, s, NoEntry)
    BY <1>1, <1>5
  <2>2. /\ nn \in MediaSync /\ nn.entry[s] = NoEntry
        /\ \A t \in Selectors \ {s} : nn.entry[t] = mm.entry[t]
        /\ SameClients(mm, nn) /\ SameSources(mm, nn) /\ SameFilters(mm, nn)
    BY <2>1, Entries, PutFits
  <2> QED BY <1>5, <2>2 DEF SameSources, HasSource
<1>6. CASE HasSource(mm, s)
  <2>1. nn = Put(r, s, NoEntry)
    BY <1>1, <1>6
  <2>3. /\ nn \in MediaSync /\ nn.entry[s] = NoEntry
        /\ \A t \in Selectors \ {s} : nn.entry[t] = r.entry[t]
        /\ SameClients(r, nn) /\ SameSources(r, nn) /\ SameFilters(r, nn)
    BY <1>3, <2>1, Entries, PutFits
  <2>5. SameClients(mm, nn) /\ SameFilters(mm, nn)
    BY <1>2, <1>3, <2>3 DEF SameClients, SameFilters
  <2>6. nn.source = [q.source EXCEPT ![s] = NoSource] /\ nn.cii = mm.cii \ {s}
        /\ nn.master = q.master /\ \A t \in Selectors \ {s} : nn.entry[t] = mm.entry[t]
    BY <1>2, <1>3, <2>3 DEF SameSources
  <2>7. ~HasSource(nn, s)
    BY <1>4, <2>6 DEF HasSource
  <2>8. ASSUME NEW t \in Selectors \ {s}
        PROVE  /\ HasSource(nn, t) <=> HasSource(mm, t)
               /\ HasSource(nn, t) => nn.source[t].parent =
                      IF mm.master = s THEN Sys ELSE mm.source[t].parent
    <3>1. nn.source[t] = q.source[t]
      BY <1>4, <2>6
    <3> QED BY <1>2, <3>1 DEF HasSource
  <2> QED BY <1>2, <1>6, <2>3, <2>5, <2>6, <2>7, <2>8
<1> QED BY <1>5, <1>6

LEMMA StopLastFits ==
  ASSUME NEW mm, StateFits(mm), NEW s \in Selectors, NEW nn,
         nn = RemoveTimeline(CloseFilter(mm, s), s)
  PROVE  /\ Keeps(mm, nn, s) /\ Sum(nn, s) = 0 /\ nn.master \in {mm.master, None}
<1> DEFINE q == CloseFilter(mm, s)
<1>1. mm \in MediaSync
  BY DEF StateFits
<1>2. /\ q \in MediaSync /\ SameClients(mm, q) /\ SameSources(mm, q)
      /\ q.entry = mm.entry /\ q.running = mm.running \ {<<s, At(mm, s).filter>>}
  BY <1>1 DEF CloseFilter, MediaSync, SameClients, SameSources
<1>0. nn = RemoveTimeline(q, s)
  OBVIOUS
<1> HIDE DEF q
<1>3. /\ nn \in MediaSync /\ SameClients(q, nn) /\ SameFilters(q, nn)
      /\ nn.entry[s] = NoEntry
      /\ \A t \in Selectors \ {s} : nn.entry[t] = q.entry[t]
      /\ nn.cii = IF HasSource(q, s) THEN q.cii \ {s} ELSE q.cii
      /\ nn.master = IF HasSource(q, s) /\ q.master = s THEN None ELSE q.master
      /\ ~HasSource(q, s) => nn.source = q.source /\ nn.attached = q.attached
      /\ ~HasSource(nn, s)
      /\ \A t \in Selectors \ {s} :
             /\ HasSource(nn, t) <=> HasSource(q, t)
             /\ HasSource(nn, t) => nn.source[t].parent =
                    IF HasSource(q, s) /\ q.master = s THEN Sys
                    ELSE q.source[t].parent
  BY <1>0, <1>2, RemoveFields
<1>4. \A t : HasSource(q, t) <=> HasSource(mm, t)
  BY <1>2 DEF HasSource, SameSources
<1>5. QuietSources(mm, nn)
  BY <1>2, <1>3, <1>4 DEF QuietSources, SameSources
<1>6. ASSUME NEW t \in Selectors
      PROVE  SourceFits(nn, t) /\ FilterFits(nn, t)
  <2>1. SourceFits(mm, t) /\ FilterFits(mm, t)
    BY DEF StateFits
  <2>2. CASE t = s
    BY <1>2, <1>3, <2>1, <2>2, Entries DEF SourceFits, FilterFits, SameClients, SameFilters
  <2>3. CASE t # s
    <3>1. \A n : <<t, n>> \in nn.running <=> <<t, n>> \in mm.running
      BY <1>2, <1>3, <2>3 DEF SameFilters
    <3>2. nn.entry[t] = mm.entry[t] /\ nn.deleted = mm.deleted
          /\ (HasSource(nn, t) <=> HasSource(mm, t))
      BY <1>2, <1>3, <1>4, <2>3 DEF SameClients
    <3> QED BY <2>1, <3>1, <3>2 DEF SourceFits, FilterFits
  <2> QED BY <2>2, <2>3
<1>7. ~nn.deleted => nn.cii = {t \in Selectors : HasSource(nn, t)}
  BY <1>2, <1>3, <1>4 DEF StateFits, SameClients, SameSources
<1>8. ClocksFit(mm) => ClocksFit(nn)
  <2>1. CASE HasSource(mm, s) /\ mm.master = s
    BY <1>2, <1>3, <1>4, <2>1 DEF ClocksFit, SameSources
  <2>2. CASE ~(HasSource(mm, s) /\ mm.master = s)
    <3>1. nn.master = mm.master
      BY <1>2, <1>3, <1>4, <2>2 DEF SameSources
    <3>2. ASSUME NEW t \in Selectors, HasSource(nn, t)
          PROVE  t # s /\ HasSource(mm, t) /\ nn.source[t].parent = mm.source[t].parent
      BY <1>2, <1>3, <1>4, <2>2, <3>2 DEF SameSources
    <3>3. mm.master \in Selectors \cup {None}
      BY <1>1 DEF MediaSync
    <3>4. ASSUME ClocksFit(mm), mm.master = None \/ HasSource(nn, mm.master),
                 NEW t \in Selectors, HasSource(nn, t)
          PROVE  \/ nn.source[t].parent = Sys
                 \/ /\ nn.source[t].parent = mm.master
                    /\ nn.source[mm.master].parent = Sys
      <4>1. HasSource(mm, t) /\ nn.source[t].parent = mm.source[t].parent
        BY <3>2, <3>4
      <4>2. CASE mm.master = None
        <5>1. mm.source[t].parent = Sys \/ mm.source[t].parent = None
          BY <3>4, <4>1, <4>2 DEF ClocksFit
        <5>2. mm.source[t].parent # None
          BY <1>1, <4>1, Sources, Constants DEF HasSource, MediaSync
        <5> QED BY <4>1, <5>1, <5>2
      <4>3. CASE mm.master # None
        <5>1. /\ HasSource(mm, mm.master)
              /\ nn.source[mm.master].parent = mm.source[mm.master].parent
          BY <3>2, <3>3, <3>4, <4>3
        <5> QED BY <3>4, <4>1, <5>1 DEF ClocksFit
      <4> QED BY <4>2, <4>3
    <3> QED BY <3>1, <3>4 DEF ClocksFit
  <2> QED BY <2>1, <2>2
<1>9. Keeps(mm, nn, s)
  BY <1>2, <1>3, <1>5, <1>6, <1>7, <1>8 DEF Keeps, StateFits, SameClients
<1>10. Sum(nn, s) = 0
  BY <1>3, Entries DEF Sum, At
<1>11. nn.master \in {mm.master, None}
  BY <1>2, <1>3 DEF SameSources
<1> QED BY <1>9, <1>10, <1>11
-----------------------------------------------------------------------------
(* Counting one more, or one less, in an entry.                            *)
LEMMA CountNum ==
  ASSUME NEW e \in PlainEntry, NEW i \in Nat, NEW f, f = [e EXCEPT !.num = i]
  PROVE  f \in PlainEntry /\ f.num = i /\ f.pending = e.pending /\ f.filter = e.filter
<1>1. f \in PlainEntry
  BY DEF PlainEntry
<1>2. f.num = i /\ f.pending = e.pending /\ f.filter = e.filter
  BY DEF PlainEntry
<1> QED BY <1>1, <1>2

LEMMA CountPending ==
  ASSUME NEW e \in PlainEntry, NEW i \in Nat, NEW f, f = [e EXCEPT !.pending = i]
  PROVE  f \in PlainEntry /\ f.pending = i /\ f.num = e.num /\ f.filter = e.filter
<1>1. f \in PlainEntry
  BY DEF PlainEntry
<1>2. f.pending = i /\ f.num = e.num /\ f.filter = e.filter
  BY DEF PlainEntry
<1> QED BY <1>1, <1>2

(* An entry of which only the counters are changed.                        *)
LEMMA CountStep ==
  ASSUME NEW mm, StateFits(mm), NEW s \in Selectors, NEW f \in PlainEntry,
         mm.entry[s] # NoEntry, NEW nn, nn = Put(mm, s, f),
         f.filter = mm.entry[s].filter, f.num > 0 <=> mm.entry[s].num > 0
  PROVE  /\ Keeps(mm, nn, s) /\ nn.master = mm.master /\ Sum(nn, s) = f.num + f.pending
<1>1. mm \in MediaSync /\ SourceFits(mm, s) /\ FilterFits(mm, s)
  BY DEF StateFits
<1>2. mm.entry[s] \in PlainEntry
  BY <1>1, EntryType DEF MediaSync
<1>5. f.filter > 0 => <<s, f.filter>> \in mm.running
  BY <1>1 DEF FilterFits
<1>6. /\ Keeps(mm, nn, s) /\ nn.master = mm.master /\ nn.entry[s] = f
  BY <1>5, PlainEntries, EntryStep
<1>7. Sum(nn, s) = f.num + f.pending
  BY <1>6, PlainEntries DEF Sum, At
<1> QED BY <1>6, <1>7

(* The entry that is dropped had no source.                                *)
LEMMA DropStep ==
  ASSUME NEW mm, StateFits(mm), NEW s \in Selectors, ~(mm.entry[s].num > 0),
         NEW nn, nn = Put(mm, s, NoEntry)
  PROVE  /\ Keeps(mm, nn, s) /\ nn.master = mm.master /\ Sum(nn, s) = 0
<1>1. /\ Keeps(mm, nn, s) /\ nn.master = mm.master /\ nn.entry[s] = NoEntry
  <2>1. /\ ~mm.deleted => (NoEntry.num > 0 <=> mm.entry[s].num > 0)
        /\ NoEntry.filter > 0 => <<s, NoEntry.filter>> \in mm.running
        /\ NoEntry \in Entry
    BY Entries
  <2> QED BY <2>1, EntryStep
<1>2. Sum(nn, s) = 0
  BY <1>1, Entries DEF Sum, At
<1> QED BY <1>1, <1>2

(* startTimelineMonitoring of a timeline nobody watches: it is awaited; p is
   the selector of the master's timeline from then on.                     *)
Await(mm, s, p) ==
    [mm EXCEPT !.entry[s] = [At(mm, s) EXCEPT !.pending = 1], !.master = p]

LEMMA AwaitFits ==
  ASSUME NEW mm, StateFits(mm), NEW s \in Selectors, NEW p \in {s, mm.master},
         p # mm.master => ~mm.deleted,
         At(mm, s).num = 0, NEW nn, nn = Await(mm, s, p)
  PROVE  /\ Keeps(mm, nn, s) /\ Sum(nn, s) = 1 /\ SameFilters(mm, nn)
         /\ nn.source = mm.source /\ nn.attached = mm.attached /\ nn.master = p
         /\ nn.entry[s] \in PlainEntry /\ nn.entry[s].num = 0 /\ nn.entry[s].pending = 1
<1> DEFINE e == [At(mm, s) EXCEPT !.pending = 1]
<1> DEFINE w == Put(mm, s, e)
<1>1. mm \in MediaSync /\ SourceFits(mm, s) /\ FilterFits(mm, s)
  BY DEF StateFits
<1>2. e \in PlainEntry /\ e.pending = 1 /\ e.num = 0 /\ e.filter = At(mm, s).filter
  BY <1>1, AtType, CountPending
<1>3. nn = [w EXCEPT !.master = p]
  BY DEF Await, Put
<1> HIDE DEF e
<1>4. e \in Entry /\ e # NoEntry
  BY <1>2, PlainEntries
<1>5. /\ ~mm.deleted => (e.num > 0 <=> mm.entry[s].num > 0)
      /\ e.filter > 0 => <<s, e.filter>> \in mm.running
  BY <1>1, <1>2, AtType DEF FilterFits
<1>6. /\ Keeps(mm, w, s) /\ w.master = mm.master
      /\ w.entry[s] = e /\ SameSources(mm, w) /\ SameFilters(mm, w)
  BY <1>4, <1>5, EntryStep
<1>7. w \in MediaSync
  BY <1>6 DEF Keeps, StateFits
<1> HIDE DEF w
<1>8. /\ nn \in MediaSync /\ SameClients(w, nn) /\ SameFilters(w, nn)
      /\ nn.entry = w.entry /\ nn.source = w.source /\ nn.cii = w.cii
      /\ nn.attached = w.attached
      /\ nn.master = p
  <2>1. w.master \in Selectors \cup {None} /\ p \in Selectors \cup {None}
    BY <1>1, <1>7 DEF MediaSync
  <2> QED BY <1>3, <1>7, <2>1 DEF MediaSync, SameClients, SameFilters
<1>9. \A t : HasSource(nn, t) <=> HasSource(w, t)
  BY <1>8 DEF HasSource
<1>10. ASSUME NEW t \in Selectors
       PROVE  SourceFits(nn, t) /\ FilterFits(nn, t)
  <2>1. SourceFits(w, t) /\ FilterFits(w, t)
    BY <1>6 DEF Keeps, StateFits
  <2> QED BY <1>8, <1>9, <2>1 DEF SourceFits, FilterFits, SameClients, SameFilters
<1>11. ~nn.deleted => nn.cii = {t \in Selectors : HasSource(nn, t)}
  BY <1>6, <1>8, <1>9 DEF Keeps, StateFits, SameClients
<1>12. ClocksFit(mm) => ClocksFit(nn)
  <2>1. nn.source = mm.source
    BY <1>6, <1>8 DEF SameSources
  <2>2. CASE p = mm.master
    BY <1>8, <2>1, <2>2 DEF ClocksFit, HasSource
  <2>3. CASE p # mm.master
    <3>1. p = s /\ ~mm.deleted /\ ~(mm.entry[s].num > 0)
      BY <1>1, <2>3, AtType
    <3>2. ~HasSource(mm, s) /\ s # None
      BY <1>1, <3>1, Constants DEF SourceFits
    <3> QED BY <1>8, <2>1, <3>1, <3>2 DEF ClocksFit, HasSource
  <2> QED BY <2>2, <2>3
<1>13. Keeps(mm, nn, s) /\ nn.source = mm.source /\ nn.attached = mm.attached
  BY <1>6, <1>8, <1>10, <1>11, <1>12
  DEF Keeps, StateFits, SameClients, SameSources, QuietSources
<1>14. Sum(nn, s) = 1
  BY <1>2, <1>4, <1>6, <1>8 DEF Sum, At
<1> QED BY <1>2, <1>6, <1>8, <1>13, <1>14 DEF SameFilters

(* The platform opens a filter for an awaited TEMI timeline, or fails.     *)
LEMMA OpenFits ==
  ASSUME NEW mm, StateFits(mm), NEW s \in Selectors, Kind[s] = "temi",
         mm.entry[s] \in PlainEntry, NEW ok \in BOOLEAN,
         NEW nn, nn = OpenFilter(mm, s, ok)
  PROVE  /\ Keeps(mm, nn, s) /\ nn.master = mm.master /\ Sum(nn, s) = Sum(mm, s)
<1> DEFINE n == mm.opened[s] + 1
<1>1. CASE ~(ok /\ n <= MaxFilters)
  BY <1>1 DEF OpenFilter, Keeps, SameClients, QuietSources
<1>2. CASE ok /\ n <= MaxFilters
  <2> DEFINE o == [mm EXCEPT !.opened[s] = n, !.running = @ \cup {<<s, n>>}]
  <2> DEFINE e == [mm.entry[s] EXCEPT !.filter = n]
  <2>1. mm \in MediaSync
    BY DEF StateFits
  <2>2. mm.opened \in [Selectors -> 0..MaxFilters] /\ mm.opened[s] \in 0..MaxFilters
        /\ mm.running \subseteq Selectors \X (1..MaxFilters)
    BY <2>1 DEF MediaSync
  <2>3. n \in 1..MaxFilters /\ n \in 0..MaxFilters /\ n > 0
    BY <1>2, <2>2, Constants
  <2>4. nn = Put(o, s, e)
    BY <1>2 DEF OpenFilter, Put
  <2> HIDE DEF n
  <2>5. [mm.opened EXCEPT ![s] = n] \in [Selectors -> 0..MaxFilters]
        /\ mm.running \cup {<<s, n>>} \in SUBSET (Selectors \X (1..MaxFilters))
    BY <2>2, <2>3
  <2>6. /\ o \in MediaSync /\ SameClients(mm, o) /\ SameSources(mm, o)
        /\ o.entry = mm.entry /\ o.running = mm.running \cup {<<s, n>>}
    <3> DEFINE a == [mm.opened EXCEPT ![s] = n]
    <3> DEFINE b == mm.running \cup {<<s, n>>}
    <3>1. o = [mm EXCEPT !.opened = a, !.running = b]
      OBVIOUS
    <3>2. a \in [Selectors -> 0..MaxFilters] /\ b \in SUBSET (Selectors \X (1..MaxFilters))
      BY <2>5
    <3> HIDE DEF a, o
    <3>3. o \in MediaSync
      BY <2>1, <3>1, <3>2 DEF MediaSync
    <3>4. /\ SameClients(mm, o) /\ SameSources(mm, o)
          /\ o.entry = mm.entry /\ o.running = b
      BY <2>1, <3>1 DEF MediaSync, SameClients, SameSources
    <3> QED BY <3>3, <3>4
  <2> HIDE DEF o
  <2>7. \A t : HasSource(o, t) <=> HasSource(mm, t)
    BY <2>6 DEF HasSource, SameSources
  <2>8. StateFits(o)
    <3>1. ASSUME NEW t \in Selectors
          PROVE  SourceFits(o, t) /\ FilterFits(o, t)
      <4>1. SourceFits(mm, t) /\ FilterFits(mm, t)
        BY DEF StateFits
      <4>2. \A i : <<t, i>> \in o.running => <<t, i>> \in mm.running \/ t = s
        BY <2>6
      <4>3. mm.running \subseteq o.running
        BY <2>6
      <4> QED BY <2>6, <2>7, <4>1, <4>2, <4>3 DEF SourceFits, FilterFits, SameClients
    <3> QED BY <2>6, <2>7, <3>1 DEF StateFits, SameClients, SameSources
  <2>9. /\ e \in PlainEntry /\ e.filter = n /\ e.num = mm.entry[s].num
        /\ e.pending = mm.entry[s].pending
    <3>1. ASSUME NEW x \in PlainEntry
          PROVE  LET y == [x EXCEPT !.filter = n]
                 IN  y \in PlainEntry /\ y.filter = n /\ y.num = x.num /\ y.pending = x.pending
      BY <2>3 DEF PlainEntry
    <3> QED BY <3>1
  <2> HIDE DEF e
  <2>10. <<s, e.filter>> \in o.running
    BY <2>6, <2>9
  <2>11. /\ Keeps(o, nn, s) /\ nn.master = o.master /\ nn.entry[s] = e
    <3>1. /\ ~o.deleted => (e.num > 0 <=> o.entry[s].num > 0)
      BY <2>6, <2>9
    <3> QED BY <2>4, <2>8, <2>9, <2>10, <3>1, PlainEntries, EntryStep
  <2>12. ClocksFit(mm) => ClocksFit(o)
    BY <2>6, <2>7 DEF ClocksFit, SameSources
  <2>13. Keeps(mm, o, s)
    BY <2>6, <2>8, <2>12 DEF Keeps, QuietSources, SameSources
  <2>15. Keeps(mm, nn, s)
    BY <2>6, <2>11, <2>13, KeepsTrans DEF SameSources
  <2>14. Sum(nn, s) = Sum(mm, s)
    BY <2>9, <2>11, PlainEntries DEF Sum, At
  <2> QED BY <2>6, <2>11, <2>14, <2>15 DEF SameSources
<1> QED BY <1>1, <1>2

(* startTimelineMonitoring counts one watcher more, whichever way it goes,
   for every selector it knows what to do with.                            *)
StartAs(mm, s, p, ok) ==
    LET e == At(mm, s)
        w == Await(mm, s, p)
    IN  IF e.num > 0 THEN [mm EXCEPT !.entry[s].num = @ + 1]
        ELSE IF e.pending > 0 THEN [mm EXCEPT !.entry[s].pending = @ + 1]
        ELSE IF Kind[s] = "invalid" THEN Put(mm, s, NoEntry)
        ELSE IF Kind[s] = "temi" THEN OpenFilter(w, s, ok)
        ELSE IF Kind[s] = "pts" THEN AddTimeline(w, s)
        ELSE w

LEMMA StartFits ==
  ASSUME NEW mm, StateFits(mm), NEW s \in Selectors, NEW p \in {s, mm.master},
         p # mm.master => ~mm.deleted,
         NEW ok \in BOOLEAN, NEW nn, nn = StartAs(mm, s, p, ok)
  PROVE  /\ Keeps(mm, nn, s)
         /\ Kind[s] # "invalid" => Sum(nn, s) = Sum(mm, s) + 1
         /\ nn.master \in {mm.master, p}
<1> DEFINE e == At(mm, s)
<1> DEFINE w == Await(mm, s, p)
<1>1. mm \in MediaSync /\ SourceFits(mm, s)
  BY DEF StateFits
<1>2. /\ e \in PlainEntry /\ e.num \in Nat /\ e.pending \in Nat
      /\ mm.entry[s] = NoEntry => e = NewEntry
      /\ mm.entry[s] # NoEntry => e = mm.entry[s]
      /\ mm.entry[s].num > 0 <=> e.num > 0
      /\ Sum(mm, s) = e.num + e.pending
  BY <1>1, AtType DEF Sum
<1>3. nn = IF e.num > 0 THEN [mm EXCEPT !.entry[s].num = @ + 1]
           ELSE IF e.pending > 0 THEN [mm EXCEPT !.entry[s].pending = @ + 1]
           ELSE IF Kind[s] = "invalid" THEN Put(mm, s, NoEntry)
           ELSE IF Kind[s] = "temi" THEN OpenFilter(w, s, ok)
           ELSE IF Kind[s] = "pts" THEN AddTimeline(w, s)
           ELSE w
  BY DEF StartAs
<1> HIDE DEF e, w
<1>4. CASE e.num > 0
  <2> DEFINE f == [mm.entry[s] EXCEPT !.num = mm.entry[s].num + 1]
  <2>1. mm.entry[s] # NoEntry /\ mm.entry[s] = e
    BY <1>2, <1>4, Entries
  <2>2. nn = Put(mm, s, f)
    BY <1>3, <1>4 DEF Put
  <2>3. mm.entry[s].num + 1 \in Nat
    BY <1>2, <2>1
  <2>4. /\ f \in PlainEntry /\ f.num = mm.entry[s].num + 1
        /\ f.pending = mm.entry[s].pending /\ f.filter = mm.entry[s].filter
    BY <1>2, <2>1, <2>3, CountNum
  <2> HIDE DEF f
  <2>5. f.num > 0
    BY <1>2, <2>1, <2>4
  <2>6. /\ Keeps(mm, nn, s) /\ nn.master = mm.master /\ Sum(nn, s) = f.num + f.pending
    BY <1>2, <1>4, <2>1, <2>2, <2>4, <2>5, CountStep
  <2>7. Sum(nn, s) = Sum(mm, s) + 1
    BY <1>2, <2>1, <2>4, <2>6
  <2> QED BY <2>6, <2>7
<1>5. CASE ~(e.num > 0) /\ e.pending > 0
  <2> DEFINE f == [mm.entry[s] EXCEPT !.pending = mm.entry[s].pending + 1]
  <2>1. mm.entry[s] # NoEntry /\ mm.entry[s] = e
    BY <1>2, <1>5, Entries
  <2>2. nn = Put(mm, s, f)
    BY <1>3, <1>5 DEF Put
  <2>3. mm.entry[s].pending + 1 \in Nat
    BY <1>2, <2>1
  <2>4. /\ f \in PlainEntry /\ f.pending = mm.entry[s].pending + 1
        /\ f.num = mm.entry[s].num /\ f.filter = mm.entry[s].filter
    BY <1>2, <2>1, <2>3, CountPending
  <2> HIDE DEF f
  <2>5. /\ Keeps(mm, nn, s) /\ nn.master = mm.master /\ Sum(nn, s) = f.num + f.pending
    BY <2>1, <2>2, <2>4, CountStep
  <2>6. Sum(nn, s) = Sum(mm, s) + 1
    BY <1>2, <2>1, <2>4, <2>5
  <2> QED BY <2>5, <2>6
<1>6. CASE ~(e.num > 0) /\ ~(e.pending > 0) /\ Kind[s] = "invalid"
  BY <1>2, <1>3, <1>6, DropStep
<1>7. CASE ~(e.num > 0) /\ ~(e.pending > 0) /\ Kind[s] # "invalid"
  <2>1. e.num = 0 /\ Sum(mm, s) = 0
    BY <1>2, <1>7
  <2>2. /\ Keeps(mm, w, s) /\ Sum(w, s) = 1
        /\ w.master = p
        /\ w.entry[s] \in PlainEntry
        /\ w.source = mm.source /\ w.attached = mm.attached
    BY <2>1, AwaitFits DEF e, w
  <2>3. StateFits(w)
    BY <2>2 DEF Keeps
  <2>4. CASE Kind[s] = "temi"
    <3>1. nn = OpenFilter(w, s, ok)
      BY <1>3, <1>7, <2>4
    <3>2. /\ Keeps(w, nn, s) /\ nn.master = w.master /\ Sum(nn, s) = Sum(w, s)
      BY <2>2, <2>3, <2>4, <3>1, OpenFits
    <3> QED BY <2>1, <2>2, <3>2, KeepsTrans
  <2>5. CASE Kind[s] = "pts"
    <3>1. nn = AddTimeline(w, s)
      BY <1>3, <1>7, <2>5
    <3>2. /\ Keeps(w, nn, s) /\ nn.master = w.master /\ Sum(nn, s) = Sum(w, s)
      BY <2>3, <2>5, <3>1, AddFits
    <3> QED BY <2>1, <2>2, <3>2, KeepsTrans
  <2>6. CASE Kind[s] \notin {"temi", "pts"}
    <3>1. nn = w
      BY <1>3, <1>7, <2>6
    <3> QED BY <2>1, <2>2, <3>1
  <2> QED BY <2>4, <2>5, <2>6
<1> QED BY <1>4, <1>5, <1>6, <1>7

LEMMA StartMasterFits ==
  ASSUME NEW mm, StateFits(mm), NEW s \in Selectors, NEW ok \in BOOLEAN, ~mm.deleted,
         NEW nn, nn = StartTimelineMonitoring(mm, s, TRUE, ok)
  PROVE  /\ Keeps(mm, nn, s)
         /\ Kind[s] # "invalid" => Sum(nn, s) = Sum(mm, s) + 1
<1>1. nn = StartAs(mm, s, s, ok)
  BY DEF StartTimelineMonitoring, StartAs, Await, Put
<1> QED BY <1>1, StartFits

LEMMA StartOtherFits ==
  ASSUME NEW mm, StateFits(mm), NEW s \in Selectors, NEW ok \in BOOLEAN,
         NEW nn, nn = StartTimelineMonitoring(mm, s, FALSE, ok)
  PROVE  /\ Keeps(mm, nn, s)
         /\ Kind[s] # "invalid" => Sum(nn, s) = Sum(mm, s) + 1
<1> DEFINE p == mm.master
<1>1. nn = StartAs(mm, s, p, ok) /\ p \in {s, mm.master} /\ p = mm.master
  BY DEF StartTimelineMonitoring, StartAs, Await, Put
<1> HIDE DEF p
<1> QED BY <1>1, StartFits

(* stopTimelineMonitoring counts one watcher less; it takes the source with
   the last one, or at once when it is forced to.                          *)
LEMMA StopFits ==
  ASSUME NEW mm, StateFits(mm), NEW s \in Selectors, NEW force \in BOOLEAN,
         NEW nn, nn = StopTimelineMonitoring(mm, s, force)
  PROVE  /\ Keeps(mm, nn, s)
         /\ ~force /\ Sum(mm, s) > 0 => Sum(nn, s) = Sum(mm, s) - 1
<1> DEFINE e == At(mm, s)
<1>1. mm \in MediaSync /\ SourceFits(mm, s)
  BY DEF StateFits
<1>2. /\ e \in PlainEntry /\ e.num \in Nat /\ e.pending \in Nat
      /\ mm.entry[s] = NoEntry => e = NewEntry
      /\ mm.entry[s] # NoEntry => e = mm.entry[s]
      /\ mm.entry[s].num > 0 <=> e.num > 0
      /\ Sum(mm, s) = e.num + e.pending
  BY <1>1, AtType DEF Sum
<1>3. nn = IF force \/ (e.num = 1 /\ e.pending = 0)
           THEN RemoveTimeline(CloseFilter(mm, s), s)
           ELSE IF e.pending > 0 THEN [mm EXCEPT !.entry[s].pending = @ - 1]
           ELSE IF e.num > 1 THEN [mm EXCEPT !.entry[s].num = @ - 1]
           ELSE Put(mm, s, NoEntry)
  BY DEF StopTimelineMonitoring, Put
<1> HIDE DEF e
<1>4. CASE force \/ (e.num = 1 /\ e.pending = 0)
  <2>1. nn = RemoveTimeline(CloseFilter(mm, s), s)
    BY <1>3, <1>4
  <2>2. Keeps(mm, nn, s) /\ Sum(nn, s) = 0
    BY <2>1, StopLastFits
  <2>3. ~force => mm.entry[s].num > 0 /\ Sum(mm, s) = 1
    BY <1>2, <1>4
  <2> QED BY <2>2, <2>3
<1>5. CASE ~(force \/ (e.num = 1 /\ e.pending = 0)) /\ e.pending > 0
  <2> DEFINE f == [mm.entry[s] EXCEPT !.pending = mm.entry[s].pending - 1]
  <2>1. mm.entry[s] # NoEntry /\ mm.entry[s] = e
    BY <1>2, <1>5, Entries
  <2>2. nn = Put(mm, s, f)
    BY <1>3, <1>5 DEF Put
  <2>3. mm.entry[s].pending - 1 \in Nat
    BY <1>2, <1>5, <2>1
  <2>4. /\ f \in PlainEntry /\ f.pending = mm.entry[s].pending - 1
        /\ f.num = mm.entry[s].num /\ f.filter = mm.entry[s].filter
    BY <1>2, <2>1, <2>3, CountPending
  <2> HIDE DEF f
  <2>5. /\ Keeps(mm, nn, s) /\ nn.master = mm.master /\ Sum(nn, s) = f.num + f.pending
    BY <2>1, <2>2, <2>4, CountStep
  <2>6. Sum(nn, s) = Sum(mm, s) - 1
    BY <1>2, <2>1, <2>4, <2>5
  <2> QED BY <2>5, <2>6
<1>6. CASE ~(force \/ (e.num = 1 /\ e.pending = 0)) /\ ~(e.pending > 0) /\ e.num > 1
  <2> DEFINE f == [mm.entry[s] EXCEPT !.num = mm.entry[s].num - 1]
  <2>1. mm.entry[s] # NoEntry /\ mm.entry[s] = e
    BY <1>2, <1>6, Entries
  <2>2. nn = Put(mm, s, f)
    BY <1>3, <1>6 DEF Put
  <2>3. mm.entry[s].num - 1 \in Nat
    BY <1>2, <1>6, <2>1
  <2>4. /\ f \in PlainEntry /\ f.num = mm.entry[s].num - 1
        /\ f.pending = mm.entry[s].pending /\ f.filter = mm.entry[s].filter
    BY <1>2, <2>1, <2>3, CountNum
  <2> HIDE DEF f
  <2>5. f.num > 0 /\ mm.entry[s].num > 0
    BY <1>2, <1>6, <2>1, <2>4
  <2>6. /\ Keeps(mm, nn, s) /\ nn.master = mm.master /\ Sum(nn, s) = f.num + f.pending
    BY <2>1, <2>2, <2>4, <2>5, CountStep
  <2>7. Sum(nn, s) = Sum(mm, s) - 1
    BY <1>2, <2>1, <2>4, <2>6
  <2> QED BY <2>6, <2>7
<1>7. CASE ~(force \/ (e.num = 1 /\ e.pending = 0)) /\ ~(e.pending > 0) /\ ~(e.num > 1)
  <2>1. e.num = 0 /\ e.pending = 0
    BY <1>2, <1>7
  <2>2. nn = Put(mm, s, NoEntry)
    BY <1>3, <1>7
  <2>3. ~(mm.entry[s].num > 0) /\ Sum(mm, s) = 0
    BY <1>2, <2>1
  <2> QED BY <2>2, <2>3, DropStep
<1> QED BY <1>4, <1>5, <1>6, <1>7

(* The first step of setTimelineAvailability only changes what the source's
   clock says.                                                             *)
LEMMA AvailabilityFits ==
  ASSUME NEW mm, StateFits(mm), NEW s \in Selectors, NEW a \in BOOLEAN,
         NEW nn, nn = SetAvailability(mm, s, a)
  PROVE  /\ StateFits(nn) /\ SameClients(mm, nn) /\ nn.entry = mm.entry
         /\ ClocksFit(mm) => ClocksFit(nn)
         /\ \A t \in Selectors : Sum(nn, t) = Sum(mm, t)
<1>1. mm \in MediaSync
  BY DEF StateFits
<1>2. /\ nn \in MediaSync /\ SameClients(mm, nn) /\ SameFilters(mm, nn)
      /\ nn.entry = mm.entry /\ nn.master = mm.master
      /\ nn.cii = mm.cii
      /\ \A t \in Selectors : /\ HasSource(nn, t) <=> HasSource(mm, t)
                              /\ nn.source[t].parent = mm.source[t].parent
  BY <1>1, SetAvailabilityFits
<1>3. StateFits(nn)
  <2>1. ASSUME NEW t \in Selectors
        PROVE  SourceFits(nn, t) /\ FilterFits(nn, t)
    <3>1. SourceFits(mm, t) /\ FilterFits(mm, t)
      BY DEF StateFits
    <3> QED BY <1>2, <3>1 DEF SourceFits, FilterFits, SameClients, SameFilters
  <2> QED BY <1>2, <2>1 DEF StateFits, SameClients
<1>4. ClocksFit(mm) => ClocksFit(nn)
  <2>1. mm.master \in Selectors \cup {None}
    BY <1>1 DEF MediaSync
  <2>2. CASE mm.master = None
    <3>1. \A t \in Selectors : HasSource(mm, t) => mm.source[t].parent # None
      BY <1>1, Sources, Constants DEF HasSource, MediaSync
    <3> QED BY <1>2, <2>2, <3>1 DEF ClocksFit
  <2>3. CASE mm.master \in Selectors
    BY <1>2, <2>3 DEF ClocksFit
  <2> QED BY <2>1, <2>2, <2>3
<1>5. \A t \in Selectors : Sum(nn, t) = Sum(mm, t)
  BY <1>2 DEF Sum, At
<1> QED BY <1>2, <1>3, <1>4, <1>5
-----------------------------------------------------------------------------
(* The inductive invariant.  The watchers of a timeline that the application
   has not stopped too often are at least those that rely on it: the page's
   period, its media object, and the service while it counts a use of the
   timeline or is about to stop it for the last client.                    *)
Relies(b) == IF b THEN 1 ELSE 0
Used(mm, work, s) == mm.uses[s] > 0 \/ (work.at = "stop" /\ work.selector = s)
Service(mm, work, s) == IF Used(mm, work, s) THEN 1 ELSE 0
Watchers(s) == Relies(s \in period) + Relies(s \in media) + Service(m, looper, s)

CountFits ==
    \A s \in Selectors : s \notin abandoned /\ ~m.deleted /\ Kind[s] # "invalid"
        => Watchers(s) <= Sum(m, s)

(* The uses counted cover the clients that name the timeline, but for the one
   whose callback runs: it is counted from the start of its timeline until
   its disconnection.                                                      *)
Named(mm, work, s) == {d \in Clients \ {work.client} : mm.setup[d] = s}
Counted(work, s) == Relies(work.at = "update" /\ work.selector = s)

UsesCover(mm, work) ==
    \A s \in Selectors :
        mm.uses[s] >= Cardinality(Named(mm, work, s)) + Counted(work, s)

LooperFits(mm, work) ==
    /\ work.at = "idle" => work = NoWork
    /\ work.at # "idle" => work.client \in Clients /\ work.selector \in Selectors
    /\ work.at \in {"start", "update"} => mm.setup[work.client] = work.selector
    /\ work.at = "stop" => mm.uses[work.selector] = 0
    /\ mm.ts = "none" => work.at = "idle" /\ \A c \in Clients : mm.setup[c] = None

(* In a handler of the page there is a current period, and the selector of
   the setTimelineAvailability it is in.                                   *)
CallFits ==
    call.at # "none" =>
        /\ ~m.deleted /\ current # None
        /\ call.at \in {"add", "speed", "unavailable"} => call.selector # None

(* A client is told what holds, or will be by an update that has not read it
   yet; what an update has read for it holds, or will be read again.       *)
Moving == {"add", "speed", "unavailable"}
Fresh(c) ==
    \/ call.at \in Moving
    \/ looper.client = c
    \/ \E t \in Threads : c \in update[t].todo /\ update[t].at # c

UpdateFits == \A t \in Threads : update[t].at # None => update[t].at \in update[t].todo

ToldFits ==
    \A c \in Clients : m.setup[c] # None =>
        /\ \/ told[c] \in {ControlTimestamp(m, c), "either"}
           \/ Fresh(c)
           \/ \E t \in Threads : update[t].at = c
        /\ \A t \in Threads : update[t].at = c =>
               update[t].ct \in {ControlTimestamp(m, c), "either"} \/ Fresh(c)

IInv ==
    /\ TypeOK
    /\ StateFits(m)
    /\ ClocksFit(m)
    /\ CountFits
    /\ UsesCover(m, looper)
    /\ LooperFits(m, looper)
    /\ CallFits
    /\ UpdateFits
    /\ ToldFits
-----------------------------------------------------------------------------
LEMMA UpdateTypes ==
  /\ NoUpdate \in Update /\ NoUpdate.at = None /\ NoUpdate.todo = {}
  /\ \A todo \in SUBSET Clients, locked \in BOOLEAN :
        LET u == [NoUpdate EXCEPT !.todo = todo, !.locked = locked]
        IN  u \in Update /\ u.at = None /\ u.todo = todo
BY DEF NoUpdate, Update

LEMMA UpdateType ==
  ASSUME IInv, NEW t \in Threads
  PROVE  /\ update \in [Threads -> Update] /\ update[t] \in Update
         /\ update[t].at \in Clients \cup {None}
         /\ update[t].ct \in Timestamps \cup {None}
         /\ update[t].todo \subseteq Clients /\ update[t].locked \in BOOLEAN
<1>1. update \in [Threads -> Update]
  BY DEF IInv, TypeOK
<1> QED BY <1>1 DEF Update

(* An update of every client reads what holds when it gets to it.          *)
LEMMA UpdateAllFits ==
  ASSUME IInv, NEW t \in Threads, NEW locked \in BOOLEAN, UpdateAllTSClients(t, locked),
         m'.ts = "none" => \A c \in Clients : m'.setup[c] = None
  PROVE  update' \in [Threads -> Update] /\ UpdateFits' /\ ToldFits'
<1> DEFINE u == IF m'.ts = "none" THEN NoUpdate
                ELSE [NoUpdate EXCEPT !.todo = Clients, !.locked = locked]
<1>1. u \in Update /\ u.at = None /\ (m'.ts # "none" => u.todo = Clients)
  BY UpdateTypes
<1>2. update' = [update EXCEPT ![t] = u] /\ update \in [Threads -> Update]
  BY UpdateType DEF UpdateAllTSClients
<1> HIDE DEF u
<1>3. update' \in [Threads -> Update] /\ update'[t] = u
      /\ \A v \in Threads \ {t} : update'[v] = update[v]
  BY <1>1, <1>2
<1>4. UpdateFits'
  BY <1>1, <1>3 DEF UpdateFits, IInv
<1>5. ASSUME NEW c \in Clients, m'.setup[c] # None
      PROVE  Fresh(c)'
  <2>1. c # None
    BY KindAssumption
  <2>2. c \in update'[t].todo /\ update'[t].at # c
    BY <1>1, <1>3, <1>5, <2>1
  <2> QED BY <2>2 DEF Fresh
<1>6. ToldFits'
  BY <1>5 DEF ToldFits
<1> QED BY <1>3, <1>4, <1>6

(* A call that will still update everybody.                                *)
LEMMA MovingFits ==
  ASSUME call'.at \in Moving
  PROVE  ToldFits'
BY DEF ToldFits, Fresh

(* Nothing a client's timestamp depends on changes, or the callback for it
   runs and ends in its update.                                            *)
LEMMA ToldStep ==
  ASSUME IInv, update' = update, told' = told, call.at \in Moving => call'.at \in Moving,
         \A c \in Clients : m'.setup[c] # None =>
            \/ looper'.client = c
            \/ /\ m.setup[c] # None /\ ControlTimestamp(m', c) = ControlTimestamp(m, c)
               /\ looper.client # c
  PROVE  UpdateFits' /\ ToldFits'
<1>1. UpdateFits'
  BY DEF UpdateFits, IInv
<1>2. ASSUME NEW c \in Clients, m'.setup[c] # None
      PROVE  /\ \/ told'[c] \in {ControlTimestamp(m', c), "either"}
                \/ Fresh(c)'
                \/ \E t \in Threads : update'[t].at = c
             /\ \A t \in Threads : update'[t].at = c =>
                    update'[t].ct \in {ControlTimestamp(m', c), "either"} \/ Fresh(c)'
  <2>1. CASE looper'.client = c
    BY <2>1 DEF Fresh
  <2>2. CASE looper'.client # c
    <3>1. m.setup[c] # None /\ ControlTimestamp(m', c) = ControlTimestamp(m, c)
          /\ looper.client # c
      BY <1>2, <2>2
    <3>2. Fresh(c) => Fresh(c)'
      BY <3>1 DEF Fresh
    <3> QED BY <3>1, <3>2 DEF IInv, ToldFits
  <2> QED BY <2>1, <2>2
<1> QED BY <1>1, <1>2 DEF ToldFits

(* addTimeline and removeTimeline update the clients if they change what
   a timestamp depends on.                                                 *)
SameWishes(mm, nn) ==
    /\ nn.setup = mm.setup /\ nn.stem = mm.stem /\ nn.ts = mm.ts
    /\ nn.contentId = mm.contentId /\ nn.override = mm.override

LEMMA SourcesStep ==
  ASSUME IInv, NEW t \in Threads, QuietSources(m, m'), SameWishes(m, m'),
         UpdateIfSourcesChange(t), told' = told, looper'.client = looper.client,
         call.at \in Moving => call'.at \in Moving
  PROVE  update' \in [Threads -> Update] /\ UpdateFits' /\ ToldFits'
<1>1. CASE \E s \in Selectors : HasSource(m, s) # HasSource(m', s)
  <2>1. UpdateAllTSClients(t, TRUE)
    BY <1>1 DEF UpdateIfSourcesChange
  <2>2. m'.ts = "none" => \A c \in Clients : m'.setup[c] = None
    BY DEF IInv, LooperFits, SameWishes
  <2> QED BY <2>1, <2>2, UpdateAllFits
<1>2. CASE ~\E s \in Selectors : HasSource(m, s) # HasSource(m', s)
  <2>1. update' = update
    BY <1>2 DEF UpdateIfSourcesChange
  <2>2. \A s \in Selectors : HasSource(m', s) <=> HasSource(m, s)
    BY <1>2 DEF HasSource
  <2>3. m'.source = m.source /\ m'.attached = m.attached
    BY <2>2 DEF QuietSources
  <2>4. \A c \in Clients : ControlTimestamp(m', c) = ControlTimestamp(m, c)
    BY <2>3, SameTimestamp DEF SameWishes
  <2>5. update' \in [Threads -> Update]
    BY <2>1 DEF IInv, TypeOK
  <2>6. UpdateFits' /\ ToldFits'
    BY <2>1, <2>4, ToldStep DEF SameWishes
  <2> QED BY <2>5, <2>6
<1> QED BY <1>1, <1>2
-----------------------------------------------------------------------------
LEMMA WatcherTypes ==
  ASSUME IInv, NEW s \in Selectors
  PROVE  /\ Relies(s \in period) \in {0, 1} /\ Relies(s \in media) \in {0, 1}
         /\ Service(m, looper, s) \in {0, 1}
         /\ Sum(m, s) \in Nat
         /\ s \notin abandoned /\ ~m.deleted /\ Kind[s] # "invalid"
                => Relies(s \in period) + Relies(s \in media) + Service(m, looper, s)
                     <= Sum(m, s)
<1>1. Sum(m, s) \in Nat
  <2>1. At(m, s).num \in Nat /\ At(m, s).pending \in Nat
    BY AtType DEF IInv, StateFits
  <2> QED BY <2>1 DEF Sum
<1> QED BY <1>1 DEF Relies, Service, Watchers, IInv, CountFits

(* Only s gains or loses watchers, and as many as rely on it.              *)
LEMMA CountStepFits ==
  ASSUME IInv, NEW s \in Selectors, abandoned \subseteq abandoned',
         m'.deleted = m.deleted,
         \A t \in Selectors \ {s} :
            /\ m'.entry[t] = m.entry[t]
            /\ Used(m', looper', t) => Used(m, looper, t)
            /\ t \in period' => t \in period
            /\ t \in media' => t \in media,
         s \notin abandoned' /\ ~m.deleted /\ Kind[s] # "invalid"
            => Relies(s \in period') + Relies(s \in media') + Service(m', looper', s)
                 <= Sum(m', s)
  PROVE  CountFits'
<1> SUFFICES ASSUME NEW t \in Selectors, t \notin abandoned', ~m'.deleted, Kind[t] # "invalid"
             PROVE  Relies(t \in period') + Relies(t \in media') + Service(m', looper', t)
                      <= Sum(m', t)
  BY DEF CountFits, Watchers
<1>1. CASE t = s
  BY <1>1
<1>2. CASE t # s
  <2>1. Sum(m', t) = Sum(m, t)
    BY <1>2 DEF Sum, At
  <2>2. /\ Relies(t \in period') <= Relies(t \in period)
        /\ Relies(t \in media') <= Relies(t \in media)
        /\ Service(m', looper', t) <= Service(m, looper, t)
        /\ Relies(t \in period') \in {0, 1} /\ Relies(t \in media') \in {0, 1}
        /\ Service(m', looper', t) \in {0, 1}
    BY <1>2 DEF Relies, Service
  <2>3. t \notin abandoned
    OBVIOUS
  <2> QED BY <2>1, <2>2, <2>3, WatcherTypes
<1> QED BY <1>1, <1>2

(* A step that leaves the clients, their counts and the looper alone.      *)
LEMMA AppStep ==
  ASSUME IInv, StateFits(m'), SameClients(m, m'), ClocksFit(m'), looper' = looper,
         media' \subseteq Selectors, period' \subseteq Selectors,
         current' \in Selectors \cup {None}, call' \in Call,
         abandoned' \subseteq Selectors, update' \in [Threads -> Update], told' = told,
         CountFits', CallFits', UpdateFits', ToldFits'
  PROVE  IInv'
<1>1. UsesCover(m', looper')
  BY DEF IInv, UsesCover, Named, SameClients
<1>2. LooperFits(m', looper')
  BY DEF IInv, LooperFits, SameClients
<1>3. TypeOK'
  BY DEF IInv, TypeOK, StateFits
<1> QED BY <1>1, <1>2, <1>3 DEF IInv

(* A method of the application that starts or stops a timeline.            *)
LEMMA TimelineStep ==
  ASSUME IInv, NEW s \in Selectors, Keeps(m, m', s), UpdateIfSourcesChange("application"),
         looper' = looper, told' = told, call.at \in Moving => call'.at \in Moving,
         media' \subseteq Selectors, period' \subseteq Selectors,
         current' \in Selectors \cup {None}, call' \in Call,
         abandoned' \subseteq Selectors, CountFits', CallFits'
  PROVE  IInv'
<1>1. "application" \in Threads
  BY DEF Threads
<1>2. QuietSources(m, m') /\ SameWishes(m, m')
  BY DEF Keeps, SameClients, SameWishes
<1>3. update' \in [Threads -> Update] /\ UpdateFits' /\ ToldFits'
  BY <1>1, <1>2, SourcesStep
<1>4. StateFits(m') /\ SameClients(m, m') /\ ClocksFit(m')
  BY DEF Keeps, IInv
<1> QED BY <1>3, <1>4, AppStep
-----------------------------------------------------------------------------
LEMMA CallTypes ==
  /\ NoCall \in Call /\ NoCall.at = "none"
  /\ \A x \in {"none", "start", "announce"} :
        /\ [NoCall EXCEPT !.at = x] \in Call
        /\ [NoCall EXCEPT !.at = x].at = x
  /\ \A x \in {"add", "speed", "unavailable"}, s \in Selectors,
        y \in {"none", "start", "announce"} :
        [at |-> x, selector |-> s, after |-> y] \in Call
BY DEF NoCall, Call

LEMMA InitTimelineFits ==
  ASSUME IInv, NEW s \in Selectors, NEW ok \in BOOLEAN, InitMediaSynchroniser(s, ok)
  PROVE  IInv'
<1>1. /\ ~m.deleted /\ call = NoCall /\ m' = StartTimelineMonitoring(m, s, TRUE, ok)
      /\ current' = s /\ period' = {s} /\ UNCHANGED <<media, call, abandoned, looper, told>>
      /\ UpdateIfSourcesChange("application")
  BY DEF InitMediaSynchroniser, Idle, Between
<1>2. /\ Keeps(m, m', s)
      /\ Kind[s] # "invalid" => Sum(m', s) = Sum(m, s) + 1
  <2>1. StateFits(m)
    BY DEF IInv
  <2> QED BY <1>1, <2>1, StartMasterFits
<1>3. m'.uses = m.uses /\ m'.deleted = m.deleted
  BY <1>2 DEF Keeps, SameClients
<1>4. CountFits'
  <2>1. /\ Relies(s \in period') <= Relies(s \in period) + 1
        /\ Relies(s \in period') \in {0, 1}
    BY DEF Relies
  <2>2. Service(m', looper', s) = Service(m, looper, s)
    BY <1>1, <1>3 DEF Used, Service
  <2>3. s \notin abandoned' /\ ~m.deleted /\ Kind[s] # "invalid"
            => Relies(s \in period') + Relies(s \in media') + Service(m', looper', s)
                 <= Sum(m', s)
    <3>1. media' = media /\ abandoned' = abandoned
      BY <1>1
    <3> QED BY <1>2, <2>1, <2>2, <3>1, WatcherTypes
  <2> QED BY <1>1, <1>2, <1>3, <2>3, CountStepFits DEF Keeps, Used
<1>5. CallFits'
  BY <1>1, CallTypes DEF CallFits
<1> QED BY <1>1, <1>2, <1>4, <1>5, TimelineStep DEF IInv, TypeOK

LEMMA StartPeriodFits ==
  ASSUME IInv, StartPeriod
  PROVE  IInv'
<1>1. /\ call.at = "start" /\ m' = StartTimelineMonitoring(m, current, TRUE, TRUE)
      /\ period' = period \cup {current} /\ call' = [NoCall EXCEPT !.at = "announce"]
      /\ UNCHANGED <<media, current, abandoned, looper, told>>
      /\ UpdateIfSourcesChange("application")
  BY DEF StartPeriod
<1>2. ~m.deleted /\ current # None /\ current \in Selectors
  BY <1>1 DEF IInv, CallFits, TypeOK
<1>3. /\ Keeps(m, m', current)
      /\ Kind[current] # "invalid" => Sum(m', current) = Sum(m, current) + 1
  <2>1. StateFits(m) /\ TRUE \in BOOLEAN
    BY DEF IInv
  <2> QED BY <1>1, <1>2, <2>1, StartMasterFits
<1>4. m'.uses = m.uses /\ m'.deleted = m.deleted
  BY <1>3 DEF Keeps, SameClients
<1>5. CountFits'
  <2>1. /\ Relies(current \in period') <= Relies(current \in period) + 1
        /\ Relies(current \in period') \in {0, 1}
    BY DEF Relies
  <2>2. Service(m', looper', current) = Service(m, looper, current)
    BY <1>1, <1>4 DEF Used, Service
  <2>3. current \notin abandoned' /\ ~m.deleted /\ Kind[current] # "invalid"
            => Relies(current \in period') + Relies(current \in media')
                 + Service(m', looper', current) <= Sum(m', current)
    <3>1. media' = media /\ abandoned' = abandoned
      BY <1>1
    <3> QED BY <1>2, <1>3, <2>1, <2>2, <3>1, WatcherTypes
  <2> QED BY <1>1, <1>2, <1>3, <1>4, <2>3, CountStepFits DEF Keeps, Used
<1>6. call' \in Call /\ CallFits'
  BY <1>1, <1>2, <1>4, CallTypes DEF CallFits
<1>7. period' \subseteq Selectors
  BY <1>1, <1>2 DEF IInv, TypeOK
<1>8. call.at \notin Moving
  BY <1>1 DEF Moving
<1> QED BY <1>1, <1>2, <1>3, <1>5, <1>6, <1>7, <1>8, TimelineStep DEF IInv, TypeOK

(* A period that left the stream, or that of a media object, is abandoned:
   nobody relies on it any more.                                           *)
LEMMA AbandonFits ==
  ASSUME IInv, NEW s \in Selectors, NEW force \in BOOLEAN, ~m.deleted, call = NoCall,
         m' = StopTimelineMonitoring(m, s, force), period' \subseteq period,
         abandoned' = abandoned \cup {s}, UpdateIfSourcesChange("application"),
         UNCHANGED <<media, current, call, looper, told>>
  PROVE  IInv'
<1>1. Keeps(m, m', s)
  BY StopFits DEF IInv
<1>2. m'.uses = m.uses /\ m'.deleted = m.deleted
  BY <1>1 DEF Keeps, SameClients
<1>3. CountFits'
  BY <1>1, <1>2, CountStepFits DEF Keeps, Used
<1>4. CallFits'
  BY CallTypes DEF CallFits
<1> QED BY <1>1, <1>3, <1>4, TimelineStep DEF IInv, TypeOK

LEMMA PeriodGoneFits ==
  ASSUME IInv, NEW s \in Selectors, PeriodGone(s)
  PROVE  IInv'
<1>1. TRUE \in BOOLEAN
  OBVIOUS
<1> QED BY <1>1, AbandonFits DEF PeriodGone, Idle, Between

LEMMA MediaPeriodGoneFits ==
  ASSUME IInv, NEW s \in Selectors, MediaPeriodGone(s)
  PROVE  IInv'
<1>1. FALSE \in BOOLEAN
  OBVIOUS
<1> QED BY <1>1, AbandonFits DEF MediaPeriodGone, Ready, Idle, Between

LEMMA AddMediaFits ==
  ASSUME IInv, NEW s \in Selectors, NEW ok \in BOOLEAN, AddMediaObject(s, ok)
  PROVE  IInv'
<1>1. /\ call = NoCall /\ m' = StartTimelineMonitoring(m, s, FALSE, ok)
      /\ media' \subseteq media \cup {s} /\ UpdateIfSourcesChange("application")
      /\ UNCHANGED <<period, current, call, abandoned, looper, told>>
  BY DEF AddMediaObject, Ready, Idle, Between
<1>2. /\ Keeps(m, m', s)
      /\ Kind[s] # "invalid" => Sum(m', s) = Sum(m, s) + 1
  <2>1. StateFits(m)
    BY DEF IInv
  <2> QED BY <1>1, <2>1, StartOtherFits
<1>3. m'.uses = m.uses /\ m'.deleted = m.deleted
  BY <1>2 DEF Keeps, SameClients
<1>4. CountFits'
  <2>1. /\ Relies(s \in media') <= Relies(s \in media) + 1
        /\ Relies(s \in media') \in {0, 1}
    BY DEF Relies
  <2>2. Service(m', looper', s) = Service(m, looper, s)
    BY <1>1, <1>3 DEF Used, Service
  <2>3. s \notin abandoned' /\ ~m.deleted /\ Kind[s] # "invalid"
            => Relies(s \in period') + Relies(s \in media') + Service(m', looper', s)
                 <= Sum(m', s)
    <3>1. period' = period /\ abandoned' = abandoned
      BY <1>1
    <3> QED BY <1>2, <2>1, <2>2, <3>1, WatcherTypes
  <2>4. \A t \in Selectors \ {s} : t \in media' => t \in media
    BY <1>1
  <2> QED BY <1>1, <1>2, <1>3, <2>3, <2>4, CountStepFits DEF Keeps, Used
<1>5. CallFits'
  BY <1>1, CallTypes DEF CallFits
<1>6. media' \subseteq Selectors
  BY <1>1 DEF IInv, TypeOK
<1> QED BY <1>1, <1>2, <1>4, <1>5, <1>6, TimelineStep DEF IInv, TypeOK

(* A media object that goes takes its own watcher with it.                 *)
LEMMA RemoveMediaFits ==
  ASSUME IInv, NEW s \in Selectors, RemoveMediaObject(s)
  PROVE  IInv'
<1>1. /\ call = NoCall /\ s \in media /\ m' = StopTimelineMonitoring(m, s, FALSE)
      /\ media' = media \ {s} /\ UpdateIfSourcesChange("application")
      /\ UNCHANGED <<period, current, call, abandoned, looper, told>>
  BY DEF RemoveMediaObject, Ready, Idle, Between
<1>2. /\ Keeps(m, m', s)
      /\ Sum(m, s) > 0 => Sum(m', s) = Sum(m, s) - 1
  <2>1. StateFits(m) /\ FALSE \in BOOLEAN
    BY DEF IInv
  <2> QED BY <1>1, <2>1, StopFits
<1>3. m'.uses = m.uses /\ m'.deleted = m.deleted
  BY <1>2 DEF Keeps, SameClients
<1>4. CountFits'
  <2>1. Relies(s \in media) = 1 /\ Relies(s \in media') = 0
    BY <1>1 DEF Relies
  <2>2. Service(m', looper', s) = Service(m, looper, s)
    BY <1>1, <1>3 DEF Used, Service
  <2>3. s \notin abandoned' /\ ~m.deleted /\ Kind[s] # "invalid"
            => Relies(s \in period') + Relies(s \in media') + Service(m', looper', s)
                 <= Sum(m', s)
    <3>1. period' = period /\ abandoned' = abandoned
      BY <1>1
    <3> QED BY <1>2, <2>1, <2>2, <3>1, WatcherTypes
  <2> QED BY <1>1, <1>2, <1>3, <2>3, CountStepFits DEF Keeps, Used
<1>5. CallFits'
  BY <1>1, CallTypes DEF CallFits
<1>6. media' \subseteq Selectors
  BY <1>1 DEF IInv, TypeOK
<1> QED BY <1>1, <1>2, <1>4, <1>5, <1>6, TimelineStep DEF IInv, TypeOK

(* addTimeline in setTimelineAvailability keeps the sum of the counters.   *)
LEMMA AddAvailableFits ==
  ASSUME IInv, AddAvailable
  PROVE  IInv'
<1> DEFINE s == call.selector
<1>1. /\ call.at = "add" /\ m' = AddTimeline(m, s)
      /\ call' = [call EXCEPT !.at = "speed"] /\ UpdateIfSourcesChange("application")
      /\ UNCHANGED <<media, period, current, abandoned, looper, told>>
  BY DEF AddAvailable, page
<1>2. call \in Call /\ s \in Selectors /\ ~m.deleted /\ current # None
  BY <1>1 DEF IInv, CallFits, TypeOK, Call
<1>3. /\ call' \in Call /\ call'.at = "speed" /\ call'.selector = s
  BY <1>1, <1>2 DEF Call
<1> HIDE DEF s
<1>4. Keeps(m, m', s) /\ Sum(m', s) = Sum(m, s)
  BY <1>1, <1>2, AddFits DEF IInv
<1>5. m'.uses = m.uses /\ m'.deleted = m.deleted
  BY <1>4 DEF Keeps, SameClients
<1>6. CountFits'
  <2>1. Service(m', looper', s) = Service(m, looper, s)
    BY <1>1, <1>5 DEF Used, Service
  <2>2. s \notin abandoned' /\ ~m.deleted /\ Kind[s] # "invalid"
            => Relies(s \in period') + Relies(s \in media') + Service(m', looper', s)
                 <= Sum(m', s)
    BY <1>1, <1>2, <1>4, <2>1, WatcherTypes
  <2> QED BY <1>1, <1>2, <1>4, <1>5, <2>2, CountStepFits DEF Keeps, Used
<1>7. CallFits'
  BY <1>1, <1>2, <1>3, <1>5, Constants DEF CallFits
<1>8. call'.at \in Moving
  BY <1>3 DEF Moving
<1> QED BY <1>1, <1>2, <1>3, <1>4, <1>6, <1>7, <1>8, TimelineStep DEF IInv, TypeOK
-----------------------------------------------------------------------------
(* A step that leaves the watchers alone, and those who rely on them.      *)
LEMMA QuietStep ==
  ASSUME IInv, StateFits(m'), ClocksFit(m'), SameClients(m, m'),
         \A s \in Selectors : Sum(m', s) = Sum(m, s),
         UNCHANGED <<media, period, abandoned, looper, told>>,
         current' \in Selectors \cup {None}, call' \in Call,
         update' \in [Threads -> Update], CallFits', UpdateFits', ToldFits'
  PROVE  IInv'
<1>1. CountFits'
  <2>1. \A s \in Selectors : Used(m', looper', s) <=> Used(m, looper, s)
    BY DEF Used, SameClients
  <2> QED BY <2>1 DEF IInv, CountFits, Watchers, SameClients, Service
<1> QED BY <1>1, AppStep DEF IInv, TypeOK

(* A handler that begins setTimelineAvailability.                          *)
LEMMA SetAvailabilityStep ==
  ASSUME IInv, NEW s \in Selectors, NEW a \in BOOLEAN,
         NEW after \in {"none", "start", "announce"},
         ~m.deleted, SetTimelineAvailability(s, a, after),
         current' # None, current' \in Selectors \cup {None},
         UNCHANGED <<media, period, abandoned, service>>
  PROVE  IInv'
<1> DEFINE x == IF a THEN "add" ELSE "unavailable"
<1>1. /\ m' = SetAvailability(m, s, a)
      /\ call' = [at |-> x, selector |-> s, after |-> after] /\ x \in Moving
  BY DEF SetTimelineAvailability, Moving
<1>2. call' \in Call /\ call'.at \in Moving /\ call'.selector = s
  BY <1>1, CallTypes DEF Moving
<1>3. UNCHANGED <<looper, update, told>>
  BY DEF service
<1>4. /\ StateFits(m') /\ SameClients(m, m') /\ ClocksFit(m')
      /\ \A t \in Selectors : Sum(m', t) = Sum(m, t)
  BY <1>1, AvailabilityFits DEF IInv
<1>5. CallFits'
  BY <1>2, <1>4, Constants DEF CallFits, SameClients
<1>6. update' \in [Threads -> Update] /\ UpdateFits'
  BY <1>3 DEF IInv, TypeOK, UpdateFits
<1>7. ToldFits'
  BY <1>2, MovingFits
<1> QED BY <1>2, <1>3, <1>4, <1>5, <1>6, <1>7, QuietStep

(* A handler that goes on without touching a timeline.                     *)
LEMMA ToldSame ==
  ASSUME IInv, m' = m, UNCHANGED <<looper, update, told>>, call.at \notin Moving
  PROVE  update' \in [Threads -> Update] /\ UpdateFits' /\ ToldFits'
<1>1. \A c \in Clients : m'.setup[c] # None =>
         \/ looper'.client = c
         \/ /\ m.setup[c] # None /\ ControlTimestamp(m', c) = ControlTimestamp(m, c)
            /\ looper.client # c
  OBVIOUS
<1>2. UpdateFits' /\ ToldFits'
  BY <1>1, ToldStep
<1> QED BY <1>2 DEF IInv, TypeOK

LEMMA PeriodChangedFits ==
  ASSUME IInv, NEW s \in Selectors, PeriodChanged(s)
  PROVE  IInv'
<1> DEFINE after == IF s \in period THEN "announce" ELSE "start"
<1>1. /\ ~m.deleted /\ call = NoCall /\ current # None /\ current' = s
      /\ UNCHANGED <<media, period, abandoned, service>>
      /\ \/ SetTimelineAvailability(current, FALSE, after)
         \/ UNCHANGED m /\ call' = [NoCall EXCEPT !.at = after]
  BY DEF PeriodChanged, Between
<1>2. /\ current \in Selectors /\ s # None /\ after \in {"none", "start", "announce"}
      /\ FALSE \in BOOLEAN
  BY <1>1, Constants DEF IInv, TypeOK
<1> HIDE DEF after
<1>3. CASE SetTimelineAvailability(current, FALSE, after)
  BY <1>1, <1>2, <1>3, SetAvailabilityStep
<1>4. CASE UNCHANGED m /\ call' = [NoCall EXCEPT !.at = after]
  <2>1. call' \in Call /\ call'.at = after /\ after \notin Moving
    BY <1>2, <1>4, CallTypes DEF Moving, after
  <2>2. CallFits'
    BY <1>1, <1>2, <1>4, <2>1 DEF CallFits, Moving
  <2>3. call.at \notin Moving
    BY <1>1, CallTypes DEF Moving
  <2>4. UNCHANGED <<looper, update, told>>
    BY <1>1 DEF service
  <2>5. update' \in [Threads -> Update] /\ UpdateFits' /\ ToldFits'
    BY <1>4, <2>3, <2>4, ToldSame
  <2> QED BY <1>1, <1>4, <2>1, <2>2, <2>4, <2>5, QuietStep DEF IInv, SameClients
<1> QED BY <1>1, <1>3, <1>4

LEMMA AnnouncePeriodFits ==
  ASSUME IInv, AnnouncePeriod
  PROVE  IInv'
<1>1. /\ call.at = "announce" /\ SetTimelineAvailability(current, TRUE, "none")
      /\ UNCHANGED <<media, period, current, abandoned, service>>
  BY DEF AnnouncePeriod, page
<1>2. ~m.deleted /\ current # None /\ current \in Selectors /\ TRUE \in BOOLEAN
  BY <1>1 DEF IInv, CallFits, TypeOK
<1> QED BY <1>1, <1>2, SetAvailabilityStep

LEMMA AnnounceTimelineFits ==
  ASSUME IInv, NEW s \in Selectors, NEW a \in BOOLEAN, AnnounceTimeline(s, a)
  PROVE  IInv'
<1>1. /\ ~m.deleted /\ current # None /\ SetTimelineAvailability(s, a, "none")
      /\ UNCHANGED <<media, period, current, abandoned, service>>
  BY DEF AnnounceTimeline, Between, page
<1>2. current' \in Selectors \cup {None}
  BY <1>1 DEF IInv, TypeOK
<1> QED BY <1>1, <1>2, SetAvailabilityStep

(* The last call of setTimelineAvailability updates the clients.           *)
LEMMA SpeedFits ==
  ASSUME IInv, SetContentTimeAndSpeed \/ UpdateUnavailable
  PROVE  IInv'
<1>1. PICK locked \in BOOLEAN : UpdateAllTSClients("application", locked)
  BY DEF SetContentTimeAndSpeed, UpdateUnavailable
<1>2. /\ call.at # "none" /\ m' = m /\ call' = [NoCall EXCEPT !.at = call.after]
      /\ UNCHANGED <<media, period, current, abandoned, looper, told>>
  BY DEF SetContentTimeAndSpeed, UpdateUnavailable, page
<1>3. call.after \in {"none", "start", "announce"}
  BY DEF IInv, TypeOK, Call
<1>4. call' \in Call /\ call'.at = call.after
  BY <1>2, <1>3, CallTypes
<1>5. CallFits'
  BY <1>2, <1>3, <1>4 DEF IInv, CallFits
<1>6. update' \in [Threads -> Update] /\ UpdateFits' /\ ToldFits'
  <2>1. "application" \in Threads
    BY DEF Threads
  <2>2. m'.ts = "none" => \A c \in Clients : m'.setup[c] = None
    BY <1>2 DEF IInv, LooperFits
  <2> QED BY <1>1, <2>1, <2>2, UpdateAllFits
<1> QED BY <1>2, <1>4, <1>5, <1>6, QuietStep DEF IInv, TypeOK, SameClients

(* A filter that reports: the availability, the counters, the clients.     *)
LEMMA SetTEMIFits ==
  ASSUME IInv, NEW s \in Selectors, NEW n \in 1..MaxFilters, NEW a \in BOOLEAN,
         SetTEMITimelineAvailability(s, n, a)
  PROVE  IInv'
<1> DEFINE q == SetAvailability(m, s, a)
<1>1. /\ m' = IF a THEN AddTimeline(q, s) ELSE q
      /\ UpdateAllTSClients("platform", TRUE)
      /\ UNCHANGED <<media, period, current, abandoned, call, looper, told>>
  BY DEF SetTEMITimelineAvailability, page
<1>2. /\ StateFits(q) /\ SameClients(m, q) /\ ClocksFit(q)
      /\ \A t \in Selectors : Sum(q, t) = Sum(m, t)
  BY AvailabilityFits DEF IInv
<1> HIDE DEF q
<1>3. /\ StateFits(m') /\ SameClients(m, m') /\ ClocksFit(m')
      /\ \A t \in Selectors : Sum(m', t) = Sum(m, t)
  <2>1. CASE a
    <3>1. Keeps(q, m', s) /\ Sum(m', s) = Sum(q, s)
      BY <1>1, <1>2, <2>1, AddFits
    <3>2. \A t \in Selectors : Sum(m', t) = Sum(q, t)
      BY <3>1 DEF Keeps, Sum, At
    <3> QED BY <1>2, <3>1, <3>2 DEF Keeps, SameClients
  <2>2. CASE ~a
    BY <1>1, <1>2, <2>2
  <2> QED BY <2>1, <2>2
<1>4. update' \in [Threads -> Update] /\ UpdateFits' /\ ToldFits'
  <2>1. "platform" \in Threads /\ TRUE \in BOOLEAN
    BY DEF Threads
  <2>2. m'.ts = "none" => \A c \in Clients : m'.setup[c] = None
    BY <1>3 DEF IInv, LooperFits, SameClients
  <2> QED BY <1>1, <2>1, <2>2, UpdateAllFits
<1>5. CallFits'
  BY <1>1, <1>3 DEF IInv, CallFits, SameClients
<1> QED BY <1>1, <1>3, <1>4, <1>5, QuietStep DEF IInv, TypeOK

(* The filters that could not be opened are retried.                       *)
LEMMA UpdateBroadcastFits ==
  ASSUME IInv, NEW opens \in SUBSET Selectors, UpdateBroadcastContentStatus(opens)
  PROVE  IInv'
<1> DEFINE re == {s \in opens : /\ Kind[s] = "temi" /\ m.entry[s].filter = 0
                                /\ m.opened[s] < MaxFilters}
<1> DEFINE opened == [s \in Selectors |-> IF s \in re THEN m.opened[s] + 1 ELSE m.opened[s]]
<1> DEFINE run == m.running \cup {<<s, m.opened[s] + 1>> : s \in re}
<1> DEFINE ent == [s \in Selectors |->
                     IF s \in re THEN [m.entry[s] EXCEPT !.filter = m.opened[s] + 1]
                     ELSE m.entry[s]]
<1>1. /\ m' = [m EXCEPT !.opened = opened, !.running = run, !.entry = ent]
      /\ UNCHANGED <<media, period, current, abandoned, call, looper, update, told>>
  BY DEF UpdateBroadcastContentStatus, page, service
<1>2. m \in MediaSync /\ StateFits(m)
  BY DEF IInv, TypeOK
<1>3. ASSUME NEW s \in re
      PROVE  /\ s \in Selectors /\ Kind[s] = "temi"
             /\ m.opened[s] + 1 \in 1..MaxFilters /\ m.entry[s] \in PlainEntry
  <2>1. s \in Selectors /\ Kind[s] = "temi" /\ m.entry[s].filter = 0 /\ m.opened[s] < MaxFilters
    OBVIOUS
  <2>2. m.opened[s] \in 0..MaxFilters /\ m.entry[s] \in Entry
    BY <1>2, <2>1 DEF MediaSync
  <2> QED BY <2>1, <2>2, Constants, EntryType, Entries
<1> HIDE DEF re
<1>4. /\ opened \in [Selectors -> 0..MaxFilters]
      /\ run \subseteq Selectors \X (1..MaxFilters)
  <2>1. m.opened \in [Selectors -> 0..MaxFilters] /\ m.running \subseteq Selectors \X (1..MaxFilters)
    BY <1>2 DEF MediaSync
  <2> QED BY <1>3, <2>1
<1>5. ASSUME NEW s \in Selectors
      PROVE  /\ ent[s] \in Entry /\ ent[s].num = m.entry[s].num
             /\ ent[s].pending = m.entry[s].pending
             /\ ent[s] = NoEntry <=> m.entry[s] = NoEntry
             /\ ent[s].filter > 0 => <<s, ent[s].filter>> \in run
  <2>1. CASE s \in re
    <3> DEFINE n == m.opened[s] + 1
    <3>1. n \in 1..MaxFilters /\ n \in 0..MaxFilters /\ m.entry[s] \in PlainEntry
      BY <1>3, <2>1, Constants
    <3>2. ent[s] = [m.entry[s] EXCEPT !.filter = n] /\ <<s, n>> \in run
      BY <2>1
    <3> HIDE DEF n, ent
    <3>3. /\ ent[s] \in PlainEntry /\ ent[s].filter = n /\ ent[s].num = m.entry[s].num
          /\ ent[s].pending = m.entry[s].pending
      BY <3>1, <3>2 DEF PlainEntry
    <3> QED BY <3>1, <3>2, <3>3, PlainEntries
  <2>2. CASE s \notin re
    <3>1. ent[s] = m.entry[s] /\ m.running \subseteq run
      BY <2>2
    <3> QED BY <1>2, <3>1 DEF StateFits, FilterFits, MediaSync
  <2> QED BY <2>1, <2>2
<1>6. \A s \in Selectors, n \in 1..MaxFilters :
         <<s, n>> \in run => <<s, n>> \in m.running \/ s \in re
  OBVIOUS
<1>7. ent \in [Selectors -> Entry]
  BY <1>5
<1> HIDE DEF opened, run, ent
<1>8. /\ m' \in MediaSync /\ m'.entry = ent /\ m'.running = run
      /\ SameClients(m, m') /\ SameSources(m, m')
  BY <1>1, <1>2, <1>4, <1>7 DEF MediaSync, SameClients, SameSources
<1>9. \A s : HasSource(m', s) <=> HasSource(m, s)
  BY <1>8 DEF HasSource, SameSources
<1>10. StateFits(m')
  <2>1. ASSUME NEW s \in Selectors
        PROVE  SourceFits(m', s) /\ FilterFits(m', s)
    <3>1. SourceFits(m, s) /\ FilterFits(m, s)
      BY <1>2 DEF StateFits
    <3> QED BY <1>3, <1>5, <1>6, <1>8, <1>9, <3>1 DEF SourceFits, FilterFits, SameClients
  <2> QED BY <1>2, <1>8, <1>9, <2>1 DEF StateFits, SameClients, SameSources
<1>11. ClocksFit(m')
  BY <1>8, <1>9 DEF IInv, ClocksFit, SameSources
<1>12. \A s \in Selectors : Sum(m', s) = Sum(m, s)
  BY <1>5, <1>8 DEF Sum, At
<1>13. UpdateFits' /\ ToldFits'
  <2>1. \A c \in Clients : ControlTimestamp(m', c) = ControlTimestamp(m, c)
    BY <1>8, SameTimestamp DEF SameClients, SameSources
  <2>2. \A c \in Clients : m'.setup[c] # None =>
          \/ looper'.client = c
          \/ /\ m.setup[c] # None /\ ControlTimestamp(m', c) = ControlTimestamp(m, c)
             /\ looper.client # c
    BY <1>1, <1>8, <2>1 DEF SameClients
  <2> QED BY <1>1, <2>2, ToldStep
<1>14. CallFits'
  BY <1>1, <1>8 DEF IInv, CallFits, SameClients
<1> QED BY <1>1, <1>8, <1>10, <1>11, <1>12, <1>13, <1>14, QuietStep DEF IInv, TypeOK
-----------------------------------------------------------------------------
(* What the counting proves depends on the timelines, not on the clients.  *)
LEMMA SameTimelines ==
  ASSUME NEW mm, StateFits(mm), NEW nn \in MediaSync,
         nn.entry = mm.entry, nn.source = mm.source, nn.master = mm.master,
         nn.cii = mm.cii, nn.running = mm.running, nn.deleted = mm.deleted
  PROVE  /\ StateFits(nn) /\ \A s : Sum(nn, s) = Sum(mm, s)
         /\ ClocksFit(mm) => ClocksFit(nn)
<1>1. \A s : HasSource(nn, s) <=> HasSource(mm, s)
  BY DEF HasSource
<1>2. ASSUME NEW s \in Selectors
      PROVE  SourceFits(nn, s) /\ FilterFits(nn, s)
  <2>1. SourceFits(mm, s) /\ FilterFits(mm, s)
    BY DEF StateFits
  <2> QED BY <1>1, <2>1 DEF SourceFits, FilterFits
<1>3. StateFits(nn)
  BY <1>1, <1>2 DEF StateFits
<1>4. \A s : Sum(nn, s) = Sum(mm, s)
  BY DEF Sum, At
<1>5. ClocksFit(mm) => ClocksFit(nn)
  BY <1>1 DEF ClocksFit
<1> QED BY <1>3, <1>4, <1>5

(* A step that leaves the timelines and the page alone and makes nobody rely
   on a timeline.                                                          *)
LEMMA ServiceStep ==
  ASSUME IInv, UNCHANGED <<page, call>>, m' \in MediaSync,
         m'.entry = m.entry, m'.source = m.source, m'.master = m.master,
         m'.cii = m.cii, m'.running = m.running, m'.deleted = m.deleted,
         \A s \in Selectors : Used(m', looper', s) => Used(m, looper, s),
         looper' \in Work, update' \in [Threads -> Update],
         told' \in [Clients -> Timestamps \cup {None}],
         UsesCover(m', looper'), LooperFits(m', looper'), UpdateFits', ToldFits'
  PROVE  IInv'
<1>1. UNCHANGED <<media, period, current, abandoned, call>>
  BY DEF page
<1>2. /\ StateFits(m') /\ ClocksFit(m') /\ \A s : Sum(m', s) = Sum(m, s)
  BY SameTimelines DEF IInv
<1>3. CountFits'
  <2>1. ASSUME NEW s \in Selectors, s \notin abandoned', ~m'.deleted, Kind[s] # "invalid"
        PROVE  Relies(s \in period') + Relies(s \in media') + Service(m', looper', s)
                 <= Sum(m', s)
    <3>1. /\ Service(m', looper', s) <= Service(m, looper, s)
          /\ Service(m', looper', s) \in {0, 1} /\ Service(m, looper, s) \in {0, 1}
      BY DEF Service
    <3>2. period' = period /\ media' = media /\ abandoned' = abandoned
      BY <1>1
    <3> QED BY <1>2, <2>1, <3>1, <3>2, WatcherTypes
  <2> QED BY <2>1 DEF CountFits, Watchers
<1>4. CallFits'
  BY <1>1 DEF IInv, CallFits
<1>5. TypeOK'
  BY <1>1 DEF IInv, TypeOK
<1> QED BY <1>2, <1>3, <1>4, <1>5 DEF IInv

(* A step of the page that only touches what the service offers.           *)
LEMMA OfferStep ==
  ASSUME IInv, UNCHANGED <<page, call, looper, told>>, m' \in MediaSync,
         m'.entry = m.entry, m'.source = m.source, m'.master = m.master,
         m'.cii = m.cii, m'.running = m.running, m'.deleted = m.deleted,
         m'.uses = m.uses, m'.setup = m.setup, m'.ts = m.ts,
         update' \in [Threads -> Update], UpdateFits', ToldFits'
  PROVE  IInv'
<1>1. \A s \in Selectors : Used(m', looper', s) => Used(m, looper, s)
  BY DEF Used
<1>2. UsesCover(m', looper')
  BY DEF IInv, UsesCover, Named
<1>3. LooperFits(m', looper')
  BY DEF IInv, LooperFits
<1>4. looper' \in Work /\ told' \in [Clients -> Timestamps \cup {None}]
  BY DEF IInv, TypeOK
<1> QED BY <1>1, <1>2, <1>3, <1>4, ServiceStep

LEMMA UpdateCssCiiFits ==
  ASSUME IInv, NEW id \in ContentIds, UpdateCssCiiProperties(id)
  PROVE  IInv'
<1>1. /\ m' = [m EXCEPT !.contentId = id] /\ UpdateAllTSClients("application", TRUE)
      /\ UNCHANGED <<page, call, looper, told>>
  BY DEF UpdateCssCiiProperties
<1>2. /\ m' \in MediaSync /\ m'.entry = m.entry /\ m'.source = m.source
      /\ m'.master = m.master /\ m'.cii = m.cii /\ m'.running = m.running
      /\ m'.deleted = m.deleted /\ m'.uses = m.uses /\ m'.setup = m.setup /\ m'.ts = m.ts
  BY <1>1 DEF IInv, TypeOK, MediaSync
<1>3. update' \in [Threads -> Update] /\ UpdateFits' /\ ToldFits'
  <2>1. "application" \in Threads /\ TRUE \in BOOLEAN
    BY DEF Threads
  <2>2. m'.ts = "none" => \A c \in Clients : m'.setup[c] = None
    BY <1>2 DEF IInv, LooperFits
  <2> QED BY <1>1, <2>1, <2>2, UpdateAllFits
<1> QED BY <1>1, <1>2, <1>3, OfferStep

LEMMA SetOverrideFits ==
  ASSUME IInv, NEW id \in ContentIds \cup {NoContentId}, SetContentIdOverride(id)
  PROVE  IInv'
<1>1. /\ m' = [m EXCEPT !.override = id] /\ UNCHANGED <<page, call, looper, told>>
      /\ id # m.override => UpdateAllTSClients("application", TRUE)
      /\ id = m.override => update' = update
  BY DEF SetContentIdOverride
<1>2. /\ m' \in MediaSync /\ m'.entry = m.entry /\ m'.source = m.source
      /\ m'.master = m.master /\ m'.cii = m.cii /\ m'.running = m.running
      /\ m'.deleted = m.deleted /\ m'.uses = m.uses /\ m'.setup = m.setup /\ m'.ts = m.ts
      /\ m'.stem = m.stem /\ m'.contentId = m.contentId /\ m'.override = id
      /\ m'.attached = m.attached
  BY <1>1 DEF IInv, TypeOK, MediaSync
<1>3. CASE id # m.override
  <2>1. "application" \in Threads /\ TRUE \in BOOLEAN
    BY DEF Threads
  <2>2. m'.ts = "none" => \A c \in Clients : m'.setup[c] = None
    BY <1>2 DEF IInv, LooperFits
  <2>3. update' \in [Threads -> Update] /\ UpdateFits' /\ ToldFits'
    BY <1>1, <1>3, <2>1, <2>2, UpdateAllFits
  <2> QED BY <1>1, <1>2, <2>3, OfferStep
<1>4. CASE id = m.override
  <2>1. \A c \in Clients : ControlTimestamp(m', c) = ControlTimestamp(m, c)
    BY <1>2, <1>4, SameTimestamp
  <2>2. \A c \in Clients : m'.setup[c] # None =>
          \/ looper'.client = c
          \/ /\ m.setup[c] # None /\ ControlTimestamp(m', c) = ControlTimestamp(m, c)
             /\ looper.client # c
    BY <1>1, <1>2, <2>1
  <2>3. UpdateFits' /\ ToldFits'
    BY <1>1, <1>4, <2>2, ToldStep
  <2>4. update' \in [Threads -> Update]
    BY <1>1, <1>4 DEF IInv, TypeOK
  <2> QED BY <1>1, <1>2, <2>3, <2>4, OfferStep
<1> QED BY <1>3, <1>4
-----------------------------------------------------------------------------
(* With the clients gone nobody names a timeline.                          *)
LEMMA NobodyNames ==
  ASSUME NEW mm \in MediaSync, \A c \in Clients : mm.setup[c] = None, NEW work,
         work = NoWork
  PROVE  UsesCover(mm, work)
<1>1. ASSUME NEW s \in Selectors
      PROVE  mm.uses[s] >= Cardinality(Named(mm, work, s)) + Counted(work, s)
  <2>1. Named(mm, work, s) = {}
    BY Constants DEF Named
  <2>2. Cardinality(Named(mm, work, s)) = 0
    BY <2>1, FS_EmptySet
  <2>3. Counted(work, s) = 0 /\ mm.uses[s] \in Nat
    BY DEF Counted, Relies, NoWork, MediaSync
  <2> QED BY <2>2, <2>3
<1> QED BY <1>1 DEF UsesCover

LEMMA WorkTypes ==
  /\ NoWork \in Work /\ NoWork.at = "idle" /\ NoWork.client = None
  /\ \A x \in {"start", "update", "stop", "forget"}, c \in Clients, s \in Selectors :
        [at |-> x, client |-> c, selector |-> s] \in Work
BY DEF NoWork, Work

LEMMA EnableFits ==
  ASSUME IInv, EnableInterDeviceSync
  PROVE  IInv'
<1> DEFINE att == {s \in Selectors : HasSource(m, s)}
<1> DEFINE zero == [s \in Selectors |-> 0]
<1>1. /\ m' = [m EXCEPT !.ts = "up", !.attached = att, !.uses = zero]
      /\ m.ts = "none" /\ UNCHANGED <<page, call, looper, update, told>>
  BY DEF EnableInterDeviceSync, service
<1>2. /\ att \subseteq Selectors /\ zero \in [Selectors -> Nat]
      /\ \A s \in Selectors : zero[s] = 0
  OBVIOUS
<1> HIDE DEF att, zero
<1>3. /\ m' \in MediaSync /\ m'.entry = m.entry /\ m'.source = m.source
      /\ m'.master = m.master /\ m'.cii = m.cii /\ m'.running = m.running
      /\ m'.deleted = m.deleted /\ m'.uses = zero /\ m'.setup = m.setup /\ m'.ts = "up"
  BY <1>1, <1>2 DEF IInv, TypeOK, MediaSync
<1>4. looper = NoWork /\ looper' = NoWork /\ \A c \in Clients : m'.setup[c] = None
  BY <1>1, <1>3 DEF IInv, LooperFits
<1>5. UsesCover(m', looper')
  BY <1>3, <1>4, NobodyNames
<1>6. LooperFits(m', looper')
  BY <1>3, <1>4, WorkTypes DEF LooperFits
<1>7. \A s \in Selectors : Used(m', looper', s) => Used(m, looper, s)
  BY <1>2, <1>3, <1>4, WorkTypes DEF Used
<1>8. UpdateFits' /\ ToldFits'
  BY <1>1, <1>4 DEF IInv, UpdateFits, ToldFits
<1>9. /\ looper' \in Work /\ update' \in [Threads -> Update]
      /\ told' \in [Clients -> Timestamps \cup {None}]
  BY <1>1 DEF IInv, TypeOK
<1> QED BY <1>1, <1>3, <1>5, <1>6, <1>7, <1>8, <1>9, ServiceStep

LEMMA DisableFits ==
  ASSUME IInv, DisableInterDeviceSync
  PROVE  IInv'
<1>1. m' = [m EXCEPT !.ts = "stopping"] /\ m.ts = "up" /\ call = NoCall
      /\ UNCHANGED <<page, call, looper, update, told>>
  BY DEF DisableInterDeviceSync, Idle, Between, service
<1>2. /\ m' \in MediaSync /\ m'.entry = m.entry /\ m'.source = m.source
      /\ m'.master = m.master /\ m'.cii = m.cii /\ m'.running = m.running
      /\ m'.deleted = m.deleted /\ m'.uses = m.uses /\ m'.setup = m.setup
      /\ m'.ts = "stopping" /\ m'.stem = m.stem /\ m'.contentId = m.contentId
      /\ m'.override = m.override /\ m'.attached = m.attached
  BY <1>1 DEF IInv, TypeOK, MediaSync
<1>3. UsesCover(m', looper')
  BY <1>1, <1>2 DEF IInv, UsesCover, Named
<1>4. LooperFits(m', looper')
  BY <1>1, <1>2 DEF IInv, LooperFits
<1>5. \A s \in Selectors : Used(m', looper', s) => Used(m, looper, s)
  BY <1>1, <1>2 DEF Used
<1>6. UpdateFits' /\ ToldFits'
  <2>1. ASSUME NEW c \in Clients, m'.setup[c] # None
        PROVE  \/ looper'.client = c
               \/ /\ m.setup[c] # None /\ ControlTimestamp(m', c) = ControlTimestamp(m, c)
                  /\ looper.client # c
    <3>1. ControlTimestamp(m', c) = ControlTimestamp(m, c)
      BY <1>2, SameTimestamp
    <3> QED BY <1>1, <1>2, <2>1, <3>1
  <2> QED BY <1>1, <2>1, ToldStep
<1>7. /\ looper' \in Work /\ update' \in [Threads -> Update]
      /\ told' \in [Clients -> Timestamps \cup {None}]
  BY <1>1 DEF IInv, TypeOK
<1> QED BY <1>1, <1>2, <1>3, <1>4, <1>5, <1>6, <1>7, ServiceStep

LEMMA ServiceGoneFits ==
  ASSUME IInv, ServiceGone
  PROVE  IInv'
<1> DEFINE zero == [s \in Selectors |-> 0]
<1>1. /\ m' = [m EXCEPT !.ts = "none", !.attached = {}, !.uses = zero]
      /\ looper = NoWork /\ \A c \in Clients : m.setup[c] = None
      /\ update' = [t \in Threads |-> NoUpdate]
      /\ UNCHANGED <<page, call, looper, told>>
  BY DEF ServiceGone, LooperFree
<1>2. zero \in [Selectors -> Nat] /\ \A s \in Selectors : zero[s] = 0
  OBVIOUS
<1> HIDE DEF zero
<1>3. /\ m' \in MediaSync /\ m'.entry = m.entry /\ m'.source = m.source
      /\ m'.master = m.master /\ m'.cii = m.cii /\ m'.running = m.running
      /\ m'.deleted = m.deleted /\ m'.uses = zero /\ m'.setup = m.setup
  BY <1>1, <1>2 DEF IInv, TypeOK, MediaSync
<1>4. \A c \in Clients : m'.setup[c] = None
  BY <1>1, <1>3
<1>5. UsesCover(m', looper')
  BY <1>1, <1>3, <1>4, NobodyNames
<1>6. LooperFits(m', looper')
  BY <1>1, <1>4, WorkTypes DEF LooperFits
<1>7. \A s \in Selectors : Used(m', looper', s) => Used(m, looper, s)
  BY <1>1, <1>2, <1>3, WorkTypes DEF Used
<1>8. update' \in [Threads -> Update] /\ UpdateFits'
  BY <1>1, UpdateTypes DEF UpdateFits
<1>9. ToldFits'
  BY <1>4 DEF ToldFits
<1>10. looper' \in Work /\ told' \in [Clients -> Timestamps \cup {None}]
  BY <1>1 DEF IInv, TypeOK
<1> QED BY <1>1, <1>3, <1>5, <1>6, <1>7, <1>8, <1>9, <1>10, ServiceStep

(* deleteLater: no entry names a stopped filter, because none is left.     *)
LEMMA DeleteLaterFits ==
  ASSUME IInv, DeleteLater
  PROVE  IInv'
<1> DEFINE run == m.running \ {<<s, m.entry[s].filter>> : s \in Selectors}
<1> DEFINE ent == [s \in Selectors |-> NoEntry]
<1> DEFINE svc == IF m.ts = "up" THEN "stopping" ELSE m.ts
<1>1. /\ m' = [m EXCEPT !.deleted = TRUE, !.running = run, !.entry = ent, !.ts = svc]
      /\ call = NoCall
      /\ UNCHANGED <<media, period, current, abandoned, call, looper, update, told>>
  BY DEF DeleteLater, Idle, Between, page, service
<1>2. m \in MediaSync
  BY DEF IInv, TypeOK
<1>3. /\ run \subseteq m.running /\ ent \in [Selectors -> Entry]
      /\ svc \in {"none", "up", "stopping"} /\ (svc = "none" <=> m.ts = "none")
      /\ \A s \in Selectors : ent[s] = NoEntry
  BY <1>2, Entries DEF MediaSync
<1> HIDE DEF run, ent, svc
<1>4. /\ m' \in MediaSync /\ m'.entry = ent /\ m'.source = m.source
      /\ m'.master = m.master /\ m'.running = run /\ m'.deleted = TRUE
      /\ m'.uses = m.uses /\ m'.setup = m.setup /\ m'.ts = svc /\ m'.stem = m.stem
      /\ m'.contentId = m.contentId /\ m'.override = m.override
      /\ m'.attached = m.attached
  <2>1. run \subseteq Selectors \X (1..MaxFilters)
    BY <1>2, <1>3 DEF MediaSync
  <2> QED BY <1>1, <1>2, <1>3, <2>1 DEF MediaSync
<1>5. StateFits(m')
  <2>1. ASSUME NEW s \in Selectors
        PROVE  SourceFits(m', s) /\ FilterFits(m', s)
    <3>1. FilterFits(m, s)
      BY DEF IInv, StateFits
    <3>2. m'.entry[s].num = -1 /\ m'.entry[s].filter = -1
      BY <1>3, <1>4, Entries
    <3> QED BY <1>3, <1>4, <3>1, <3>2 DEF SourceFits, FilterFits
  <2> QED BY <1>4, <2>1 DEF StateFits
<1>6. ClocksFit(m')
  BY <1>4 DEF IInv, ClocksFit, HasSource
<1>7. UpdateFits' /\ ToldFits'
  <2>1. ASSUME NEW c \in Clients, m'.setup[c] # None
        PROVE  \/ looper'.client = c
               \/ /\ m.setup[c] # None /\ ControlTimestamp(m', c) = ControlTimestamp(m, c)
                  /\ looper.client # c
    <3>1. ControlTimestamp(m', c) = ControlTimestamp(m, c)
      BY <1>4, SameTimestamp
    <3> QED BY <1>1, <1>4, <2>1, <3>1
  <2> QED BY <1>1, <2>1, ToldStep
<1>8. CountFits'
  BY <1>4 DEF CountFits
<1>9. UsesCover(m', looper')
  BY <1>1, <1>4 DEF IInv, UsesCover, Named
<1>10. LooperFits(m', looper')
  BY <1>1, <1>3, <1>4 DEF IInv, LooperFits
<1>11. CallFits'
  BY <1>1, CallTypes DEF CallFits
<1>12. TypeOK'
  BY <1>1, <1>4 DEF IInv, TypeOK
<1> QED BY <1>5, <1>6, <1>7, <1>8, <1>9, <1>10, <1>11, <1>12 DEF IInv
-----------------------------------------------------------------------------
(* A client that names a timeline, or none any more.                       *)
LEMMA NamedTypes ==
  ASSUME NEW mm, NEW work, NEW s
  PROVE  /\ IsFiniteSet(Named(mm, work, s)) /\ Cardinality(Named(mm, work, s)) \in Nat
         /\ Counted(work, s) \in {0, 1}
<1>1. IsFiniteSet(Clients)
  BY KindAssumption
<1>2. Named(mm, work, s) \subseteq Clients
  BY DEF Named
<1>3. Counted(work, s) \in {0, 1}
  BY DEF Counted, Relies
<1> QED BY <1>1, <1>2, <1>3, FS_Subset, FS_CardinalityType

LEMMA FewerName ==
  ASSUME NEW mm, NEW work, NEW nn, NEW next, NEW s,
         Named(nn, next, s) \subseteq Named(mm, work, s)
  PROVE  Cardinality(Named(nn, next, s)) <= Cardinality(Named(mm, work, s))
BY NamedTypes, FS_Subset

LEMMA UsesType ==
  ASSUME IInv, NEW s \in Selectors
  PROVE  /\ m.uses[s] \in Nat
         /\ m.uses[s] >= Cardinality(Named(m, looper, s)) + Counted(looper, s)
BY DEF IInv, TypeOK, MediaSync, UsesCover

(* configureConnectionWithSetupData notes what the client asks for.        *)
LEMMA ClientSetupFits ==
  ASSUME IInv, NEW c \in Clients, NEW s \in Selectors, NEW stem \in Stems,
         ClientSetup(c, s, stem)
  PROVE  IInv'
<1>1. /\ m' = [m EXCEPT !.setup[c] = s, !.stem[c] = stem] /\ m.ts # "none"
      /\ looper = NoWork /\ looper' = [at |-> "start", client |-> c, selector |-> s]
      /\ UNCHANGED <<page, call, update, told>>
  BY DEF ClientSetup, LooperFree
<1>2. m \in MediaSync
  BY DEF IInv, TypeOK
<1> DEFINE set == [m.setup EXCEPT ![c] = s]
<1> DEFINE ste == [m.stem EXCEPT ![c] = stem]
<1>3. /\ set \in [Clients -> Selectors \cup {None}]
      /\ ste \in [Clients -> ContentIds \cup {NoContentId}]
      /\ set[c] = s
      /\ \A d \in Clients \ {c} : set[d] = m.setup[d] /\ ste[d] = m.stem[d]
  BY <1>2, KindAssumption DEF MediaSync
<1>4. m' = [m EXCEPT !.setup = set, !.stem = ste]
  BY <1>1, <1>2 DEF MediaSync
<1> HIDE DEF set, ste
<1>5. /\ m' \in MediaSync /\ m'.entry = m.entry /\ m'.source = m.source
      /\ m'.master = m.master /\ m'.cii = m.cii /\ m'.running = m.running
      /\ m'.deleted = m.deleted /\ m'.uses = m.uses /\ m'.setup = set /\ m'.stem = ste
      /\ m'.ts = m.ts /\ m'.contentId = m.contentId /\ m'.override = m.override
      /\ m'.attached = m.attached
  BY <1>2, <1>3, <1>4 DEF MediaSync
<1>6. looper' \in Work /\ looper'.at = "start" /\ looper'.client = c /\ looper'.selector = s
  BY <1>1, WorkTypes
<1>7. UsesCover(m', looper')
  <2>1. ASSUME NEW t \in Selectors
        PROVE  m'.uses[t] >= Cardinality(Named(m', looper', t)) + Counted(looper', t)
    <3>1. Named(m', looper', t) \subseteq Named(m, looper, t)
      BY <1>1, <1>3, <1>5, <1>6, KindAssumption, WorkTypes DEF Named
    <3>2. Counted(looper', t) = 0
      BY <1>6 DEF Counted, Relies
    <3> QED BY <1>5, <3>1, <3>2, FewerName, NamedTypes, UsesType
  <2> QED BY <2>1 DEF UsesCover
<1>8. LooperFits(m', looper')
  BY <1>1, <1>3, <1>5, <1>6 DEF LooperFits
<1>9. \A t \in Selectors : Used(m', looper', t) => Used(m, looper, t)
  BY <1>5, <1>6 DEF Used
<1>10. UpdateFits' /\ ToldFits'
  <2>1. ASSUME NEW d \in Clients, m'.setup[d] # None
        PROVE  \/ looper'.client = d
               \/ /\ m.setup[d] # None /\ ControlTimestamp(m', d) = ControlTimestamp(m, d)
                  /\ looper.client # d
    <3>1. CASE d # c
      <4>1. m'.setup[d] = m.setup[d] /\ m'.stem[d] = m.stem[d]
        BY <1>3, <1>5, <3>1
      <4>2. ControlTimestamp(m', d) = ControlTimestamp(m, d)
        BY <1>5, <4>1, SameTimestamp
      <4> QED BY <1>1, <2>1, <4>1, <4>2, KindAssumption, WorkTypes
    <3> QED BY <1>6, <3>1
  <2> QED BY <1>1, <2>1, ToldStep
<1>11. update' \in [Threads -> Update] /\ told' \in [Clients -> Timestamps \cup {None}]
  BY <1>1 DEF IInv, TypeOK
<1> QED BY <1>1, <1>5, <1>6, <1>7, <1>8, <1>9, <1>10, <1>11, ServiceStep
-----------------------------------------------------------------------------
(* The callback starts or stops its timeline, in the state mm its count left. *)
LEMMA LooperStep ==
  ASSUME IInv, NEW mm \in MediaSync, NEW s \in Selectors,
         mm.entry = m.entry, mm.source = m.source, mm.master = m.master,
         mm.cii = m.cii, mm.running = m.running, mm.deleted = m.deleted,
         mm.attached = m.attached, SameWishes(m, mm),
         Keeps(mm, m', s), UpdateIfSourcesChange("looper"),
         UNCHANGED <<page, call, told>>, looper' \in Work, looper'.client = looper.client,
         \A t \in Selectors \ {s} : Used(m', looper', t) => Used(m, looper, t),
         s \notin abandoned /\ ~m.deleted /\ Kind[s] # "invalid"
            => Relies(s \in period) + Relies(s \in media) + Service(m', looper', s)
                 <= Sum(m', s),
         UsesCover(m', looper'), LooperFits(m', looper')
  PROVE  IInv'
<1>1. /\ StateFits(mm) /\ ClocksFit(mm)
  BY SameTimelines DEF IInv
<1>2. /\ StateFits(m') /\ ClocksFit(m') /\ m'.deleted = m.deleted
      /\ \A t \in Selectors \ {s} : m'.entry[t] = m.entry[t]
  BY <1>1 DEF Keeps, SameClients
<1>3. QuietSources(m, m')
  BY DEF Keeps, QuietSources, HasSource
<1>4. SameWishes(m, m')
  BY DEF Keeps, SameClients, SameWishes
<1>5. update' \in [Threads -> Update] /\ UpdateFits' /\ ToldFits'
  <2>1. "looper" \in Threads
    BY DEF Threads
  <2> QED BY <1>3, <1>4, <2>1, SourcesStep
<1>6. UNCHANGED <<media, period, current, abandoned, call>>
  BY DEF page
<1>7. CountFits'
  <2>1. period' = period /\ media' = media /\ abandoned' = abandoned
    BY <1>6
  <2> QED BY <1>2, <2>1, CountStepFits
<1>8. CallFits'
  BY <1>2, <1>6 DEF IInv, CallFits
<1>9. TypeOK'
  BY <1>2, <1>5, <1>6 DEF IInv, TypeOK, StateFits
<1> QED BY <1>2, <1>5, <1>7, <1>8, <1>9 DEF IInv

(* One use of the timeline s more or less.                                 *)
LEMMA UsesFields ==
  ASSUME NEW mm \in MediaSync, NEW s \in Selectors, NEW n \in Nat, NEW nn,
         nn = [mm EXCEPT !.uses[s] = n]
  PROVE  /\ nn \in MediaSync /\ nn.entry = mm.entry /\ nn.source = mm.source
         /\ nn.master = mm.master /\ nn.cii = mm.cii /\ nn.running = mm.running
         /\ nn.deleted = mm.deleted /\ nn.attached = mm.attached /\ SameWishes(mm, nn)
         /\ nn.uses[s] = n /\ \A t \in Selectors \ {s} : nn.uses[t] = mm.uses[t]
<1> DEFINE uses == [mm.uses EXCEPT ![s] = n]
<1>1. /\ uses \in [Selectors -> Nat] /\ uses[s] = n
      /\ \A t \in Selectors \ {s} : uses[t] = mm.uses[t]
  BY DEF MediaSync
<1>2. nn = [mm EXCEPT !.uses = uses]
  BY DEF MediaSync
<1> HIDE DEF uses
<1>3. /\ nn \in MediaSync /\ nn.entry = mm.entry /\ nn.source = mm.source
      /\ nn.master = mm.master /\ nn.cii = mm.cii /\ nn.running = mm.running
      /\ nn.deleted = mm.deleted /\ nn.attached = mm.attached /\ SameWishes(mm, nn)
      /\ nn.uses = uses
  BY <1>1, <1>2 DEF MediaSync, SameWishes
<1> QED BY <1>1, <1>3

LEMMA StartForClientFits ==
  ASSUME IInv, NEW ok \in BOOLEAN, StartForClient(ok)
  PROVE  IInv'
<1> DEFINE s == looper.selector
<1> DEFINE mm == [m EXCEPT !.uses[s] = @ + 1]
<1>1. /\ looper.at = "start" /\ looper' = [looper EXCEPT !.at = "update"]
      /\ UNCHANGED <<page, call, told>>
      /\ m.uses[s] = 0 => /\ m' = StartTimelineMonitoring(mm, s, FALSE, ok)
                          /\ UpdateIfSourcesChange("looper")
      /\ m.uses[s] # 0 => m' = mm /\ update' = update
  BY DEF StartForClient
<1>2. /\ m \in MediaSync /\ looper \in Work /\ s \in Selectors
      /\ looper.client \in Clients /\ m.setup[looper.client] = s /\ m.ts # "none"
  BY <1>1 DEF IInv, TypeOK, LooperFits
<1>3. /\ looper' \in Work /\ looper'.at = "update" /\ looper'.client = looper.client
      /\ looper'.selector = s
  BY <1>1, <1>2 DEF Work
<1>4. m.uses[s] \in Nat /\ m.uses[s] + 1 \in Nat
  BY <1>2, UsesType
<1>5. mm = [m EXCEPT !.uses[s] = m.uses[s] + 1]
  BY <1>2 DEF MediaSync
<1> HIDE DEF mm, s
<1>6. /\ mm \in MediaSync /\ mm.entry = m.entry /\ mm.source = m.source
      /\ mm.master = m.master /\ mm.cii = m.cii /\ mm.running = m.running
      /\ mm.deleted = m.deleted /\ mm.attached = m.attached /\ SameWishes(m, mm)
      /\ mm.uses[s] = m.uses[s] + 1
      /\ \A t \in Selectors \ {s} : mm.uses[t] = m.uses[t]
  BY <1>2, <1>4, <1>5, UsesFields
<1>7. Keeps(mm, m', s) \/ m' = mm
  <2>1. StateFits(mm)
    BY <1>6, SameTimelines DEF IInv
  <2> QED BY <1>1, <1>2, <2>1, StartOtherFits
<1>8. m'.uses = mm.uses /\ m'.setup = m.setup /\ m'.ts = m.ts
  BY <1>6, <1>7 DEF Keeps, SameClients, SameWishes
<1>9. UsesCover(m', looper')
  <2>1. ASSUME NEW t \in Selectors
        PROVE  m'.uses[t] >= Cardinality(Named(m', looper', t)) + Counted(looper', t)
    <3>1. Named(m', looper', t) = Named(m, looper, t)
      BY <1>3, <1>8 DEF Named
    <3>2. Counted(looper, t) = 0 /\ Counted(looper', t) = (IF t = s THEN 1 ELSE 0)
      BY <1>1, <1>3 DEF Counted, Relies
    <3>3. m'.uses[t] = IF t = s THEN m.uses[t] + 1 ELSE m.uses[t]
      BY <1>6, <1>8
    <3> QED BY <3>1, <3>2, <3>3, NamedTypes, UsesType
  <2> QED BY <2>1 DEF UsesCover
<1>10. LooperFits(m', looper')
  BY <1>2, <1>3, <1>8 DEF LooperFits
<1>11. \A t \in Selectors \ {s} : Used(m', looper', t) => Used(m, looper, t)
  BY <1>3, <1>6, <1>8 DEF Used
<1>12. CASE m.uses[s] = 0
  <2>1. m' = StartTimelineMonitoring(mm, s, FALSE, ok) /\ UpdateIfSourcesChange("looper")
    BY <1>1, <1>12
  <2>2. StateFits(mm) /\ Sum(mm, s) = Sum(m, s)
    BY <1>6, SameTimelines DEF IInv
  <2>3. /\ Keeps(mm, m', s)
        /\ Kind[s] # "invalid" => Sum(m', s) = Sum(mm, s) + 1
    BY <1>2, <2>1, <2>2, StartOtherFits
  <2>4. Service(m, looper, s) = 0 /\ Service(m', looper', s) \in {0, 1}
    BY <1>1, <1>12 DEF Service, Used
  <2>5. s \notin abandoned /\ ~m.deleted /\ Kind[s] # "invalid"
            => Relies(s \in period) + Relies(s \in media) + Service(m', looper', s)
                 <= Sum(m', s)
    BY <1>2, <2>2, <2>3, <2>4, WatcherTypes
  <2> QED BY <1>1, <1>2, <1>3, <1>6, <1>9, <1>10, <1>11, <2>1, <2>3, <2>5, LooperStep
<1>13. CASE m.uses[s] # 0
  <2>1. m' = mm /\ update' = update
    BY <1>1, <1>13
  <2>2. \A t \in Selectors : Used(m', looper', t) => Used(m, looper, t)
    BY <1>4, <1>11, <1>13 DEF Used
  <2>3. \A c \in Clients : ControlTimestamp(m', c) = ControlTimestamp(m, c)
    BY <1>6, <2>1, SameTimestamp DEF SameWishes
  <2>4. UpdateFits' /\ ToldFits'
    <3>1. \A c \in Clients : m'.setup[c] # None =>
            \/ looper'.client = c
            \/ /\ m.setup[c] # None /\ ControlTimestamp(m', c) = ControlTimestamp(m, c)
               /\ looper.client # c
      BY <1>3, <1>8, <2>3
    <3> QED BY <1>1, <2>1, <3>1, ToldStep
  <2>5. update' \in [Threads -> Update] /\ told' \in [Clients -> Timestamps \cup {None}]
    BY <1>1, <2>1 DEF IInv, TypeOK
  <2> QED BY <1>1, <1>3, <1>6, <1>9, <1>10, <2>1, <2>2, <2>4, <2>5, ServiceStep
<1> QED BY <1>12, <1>13

(* A client that was counted is one of those that name the timeline.       *)
LEMMA OneMoreNames ==
  ASSUME NEW mm, NEW work, NEW next, NEW s, NEW c \in Clients,
         Named(mm, next, s) \subseteq Named(mm, work, s) \cup {c}
  PROVE  Cardinality(Named(mm, next, s)) <= Cardinality(Named(mm, work, s)) + 1
<1> DEFINE a == Named(mm, work, s)
<1> DEFINE b == a \cup {c}
<1>1. IsFiniteSet(a) /\ Cardinality(a) \in Nat /\ Cardinality(Named(mm, next, s)) \in Nat
  BY NamedTypes
<1> HIDE DEF a
<1>2. IsFiniteSet(b) /\ Cardinality(b) \in {Cardinality(a), Cardinality(a) + 1}
  BY <1>1, FS_AddElement
<1>3. Cardinality(Named(mm, next, s)) <= Cardinality(b)
  BY <1>2, FS_Subset DEF a
<1> QED BY <1>1, <1>2, <1>3 DEF a

LEMMA UpdateNewClientFits ==
  ASSUME IInv, UpdateNewClient
  PROVE  IInv'
<1> DEFINE c == looper.client
<1> DEFINE s == looper.selector
<1> DEFINE u == [update["looper"] EXCEPT !.todo = {c}]
<1>1. /\ looper.at = "update" /\ update["looper"].todo = {} /\ looper' = NoWork
      /\ update' = [update EXCEPT !["looper"].todo = {c}]
      /\ UNCHANGED <<m, page, call, told>>
  BY DEF UpdateNewClient, InUpdate
<1>2. "looper" \in Threads
  BY DEF Threads
<1>3. /\ m \in MediaSync /\ looper \in Work /\ s \in Selectors /\ c \in Clients
      /\ m.setup[c] = s /\ m.ts # "none"
  BY <1>1 DEF IInv, TypeOK, LooperFits
<1>4. /\ update \in [Threads -> Update] /\ update["looper"] \in Update
      /\ update["looper"].at = None
  BY <1>1, <1>2, UpdateType DEF IInv, UpdateFits
<1>5. u \in Update /\ u.at = None /\ u.todo = {c}
  BY <1>3, <1>4 DEF Update
<1>6. update' = [update EXCEPT !["looper"] = u]
  BY <1>1, <1>2, <1>4
<1> HIDE DEF u, c, s
<1>7. /\ update' \in [Threads -> Update] /\ update'["looper"] = u
      /\ \A t \in Threads \ {"looper"} : update'[t] = update[t]
  BY <1>2, <1>4, <1>5, <1>6
<1>8. UpdateFits'
  BY <1>5, <1>7 DEF IInv, UpdateFits
<1>9. c # None /\ c \in Clients
  BY <1>3, KindAssumption
<1>10. ToldFits'
  <2> SUFFICES ASSUME NEW d \in Clients, m.setup[d] # None
               PROVE  /\ \/ told[d] \in {ControlTimestamp(m, d), "either"}
                         \/ Fresh(d)'
                         \/ \E t \in Threads : update'[t].at = d
                      /\ \A t \in Threads : update'[t].at = d =>
                            update'[t].ct \in {ControlTimestamp(m, d), "either"} \/ Fresh(d)'
    <3>1. m' = m /\ told' = told
      BY <1>1
    <3> QED BY <3>1 DEF ToldFits
  <2>1. CASE d = c
    <3>1. d \in update'["looper"].todo /\ update'["looper"].at # d
      BY <1>5, <1>7, <1>9, <2>1
    <3>2. Fresh(d)'
      BY <1>2, <3>1 DEF Fresh
    <3> QED BY <3>2
  <2>2. CASE d # c
    <3>1. d # None
      BY KindAssumption
    <3>2. Fresh(d) => Fresh(d)'
      <4>1. call' = call /\ looper.client # d
        BY <1>1, <2>2 DEF c
      <4>2. \A t \in Threads : d \in update[t].todo => t # "looper"
        BY <1>1
      <4> QED BY <1>7, <4>1, <4>2 DEF Fresh
    <3>3. \A t \in Threads : update'[t].at = d <=> update[t].at = d
      BY <1>4, <1>5, <1>7, <3>1
    <3>4. \A t \in Threads : update'[t].at = d => update'[t].ct = update[t].ct
      BY <1>5, <1>7, <3>1
    <3> QED BY <3>2, <3>3, <3>4 DEF IInv, ToldFits
  <2> QED BY <2>1, <2>2
<1>11. UsesCover(m', looper')
  <2>1. ASSUME NEW t \in Selectors
        PROVE  m'.uses[t] >= Cardinality(Named(m', looper', t)) + Counted(looper', t)
    <3>1. Counted(looper', t) = 0 /\ Counted(looper, t) = (IF t = s THEN 1 ELSE 0)
      BY <1>1, WorkTypes DEF Counted, Relies, s
    <3>2. Named(m, NoWork, t) \subseteq Named(m, looper, t) \cup {c}
      BY DEF Named, c
    <3>3. CASE t = s
      <4>1. Cardinality(Named(m, NoWork, t)) <= Cardinality(Named(m, looper, t)) + 1
        BY <1>9, <3>2, OneMoreNames
      <4>2. Cardinality(Named(m, NoWork, t)) \in Nat /\ Cardinality(Named(m, looper, t)) \in Nat
        BY NamedTypes
      <4>3. m.uses[t] >= Cardinality(Named(m, looper, t)) + 1 /\ m.uses[t] \in Nat
        BY <3>1, <3>3, UsesType
      <4>4. m'.uses[t] = m.uses[t] /\ Named(m', looper', t) = Named(m, NoWork, t)
        BY <1>1
      <4> QED BY <3>1, <4>1, <4>2, <4>3, <4>4
    <3>4. CASE t # s
      <4>1. Named(m, NoWork, t) \subseteq Named(m, looper, t)
        BY <1>3, <3>4 DEF Named, c
      <4> QED BY <1>1, <3>1, <3>4, <4>1, FewerName, NamedTypes, UsesType
    <3> QED BY <3>3, <3>4
  <2> QED BY <2>1 DEF UsesCover
<1>12. LooperFits(m', looper')
  BY <1>1, <1>3, WorkTypes DEF LooperFits
<1>13. \A t \in Selectors : Used(m', looper', t) => Used(m, looper, t)
  BY <1>1, WorkTypes DEF Used
<1>14. looper' \in Work /\ told' \in [Clients -> Timestamps \cup {None}]
  BY <1>1, WorkTypes DEF IInv, TypeOK
<1> QED BY <1>1, <1>3, <1>7, <1>8, <1>10, <1>11, <1>12, <1>13, <1>14, ServiceStep

(* OnDisconnected counts the client off: it was counted when it named the
   timeline.                                                               *)
LEMMA ClientDisconnectsFits ==
  ASSUME IInv, NEW c \in Clients, ClientDisconnects(c)
  PROVE  IInv'
<1> DEFINE s == m.setup[c]
<1> DEFINE x == IF m.uses[s] = 1 THEN "stop" ELSE "forget"
<1>1. /\ m.ts # "none" /\ looper = NoWork /\ s # None
      /\ m' = [m EXCEPT !.uses[s] = m.uses[s] - 1]
      /\ looper' = [at |-> x, client |-> c, selector |-> s]
      /\ UNCHANGED <<page, call, update, told>>
  BY DEF ClientDisconnects, LooperFree
<1>2. m \in MediaSync
  BY DEF IInv, TypeOK
<1>3. s \in Selectors /\ c # None
  BY <1>1, <1>2, KindAssumption DEF MediaSync
<1>4. x \in {"stop", "forget"} /\ (x = "stop" <=> m.uses[s] = 1)
  OBVIOUS
<1>5. c \in Named(m, looper, s)
  BY <1>1, <1>3, WorkTypes DEF Named
<1> HIDE DEF x, s
<1>6. looper' \in Work /\ looper'.at = x /\ looper'.client = c /\ looper'.selector = s
  BY <1>1, <1>3, <1>4, WorkTypes
<1>7. m.uses[s] \in Nat /\ m.uses[s] - 1 \in Nat
      /\ Cardinality(Named(m, looper, s)) \in Nat
      /\ Cardinality(Named(m, looper, s)) <= m.uses[s]
  <2>1. IsFiniteSet(Named(m, looper, s)) /\ Cardinality(Named(m, looper, s)) \in Nat
        /\ Counted(looper, s) \in {0, 1}
    BY NamedTypes
  <2>2. Cardinality(Named(m, looper, s)) # 0
    BY <1>5, <2>1, FS_EmptySet
  <2>3. m.uses[s] \in Nat
        /\ m.uses[s] >= Cardinality(Named(m, looper, s)) + Counted(looper, s)
    BY <1>3, UsesType
  <2> QED BY <2>1, <2>2, <2>3
<1>8. /\ m' \in MediaSync /\ m'.entry = m.entry /\ m'.source = m.source
      /\ m'.master = m.master /\ m'.cii = m.cii /\ m'.running = m.running
      /\ m'.deleted = m.deleted /\ m'.attached = m.attached /\ SameWishes(m, m')
      /\ m'.uses[s] = m.uses[s] - 1
      /\ \A t \in Selectors \ {s} : m'.uses[t] = m.uses[t]
  BY <1>1, <1>2, <1>3, <1>7, UsesFields
<1>9. UsesCover(m', looper')
  <2>1. ASSUME NEW t \in Selectors
        PROVE  m'.uses[t] >= Cardinality(Named(m', looper', t)) + Counted(looper', t)
    <3>1. Named(m', looper', t) = Named(m, looper, t) \ {c}
      BY <1>1, <1>6, <1>8, KindAssumption, WorkTypes DEF Named, SameWishes
    <3>2. Counted(looper', t) = 0
      BY <1>4, <1>6 DEF Counted, Relies
    <3>3. CASE t = s
      <4>1. IsFiniteSet(Named(m, looper, s))
        BY NamedTypes
      <4>2. Cardinality(Named(m, looper, s) \ {c}) = Cardinality(Named(m, looper, s)) - 1
        BY <1>5, <4>1, FS_RemoveElement
      <4> QED BY <1>7, <1>8, <3>1, <3>2, <3>3, <4>2
    <3>4. CASE t # s
      <4>1. Named(m', looper', t) \subseteq Named(m, looper, t)
        BY <3>1
      <4> QED BY <1>8, <3>2, <3>4, <4>1, FewerName, NamedTypes, UsesType
    <3> QED BY <3>3, <3>4
  <2> QED BY <2>1 DEF UsesCover
<1>10. LooperFits(m', looper')
  BY <1>1, <1>3, <1>4, <1>6, <1>7, <1>8 DEF LooperFits, SameWishes
<1>11. \A t \in Selectors : Used(m', looper', t) => Used(m, looper, t)
  BY <1>4, <1>6, <1>7, <1>8 DEF Used
<1>12. \A d \in Clients : ControlTimestamp(m', d) = ControlTimestamp(m, d)
  BY <1>8, SameTimestamp DEF SameWishes
<1>13. UpdateFits' /\ ToldFits'
  <2>1. \A d \in Clients : m'.setup[d] # None =>
          \/ looper'.client = d
          \/ /\ m.setup[d] # None /\ ControlTimestamp(m', d) = ControlTimestamp(m, d)
             /\ looper.client # d
    BY <1>1, <1>8, <1>12, KindAssumption, WorkTypes DEF SameWishes
  <2> QED BY <1>1, <2>1, ToldStep
<1>14. update' \in [Threads -> Update] /\ told' \in [Clients -> Timestamps \cup {None}]
  BY <1>1 DEF IInv, TypeOK
<1> QED BY <1>1, <1>6, <1>8, <1>9, <1>10, <1>11, <1>13, <1>14, ServiceStep

LEMMA StopForClientFits ==
  ASSUME IInv, StopForClient
  PROVE  IInv'
<1> DEFINE s == looper.selector
<1>1. /\ looper.at = "stop" /\ looper' = [looper EXCEPT !.at = "forget"]
      /\ m' = StopTimelineMonitoring(m, s, FALSE)
      /\ UpdateIfSourcesChange("looper") /\ UNCHANGED <<page, call, told>>
  BY DEF StopForClient
<1>2. /\ m \in MediaSync /\ looper \in Work /\ s \in Selectors
      /\ looper.client \in Clients /\ m.uses[s] = 0 /\ m.ts # "none"
  BY <1>1 DEF IInv, TypeOK, LooperFits
<1>3. /\ looper' \in Work /\ looper'.at = "forget" /\ looper'.client = looper.client
      /\ looper'.selector = s
  BY <1>1, <1>2 DEF Work
<1> HIDE DEF s
<1>4. /\ Keeps(m, m', s)
      /\ Sum(m, s) > 0 => Sum(m', s) = Sum(m, s) - 1
  <2>1. StateFits(m) /\ FALSE \in BOOLEAN
    BY DEF IInv
  <2> QED BY <1>1, <1>2, <2>1, StopFits
<1>5. m'.uses = m.uses /\ m'.setup = m.setup /\ m'.ts = m.ts
  BY <1>4 DEF Keeps, SameClients
<1>6. UsesCover(m', looper')
  <2>1. ASSUME NEW t \in Selectors
        PROVE  m'.uses[t] >= Cardinality(Named(m', looper', t)) + Counted(looper', t)
    <3>1. Named(m', looper', t) = Named(m, looper, t)
      BY <1>3, <1>5 DEF Named
    <3>2. Counted(looper', t) = 0 /\ Counted(looper, t) = 0
      BY <1>1, <1>3 DEF Counted, Relies
    <3> QED BY <1>5, <3>1, <3>2, UsesType
  <2> QED BY <2>1 DEF UsesCover
<1>7. LooperFits(m', looper')
  BY <1>2, <1>3, <1>5 DEF LooperFits
<1>8. \A t \in Selectors \ {s} : Used(m', looper', t) => Used(m, looper, t)
  BY <1>3, <1>5 DEF Used
<1>9. Service(m, looper, s) = 1 /\ Service(m', looper', s) = 0
  <2>1. looper.selector = s /\ m'.uses[s] = 0
    BY <1>2, <1>5 DEF s
  <2>2. Used(m, looper, s)
    BY <1>1, <2>1 DEF Used
  <2>3. ~Used(m', looper', s)
    BY <1>3, <2>1 DEF Used
  <2> QED BY <2>2, <2>3 DEF Service
<1>10. s \notin abandoned /\ ~m.deleted /\ Kind[s] # "invalid"
            => Relies(s \in period) + Relies(s \in media) + Service(m', looper', s)
                 <= Sum(m', s)
  BY <1>2, <1>4, <1>9, WatcherTypes
<1>11. SameWishes(m, m)
  BY DEF SameWishes
<1> QED BY <1>1, <1>2, <1>3, <1>4, <1>6, <1>7, <1>8, <1>10, <1>11, LooperStep

(* The client's data go last.                                              *)
LEMMA ForgetClientFits ==
  ASSUME IInv, ForgetClient
  PROVE  IInv'
<1> DEFINE c == looper.client
<1> DEFINE set == [m.setup EXCEPT ![c] = None]
<1> DEFINE ste == [m.stem EXCEPT ![c] = NoContentId]
<1>1. /\ looper.at = "forget" /\ looper' = NoWork
      /\ m' = [m EXCEPT !.setup = set, !.stem = ste]
      /\ told' = [told EXCEPT ![c] = None]
      /\ UNCHANGED <<page, call, update>>
  BY DEF ForgetClient
<1>2. m \in MediaSync /\ c \in Clients /\ c # None /\ m.ts # "none"
  BY <1>1, KindAssumption DEF IInv, TypeOK, LooperFits
<1>3. /\ set \in [Clients -> Selectors \cup {None}]
      /\ ste \in [Clients -> ContentIds \cup {NoContentId}]
      /\ set[c] = None
      /\ \A d \in Clients \ {c} : set[d] = m.setup[d] /\ ste[d] = m.stem[d]
  BY <1>2 DEF MediaSync
<1> HIDE DEF set, ste, c
<1>4. /\ m' \in MediaSync /\ m'.entry = m.entry /\ m'.source = m.source
      /\ m'.master = m.master /\ m'.cii = m.cii /\ m'.running = m.running
      /\ m'.deleted = m.deleted /\ m'.uses = m.uses /\ m'.setup = set /\ m'.stem = ste
      /\ m'.ts = m.ts /\ m'.contentId = m.contentId /\ m'.override = m.override
      /\ m'.attached = m.attached
  BY <1>1, <1>2, <1>3 DEF MediaSync
<1>5. /\ told' \in [Clients -> Timestamps \cup {None}]
      /\ \A d \in Clients \ {c} : told'[d] = told[d]
  BY <1>1, <1>2 DEF IInv, TypeOK
<1>6. UsesCover(m', looper')
  <2>1. ASSUME NEW t \in Selectors
        PROVE  m'.uses[t] >= Cardinality(Named(m', looper', t)) + Counted(looper', t)
    <3>1. Named(m', looper', t) \subseteq Named(m, looper, t)
      <4> SUFFICES ASSUME NEW d \in Clients, m'.setup[d] = t
                   PROVE  d \in Named(m, looper, t)
        BY DEF Named
      <4>1. t # None
        BY Constants
      <4>2. d # c
        BY <1>3, <1>4, <4>1
      <4> QED BY <1>3, <1>4, <4>2 DEF Named, c
    <3>2. Counted(looper', t) = 0
      BY <1>1, WorkTypes DEF Counted, Relies
    <3> QED BY <1>4, <3>1, <3>2, FewerName, NamedTypes, UsesType
  <2> QED BY <2>1 DEF UsesCover
<1>7. LooperFits(m', looper')
  BY <1>1, <1>2, <1>4, WorkTypes DEF LooperFits
<1>8. \A t \in Selectors : Used(m', looper', t) => Used(m, looper, t)
  BY <1>1, <1>4, WorkTypes DEF Used
<1>9. UpdateFits' /\ update' \in [Threads -> Update]
  BY <1>1 DEF IInv, UpdateFits, TypeOK
<1>10. ToldFits'
  <2> SUFFICES ASSUME NEW d \in Clients, m'.setup[d] # None
               PROVE  /\ \/ told'[d] \in {ControlTimestamp(m', d), "either"}
                         \/ Fresh(d)'
                         \/ \E t \in Threads : update'[t].at = d
                      /\ \A t \in Threads : update'[t].at = d =>
                            update'[t].ct \in {ControlTimestamp(m', d), "either"} \/ Fresh(d)'
    BY DEF ToldFits
  <2>1. d # c
    BY <1>3, <1>4
  <2>2. m'.setup[d] = m.setup[d] /\ m'.stem[d] = m.stem[d] /\ told'[d] = told[d]
    BY <1>3, <1>4, <1>5, <2>1
  <2>3. ControlTimestamp(m', d) = ControlTimestamp(m, d)
    BY <1>4, <2>2, SameTimestamp
  <2>4. Fresh(d) => Fresh(d)'
    BY <1>1, <2>1 DEF Fresh, c
  <2> QED BY <1>1, <2>2, <2>3, <2>4 DEF IInv, ToldFits
<1>11. looper' \in Work
  BY <1>1, WorkTypes
<1> QED BY <1>1, <1>4, <1>5, <1>6, <1>7, <1>8, <1>9, <1>10, <1>11, ServiceStep
-----------------------------------------------------------------------------
(* The updates.  A step of one leaves the timelines and the callbacks alone. *)
LEMMA UpdateStep ==
  ASSUME IInv, UNCHANGED <<m, page, call, looper>>, update' \in [Threads -> Update],
         told' \in [Clients -> Timestamps \cup {None}], UpdateFits', ToldFits'
  PROVE  IInv'
<1>1. m' \in MediaSync /\ looper' \in Work
  BY DEF IInv, TypeOK
<1>2. UsesCover(m', looper') /\ LooperFits(m', looper')
  BY DEF IInv
<1> QED BY <1>1, <1>2, ServiceStep

LEMMA TimestampTypes ==
  ASSUME NEW mm, NEW c
  PROVE  ControlTimestamp(mm, c) \in Timestamps /\ "either" \in Timestamps
BY DEF ControlTimestamp, Timestamps

LEMMA ReadClientFits ==
  ASSUME IInv, NEW t \in Threads, NEW c \in Clients, ReadClient(t, c)
  PROVE  IInv'
<1> DEFINE others == {u \in Threads \ {t} : update[u].at # None}
<1> DEFINE ct == IF others = {} THEN ControlTimestamp(m, c) ELSE "either"
<1>1. /\ c \in update[t].todo /\ update[t].at = None
      /\ update' = [u \in Threads |->
               IF u = t THEN [update[t] EXCEPT !.at = c, !.ct = ct]
               ELSE IF u \in others THEN [update[u] EXCEPT !.ct = "either"]
               ELSE update[u]]
      /\ UNCHANGED <<m, page, call, looper, told>>
  BY DEF ReadClient
<1>2. ct \in Timestamps /\ ct \in {ControlTimestamp(m, c), "either"} /\ c # None
  BY TimestampTypes, KindAssumption
<1> HIDE DEF others, ct
<1>3. /\ update'[t] = [update[t] EXCEPT !.at = c, !.ct = ct]
      /\ \A u \in Threads \ {t} :
            update'[u] = update[u] \/ update'[u] = [update[u] EXCEPT !.ct = "either"]
  BY <1>1
<1>4. /\ update'[t] \in Update /\ update'[t].at = c /\ update'[t].ct = ct
      /\ update'[t].todo = update[t].todo
  BY <1>2, <1>3, UpdateType DEF Update
<1>5. ASSUME NEW u \in Threads \ {t}
      PROVE  /\ update'[u] \in Update /\ update'[u].at = update[u].at
             /\ update'[u].todo = update[u].todo
             /\ update'[u].ct \in {update[u].ct, "either"}
  <2>1. update[u] \in Update /\ "either" \in Timestamps
    BY UpdateType, TimestampTypes
  <2>2. update'[u] = update[u] \/ update'[u] = [update[u] EXCEPT !.ct = "either"]
    BY <1>3
  <2> QED BY <2>1, <2>2 DEF Update
<1>6. update' \in [Threads -> Update]
  <2>1. \A u \in Threads : update'[u] \in Update
    BY <1>4, <1>5
  <2> QED BY <1>1, <2>1
<1>7. UpdateFits'
  BY <1>1, <1>4, <1>5 DEF IInv, UpdateFits
<1>8. ToldFits'
  <2> SUFFICES ASSUME NEW d \in Clients, m.setup[d] # None
               PROVE  /\ \/ told'[d] \in {ControlTimestamp(m', d), "either"}
                         \/ Fresh(d)'
                         \/ \E u \in Threads : update'[u].at = d
                      /\ \A u \in Threads : update'[u].at = d =>
                            update'[u].ct \in {ControlTimestamp(m', d), "either"} \/ Fresh(d)'
    <3>1. m' = m
      BY <1>1
    <3> QED BY <3>1 DEF ToldFits
  <2>1. ControlTimestamp(m', d) = ControlTimestamp(m, d) /\ told'[d] = told[d]
    BY <1>1
  <2>2. d # c => (Fresh(d) => Fresh(d)')
    BY <1>1, <1>4, <1>5 DEF Fresh
  <2>3. CASE d = c
    <3>1. \E u \in Threads : update'[u].at = d
      BY <1>4, <2>3
    <3>2. ASSUME NEW u \in Threads, update'[u].at = d
          PROVE  update'[u].ct \in {ControlTimestamp(m', d), "either"} \/ Fresh(d)'
      <4>1. CASE u = t
        BY <1>2, <1>4, <2>1, <2>3, <4>1
      <4>2. CASE u # t
        <5>1. update'[u].ct = "either"
          <6>1. update[u].at # None
            BY <1>2, <1>5, <2>3, <3>2, <4>2
          <6>2. update'[u] = [update[u] EXCEPT !.ct = "either"] /\ update[u] \in Update
            BY <1>1, <4>2, <6>1, UpdateType DEF others
          <6> QED BY <6>2 DEF Update
        <5> QED BY <5>1
      <4> QED BY <4>1, <4>2
    <3> QED BY <3>1, <3>2
  <2>4. CASE d # c
    <3>1. \A u \in Threads : update'[u].at = d <=> (update[u].at = d /\ u # t)
      BY <1>1, <1>4, <1>5, <2>4, KindAssumption
    <3>2. \A u \in Threads : update'[u].at = d => update'[u].ct \in {update[u].ct, "either"}
      BY <1>5, <3>1
    <3>3. \A u \in Threads : update[u].at = d => u # t
      BY <1>1, KindAssumption
    <3> QED BY <2>1, <2>2, <2>4, <3>1, <3>2, <3>3 DEF IInv, ToldFits
  <2> QED BY <2>3, <2>4
<1>9. UNCHANGED <<m, page, call, looper>> /\ told' = told
  BY <1>1
<1>10. told' \in [Clients -> Timestamps \cup {None}]
  BY <1>9 DEF IInv, TypeOK
<1> QED BY <1>6, <1>7, <1>8, <1>9, <1>10, UpdateStep

LEMMA FinishedTypes ==
  ASSUME IInv, NEW t \in Threads, NEW c \in Clients
  PROVE  /\ Finished(t, c) \in Update /\ Finished(t, c).at = None
         /\ Finished(t, c).todo = update[t].todo \ {c}
<1>1. CASE update[t].todo = {c}
  BY <1>1, UpdateTypes DEF Finished
<1>2. CASE update[t].todo # {c}
  <2>1. update[t].todo \ {c} \in SUBSET Clients /\ update[t].locked \in BOOLEAN
    BY UpdateType
  <2> DEFINE todo == update[t].todo \ {c}
  <2> DEFINE locked == update[t].locked
  <2>2. Finished(t, c) = [NoUpdate EXCEPT !.todo = todo, !.locked = locked]
    BY <1>2 DEF Finished
  <2> HIDE DEF locked, todo
  <2>3. todo \in SUBSET Clients /\ locked \in BOOLEAN
    BY <2>1 DEF todo, locked
  <2> DEFINE u == [NoUpdate EXCEPT !.todo = todo, !.locked = locked]
  <2>4. u \in Update /\ u.at = None /\ u.todo = todo
    BY <2>3, UpdateTypes
  <2>5. Finished(t, c) = u
    BY <2>2
  <2> HIDE DEF u
  <2>6. Finished(t, c) \in Update /\ Finished(t, c).at = None /\ Finished(t, c).todo = todo
    BY <2>4, <2>5
  <2> QED BY <2>6 DEF todo
<1> QED BY <1>1, <1>2

(* One client of an update is done with, and was told what holds.          *)
LEMMA FinishedStep ==
  ASSUME IInv, NEW t \in Threads, NEW c \in Clients, update[t].at \in {c, None},
         update' = [update EXCEPT ![t] = Finished(t, c)],
         UNCHANGED <<m, page, call, looper>>,
         told' \in [Clients -> Timestamps \cup {None}],
         \A d \in Clients \ {c} : told'[d] = told[d],
         m.setup[c] # None =>
            update[t].at = c
            /\ (told'[c] \in {ControlTimestamp(m, c), "either"} \/ Fresh(c)')
  PROVE  IInv'
<1>1. update \in [Threads -> Update]
  BY UpdateType
<1>2. /\ update' \in [Threads -> Update]
      /\ update'[t].at = None /\ update'[t].todo = update[t].todo \ {c}
      /\ \A u \in Threads \ {t} : update'[u] = update[u]
  BY <1>1, FinishedTypes
<1>3. UpdateFits'
  BY <1>2 DEF IInv, UpdateFits
<1>4. ToldFits'
  <2> SUFFICES ASSUME NEW d \in Clients, m.setup[d] # None
               PROVE  /\ \/ told'[d] \in {ControlTimestamp(m', d), "either"}
                         \/ Fresh(d)'
                         \/ \E u \in Threads : update'[u].at = d
                      /\ \A u \in Threads : update'[u].at = d =>
                            update'[u].ct \in {ControlTimestamp(m', d), "either"} \/ Fresh(d)'
    BY DEF ToldFits
  <2>1. ControlTimestamp(m', d) = ControlTimestamp(m, d) /\ d # None
    BY KindAssumption
  <2>2. \A u \in Threads : update'[u].at = d => u # t /\ update[u].at = d
                                                /\ update'[u].ct = update[u].ct
    BY <1>2, <2>1
  <2>3. CASE d # c
    <3>1. Fresh(d) => Fresh(d)'
      BY <1>2, <2>1, <2>3 DEF Fresh
    <3>2. \A u \in Threads : update[u].at = d => update'[u].at = d
      BY <1>2, <2>1, <2>3
    <3> QED BY <2>1, <2>2, <2>3, <3>1, <3>2 DEF IInv, ToldFits
  <2>4. CASE d = c
    <3>1. Fresh(c) => Fresh(c)'
      BY <1>2, <2>4 DEF Fresh
    <3>2. told'[d] \in {ControlTimestamp(m', d), "either"} \/ Fresh(d)'
      BY <2>1, <2>4
    <3>3. ASSUME NEW u \in Threads, update'[u].at = d
          PROVE  update'[u].ct \in {ControlTimestamp(m', d), "either"} \/ Fresh(d)'
      <4>1. u # t /\ update[u].at = d /\ update'[u].ct = update[u].ct
        BY <2>2, <3>3
      <4>2. update[u].ct \in {ControlTimestamp(m, d), "either"} \/ Fresh(d)
        BY <4>1 DEF IInv, ToldFits
      <4> QED BY <2>1, <2>4, <3>1, <4>1, <4>2
    <3> QED BY <3>2, <3>3
  <2> QED BY <2>3, <2>4
<1> QED BY <1>2, <1>3, <1>4, UpdateStep

LEMMA PassOverFits ==
  ASSUME IInv, NEW t \in Threads, NEW c \in Clients, PassOver(t, c)
  PROVE  IInv'
<1>1. /\ update[t].at = None /\ m.setup[c] = None
      /\ update' = [update EXCEPT ![t] = Finished(t, c)]
      /\ UNCHANGED <<m, page, call, looper, told>>
  BY DEF PassOver
<1>2. told' \in [Clients -> Timestamps \cup {None}]
  BY <1>1 DEF IInv, TypeOK
<1> QED BY <1>1, <1>2, FinishedStep

LEMMA SendClientFits ==
  ASSUME IInv, NEW t \in Threads, NEW c \in Clients, SendClient(t, c)
  PROVE  IInv'
<1>1. /\ update[t].at = c /\ update' = [update EXCEPT ![t] = Finished(t, c)]
      /\ told' = IF m.setup[c] = None THEN told ELSE [told EXCEPT ![c] = update[t].ct]
      /\ UNCHANGED <<m, page, call, looper>>
  BY DEF SendClient
<1>2. told \in [Clients -> Timestamps \cup {None}] /\ update[t].ct \in Timestamps \cup {None}
  BY UpdateType DEF IInv, TypeOK
<1>3. /\ told' \in [Clients -> Timestamps \cup {None}]
      /\ \A d \in Clients \ {c} : told'[d] = told[d]
      /\ m.setup[c] # None => told'[c] = update[t].ct
  BY <1>1, <1>2
<1>4. m.setup[c] # None =>
        update[t].ct \in {ControlTimestamp(m, c), "either"} \/ Fresh(c)
  BY <1>1 DEF IInv, ToldFits
<1>5. Fresh(c) => Fresh(c)'
  <2>1. update \in [Threads -> Update]
    BY UpdateType
  <2>2. \A u \in Threads \ {t} : update'[u] = update[u]
    BY <1>1, <2>1
  <2> QED BY <1>1, <2>2 DEF Fresh
<1>6. m.setup[c] # None =>
        update[t].at = c
        /\ (told'[c] \in {ControlTimestamp(m, c), "either"} \/ Fresh(c)')
  BY <1>1, <1>3, <1>4, <1>5
<1> QED BY <1>1, <1>3, <1>6, FinishedStep
-----------------------------------------------------------------------------
LEMMA InitFits ==
  ASSUME Init
  PROVE  IInv
<1>1. /\ media = {} /\ period = {} /\ current = None /\ call = NoCall /\ abandoned = {}
      /\ looper = NoWork /\ update = [t \in Threads |-> NoUpdate]
      /\ told = [c \in Clients |-> None]
      /\ m.master = None /\ m.cii = {} /\ m.running = {} /\ m.deleted = FALSE
      /\ m.ts = "none" /\ m.attached = {} /\ m.entry = [s \in Selectors |-> NoEntry]
      /\ m.source = [s \in Selectors |-> NoSource]
      /\ m.uses = [s \in Selectors |-> 0] /\ m.setup = [c \in Clients |-> None]
  BY DEF Init
<1>2. m \in MediaSync
  <2>1. NoEntry \in Entry /\ NoSource \in Source /\ 0 \in 0..MaxFilters
    BY Entries, Sources, Constants
  <2> QED BY <2>1 DEF Init, MediaSync
<1>3. StateFits(m)
  <2>1. ASSUME NEW s \in Selectors
        PROVE  ~HasSource(m, s) /\ m.entry[s] = NoEntry
    BY <1>1 DEF HasSource
  <2>2. ASSUME NEW s \in Selectors
        PROVE  SourceFits(m, s) /\ FilterFits(m, s)
    <3>1. ~HasSource(m, s) /\ m.entry[s].num = -1 /\ m.entry[s].filter = -1
      BY <2>1, Entries
    <3> QED BY <1>1, <3>1 DEF SourceFits, FilterFits
  <2> QED BY <1>1, <1>2, <2>1, <2>2 DEF StateFits
<1>4. ClocksFit(m)
  BY <1>1 DEF ClocksFit, HasSource
<1>5. \A c \in Clients : m.setup[c] = None
  BY <1>1
<1>6. CountFits
  <2>1. ASSUME NEW s \in Selectors
        PROVE  Watchers(s) = 0 /\ Sum(m, s) \in Nat
    <3>1. Watchers(s) = 0
      <4>1. ~Used(m, looper, s)
        BY <1>1, WorkTypes DEF Used
      <4>2. s \notin period /\ s \notin media
        BY <1>1
      <4> QED BY <4>1, <4>2 DEF Watchers, Relies, Service
    <3>2. At(m, s).num \in Nat /\ At(m, s).pending \in Nat
      BY <1>2, AtType
    <3> QED BY <3>1, <3>2 DEF Sum
  <2> QED BY <2>1 DEF CountFits
<1>7. UsesCover(m, looper)
  BY <1>1, <1>2, <1>5, NobodyNames
<1>8. LooperFits(m, looper)
  BY <1>1, <1>5, WorkTypes DEF LooperFits
<1>9. CallFits /\ UpdateFits /\ ToldFits
  BY <1>1, <1>5, CallTypes, UpdateTypes DEF CallFits, UpdateFits, ToldFits
<1>10. TypeOK
  BY <1>1, <1>2, CallTypes, WorkTypes, UpdateTypes DEF TypeOK
<1> QED BY <1>3, <1>4, <1>6, <1>7, <1>8, <1>9, <1>10 DEF IInv

LEMMA ApplicationFits ==
  ASSUME IInv, Application
  PROVE  IInv'
<1>1. ASSUME NEW s \in Selectors, NEW ok \in BOOLEAN,
             InitMediaSynchroniser(s, ok) \/ AddMediaObject(s, ok)
      PROVE  IInv'
  BY <1>1, InitTimelineFits, AddMediaFits
<1>2. ASSUME NEW s \in Selectors, PeriodChanged(s) \/ PeriodGone(s)
      PROVE  IInv'
  BY <1>2, PeriodChangedFits, PeriodGoneFits
<1>3. CASE StartPeriod \/ AnnouncePeriod
  BY <1>3, StartPeriodFits, AnnouncePeriodFits
<1>4. ASSUME NEW s \in Selectors, RemoveMediaObject(s) \/ MediaPeriodGone(s)
      PROVE  IInv'
  BY <1>4, RemoveMediaFits, MediaPeriodGoneFits
<1>5. ASSUME NEW s \in Selectors, NEW isAvailable \in BOOLEAN, AnnounceTimeline(s, isAvailable)
      PROVE  IInv'
  BY <1>5, AnnounceTimelineFits
<1>6. CASE AddAvailable \/ SetContentTimeAndSpeed \/ UpdateUnavailable
  BY <1>6, AddAvailableFits, SpeedFits
<1>7. ASSUME NEW id \in ContentIds, UpdateCssCiiProperties(id)
      PROVE  IInv'
  BY <1>7, UpdateCssCiiFits
<1>8. ASSUME NEW id \in ContentIds \cup {NoContentId}, SetContentIdOverride(id)
      PROVE  IInv'
  BY <1>8, SetOverrideFits
<1>9. CASE DeleteLater \/ EnableInterDeviceSync \/ DisableInterDeviceSync
  BY <1>9, DeleteLaterFits, EnableFits, DisableFits
<1> QED BY <1>1, <1>2, <1>3, <1>4, <1>5, <1>6, <1>7, <1>8, <1>9 DEF Application

LEMMA PlatformFits ==
  ASSUME IInv, Platform
  PROVE  IInv'
<1>1. ASSUME NEW s \in Selectors, NEW n \in 1..MaxFilters, NEW isAvailable \in BOOLEAN,
             SetTEMITimelineAvailability(s, n, isAvailable)
      PROVE  IInv'
  BY <1>1, SetTEMIFits
<1>2. ASSUME NEW opens \in SUBSET Selectors, UpdateBroadcastContentStatus(opens)
      PROVE  IInv'
  BY <1>2, UpdateBroadcastFits
<1> QED BY <1>1, <1>2 DEF Platform

LEMMA LooperStepsFit ==
  ASSUME IInv, Looper
  PROVE  IInv'
<1>1. ASSUME NEW c \in Clients, NEW s \in Selectors, NEW stem \in Stems, ClientSetup(c, s, stem)
      PROVE  IInv'
  BY <1>1, ClientSetupFits
<1>2. ASSUME NEW ok \in BOOLEAN, StartForClient(ok)
      PROVE  IInv'
  BY <1>2, StartForClientFits
<1>3. ASSUME NEW c \in Clients, ClientDisconnects(c)
      PROVE  IInv'
  BY <1>3, ClientDisconnectsFits
<1>4. CASE UpdateNewClient \/ StopForClient \/ ForgetClient \/ ServiceGone
  BY <1>4, UpdateNewClientFits, StopForClientFits, ForgetClientFits, ServiceGoneFits
<1> QED BY <1>1, <1>2, <1>3, <1>4 DEF Looper

LEMMA NextFits ==
  ASSUME IInv, Next
  PROVE  IInv'
<1>1. ASSUME NEW t \in Threads, NEW c \in Clients,
             ReadClient(t, c) \/ PassOver(t, c) \/ SendClient(t, c)
      PROVE  IInv'
  BY <1>1, ReadClientFits, PassOverFits, SendClientFits
<1> QED BY <1>1, ApplicationFits, PlatformFits, LooperStepsFit DEF Next

LEMMA StutterFits ==
  ASSUME IInv, UNCHANGED vars
  PROVE  IInv'
<1>1. /\ m' = m
      /\ UNCHANGED <<media, period, current, call, abandoned, looper, update, told>>
  BY DEF vars, page, service
<1>2. TypeOK' /\ CountFits'
  BY <1>1 DEF IInv, TypeOK, CountFits, Watchers
<1>3. CallFits' /\ UpdateFits' /\ ToldFits'
  BY <1>1 DEF IInv, CallFits, UpdateFits, ToldFits, Fresh
<1> QED BY <1>1, <1>2, <1>3 DEF IInv

(* In every state the MediaSynchroniser and its TimelineSyncService reach,
   whatever the application, the platform's filters and the clients do and
   in whichever order their threads' steps come, the counting of watchers
   fits the sources, the clocks' parents, the filters, what the clients were
   told and who relies on which timeline.                                  *)
THEOREM Invariance == Spec => []IInv
<1>1. Init => IInv
  BY InitFits
<1>2. IInv /\ [Next]_vars => IInv'
  BY NextFits, StutterFits
<1> QED BY <1>1, <1>2, PTL DEF Spec

(* The MediaSynchroniser's counters, filters and clocks keep their types:
   no counter of watchers or uses goes below zero, and a clock that exists
   has a parent.                                                           *)
THEOREM TypeCorrect == Spec => []TypeOK
<1>1. IInv => TypeOK
  BY DEF IInv
<1> QED BY <1>1, Invariance, PTL

(* startTimelineMonitoring, stopTimelineMonitoring and addTimeline leave a
   timeline source exactly while the timeline has watchers that count, and
   m_ciiProps lists exactly those, in every order of starts, stops and
   announcements, until the object is deleted.                             *)
THEOREM SourcesAreWatched == Spec => []SourceIffWatched
<1>1. IInv => SourceIffWatched
  BY DEF IInv, StateFits, SourceFits, SourceIffWatched
<1> QED BY <1>1, Invariance, PTL

(* However the master's timeline goes (the page stops its period, a media
   object or a client takes the last watcher), removeTimeline leaves no clock
   on the one it destroys, and addTimeline puts every clock on the new
   master's: whenever m_masterTimeline is empty or names a timeline that has
   a source.  Between a start of the master's timeline and its first source,
   and while m_masterTimeline names one that was stopped before it ever had a
   source, nothing is claimed.                                             *)
THEOREM ParentsAreThere == Spec => []ParentsExist
<1>1. IInv => ParentsExist
  BY DEF IInv, ClocksFit, ParentsExist
<1> QED BY <1>1, Invariance, PTL

(* A TEMI filter is stopped only together with the entry that names it, so
   updateBroadcastContentStatus and stopTimelineMonitoring never use the id
   of a filter the platform has closed.                                    *)
THEOREM FiltersRun == Spec => []FilterOfEntryRuns
<1>1. IInv => FilterOfEntryRuns
  BY DEF IInv, StateFits, FilterFits, FilterOfEntryRuns
<1> QED BY <1>1, Invariance, PTL

(* Every companion screen was last sent the control timestamp that holds, or
   a thread is still to read it for the screen: the availability, the sources,
   the content id and the screen's own wish are each changed before the update
   that reads them begins, although setTimelineAvailability and the looper's
   callbacks hold no mutex from the one to the other.  A screen for which two
   threads were in updateClient at once may have been told either.         *)
THEOREM ClientsAreTold == Spec => []TsClientsUpToDate
<1>1. IInv => TsClientsUpToDate
  <2> SUFFICES ASSUME IInv, NEW c \in Clients, m.setup[c] # None
               PROVE  told[c] \in {ControlTimestamp(m, c), "either"} \/ Due(c)
    BY DEF TsClientsUpToDate
  <2>1. Fresh(c) => Due(c)
    BY DEF Fresh, Due, Moving
  <2>2. (\E t \in Threads : update[t].at = c) => Due(c)
    BY KindAssumption DEF IInv, UpdateFits, Due
  <2> QED BY <2>1, <2>2 DEF IInv, ToldFits
<1> QED BY <1>1, Invariance, PTL

(* The timeline a companion screen named keeps a watcher until the
   application stops it for everybody: m_timelineSelectors counts at least
   the screens that name it, and the service's own start is only undone
   when that count is back at zero, though the looper counts, starts and
   stops in steps of its own.                                              *)
THEOREM NamedTimelinesWatched == Spec => []SelectorWatched
<1>1. IInv => SelectorWatched
  <2> SUFFICES ASSUME IInv, NEW c \in Clients \ {looper.client}, NEW s, s = m.setup[c],
                      s # None, ~m.deleted, Kind[s] # "invalid", s \notin abandoned
               PROVE  /\ m.uses[s] >= Cardinality(Named(m, looper, s))
                      /\ At(m, s).num + At(m, s).pending > 0
    BY DEF SelectorWatched, Named
  <2>1. s \in Selectors
    BY DEF IInv, TypeOK, MediaSync
  <2>2. /\ m.uses[s] \in Nat
        /\ m.uses[s] >= Cardinality(Named(m, looper, s)) + Counted(looper, s)
    BY <2>1, UsesType
  <2>3. /\ Cardinality(Named(m, looper, s)) \in Nat /\ Counted(looper, s) \in {0, 1}
        /\ Cardinality(Named(m, looper, s)) # 0
    <3>1. c \in Named(m, looper, s)
      BY DEF Named
    <3> QED BY <3>1, NamedTypes, FS_EmptySet
  <2>4. m.uses[s] > 0 /\ m.uses[s] >= Cardinality(Named(m, looper, s))
    BY <2>2, <2>3
  <2>5. Service(m, looper, s) = 1
    BY <2>4 DEF Service, Used
  <2>6. Sum(m, s) > 0
    BY <2>1, <2>5, WatcherTypes
  <2> QED BY <2>4, <2>6 DEF Sum
<1> QED BY <1>1, Invariance, PTL
=============================================================================
