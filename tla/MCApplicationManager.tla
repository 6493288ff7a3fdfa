------------------------ MODULE MCApplicationManager ------------------------
(***************************************************************************)
(* Small instances of ApplicationManager for TLC: two services,            *)
(* two applications, tables chosen so that a channel change meets the same *)
(* application again, gone, killed, with another transport, service-bound. *)
(***************************************************************************)
EXTENDS ApplicationManager

Over(protocols) ==
    [i \in DOMAIN protocols |->
        [protocolId |-> protocols[i], failedToLoad |-> FALSE]]

Http == AIT_PROTOCOL_HTTP
Carousel == AIT_PROTOCOL_OBJECT_CAROUSEL

Desc(key, code, protocols, priority) ==
    [BlankDesc(key, "o1") EXCEPT !.controlCode = code,
        !.transports = Over(protocols), !.priority = priority,
        !.supported = TRUE]

App1 == Desc(1, "AUTOSTART", <<Http, Carousel>>, 1)
App1Http ==
    [Desc(1, "PRESENT", <<Http>>, 1) EXCEPT !.serviceBound = TRUE,
        !.boundaries = {"o2"}]
App1Kill == Desc(1, "KILL", <<Http, Carousel>>, 1)
App2 == [Desc(2, "AUTOSTART", <<Carousel>>, 2) EXCEPT !.rated = TRUE]
App2Text == [Desc(2, "PRESENT", <<Carousel>>, 0) EXCEPT !.teletext = TRUE]
OpApp2 == [Desc(2, "AUTOSTART", <<Http>>, 1) EXCEPT !.opApp = TRUE]
Page1 == Desc(1, "AUTOSTART", <<Http>>, 1)

(* Tables of services s1 and s2.                                           *)
AitsCore == [s \in {"s1", "s2"} |->
                IF s = "s1" THEN {<<App1, App2Text>>, <<App1, App2>>}
                ELSE {<<App1Http>>, <<App2, App1Kill>>}]
AitsOne == [s \in {"s1"} |-> {<<App1>>, << >>}]
Ids1 == [s \in {"s1"} |-> 1]
NoXml == {}
XmlBoth == {<<Page1>>, <<OpApp2>>}
Ids2 == [s \in {"s1", "s2"} |-> IF s = "s1" THEN 1 ELSE 2]
NoInstances == {}
=============================================================================
