--------------------------------- MODULE Ait ---------------------------------
(***************************************************************************)
(* The Application Information Table as the application manager reads it   *)
(* (components/application_manager/ait.cpp).  A table is a sequence of     *)
(* application descriptors in signalling order; the position in the        *)
(* sequence plays the part of the S_AIT_APP_DESC pointer the C++ functions *)
(* return, and 0 the part of nullptr.                                      *)
(*                                                                         *)
(* A descriptor keeps what the control flow looks at: the pair (orgId,     *)
(* appId) is one number `key' which is 0 when either id is 0; the profile  *)
(* and the version comparison are the Boolean `supported'; the parental    *)
(* ratings are the Boolean `rated' (some rating is given and none of them  *)
(* admits the age set on the device); a URL is its origin.                 *)
(***************************************************************************)
EXTENDS Naturals, Sequences

CONSTANTS Origins,  \* origins of the pages a browser may show
          Keys      \* application keys, without 0

ASSUME KeysAssumption == Keys \subseteq Nat \ {0}

AIT_PROTOCOL_OBJECT_CAROUSEL == 1
AIT_PROTOCOL_HTTP == 3
(* 0 is an application without a usable transport; 2 stands for every      *)
(* signalled protocol the terminal does not implement.                     *)
Protocols == {0, AIT_PROTOCOL_OBJECT_CAROUSEL, 2, AIT_PROTOCOL_HTTP}

(* "DISABLED" stands for every control code the terminal treats alike.     *)
ControlCodes == {"AUTOSTART", "PRESENT", "KILL", "DISABLED"}

Transport == [protocolId : Protocols \ {0}, failedToLoad : BOOLEAN]

AppDesc ==
    [key : Keys \cup {0}, controlCode : ControlCodes,
     transports : Seq(Transport), origin : Origins,
     boundaries : SUBSET Origins, priority : Nat, supported : BOOLEAN,
     rated : BOOLEAN, serviceBound : BOOLEAN, teletext : BOOLEAN,
     opApp : BOOLEAN, lloc : BOOLEAN]

Table == Seq(AppDesc)
-----------------------------------------------------------------------------
(* The first of a set of positions, as a set with at most one element.     *)
First(I) == {i \in I : \A j \in I : i <= j}

(* The element of a set with at most one element, 0 (nullptr) if empty.    *)
PointerTo(I) == IF I = {} THEN 0 ELSE CHOOSE i \in I : TRUE

FindApp(t, key) == PointerTo(First({i \in DOMAIN t : t[i].key = key}))

TeletextApp(t) == PointerTo(First({i \in DOMAIN t : t[i].teletext}))

(* IsAgeRestricted: with no parental control every age is admitted.        *)
IsAgeRestricted(d, parentalControl) == d.rated /\ parentalControl

HasViableTransport(d) ==
    \E j \in DOMAIN d.transports :
        /\ d.transports[j].protocolId \in {AIT_PROTOCOL_HTTP,
                                            AIT_PROTOCOL_OBJECT_CAROUSEL}
        /\ ~d.transports[j].failedToLoad

AutoStartCandidate(d, parentalControl) ==
    /\ d.controlCode = "AUTOSTART"
    /\ d.supported
    /\ ~IsAgeRestricted(d, parentalControl)
    /\ HasViableTransport(d)

(* The candidate AutoStartApp returns: the highest priority wins and, of   *)
(* equal priorities, the one signalled first.                              *)
AutoStartApp(t, parentalControl) ==
    LET C == {i \in DOMAIN t : AutoStartCandidate(t[i], parentalControl)}
    IN  PointerTo({i \in C : \A j \in C :
                      \/ t[j].priority < t[i].priority
                      \/ t[j].priority = t[i].priority /\ i <= j})

(* Mutant: a failed transport is tried again.                              *)
UsableAgain(transport, isNetworkAvailable) ==
    \/ transport.protocolId = AIT_PROTOCOL_HTTP /\ isNetworkAvailable
    \/ transport.protocolId = AIT_PROTOCOL_OBJECT_CAROUSEL

(* A transport the terminal can use now: HTTP needs the network.           *)
Usable(transport, isNetworkAvailable) ==
    /\ ~transport.failedToLoad
    /\ \/ transport.protocolId = AIT_PROTOCOL_HTTP /\ isNetworkAvailable
       \/ transport.protocolId = AIT_PROTOCOL_OBJECT_CAROUSEL

ExtractProtocolId(d, isNetworkAvailable) ==
    LET i == PointerTo(First({j \in DOMAIN d.transports :
                                 Usable(d.transports[j], isNetworkAvailable)}))
    IN  IF i = 0 THEN 0 ELSE d.transports[i].protocolId

(* The origin of ExtractBaseURL: the signalled base URL over HTTP, a dvb:  *)
(* URL over the carousel, and the empty URL when no transport is usable.   *)
ExtractBaseURL(d, isNetworkAvailable) ==
    LET p == ExtractProtocolId(d, isNetworkAvailable)
    IN  IF p = AIT_PROTOCOL_HTTP THEN d.origin
        ELSE IF p = AIT_PROTOCOL_OBJECT_CAROUSEL THEN "dvb:" ELSE "empty"

AppHasTransport(d, protocolId) ==
    \E i \in DOMAIN d.transports : d.transports[i].protocolId = protocolId

MarkFailed(transport, protocolId) ==
    [transport EXCEPT !.failedToLoad = @ \/ transport.protocolId = protocolId]

(* The table after AppSetTransportFailedToLoad on its i-th descriptor.     *)
AppSetTransportFailedToLoad(t, i, protocolId) ==
    [t EXCEPT ![i].transports =
        [j \in DOMAIN t[i].transports |->
            MarkFailed(t[i].transports[j], protocolId)]]
=============================================================================
