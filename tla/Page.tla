--------------------------------- MODULE Page ---------------------------------
(***************************************************************************)
(* The connections of the session page (web/static/js/session.js): the     *)
(* input socket that reconnects, the WebRTC connection with its picture    *)
(* and sound, and the PCM sound for the noVNC mode. The page is one        *)
(* thread: handlers run one at a time, but what they await - answers,      *)
(* timers, play() - comes back in any order, perhaps after the user        *)
(* switched. One page, from its init until it is closed.                   *)
(*                                                                         *)
(* The page's data is a record; its functions map it to the next one, so   *)
(* that a function that calls others is their composition.                 *)
(***************************************************************************)
EXTENDS Naturals, FiniteSets

CONSTANTS
    Peers,       \* RTCPeerConnections; each call of startWebRTC makes one
    MaxClicks,   \* bound: clicks on the two buttons
    MaxFaults,   \* bound: connections and calls that fail by themselves
    None

ASSUME PageAssumption == MaxClicks \in Nat /\ MaxFaults \in Nat /\ None \notin Peers

VARIABLES
    page,      \* the data of sessionPageData that its connections depend on
    link,      \* each peer connection, as the browser has it
    calls,     \* started and not yet returned: startWebRTC by peer
    plays,     \* video.play() that has not settled: of a peer's track, or None
               \* for enableWebRTCAudio
    late,      \* peers whose 1500 ms timer after "disconnected" is set
    checks,    \* calls of checkSessionBeforeReconnect that await an answer
    exists,    \* the instance still exists
    clicks, faults

vars == <<page, link, calls, plays, late, checks, exists, clicks, faults>>

Pages ==
    [webrtcStatus : {"connecting", "connected", "fallback", "error"},
     peerConnection : Peers \cup {None},
     shown : Peers \cup {None},                       \* video.srcObject
     muted : BOOLEAN,                                 \* video.muted
     audioEnabled : BOOLEAN,
     audioStatus : {"pending", "connecting", "connected", "error"},
     audioSocket : {"none", "connecting", "open"},
     inputSocket : {"none", "connecting", "open"},
     inputStatus : {"connecting", "connected", "error", "closed"},
     inputReconnectTimer : BOOLEAN,
     sessionGone : BOOLEAN]

Links == {"none", "new", "answered", "connected", "disconnected", "closed"}

TypeOK ==
    /\ page \in Pages
    /\ link \in [Peers -> Links]
    /\ calls \subseteq Peers
    /\ plays \subseteq Peers \cup {None}
    /\ late \subseteq Peers
    /\ checks \in 0..1
    /\ exists \in BOOLEAN
    /\ clicks \in 0..MaxClicks
    /\ faults \in 0..MaxFaults

Click == clicks < MaxClicks /\ clicks' = clicks + 1
Fault == faults < MaxFaults /\ faults' = faults + 1

\* A connection fails by itself or because the instance is gone.
Breaks == IF exists THEN Fault ELSE UNCHANGED faults

----------------------------------------------------------------------------
(* The functions of the page.                                              *)

StopAudio(s) == [s EXCEPT !.audioSocket = "none", !.audioStatus = "pending"]

StartAudio(s) ==
    [s EXCEPT !.audioEnabled = TRUE, !.audioSocket = "connecting",
              !.audioStatus = "connecting"]

\* The peer connection it closes is closed by Close below.
StopWebRTC(s, next) ==
    LET stopped == [s EXCEPT !.peerConnection = None, !.shown = None,
                             !.muted = TRUE, !.webrtcStatus = next]
    IN IF /\ next = "fallback" /\ ~s.sessionGone
          /\ s.audioEnabled /\ s.audioSocket = "none"
       THEN StartAudio(stopped) ELSE stopped

Close(p) == [x \in Peers |-> IF x = p THEN "closed" ELSE link[x]]

Streaming(s) == s.webrtcStatus \in {"connected", "connecting"}

StopInput(s) ==
    [s EXCEPT !.inputReconnectTimer = FALSE, !.inputSocket = "none",
              !.inputStatus = "closed"]

HandleSessionGone(s) ==
    StopAudio(StopWebRTC(StopInput([s EXCEPT !.sessionGone = TRUE]), "fallback"))

\* (Seeded fault: once gone is not looked at, an answer in flight reconnects.)
ScheduleAnyway(s) ==
    IF s.inputReconnectTimer THEN s ELSE [s EXCEPT !.inputReconnectTimer = TRUE]

\* (Seeded fault: the delay is computed and no timer set.)
ScheduleNothing(s) == s

ScheduleInputReconnect(s) ==
    IF s.sessionGone \/ s.inputReconnectTimer THEN s
    ELSE [s EXCEPT !.inputReconnectTimer = TRUE]

StartInput(s) ==
    IF s.inputSocket # "none" THEN s
    ELSE [s EXCEPT !.inputSocket = "connecting", !.inputStatus = "connecting"]

\* Set the page to s and close what it no longer refers to.
Become(s) ==
    /\ page' = s
    /\ link' = IF s.peerConnection = page.peerConnection THEN link
               ELSE Close(page.peerConnection)

----------------------------------------------------------------------------
(* Input.                                                                  *)

Rest == UNCHANGED <<calls, plays, late>>

InputOpens ==
    /\ page.inputSocket = "connecting" /\ exists
    /\ Become([page EXCEPT !.inputSocket = "open", !.inputStatus = "connected"])
    /\ Rest /\ UNCHANGED <<checks, exists, clicks, faults>>

\* (Seeded fault: onerror asks on its own, before onclose does.)
InputClosesTwice ==
    /\ page.inputSocket # "none"
    /\ Breaks
    /\ Become([page EXCEPT !.inputSocket = "none", !.inputStatus = "error"])
    /\ checks' = checks + 2
    /\ Rest /\ UNCHANGED <<exists, clicks>>

\* onclose of the current socket, checkSessionBeforeReconnect included.
InputCloses ==
    /\ page.inputSocket # "none"
    /\ Breaks
    /\ LET closed == [page EXCEPT !.inputSocket = "none", !.inputStatus = "error"] IN
       Become(IF Streaming(page) THEN StopWebRTC(closed, "fallback") ELSE closed)
    /\ checks' = IF page.sessionGone \/ page.inputReconnectTimer THEN checks ELSE checks + 1
    /\ Rest /\ UNCHANGED <<exists, clicks>>

\* The session is not found, it is found, or the call fails.
CheckReturns ==
    /\ checks > 0
    /\ checks' = checks - 1
    /\ \/ ~exists /\ ~page.sessionGone
          /\ Become(HandleSessionGone(page)) /\ UNCHANGED faults
       \/ exists /\ Become(ScheduleInputReconnect(page)) /\ UNCHANGED faults
       \/ Fault /\ Become(ScheduleInputReconnect(page))
       \/ page.sessionGone /\ UNCHANGED <<page, link, faults>>
    /\ Rest /\ UNCHANGED <<exists, clicks>>

ReconnectTimer ==
    /\ page.inputReconnectTimer
    /\ Become(StartInput([page EXCEPT !.inputReconnectTimer = FALSE]))
    /\ Rest /\ UNCHANGED <<checks, exists, clicks, faults>>

\* sessionErrorHandler: another request of the page was answered 404.
NotFound ==
    /\ ~exists /\ ~page.sessionGone
    /\ Become(HandleSessionGone(page))
    /\ Rest /\ UNCHANGED <<checks, exists, clicks, faults>>

----------------------------------------------------------------------------
(* WebRTC.                                                                 *)

\* startWebRTC up to its first await. A peer that was not used yet is made.
StartWebRTC ==
    \E p \in Peers :
        /\ link[p] = "none"
        /\ LET s == StopWebRTC(StopAudio(page), "connecting") IN
           page' = [s EXCEPT !.peerConnection = p]
        /\ link' = [Close(page.peerConnection) EXCEPT ![p] = "new"]
        /\ calls' = calls \cup {p}

ToggleWebRTC ==
    /\ Click
    /\ IF Streaming(page)
       THEN Become(StopWebRTC(page, "fallback")) /\ UNCHANGED calls
       ELSE StartWebRTC
    /\ UNCHANGED <<plays, late, checks, exists, faults>>

\* The offer is answered; an answer for a replaced connection is dropped.
OfferAnswered(p) ==
    /\ p \in calls /\ exists
    /\ calls' = calls \ {p}
    /\ link' = [link EXCEPT ![p] = IF page.peerConnection = p THEN "answered"
                                   ELSE "closed"]
    /\ UNCHANGED <<page, plays, late, checks, exists, clicks, faults>>

OfferFails(p) ==
    /\ p \in calls
    /\ calls' = calls \ {p}
    /\ Breaks
    /\ IF page.peerConnection = p THEN Become(StopWebRTC(page, "error"))
       ELSE link' = Close(p) /\ UNCHANGED page
    /\ UNCHANGED <<plays, late, checks, exists, clicks>>

\* (Seeded fault: the track of a replaced connection is shown.)
TrackOfAnyPeer(p) ==
    /\ link[p] \notin {"none", "new"}
    /\ page.shown # p
    /\ page' = [page EXCEPT !.shown = p, !.muted = ~page.audioEnabled]
    /\ plays' = plays \cup {p}
    /\ UNCHANGED <<link, calls, late, checks, exists, clicks, faults>>

\* ontrack; that of a replaced connection returns at once.
Track(p) ==
    /\ link[p] \notin {"none", "new"}
    /\ page.peerConnection = p /\ page.shown # p
    /\ page' = [page EXCEPT !.shown = p, !.muted = ~page.audioEnabled]
    /\ plays' = plays \cup {p}
    /\ UNCHANGED <<link, calls, late, checks, exists, clicks, faults>>

\* The play() of ontrack, if it is still that connection's, or of
\* enableWebRTCAudio, whatever happened since.
PlaySettles(q) ==
    /\ q \in plays
    /\ plays' = plays \ {q}
    /\ IF q = None \/ (page.peerConnection = q /\ page.audioEnabled)
       THEN \/ page' = [page EXCEPT !.audioStatus = "connected"] /\ UNCHANGED faults
            \/ page' = [page EXCEPT !.audioStatus = "error", !.muted = TRUE] /\ Fault
       ELSE UNCHANGED <<page, faults>>
    /\ UNCHANGED <<link, calls, late, checks, exists, clicks>>

\* onconnectionstatechange
Connected(p) ==
    /\ link[p] \in {"answered", "disconnected"} /\ exists
    /\ link' = [link EXCEPT ![p] = "connected"]
    /\ page' = IF page.peerConnection = p THEN [page EXCEPT !.webrtcStatus = "connected"]
               ELSE page
    /\ UNCHANGED <<calls, plays, late, checks, exists, clicks, faults>>

Failed(p) ==
    /\ link[p] \in {"answered", "connected", "disconnected"}
    /\ page.peerConnection = p
    /\ Breaks
    /\ Become(StopWebRTC(page, "error"))
    /\ Rest /\ UNCHANGED <<checks, exists, clicks>>

Disconnected(p) ==
    /\ link[p] = "connected"
    /\ Breaks
    /\ link' = [link EXCEPT ![p] = "disconnected"]
    /\ late' = late \cup {p}
    /\ UNCHANGED <<page, calls, plays, checks, exists, clicks>>

StillDisconnected(p) ==
    /\ p \in late
    /\ late' = late \ {p}
    /\ IF page.peerConnection = p /\ link[p] = "disconnected"
       THEN Become(StopWebRTC(page, "error"))
       ELSE UNCHANGED <<page, link>>
    /\ UNCHANGED <<calls, plays, checks, exists, clicks, faults>>

----------------------------------------------------------------------------
(* Sound.                                                                  *)

EnableWebRTCAudio ==
    IF page.shown = None
    THEN page' = [page EXCEPT !.audioStatus = "error"] /\ UNCHANGED plays
    ELSE /\ page' = [StopAudio(page) EXCEPT !.audioEnabled = TRUE, !.muted = FALSE]
         /\ plays' = plays \cup {None}

ToggleAudio ==
    /\ Click
    /\ IF page.webrtcStatus = "connected"
       THEN IF page.audioEnabled /\ page.audioStatus = "connected"
            THEN \* disableWebRTCAudio
                 /\ page' = [page EXCEPT !.audioEnabled = FALSE, !.muted = TRUE,
                                         !.audioStatus = "pending"]
                 /\ UNCHANGED plays
            ELSE EnableWebRTCAudio
       ELSE /\ page' = IF page.audioEnabled /\ page.audioSocket # "none"
                       THEN [StopAudio(page) EXCEPT !.audioEnabled = FALSE]
                       ELSE StartAudio(page)
            /\ UNCHANGED plays
    /\ UNCHANGED <<link, calls, late, checks, exists, faults>>

AudioOpens ==
    /\ page.audioSocket = "connecting" /\ exists
    /\ page' = [page EXCEPT !.audioSocket = "open", !.audioStatus = "connected"]
    /\ UNCHANGED <<link, calls, plays, late, checks, exists, clicks, faults>>

\* onclose, after onerror or by itself.
AudioCloses ==
    /\ page.audioSocket # "none"
    /\ Breaks
    /\ \E status \in {"pending", "error"} :
       page' = [page EXCEPT !.audioSocket = "none", !.audioStatus = status]
    /\ UNCHANGED <<link, calls, plays, late, checks, exists, clicks>>

----------------------------------------------------------------------------
Delete ==
    /\ exists
    /\ exists' = FALSE
    /\ UNCHANGED <<page, link, calls, plays, late, checks, clicks, faults>>

\* init: startInput, then startWebRTC.
Init ==
    /\ \E p \in Peers :
          /\ page = [webrtcStatus |-> "connecting", peerConnection |-> p,
                     shown |-> None, muted |-> TRUE, audioEnabled |-> FALSE,
                     audioStatus |-> "pending", audioSocket |-> "none",
                     inputSocket |-> "connecting", inputStatus |-> "connecting",
                     inputReconnectTimer |-> FALSE, sessionGone |-> FALSE]
          /\ link = [x \in Peers |-> IF x = p THEN "new" ELSE "none"]
          /\ calls = {p}
    /\ plays = {} /\ late = {} /\ checks = 0
    /\ exists = TRUE
    /\ clicks = 0 /\ faults = 0

Input == InputOpens \/ InputCloses \/ CheckReturns \/ ReconnectTimer

Next ==
    \/ Input \/ NotFound
    \/ \E p \in Peers : \/ OfferAnswered(p) \/ OfferFails(p) \/ Track(p)
                        \/ Connected(p) \/ Failed(p)
                        \/ Disconnected(p) \/ StillDisconnected(p)
    \/ \E q \in Peers \cup {None} : PlaySettles(q)
    \/ ToggleWebRTC \/ ToggleAudio \/ AudioOpens \/ AudioCloses
    \/ Delete

Spec == Init /\ [][Next]_vars

\* Connections open or fail, calls return and timers fire.
FairSpec == Spec /\ WF_vars(Input)

----------------------------------------------------------------------------
(* Properties                                                              *)

\* Exactly one thing is on its way to the input connection - the socket, the
\* question whether the session exists, or the timer - until the session is
\* gone, and neither socket nor timer after that, though an answer may still
\* come: the page never gives up and never doubles.
InputKeepsTrying ==
    LET trying == (IF page.inputSocket # "none" THEN 1 ELSE 0)
                  + (IF page.inputReconnectTimer THEN 1 ELSE 0)
    IN IF page.sessionGone THEN trying = 0 ELSE trying + checks = 1

\* What is shown, and the status, are those of the current peer connection,
\* whichever answers and callbacks come late; every other one is closed.
PageShowsCurrentPeer ==
    /\ page.shown \in {None, page.peerConnection}
    /\ Streaming(page) <=> page.peerConnection # None
    /\ page.webrtcStatus = "connected" => link[page.peerConnection] \in {"connected", "disconnected"}
    /\ \A p \in Peers : link[p] \in {"none", "closed"} \/ page.peerConnection = p

\* The input comes back as often as it breaks, and a page whose instance was
\* deleted learns of it.
InputSettles == <>[](IF exists THEN page.inputStatus = "connected"
                               ELSE page.sessionGone)

\* "A PCM stream must never overlap the WebRTC audio track" (session.js:592).
SoundsNeverOverlap ==
    ~(page.audioSocket = "open" /\ page.shown # None /\ ~page.muted)
=============================================================================
