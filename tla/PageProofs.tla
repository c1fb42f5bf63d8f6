------------------------------ MODULE PageProofs ------------------------------
(* For any number of peer connections, clicks and faults: the input           *)
(* connection of the page is neither given up nor doubled, and what the page  *)
(* shows is the connection it has.                                            *)
(*                                                                            *)
(* The page's functions are described once (the first part), by which fields  *)
(* they set and which they leave. The steps then fall in three classes: those *)
(* that leave the peer connection alone (Keeps), those that hang up (HangsUp) *)
(* and those of the current connection itself.                                *)
EXTENDS Page, TLAPS

Live == {"new", "answered", "connected", "disconnected"}

\* The connection the page has is live; its offer is answered once.
ConnectionLives ==
    /\ page.peerConnection # None => link[page.peerConnection] \in Live
    /\ \A p \in calls : page.peerConnection = p => link[p] = "new"

Inductive == TypeOK /\ InputKeepsTrying /\ PageShowsCurrentPeer /\ ConnectionLives

-----------------------------------------------------------------------------
(* The functions of the page.                                                 *)

SameInput(s, t) ==
    /\ t.inputSocket = s.inputSocket /\ t.inputReconnectTimer = s.inputReconnectTimer
    /\ t.sessionGone = s.sessionGone

SamePeer(s, t) ==
    /\ t.peerConnection = s.peerConnection /\ t.shown = s.shown
    /\ t.webrtcStatus = s.webrtcStatus

HungUp(t) == t.peerConnection = None /\ t.shown = None /\ t.webrtcStatus \in {"fallback", "error"}

LEMMA StopAudioFields ==
    ASSUME NEW s \in Pages
    PROVE  StopAudio(s) \in Pages /\ SameInput(s, StopAudio(s)) /\ SamePeer(s, StopAudio(s))
BY DEF StopAudio, Pages, SameInput, SamePeer

LEMMA StartAudioFields ==
    ASSUME NEW s \in Pages
    PROVE  StartAudio(s) \in Pages /\ SameInput(s, StartAudio(s)) /\ SamePeer(s, StartAudio(s))
BY DEF StartAudio, Pages, SameInput, SamePeer

LEMMA StopWebRTCFields ==
    ASSUME NEW s \in Pages, NEW next \in {"connecting", "fallback", "error"}
    PROVE  LET t == StopWebRTC(s, next) IN
           /\ t \in Pages /\ SameInput(s, t)
           /\ t.peerConnection = None /\ t.shown = None /\ t.webrtcStatus = next
<1> DEFINE stopped == [s EXCEPT !.peerConnection = None, !.shown = None,
                                !.muted = TRUE, !.webrtcStatus = next]
<1>1. /\ stopped \in Pages /\ SameInput(s, stopped)
      /\ stopped.peerConnection = None /\ stopped.shown = None /\ stopped.webrtcStatus = next
  BY DEF Pages, SameInput
<1> HIDE DEF stopped
<1>2. /\ StartAudio(stopped) \in Pages /\ SameInput(stopped, StartAudio(stopped))
      /\ SamePeer(stopped, StartAudio(stopped))
  BY <1>1, StartAudioFields
<1>3. StopWebRTC(s, next) \in {stopped, StartAudio(stopped)}
  BY DEF StopWebRTC, stopped
<1> QED BY <1>1, <1>2, <1>3 DEF SameInput, SamePeer

LEMMA StopInputFields ==
    ASSUME NEW s \in Pages
    PROVE  LET t == StopInput(s) IN
           /\ t \in Pages /\ SamePeer(s, t)
           /\ t.inputSocket = "none" /\ ~t.inputReconnectTimer /\ t.sessionGone = s.sessionGone
BY DEF StopInput, Pages, SamePeer

LEMMA HandleSessionGoneFields ==
    ASSUME NEW s \in Pages
    PROVE  LET t == HandleSessionGone(s) IN
           /\ t \in Pages /\ HungUp(t)
           /\ t.inputSocket = "none" /\ ~t.inputReconnectTimer /\ t.sessionGone
<1> DEFINE a == [s EXCEPT !.sessionGone = TRUE]
           b == StopInput(a)
           c == StopWebRTC(b, "fallback")
<1>1. a \in Pages /\ a.sessionGone
  BY DEF Pages
<1> HIDE DEF a
<1>2. b \in Pages /\ b.inputSocket = "none" /\ ~b.inputReconnectTimer /\ b.sessionGone
  BY <1>1, StopInputFields
<1> HIDE DEF b
<1>3. /\ c \in Pages /\ SameInput(b, c)
      /\ c.peerConnection = None /\ c.shown = None /\ c.webrtcStatus = "fallback"
  BY <1>2, StopWebRTCFields
<1> HIDE DEF c
<1>4. StopAudio(c) \in Pages /\ SameInput(c, StopAudio(c)) /\ SamePeer(c, StopAudio(c))
  BY <1>3, StopAudioFields
<1>5. HandleSessionGone(s) = StopAudio(c)
  BY DEF HandleSessionGone, a, b, c
<1> QED BY <1>2, <1>3, <1>4, <1>5 DEF SameInput, SamePeer, HungUp

LEMMA ScheduleInputReconnectFields ==
    ASSUME NEW s \in Pages
    PROVE  LET t == ScheduleInputReconnect(s) IN
           /\ t \in Pages /\ SamePeer(s, t)
           /\ t.inputSocket = s.inputSocket /\ t.sessionGone = s.sessionGone
           /\ t.inputReconnectTimer <=> s.inputReconnectTimer \/ ~s.sessionGone
<1> DEFINE set == [s EXCEPT !.inputReconnectTimer = TRUE]
<1>1. /\ set \in Pages /\ SamePeer(s, set) /\ set.inputReconnectTimer
      /\ set.inputSocket = s.inputSocket /\ set.sessionGone = s.sessionGone
  BY DEF Pages, SamePeer
<1>2. SamePeer(s, s)
  BY DEF SamePeer
<1> HIDE DEF set
<1>3. CASE s.sessionGone \/ s.inputReconnectTimer
  <2>1. ScheduleInputReconnect(s) = s
    BY <1>3 DEF ScheduleInputReconnect
  <2> QED BY <1>2, <1>3, <2>1
<1>4. CASE ~(s.sessionGone \/ s.inputReconnectTimer)
  <2>1. ScheduleInputReconnect(s) = set
    BY <1>4 DEF ScheduleInputReconnect, set
  <2> QED BY <1>1, <1>4, <2>1
<1> QED BY <1>3, <1>4

LEMMA StartInputFields ==
    ASSUME NEW s \in Pages
    PROVE  LET t == StartInput(s) IN
           /\ t \in Pages /\ SamePeer(s, t)
           /\ t.inputSocket # "none" /\ t.sessionGone = s.sessionGone
           /\ t.inputReconnectTimer = s.inputReconnectTimer
<1> DEFINE started == [s EXCEPT !.inputSocket = "connecting", !.inputStatus = "connecting"]
<1>1. /\ started \in Pages /\ SamePeer(s, started) /\ started.inputSocket # "none"
      /\ started.sessionGone = s.sessionGone
      /\ started.inputReconnectTimer = s.inputReconnectTimer
  BY DEF Pages, SamePeer
<1>2. SamePeer(s, s)
  BY DEF SamePeer
<1>3. StartInput(s) = IF s.inputSocket # "none" THEN s ELSE started
  BY DEF StartInput
<1> QED BY <1>1, <1>2, <1>3

-----------------------------------------------------------------------------
(* The peer connection.                                                       *)

Peered == PageShowsCurrentPeer /\ ConnectionLives

LEMMA CloseLinks ==
    ASSUME TypeOK, NEW p
    PROVE  /\ Close(p) \in [Peers -> Links]
           /\ \A x \in Peers : Close(p)[x] = IF x = p THEN "closed" ELSE link[x]
BY DEF Close, TypeOK, Links

LEMMA KeepsPeered ==
    ASSUME TypeOK, Peered, SamePeer(page, page'), link' = link, calls' \subseteq calls
    PROVE  Peered'
BY DEF Peered, PageShowsCurrentPeer, ConnectionLives, SamePeer, Streaming

LEMMA HangsUpPeered ==
    ASSUME TypeOK, Peered, HungUp(page'), Become(page'), calls' \subseteq Peers
    PROVE  Peered' /\ link' \in [Peers -> Links]
<1>1. link' \in [Peers -> Links]
  BY CloseLinks DEF Become, TypeOK
<1>2. \A p \in Peers : link'[p] \in {"none", "closed"}
  BY CloseLinks, PageAssumption DEF Become, HungUp, Peered, PageShowsCurrentPeer, TypeOK
<1>3. page'.peerConnection = None /\ page'.shown = None /\ ~Streaming(page)'
  BY DEF HungUp, Streaming
<1>4. PageShowsCurrentPeer'
  BY <1>2, <1>3 DEF PageShowsCurrentPeer, Streaming
<1>5. ASSUME calls' \subseteq Peers PROVE ConnectionLives'
  BY <1>3, <1>5, PageAssumption DEF ConnectionLives
<1> QED BY <1>1, <1>4, <1>5 DEF Peered

-----------------------------------------------------------------------------
(* Steps that do not touch the connection to the input service.              *)

LEMMA SameTrying ==
    ASSUME InputKeepsTrying, SameInput(page, page'), checks' = checks
    PROVE  InputKeepsTrying'
BY DEF InputKeepsTrying, SameInput

LEMMA BreaksType ==
    ASSUME TypeOK, Breaks \/ Fault
    PROVE  faults' \in 0..MaxFaults
BY PageAssumption DEF TypeOK, Breaks, Fault

LEMMA ClickType ==
    ASSUME TypeOK, Click
    PROVE  clicks' \in 0..MaxClicks
BY PageAssumption DEF TypeOK, Click

LEMMA NothingOpen ==
    ASSUME TypeOK, InputKeepsTrying
    PROVE  /\ ~page.sessionGone => checks \in {0, 1}
           /\ page.sessionGone => page.inputSocket = "none" /\ ~page.inputReconnectTimer
           /\ page.inputSocket # "none" \/ page.inputReconnectTimer => checks = 0
           /\ page.inputSocket = "none" \/ ~page.inputReconnectTimer
           /\ checks > 0 => page.inputSocket = "none" /\ ~page.inputReconnectTimer
BY DEF TypeOK, InputKeepsTrying

-----------------------------------------------------------------------------
(* The steps of the input connection.                                        *)

LEMMA InputOpensKeeps ==
    ASSUME Inductive, InputOpens
    PROVE  Inductive'
<1> USE DEF Rest
<1>1. TypeOK /\ Peered /\ InputKeepsTrying
  BY DEF Inductive, Peered
<1>2. /\ page' \in Pages /\ SamePeer(page, page')
      /\ page'.inputSocket # "none" /\ page.inputSocket # "none"
      /\ page'.inputReconnectTimer = page.inputReconnectTimer
      /\ page'.sessionGone = page.sessionGone
  BY <1>1 DEF InputOpens, Become, TypeOK, Pages, SamePeer
<1>3. link' = link
  BY <1>2 DEF InputOpens, Become, SamePeer
<1>4. UNCHANGED <<calls, plays, late, checks, exists, clicks, faults>>
  BY DEF InputOpens
<1>5. TypeOK'
  BY <1>1, <1>2, <1>3, <1>4 DEF TypeOK
<1>6. InputKeepsTrying'
  BY <1>1, <1>2, <1>4 DEF InputKeepsTrying
<1>7. Peered'
  BY <1>1, <1>2, <1>3, <1>4, KeepsPeered
<1> QED BY <1>5, <1>6, <1>7 DEF Inductive, Peered

LEMMA InputClosesKeeps ==
    ASSUME Inductive, InputCloses
    PROVE  Inductive'
<1> DEFINE closed == [page EXCEPT !.inputSocket = "none", !.inputStatus = "error"]
<1>1. TypeOK /\ Peered /\ InputKeepsTrying /\ page.inputSocket # "none"
  BY DEF Inductive, Peered, InputCloses
<1>2. ~page.sessionGone /\ ~page.inputReconnectTimer /\ checks = 0
  BY <1>1, NothingOpen
<1>3. checks' = 1 /\ UNCHANGED <<calls, plays, late, exists, clicks>>
  BY <1>2 DEF InputCloses, Rest
<1>4. faults' \in 0..MaxFaults
  BY <1>1, BreaksType DEF InputCloses
<1>5. /\ closed \in Pages /\ SamePeer(page, closed) /\ closed.inputSocket = "none"
      /\ closed.inputReconnectTimer = page.inputReconnectTimer
      /\ closed.sessionGone = page.sessionGone
  BY <1>1 DEF TypeOK, Pages, SamePeer
<1>6. Become(IF Streaming(page) THEN StopWebRTC(closed, "fallback") ELSE closed)
  BY DEF InputCloses
<1> HIDE DEF closed
<1>7. CASE Streaming(page)
  <2>1. page' = StopWebRTC(closed, "fallback") /\ Become(page')
    BY <1>6, <1>7 DEF Become
  <2>2. page' \in Pages /\ HungUp(page') /\ SameInput(closed, page')
    BY <1>5, <2>1, StopWebRTCFields DEF HungUp
  <2>3. Peered' /\ link' \in [Peers -> Links]
    BY <1>1, <1>3, <2>1, <2>2, HangsUpPeered DEF TypeOK
  <2>4. InputKeepsTrying'
    BY <1>2, <1>3, <1>5, <2>2 DEF InputKeepsTrying, SameInput
  <2>5. TypeOK'
    BY <1>1, <1>3, <1>4, <2>2, <2>3 DEF TypeOK
  <2> QED BY <2>3, <2>4, <2>5 DEF Inductive, Peered
<1>8. CASE ~Streaming(page)
  <2>1. page' = closed /\ link' = link
    BY <1>5, <1>6, <1>8 DEF Become, SamePeer
  <2>2. Peered'
    BY <1>1, <1>3, <1>5, <2>1, KeepsPeered
  <2>3. InputKeepsTrying'
    BY <1>2, <1>3, <1>5, <2>1 DEF InputKeepsTrying
  <2>4. TypeOK'
    BY <1>1, <1>3, <1>4, <1>5, <2>1 DEF TypeOK
  <2> QED BY <2>2, <2>3, <2>4 DEF Inductive, Peered
<1> QED BY <1>7, <1>8

\* The session is gone: the same for an answer and for another request's 404.
LEMMA GoneKeeps ==
    ASSUME Inductive, Become(HandleSessionGone(page)), checks' \in 0..1,
           UNCHANGED <<calls, plays, late, exists, clicks, faults>>
    PROVE  Inductive'
<1>1. TypeOK /\ Peered
  BY DEF Inductive, Peered
<1>2. page' = HandleSessionGone(page) /\ Become(page')
  BY DEF Become
<1>3. /\ page' \in Pages /\ HungUp(page')
      /\ page'.inputSocket = "none" /\ ~page'.inputReconnectTimer /\ page'.sessionGone
  BY <1>1, <1>2, HandleSessionGoneFields DEF TypeOK
<1>4. Peered' /\ link' \in [Peers -> Links]
  BY <1>1, <1>2, <1>3, HangsUpPeered DEF TypeOK
<1>5. InputKeepsTrying'
  BY <1>3 DEF InputKeepsTrying
<1>6. TypeOK'
  BY <1>1, <1>3, <1>4 DEF TypeOK
<1> QED BY <1>4, <1>5, <1>6 DEF Inductive, Peered

LEMMA CheckReturnsKeeps ==
    ASSUME Inductive, CheckReturns
    PROVE  Inductive'
<1>1. TypeOK /\ Peered /\ InputKeepsTrying /\ checks > 0
  BY DEF Inductive, Peered, CheckReturns
<1>2. checks = 1 /\ checks' = 0 /\ UNCHANGED <<calls, plays, late, exists, clicks>>
  BY <1>1 DEF CheckReturns, TypeOK, Rest
<1>3. page.inputSocket = "none" /\ ~page.inputReconnectTimer
  BY <1>1, NothingOpen
<1>4. CASE Become(HandleSessionGone(page)) /\ UNCHANGED faults
  BY <1>2, <1>4, GoneKeeps
<1>5. CASE Become(ScheduleInputReconnect(page)) /\ (UNCHANGED faults \/ Fault)
  <2>1. /\ page' \in Pages /\ SamePeer(page, page')
        /\ page'.inputSocket = "none" /\ page'.sessionGone = page.sessionGone
        /\ page'.inputReconnectTimer <=> ~page.sessionGone
    BY <1>1, <1>3, <1>5, ScheduleInputReconnectFields DEF Become, TypeOK
  <2>2. link' = link
    BY <1>5, <2>1 DEF Become, SamePeer
  <2>3. Peered'
    BY <1>1, <1>2, <2>1, <2>2, KeepsPeered
  <2>4. InputKeepsTrying'
    BY <1>2, <2>1 DEF InputKeepsTrying
  <2>5. faults' \in 0..MaxFaults
    BY <1>1, <1>5, BreaksType DEF TypeOK
  <2>6. TypeOK'
    BY <1>1, <1>2, <2>1, <2>2, <2>5 DEF TypeOK
  <2> QED BY <2>3, <2>4, <2>6 DEF Inductive, Peered
<1>6. CASE page.sessionGone /\ UNCHANGED <<page, link, faults>>
  <2>1. TypeOK' /\ InputKeepsTrying'
    BY <1>1, <1>2, <1>6 DEF TypeOK, InputKeepsTrying
  <2>2. SamePeer(page, page')
    BY <1>6 DEF SamePeer
  <2>3. Peered'
    BY <1>1, <1>2, <1>6, <2>2, KeepsPeered
  <2> QED BY <2>1, <2>3 DEF Inductive, Peered
<1> QED BY <1>4, <1>5, <1>6 DEF CheckReturns

LEMMA ReconnectTimerKeeps ==
    ASSUME Inductive, ReconnectTimer
    PROVE  Inductive'
<1> DEFINE fired == [page EXCEPT !.inputReconnectTimer = FALSE]
<1>1. TypeOK /\ Peered /\ InputKeepsTrying /\ page.inputReconnectTimer
  BY DEF Inductive, Peered, ReconnectTimer
<1>2. page.inputSocket = "none" /\ ~page.sessionGone /\ checks = 0
  BY <1>1, NothingOpen
<1>3. UNCHANGED <<calls, plays, late, checks, exists, clicks, faults>> /\ Become(StartInput(fired))
  BY DEF ReconnectTimer, Rest
<1>4. /\ fired \in Pages /\ SamePeer(page, fired) /\ ~fired.inputReconnectTimer
      /\ fired.sessionGone = page.sessionGone
  BY <1>1 DEF TypeOK, Pages, SamePeer
<1> HIDE DEF fired
<1>5. /\ page' \in Pages /\ SamePeer(page, page')
      /\ page'.inputSocket # "none" /\ ~page'.inputReconnectTimer /\ ~page'.sessionGone
  BY <1>2, <1>3, <1>4, StartInputFields DEF Become, SamePeer
<1>6. link' = link
  BY <1>3, <1>5 DEF Become, SamePeer
<1>7. Peered'
  BY <1>1, <1>3, <1>5, <1>6, KeepsPeered
<1>8. InputKeepsTrying'
  BY <1>2, <1>3, <1>5 DEF InputKeepsTrying
<1>9. TypeOK'
  BY <1>1, <1>3, <1>5, <1>6 DEF TypeOK
<1> QED BY <1>7, <1>8, <1>9 DEF Inductive, Peered

LEMMA NotFoundKeeps ==
    ASSUME Inductive, NotFound
    PROVE  Inductive'
<1>1. checks \in 0..1
  BY DEF Inductive, TypeOK
<1> QED BY <1>1, GoneKeeps DEF NotFound, Rest

-----------------------------------------------------------------------------
(* The steps of a peer connection.                                            *)

\* What these steps leave to show: the socket, timer and question of the input
\* connection are not theirs.
LEMMA PeerStep ==
    ASSUME Inductive, SameInput(page, page'), checks' = checks, Peered',
           page' \in Pages, link' \in [Peers -> Links], calls' \subseteq Peers,
           plays' \subseteq Peers \cup {None}, late' \subseteq Peers, exists' \in BOOLEAN,
           clicks' \in 0..MaxClicks, faults' \in 0..MaxFaults
    PROVE  Inductive'
<1>1. TypeOK'
  BY DEF Inductive, TypeOK
<1> QED BY <1>1, SameTrying DEF Inductive, Peered

\* A peer that is not the page's is closed or unused, so that its callbacks
\* concern the current one if they change anything.
LEMMA OfferAnsweredKeeps ==
    ASSUME Inductive, NEW p \in Peers, OfferAnswered(p)
    PROVE  Inductive'
<1> USE DEF OfferAnswered
<1>1. TypeOK /\ Peered
  BY DEF Inductive, Peered
<1>2. link' \in [Peers -> Links]
  BY <1>1 DEF TypeOK, Links
<1>3. SameInput(page, page') /\ page'.peerConnection = page.peerConnection
  BY DEF SameInput
<1>4. CASE page.peerConnection = p
  <2>1. link[p] = "new" /\ link'[p] = "answered" /\ \A x \in Peers \ {p} : link'[x] = link[x]
    BY <1>1, <1>4 DEF Peered, ConnectionLives, TypeOK
  <2>2. page.webrtcStatus # "connected"
    BY <1>1, <1>4, <2>1 DEF Peered, PageShowsCurrentPeer
  <2>3. Peered'
    BY <1>1, <1>4, <2>1, <2>2 DEF Peered, PageShowsCurrentPeer, ConnectionLives, Streaming, Live
  <2> QED BY <1>1, <1>2, <1>3, <2>3, PeerStep DEF TypeOK
<1>5. CASE page.peerConnection # p
  <2>1. link'[p] = "closed" /\ \A x \in Peers \ {p} : link'[x] = link[x]
    BY <1>1, <1>5 DEF TypeOK
  <2>2. page.peerConnection \in (Peers \ {p}) \cup {None}
    BY <1>1, <1>5 DEF TypeOK, Pages
  <2>3. page.webrtcStatus = "connected" => page.peerConnection \in Peers \ {p}
    BY <1>1, <2>2 DEF Peered, PageShowsCurrentPeer, Streaming
  <2>4. Peered'
    BY <1>1, <1>5, <2>1, <2>2, <2>3 DEF Peered, PageShowsCurrentPeer, ConnectionLives, Streaming
  <2> QED BY <1>1, <1>2, <1>3, <2>4, PeerStep DEF TypeOK
<1> QED BY <1>4, <1>5

\* The page hangs up: an offer fails, the connection fails or stays away.
LEMMA HangingUpKeeps ==
    ASSUME Inductive, Become(StopWebRTC(page, "error")) \/ Become(StopWebRTC(page, "fallback")),
           checks' = checks, calls' \subseteq Peers, plays' \subseteq Peers \cup {None},
           late' \subseteq Peers, exists' \in BOOLEAN, clicks' \in 0..MaxClicks,
           faults' \in 0..MaxFaults
    PROVE  Inductive'
<1>1. TypeOK /\ Peered
  BY DEF Inductive, Peered
<1>2. PICK next \in {"fallback", "error"} : Become(StopWebRTC(page, next))
  OBVIOUS
<1>3. page' = StopWebRTC(page, next) /\ Become(page')
  BY <1>2 DEF Become
<1>4. page' \in Pages /\ SameInput(page, page') /\ HungUp(page')
  BY <1>1, <1>3, StopWebRTCFields DEF TypeOK, HungUp
<1>5. Peered' /\ link' \in [Peers -> Links]
  BY <1>1, <1>3, <1>4, HangsUpPeered
<1> QED BY <1>4, <1>5, PeerStep

\* Steps after which the page has the connection it had, unless they end it.
LEMMA KeepingKeeps ==
    ASSUME Inductive, page' \in Pages, SamePeer(page, page'), SameInput(page, page'), link' = link,
           checks' = checks, calls' \subseteq calls, plays' \subseteq Peers \cup {None},
           late' \subseteq Peers, exists' \in BOOLEAN, clicks' \in 0..MaxClicks,
           faults' \in 0..MaxFaults
    PROVE  Inductive'
<1>1. TypeOK /\ Peered
  BY DEF Inductive, Peered
<1>2. Peered'
  BY <1>1, KeepsPeered
<1> QED BY <1>1, <1>2, PeerStep DEF TypeOK
LEMMA OfferFailsKeeps ==
    ASSUME Inductive, NEW p \in Peers, OfferFails(p)
    PROVE  Inductive'
<1>1. TypeOK /\ Peered
  BY DEF Inductive, Peered
<1>2. /\ calls' \subseteq calls /\ calls' \subseteq Peers
      /\ UNCHANGED <<plays, late, checks, exists, clicks>>
  BY <1>1 DEF OfferFails, TypeOK
<1>3. faults' \in 0..MaxFaults
  BY <1>1, BreaksType DEF OfferFails
<1>4. CASE page.peerConnection = p
  BY <1>1, <1>2, <1>3, <1>4, HangingUpKeeps DEF OfferFails, TypeOK
<1>5. CASE page.peerConnection # p
  <2>1. link' = Close(p) /\ page' = page
    BY <1>5 DEF OfferFails
  <2>2. page.peerConnection \in (Peers \ {p}) \cup {None}
    BY <1>1, <1>5 DEF TypeOK, Pages
  <2>3. page.webrtcStatus = "connected" => page.peerConnection \in Peers \ {p}
    BY <1>1, <2>2 DEF Peered, PageShowsCurrentPeer, Streaming
  <2>4. Peered'
    BY <1>1, <1>2, <1>5, <2>1, <2>2, <2>3, CloseLinks
    DEF TypeOK, Peered, PageShowsCurrentPeer, ConnectionLives, Streaming
  <2>5. SameInput(page, page') /\ link' \in [Peers -> Links]
    BY <1>1, <2>1, CloseLinks DEF SameInput
  <2> QED BY <1>1, <1>2, <1>3, <2>1, <2>4, <2>5, PeerStep DEF TypeOK
<1> QED BY <1>4, <1>5

LEMMA TrackKeeps ==
    ASSUME Inductive, NEW p \in Peers, Track(p)
    PROVE  Inductive'
<1>1. TypeOK /\ Peered
  BY DEF Inductive, Peered
<1>2. /\ page' \in Pages /\ SameInput(page, page') /\ page'.shown = p
      /\ page'.peerConnection = p /\ page.peerConnection = p
      /\ page'.webrtcStatus = page.webrtcStatus
  BY <1>1 DEF Track, TypeOK, Pages, SameInput
<1>3. UNCHANGED <<link, calls, late, checks, exists, clicks, faults>> /\ plays' = plays \cup {p}
  BY DEF Track
<1>4. Peered'
  BY <1>1, <1>2, <1>3 DEF Peered, PageShowsCurrentPeer, ConnectionLives, Streaming
<1> QED BY <1>1, <1>2, <1>3, <1>4, PeerStep DEF TypeOK

LEMMA ConnectedKeeps ==
    ASSUME Inductive, NEW p \in Peers, Connected(p)
    PROVE  Inductive'
<1>1. TypeOK /\ Peered
  BY DEF Inductive, Peered
<1>2. page.peerConnection = p
  BY <1>1 DEF Connected, Peered, PageShowsCurrentPeer
<1>3. /\ page' \in Pages /\ SameInput(page, page') /\ page'.webrtcStatus = "connected"
      /\ page'.peerConnection = p /\ page'.shown = page.shown
  BY <1>1, <1>2 DEF Connected, TypeOK, Pages, SameInput
<1>4. /\ link' \in [Peers -> Links] /\ link'[p] = "connected"
      /\ \A x \in Peers \ {p} : link'[x] = link[x]
      /\ UNCHANGED <<calls, plays, late, checks, exists, clicks, faults>>
  BY <1>1 DEF Connected, TypeOK, Links
<1>5. p \notin calls
  BY <1>1, <1>2 DEF Connected, Peered, ConnectionLives
<1>6. Peered'
  BY <1>1, <1>2, <1>3, <1>4, <1>5, PageAssumption
  DEF Peered, PageShowsCurrentPeer, ConnectionLives, Streaming, Live
<1> QED BY <1>1, <1>3, <1>4, <1>6, PeerStep DEF TypeOK

LEMMA DisconnectedKeeps ==
    ASSUME Inductive, NEW p \in Peers, Disconnected(p)
    PROVE  Inductive'
<1>1. TypeOK /\ Peered /\ link[p] = "connected"
  BY DEF Inductive, Peered, Disconnected
<1>2. page.peerConnection = p /\ p \notin calls
  BY <1>1 DEF Peered, PageShowsCurrentPeer, ConnectionLives
<1>3. /\ link' \in [Peers -> Links] /\ link'[p] = "disconnected"
      /\ \A x \in Peers \ {p} : link'[x] = link[x]
      /\ UNCHANGED <<page, calls, plays, checks, exists, clicks>> /\ late' = late \cup {p}
  BY <1>1 DEF Disconnected, TypeOK, Links
<1>4. faults' \in 0..MaxFaults
  BY <1>1, BreaksType DEF Disconnected
<1>5. Peered'
  BY <1>1, <1>2, <1>3, PageAssumption
  DEF Peered, PageShowsCurrentPeer, ConnectionLives, Streaming, Live
<1>6. SameInput(page, page')
  BY <1>3 DEF SameInput
<1> QED BY <1>1, <1>3, <1>4, <1>5, <1>6, PeerStep DEF TypeOK

LEMMA PeerStepsKeep ==
    ASSUME Inductive, NEW p \in Peers, Failed(p) \/ StillDisconnected(p)
    PROVE  Inductive'
<1>1. TypeOK
  BY DEF Inductive
<1>2. CASE Failed(p)
  <2>1. faults' \in 0..MaxFaults
    BY <1>1, <1>2, BreaksType DEF Failed
  <2> QED BY <1>1, <1>2, <2>1, HangingUpKeeps DEF Failed, Rest, TypeOK
<1>3. CASE StillDisconnected(p)
  <2>1. late' \subseteq Peers /\ UNCHANGED <<calls, plays, checks, exists, clicks, faults>>
    BY <1>1, <1>3 DEF StillDisconnected, TypeOK
  <2>2. CASE Become(StopWebRTC(page, "error"))
    BY <1>1, <2>1, <2>2, HangingUpKeeps DEF TypeOK
  <2>3. CASE UNCHANGED <<page, link>>
    BY <1>1, <2>1, <2>3, KeepingKeeps DEF TypeOK, SamePeer, SameInput
  <2> QED BY <1>3, <2>2, <2>3 DEF StillDisconnected
<1> QED BY <1>2, <1>3

-----------------------------------------------------------------------------
(* The user's clicks, the sound and the deletion.                             *)

\* A new connection replaces the old one, which is closed.
LEMMA StartWebRTCKeeps ==
    ASSUME Inductive, StartWebRTC, ~Streaming(page),
           UNCHANGED <<plays, late, checks, exists, faults>>, clicks' \in 0..MaxClicks
    PROVE  Inductive'
<1>1. TypeOK /\ Peered
  BY DEF Inductive, Peered
<1> DEFINE quiet == StopAudio(page)
           s == StopWebRTC(quiet, "connecting")
<1>2. PICK p \in Peers :
        /\ link[p] = "none"
        /\ page' = [s EXCEPT !.peerConnection = p]
        /\ link' = [Close(page.peerConnection) EXCEPT ![p] = "new"]
        /\ calls' = calls \cup {p}
  BY DEF StartWebRTC
<1>3. quiet \in Pages /\ SameInput(page, quiet)
  BY <1>1, StopAudioFields DEF TypeOK
<1> HIDE DEF quiet
<1>4. /\ s \in Pages /\ SameInput(page, s)
      /\ s.peerConnection = None /\ s.shown = None /\ s.webrtcStatus = "connecting"
  BY <1>3, StopWebRTCFields DEF SameInput
<1> HIDE DEF s
<1>5. /\ page' \in Pages /\ SameInput(page, page')
      /\ page'.peerConnection = p /\ page'.shown = None /\ page'.webrtcStatus = "connecting"
  BY <1>2, <1>4 DEF Pages, SameInput
<1>6. page.peerConnection = None
  BY <1>1 DEF Peered, PageShowsCurrentPeer
<1>7. \A x \in Peers : link[x] \in {"none", "closed"}
  BY <1>1, <1>6, PageAssumption DEF Peered, PageShowsCurrentPeer
<1>8. /\ link' \in [Peers -> Links] /\ link'[p] = "new"
      /\ \A x \in Peers \ {p} : link'[x] \in {"none", "closed"}
  BY <1>1, <1>2, <1>7, CloseLinks DEF Links
<1>9. Peered'
  BY <1>2, <1>5, <1>8, PageAssumption
  DEF Peered, PageShowsCurrentPeer, ConnectionLives, Streaming, Live
<1> QED BY <1>1, <1>2, <1>5, <1>8, <1>9, PeerStep DEF TypeOK

LEMMA ToggleWebRTCKeeps ==
    ASSUME Inductive, ToggleWebRTC
    PROVE  Inductive'
<1>1. TypeOK /\ clicks' \in 0..MaxClicks /\ UNCHANGED <<plays, late, checks, exists, faults>>
  BY ClickType DEF Inductive, ToggleWebRTC
<1>2. CASE Streaming(page)
  BY <1>1, <1>2, HangingUpKeeps DEF ToggleWebRTC, TypeOK
<1>3. CASE ~Streaming(page)
  BY <1>1, <1>3, StartWebRTCKeeps DEF ToggleWebRTC
<1> QED BY <1>2, <1>3

LEMMA PlaySettlesKeeps ==
    ASSUME Inductive, NEW q \in Peers \cup {None}, PlaySettles(q)
    PROVE  Inductive'
<1>1. TypeOK
  BY DEF Inductive
<1>2. plays' \subseteq Peers \cup {None} /\ UNCHANGED <<link, calls, late, checks, exists, clicks>>
  BY <1>1 DEF PlaySettles, TypeOK
<1>3. faults' \in 0..MaxFaults
  BY <1>1, BreaksType DEF PlaySettles, TypeOK
<1>4. page' \in Pages /\ SamePeer(page, page') /\ SameInput(page, page')
  <2>1. CASE page' = page
    BY <1>1, <2>1 DEF TypeOK, SamePeer, SameInput
  <2>2. CASE page' = [page EXCEPT !.audioStatus = "connected"]
    BY <1>1, <2>2 DEF TypeOK, Pages, SamePeer, SameInput
  <2>3. CASE page' = [page EXCEPT !.audioStatus = "error", !.muted = TRUE]
    BY <1>1, <2>3 DEF TypeOK, Pages, SamePeer, SameInput
  <2> QED BY <2>1, <2>2, <2>3 DEF PlaySettles
<1> QED BY <1>1, <1>2, <1>3, <1>4, KeepingKeeps DEF TypeOK

LEMMA ToggleAudioKeeps ==
    ASSUME Inductive, ToggleAudio
    PROVE  Inductive'
<1>1. TypeOK /\ clicks' \in 0..MaxClicks /\ UNCHANGED <<link, calls, late, checks, exists, faults>>
  BY ClickType DEF Inductive, ToggleAudio
<1> DEFINE quiet == StopAudio(page)
<1>2. quiet \in Pages /\ SameInput(page, quiet) /\ SamePeer(page, quiet)
  BY <1>1, StopAudioFields DEF TypeOK
<1>3. /\ StartAudio(page) \in Pages /\ SameInput(page, StartAudio(page))
      /\ SamePeer(page, StartAudio(page))
  BY <1>1, StartAudioFields DEF TypeOK
<1>4. /\ plays' \in {plays, plays \cup {None}}
      /\ \/ page' = [page EXCEPT !.audioEnabled = FALSE, !.muted = TRUE, !.audioStatus = "pending"]
         \/ page' = [page EXCEPT !.audioStatus = "error"]
         \/ page' = [quiet EXCEPT !.audioEnabled = TRUE, !.muted = FALSE]
         \/ page' = [quiet EXCEPT !.audioEnabled = FALSE]
         \/ page' = StartAudio(page)
  BY DEF ToggleAudio, EnableWebRTCAudio
<1> HIDE DEF quiet
<1>5. page' \in Pages /\ SamePeer(page, page') /\ SameInput(page, page')
  <2>1. CASE page' = [page EXCEPT !.audioEnabled = FALSE, !.muted = TRUE, !.audioStatus = "pending"]
    BY <1>1, <2>1 DEF TypeOK, Pages, SamePeer, SameInput
  <2>2. CASE page' = [page EXCEPT !.audioStatus = "error"]
    BY <1>1, <2>2 DEF TypeOK, Pages, SamePeer, SameInput
  <2>3. CASE page' = [quiet EXCEPT !.audioEnabled = TRUE, !.muted = FALSE]
    BY <1>2, <2>3 DEF Pages, SamePeer, SameInput
  <2>4. CASE page' = [quiet EXCEPT !.audioEnabled = FALSE]
    BY <1>2, <2>4 DEF Pages, SamePeer, SameInput
  <2> QED BY <1>3, <1>4, <2>1, <2>2, <2>3, <2>4
<1>6. plays' \subseteq Peers \cup {None}
  BY <1>1, <1>4 DEF TypeOK
<1> QED BY <1>1, <1>5, <1>6, KeepingKeeps DEF TypeOK

LEMMA RestKeeps ==
    ASSUME Inductive, AudioOpens \/ AudioCloses \/ Delete \/ UNCHANGED vars
    PROVE  Inductive'
<1>1. TypeOK
  BY DEF Inductive
<1>2. /\ UNCHANGED <<link, calls, plays, late, checks, clicks>> /\ exists' \in BOOLEAN
      /\ page' \in Pages /\ SamePeer(page, page') /\ SameInput(page, page')
  <2>1. CASE AudioOpens
    BY <1>1, <2>1 DEF AudioOpens, TypeOK, Pages, SamePeer, SameInput
  <2>2. CASE AudioCloses
    <3>1. PICK status \in {"pending", "error"} :
            page' = [page EXCEPT !.audioSocket = "none", !.audioStatus = status]
      BY <2>2 DEF AudioCloses
    <3> QED BY <1>1, <2>2, <3>1 DEF AudioCloses, TypeOK, Pages, SamePeer, SameInput
  <2>3. CASE Delete \/ UNCHANGED vars
    BY <1>1, <2>3 DEF Delete, vars, TypeOK, SamePeer, SameInput
  <2> QED BY <2>1, <2>2, <2>3
<1>3. faults' \in 0..MaxFaults
  BY <1>1, BreaksType DEF AudioOpens, AudioCloses, Delete, vars, TypeOK
<1> QED BY <1>1, <1>2, <1>3, KeepingKeeps DEF TypeOK

-----------------------------------------------------------------------------
LEMMA InitInductive == Init => Inductive
<1> SUFFICES ASSUME Init PROVE Inductive
  OBVIOUS
<1>1. PICK p \in Peers :
        /\ page = [webrtcStatus |-> "connecting", peerConnection |-> p,
                   shown |-> None, muted |-> TRUE, audioEnabled |-> FALSE,
                   audioStatus |-> "pending", audioSocket |-> "none",
                   inputSocket |-> "connecting", inputStatus |-> "connecting",
                   inputReconnectTimer |-> FALSE, sessionGone |-> FALSE]
        /\ link = [x \in Peers |-> IF x = p THEN "new" ELSE "none"]
        /\ calls = {p}
  BY DEF Init
<1>2. TypeOK
  BY <1>1, PageAssumption DEF Init, TypeOK, Pages, Links
<1>3. InputKeepsTrying
  BY <1>1 DEF Init, InputKeepsTrying
<1>4. PageShowsCurrentPeer /\ ConnectionLives
  BY <1>1, PageAssumption DEF PageShowsCurrentPeer, ConnectionLives, Streaming, Live
<1> QED BY <1>2, <1>3, <1>4 DEF Inductive

LEMMA NextInductive == Inductive /\ [Next]_vars => Inductive'
<1> SUFFICES ASSUME Inductive, [Next]_vars PROVE Inductive'
  OBVIOUS
<1>1. CASE Input \/ NotFound
  BY <1>1, InputOpensKeeps, InputClosesKeeps, CheckReturnsKeeps, ReconnectTimerKeeps, NotFoundKeeps
  DEF Input
<1>2. ASSUME NEW p \in Peers,
             \/ OfferAnswered(p) \/ OfferFails(p) \/ Track(p)
             \/ Connected(p) \/ Failed(p)
             \/ Disconnected(p) \/ StillDisconnected(p)
      PROVE  Inductive'
  BY <1>2, OfferAnsweredKeeps, OfferFailsKeeps, TrackKeeps, ConnectedKeeps, DisconnectedKeeps,
     PeerStepsKeep
<1>3. ASSUME NEW q \in Peers \cup {None}, PlaySettles(q) PROVE Inductive'
  BY <1>3, PlaySettlesKeeps
<1>4. CASE ToggleWebRTC \/ ToggleAudio
  BY <1>4, ToggleWebRTCKeeps, ToggleAudioKeeps
<1>5. CASE AudioOpens \/ AudioCloses \/ Delete \/ UNCHANGED vars
  BY <1>5, RestKeeps
<1> QED BY <1>1, <1>2, <1>3, <1>4, <1>5 DEF Next

\* What the page promises of its connections holds at every moment, in whatever
\* order answers, timers and callbacks come back.
THEOREM Invariance == Spec => []Inductive
BY InitInductive, NextInductive, PTL DEF Spec

\* The page's data keeps its shape: in particular at most one question whether
\* the session still exists awaits its answer.
THEOREM TypeCorrectness == Spec => []TypeOK
<1>1. Inductive => TypeOK
  BY DEF Inductive
<1> QED BY <1>1, Invariance, PTL

\* However the input connection breaks, exactly one thing is under way to bring
\* it back, until the session is gone, and nothing after that.
THEOREM InputIsKept == Spec => []InputKeepsTrying
<1>1. Inductive => InputKeepsTrying
  BY DEF Inductive
<1> QED BY <1>1, Invariance, PTL

\* However often the user switches, the page shows the connection it has, and
\* every other connection is closed.
THEOREM CurrentIsShown == Spec => []PageShowsCurrentPeer
<1>1. Inductive => PageShowsCurrentPeer
  BY DEF Inductive
<1> QED BY <1>1, Invariance, PTL
=============================================================================
