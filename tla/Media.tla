-------------------------------- MODULE Media --------------------------------
(***************************************************************************)
(* Remote access to one instance and its end: the WebRTC service in the    *)
(* instance (docker/session/webrtc-service), the manager's media leases,   *)
(* guarded WebSockets and connection counts (internal/httpapi/access.go,   *)
(* handlers.go, session/service.go), and a clock in seconds.               *)
(*                                                                         *)
(* All access rests on one login, valid until it is revoked (Accounts).    *)
(* An offer makes a peer; while the manager renews its lease the peer      *)
(* gets media. One pair of encoders serves all peers of the instance.      *)
(*                                                                         *)
(* The time and the manager's goroutine are modelled for the Watched       *)
(* peers. Another peer, once listed, may leave the list at any moment,     *)
(* which covers whatever its negotiation, lease and manager do.            *)
(***************************************************************************)
EXTENDS Integers, FiniteSets

CONSTANTS
    Peers,        \* offers; the lease of each is a fresh random key
    Watched,      \* those whose time is modelled
    Sockets,      \* WebSocket requests: input, audio, noVNC
    TickPeriod,   \* 2: both the guard and the lease goroutine re-authenticate
    AuthTimeout,  \* 1
    CallTimeout,  \* 2: a POST or DELETE of /lease
    OpenTime,     \* what counting the connection may take (assumed)
    LeaseTime,    \* 8
    SweepPeriod,  \* 1: expireLeases
    Grace,        \* 15: the lease while negotiating
    GatherTime    \* 10: the longest negotiation

ASSUME TimingAssumption ==
    /\ {TickPeriod, AuthTimeout, CallTimeout, OpenTime, LeaseTime, SweepPeriod,
        Grace, GatherTime} \subseteq Nat \ {0}
    /\ OpenTime + TickPeriod + AuthTimeout + CallTimeout < LeaseTime
    /\ AuthTimeout + CallTimeout + TickPeriod < LeaseTime
    /\ CallTimeout <= TickPeriod
    /\ GatherTime < Grace

ASSUME PeerAssumption == Watched \subseteq Peers /\ Watched \cap Sockets = {}

Kinds == {"video", "audio"}

\* The longest the guard or a lease goroutine takes to notice a revocation, and
\* the longest a peer may outlive it when the manager dies or its calls are lost.
GuardDelay == TickPeriod + AuthTimeout
Limit      == GuardDelay + LeaseTime + SweepPeriod
LongestSet == Grace + SweepPeriod

Max2(a, b) == IF a < b THEN b ELSE a
Longest == Max2(Max2(LongestSet, LeaseTime + SweepPeriod), Limit + 1)

\* pc of the offer's handler in the service, of the peer connection, and of the
\* manager's goroutine for it.
OfferSteps   == {"none", "offered", "added", "negotiating", "answered", "ended"}
Connections  == {"none", "made", "listed", "unlisted", "closed"}
ManagerSteps == {"none", "offering", "opening", "waiting", "checking",
                 "renewing", "renewed", "refused", "deleting", "done", "lost"}
SocketSteps  == {"none", "dialing", "raw", "open", "shut", "ended"}

VARIABLES
    offer,        \* handleOffer's progress, by peer
    conn,         \* the peer connection: in server.peers while "listed"
    tracks,       \* the broadcaster's videoTracks and audioTracks
    encoding,     \* the shared pipeline is started (b.cancel # nil)
    doomed,       \* what expireLeases collected and has still to close
    left,         \* seconds until the sweep that finds the lease expired
    mgr,          \* the manager's goroutine: offer request, then media lease
    due,          \* seconds its current call may still take
    tick,         \* seconds to the next tick of its ticker; 0: one is waiting
    counted,      \* the goroutines that will call ConnectionClosed
    count,        \* Service.connections of the instance
    sock,         \* the handler of a WebSocket request
    cut,          \* sockets whose guardedWriter is closed
    since         \* seconds since the login was revoked; -1: valid

vars == <<offer, conn, tracks, encoding, doomed, left, mgr, due,
          tick, counted, count, sock, cut, since>>
service == <<offer, conn, tracks, encoding, doomed>>
pipeline == <<tracks, encoding>>
manager == <<mgr, due, tick, counted, count>>
sockets == <<sock, cut>>

TypeOK ==
    /\ offer \in [Peers -> OfferSteps]
    /\ conn \in [Peers -> Connections]
    /\ tracks \in [Kinds -> SUBSET Peers]
    /\ encoding \in BOOLEAN
    /\ doomed \subseteq Peers
    /\ left \in [Watched -> 0..Longest]
    /\ mgr \in [Watched -> ManagerSteps]
    /\ due \in [Watched -> 0..Longest]
    /\ tick \in [Watched -> 0..TickPeriod]
    /\ counted \subseteq Watched \cup Sockets
    /\ count \in Nat
    /\ sock \in [Sockets -> SocketSteps]
    /\ cut \subseteq Sockets
    /\ since \in -1..Limit + 1

Valid == since = -1

----------------------------------------------------------------------------
(* The broadcaster. Each operation holds its mutex from start to end; that  *)
(* an encoder or a forwardRTP goroutine may die by itself is left out.      *)

NoTracks(t) == \A k \in Kinds : t[k] = {}

\* startLocked and stopLocked run under it.
StopIfUnused(t) == encoding' = (encoding /\ ~NoTracks(t))

\* add: the first tracks start the pipeline. Without ports it fails and the
\* offer with it.
AddTracks(p) ==
    /\ offer[p] = "offered"
    /\ \/ /\ offer' = [offer EXCEPT ![p] = "added"]
          /\ tracks' = [k \in Kinds |-> tracks[k] \cup {p}]
          /\ encoding' = (encoding \/ NoTracks(tracks))
          /\ UNCHANGED conn
       \/ /\ NoTracks(tracks)
          /\ offer' = [offer EXCEPT ![p] = "ended"]
          /\ conn' = [conn EXCEPT ![p] = "closed"]
          /\ UNCHANGED pipeline
    /\ UNCHANGED <<doomed, left, manager, sockets, since>>

\* remove, called once by whoever took the peer off the list, who then closes
\* the connection.
Release(p) ==
    /\ conn[p] = "unlisted"
    /\ conn' = [conn EXCEPT ![p] = "closed"]
    /\ tracks' = [k \in Kinds |-> tracks[k] \ {p}]
    /\ StopIfUnused(tracks')
    /\ UNCHANGED <<offer, doomed, left, manager, sockets, since>>

\* removeTrack: a packet could not be written to one of a peer's tracks.
WriteFails(p, k) ==
    /\ p \in tracks[k]
    /\ tracks' = [tracks EXCEPT ![k] = @ \ {p}]
    /\ StopIfUnused(tracks')
    /\ UNCHANGED <<offer, conn, doomed, left, manager, sockets, since>>

----------------------------------------------------------------------------
(* Peers and leases in the service. closePeer takes the peer off the list  *)
(* under the mutex; only the caller that found it there releases it.       *)

Unlist(c, P) == [p \in Peers |-> IF p \in P /\ c[p] = "listed" THEN "unlisted"
                                 ELSE c[p]]

\* The expiry of a peer off the list is never read again.
SetLease(p, time) ==
    IF p \in Watched /\ conn'[p] = "listed"
    THEN \E d \in 0..SweepPeriod : left' = [left EXCEPT ![p] = time + d]
    ELSE UNCHANGED left

\* setPeer: the lease grants a grace period for the negotiation.
ListPeer(p) ==
    /\ offer[p] = "added"
    /\ offer' = [offer EXCEPT ![p] = IF p \in Watched THEN "negotiating" ELSE "ended"]
    /\ conn' = [conn EXCEPT ![p] = "listed"]
    /\ SetLease(p, Grace)
    /\ UNCHANGED <<pipeline, doomed, manager, sockets, since>>

\* (Seeded fault: the grace period is all the time the peer gets.)
AnswerInGrace(p) ==
    /\ offer[p] = "negotiating"
    /\ offer' = [offer EXCEPT ![p] = IF mgr[p] = "offering" THEN "answered" ELSE "ended"]
    /\ UNCHANGED <<conn, left, pipeline, doomed, manager, sockets, since>>

\* Candidates are gathered; the lease proper begins, whether or not the peer is
\* still on the list, and the answer is sent to the manager if it still waits.
Answer(p) ==
    /\ offer[p] = "negotiating"
    /\ offer' = [offer EXCEPT ![p] = IF mgr[p] = "offering" THEN "answered" ELSE "ended"]
    /\ UNCHANGED <<conn, pipeline, doomed, manager, sockets, since>>
    /\ SetLease(p, LeaseTime)

\* (Seeded fault: the handler's own error path only closes the connection.)
NegotiationFailsClosing(p) ==
    /\ offer[p] = "negotiating"
    /\ offer' = [offer EXCEPT ![p] = "ended"]
    /\ conn' = [conn EXCEPT ![p] = "closed"]
    /\ UNCHANGED <<pipeline, doomed, left, manager, sockets, since>>

\* The description is refused, gathering takes too long or the request is gone.
NegotiationFails(p) ==
    /\ offer[p] = "negotiating"
    /\ offer' = [offer EXCEPT ![p] = "ended"]
    /\ conn' = Unlist(conn, {p})
    /\ UNCHANGED <<pipeline, doomed, left, manager, sockets, since>>

\* OnConnectionStateChange: failed, closed or disconnected; for a peer that is
\* not watched also a failed negotiation, an expired or a deleted lease.
Disconnect(p) ==
    /\ conn[p] = "listed"
    /\ conn' = Unlist(conn, {p})
    /\ UNCHANGED <<offer, pipeline, doomed, left, manager, sockets, since>>

\* expireLeases collects under the mutex and closes one by one after it.
Sweep ==
    /\ doomed = {}
    /\ doomed' = {p \in Watched : conn[p] = "listed" /\ left[p] = 0}
    /\ doomed' # {}
    /\ UNCHANGED <<offer, conn, pipeline, left, manager, sockets, since>>

CloseDoomed(p) ==
    /\ p \in doomed
    /\ doomed' = doomed \ {p}
    /\ conn' = Unlist(conn, {p})
    /\ UNCHANGED <<offer, pipeline, left, manager, sockets, since>>

----------------------------------------------------------------------------
(* The manager's side of a watched peer.                                   *)

Manager(p, from, to, time) ==
    /\ mgr[p] = from
    /\ mgr' = [mgr EXCEPT ![p] = to]
    /\ due' = [due EXCEPT ![p] = time]

\* (Seeded fault: every handler closes, counted or not.)
ConnectionClosedByAll(c) ==
    /\ counted' = counted \ {c}
    /\ count' = IF count > 1 THEN count - 1 ELSE 0

\* ConnectionOpened counts one connection or fails; ConnectionClosed takes one
\* away, and is only called by those that were counted.
ConnectionOpened(c) == counted' = counted \cup {c} /\ count' = count + 1
ConnectionClosed(c) ==
    IF c \in counted
    THEN /\ counted' = counted \ {c}
         /\ count' = IF count > 1 THEN count - 1 ELSE 0
    ELSE UNCHANGED <<counted, count>>

\* ProxyWebRTC, for a request let in by a valid login; of the peers that are
\* not watched the request is all that is modelled.
Offer(p) ==
    /\ offer[p] = "none"
    /\ offer' = [offer EXCEPT ![p] = "offered"]
    /\ conn' = [conn EXCEPT ![p] = "made"]
    /\ IF p \in Watched
       THEN Valid /\ Manager(p, "none", "offering", 0) /\ UNCHANGED tick
       ELSE UNCHANGED <<mgr, due, tick>>
    /\ UNCHANGED <<pipeline, doomed, left, counted, count, sockets, since>>

\* ModifyResponse has seen status 200: a goroutine takes over the lease.
TakeLease(p) ==
    /\ offer[p] = "answered"
    /\ offer' = [offer EXCEPT ![p] = "ended"]
    /\ Manager(p, "offering", "opening", OpenTime)
    /\ UNCHANGED <<conn, pipeline, doomed, left, tick, counted, count, sockets,
                   since>>

\* The request ends without an answer: refused by the service, or cancelled by
\* its guard, or by the client, perhaps with the answer on its way.
OfferEnds(p) ==
    /\ offer[p] = "answered" \/ offer[p] = "ended" \/ offer[p] = "negotiating"
    /\ offer' = [offer EXCEPT ![p] = IF @ = "answered" THEN "ended" ELSE @]
    /\ Manager(p, "offering", "done", 0)
    /\ UNCHANGED <<conn, pipeline, doomed, left, tick, counted, count, sockets,
                   since>>

\* A connection that cannot be counted loses its lease at once.
CountPeer(p) ==
    /\ \/ /\ Manager(p, "opening", "waiting", 0)
          /\ tick' = [tick EXCEPT ![p] = TickPeriod]
          /\ ConnectionOpened(p)
       \/ /\ Manager(p, "opening", "deleting", CallTimeout)
          /\ UNCHANGED <<tick, counted, count>>
    /\ UNCHANGED <<service, left, sockets, since>>

\* maintainMediaLease: at a tick, authenticate, then renew; end at any failure.
TakeTick(p) ==
    /\ tick[p] = 0
    /\ Manager(p, "waiting", "checking", AuthTimeout)
    /\ tick' = [tick EXCEPT ![p] = TickPeriod]
    /\ UNCHANGED <<service, left, counted, count, sockets, since>>

\* (Seeded fault: the answer of the database is not looked at.)
ReauthenticateAnyway(p) ==
    /\ Manager(p, "checking", "renewing", CallTimeout)
    /\ UNCHANGED <<service, left, tick, counted, count, sockets, since>>

Reauthenticate(p) ==
    /\ \/ Valid /\ Manager(p, "checking", "renewing", CallTimeout)
       \/ Manager(p, "checking", "deleting", CallTimeout)
    /\ UNCHANGED <<service, left, tick, counted, count, sockets, since>>

\* The POST reaches handleLease, then its answer the manager.
Renew(p) ==
    /\ UNCHANGED <<service, tick, counted, count, sockets, since>>
    /\ SetLease(p, LeaseTime)
    /\ Manager(p, "renewing", IF conn[p] = "listed" THEN "renewed" ELSE "refused",
               due[p])

RenewAnswered(p) ==
    /\ \/ Manager(p, "renewed", "waiting", 0)
       \/ \E step \in {"renewing", "renewed", "refused"} :
              Manager(p, step, "deleting", CallTimeout)
    /\ UNCHANGED <<service, left, tick, counted, count, sockets, since>>

\* The deferred DELETE, which may be lost; then the deferred ConnectionClosed.
DeleteLease(p) ==
    /\ Manager(p, "deleting", "done", 0)
    /\ conn' = Unlist(conn, {p}) \/ UNCHANGED conn
    /\ ConnectionClosed(p)
    /\ UNCHANGED <<offer, pipeline, doomed, left, tick, sockets, since>>

----------------------------------------------------------------------------
(* A guarded WebSocket: the handler goroutine and the guard's.             *)

Socket(s, from, to) == sock[s] = from /\ sock' = [sock EXCEPT ![s] = to]

\* The guard starts, the connection is counted (or the request is refused) and
\* the instance's service is dialled.
SocketRequest(s) ==
    /\ Valid
    /\ Socket(s, "none", "dialing")
    /\ ConnectionOpened(s)
    /\ UNCHANGED <<service, left, mgr, due, tick, cut, since>>

\* Hijack takes over the connection, then records it for revoke, and closes it
\* itself if revoke came first.
Hijack(s) ==
    /\ Socket(s, "dialing", "raw")
    /\ UNCHANGED <<service, left, manager, cut, since>>

\* (Seeded fault: whether revoke came first is not looked at.)
RecordRegardless(s) ==
    /\ Socket(s, "raw", "open")
    /\ UNCHANGED <<service, left, manager, cut, since>>

RecordConnection(s) ==
    /\ Socket(s, "raw", IF s \in cut THEN "shut" ELSE "open")
    /\ UNCHANGED <<service, left, manager, cut, since>>

\* revoke, when re-authentication failed: for a revoked login or a database that
\* does not answer in time. A connection not recorded yet is left to Hijack.
Revoke(s) ==
    /\ sock[s] \in {"dialing", "raw", "open"}
    /\ s \notin cut
    /\ cut' = cut \cup {s}
    /\ sock' = [sock EXCEPT ![s] = IF @ = "open" THEN "shut" ELSE @]
    /\ UNCHANGED <<service, left, manager, since>>

\* Either end closes an open connection, or the instance cannot be reached.
SocketFails(s) ==
    /\ Socket(s, "open", "shut") \/ Socket(s, "dialing", "shut")
    /\ UNCHANGED <<service, left, manager, cut, since>>

SocketEnds(s) ==
    /\ Socket(s, "shut", "ended")
    /\ ConnectionClosed(s)
    /\ UNCHANGED <<service, left, mgr, due, tick, cut, since>>

----------------------------------------------------------------------------
(* The login, the manager process and the clock.                           *)

RevokeLogin ==
    /\ Valid
    /\ since' = 0
    /\ UNCHANGED <<service, left, manager, sockets>>

\* All goroutines and counts are gone; connections to the manager close.
ManagerDies ==
    /\ mgr' = [p \in Watched |-> IF mgr[p] = "none" THEN "none" ELSE "lost"]
    /\ due' = [p \in Watched |-> 0]
    /\ tick' = [p \in Watched |-> 0]
    /\ counted' = {}
    /\ count' = 0
    /\ sock' = [s \in Sockets |-> IF sock[s] = "none" THEN "none" ELSE "ended"]
    /\ cut' = {}
    /\ offer' = [p \in Peers |-> IF p \in Watched /\ offer[p] = "answered"
                                 THEN "ended" ELSE offer[p]]
    /\ UNCHANGED <<conn, pipeline, doomed, left, since>>

\* What cannot wait for the next second: calls at their deadline, a guard or an
\* offer past the guard's delay, a waiting tick, an answer on its way, and work
\* of the service that is not waiting for anything.
Urgent ==
    \/ doomed # {}
    \/ \E p \in Watched :
          \/ offer[p] \in {"offered", "added", "answered"}
          \/ offer[p] = "negotiating" /\ \/ left[p] <= Grace - GatherTime
                                         \/ mgr[p] # "offering"
          \/ offer[p] = "ended" /\ mgr[p] = "offering"
          \/ conn[p] = "unlisted"
          \/ conn[p] = "listed" /\ left[p] = 0
          \/ mgr[p] = "offering" /\ since >= GuardDelay
          \/ mgr[p] \in {"opening", "checking", "renewing", "renewed", "refused",
                         "deleting"} /\ due[p] = 0
          \/ mgr[p] = "waiting" /\ tick[p] = 0
    \/ \E s \in Sockets :
          \/ sock[s] \in {"raw", "shut"}
          \/ sock[s] = "dialing" /\ s \in cut
          \/ sock[s] \in {"dialing", "open"} /\ s \notin cut /\ since >= GuardDelay

Less(n) == IF n = 0 THEN 0 ELSE n - 1

Tick ==
    /\ ~Urgent
    /\ left' = [p \in Watched |-> IF conn[p] = "listed" THEN Less(left[p]) ELSE 0]
    /\ due' = [p \in Watched |-> Less(due[p])]
    /\ tick' = [p \in Watched |-> IF mgr[p] \in {"deleting", "done"} THEN 0
                                  ELSE Less(tick[p])]
    /\ since' = IF Valid \/ since = Limit + 1 THEN since ELSE since + 1
    /\ UNCHANGED <<service, mgr, counted, count, sockets>>

----------------------------------------------------------------------------
Init ==
    /\ offer = [p \in Peers |-> "none"]
    /\ conn = [p \in Peers |-> "none"]
    /\ tracks = [k \in Kinds |-> {}]
    /\ encoding = FALSE
    /\ doomed = {}
    /\ left = [p \in Watched |-> 0]
    /\ mgr = [p \in Watched |-> "none"]
    /\ due = [p \in Watched |-> 0]
    /\ tick = [p \in Watched |-> 0]
    /\ counted = {}
    /\ count = 0
    /\ sock = [s \in Sockets |-> "none"]
    /\ cut = {}
    /\ since = -1

Service(p) == AddTracks(p) \/ ListPeer(p) \/ Release(p)

Watch(p) ==
    \/ Answer(p) \/ NegotiationFails(p) \/ CloseDoomed(p) \/ TakeLease(p)
    \/ CountPeer(p) \/ TakeTick(p) \/ Reauthenticate(p) \/ Renew(p)
    \/ RenewAnswered(p) \/ DeleteLease(p)

SocketStep(s) == Hijack(s) \/ RecordConnection(s) \/ SocketEnds(s)

\* What goroutines that are not waiting for anybody do, and the passing of time.
Progress ==
    \/ \E p \in Peers : Service(p)
    \/ \E p \in Watched : Watch(p) \/ (~Valid /\ OfferEnds(p))
    \/ \E s \in Sockets : SocketStep(s) \/ (~Valid /\ Revoke(s))
    \/ Sweep
    \/ Tick

Next ==
    \/ \E p \in Peers : \/ Offer(p) \/ Service(p) \/ Disconnect(p)
                        \/ \E k \in Kinds : WriteFails(p, k)
    \/ \E p \in Watched : OfferEnds(p) \/ Watch(p)
    \/ \E s \in Sockets : SocketRequest(s) \/ SocketStep(s) \/ Revoke(s) \/ SocketFails(s)
    \/ Sweep
    \/ RevokeLogin
    \/ ManagerDies
    \/ Tick

Spec == Init /\ [][Next]_vars

\* While the service, the manager or the clock can move, one of them does. No
\* goroutine is favoured: what has a deadline (Urgent) is done because time
\* does not pass it.
Fairness == WF_vars(Progress)

FairSpec == Spec /\ Fairness

----------------------------------------------------------------------------
(* Properties                                                              *)

\* The shared encoders run exactly while some track needs them, and every track
\* has somebody who will release it: the handler that just added it, the list of
\* peers, or whoever took the peer off that list. So whatever the order of
\* offers, failing writes, expiry and closing, no first peer finds the encoders
\* stopped, and no peer nobody remembers keeps them running (TECH-SPEC.md:267).
EncodersServePeers ==
    /\ encoding <=> ~NoTracks(tracks)
    /\ \A p \in Peers : p \in tracks["video"] \cup tracks["audio"] =>
          offer[p] = "added" \/ conn[p] \in {"listed", "unlisted"}

\* A peer the login of which is revoked is closed within ten seconds as long as
\* the manager's goroutine is there to delete its lease, and within Limit if
\* the manager died or the deletion was lost. No upgraded WebSocket outlives the
\* guard's delay, though revoke may come before, while or after it is hijacked.
AccessEndsInTime ==
    /\ \A p \in Watched : conn[p] = "listed" =>
          /\ since <= Limit
          /\ mgr[p] \notin {"lost", "done"} =>
                since <= GuardDelay + OpenTime + TickPeriod + AuthTimeout + CallTimeout
    /\ \A s \in Sockets : sock[s] = "open" => since <= GuardDelay

\* A lease the manager is still renewing never runs out, even if every call
\* takes as long as it may.
RenewedLeasesLast ==
    \A p \in Watched :
        /\ conn[p] = "listed"
        /\ mgr[p] \in {"waiting", "checking", "renewing", "renewed"}
        => left[p] > 0

\* The count is that of the connections whose handlers will call
\* ConnectionClosed: a refused or failed open never takes another's place.
CountsBalance == count = Cardinality(counted)

\* After a revocation everything ends: peers, sockets, and their count.
EverythingEnds ==
    ~Valid ~> /\ \A p \in Watched : conn[p] \in {"none", "closed"}
              /\ \A s \in Sockets : sock[s] \in {"none", "ended"}
              /\ count = 0
=============================================================================
