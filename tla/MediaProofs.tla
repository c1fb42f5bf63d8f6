----------------------------- MODULE MediaProofs -----------------------------
(* Proofs about Media, for any number of peers and sockets and for all times  *)
(* that TimingAssumption allows. The invariant adds to the properties, for    *)
(* each step of the manager's goroutine, how much of the lease is left at     *)
(* least, and how long ago the login can have been revoked at most.           *)
EXTENDS Media, FiniteSetTheorems, TLAPS

----------------------------------------------------------------------------
(* The invariant.                                                          *)

Begun == \A p \in Peers : offer[p] = "none" => conn[p] = "none"

Counting == {"waiting", "checking", "renewing", "renewed", "refused", "deleting"}

CountedAreOpen ==
    /\ IsFiniteSet(counted)
    /\ \A p \in Watched \cap counted : mgr[p] \in Counting
    /\ \A s \in Sockets \cap counted : sock[s] \in {"dialing", "raw", "open", "shut"}

SocketInTime(s) ==
    /\ sock[s] \in {"dialing", "raw"} /\ s \notin cut => since <= GuardDelay
    /\ sock[s] = "open" => s \notin cut /\ since <= GuardDelay

\* What each step of the manager comes with.
Follows(p) ==
    /\ mgr[p] = "none" <=> offer[p] = "none"
    /\ offer[p] \in {"offered", "added", "negotiating", "answered"}
         => mgr[p] \in {"offering", "done", "lost"}
    /\ offer[p] = "answered" => mgr[p] = "offering"

\* No call takes longer than its deadline.
Timed(p) ==
    /\ mgr[p] = "opening" => due[p] <= OpenTime
    /\ mgr[p] = "checking" => due[p] <= AuthTimeout
    /\ mgr[p] \in {"renewing", "renewed", "refused", "deleting"} => due[p] <= CallTimeout

\* After the present step and all that follow it until the lease is renewed, some
\* of the lease is left.
Lasts(p) ==
    conn[p] = "listed" =>
        /\ offer[p] = "answered" => left[p] >= LeaseTime
        /\ mgr[p] = "opening" => left[p] > AuthTimeout + CallTimeout + TickPeriod + due[p]
        /\ mgr[p] = "waiting" => left[p] > AuthTimeout + CallTimeout + tick[p]
        /\ mgr[p] = "checking" => left[p] > CallTimeout + due[p]
        /\ mgr[p] = "renewing" => left[p] > due[p]
        /\ mgr[p] = "renewed" => /\ left[p] > AuthTimeout + CallTimeout + tick[p]
                                 /\ left[p] > AuthTimeout + CallTimeout + due[p]

\* When the present step ends, the revocation is no older than this.
Notices(p) ==
    /\ mgr[p] = "offering" => since <= GuardDelay
    /\ mgr[p] = "opening" => since + due[p] <= GuardDelay + OpenTime
    /\ mgr[p] = "waiting" => since + tick[p] <= GuardDelay + OpenTime + TickPeriod
    /\ mgr[p] = "checking" =>
          since + due[p] <= GuardDelay + OpenTime + TickPeriod + AuthTimeout
    /\ mgr[p] \in {"renewing", "renewed", "refused"} => since + due[p] <= CallTimeout
    /\ mgr[p] = "deleting" =>
          since + due[p] <= GuardDelay + OpenTime + TickPeriod + AuthTimeout + CallTimeout

\* Whoever still renews it, a lease runs out before Limit.
RunsOut(p) ==
    /\ offer[p] \in {"offered", "added", "negotiating"} => since <= GuardDelay
    /\ conn[p] = "listed" /\ offer[p] # "negotiating" =>
          /\ left[p] <= LeaseTime + SweepPeriod
          /\ since + left[p] <= Limit

InTime(p) == Follows(p) /\ Timed(p) /\ Lasts(p) /\ Notices(p) /\ RunsOut(p)

Inv ==
    /\ TypeOK
    /\ Begun /\ EncodersServePeers
    /\ CountedAreOpen /\ CountsBalance
    /\ \A s \in Sockets : SocketInTime(s)
    /\ \A p \in Watched : InTime(p)

----------------------------------------------------------------------------
(* Facts about the constants and the operators.                            *)

LEMMA Times ==
    /\ TickPeriod \in Nat \ {0} /\ AuthTimeout \in Nat \ {0} /\ CallTimeout \in Nat \ {0}
    /\ OpenTime \in Nat \ {0} /\ LeaseTime \in Nat \ {0} /\ SweepPeriod \in Nat \ {0}
    /\ Grace \in Nat \ {0} /\ GatherTime \in Nat \ {0}
    /\ OpenTime + TickPeriod + AuthTimeout + CallTimeout < LeaseTime
    /\ CallTimeout <= TickPeriod
  BY TimingAssumption

LEMMA Bounds ==
    /\ GuardDelay \in Nat /\ Limit \in Nat /\ Longest \in Nat
    /\ Grace + SweepPeriod <= Longest
    /\ LeaseTime + SweepPeriod <= Longest
    /\ Limit + 1 <= Longest
  BY Times DEF GuardDelay, Limit, Longest, LongestSet, Max2

\* Setting a lease touches one peer's, and only while the peer is on the list.
LEMMA LeaseSet ==
  ASSUME NEW p, NEW time \in {Grace, LeaseTime},
         left \in [Watched -> 0..Longest], SetLease(p, time)
  PROVE  /\ left' \in [Watched -> 0..Longest]
         /\ \A q \in Watched : q # p => left'[q] = left[q]
         /\ p \in Watched /\ conn'[p] = "listed"
              => time <= left'[p] /\ left'[p] <= time + SweepPeriod
         /\ conn'[p] # "listed" => left' = left
<1>1. CASE p \in Watched /\ conn'[p] = "listed"
  <2>1. PICK d \in 0..SweepPeriod : left' = [left EXCEPT ![p] = time + d]
    BY <1>1 DEF SetLease
  <2>2. time + d \in 0..Longest /\ time <= time + d /\ time + d <= time + SweepPeriod
    BY Times, Bounds
  <2> QED BY <1>1, <2>1, <2>2
<1>2. CASE ~(p \in Watched /\ conn'[p] = "listed")
  BY <1>2 DEF SetLease
<1> QED BY <1>1, <1>2

\* Every step is of the clock, of a peer, of a socket, or of the whole manager.
LEMMA Steps ==
  ASSUME Next
  PROVE  \/ \E p \in Peers :
               \/ Offer(p) \/ AddTracks(p) \/ ListPeer(p) \/ Release(p) \/ Disconnect(p)
               \/ \E k \in Kinds : WriteFails(p, k)
         \/ \E p \in Watched :
               \/ OfferEnds(p) \/ Answer(p) \/ NegotiationFails(p) \/ CloseDoomed(p)
               \/ TakeLease(p) \/ CountPeer(p) \/ TakeTick(p) \/ Reauthenticate(p)
               \/ Renew(p) \/ RenewAnswered(p) \/ DeleteLease(p)
         \/ \E s \in Sockets :
               \/ SocketRequest(s) \/ Hijack(s) \/ RecordConnection(s) \/ SocketEnds(s)
               \/ Revoke(s) \/ SocketFails(s)
         \/ Sweep \/ RevokeLogin \/ ManagerDies \/ Tick
  BY Zenon DEF Next, Service, Watch, SocketStep
----------------------------------------------------------------------------
(* Types.                                                                  *)

LEMMA TypesKept == TypeOK /\ [Next]_vars => TypeOK'
<1> SUFFICES ASSUME TypeOK, [Next]_vars PROVE TypeOK'
  OBVIOUS
<1> USE PeerAssumption, Times, Bounds
<1>t. left \in [Watched -> 0..Longest]
  BY DEF TypeOK
<1>1. ASSUME NEW p \in Peers, Offer(p) PROVE TypeOK'
  BY <1>1 DEF TypeOK, service, pipeline, manager, sockets, Offer, Manager, Kinds, OfferSteps, Connections, ManagerSteps, SocketSteps
<1>2. ASSUME NEW p \in Peers, AddTracks(p) PROVE TypeOK'
  <2>1. encoding' \in BOOLEAN
    <3> HIDE DEF NoTracks
    <3> QED BY <1>2 DEF AddTracks, pipeline, TypeOK
  <2>2. tracks' \in [Kinds -> SUBSET Peers]
    BY <1>2 DEF AddTracks, pipeline, TypeOK
  <2>3. offer' \in [Peers -> OfferSteps] /\ conn' \in [Peers -> Connections]
    BY <1>2 DEF AddTracks, TypeOK, OfferSteps, Connections
  <2> QED BY <1>2, <2>1, <2>2, <2>3 DEF TypeOK, AddTracks, manager, sockets
<1>3. ASSUME NEW p \in Peers, ListPeer(p) PROVE TypeOK'
  <2>1. left' \in [Watched -> 0..Longest]
    BY <1>3, <1>t, LeaseSet DEF ListPeer
  <2> QED BY <1>3, <2>1 DEF TypeOK, service, pipeline, manager, sockets, ListPeer, OfferSteps, Connections
<1>4. ASSUME NEW p \in Peers, Release(p) PROVE TypeOK'
  BY <1>4 DEF TypeOK, service, pipeline, manager, sockets, Release, StopIfUnused, NoTracks, Kinds, OfferSteps, Connections, ManagerSteps, SocketSteps
<1>5. ASSUME NEW p \in Peers, Disconnect(p) PROVE TypeOK'
  BY <1>5 DEF TypeOK, service, pipeline, manager, sockets, Disconnect, Unlist, Kinds, OfferSteps, Connections, ManagerSteps, SocketSteps
<1>6. ASSUME NEW p \in Peers, NEW k \in Kinds, WriteFails(p, k) PROVE TypeOK'
  BY <1>6 DEF TypeOK, manager, sockets, WriteFails, StopIfUnused, NoTracks
<1>7. ASSUME NEW p \in Watched, OfferEnds(p) PROVE TypeOK'
  BY <1>7 DEF TypeOK, service, pipeline, manager, sockets, OfferEnds, Manager, Kinds, OfferSteps, Connections, ManagerSteps, SocketSteps
<1>8. ASSUME NEW p \in Watched, Answer(p) PROVE TypeOK'
  <2>1. left' \in [Watched -> 0..Longest]
    BY <1>8, <1>t, LeaseSet DEF Answer
  <2> QED BY <1>8, <2>1 DEF TypeOK, service, pipeline, manager, sockets, Answer, Manager, OfferSteps, Connections, ManagerSteps
<1>9. ASSUME NEW p \in Watched, NegotiationFails(p) PROVE TypeOK'
  BY <1>9 DEF TypeOK, service, pipeline, manager, sockets, NegotiationFails, Unlist, Kinds, OfferSteps, Connections, ManagerSteps, SocketSteps
<1>10. ASSUME NEW p \in Watched, CloseDoomed(p) PROVE TypeOK'
  BY <1>10 DEF TypeOK, service, pipeline, manager, sockets, CloseDoomed, Unlist, Kinds, OfferSteps, Connections, ManagerSteps, SocketSteps
<1>11. ASSUME NEW p \in Watched, TakeLease(p) PROVE TypeOK'
  BY <1>11 DEF TypeOK, service, pipeline, manager, sockets, TakeLease, Manager, Kinds, OfferSteps, Connections, ManagerSteps, SocketSteps
<1>12. ASSUME NEW p \in Watched, CountPeer(p) PROVE TypeOK'
  BY <1>12 DEF TypeOK, service, pipeline, manager, sockets, CountPeer, Manager, ConnectionOpened, Kinds, OfferSteps, Connections, ManagerSteps, SocketSteps
<1>13. ASSUME NEW p \in Watched, TakeTick(p) PROVE TypeOK'
  BY <1>13 DEF TypeOK, service, pipeline, manager, sockets, TakeTick, Manager, Kinds, OfferSteps, Connections, ManagerSteps, SocketSteps
<1>14. ASSUME NEW p \in Watched, Reauthenticate(p) PROVE TypeOK'
  BY <1>14 DEF TypeOK, service, pipeline, manager, sockets, Reauthenticate, Manager, Kinds, OfferSteps, Connections, ManagerSteps, SocketSteps
<1>15. ASSUME NEW p \in Watched, Renew(p) PROVE TypeOK'
  <2>1. left' \in [Watched -> 0..Longest]
    BY <1>15, <1>t, LeaseSet DEF Renew
  <2> QED BY <1>15, <2>1 DEF TypeOK, service, pipeline, manager, sockets, Renew, Manager, OfferSteps, Connections, ManagerSteps
<1>16. ASSUME NEW p \in Watched, RenewAnswered(p) PROVE TypeOK'
  BY <1>16 DEF TypeOK, service, pipeline, manager, sockets, RenewAnswered, Manager, Kinds, OfferSteps, Connections, ManagerSteps, SocketSteps
<1>17. ASSUME NEW p \in Watched, DeleteLease(p) PROVE TypeOK'
  BY <1>17 DEF TypeOK, service, pipeline, manager, sockets, DeleteLease, Manager, Unlist, ConnectionClosed, Kinds, OfferSteps, Connections, ManagerSteps, SocketSteps
<1>18. ASSUME NEW s \in Sockets, SocketRequest(s) PROVE TypeOK'
  BY <1>18 DEF TypeOK, service, pipeline, manager, sockets, SocketRequest, Socket, ConnectionOpened, Kinds, OfferSteps, Connections, ManagerSteps, SocketSteps
<1>19. ASSUME NEW s \in Sockets, Hijack(s) PROVE TypeOK'
  BY <1>19 DEF TypeOK, service, pipeline, manager, sockets, Hijack, Socket, Kinds, OfferSteps, Connections, ManagerSteps, SocketSteps
<1>20. ASSUME NEW s \in Sockets, RecordConnection(s) PROVE TypeOK'
  BY <1>20 DEF TypeOK, service, pipeline, manager, sockets, RecordConnection, Socket, Kinds, OfferSteps, Connections, ManagerSteps, SocketSteps
<1>21. ASSUME NEW s \in Sockets, SocketEnds(s) PROVE TypeOK'
  BY <1>21 DEF TypeOK, service, pipeline, manager, sockets, SocketEnds, Socket, ConnectionClosed, Kinds, OfferSteps, Connections, ManagerSteps, SocketSteps
<1>22. ASSUME NEW s \in Sockets, Revoke(s) PROVE TypeOK'
  BY <1>22 DEF TypeOK, service, pipeline, manager, sockets, Revoke, Kinds, OfferSteps, Connections, ManagerSteps, SocketSteps
<1>23. ASSUME NEW s \in Sockets, SocketFails(s) PROVE TypeOK'
  BY <1>23 DEF TypeOK, service, pipeline, manager, sockets, SocketFails, Socket, Kinds, OfferSteps, Connections, ManagerSteps, SocketSteps
<1>24. ASSUME Sweep PROVE TypeOK'
  BY <1>24 DEF TypeOK, service, pipeline, manager, sockets, Sweep, Kinds, OfferSteps, Connections, ManagerSteps, SocketSteps
<1>25. ASSUME RevokeLogin PROVE TypeOK'
  BY <1>25 DEF TypeOK, service, pipeline, manager, sockets, RevokeLogin, Valid, Kinds, OfferSteps, Connections, ManagerSteps, SocketSteps
<1>26. ASSUME ManagerDies PROVE TypeOK'
  BY <1>26 DEF TypeOK, service, pipeline, manager, sockets, ManagerDies, Kinds, OfferSteps, Connections, ManagerSteps, SocketSteps
<1>27. ASSUME Tick PROVE TypeOK'
  BY <1>27 DEF TypeOK, service, pipeline, manager, sockets, Tick, Less, Valid, Kinds, OfferSteps, Connections, ManagerSteps, SocketSteps
<1>28. ASSUME UNCHANGED vars PROVE TypeOK'
  BY <1>28 DEF TypeOK, vars
<1> QED BY <1>1, <1>2, <1>3, <1>4, <1>5, <1>6, <1>7, <1>8, <1>9, <1>10, <1>11, <1>12, <1>13, <1>14, <1>15, <1>16, <1>17, <1>18, <1>19, <1>20, <1>21, <1>22, <1>23, <1>24, <1>25, <1>26, <1>27, <1>28, Steps, Zenon

----------------------------------------------------------------------------
(* The encoders.                                                           *)

\* Somebody will release p's tracks.
Kept(p) == offer[p] = "added" \/ conn[p] \in {"listed", "unlisted"}

LEMMA KeptTracks ==
    EncodersServePeers <=>
        /\ encoding <=> ~NoTracks(tracks)
        /\ \A p \in Peers : (\E k \in Kinds : p \in tracks[k]) => Kept(p)
  BY DEF EncodersServePeers, Kinds, Kept

\* A step that leaves the tracks alone.
LEMMA TracksAlone ==
  ASSUME EncodersServePeers, UNCHANGED pipeline, \A p \in Peers : Kept(p) => Kept(p)'
  PROVE  EncodersServePeers'
  BY DEF EncodersServePeers, Kept, NoTracks, pipeline

\* A step that takes tracks away.
LEMMA TracksGone ==
  ASSUME EncodersServePeers, StopIfUnused(tracks'), TypeOK, TypeOK',
         \A k \in Kinds : tracks'[k] \subseteq tracks[k],
         \A p \in Peers : (\E k \in Kinds : p \in tracks'[k]) /\ Kept(p) => Kept(p)'
  PROVE  EncodersServePeers'
<1>1. encoding' <=> ~NoTracks(tracks')
  <2>1. NoTracks(tracks) => NoTracks(tracks')
    BY DEF NoTracks
  <2>2. encoding' = (encoding /\ ~NoTracks(tracks'))
    BY DEF StopIfUnused
  <2>3. encoding <=> ~NoTracks(tracks)
    BY DEF EncodersServePeers
  <2> QED BY <2>1, <2>2, <2>3
<1>2. \A p \in Peers : (\E k \in Kinds : p \in tracks'[k]) => Kept(p)'
  BY KeptTracks
<1>3. (encoding <=> ~NoTracks(tracks))' <=> (encoding' <=> ~NoTracks(tracks'))
  BY DEF NoTracks
<1> QED BY <1>1, <1>2, <1>3 DEF EncodersServePeers, Kept, Kinds

LEMMA EncodersKept ==
    TypeOK /\ TypeOK' /\ Begun /\ EncodersServePeers /\ [Next]_vars
        => Begun' /\ EncodersServePeers'
<1> SUFFICES ASSUME TypeOK, TypeOK', Begun, EncodersServePeers, [Next]_vars
             PROVE  Begun' /\ EncodersServePeers'
  OBVIOUS
<1> USE PeerAssumption
<1>1. ASSUME NEW p \in Peers, AddTracks(p) PROVE Begun' /\ EncodersServePeers'
  <2>1. Begun'
    BY <1>1 DEF Begun, AddTracks, TypeOK
  <2>2. CASE /\ offer' = [offer EXCEPT ![p] = "added"]
             /\ tracks' = [k \in Kinds |-> tracks[k] \cup {p}]
             /\ encoding' = (encoding \/ NoTracks(tracks))
             /\ UNCHANGED conn
    <3>1. encoding' /\ ~NoTracks(tracks')
      <4>1. encoding'
        BY <2>2 DEF EncodersServePeers
      <4>2. p \in tracks'["video"]
        BY <2>2 DEF Kinds
      <4> QED BY <4>1, <4>2 DEF NoTracks, Kinds
    <3>2. ASSUME NEW q \in Peers, q \in tracks'["video"] \cup tracks'["audio"]
          PROVE  offer'[q] = "added" \/ conn'[q] \in {"listed", "unlisted"}
      BY <2>2, <3>2 DEF EncodersServePeers, Kinds, TypeOK
    <3> QED BY <2>1, <3>1, <3>2 DEF EncodersServePeers, NoTracks
  <2>3. CASE NoTracks(tracks) /\ UNCHANGED pipeline
    BY <2>1, <2>3 DEF EncodersServePeers, NoTracks, Kinds, pipeline
  <2> QED BY <1>1, <2>2, <2>3 DEF AddTracks
<1>2. ASSUME NEW p \in Peers, Release(p) PROVE Begun' /\ EncodersServePeers'
  <2>1. Begun'
    BY <1>2 DEF Begun, Release, TypeOK
  <2>2. \A k \in Kinds : tracks'[k] = tracks[k] \ {p}
    BY <1>2 DEF Release
  <2>3. \A q \in Peers : q # p /\ Kept(q) => Kept(q)'
    BY <1>2 DEF Release, Kept, TypeOK
  <2> QED BY <1>2, <2>1, <2>2, <2>3, TracksGone DEF Release
<1>3. ASSUME NEW p \in Peers, NEW k \in Kinds, WriteFails(p, k)
      PROVE  Begun' /\ EncodersServePeers'
  <2>1. Begun' /\ \A q \in Peers : Kept(q) => Kept(q)'
    BY <1>3 DEF Begun, Kept, WriteFails
  <2>2. \A l \in Kinds : tracks'[l] \subseteq tracks[l]
    BY <1>3 DEF WriteFails, TypeOK
  <2> QED BY <1>3, <2>1, <2>2, TracksGone DEF WriteFails
<1>4. ASSUME UNCHANGED pipeline, Begun', \A p \in Peers : Kept(p) => Kept(p)'
      PROVE  Begun' /\ EncodersServePeers'
  BY <1>4, TracksAlone
<1>5. ASSUME UNCHANGED <<service>> PROVE Begun' /\ EncodersServePeers'
  <2>1. UNCHANGED pipeline /\ Begun' /\ \A p \in Peers : Kept(p) => Kept(p)'
    BY <1>5 DEF service, pipeline, Begun, Kept
  <2> QED BY <1>4, <2>1
<1> DEFINE Fine == UNCHANGED pipeline /\ Begun' /\ \A p \in Peers : Kept(p) => Kept(p)'
<1>6. ASSUME NEW p \in Peers, Offer(p) PROVE Fine
  BY <1>6 DEF Offer, Begun, Kept, TypeOK, service, pipeline
<1>7. ASSUME NEW p \in Peers, ListPeer(p) PROVE Fine
  BY <1>7 DEF ListPeer, Begun, Kept, TypeOK, service, pipeline
<1>8. ASSUME NEW p \in Peers, Disconnect(p) PROVE Fine
  BY <1>8 DEF Disconnect, Unlist, Begun, Kept, TypeOK, service, pipeline
<1>9. ASSUME NEW p \in Watched, OfferEnds(p) PROVE Fine
  BY <1>9 DEF OfferEnds, Begun, Kept, TypeOK, service, pipeline
<1>10. ASSUME NEW p \in Watched, Answer(p) PROVE Fine
  BY <1>10 DEF Answer, Begun, Kept, TypeOK, service, pipeline
<1>11. ASSUME NEW p \in Watched, NegotiationFails(p) PROVE Fine
  BY <1>11 DEF NegotiationFails, Unlist, Begun, Kept, TypeOK, service, pipeline
<1>12. ASSUME NEW p \in Watched, CloseDoomed(p) PROVE Fine
  BY <1>12 DEF CloseDoomed, Unlist, Begun, Kept, TypeOK, service, pipeline
<1>13. ASSUME NEW p \in Watched, TakeLease(p) PROVE Fine
  BY <1>13 DEF TakeLease, Begun, Kept, TypeOK, service, pipeline
<1>14. ASSUME NEW p \in Watched, DeleteLease(p) PROVE Fine
  BY <1>14 DEF DeleteLease, Unlist, Begun, Kept, TypeOK, service, pipeline
<1>15. ASSUME ManagerDies PROVE Fine
  BY <1>15 DEF ManagerDies, Begun, Kept, TypeOK, service, pipeline
<1>16. ASSUME \/ \E p \in Watched : CountPeer(p) \/ TakeTick(p) \/ Reauthenticate(p)
                                  \/ Renew(p) \/ RenewAnswered(p)
              \/ \E s \in Sockets : \/ SocketRequest(s) \/ Hijack(s) \/ RecordConnection(s)
                                   \/ SocketEnds(s) \/ Revoke(s) \/ SocketFails(s)
              \/ RevokeLogin \/ Tick \/ UNCHANGED vars
       PROVE  UNCHANGED <<service>>
  BY <1>16 DEF CountPeer, TakeTick, Reauthenticate, Renew, RenewAnswered, SocketRequest,
               Hijack, RecordConnection, SocketEnds, Revoke, SocketFails, RevokeLogin,
               Tick, vars, service
<1>17. ASSUME Sweep PROVE Fine
  BY <1>17 DEF Sweep, Begun, Kept, pipeline
<1> HIDE DEF Fine
<1>18. ASSUME Fine PROVE Begun' /\ EncodersServePeers'
  BY <1>18, <1>4 DEF Fine
<1> QED BY <1>1, <1>2, <1>3, <1>5, <1>6, <1>7, <1>8, <1>9, <1>10, <1>11, <1>12, <1>13, <1>14, <1>15, <1>16, <1>17, <1>18, Steps, Zenon

----------------------------------------------------------------------------
(* The count of connections.                                               *)

\* Whoever is counted still has its ConnectionClosed before it.
Open(p) == mgr[p] \in Counting
OpenSocket(s) == sock[s] \in {"dialing", "raw", "open", "shut"}

LEMMA CountUp ==
  ASSUME NEW c, c \notin counted, IsFiniteSet(counted), CountsBalance, ConnectionOpened(c)
  PROVE  /\ IsFiniteSet(counted') /\ CountsBalance'
         /\ counted' = counted \cup {c}
<1>1. IsFiniteSet(counted \cup {c}) /\ Cardinality(counted \cup {c}) = Cardinality(counted) + 1
  BY FS_AddElement
<1> QED BY <1>1 DEF ConnectionOpened, CountsBalance

LEMMA CountDown ==
  ASSUME NEW c, IsFiniteSet(counted), CountsBalance, ConnectionClosed(c)
  PROVE  /\ IsFiniteSet(counted') /\ CountsBalance'
         /\ counted' = counted \ {c}
<1>1. IsFiniteSet(counted \ {c}) /\ Cardinality(counted) \in Nat
      /\ Cardinality(counted \ {c}) =
            IF c \in counted THEN Cardinality(counted) - 1 ELSE Cardinality(counted)
  BY FS_RemoveElement, FS_CardinalityType
<1>2. c \in counted => Cardinality(counted) # 0
  BY FS_EmptySet
<1>3. CASE c \in counted
  <2>1. counted' = counted \ {c} /\ count' = IF count > 1 THEN count - 1 ELSE 0
    BY <1>3 DEF ConnectionClosed
  <2>2. count' = Cardinality(counted \ {c})
    BY <1>1, <1>2, <1>3, <2>1 DEF CountsBalance
  <2> QED BY <1>1, <2>1, <2>2 DEF CountsBalance
<1>4. CASE c \notin counted
  BY <1>4 DEF ConnectionClosed, CountsBalance
<1> QED BY <1>3, <1>4

LEMMA CountsKept ==
    TypeOK /\ CountedAreOpen /\ CountsBalance /\ [Next]_vars
        => CountedAreOpen' /\ CountsBalance'
<1> SUFFICES ASSUME TypeOK, CountedAreOpen, CountsBalance, [Next]_vars
             PROVE  CountedAreOpen' /\ CountsBalance'
  OBVIOUS
<1> USE PeerAssumption
<1> DEFINE Stay == /\ UNCHANGED <<counted, count>>
                   /\ \A p \in Watched \cap counted : Open(p)'
                   /\ \A s \in Sockets \cap counted : OpenSocket(s)'
<1>a. ASSUME Stay PROVE CountedAreOpen' /\ CountsBalance'
  BY <1>a DEF CountedAreOpen, CountsBalance, Open, OpenSocket
<1>1. ASSUME \/ \E p \in Peers :
                   \/ AddTracks(p) \/ ListPeer(p) \/ Release(p) \/ Disconnect(p)
                   \/ \E k \in Kinds : WriteFails(p, k)
             \/ \E p \in Watched : Answer(p) \/ NegotiationFails(p) \/ CloseDoomed(p)
             \/ Sweep \/ RevokeLogin \/ UNCHANGED vars
      PROVE  UNCHANGED <<mgr, counted, count, sock>>
  BY <1>1 DEF AddTracks, ListPeer, Release, Disconnect, WriteFails, Answer, NegotiationFails,
              CloseDoomed, Sweep, RevokeLogin, vars, manager, sockets
<1>2. ASSUME UNCHANGED <<mgr, counted, count, sock>> PROVE Stay
  BY <1>2 DEF CountedAreOpen, Open, OpenSocket
<1>3. ASSUME NEW p \in Watched, OfferEnds(p) PROVE Stay
  BY <1>3 DEF OfferEnds, Manager, sockets, CountedAreOpen, Open, OpenSocket, Counting, TypeOK
<1>4. ASSUME NEW p \in Watched, TakeLease(p) PROVE Stay
  BY <1>4 DEF TakeLease, Manager, sockets, CountedAreOpen, Open, OpenSocket, Counting, TypeOK
<1>5. ASSUME NEW p \in Watched, TakeTick(p) PROVE Stay
  BY <1>5 DEF TakeTick, Manager, sockets, CountedAreOpen, Open, OpenSocket, Counting, TypeOK
<1>6. ASSUME NEW p \in Watched, Reauthenticate(p) PROVE Stay
  BY <1>6 DEF Reauthenticate, Manager, sockets, CountedAreOpen, Open, OpenSocket, Counting, TypeOK
<1>7. ASSUME NEW p \in Watched, Renew(p) PROVE Stay
  BY <1>7 DEF Renew, Manager, sockets, CountedAreOpen, Open, OpenSocket, Counting, TypeOK
<1>8. ASSUME NEW p \in Watched, RenewAnswered(p) PROVE Stay
  BY <1>8 DEF RenewAnswered, Manager, sockets, CountedAreOpen, Open, OpenSocket, Counting, TypeOK
<1>9. ASSUME NEW p \in Peers, Offer(p) PROVE Stay
  BY <1>9 DEF Offer, Manager, sockets, CountedAreOpen, Open, OpenSocket, Counting, TypeOK
<1>10. ASSUME NEW s \in Sockets, Hijack(s) PROVE Stay
  BY <1>10 DEF Hijack, Socket, manager, CountedAreOpen, Open, OpenSocket, TypeOK
<1>11. ASSUME NEW s \in Sockets, RecordConnection(s) PROVE Stay
  BY <1>11 DEF RecordConnection, Socket, manager, CountedAreOpen, Open, OpenSocket, TypeOK
<1>12. ASSUME NEW s \in Sockets, Revoke(s) PROVE Stay
  BY <1>12 DEF Revoke, Socket, manager, CountedAreOpen, Open, OpenSocket, TypeOK
<1>13. ASSUME NEW s \in Sockets, SocketFails(s) PROVE Stay
  BY <1>13 DEF SocketFails, Socket, manager, CountedAreOpen, Open, OpenSocket, TypeOK
<1>14. ASSUME Tick PROVE Stay
  BY <1>14 DEF Tick, sockets, CountedAreOpen, Open, OpenSocket
<1>15. ASSUME NEW p \in Watched, CountPeer(p) PROVE CountedAreOpen' /\ CountsBalance'
  <2>1. p \notin counted
    BY <1>15 DEF CountPeer, Manager, CountedAreOpen, Counting
  <2>2. CASE Manager(p, "opening", "waiting", 0) /\ ConnectionOpened(p)
    <3>1. IsFiniteSet(counted') /\ CountsBalance' /\ counted' = counted \cup {p}
      BY <2>1, <2>2, CountUp DEF CountedAreOpen
    <3> QED BY <1>15, <2>2, <3>1
         DEF CountPeer, Manager, sockets, CountedAreOpen, Counting, TypeOK
  <2>3. CASE Manager(p, "opening", "deleting", CallTimeout) /\ UNCHANGED <<tick, counted, count>>
    <3>1. Stay
      BY <1>15, <2>3 DEF CountPeer, Manager, sockets, CountedAreOpen, Open, OpenSocket, Counting, TypeOK
    <3> QED BY <3>1, <1>a
  <2> QED BY <1>15, <2>2, <2>3 DEF CountPeer
<1>16. ASSUME NEW p \in Watched, DeleteLease(p) PROVE CountedAreOpen' /\ CountsBalance'
  <2>1. IsFiniteSet(counted') /\ CountsBalance' /\ counted' = counted \ {p}
    BY <1>16, CountDown DEF DeleteLease, CountedAreOpen
  <2> QED BY <1>16, <2>1 DEF DeleteLease, Manager, sockets, CountedAreOpen, TypeOK
<1>17. ASSUME NEW s \in Sockets, SocketRequest(s) PROVE CountedAreOpen' /\ CountsBalance'
  <2>1. s \notin counted
    BY <1>17 DEF SocketRequest, Socket, CountedAreOpen
  <2>2. IsFiniteSet(counted') /\ CountsBalance' /\ counted' = counted \cup {s}
    BY <1>17, <2>1, CountUp DEF SocketRequest, CountedAreOpen
  <2> QED BY <1>17, <2>2 DEF SocketRequest, Socket, CountedAreOpen, TypeOK
<1>18. ASSUME NEW s \in Sockets, SocketEnds(s) PROVE CountedAreOpen' /\ CountsBalance'
  <2>1. IsFiniteSet(counted') /\ CountsBalance' /\ counted' = counted \ {s}
    BY <1>18, CountDown DEF SocketEnds, CountedAreOpen
  <2> QED BY <1>18, <2>1 DEF SocketEnds, Socket, CountedAreOpen, TypeOK
<1>19. ASSUME ManagerDies PROVE CountedAreOpen' /\ CountsBalance'
  BY <1>19, FS_EmptySet DEF ManagerDies, CountedAreOpen, CountsBalance
<1> HIDE DEF Stay
<1> QED BY <1>a, <1>1, <1>2, <1>3, <1>4, <1>5, <1>6, <1>7, <1>8, <1>9, <1>10, <1>11, <1>12, <1>13, <1>14, <1>15, <1>16, <1>17, <1>18, <1>19, Steps, Zenon

----------------------------------------------------------------------------
(* Sockets in time.                                                        *)

LEMMA SocketsKept ==
    TypeOK /\ (\A s \in Sockets : SocketInTime(s)) /\ [Next]_vars
        => \A s \in Sockets : SocketInTime(s)'
<1> SUFFICES ASSUME TypeOK, \A s \in Sockets : SocketInTime(s), [Next]_vars,
                    NEW s \in Sockets
             PROVE  SocketInTime(s)'
  OBVIOUS
<1> USE Bounds
<1>1. ASSUME UNCHANGED <<sock, cut, since>> PROVE SocketInTime(s)'
  BY <1>1 DEF SocketInTime
<1>2. ASSUME \/ \E p \in Peers :
                   \/ Offer(p) \/ AddTracks(p) \/ ListPeer(p) \/ Release(p) \/ Disconnect(p)
                   \/ \E k \in Kinds : WriteFails(p, k)
             \/ \E p \in Watched :
                   \/ OfferEnds(p) \/ Answer(p) \/ NegotiationFails(p) \/ CloseDoomed(p)
                   \/ TakeLease(p) \/ CountPeer(p) \/ TakeTick(p) \/ Reauthenticate(p)
                   \/ Renew(p) \/ RenewAnswered(p) \/ DeleteLease(p)
             \/ Sweep \/ UNCHANGED vars
      PROVE  UNCHANGED <<sock, cut, since>>
  BY <1>2 DEF Offer, AddTracks, ListPeer, Release, Disconnect, WriteFails, OfferEnds, Answer,
              NegotiationFails, CloseDoomed, TakeLease, CountPeer, TakeTick, Reauthenticate,
              Renew, RenewAnswered, DeleteLease, Sweep, vars, sockets
<1>3. ASSUME NEW t \in Sockets, SocketRequest(t) PROVE SocketInTime(s)'
  BY <1>3 DEF SocketRequest, Socket, Valid, SocketInTime, TypeOK
<1>4. ASSUME NEW t \in Sockets, Hijack(t) PROVE SocketInTime(s)'
  BY <1>4 DEF Hijack, Socket, SocketInTime, TypeOK
<1>5. ASSUME NEW t \in Sockets, RecordConnection(t) PROVE SocketInTime(s)'
  BY <1>5 DEF RecordConnection, Socket, SocketInTime, TypeOK
<1>6. ASSUME NEW t \in Sockets, SocketEnds(t) PROVE SocketInTime(s)'
  BY <1>6 DEF SocketEnds, Socket, SocketInTime, TypeOK
<1>7. ASSUME NEW t \in Sockets, Revoke(t) PROVE SocketInTime(s)'
  BY <1>7 DEF Revoke, Socket, SocketInTime, TypeOK
<1>8. ASSUME NEW t \in Sockets, SocketFails(t) PROVE SocketInTime(s)'
  BY <1>8 DEF SocketFails, Socket, SocketInTime, TypeOK
<1>9. ASSUME RevokeLogin PROVE SocketInTime(s)'
  BY <1>9 DEF RevokeLogin, sockets, SocketInTime, TypeOK
<1>10. ASSUME ManagerDies PROVE SocketInTime(s)'
  BY <1>10 DEF ManagerDies, sockets, SocketInTime, TypeOK
<1>11. ASSUME Tick PROVE SocketInTime(s)'
  BY <1>11 DEF Tick, Urgent, Valid, sockets, SocketInTime, TypeOK
<1> QED BY <1>1, <1>2, <1>3, <1>4, <1>5, <1>6, <1>7, <1>8, <1>9, <1>10, <1>11, Steps, Zenon

----------------------------------------------------------------------------
(* Peers in time.                                                          *)

\* All that InTime(p) reads.
Known(p) == <<offer[p], conn[p], left[p], mgr[p], due[p], tick[p], since>>

\* Steps of another peer.
LEMMA Others ==
  ASSUME NEW p \in Watched, InTime(p), UNCHANGED Known(p)
  PROVE  InTime(p)'
  BY DEF InTime, Follows, Timed, Lasts, Notices, RunsOut, Known

\* Steps by which at most the connection of the peer is lost.
LEMMA ConnectionLost ==
  ASSUME NEW p \in Watched, InTime(p),
         UNCHANGED <<offer[p], left[p], mgr[p], due[p], tick[p], since>>,
         conn'[p] = "listed" => conn[p] = "listed"
  PROVE  InTime(p)'
  BY DEF InTime, Follows, Timed, Lasts, Notices, RunsOut

LEMMA OffersInTime ==
  ASSUME NEW p \in Watched, TypeOK, Begun, InTime(p), NEW q \in Peers,
         \/ Offer(q) \/ AddTracks(q) \/ ListPeer(q) \/ Release(q) \/ Disconnect(q)
         \/ \E k \in Kinds : WriteFails(q, k)
  PROVE  InTime(p)'
<1> USE PeerAssumption, Times, Bounds
<1>1. CASE Offer(q)
  <2>1. CASE q = p
    BY <1>1, <2>1 DEF Offer, Manager, Valid, sockets, InTime, Follows, Timed, Lasts, Notices,
                      RunsOut, TypeOK
  <2>2. CASE q # p
    <3> UNCHANGED Known(p)
      BY <1>1, <2>2 DEF Offer, Manager, Known, TypeOK
    <3> QED BY Others
  <2> QED BY <2>1, <2>2
<1>2. CASE AddTracks(q)
  <2>1. CASE q = p
    BY <1>2, <2>1 DEF AddTracks, manager, InTime, Follows, Timed, Lasts, Notices, RunsOut, TypeOK
  <2>2. CASE q # p
    <3> UNCHANGED Known(p)
      BY <1>2, <2>2 DEF AddTracks, manager, Known, TypeOK
    <3> QED BY Others
  <2> QED BY <2>1, <2>2
<1>3. CASE ListPeer(q)
  <2>0. left \in [Watched -> 0..Longest]
    BY DEF TypeOK
  <2>1. CASE q = p
    BY <1>3, <2>1 DEF ListPeer, manager, InTime, Follows, Timed, Lasts, Notices, RunsOut, TypeOK
  <2>2. CASE q # p
    <3>1. left'[p] = left[p]
      BY <1>3, <2>0, <2>2, LeaseSet DEF ListPeer
    <3>2. UNCHANGED Known(p)
      BY <1>3, <2>2, <3>1 DEF ListPeer, manager, Known, TypeOK
    <3> QED BY <3>2, Others
  <2> QED BY <2>1, <2>2
<1>4. CASE Release(q)
  BY <1>4, ConnectionLost DEF Release, manager, TypeOK
<1>5. CASE Disconnect(q)
  BY <1>5, ConnectionLost DEF Disconnect, Unlist, manager, TypeOK
<1>6. ASSUME NEW k \in Kinds, WriteFails(q, k) PROVE InTime(p)'
  BY <1>6, ConnectionLost DEF WriteFails, manager
<1> QED BY <1>1, <1>2, <1>3, <1>4, <1>5, <1>6

LEMMA WatchedInTime ==
  ASSUME NEW p \in Watched, TypeOK, InTime(p), NEW q \in Watched,
         \/ OfferEnds(q) \/ Answer(q) \/ NegotiationFails(q) \/ CloseDoomed(q)
         \/ TakeLease(q) \/ CountPeer(q) \/ TakeTick(q) \/ Reauthenticate(q)
         \/ Renew(q) \/ RenewAnswered(q) \/ DeleteLease(q)
  PROVE  InTime(p)'
<1> USE PeerAssumption, Times, Bounds
<1>0. left \in [Watched -> 0..Longest]
  BY DEF TypeOK
<1>1. CASE q # p
  <2>1. CASE Answer(q) \/ Renew(q)
    <3>1. left'[p] = left[p]
      BY <1>0, <1>1, <2>1, LeaseSet DEF Answer, Renew
    <3>2. UNCHANGED Known(p)
      BY <1>1, <2>1, <3>1 DEF Answer, Renew, Manager, manager, service, Known, TypeOK
    <3> QED BY <3>2, Others
  <2>2. CASE NegotiationFails(q) \/ CloseDoomed(q) \/ DeleteLease(q)
    BY <1>1, <2>2, ConnectionLost
       DEF NegotiationFails, CloseDoomed, DeleteLease, Manager, Unlist, manager, TypeOK
  <2>3. CASE \/ OfferEnds(q) \/ TakeLease(q) \/ CountPeer(q) \/ TakeTick(q)
             \/ Reauthenticate(q) \/ RenewAnswered(q)
    <3> UNCHANGED Known(p)
      BY <1>1, <2>3 DEF OfferEnds, TakeLease, CountPeer, TakeTick, Reauthenticate,
                        RenewAnswered, Manager, service, Known, TypeOK
    <3> QED BY Others
  <2> QED BY <2>1, <2>2, <2>3
<1>2. CASE q = p
  <2> USE <1>2
  <2>1. CASE OfferEnds(p)
    BY <2>1
       DEF OfferEnds, Manager, InTime, Follows, Timed, Lasts, Notices, RunsOut,
           GuardDelay, Limit, TypeOK
  <2>2. CASE Answer(p)
    <3>1. conn'[p] = "listed" =>
             LeaseTime <= left'[p] /\ left'[p] <= LeaseTime + SweepPeriod
      BY <1>0, <2>2, LeaseSet DEF Answer
    <3>2. conn'[p] = conn[p]
      BY <2>2 DEF Answer, service
    <3>3. left' \in [Watched -> 0..Longest]
      BY <1>0, <2>2, LeaseSet DEF Answer
    <3>4. Follows(p)' /\ Timed(p)' /\ Notices(p)'
      BY <2>2 DEF Answer, Manager, manager, InTime, Follows, Timed, Notices, RunsOut, TypeOK
    <3>5. Lasts(p)'
      BY <2>2, <3>1, <3>2, <3>3
         DEF Answer, Manager, manager, InTime, Follows, Timed, Lasts, TypeOK
    <3>6. RunsOut(p)'
      BY <2>2, <3>1, <3>2, <3>3
         DEF Answer, Manager, manager, InTime, Follows, Notices, RunsOut, GuardDelay, Limit, TypeOK
    <3> QED BY <3>4, <3>5, <3>6 DEF InTime
  <2>3. CASE NegotiationFails(p)
    BY <2>3
       DEF NegotiationFails, Manager, Unlist, manager, InTime, Follows, Timed, Lasts, Notices, RunsOut,
           GuardDelay, Limit, TypeOK
  <2>4. CASE CloseDoomed(p)
    BY <2>4
       DEF CloseDoomed, Manager, Unlist, manager, InTime, Follows, Timed, Lasts, Notices, RunsOut,
           GuardDelay, Limit, TypeOK
  <2>5. CASE TakeLease(p)
    BY <2>5
       DEF TakeLease, Manager, InTime, Follows, Timed, Lasts, Notices, RunsOut,
           GuardDelay, Limit, TypeOK
  <2>6. CASE CountPeer(p)
    BY <2>6
       DEF CountPeer, Manager, service, InTime, Follows, Timed, Lasts, Notices, RunsOut,
           GuardDelay, Limit, TypeOK
  <2>7. CASE TakeTick(p)
    BY <2>7
       DEF TakeTick, Manager, service, InTime, Follows, Timed, Lasts, Notices, RunsOut,
           GuardDelay, Limit, TypeOK
  <2>8. CASE Reauthenticate(p)
    BY <2>8
       DEF Reauthenticate, Manager, Valid, service, InTime, Follows, Timed, Lasts, Notices, RunsOut,
           GuardDelay, Limit, TypeOK
  <2>9. CASE Renew(p)
    <3>1. conn'[p] = "listed" =>
             LeaseTime <= left'[p] /\ left'[p] <= LeaseTime + SweepPeriod
      BY <1>0, <2>9, LeaseSet DEF Renew
    <3>2. conn'[p] = conn[p] /\ offer'[p] = offer[p] /\ tick'[p] = tick[p] /\ since' = since
      BY <2>9 DEF Renew, service
    <3>3. left'[p] \in Nat /\ tick[p] \in 0..TickPeriod /\ due[p] \in Nat /\ since \in Int
      BY <1>0, <2>9, LeaseSet DEF Renew, TypeOK
    <3>4. mgr[p] = "renewing" /\ offer[p] = "ended"
      BY <2>9 DEF Renew, Manager, InTime, Follows, TypeOK, OfferSteps
    <3>5. due'[p] = due[p] /\ mgr'[p] = IF conn[p] = "listed" THEN "renewed" ELSE "refused"
      BY <2>9 DEF Renew, Manager, TypeOK
    <3>6. due[p] <= CallTimeout /\ since + due[p] <= CallTimeout
      BY <3>4 DEF InTime, Timed, Notices
    <3>7. Follows(p)' /\ Timed(p)' /\ Notices(p)'
      BY <3>2, <3>4, <3>5, <3>6 DEF Follows, Timed, Notices
    <3>8. Lasts(p)'
      BY <3>1, <3>2, <3>3, <3>4, <3>5, <3>6 DEF Lasts
    <3>9. RunsOut(p)'
      BY <3>1, <3>2, <3>3, <3>4, <3>6 DEF RunsOut, GuardDelay, Limit
    <3> QED BY <3>7, <3>8, <3>9 DEF InTime
  <2>10. CASE RenewAnswered(p)
    BY <2>10
       DEF RenewAnswered, Manager, service, InTime, Follows, Timed, Lasts, Notices, RunsOut,
           GuardDelay, Limit, TypeOK
  <2>11. CASE DeleteLease(p)
    BY <2>11
       DEF DeleteLease, Manager, Unlist, InTime, Follows, Timed, Lasts, Notices, RunsOut,
           GuardDelay, Limit, TypeOK
  <2> QED BY <2>1, <2>2, <2>3, <2>4, <2>5, <2>6, <2>7, <2>8, <2>9, <2>10, <2>11
<1> QED BY <1>1, <1>2

LEMMA TimePasses ==
  ASSUME NEW p \in Watched, TypeOK, InTime(p), Tick
  PROVE  InTime(p)'
<1> USE PeerAssumption, Times, Bounds
<1>1. /\ offer'[p] = offer[p] /\ conn'[p] = conn[p] /\ mgr'[p] = mgr[p]
      /\ left'[p] = IF conn[p] = "listed" THEN Less(left[p]) ELSE 0
      /\ due'[p] = Less(due[p])
      /\ tick'[p] = IF mgr[p] \in {"deleting", "done"} THEN 0 ELSE Less(tick[p])
      /\ since' = since \/ since' = since + 1
      /\ Valid => since' = since
  BY DEF Tick, service, sockets
<1>2. /\ left[p] \in Nat /\ due[p] \in Nat /\ tick[p] \in Nat /\ since \in Int /\ since >= -1
  BY DEF TypeOK
<1>3. /\ conn[p] = "listed" => left[p] # 0
      /\ offer[p] \notin {"offered", "added", "answered"}
      /\ offer[p] = "negotiating" => mgr[p] = "offering"
      /\ mgr[p] = "offering" => since < GuardDelay
      /\ mgr[p] \in {"opening", "checking", "renewing", "renewed", "refused", "deleting"}
            => due[p] # 0
      /\ mgr[p] = "waiting" => tick[p] # 0
  BY <1>2 DEF Tick, Urgent
<1>4. Follows(p)' /\ Timed(p)'
  BY <1>1, <1>2 DEF InTime, Follows, Timed, Less
<1>5. Lasts(p)'
  BY <1>1, <1>2, <1>3 DEF InTime, Lasts, Less
<1>6. Notices(p)'
  BY <1>1, <1>2, <1>3 DEF InTime, Notices, Less
<1>7. RunsOut(p)'
  <2>1. offer[p] \in {"offered", "added", "negotiating"} => since' <= GuardDelay
    BY <1>1, <1>2, <1>3
  <2>2. conn[p] = "listed" /\ offer[p] # "negotiating" =>
           left'[p] <= LeaseTime + SweepPeriod /\ since' + left'[p] <= Limit
    BY <1>1, <1>2, <1>3 DEF InTime, RunsOut, Less
  <2> QED BY <1>1, <2>1, <2>2 DEF RunsOut
<1> QED BY <1>4, <1>5, <1>6, <1>7 DEF InTime

LEMMA PeersKept ==
    TypeOK /\ Begun /\ (\A p \in Watched : InTime(p)) /\ [Next]_vars
        => \A p \in Watched : InTime(p)'
<1> SUFFICES ASSUME TypeOK, Begun, \A p \in Watched : InTime(p), [Next]_vars,
                    NEW p \in Watched
             PROVE  InTime(p)'
  OBVIOUS
<1>1. ASSUME \/ \E s \in Sockets : \/ SocketRequest(s) \/ Hijack(s) \/ RecordConnection(s)
                                  \/ SocketEnds(s) \/ Revoke(s) \/ SocketFails(s)
             \/ Sweep \/ UNCHANGED vars
      PROVE  InTime(p)'
  <2> UNCHANGED Known(p)
    BY <1>1 DEF SocketRequest, Hijack, RecordConnection, SocketEnds, Revoke, SocketFails,
                Sweep, vars, service, manager, Known
  <2> QED BY Others
<1>2. ASSUME RevokeLogin PROVE InTime(p)'
  <2>1. since' = 0 /\ since = -1
    BY <1>2 DEF RevokeLogin, Valid
  <2>2. UNCHANGED <<offer[p], conn[p], left[p], mgr[p], due[p], tick[p]>>
    BY <1>2 DEF RevokeLogin, service, manager
  <2>3. left[p] \in Nat /\ due[p] \in Nat /\ tick[p] \in 0..TickPeriod
    BY DEF TypeOK
  <2>4. Follows(p)' /\ Timed(p)' /\ Lasts(p)'
    BY <2>2 DEF InTime, Follows, Timed, Lasts
  <2>5. Notices(p)'
    BY <2>1, <2>2, <2>3, Times DEF InTime, Timed, Notices, GuardDelay
  <2>6. RunsOut(p)'
    BY <2>1, <2>2, <2>3, Times DEF InTime, RunsOut, GuardDelay, Limit
  <2> QED BY <2>4, <2>5, <2>6 DEF InTime
<1>3. ASSUME ManagerDies PROVE InTime(p)'
  BY <1>3, PeerAssumption
     DEF ManagerDies, pipeline, InTime, Follows, Timed, Lasts, Notices, RunsOut, TypeOK, OfferSteps
<1>4. ASSUME NEW q \in Peers,
             \/ Offer(q) \/ AddTracks(q) \/ ListPeer(q) \/ Release(q) \/ Disconnect(q)
             \/ \E k \in Kinds : WriteFails(q, k)
      PROVE  InTime(p)'
  BY <1>4, OffersInTime, Zenon
<1>5. ASSUME NEW q \in Watched,
             \/ OfferEnds(q) \/ Answer(q) \/ NegotiationFails(q) \/ CloseDoomed(q)
             \/ TakeLease(q) \/ CountPeer(q) \/ TakeTick(q) \/ Reauthenticate(q)
             \/ Renew(q) \/ RenewAnswered(q) \/ DeleteLease(q)
      PROVE  InTime(p)'
  BY <1>5, WatchedInTime, Zenon
<1>6. ASSUME Tick PROVE InTime(p)'
  BY <1>6, TimePasses
<1> QED BY <1>1, <1>2, <1>3, <1>4, <1>5, <1>6, Steps, Zenon

----------------------------------------------------------------------------
(* The theorems.                                                           *)

\* What each goroutine of the manager and of the service counts on, stated for its
\* present step, stays true.
THEOREM Invariance == Spec => []Inv
<1>1. Init => Inv
  <2> SUFFICES ASSUME Init PROVE Inv
    OBVIOUS
  <2> USE PeerAssumption, Times, Bounds
  <2>1. TypeOK
    <3>1. encoding \in BOOLEAN /\ tracks \in [Kinds -> SUBSET Peers]
      BY DEF Init
    <3>2. since \in -1..Limit + 1 /\ count \in Nat
      BY DEF Init
    <3>3. /\ offer \in [Peers -> OfferSteps] /\ conn \in [Peers -> Connections]
          /\ mgr \in [Watched -> ManagerSteps] /\ sock \in [Sockets -> SocketSteps]
      BY DEF Init, OfferSteps, Connections, ManagerSteps, SocketSteps
    <3>4. /\ left \in [Watched -> 0..Longest] /\ due \in [Watched -> 0..Longest]
          /\ tick \in [Watched -> 0..TickPeriod]
      BY DEF Init
    <3> QED BY <3>1, <3>2, <3>3, <3>4 DEF Init, TypeOK
  <2>2. Begun /\ EncodersServePeers
    BY DEF Init, Begun, EncodersServePeers, NoTracks, Kinds
  <2>3. CountedAreOpen /\ CountsBalance
    BY FS_EmptySet DEF Init, CountedAreOpen, CountsBalance
  <2>4. \A s \in Sockets : SocketInTime(s)
    BY DEF Init, SocketInTime
  <2>5. \A p \in Watched : InTime(p)
    BY DEF Init, InTime, Follows, Timed, Lasts, Notices, RunsOut
  <2> QED BY <2>1, <2>2, <2>3, <2>4, <2>5 DEF Inv
<1>2. Inv /\ [Next]_vars => Inv'
  <2> SUFFICES ASSUME Inv, [Next]_vars PROVE Inv'
    OBVIOUS
  <2>1. TypeOK'
    BY TypesKept DEF Inv
  <2>2. Begun' /\ EncodersServePeers'
    BY <2>1, EncodersKept DEF Inv
  <2>3. CountedAreOpen' /\ CountsBalance'
    BY CountsKept DEF Inv
  <2>4. \A s \in Sockets : SocketInTime(s)'
    BY SocketsKept DEF Inv
  <2>5. \A p \in Watched : InTime(p)'
    BY PeersKept DEF Inv
  <2> QED BY <2>1, <2>2, <2>3, <2>4, <2>5 DEF Inv
<1> QED BY <1>1, <1>2, PTL DEF Spec

\* Every variable keeps its type.
THEOREM TypeCorrectness == Spec => []TypeOK
<1>1. Inv => TypeOK
  BY DEF Inv
<1> QED BY <1>1, Invariance, PTL

\* However offers, failing writes, expiry and closing meet, the shared encoders run
\* exactly while some track needs them, and every track will be released.
THEOREM EncodersServe == Spec => []EncodersServePeers
<1>1. Inv => EncodersServePeers
  BY DEF Inv
<1> QED BY <1>1, Invariance, PTL

\* The count of connections is that of the handlers that will still close one.
THEOREM CountsAreExact == Spec => []CountsBalance
<1>1. Inv => CountsBalance
  BY DEF Inv
<1> QED BY <1>1, Invariance, PTL

\* For all times that TimingAssumption allows, a lease that the manager renews does
\* not run out.
THEOREM RenewalsAreInTime == Spec => []RenewedLeasesLast
<1>1. Inv => RenewedLeasesLast
  <2> SUFFICES ASSUME Inv, NEW p \in Watched, conn[p] = "listed",
                      mgr[p] \in {"waiting", "checking", "renewing", "renewed"}
               PROVE  left[p] > 0
    BY DEF RenewedLeasesLast
  <2>1. left[p] \in Nat /\ due[p] \in Nat /\ tick[p] \in Nat
    BY DEF Inv, TypeOK
  <2> QED BY <2>1, Times DEF Inv, InTime, Lasts
<1> QED BY <1>1, Invariance, PTL

\* For all those times, a revoked login loses its peers and sockets within the bound.
THEOREM RevocationIsInTime == Spec => []AccessEndsInTime
<1>1. Inv => AccessEndsInTime
  <2> SUFFICES ASSUME Inv PROVE AccessEndsInTime
    OBVIOUS
  <2> USE Times, Bounds, PeerAssumption
  <2>1. ASSUME NEW p \in Watched, conn[p] = "listed" PROVE since <= Limit
    <3>1. left[p] \in Nat /\ since \in Int
      BY DEF Inv, TypeOK
    <3>2. RunsOut(p)
      BY DEF Inv, InTime
    <3> QED BY <2>1, <3>1, <3>2 DEF RunsOut, GuardDelay, Limit
  <2>2. ASSUME NEW p \in Watched, conn[p] = "listed", mgr[p] \notin {"lost", "done"}
        PROVE  since <= GuardDelay + OpenTime + TickPeriod + AuthTimeout + CallTimeout
    <3>1. due[p] \in Nat /\ tick[p] \in Nat /\ since \in Int
      BY DEF Inv, TypeOK
    <3>2. mgr[p] # "none"
      BY <2>2 DEF Inv, Begun, InTime, Follows
    <3>3. mgr[p] \in ManagerSteps /\ Notices(p)
      BY DEF Inv, TypeOK, InTime
    <3> QED BY <2>2, <3>1, <3>2, <3>3 DEF Notices, ManagerSteps
  <2>3. ASSUME NEW s \in Sockets, sock[s] = "open" PROVE since <= GuardDelay
    BY <2>3 DEF Inv, SocketInTime
  <2> QED BY <2>1, <2>2, <2>3 DEF AccessEndsInTime
<1> QED BY <1>1, Invariance, PTL
=============================================================================
