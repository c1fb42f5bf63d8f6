------------------------------ MODULE InputProofs ------------------------------
(* For any number of pages, positions, events and faults: no button sticks, and*)
(* where a button acts.                                                        *)
(*                                                                             *)
(* A press is followed by a release in the same channel, unless its user still *)
(* holds it (Releasing). A position travels directly before its button message,*)
(* and when that message is the next one, the move waits in the accumulator, is*)
(* with the ticker or has been made; so a handler finds it or makes it, unless *)
(* the ticker keeps it back or comes in between with an older one (Aiming).    *)
EXTENDS Input, SequenceTheorems, TLAPS

-----------------------------------------------------------------------------
(* The button.                                                                *)

\* A release of the page is on its way, among the messages after the n-th.
Releases(p, n) == \E m \in n + 1..Len(channel[p]) : channel[p][m].type = "up"

\* Whatever of the page presses the button, done, in progress or to come, is
\* followed by a release, unless the user still holds it.
Released(p) ==
    /\ button # None /\ button.down /\ button.by = p =>
          holding[p] \/ (job[p] # None /\ job[p].type = "up") \/ Releases(p, 0)
    /\ job[p] # None /\ job[p].type = "down" => holding[p] \/ Releases(p, 0)
    /\ \A n \in 1..Len(channel[p]) :
          channel[p][n].type = "down" => holding[p] \/ Releases(p, n)

Releasing == \A p \in Pages \ lost : Released(p)

-----------------------------------------------------------------------------
(* Where the button acts.                                                     *)

IsButton(m) == m.type \in {"down", "up"}

\* No other page moves the pointer.
Sole(p) == \A q \in Pages \ {p} : sent[q] = None

\* What the others have sent are wheel messages, and they handle no button.
OthersIdle(p) ==
    \A q \in Pages \ {p} :
        job[q] = None /\ \A n \in 1..Len(channel[q]) : channel[q][n].type = "wheel"

\* The position travels directly before the button message.
Paired(p) ==
    \A n \in 2..Len(channel[p]) :
        IsButton(channel[p][n]) =>
            channel[p][n - 1] = [type |-> "move", at |-> channel[p][n].at]

\* The pointer is where the page aimed, or the move that brings it there is the
\* next one.
Latest(p, x) ==
    \/ pending = Move(p, x)
    \/ pending = None /\ ticking = Move(p, x)
    \/ pending = None /\ ticking = None /\ pointer = Move(p, x)

FirstAims(p) ==
    Len(channel[p]) > 0 /\ IsButton(channel[p][1]) =>
        job[p] = None /\ Latest(p, channel[p][1].at)

\* The button message being handled finds or brings the pointer there, or one of the
\* two windows is open.
JobAims(p) ==
    job[p] # None =>
        /\ job[p].step = "take" => Latest(p, job[p].at)
        /\ job[p].step = "move" => pending = None /\ job[p].took = Move(p, job[p].at)
        /\ job[p].step = "press" =>
              /\ pending = None
              /\ \/ pointer = Move(p, job[p].at)
                 \/ ticking = Move(p, job[p].at)
                 \/ job[p].overtaken

Aims(p) == OthersIdle(p) /\ Paired(p) /\ FirstAims(p) /\ JobAims(p)

Aiming == faults = 0 => \A p \in Pages : Sole(p) => Aims(p)

Inductive == TypeOK /\ LastAimIsSent /\ ClicksAreAskedFor /\ Releasing /\ Aiming
-----------------------------------------------------------------------------
(* Sequences.                                                                  *)

LEMMA HeadTailEntries ==
    ASSUME NEW S, NEW s \in Seq(S), s # <<>>
    PROVE  /\ Tail(s) \in Seq(S) /\ Head(s) \in S /\ Head(s) = s[1]
           /\ Len(s) \in Nat \ {0} /\ Len(Tail(s)) = Len(s) - 1
           /\ \A n \in 1..Len(Tail(s)) : Tail(s)[n] = s[n + 1]
BY HeadTailProperties

LEMMA ConcatEntries ==
    ASSUME NEW S, NEW s \in Seq(S), NEW t \in Seq(S)
    PROVE  /\ s \o t \in Seq(S) /\ Len(s \o t) = Len(s) + Len(t)
           /\ Len(s) \in Nat /\ Len(t) \in Nat
           /\ \A n \in 1..Len(s) : (s \o t)[n] = s[n]
           /\ \A n \in 1..Len(t) : (s \o t)[Len(s) + n] = t[n]
BY ConcatProperties

LEMMA SubSeqEntries ==
    ASSUME NEW S, NEW s \in Seq(S), NEW n \in 0..Len(s)
    PROVE  /\ SubSeq(s, 1, n) \in Seq(S) /\ Len(SubSeq(s, 1, n)) = n
           /\ \A m \in 1..n : SubSeq(s, 1, n)[m] = s[m]
BY SubSeqProperties

-----------------------------------------------------------------------------
(* What goes over a channel.                                                   *)

\* The channel of p grows by k messages, and no other changes.
Grows(p, k) ==
    /\ channel' \in [Pages -> Seq(Messages)]
    /\ \A q \in Pages : Len(channel[q]) \in Nat
    /\ Len(channel'[p]) = Len(channel[p]) + k
    /\ \A n \in 1..Len(channel[p]) : channel'[p][n] = channel[p][n]
    /\ \A q \in Pages \ {p} : channel'[q] = channel[q]

LEMMA SendGrows ==
    ASSUME TypeOK, NEW p \in Pages, NEW ms \in Seq(Messages), Send(p, ms)
    PROVE  /\ Grows(p, Len(ms)) /\ Len(ms) \in Nat
           /\ \A n \in 1..Len(ms) : channel'[p][Len(channel[p]) + n] = ms[n]
<1>1. channel[p] \in Seq(Messages) /\ channel'[p] = channel[p] \o ms
  BY DEF TypeOK, Send
<1>2. /\ channel'[p] \in Seq(Messages) /\ Len(channel'[p]) = Len(channel[p]) + Len(ms)
      /\ Len(ms) \in Nat
      /\ \A n \in 1..Len(channel[p]) : channel'[p][n] = channel[p][n]
      /\ \A n \in 1..Len(ms) : channel'[p][Len(channel[p]) + n] = ms[n]
  BY <1>1, ConcatEntries
<1>3. /\ channel' \in [Pages -> Seq(Messages)] /\ \A q \in Pages \ {p} : channel'[q] = channel[q]
      /\ \A q \in Pages : channel[q] \in Seq(Messages)
  BY <1>1, <1>2 DEF TypeOK, Send
<1>4. \A q \in Pages : Len(channel[q]) \in Nat
  BY <1>3, LenProperties
<1> QED BY <1>2, <1>3, <1>4 DEF Grows

\* flushMouseMove sends the position and what follows it.
LEMMA FlushMoveSends ==
    ASSUME TypeOK, NEW p \in Pages, NEW x \in Positions, NEW ms \in Seq(Messages),
           FlushMove(p, x, ms)
    PROVE  /\ Grows(p, 1 + Len(ms)) /\ Len(ms) \in Nat
           /\ channel'[p][Len(channel[p]) + 1] = [type |-> "move", at |-> x]
           /\ \A n \in 1..Len(ms) : channel'[p][Len(channel[p]) + 1 + n] = ms[n]
           /\ queued' = [queued EXCEPT ![p] = None] /\ resting' = [resting EXCEPT ![p] = TRUE]
           /\ sent' = [sent EXCEPT ![p] = x]
<1> DEFINE move == [type |-> "move", at |-> x]
           all == <<move>> \o ms
<1>1. <<move>> \in Seq(Messages) /\ Len(<<move>>) = 1 /\ <<move>>[1] = move
  BY DEF Messages
<1>2. /\ all \in Seq(Messages) /\ Len(all) = 1 + Len(ms) /\ Len(ms) \in Nat
      /\ all[1] = move /\ \A n \in 1..Len(ms) : all[1 + n] = ms[n]
  <2> HIDE DEF move
  <2> QED BY <1>1, ConcatEntries
<1>3. Send(p, all)
  BY DEF FlushMove
<1> HIDE DEF all, move
<1>4. /\ Grows(p, Len(all))
      /\ \A n \in 1..Len(all) : channel'[p][Len(channel[p]) + n] = all[n]
      /\ Len(channel[p]) \in Nat
  BY <1>2, <1>3, SendGrows DEF Grows
<1>5. channel'[p][Len(channel[p]) + 1] = move
  BY <1>2, <1>4
<1>6. ASSUME NEW n \in 1..Len(ms) PROVE channel'[p][Len(channel[p]) + 1 + n] = ms[n]
  <2>1. Len(all) = 1 + Len(ms) /\ Len(ms) \in Nat /\ Len(channel[p]) \in Nat /\ n \in 1..Len(ms)
    BY <1>2, <1>4
  <2>2. \A a, b \in Nat : \A k \in 1..b : 1 + k \in 1..(1 + b) /\ a + (1 + k) = a + 1 + k
    OBVIOUS
  <2>3. 1 + n \in 1..Len(all) /\ Len(channel[p]) + (1 + n) = Len(channel[p]) + 1 + n
    BY <2>1, <2>2
  <2>4. channel'[p][Len(channel[p]) + (1 + n)] = all[1 + n] /\ all[1 + n] = ms[n]
    BY <1>2, <1>4, <2>3
  <2> QED BY <2>3, <2>4
<1> QED BY <1>2, <1>4, <1>5, <1>6 DEF FlushMove, move

LEMMA FlushMoveType ==
    ASSUME TypeOK, NEW p \in Pages, NEW x \in Positions, NEW ms \in Seq(Messages),
           FlushMove(p, x, ms)
    PROVE  /\ channel' \in [Pages -> Seq(Messages)] /\ queued' \in [Pages -> Positions \cup {None}]
           /\ resting' \in [Pages -> BOOLEAN] /\ sent' \in [Pages -> Positions \cup {None}]
<1>1. /\ Grows(p, 1 + Len(ms))
      /\ queued' = [queued EXCEPT ![p] = None] /\ resting' = [resting EXCEPT ![p] = TRUE]
      /\ sent' = [sent EXCEPT ![p] = x]
  BY FlushMoveSends
<1> QED BY <1>1 DEF Grows, TypeOK

\* The channel of p loses its first message, which is of the given type.
LEMMA ReceiveTakes ==
    ASSUME TypeOK, NEW p \in Pages, NEW type, Receive(p, type)
    PROVE  /\ job[p] = None /\ channel[p] # <<>>
           /\ channel[p][1] \in Messages /\ channel[p][1].type = type
           /\ Head(channel[p]) = channel[p][1]
           /\ channel' \in [Pages -> Seq(Messages)]
           /\ Len(channel[p]) \in Nat \ {0} /\ Len(channel'[p]) = Len(channel[p]) - 1
           /\ \A n \in 1..Len(channel'[p]) : channel'[p][n] = channel[p][n + 1]
           /\ \A q \in Pages \ {p} : channel'[q] = channel[q]
<1>1. /\ channel[p] \in Seq(Messages) /\ channel[p] # <<>> /\ job[p] = None
      /\ channel'[p] = Tail(channel[p]) /\ Head(channel[p]).type = type
      /\ \A q \in Pages \ {p} : channel'[q] = channel[q]
  BY DEF TypeOK, Receive
<1>2. /\ Tail(channel[p]) \in Seq(Messages) /\ Head(channel[p]) \in Messages
      /\ Head(channel[p]) = channel[p][1]
      /\ Len(channel[p]) \in Nat \ {0} /\ Len(Tail(channel[p])) = Len(channel[p]) - 1
      /\ \A n \in 1..Len(Tail(channel[p])) : Tail(channel[p])[n] = channel[p][n + 1]
  BY <1>1, HeadTailEntries
<1>3. channel' \in [Pages -> Seq(Messages)]
  BY <1>2 DEF TypeOK, Receive
<1> QED BY <1>1, <1>2, <1>3
-----------------------------------------------------------------------------
(* Type correctness.                                                          *)

LEMMA BoundsType ==
    ASSUME TypeOK
    PROVE  /\ Fails => faults' \in 0..MaxFaults /\ faults' > 0
           /\ UserEvent => events' \in 0..MaxEvents
BY InputAssumption DEF TypeOK, Fails, UserEvent

LEMMA PageStepsType ==
    ASSUME TypeOK, NEW p \in Pages,
           \/ \E x \in Positions : \/ PointerMove(p, x)
                                   \/ \E type \in {"down", "up"} : PointerButton(p, x, type)
           \/ \E d \in Directions : HandleWheel(p, d)
           \/ Rested(p) \/ Disconnect(p)
    PROVE  TypeOK'
<1> USE DEF moves, wheels
<1>1. CASE \E x \in Positions : PointerMove(p, x)
  <2>1. PICK x \in Positions : PointerMove(p, x)
    BY <1>1
  <2>2. /\ events' \in 0..MaxEvents /\ aimed' = [aimed EXCEPT ![p] = x]
        /\ UNCHANGED <<holding, live, job, moves, wheels, button, lost, faults>>
    BY <2>1, BoundsType DEF PointerMove
  <2>3. CASE resting[p]
    BY <2>1, <2>2, <2>3 DEF PointerMove, TypeOK
  <2>4. CASE ~resting[p]
    <3>1. FlushMove(p, x, <<>>) /\ <<>> \in Seq(Messages)
      BY <2>1, <2>4 DEF PointerMove
    <3>2. /\ channel' \in [Pages -> Seq(Messages)] /\ queued' \in [Pages -> Positions \cup {None}]
          /\ resting' \in [Pages -> BOOLEAN] /\ sent' \in [Pages -> Positions \cup {None}]
      BY <3>1, FlushMoveType
    <3> QED BY <2>2, <3>2 DEF TypeOK
  <2> QED BY <2>3, <2>4
<1>2. CASE \E x \in Positions, type \in {"down", "up"} : PointerButton(p, x, type)
  <2>1. PICK x \in Positions, type \in {"down", "up"} : PointerButton(p, x, type)
    BY <1>2
  <2>2. /\ events' \in 0..MaxEvents /\ aimed' = [aimed EXCEPT ![p] = x]
        /\ holding' = [holding EXCEPT ![p] = (type = "down")]
        /\ FlushMove(p, x, <<[type |-> type, at |-> x]>>)
        /\ UNCHANGED <<live, job, moves, wheels, button, lost, faults>>
    BY <2>1, BoundsType DEF PointerButton
  <2>3. <<[type |-> type, at |-> x]>> \in Seq(Messages)
    BY DEF Messages
  <2>4. /\ channel' \in [Pages -> Seq(Messages)] /\ queued' \in [Pages -> Positions \cup {None}]
        /\ resting' \in [Pages -> BOOLEAN] /\ sent' \in [Pages -> Positions \cup {None}]
    BY <2>2, <2>3, FlushMoveType
  <2> QED BY <2>2, <2>4 DEF TypeOK
<1>3. CASE \E d \in Directions : HandleWheel(p, d)
  <2>1. PICK d \in Directions : HandleWheel(p, d)
    BY <1>3
  <2>2. <<[type |-> "wheel", dir |-> d]>> \in Seq(Messages)
    BY DEF Messages
  <2>3. channel' \in [Pages -> Seq(Messages)] /\ events' \in 0..MaxEvents
    BY <2>1, <2>2, SendGrows, BoundsType DEF HandleWheel, Grows
  <2> QED BY <2>1, <2>3 DEF HandleWheel, TypeOK
<1>4. CASE Rested(p)
  <2>1. CASE queued[p] # None
    <3>1. FlushMove(p, queued[p], <<>>) /\ <<>> \in Seq(Messages) /\ queued[p] \in Positions
      BY <1>4, <2>1 DEF Rested, TypeOK
    <3>2. /\ channel' \in [Pages -> Seq(Messages)] /\ queued' \in [Pages -> Positions \cup {None}]
          /\ resting' \in [Pages -> BOOLEAN] /\ sent' \in [Pages -> Positions \cup {None}]
      BY <3>1, FlushMoveType
    <3> QED BY <1>4, <3>2 DEF Rested, TypeOK
  <2>2. CASE queued[p] = None
    BY <1>4, <2>2 DEF Rested, TypeOK
  <2> QED BY <2>1, <2>2
<1>5. CASE Disconnect(p)
  <2>1. PICK n \in 0..Len(channel[p]) : channel' = [channel EXCEPT ![p] = SubSeq(@, 1, n)]
    BY <1>5 DEF Disconnect
  <2>2. channel[p] \in Seq(Messages)
    BY DEF TypeOK
  <2>3. channel' \in [Pages -> Seq(Messages)]
    BY <2>1, <2>2, SubSeqEntries DEF TypeOK
  <2>4. lost' \subseteq Pages /\ live' \in [Pages -> BOOLEAN]
    BY <1>5 DEF Disconnect, TypeOK
  <2> QED BY <1>5, <2>3, <2>4 DEF Disconnect, page, TypeOK
<1> QED BY <1>1, <1>2, <1>3, <1>4, <1>5

LEMMA MessageKinds ==
    ASSUME NEW m \in Messages
    PROVE  /\ m.type \in {"move", "down", "up", "wheel"}
           /\ m.type # "wheel" => m.at \in Positions
           /\ m.type = "wheel" => m.dir \in Directions
BY DEF Messages

\* A direction is an axis and a sign.
LEMMA DirectionParts ==
    ASSUME NEW d \in Directions
    PROVE  d = <<d[1], d[2]>> /\ d[1] \in {"x", "y"} /\ d[2] \in {-1, 1}
BY DEF Directions

LEMMA AddStepsType ==
    ASSUME TypeOK, NEW d \in Directions
    PROVE  AddSteps(d) \in [axis : {"x", "y"}, n : Int]
<1>1. wheel \in [axis : {"x", "y"}, n : Int]
  BY DEF TypeOK
<1>2. d[1] \in {"x", "y"} /\ d[2] \in Int
  BY DirectionParts
<1>3. [wheel EXCEPT !.n = wheel.n + d[2]] \in [axis : {"x", "y"}, n : Int]
  <2>1. wheel.n + d[2] \in Int
    BY <1>1, <1>2
  <2> QED BY <1>1, <2>1
<1>4. [axis |-> d[1], n |-> d[2]] \in [axis : {"x", "y"}, n : Int]
  BY <1>2
<1>5. AddSteps(d) \in {[wheel EXCEPT !.n = wheel.n + d[2]], [axis |-> d[1], n |-> d[2]]}
  BY DEF AddSteps
<1> QED BY <1>3, <1>4, <1>5

\* A delivery marks the button messages it overtakes, and changes nothing else of
\* them.
LEMMA DeliveryMarks ==
    ASSUME TypeOK, DeliverMove
    PROVE  /\ job' \in [Pages -> Jobs \cup {None}]
           /\ \A q \in Pages : ~Overtaken(q) => job'[q] = job[q]
           /\ \A q \in Pages : Overtaken(q) =>
                 /\ job[q] \in Jobs /\ job'[q] \in Jobs
                 /\ job'[q] = [job[q] EXCEPT !.overtaken = TRUE]
<1>1. ASSUME NEW q \in Pages, Overtaken(q)
      PROVE  job[q] \in Jobs /\ [job[q] EXCEPT !.overtaken = TRUE] \in Jobs
  BY <1>1 DEF Overtaken, TypeOK, Jobs
<1>2. job' = [q \in Pages |-> IF Overtaken(q) THEN [job[q] EXCEPT !.overtaken = TRUE]
                             ELSE job[q]]
  BY DEF DeliverMove
<1>3. job' \in [Pages -> Jobs \cup {None}]
  BY <1>1, <1>2 DEF TypeOK
<1> QED BY <1>1, <1>2, <1>3

\* A change of one field of a job.
LEMMA JobSteps ==
    ASSUME NEW j \in Jobs
    PROVE  /\ [j EXCEPT !.step = "press"] \in Jobs
           /\ [j EXCEPT !.step = "press", !.took = None] \in Jobs
           /\ \A m \in Moves : [j EXCEPT !.step = "move", !.took = m] \in Jobs
BY DEF Jobs

LEMMA HandlerStepsType ==
    ASSUME TypeOK, NEW p \in Pages, Handler(p)
    PROVE  TypeOK'
<1> USE DEF page, moves, wheels
<1>1. CASE ReadMove(p)
  <2>1. Receive(p, "move") /\ UNCHANGED <<page, live, job, ticking, pointer, wheels, button, lost, faults>>
    BY <1>1 DEF ReadMove
  <2>2. channel' \in [Pages -> Seq(Messages)] /\ Head(channel[p]).at \in Positions
    BY <2>1, ReceiveTakes, MessageKinds
  <2>3. pending' \in Moves
    BY <1>1, <2>2 DEF ReadMove, Move, Moves
  <2> QED BY <2>1, <2>2, <2>3 DEF TypeOK
<1>2. CASE ReadWheel(p)
  <2> DEFINE d == Head(channel[p]).dir
  <2>1. /\ Receive(p, "wheel") /\ wheel' = AddSteps(d) /\ turned' = d
        /\ owed' = [owed EXCEPT ![d] = @ + 1]
        /\ UNCHANGED <<page, live, job, moves, turning, button, lost, faults>>
    BY <1>2 DEF ReadWheel
  <2>2. channel' \in [Pages -> Seq(Messages)] /\ d \in Directions
    BY <2>1, ReceiveTakes, MessageKinds
  <2> HIDE DEF d
  <2>3. wheel' \in [axis : {"x", "y"}, n : Int]
    BY <2>1, <2>2, AddStepsType
  <2>4. owed' \in [Directions -> Nat]
    BY <2>1, <2>2 DEF TypeOK
  <2> QED BY <2>1, <2>2, <2>3, <2>4 DEF TypeOK
<1>3. CASE ReadButton(p)
  <2> DEFINE m == Head(channel[p])
             j == [type |-> m.type, at |-> m.at, step |-> "take", took |-> None,
                   overtaken |-> FALSE]
  <2>1. PICK type \in {"down", "up"} : Receive(p, type)
    BY <1>3 DEF ReadButton
  <2>2. channel' \in [Pages -> Seq(Messages)] /\ m.type = type /\ m.at \in Positions
    BY <2>1, ReceiveTakes, MessageKinds
  <2>4. j \in Jobs
    BY <2>2 DEF Jobs
  <2>5. job' = [job EXCEPT ![p] = j] /\ UNCHANGED <<page, live, moves, wheels, button, lost, faults>>
    BY <1>3 DEF ReadButton
  <2> HIDE DEF j
  <2> QED BY <2>2, <2>4, <2>5 DEF TypeOK
<1>4. CASE Take(p)
  <2>1. /\ job[p] \in Jobs
        /\ UNCHANGED <<page, live, channel, ticking, pointer, wheels, button, lost, faults>>
        /\ pending' = None
    BY <1>4 DEF Take, TypeOK
  <2>2. job' \in [Pages -> Jobs \cup {None}]
    <3>1. CASE pending = None
      <4>1. job' = [job EXCEPT ![p] = [job[p] EXCEPT !.step = "press"]]
        BY <1>4, <3>1 DEF Take
      <4> QED BY <2>1, <4>1, JobSteps DEF TypeOK
    <3>2. CASE pending # None
      <4>1. job' = [job EXCEPT ![p] = [job[p] EXCEPT !.step = "move", !.took = pending]]
        BY <1>4, <3>2 DEF Take
      <4>2. [job[p] EXCEPT !.step = "move", !.took = pending] \in Jobs
        BY <2>1, <3>2, JobSteps DEF TypeOK
      <4> QED BY <4>1, <4>2 DEF TypeOK
    <3> QED BY <3>1, <3>2
  <2> QED BY <2>1, <2>2 DEF TypeOK
<1>5. CASE MovePointer(p)
  <2>1. /\ job[p] \in Jobs /\ job[p].took \in Moves \cup {None}
        /\ UNCHANGED <<page, live, channel, pending, ticking, wheels, button>>
    BY <1>5 DEF MovePointer, TypeOK, Jobs
  <2>2. job' \in [Pages -> Jobs \cup {None}]
    <3>1. \/ job' = [job EXCEPT ![p] = [job[p] EXCEPT !.step = "press", !.took = None]]
          \/ job' = [job EXCEPT ![p] = None]
      BY <1>5 DEF MovePointer
    <3> QED BY <2>1, <3>1, JobSteps DEF TypeOK
  <2>3. pointer' \in Moves \cup {None} /\ lost' \subseteq Pages /\ faults' \in 0..MaxFaults
    BY <1>5, <2>1, BoundsType DEF MovePointer, TypeOK
  <2> QED BY <2>1, <2>2, <2>3 DEF TypeOK
<1>6. CASE PressButton(p)
  <2> DEFINE new == [by |-> p, down |-> job[p].type = "down"]
  <2>1. /\ job' = [job EXCEPT ![p] = None] /\ UNCHANGED <<page, live, channel, moves, wheels>>
        /\ button' \in {button, new} /\ lost' \in {lost, lost \cup {p}}
        /\ faults' = faults \/ Fails
    BY <1>6 DEF PressButton
  <2>2. new \in [by : Pages, down : BOOLEAN]
    OBVIOUS
  <2> HIDE DEF new
  <2>3. button' \in [by : Pages, down : BOOLEAN] \cup {None}
    BY <2>1, <2>2 DEF TypeOK
  <2>4. lost' \subseteq Pages /\ faults' \in 0..MaxFaults /\ job' \in [Pages -> Jobs \cup {None}]
    BY <2>1, BoundsType DEF TypeOK
  <2> QED BY <2>1, <2>3, <2>4 DEF TypeOK
<1> QED BY <1>1, <1>2, <1>3, <1>4, <1>5, <1>6 DEF Handler

\* A turn takes at least one step and at most MaxSteps, and no more than there are.
LEMMA WheelStepsRange ==
    ASSUME NEW n \in Int, n # 0
    PROVE  WheelSteps(n) \in 1..MaxSteps /\ WheelSteps(n) <= Abs(n) /\ Abs(n) \in Nat
BY InputAssumption DEF WheelSteps, Abs

LEMMA TickersType ==
    ASSUME TypeOK, ClicksAreAskedFor, Tickers
    PROVE  TypeOK'
<1> USE DEF page, moves, wheels
<1>1. CASE TakeMove
  BY <1>1 DEF TakeMove, TypeOK
<1>2. CASE DeliverMove
  <2>1. faults' \in 0..MaxFaults /\ pointer' \in Moves \cup {None}
    BY <1>2, BoundsType DEF DeliverMove, TypeOK
  <2>2. job' \in [Pages -> Jobs \cup {None}]
    BY <1>2, DeliveryMarks
  <2> QED BY <1>2, <2>1, <2>2 DEF DeliverMove, TypeOK
<1>3. CASE TakeWheel
  <2>1. WheelDirection \in Directions /\ WheelSteps(wheel.n) \in 1..MaxSteps
    BY <1>3, WheelStepsRange DEF TakeWheel, TypeOK, WheelDirection, Directions
  <2>2. wheel' \in [axis : {"x", "y"}, n : Int]
    <3>1. wheel \in [axis : {"x", "y"}, n : Int] /\ wheel' = [wheel EXCEPT !.n = 0]
      BY <1>3 DEF TakeWheel, TypeOK
    <3> QED BY <3>1
  <2>3. turning' \in Directions \X (1..MaxSteps)
    BY <1>3, <2>1 DEF TakeWheel
  <2> QED BY <1>3, <2>2, <2>3 DEF TakeWheel, TypeOK
<1>4. CASE DeliverWheel
  <2>1. turning \in Directions \X (1..MaxSteps)
    BY <1>4 DEF DeliverWheel, TypeOK
  <2>2. turning[1] \in Directions /\ turning[2] \in 1..MaxSteps
    BY <2>1
  <2>3. owed[turning[1]] - turning[2] \in Nat
    BY <1>4, <2>2, InputAssumption DEF DeliverWheel, TypeOK, ClicksAreAskedFor, Abs
  <2>4. owed' \in [Directions -> Nat] /\ faults' \in 0..MaxFaults
    BY <1>4, <2>2, <2>3, BoundsType DEF DeliverWheel, TypeOK
  <2> QED BY <1>4, <2>4 DEF DeliverWheel, TypeOK
<1> QED BY <1>1, <1>2, <1>3, <1>4 DEF Tickers
-----------------------------------------------------------------------------
(* The throttle.                                                              *)

LEMMA AimKept ==
    ASSUME TypeOK, LastAimIsSent, UNCHANGED <<aimed, queued, resting, sent>>
    PROVE  LastAimIsSent'
BY DEF LastAimIsSent

\* Only the steps of a page concern what it aimed at.
LEMMA AimIsSent ==
    ASSUME TypeOK, LastAimIsSent, [Next]_vars
    PROVE  LastAimIsSent'
<1>1. ASSUME NEW p \in Pages, NEW x \in Positions, NEW ms, FlushMove(p, x, ms),
             aimed' = [aimed EXCEPT ![p] = x]
      PROVE  LastAimIsSent'
  BY <1>1 DEF FlushMove, TypeOK, LastAimIsSent
<1>2. ASSUME NEW p \in Pages, NEW x \in Positions, PointerMove(p, x)
      PROVE  LastAimIsSent'
  <2>1. CASE resting[p]
    <3>1. /\ aimed' = [aimed EXCEPT ![p] = x] /\ queued' = [queued EXCEPT ![p] = x]
          /\ UNCHANGED <<resting, sent>>
      BY <1>2, <2>1 DEF PointerMove
    <3>2. aimed'[p] = x /\ queued'[p] = x /\ x # None /\ resting'[p]
      BY <2>1, <3>1, InputAssumption DEF TypeOK
    <3>3. \A q \in Pages \ {p} : aimed'[q] = aimed[q] /\ queued'[q] = queued[q]
      BY <3>1 DEF TypeOK
    <3> QED BY <3>1, <3>2, <3>3 DEF LastAimIsSent
  <2>2. CASE ~resting[p]
    BY <1>1, <1>2, <2>2 DEF PointerMove
  <2> QED BY <2>1, <2>2
<1>3. ASSUME NEW p \in Pages, NEW x \in Positions, NEW type, PointerButton(p, x, type)
      PROVE  LastAimIsSent'
  BY <1>1, <1>3 DEF PointerButton
<1>4. ASSUME NEW p \in Pages, Rested(p)
      PROVE  LastAimIsSent'
  <2>1. CASE queued[p] # None
    <3>1. FlushMove(p, queued[p], <<>>) /\ aimed' = aimed
      BY <1>4, <2>1 DEF Rested
    <3>2. queued[p] \in Positions /\ queued[p] = aimed[p]
      BY <2>1 DEF TypeOK, LastAimIsSent
    <3> QED BY <3>1, <3>2 DEF FlushMove, TypeOK, LastAimIsSent
  <2>2. CASE queued[p] = None
    <3>1. resting' = [resting EXCEPT ![p] = FALSE] /\ UNCHANGED <<aimed, queued, sent>>
      BY <1>4, <2>2 DEF Rested
    <3>2. \A q \in Pages \ {p} : resting'[q] = resting[q]
      BY <3>1 DEF TypeOK
    <3> QED BY <2>2, <3>1, <3>2 DEF LastAimIsSent
  <2> QED BY <2>1, <2>2
<1>5. ASSUME NEW p \in Pages, NEW d, HandleWheel(p, d)
      PROVE  LastAimIsSent'
  BY <1>5, AimKept DEF HandleWheel
<1>6. ASSUME NEW p \in Pages, Disconnect(p) \/ Handler(p)
      PROVE  LastAimIsSent'
  BY <1>6, AimKept
  DEF Disconnect, Handler, ReadMove, ReadWheel, ReadButton, Take, MovePointer, PressButton, page
<1>7. CASE Tickers \/ UNCHANGED vars
  BY <1>7, AimKept DEF Tickers, TakeMove, DeliverMove, TakeWheel, DeliverWheel, page, vars
<1> QED BY <1>2, <1>3, <1>4, <1>5, <1>6, <1>7 DEF Next

-----------------------------------------------------------------------------
(* The wheel.                                                                 *)

\* Steps in a direction that wait in the accumulator, and in the ticker's hands.
Waiting(d) == IF wheel.n # 0 /\ WheelDirection = d THEN Abs(wheel.n) ELSE 0
Held(d)    == IF turning # None /\ turning[1] = d THEN turning[2] ELSE 0

LEMMA Counts ==
    ASSUME TypeOK, NEW d \in Directions
    PROVE  Waiting(d) \in Nat /\ Held(d) \in Nat /\ owed[d] \in Nat
<1>1. Waiting(d) \in Nat
  BY DEF TypeOK, Waiting, Abs
<1>2. Held(d) \in Nat
  <2>1. turning # None => turning[2] \in 1..MaxSteps
    BY DEF TypeOK
  <2> QED BY <2>1, InputAssumption DEF Held
<1> QED BY <1>1, <1>2 DEF TypeOK

LEMMA ClicksKept ==
    ASSUME ClicksAreAskedFor, UNCHANGED <<wheel, turning, turned, owed>>
    PROVE  ClicksAreAskedFor'
BY DEF ClicksAreAskedFor, WheelDirection, Abs

\* Turning the same way adds one step; turning otherwise leaves one.
LEMMA AddStepsCounts ==
    ASSUME TypeOK, NEW d \in Directions, wheel' = AddSteps(d)
    PROVE  /\ wheel'.n # 0 /\ WheelDirection' = d
           /\ Abs(wheel'.n) <= Waiting(d) + 1
<1>1. /\ d = <<d[1], d[2]>> /\ d[2] \in {-1, 1} /\ wheel \in [axis : {"x", "y"}, n : Int]
  BY DirectionParts DEF TypeOK
<1>2. CASE wheel.axis = d[1] /\ wheel.n * d[2] > 0
  <2>1. wheel'.axis = d[1] /\ wheel'.n = wheel.n + d[2] /\ wheel.n \in Int
    BY <1>1, <1>2 DEF AddSteps
  <2>2. \/ d[2] = 1 /\ wheel.n > 0
        \/ d[2] = -1 /\ wheel.n < 0
    BY <1>1, <1>2, <2>1
  <2>3. WheelDirection = d /\ WheelDirection' = d
    BY <1>1, <1>2, <2>1, <2>2 DEF WheelDirection
  <2> QED BY <2>1, <2>2, <2>3 DEF Waiting, Abs
<1>3. CASE ~(wheel.axis = d[1] /\ wheel.n * d[2] > 0)
  <2>1. wheel'.axis = d[1] /\ wheel'.n = d[2]
    BY <1>3 DEF AddSteps
  <2>2. WheelDirection' = d
    BY <1>1, <2>1 DEF WheelDirection
  <2>3. Waiting(d) \in Nat
    BY Counts
  <2> QED BY <1>1, <2>1, <2>2, <2>3 DEF Abs
<1> QED BY <1>2, <1>3

LEMMA ClicksAnswer ==
    ASSUME TypeOK, ClicksAreAskedFor, [Next]_vars
    PROVE  ClicksAreAskedFor'
<1>1. \A d \in Directions : owed[d] >= Waiting(d) + Held(d)
  BY DEF ClicksAreAskedFor, Waiting, Held
<1>2. ASSUME NEW p \in Pages, ReadWheel(p)
      PROVE  ClicksAreAskedFor'
  <2> DEFINE d == Head(channel[p]).dir
  <2>1. /\ Receive(p, "wheel") /\ wheel' = AddSteps(d) /\ turned' = d
        /\ owed' = [owed EXCEPT ![d] = @ + 1] /\ turning' = turning
    BY <1>2 DEF ReadWheel
  <2>2. d \in Directions
    BY <2>1, ReceiveTakes, MessageKinds
  <2> HIDE DEF d
  <2>3. wheel'.n # 0 /\ WheelDirection' = d /\ Abs(wheel'.n) <= Waiting(d) + 1
    BY <2>1, <2>2, AddStepsCounts
  <2>4. ASSUME NEW e \in Directions
        PROVE  owed'[e] >= Waiting(e)' + Held(e)'
    <3>1. /\ Waiting(e) \in Nat /\ Held(e) \in Nat /\ owed[e] \in Nat /\ Held(e)' = Held(e)
          /\ owed'[e] = IF e = d THEN owed[e] + 1 ELSE owed[e]
      BY <2>1, <2>2, Counts DEF Held, TypeOK
    <3>2. Waiting(e)' = IF e = d THEN Abs(wheel'.n) ELSE 0
      BY <2>3 DEF Waiting, Abs
    <3>3. Abs(wheel'.n) \in Int
      BY <2>1, <2>2, AddStepsType DEF Abs
    <3> QED BY <1>1, <2>3, <3>1, <3>2, <3>3
  <2> QED BY <2>1, <2>3, <2>4 DEF ClicksAreAskedFor, Waiting, Held
<1>3. CASE TakeWheel
  <2>1. /\ turning = None /\ wheel.n # 0 /\ turning' = <<WheelDirection, WheelSteps(wheel.n)>>
        /\ wheel'.n = 0 /\ UNCHANGED <<turned, owed>> /\ wheel.n \in Int
    BY <1>3 DEF TakeWheel, TypeOK
  <2>2. /\ WheelSteps(wheel.n) <= Abs(wheel.n) /\ WheelSteps(wheel.n) \in Nat
        /\ Abs(wheel.n) \in Nat
    BY <2>1, WheelStepsRange, InputAssumption
  <2>3. ASSUME NEW e \in Directions
        PROVE  owed'[e] >= Waiting(e)' + Held(e)'
    <3>1. Waiting(e) \in Nat /\ Held(e) = 0 /\ owed'[e] \in Nat /\ owed'[e] >= Waiting(e)
      BY <1>1, <2>1, Counts DEF Held
    <3>2. Waiting(e)' = 0
      BY <2>1 DEF Waiting
    <3>3. Held(e)' \in Nat /\ Held(e)' <= Waiting(e)
      <4>1. turning'[1] = WheelDirection /\ turning'[2] = WheelSteps(wheel.n)
        BY <2>1
      <4> QED BY <2>1, <2>2, <3>1, <4>1 DEF Held, Waiting
    <3> QED BY <3>1, <3>2, <3>3
  <2> QED BY <2>1, <2>3 DEF ClicksAreAskedFor, Waiting, Held
<1>4. CASE DeliverWheel
  <2>1. /\ turning # None /\ turning' = None /\ UNCHANGED <<wheel, turned>>
        /\ owed' = [owed EXCEPT ![turning[1]] = @ - turning[2]] \/ owed' = owed
    BY <1>4 DEF DeliverWheel
  <2>2. turning[1] \in Directions /\ turning[2] \in Nat
    BY <2>1, InputAssumption DEF TypeOK
  <2>3. ASSUME NEW e \in Directions
        PROVE  owed'[e] >= Waiting(e)' + Held(e)'
    <3>1. /\ Waiting(e) \in Nat /\ owed[e] \in Nat /\ Waiting(e)' = Waiting(e) /\ Held(e)' = 0
          /\ Held(e) = IF turning[1] = e THEN turning[2] ELSE 0
      BY <2>1, Counts DEF Waiting, Held, WheelDirection, Abs
    <3>2. owed'[e] = owed[e] \/ (turning[1] = e /\ owed'[e] = owed[e] - turning[2])
      BY <2>1, <2>2 DEF TypeOK
    <3> QED BY <1>1, <2>2, <3>1, <3>2
  <2> QED BY <2>1, <2>3 DEF ClicksAreAskedFor, Waiting, Held, WheelDirection
<1>5. ASSUME NEW p \in Pages, ReadMove(p) \/ ReadButton(p) \/ Take(p) \/ MovePointer(p) \/ PressButton(p)
      PROVE  ClicksAreAskedFor'
  BY <1>5, ClicksKept DEF ReadMove, ReadButton, Take, MovePointer, PressButton, wheels
<1>6. ASSUME NEW p \in Pages,
             \/ \E x \in Positions : \/ PointerMove(p, x)
                                     \/ \E type \in {"down", "up"} : PointerButton(p, x, type)
             \/ \E d \in Directions : HandleWheel(p, d)
             \/ Rested(p) \/ Disconnect(p)
      PROVE  ClicksAreAskedFor'
  BY <1>6, ClicksKept DEF PointerMove, PointerButton, HandleWheel, Rested, Disconnect, wheels
<1>7. CASE TakeMove \/ DeliverMove \/ UNCHANGED vars
  BY <1>7, ClicksKept DEF TakeMove, DeliverMove, wheels, vars
<1> QED BY <1>2, <1>3, <1>4, <1>5, <1>6, <1>7 DEF Next, Handler, Tickers
-----------------------------------------------------------------------------
(* The release of the button.                                                 *)

\* The handler of p is where it was, but for the step of its job.
SameJob(p) ==
    /\ job[p] = None <=> job'[p] = None
    /\ job[p] # None => job'[p].type = job[p].type

LEMMA LengthsType ==
    ASSUME TypeOK, NEW p \in Pages
    PROVE  Len(channel[p]) \in Nat
<1>1. channel[p] \in Seq(Messages)
  BY DEF TypeOK
<1> QED BY <1>1, LenProperties

LEMMA ReleasedKept ==
    ASSUME NEW p \in Pages, Released(p), holding'[p] = holding[p], channel'[p] = channel[p],
           SameJob(p), button' = button \/ button'.by # p
    PROVE  Released(p)'
BY DEF Released, Releases, SameJob

LEMMA ReleasedGrows ==
    ASSUME NEW p \in Pages, Released(p), NEW k \in Nat, Grows(p, k),
           holding'[p] = holding[p], SameJob(p), button' = button,
           \A n \in 1..k : channel'[p][Len(channel[p]) + n].type # "down"
    PROVE  Released(p)'
<1>1. Len(channel[p]) \in Nat /\ Len(channel'[p]) = Len(channel[p]) + k
  BY DEF Grows
<1>2. ASSUME NEW n \in Nat, Releases(p, n) PROVE Releases(p, n)'
  <2>1. PICK m \in n + 1..Len(channel[p]) : channel[p][m].type = "up"
    BY <1>2 DEF Releases
  <2>2. m \in n + 1..Len(channel'[p]) /\ channel'[p][m] = channel[p][m]
    BY <1>1 DEF Grows
  <2> QED BY <2>1, <2>2 DEF Releases
<1>3. ASSUME NEW n \in 1..Len(channel'[p]), channel'[p][n].type = "down"
      PROVE  n \in 1..Len(channel[p]) /\ channel[p][n].type = "down"
  <2>1. CASE n > Len(channel[p])
    <3>1. n - Len(channel[p]) \in 1..k /\ Len(channel[p]) + (n - Len(channel[p])) = n
      BY <1>1, <2>1
    <3> QED BY <1>3, <3>1
  <2>2. CASE n <= Len(channel[p])
    BY <1>1, <1>3, <2>2 DEF Grows
  <2> QED BY <1>1, <2>1, <2>2
<1>4. ASSUME NEW n \in 1..Len(channel'[p]), channel'[p][n].type = "down"
      PROVE  holding'[p] \/ Releases(p, n)'
  BY <1>2, <1>3, <1>4 DEF Released
<1>5. Releases(p, 0) => Releases(p, 0)'
  BY <1>2
<1> QED BY <1>4, <1>5 DEF Released, SameJob

\* With the first message gone, the others move up.
LEMMA ReleasesMoveUp ==
    ASSUME NEW p \in Pages, NEW n \in Nat, Releases(p, n + 1),
           Len(channel[p]) \in Nat \ {0}, Len(channel'[p]) = Len(channel[p]) - 1,
           \A k \in 1..Len(channel'[p]) : channel'[p][k] = channel[p][k + 1]
    PROVE  Releases(p, n)'
<1>1. PICK m \in (n + 1) + 1..Len(channel[p]) : channel[p][m].type = "up"
  BY DEF Releases
<1>2. m - 1 \in n + 1..Len(channel'[p]) /\ m - 1 \in 1..Len(channel'[p]) /\ (m - 1) + 1 = m
  OBVIOUS
<1>3. channel'[p][m - 1] = channel[p][m]
  BY <1>2
<1> QED BY <1>1, <1>2, <1>3 DEF Releases

LEMMA ReleasedReceives ==
    ASSUME TypeOK, NEW p \in Pages, Released(p), NEW type, Receive(p, type),
           holding'[p] = holding[p], button' = button,
           \/ type \in {"move", "wheel"} /\ job'[p] = None
           \/ type \in {"down", "up"} /\ job'[p] # None /\ job'[p].type = type
    PROVE  Released(p)'
<1>1. /\ job[p] = None /\ channel[p][1].type = type /\ Len(channel[p]) \in Nat \ {0}
      /\ Len(channel'[p]) = Len(channel[p]) - 1
      /\ \A k \in 1..Len(channel'[p]) : channel'[p][k] = channel[p][k + 1]
  BY ReceiveTakes
<1>2. ASSUME NEW n \in Nat, Releases(p, n + 1) PROVE Releases(p, n)'
  BY <1>1, <1>2, ReleasesMoveUp
<1>3. ASSUME type # "up", Releases(p, 0) PROVE Releases(p, 0)'
  <2>1. PICK m \in 1..Len(channel[p]) : channel[p][m].type = "up"
    BY <1>3 DEF Releases
  <2>2. m # 1 /\ m \in (0 + 1) + 1..Len(channel[p])
    BY <1>1, <1>3, <2>1
  <2>3. Releases(p, 0 + 1)
    BY <2>1, <2>2 DEF Releases
  <2> QED BY <1>2, <2>3
<1>4. ASSUME NEW n \in 1..Len(channel'[p]), channel'[p][n].type = "down"
      PROVE  holding'[p] \/ Releases(p, n)'
  <2>1. n + 1 \in 1..Len(channel[p]) /\ channel[p][n + 1].type = "down" /\ n \in Nat
    BY <1>1, <1>4
  <2>2. holding[p] \/ Releases(p, n + 1)
    BY <2>1 DEF Released
  <2> QED BY <1>2, <2>1, <2>2
<1>5. type = "down" => holding'[p] \/ Releases(p, 0)'
  <2>1. type = "down" => holding[p] \/ Releases(p, 0 + 1)
    BY <1>1 DEF Released
  <2> QED BY <1>2, <2>1
<1> QED BY <1>1, <1>3, <1>4, <1>5 DEF Released

LEMMA PageStepsRelease ==
    ASSUME TypeOK, Releasing, NEW p \in Pages,
           \/ \E x \in Positions : \/ PointerMove(p, x)
                                   \/ \E type \in {"down", "up"} : PointerButton(p, x, type)
           \/ \E d \in Directions : HandleWheel(p, d)
           \/ Rested(p)
    PROVE  Releasing'
<1> DEFINE Whole == Pages \ lost
<1>1. UNCHANGED <<job, button, lost>>
  BY DEF PointerMove, PointerButton, HandleWheel, Rested
<1> SUFFICES \A q \in Whole : Released(q)'
  BY <1>1 DEF Releasing
<1>2. /\ \A q \in Whole : Released(q) /\ q \in Pages
      /\ \A q \in Pages : SameJob(q)
  BY <1>1 DEF Releasing, SameJob
<1> HIDE DEF Whole
<1>3. ASSUME NEW q \in Whole \ {p}, holding'[q] = holding[q], channel'[q] = channel[q]
      PROVE  Released(q)'
  BY <1>1, <1>2, <1>3, ReleasedKept
<1>4. ASSUME UNCHANGED holding, NEW k \in Nat, Grows(p, k),
             \A n \in 1..k : channel'[p][Len(channel[p]) + n].type # "down"
      PROVE  \A q \in Whole : Released(q)'
  <2>1. p \in Whole => Released(p)'
    BY <1>1, <1>2, <1>4, ReleasedGrows
  <2>2. \A q \in Whole \ {p} : channel'[q] = channel[q] /\ holding'[q] = holding[q]
    BY <1>2, <1>4 DEF Grows
  <2> QED BY <1>3, <2>1, <2>2
<1>5. CASE UNCHANGED <<holding, channel>>
  BY <1>1, <1>2, <1>5, ReleasedKept
<1>6. ASSUME UNCHANGED holding, NEW x \in Positions, FlushMove(p, x, <<>>)
      PROVE  \A q \in Whole : Released(q)'
  <2>1. <<>> \in Seq(Messages) /\ Len(<<>>) = 0
    OBVIOUS
  <2>2. Grows(p, 1 + 0) /\ channel'[p][Len(channel[p]) + 1] = [type |-> "move", at |-> x]
    BY <1>6, <2>1, FlushMoveSends
  <2>3. \A n \in 1..1 : channel'[p][Len(channel[p]) + n].type # "down"
    BY <2>2
  <2> QED BY <1>4, <1>6, <2>2, <2>3
<1>7. CASE \E x \in Positions : PointerMove(p, x)
  BY <1>5, <1>6, <1>7 DEF PointerMove
<1>8. CASE Rested(p)
  BY <1>5, <1>6, <1>8 DEF Rested, TypeOK
<1>9. CASE \E d \in Directions : HandleWheel(p, d)
  <2>1. PICK d \in Directions : HandleWheel(p, d)
    BY <1>9
  <2> DEFINE ms == <<[type |-> "wheel", dir |-> d]>>
  <2>2. ms \in Seq(Messages) /\ Len(ms) = 1 /\ ms[1].type = "wheel"
    BY DEF Messages
  <2>3. Send(p, ms) /\ UNCHANGED holding
    BY <2>1 DEF HandleWheel
  <2> HIDE DEF ms
  <2>4. Grows(p, 1) /\ channel'[p][Len(channel[p]) + 1] = ms[1]
    <3>1. /\ Grows(p, Len(ms))
          /\ \A n \in 1..Len(ms) : channel'[p][Len(channel[p]) + n] = ms[n]
      BY <2>2, <2>3, SendGrows
    <3> QED BY <2>2, <3>1 DEF Grows
  <2>5. \A n \in 1..1 : channel'[p][Len(channel[p]) + n].type # "down"
    BY <2>2, <2>4
  <2> QED BY <1>4, <2>3, <2>4, <2>5
<1>10. CASE \E x \in Positions, type \in {"down", "up"} : PointerButton(p, x, type)
  <2>1. PICK x \in Positions, type \in {"down", "up"} : PointerButton(p, x, type)
    BY <1>10
  <2> DEFINE ms == <<[type |-> type, at |-> x]>>
  <2>2. ms \in Seq(Messages) /\ Len(ms) = 1 /\ ms[1].type = type
    BY DEF Messages
  <2>3. FlushMove(p, x, ms) /\ holding' = [holding EXCEPT ![p] = (type = "down")]
    BY <2>1 DEF PointerButton
  <2> HIDE DEF ms
  <2>4. /\ Grows(p, 1 + 1) /\ channel'[p][Len(channel[p]) + 1] = [type |-> "move", at |-> x]
        /\ channel'[p][Len(channel[p]) + 1 + 1] = ms[1]
    <3>1. /\ Grows(p, 1 + Len(ms))
          /\ channel'[p][Len(channel[p]) + 1] = [type |-> "move", at |-> x]
          /\ \A n \in 1..Len(ms) : channel'[p][Len(channel[p]) + 1 + n] = ms[n]
      <4>1. FlushMove(p, x, ms) /\ ms \in Seq(Messages)
        BY <2>2, <2>3
      <4> QED BY <4>1, FlushMoveSends
    <3> QED BY <2>2, <3>1 DEF Grows
  <2>5. ASSUME NEW q \in Whole \ {p} PROVE Released(q)'
    BY <1>2, <1>3, <2>3, <2>4 DEF Grows, TypeOK
  <2>6. Released(p)'
    <3>1. CASE type = "down"
      <4>1. holding'[p]
        BY <2>3, <3>1 DEF TypeOK
      <4> QED BY <4>1 DEF Released
    <3>2. CASE type = "up"
      <4> DEFINE l == Len(channel[p])
      <4>1. /\ l \in Nat /\ Len(channel'[p]) = l + 2 /\ channel'[p][l + 2].type = "up"
            /\ channel'[p][l + 1].type = "move"
        BY <2>2, <2>4, <3>2 DEF Grows
      <4> HIDE DEF l
      <4>2. Releases(p, 0)'
        BY <4>1 DEF Releases
      <4>3. ASSUME NEW n \in 1..Len(channel'[p]), channel'[p][n].type = "down"
            PROVE  Releases(p, n)'
        <5>1. n # l + 1 /\ n # l + 2 /\ l + 2 \in n + 1..Len(channel'[p])
          BY <4>1, <4>3
        <5> QED BY <4>1, <5>1 DEF Releases
      <4> QED BY <4>2, <4>3 DEF Released
    <3> QED BY <3>1, <3>2
  <2> QED BY <2>5, <2>6
<1> QED BY <1>7, <1>8, <1>9, <1>10

LEMMA DisconnectReleases ==
    ASSUME TypeOK, Releasing, NEW p \in Pages, Disconnect(p)
    PROVE  Releasing'
<1> SUFFICES ASSUME NEW q \in Pages, q \notin lost' PROVE Released(q)'
  BY DEF Releasing
<1>1. PICK k \in 0..Len(channel[p]) :
        /\ channel' = [channel EXCEPT ![p] = SubSeq(@, 1, k)]
        /\ lost' = IF holding[p] \/ \E m \in k + 1..Len(channel[p]) :
                                         channel[p][m].type \in {"down", "up"}
                   THEN lost \cup {p} ELSE lost
  BY DEF Disconnect
<1>2. Released(q)
  BY <1>1 DEF Releasing
<1>3. UNCHANGED <<holding, job, button>>
  BY DEF Disconnect, page
<1>4. channel[p] \in Seq(Messages) /\ Len(channel[p]) \in Nat
  BY LengthsType DEF TypeOK
<1>5. /\ Len(channel'[p]) = k /\ \A m \in 1..k : channel'[p][m] = channel[p][m]
      /\ \A r \in Pages \ {p} : channel'[r] = channel[r]
  BY <1>1, <1>4, SubSeqEntries DEF TypeOK
<1>6. CASE q # p
  BY <1>2, <1>3, <1>5, <1>6, ReleasedKept DEF SameJob
<1>7. CASE q = p
  <2>1. /\ ~holding[p]
        /\ \A m \in k + 1..Len(channel[p]) : channel[p][m].type \notin {"down", "up"}
    BY <1>1, <1>7
  <2>2. ASSUME NEW n \in Nat, Releases(p, n) PROVE Releases(p, n)'
    <3>1. PICK m \in n + 1..Len(channel[p]) : channel[p][m].type = "up"
      BY <2>2 DEF Releases
    <3>2. m \in n + 1..k /\ m \in 1..k
      BY <1>4, <2>1, <3>1
    <3> QED BY <1>5, <3>1, <3>2 DEF Releases
  <2>3. Releases(p, 0) => Releases(p, 0)'
    BY <2>2
  <2>4. ASSUME NEW n \in 1..Len(channel'[p]), channel'[p][n].type = "down"
        PROVE  Releases(p, n)'
    <3>1. n \in 1..Len(channel[p]) /\ channel[p][n].type = "down" /\ n \in Nat
      BY <1>4, <1>5, <2>4
    <3>2. Releases(p, n)
      BY <1>2, <1>7, <2>1, <3>1 DEF Released
    <3> QED BY <2>2, <3>1, <3>2
  <2> QED BY <1>2, <1>3, <1>7, <2>1, <2>3, <2>4 DEF Released
<1> QED BY <1>6, <1>7

LEMMA HandlerStepsRelease ==
    ASSUME TypeOK, Releasing, NEW p \in Pages, Handler(p)
    PROVE  Releasing'
<1> SUFFICES ASSUME NEW q \in Pages, q \notin lost' PROVE Released(q)'
  BY DEF Releasing
<1>1. holding' = holding /\ lost \subseteq lost'
  BY DEF Handler, ReadMove, ReadWheel, ReadButton, Take, MovePointer, PressButton, page
<1>2. Released(q)
  BY <1>1 DEF Releasing
<1>3. CASE q # p
  <2>1. job'[q] = job[q]
    BY <1>3 DEF Handler, ReadMove, ReadWheel, ReadButton, Take, MovePointer, PressButton, TypeOK
  <2>2. channel'[q] = channel[q]
    BY <1>3 DEF Handler, ReadMove, ReadWheel, ReadButton, Take, MovePointer, PressButton, Receive,
                TypeOK
  <2>3. button' = button \/ button'.by = p
    <3>1. CASE PressButton(p)
      BY <3>1 DEF PressButton
    <3>2. CASE ~PressButton(p)
      BY <3>2 DEF Handler, ReadMove, ReadWheel, ReadButton, Take, MovePointer
    <3> QED BY <3>1, <3>2
  <2> QED BY <1>1, <1>2, <1>3, <2>1, <2>2, <2>3, ReleasedKept DEF SameJob
<1>4. CASE q = p
  <2>1. CASE ReadMove(p) \/ ReadWheel(p)
    <3>1. PICK type \in {"move", "wheel"} : Receive(p, type) /\ UNCHANGED <<job, button>>
      BY <2>1 DEF ReadMove, ReadWheel
    <3>2. job'[p] = None
      BY <3>1, ReceiveTakes
    <3> QED BY <1>1, <1>2, <1>4, <3>1, <3>2, ReleasedReceives
  <2>2. CASE ReadButton(p)
    <3> DEFINE m == Head(channel[p])
               j == [type |-> m.type, at |-> m.at, step |-> "take", took |-> None,
                     overtaken |-> FALSE]
    <3>1. PICK type \in {"down", "up"} : Receive(p, type)
      BY <2>2 DEF ReadButton
    <3>2. m.type = type /\ m.at \in Positions
      BY <3>1, ReceiveTakes, MessageKinds
    <3>3. j \in Jobs /\ j.type = type
      BY <3>2 DEF Jobs
    <3>4. job' = [job EXCEPT ![p] = j] /\ button' = button
      BY <2>2 DEF ReadButton
    <3> HIDE DEF j
    <3>5. job'[p] # None /\ job'[p].type = type
      BY <3>3, <3>4, NothingAssumption DEF TypeOK
    <3> QED BY <1>1, <1>2, <1>4, <3>1, <3>4, <3>5, ReleasedReceives
  <2>3. ASSUME NEW j \in Jobs, job[p] # None, j.type = job[p].type, job' = [job EXCEPT ![p] = j],
               UNCHANGED <<channel, button>>
        PROVE  Released(q)'
    <3>1. SameJob(p)
      BY <2>3, NothingAssumption DEF SameJob, TypeOK
    <3> QED BY <1>1, <1>2, <1>4, <2>3, <3>1, ReleasedKept
  <2>4. CASE Take(p)
    <3>1. job[p] \in Jobs /\ job[p] # None /\ UNCHANGED <<channel, button>>
      BY <2>4 DEF Take, TypeOK
    <3>2. CASE pending = None
      <4> DEFINE j == [job[p] EXCEPT !.step = "press"]
      <4>1. j \in Jobs /\ j.type = job[p].type /\ job' = [job EXCEPT ![p] = j]
        BY <2>4, <3>1, <3>2 DEF Take, Jobs
      <4> QED BY <2>3, <3>1, <4>1
    <3>3. CASE pending # None
      <4> DEFINE j == [job[p] EXCEPT !.step = "move", !.took = pending]
      <4>1. job' = [job EXCEPT ![p] = j]
        BY <2>4, <3>3 DEF Take
      <4>2. j \in Jobs /\ j.type = job[p].type
        BY <3>1, <3>3 DEF Jobs, TypeOK
      <4> QED BY <2>3, <3>1, <4>1, <4>2
    <3> QED BY <3>2, <3>3
  <2>5. CASE MovePointer(p)
    <3> DEFINE j == [job[p] EXCEPT !.step = "press", !.took = None]
    <3>1. /\ job[p] \in Jobs /\ job[p] # None /\ UNCHANGED <<channel, button>>
          /\ job' = [job EXCEPT ![p] = j]
      BY <1>4, <2>5 DEF MovePointer, TypeOK
    <3>2. j \in Jobs /\ j.type = job[p].type
      BY <3>1 DEF Jobs
    <3> QED BY <2>3, <3>1, <3>2
  <2>6. CASE PressButton(p)
    <3>1. /\ job[p] # None /\ job' = [job EXCEPT ![p] = None] /\ channel' = channel
          /\ button' = [by |-> p, down |-> job[p].type = "down"]
      BY <1>4, <2>6 DEF PressButton
    <3>2. job'[p] = None /\ button'.by = p /\ (button'.down <=> job[p].type = "down")
      BY <3>1 DEF TypeOK
    <3>3. Released(p)'
      BY <1>1, <1>2, <1>4, <3>1, <3>2 DEF Released, Releases
    <3> QED BY <1>4, <3>3
  <2> QED BY <2>1, <2>2, <2>4, <2>5, <2>6 DEF Handler
<1> QED BY <1>3, <1>4

LEMMA TickersRelease ==
    ASSUME TypeOK, Releasing, Tickers \/ UNCHANGED vars
    PROVE  Releasing'
<1>1. UNCHANGED <<holding, channel, button, lost>>
  BY DEF Tickers, TakeMove, DeliverMove, TakeWheel, DeliverWheel, page, vars
<1> SUFFICES ASSUME NEW q \in Pages, q \notin lost PROVE Released(q)'
  BY <1>1 DEF Releasing
<1>2. Released(q)
  BY DEF Releasing
<1>3. SameJob(q)
  <2>1. CASE DeliverMove
    <3>1. CASE Overtaken(q)
      <4>1. /\ job[q] \in Jobs /\ job'[q] \in Jobs
            /\ job'[q] = [job[q] EXCEPT !.overtaken = TRUE]
        BY <2>1, <3>1, DeliveryMarks
      <4>2. job'[q].type = job[q].type
        BY <4>1 DEF Jobs
      <4> QED BY <4>1, <4>2, NothingAssumption DEF SameJob
    <3>2. CASE ~Overtaken(q)
      BY <2>1, <3>2, DeliveryMarks DEF SameJob
    <3> QED BY <3>1, <3>2
  <2>2. CASE TakeMove \/ TakeWheel \/ DeliverWheel \/ UNCHANGED vars
    BY <2>2 DEF TakeMove, TakeWheel, DeliverWheel, vars, SameJob
  <2> QED BY <2>1, <2>2 DEF Tickers
<1> QED BY <1>1, <1>2, <1>3, ReleasedKept

LEMMA ButtonsRelease ==
    ASSUME TypeOK, Releasing, [Next]_vars
    PROVE  Releasing'
BY PageStepsRelease, DisconnectReleases, HandlerStepsRelease, TickersRelease DEF Next
-----------------------------------------------------------------------------
(* Where the button acts.                                                     *)

LEMMA MoveIsMove ==
    ASSUME NEW p \in Pages, NEW x \in Positions
    PROVE  Move(p, x) \in Moves /\ Move(p, x) # None
BY NothingAssumption DEF Move, Moves

\* What the page p relies on, if nothing of it changes.
LEMMA AimsFrame ==
    ASSUME NEW p \in Pages, Aims(p), channel'[p] = channel[p],
           UNCHANGED <<job, pending, ticking, pointer>>, OthersIdle(p)'
    PROVE  Aims(p)'
<1>1. Paired(p)'
  BY DEF Aims, Paired
<1>2. FirstAims(p)' /\ JobAims(p)'
  BY DEF Aims, FirstAims, JobAims, Latest
<1> QED BY <1>1, <1>2 DEF Aims

\* A message more, or the position with its button message.
LEMMA AimsGrow ==
    ASSUME TypeOK, NEW p \in Pages, Aims(p), NEW k \in {1, 2}, Grows(p, k),
           UNCHANGED <<job, pending, ticking, pointer>>,
           ~IsButton(channel'[p][Len(channel[p]) + 1]),
           k = 2 => channel'[p][Len(channel[p]) + 1] =
                      [type |-> "move", at |-> channel'[p][Len(channel[p]) + 2].at]
    PROVE  Aims(p)'
<1> DEFINE l == Len(channel[p])
<1>1. l \in Nat /\ Len(channel'[p]) = l + k /\ \A n \in 1..l : channel'[p][n] = channel[p][n]
  BY DEF Grows
<1>2. OthersIdle(p)'
  BY DEF Aims, OthersIdle, Grows
<1>3. ASSUME NEW n \in 2..Len(channel'[p]), IsButton(channel'[p][n])
      PROVE  channel'[p][n - 1] = [type |-> "move", at |-> channel'[p][n].at]
  <2>1. CASE n <= l
    <3>1. n \in 2..l /\ n \in 1..l /\ n - 1 \in 1..l
      BY <1>1, <2>1
    <3>2. channel'[p][n] = channel[p][n] /\ channel'[p][n - 1] = channel[p][n - 1]
      BY <1>1, <3>1
    <3> QED BY <1>3, <3>1, <3>2 DEF Aims, Paired
  <2>2. CASE n = l + 1
    BY <1>3, <2>2
  <2>3. CASE n > l + 1
    <3>1. k = 2 /\ n = l + 2 /\ n - 1 = l + 1
      BY <1>1, <2>3
    <3> QED BY <3>1
  <2> QED BY <1>1, <2>1, <2>2, <2>3
<1>4. Paired(p)'
  BY <1>3 DEF Paired
<1>5. FirstAims(p)'
  <2>1. CASE l = 0
    BY <1>1, <2>1 DEF FirstAims
  <2>2. CASE l > 0
    <3>1. channel'[p][1] = channel[p][1]
      BY <1>1, <2>2
    <3> QED BY <2>2, <3>1 DEF Aims, FirstAims, Latest
  <2> QED BY <1>1, <2>1, <2>2
<1>6. JobAims(p)'
  BY DEF Aims, JobAims, Latest
<1> QED BY <1>2, <1>4, <1>5, <1>6 DEF Aims

LEMMA AimsGrowOne ==
    ASSUME TypeOK, NEW p \in Pages, Aims(p), Grows(p, 1),
           UNCHANGED <<job, pending, ticking, pointer>>,
           ~IsButton(channel'[p][Len(channel[p]) + 1])
    PROVE  Aims(p)'
<1>1. 1 \in {1, 2} /\ 1 # 2
  OBVIOUS
<1> QED BY <1>1, AimsGrow

\* The first k messages of a channel are left.
Cut(r, k) ==
    /\ k \in 0..Len(channel[r]) /\ Len(channel[r]) \in Nat /\ Len(channel'[r]) = k
    /\ \A n \in 1..k : channel'[r][n] = channel[r][n]
    /\ \A q \in Pages \ {r} : channel'[q] = channel[q]

LEMMA AimsCut ==
    ASSUME NEW p \in Pages, NEW r \in Pages, Aims(p), NEW k, Cut(r, k),
           UNCHANGED <<job, pending, ticking, pointer>>
    PROVE  Aims(p)'
<1>1. OthersIdle(p)'
  <2>1. ASSUME NEW q \in Pages \ {p}, NEW n \in 1..Len(channel'[q])
        PROVE  channel'[q][n].type = "wheel"
    <3>1. n \in 1..Len(channel[q]) /\ channel'[q][n] = channel[q][n]
      BY <2>1 DEF Cut
    <3> QED BY <3>1 DEF Aims, OthersIdle
  <2> QED BY <2>1 DEF Aims, OthersIdle
<1>2. CASE r # p
  BY <1>1, <1>2, AimsFrame DEF Cut
<1>3. CASE r = p
  <2>1. ASSUME NEW n \in 2..Len(channel'[p]), IsButton(channel'[p][n])
        PROVE  channel'[p][n - 1] = [type |-> "move", at |-> channel'[p][n].at]
    <3>1. n \in 2..Len(channel[p]) /\ n \in 1..k /\ n - 1 \in 1..k
      BY <1>3, <2>1 DEF Cut
    <3>2. channel'[p][n] = channel[p][n] /\ channel'[p][n - 1] = channel[p][n - 1]
      BY <1>3, <3>1 DEF Cut
    <3> QED BY <2>1, <3>1, <3>2 DEF Aims, Paired
  <2>2. Paired(p)'
    BY <2>1 DEF Paired
  <2>3. FirstAims(p)'
    <3>1. CASE k = 0
      BY <1>3, <3>1 DEF Cut, FirstAims
    <3>2. CASE k # 0
      <4>1. Len(channel[p]) > 0 /\ channel'[p][1] = channel[p][1]
        BY <1>3, <3>2 DEF Cut
      <4> QED BY <4>1 DEF Aims, FirstAims, Latest
    <3> QED BY <3>1, <3>2
  <2>4. JobAims(p)'
    BY DEF Aims, JobAims, Latest
  <2> QED BY <1>1, <2>2, <2>3, <2>4 DEF Aims
<1> QED BY <1>2, <1>3

\* A page that has sent a move has sent one; a failed call has failed.
LEMMA HistoryGrows ==
    ASSUME TypeOK, [Next]_vars, faults' = 0, NEW p \in Pages, Sole(p)'
    PROVE  faults = 0 /\ Sole(p)
<1>1. faults' = faults \/ Fails
  BY DEF Next, PointerMove, PointerButton, HandleWheel, Rested, Disconnect, Handler, ReadMove,
         ReadWheel, ReadButton, Take, MovePointer, PressButton, Tickers, TakeMove, DeliverMove,
         TakeWheel, DeliverWheel, vars
<1>2. faults = 0
  BY <1>1 DEF Fails, TypeOK
<1>3. sent' = sent \/ \E r \in Pages, x \in Positions : sent' = [sent EXCEPT ![r] = x]
  <2>1. ASSUME NEW r \in Pages, NEW x \in Positions, PointerMove(r, x)
        PROVE  sent' = sent \/ sent' = [sent EXCEPT ![r] = x]
    BY <2>1 DEF PointerMove, FlushMove
  <2>2. ASSUME NEW r \in Pages, NEW x \in Positions, NEW type, PointerButton(r, x, type)
        PROVE  sent' = [sent EXCEPT ![r] = x]
    BY <2>2 DEF PointerButton, FlushMove
  <2>3. ASSUME NEW r \in Pages, Rested(r)
        PROVE  sent' = sent \/ \E x \in Positions : sent' = [sent EXCEPT ![r] = x]
    BY <2>3 DEF Rested, FlushMove, TypeOK
  <2>4. ASSUME NEW r \in Pages, (\E d \in Directions : HandleWheel(r, d)) \/ Disconnect(r) \/ Handler(r)
        PROVE  sent' = sent
    BY <2>4 DEF HandleWheel, Disconnect, Handler, ReadMove, ReadWheel, ReadButton, Take,
                MovePointer, PressButton, page
  <2>5. CASE Tickers \/ UNCHANGED vars
    BY <2>5 DEF Tickers, TakeMove, DeliverMove, TakeWheel, DeliverWheel, page, vars
  <2> QED BY <2>1, <2>2, <2>3, <2>4, <2>5 DEF Next
<1>4. ASSUME NEW q \in Pages, sent'[q] = None PROVE sent[q] = None
  BY <1>3, <1>4, InputAssumption DEF TypeOK
<1> QED BY <1>2, <1>4 DEF Sole

\* Pages send: the sole one its position before the button, the others only
\* wheel messages.
LEMMA PageStepsAim ==
    ASSUME TypeOK, NEW p \in Pages, Aims(p), Sole(p)', NEW r \in Pages,
           \/ \E x \in Positions : \/ PointerMove(r, x)
                                   \/ \E type \in {"down", "up"} : PointerButton(r, x, type)
           \/ \E d \in Directions : HandleWheel(r, d)
           \/ Rested(r)
    PROVE  Aims(p)'
<1>1. UNCHANGED <<job, pending, ticking, pointer>>
  BY DEF PointerMove, PointerButton, HandleWheel, Rested, moves
<1>2. CASE channel' = channel
  <2>1. OthersIdle(p)'
    BY <1>1, <1>2 DEF Aims, OthersIdle
  <2> QED BY <1>1, <1>2, <2>1, AimsFrame
<1>3. ASSUME NEW x \in Positions, NEW ms, FlushMove(r, x, ms) PROVE r = p
  <2>1. sent'[r] = x /\ x # None
    BY <1>3, InputAssumption DEF FlushMove, TypeOK
  <2> QED BY <2>1 DEF Sole
<1>4. ASSUME NEW x \in Positions, FlushMove(r, x, <<>>)
      PROVE  Aims(p)'
  <2>1. r = p
    BY <1>3, <1>4
  <2>2. <<>> \in Seq(Messages) /\ Len(<<>>) = 0
    OBVIOUS
  <2>3. Grows(r, 1 + 0) /\ channel'[r][Len(channel[r]) + 1] = [type |-> "move", at |-> x]
    BY <1>4, <2>2, FlushMoveSends
  <2>4. Grows(p, 1) /\ ~IsButton(channel'[p][Len(channel[p]) + 1])
    BY <2>1, <2>3 DEF IsButton, Grows
  <2> QED BY <1>1, <2>4, AimsGrowOne
<1>5. CASE \E x \in Positions : PointerMove(r, x)
  BY <1>2, <1>4, <1>5 DEF PointerMove
<1>6. CASE Rested(r)
  <2>1. CASE queued[r] # None
    <3>1. queued[r] \in Positions /\ FlushMove(r, queued[r], <<>>)
      BY <1>6, <2>1 DEF Rested, TypeOK
    <3> QED BY <1>4, <3>1
  <2>2. CASE queued[r] = None
    BY <1>2, <1>6, <2>2 DEF Rested
  <2> QED BY <2>1, <2>2
<1>7. CASE \E d \in Directions : HandleWheel(r, d)
  <2>1. PICK d \in Directions : HandleWheel(r, d)
    BY <1>7
  <2> DEFINE ms == <<[type |-> "wheel", dir |-> d]>>
  <2>2. ms \in Seq(Messages) /\ Len(ms) = 1 /\ ms[1].type = "wheel"
    BY DEF Messages
  <2>3. Send(r, ms)
    BY <2>1 DEF HandleWheel
  <2> HIDE DEF ms
  <2>4. Grows(r, 1) /\ channel'[r][Len(channel[r]) + 1].type = "wheel"
    <3>1. /\ Grows(r, Len(ms))
          /\ \A n \in 1..Len(ms) : channel'[r][Len(channel[r]) + n] = ms[n]
      BY <2>2, <2>3, SendGrows
    <3> QED BY <2>2, <3>1 DEF Grows
  <2>5. CASE r = p
    <3>1. Grows(p, 1) /\ ~IsButton(channel'[p][Len(channel[p]) + 1])
      BY <2>4, <2>5 DEF IsButton
    <3> QED BY <1>1, <3>1, AimsGrowOne
  <2>6. CASE r # p
    <3>1. channel'[p] = channel[p]
      BY <2>4, <2>6 DEF Grows
    <3>2. ASSUME NEW q \in Pages \ {p}, NEW n \in 1..Len(channel'[q])
          PROVE  channel'[q][n].type = "wheel"
      <4>1. CASE q # r
        BY <2>4, <3>2, <4>1 DEF Grows, Aims, OthersIdle
      <4>2. CASE q = r /\ n # Len(channel[r]) + 1
        <5>1. n \in 1..Len(channel[r]) /\ channel'[r][n] = channel[r][n]
          BY <2>4, <3>2, <4>2 DEF Grows
        <5> QED BY <3>2, <4>2, <5>1 DEF Aims, OthersIdle
      <4>3. CASE q = r /\ n = Len(channel[r]) + 1
        BY <2>4, <4>3
      <4> QED BY <4>1, <4>2, <4>3
    <3>3. OthersIdle(p)'
      BY <1>1, <3>2 DEF Aims, OthersIdle
    <3> QED BY <1>1, <3>1, <3>3, AimsFrame
  <2> QED BY <2>5, <2>6
<1>8. CASE \E x \in Positions, type \in {"down", "up"} : PointerButton(r, x, type)
  <2>1. PICK x \in Positions, type \in {"down", "up"} : PointerButton(r, x, type)
    BY <1>8
  <2> DEFINE ms == <<[type |-> type, at |-> x]>>
  <2>2. ms \in Seq(Messages) /\ Len(ms) = 1 /\ ms[1].at = x
    BY DEF Messages
  <2>3. FlushMove(r, x, ms)
    BY <2>1 DEF PointerButton
  <2> HIDE DEF ms
  <2>4. r = p
    BY <1>3, <2>3
  <2>5. /\ Grows(r, 1 + Len(ms))
        /\ channel'[r][Len(channel[r]) + 1] = [type |-> "move", at |-> x]
        /\ \A n \in 1..Len(ms) : channel'[r][Len(channel[r]) + 1 + n] = ms[n]
    <3>1. FlushMove(r, x, ms) /\ ms \in Seq(Messages)
      BY <2>2, <2>3
    <3> QED BY <3>1, FlushMoveSends
  <2>6. /\ Grows(p, 2) /\ channel'[p][Len(channel[p]) + 1] = [type |-> "move", at |-> x]
        /\ channel'[p][Len(channel[p]) + 2].at = x
    BY <2>2, <2>4, <2>5 DEF Grows
  <2>7. ~IsButton(channel'[p][Len(channel[p]) + 1])
    BY <2>6 DEF IsButton
  <2> QED BY <1>1, <2>6, <2>7, AimsGrow
<1> QED BY <1>5, <1>6, <1>7, <1>8

LEMMA DisconnectAims ==
    ASSUME TypeOK, NEW p \in Pages, Aims(p), NEW r \in Pages, Disconnect(r)
    PROVE  Aims(p)'
<1>1. UNCHANGED <<job, pending, ticking, pointer>>
  BY DEF Disconnect, moves
<1>2. PICK k \in 0..Len(channel[r]) : channel' = [channel EXCEPT ![r] = SubSeq(@, 1, k)]
  BY DEF Disconnect
<1>3. channel[r] \in Seq(Messages) /\ Len(channel[r]) \in Nat
  BY LengthsType DEF TypeOK
<1>4. Cut(r, k)
  BY <1>2, <1>3, SubSeqEntries DEF TypeOK, Cut
<1> QED BY <1>1, <1>4, AimsCut

\* The handlers of the other pages have only wheel messages to read.
LEMMA OthersHandlersAim ==
    ASSUME TypeOK, NEW p \in Pages, Aims(p), NEW r \in Pages \ {p}, Handler(r)
    PROVE  Aims(p)'
<1>1. job[r] = None /\ \A n \in 1..Len(channel[r]) : channel[r][n].type = "wheel"
  BY DEF Aims, OthersIdle
<1>2. ASSUME NEW type, Receive(r, type) PROVE type = "wheel"
  <2>1. channel[r][1].type = type /\ Len(channel[r]) \in Nat \ {0}
    BY <1>2, ReceiveTakes
  <2> QED BY <1>1, <2>1
<1>3. ReadWheel(r)
  BY <1>1, <1>2 DEF Handler, ReadMove, ReadButton, Take, MovePointer, PressButton
<1>4. Receive(r, "wheel") /\ UNCHANGED <<job, pending, ticking, pointer>>
  BY <1>3 DEF ReadWheel, moves
<1>5. /\ Len(channel[r]) \in Nat \ {0} /\ Len(channel'[r]) = Len(channel[r]) - 1
      /\ \A n \in 1..Len(channel'[r]) : channel'[r][n] = channel[r][n + 1]
      /\ \A q \in Pages \ {r} : channel'[q] = channel[q]
  BY <1>4, ReceiveTakes
<1>6. ASSUME NEW n \in 1..Len(channel'[r]) PROVE channel'[r][n].type = "wheel"
  <2>1. n + 1 \in 1..Len(channel[r]) /\ channel'[r][n] = channel[r][n + 1]
    BY <1>5
  <2> QED BY <1>1, <2>1
<1>7. OthersIdle(p)'
  BY <1>4, <1>5, <1>6 DEF Aims, OthersIdle
<1> QED BY <1>4, <1>5, <1>7, AimsFrame

\* The sole page's own handler.
LEMMA ReadingAims ==
    ASSUME TypeOK, NEW p \in Pages, Aims(p), ReadMove(p) \/ ReadWheel(p) \/ ReadButton(p)
    PROVE  Aims(p)'
<1>1. PICK type \in {"move", "wheel", "down", "up"} : Receive(p, type)
  BY DEF ReadMove, ReadWheel, ReadButton
<1>2. /\ job[p] = None /\ channel[p][1] \in Messages /\ channel[p][1].type = type
      /\ Head(channel[p]) = channel[p][1]
      /\ Len(channel[p]) \in Nat \ {0} /\ Len(channel'[p]) = Len(channel[p]) - 1
      /\ \A n \in 1..Len(channel'[p]) : channel'[p][n] = channel[p][n + 1]
      /\ \A q \in Pages \ {p} : channel'[q] = channel[q]
  BY <1>1, ReceiveTakes
<1>3. \A q \in Pages \ {p} : job'[q] = job[q]
  BY DEF ReadMove, ReadWheel, ReadButton, TypeOK
<1>4. OthersIdle(p)'
  BY <1>2, <1>3 DEF Aims, OthersIdle
<1>5. ASSUME NEW n \in 2..Len(channel'[p]), IsButton(channel'[p][n])
      PROVE  channel'[p][n - 1] = [type |-> "move", at |-> channel'[p][n].at]
  <2>1. n + 1 \in 2..Len(channel[p]) /\ n \in 1..Len(channel'[p]) /\ n - 1 \in 1..Len(channel'[p])
    BY <1>2
  <2>2. channel'[p][n] = channel[p][n + 1] /\ channel'[p][n - 1] = channel[p][(n + 1) - 1]
    <3>1. (n - 1) + 1 = n /\ (n + 1) - 1 = n
      BY <2>1
    <3> QED BY <1>2, <2>1, <3>1
  <2> QED BY <1>5, <2>1, <2>2 DEF Aims, Paired
<1>6. Paired(p)'
  BY <1>5 DEF Paired
<1>7. ASSUME Len(channel'[p]) > 0, IsButton(channel'[p][1])
      PROVE  channel[p][1] = [type |-> "move", at |-> channel'[p][1].at]
  <2>1. 2 \in 2..Len(channel[p]) /\ channel'[p][1] = channel[p][2] /\ 2 - 1 = 1
    BY <1>2, <1>7
  <2>2. Paired(p) /\ IsButton(channel[p][2])
    BY <1>7, <2>1 DEF Aims
  <2>3. channel[p][2 - 1] = [type |-> "move", at |-> channel[p][2].at]
    BY <2>1, <2>2 DEF Paired
  <2> QED BY <2>1, <2>3
<1>8. CASE ReadMove(p)
  <2>1. pending' = Move(p, channel[p][1].at) /\ job'[p] = None
    BY <1>2, <1>8 DEF ReadMove
  <2>2. FirstAims(p)'
    BY <1>7, <2>1 DEF FirstAims, Latest, Move
  <2>3. JobAims(p)'
    BY <2>1 DEF JobAims
  <2> QED BY <1>4, <1>6, <2>2, <2>3 DEF Aims
<1>9. CASE ReadWheel(p)
  <2>1. channel[p][1].type = "wheel" /\ job'[p] = None
    BY <1>2, <1>9, ReceiveTakes DEF ReadWheel
  <2>2. FirstAims(p)'
    BY <1>7, <2>1 DEF FirstAims
  <2>3. JobAims(p)'
    BY <2>1 DEF JobAims
  <2> QED BY <1>4, <1>6, <2>2, <2>3 DEF Aims
<1>10. CASE ReadButton(p)
  <2> DEFINE j == [type |-> channel[p][1].type, at |-> channel[p][1].at, step |-> "take",
                   took |-> None, overtaken |-> FALSE]
  <2>1. IsButton(channel[p][1])
    BY <1>10, ReceiveTakes DEF ReadButton, IsButton
  <2>2. /\ job'[p] = j /\ UNCHANGED <<pending, ticking, pointer>>
    BY <1>2, <1>10 DEF ReadButton, TypeOK, moves
  <2>3. Latest(p, channel[p][1].at)
    BY <1>2, <2>1 DEF Aims, FirstAims
  <2>4. FirstAims(p)'
    BY <1>7, <2>1 DEF FirstAims, IsButton
  <2>5. JobAims(p)'
    BY <2>2, <2>3 DEF JobAims, Latest
  <2> QED BY <1>4, <1>6, <2>4, <2>5 DEF Aims
<1> QED BY <1>8, <1>9, <1>10

\* While a button message is handled, no other is at the head of the channel.
LEMMA HandlingAims ==
    ASSUME TypeOK, NEW p \in Pages, Aims(p), faults' = 0,
           Take(p) \/ MovePointer(p) \/ PressButton(p)
    PROVE  Aims(p)'
<1>1. job[p] # None /\ job[p] \in Jobs /\ job[p].at \in Positions /\ channel' = channel
  BY DEF Take, MovePointer, PressButton, TypeOK, Jobs
<1>2. ~(Len(channel[p]) > 0 /\ IsButton(channel[p][1]))
  BY <1>1 DEF Aims, FirstAims
<1>3. Paired(p)' /\ FirstAims(p)'
  BY <1>1, <1>2 DEF Aims, Paired, FirstAims
<1>4. \A q \in Pages \ {p} : job[q] = None
  BY DEF Aims, OthersIdle
<1>5. CASE Take(p)
  <2>1. job[p].step = "take" /\ pending' = None /\ UNCHANGED <<ticking, pointer>>
    BY <1>5 DEF Take
  <2>2. Latest(p, job[p].at)
    BY <1>1, <2>1 DEF Aims, JobAims
  <2>3. CASE pending = None
    <3>1. job' = [job EXCEPT ![p] = [job[p] EXCEPT !.step = "press"]]
      BY <1>5, <2>3 DEF Take
    <3>2. /\ job'[p].step = "press" /\ job'[p].at = job[p].at
          /\ \A q \in Pages \ {p} : job'[q] = job[q]
      BY <1>1, <3>1 DEF TypeOK, Jobs
    <3>3. ticking = Move(p, job[p].at) \/ pointer = Move(p, job[p].at)
      BY <1>1, <2>2, <2>3, MoveIsMove DEF Latest
    <3>4. JobAims(p)'
      BY <2>1, <3>2, <3>3 DEF JobAims, Move
    <3>5. OthersIdle(p)'
      BY <1>1, <3>2 DEF Aims, OthersIdle
    <3> QED BY <1>3, <3>4, <3>5 DEF Aims
  <2>4. CASE pending # None
    <3>1. job' = [job EXCEPT ![p] = [job[p] EXCEPT !.step = "move", !.took = pending]]
      BY <1>5, <2>4 DEF Take
    <3>2. /\ job'[p].step = "move" /\ job'[p].took = pending /\ job'[p].at = job[p].at
          /\ \A q \in Pages \ {p} : job'[q] = job[q]
      BY <1>1, <3>1 DEF TypeOK, Jobs
    <3>3. pending = Move(p, job[p].at)
      BY <2>2, <2>4 DEF Latest
    <3>4. JobAims(p)'
      BY <2>1, <3>2, <3>3 DEF JobAims, Move
    <3>5. OthersIdle(p)'
      BY <1>1, <3>2 DEF Aims, OthersIdle
    <3> QED BY <1>3, <3>4, <3>5 DEF Aims
  <2> QED BY <2>3, <2>4
<1>6. CASE MovePointer(p)
  <2>1. faults' # faults + 1
    BY DEF TypeOK
  <2>2. /\ job[p].step = "move" /\ pointer' = job[p].took /\ UNCHANGED <<pending, ticking>>
        /\ job' = [job EXCEPT ![p] = [job[p] EXCEPT !.step = "press", !.took = None]]
    BY <1>6, <2>1 DEF MovePointer, Fails
  <2>3. /\ job'[p].step = "press" /\ job'[p].at = job[p].at
        /\ \A q \in Pages \ {p} : job'[q] = job[q]
    BY <1>1, <2>2 DEF TypeOK, Jobs
  <2>4. pending = None /\ pointer' = Move(p, job[p].at)
    BY <1>1, <2>2 DEF Aims, JobAims
  <2>5. JobAims(p)'
    BY <2>2, <2>3, <2>4 DEF JobAims, Move
  <2>6. OthersIdle(p)'
    BY <1>1, <2>3 DEF Aims, OthersIdle
  <2> QED BY <1>3, <2>5, <2>6 DEF Aims
<1>7. CASE PressButton(p)
  <2>1. job'[p] = None /\ \A q \in Pages \ {p} : job'[q] = job[q]
    BY <1>7 DEF PressButton, TypeOK
  <2>2. JobAims(p)' /\ OthersIdle(p)'
    BY <1>1, <2>1 DEF Aims, JobAims, OthersIdle
  <2> QED BY <1>3, <2>2 DEF Aims
<1> QED BY <1>5, <1>6, <1>7

\* The ticker takes the latest move, which the next button message then waits for
\* no more, and overtakes a button message with an older one.
LEMMA TickersAim ==
    ASSUME TypeOK, NEW p \in Pages, Aims(p), faults' = 0, Tickers \/ UNCHANGED vars
    PROVE  Aims(p)'
<1>1. channel' = channel
  BY DEF Tickers, TakeMove, DeliverMove, TakeWheel, DeliverWheel, vars
<1>2. Paired(p)'
  BY <1>1 DEF Aims, Paired
<1>3. CASE TakeMove
  <2>1. /\ ticking = None /\ pending # None /\ ticking' = pending /\ pending' = None
        /\ job' = job
    BY <1>3 DEF TakeMove
  <2>2. ASSUME NEW x, Latest(p, x) PROVE Latest(p, x)'
    BY <2>1, <2>2 DEF Latest, Move
  <2>3. FirstAims(p)'
    BY <1>1, <2>1, <2>2 DEF Aims, FirstAims
  <2>4. JobAims(p)'
    <3>1. job[p] # None => job[p].step \notin {"move", "press"}
      BY <2>1 DEF Aims, JobAims
    <3>2. job[p] # None /\ job[p].step = "take" => Latest(p, job[p].at)
      BY DEF Aims, JobAims
    <3> QED BY <2>1, <3>1, <3>2 DEF JobAims, Latest, Move
  <2>5. OthersIdle(p)'
    BY <1>1, <2>1 DEF Aims, OthersIdle
  <2> QED BY <1>2, <2>3, <2>4, <2>5 DEF Aims
<1>4. CASE DeliverMove
  <2>1. faults' # faults + 1
    BY DEF TypeOK
  <2>2. ticking # None /\ ticking' = None /\ pointer' = ticking /\ pending' = pending
    BY <1>4, <2>1 DEF DeliverMove, Fails
  <2>3. ASSUME NEW q \in Pages, job[q] = None \/ job[q].step # "press" PROVE job'[q] = job[q]
    BY <1>4, <2>3, DeliveryMarks DEF Overtaken
  <2>4. ASSUME NEW x, Latest(p, x) PROVE Latest(p, x)'
    BY <2>2, <2>4 DEF Latest, Move
  <2>5. FirstAims(p)'
    BY <1>1, <2>3, <2>4 DEF Aims, FirstAims
  <2>6. JobAims(p)'
    <3>1. CASE job[p] = None
      BY <2>3, <3>1 DEF JobAims
    <3>2. CASE job[p] # None /\ job[p].step = "take"
      <4>1. job'[p] = job[p] /\ Latest(p, job[p].at)
        BY <2>3, <3>2 DEF Aims, JobAims
      <4>2. Latest(p, job[p].at)'
        BY <2>2, <4>1 DEF Latest, Move
      <4> QED BY <3>2, <4>1, <4>2 DEF JobAims, Latest, Move
    <3>3. CASE job[p] # None /\ job[p].step = "move"
      BY <2>2, <2>3, <3>3 DEF Aims, JobAims, Move
    <3>4. CASE Overtaken(p)
      <4>1. job[p] \in Jobs /\ job'[p] = [job[p] EXCEPT !.overtaken = TRUE]
        BY <1>4, <3>4, DeliveryMarks
      <4>2. job'[p].overtaken /\ job'[p].step = "press"
        BY <3>4, <4>1 DEF Overtaken, Jobs
      <4>3. pending' = None
        BY <2>2, <3>4 DEF Overtaken, Aims, JobAims
      <4> QED BY <4>2, <4>3 DEF JobAims
    <3>5. CASE job[p] # None /\ job[p].step = "press" /\ ~Overtaken(p)
      <4>1. job'[p] = job[p] /\ ticking = Move(p, job[p].at)
        BY <1>4, <3>5, DeliveryMarks DEF Overtaken
      <4>2. pending' = None /\ pointer' = Move(p, job[p].at)
        BY <2>2, <3>5, <4>1 DEF Aims, JobAims
      <4> QED BY <3>5, <4>1, <4>2 DEF JobAims, Move
    <3> QED BY <3>1, <3>2, <3>3, <3>4, <3>5 DEF TypeOK, Jobs
  <2>7. OthersIdle(p)'
    BY <1>1, <2>3 DEF Aims, OthersIdle
  <2> QED BY <1>2, <2>5, <2>6, <2>7 DEF Aims
<1>5. CASE TakeWheel \/ DeliverWheel \/ UNCHANGED vars
  <2>1. UNCHANGED <<job, pending, ticking, pointer>>
    BY <1>5 DEF TakeWheel, DeliverWheel, moves, vars
  <2>2. OthersIdle(p)'
    BY <1>1, <2>1 DEF Aims, OthersIdle
  <2> QED BY <1>1, <2>1, <2>2, AimsFrame
<1> QED BY <1>3, <1>4, <1>5 DEF Tickers

LEMMA ButtonsAim ==
    ASSUME TypeOK, Aiming, [Next]_vars
    PROVE  Aiming'
<1> SUFFICES ASSUME faults' = 0, NEW p \in Pages, Sole(p)' PROVE Aims(p)'
  BY DEF Aiming
<1>1. Aims(p)
  BY HistoryGrows DEF Aiming
<1>2. ASSUME NEW r \in Pages, Handler(r) PROVE Aims(p)'
  <2>1. CASE r # p
    BY <1>1, <1>2, <2>1, OthersHandlersAim
  <2>2. CASE r = p
    BY <1>1, <1>2, <2>2, ReadingAims, HandlingAims DEF Handler
  <2> QED BY <2>1, <2>2
<1> QED BY <1>1, <1>2, PageStepsAim, DisconnectAims, TickersAim DEF Next

-----------------------------------------------------------------------------
LEMMA InitInductive == Init => Inductive
<1> SUFFICES ASSUME Init PROVE Inductive
  OBVIOUS
<1>1. \A p \in Pages : channel[p] = <<>> /\ Len(channel[p]) = 0 /\ job[p] = None
  BY DEF Init
<1>2. TypeOK
  <2>1. channel \in [Pages -> Seq(Messages)]
    BY DEF Init
  <2>2. wheel \in [axis : {"x", "y"}, n : Int] /\ owed \in [Directions -> Nat]
    BY DEF Init
  <2> QED BY <2>1, <2>2, InputAssumption DEF Init, TypeOK
<1>3. LastAimIsSent
  BY DEF Init, LastAimIsSent
<1>4. ClicksAreAskedFor
  BY DEF Init, ClicksAreAskedFor
<1>5. Releasing
  BY <1>1 DEF Init, Releasing, Released
<1>6. Aiming
  BY <1>1 DEF Aiming, Aims, OthersIdle, Paired, FirstAims, JobAims
<1> QED BY <1>2, <1>3, <1>4, <1>5, <1>6 DEF Inductive

LEMMA NextTyped ==
    ASSUME TypeOK, ClicksAreAskedFor, [Next]_vars
    PROVE  TypeOK'
<1>1. CASE UNCHANGED vars
  BY <1>1 DEF vars, TypeOK
<1> QED BY <1>1, PageStepsType, HandlerStepsType, TickersType DEF Next

LEMMA NextInductive == Inductive /\ [Next]_vars => Inductive'
BY NextTyped, AimIsSent, ClicksAnswer, ButtonsRelease, ButtonsAim DEF Inductive

\* The throttle, the accumulators and the handlers keep what they promise of a
\* page's moves, buttons and wheel, in whatever order they run.
THEOREM Invariance == Spec => []Inductive
BY InitInductive, NextInductive, PTL DEF Spec

\* The state keeps its shape: in particular no more clicks are made than asked
\* for, and no turn has none or more than MaxSteps.
THEOREM TypeCorrectness == Spec => []TypeOK
<1>1. Inductive => TypeOK
  BY DEF Inductive
<1> QED BY <1>1, Invariance, PTL

\* The throttle forgets no position and sends none that is out of date.
THEOREM AimsAreSent == Spec => []LastAimIsSent
<1>1. Inductive => LastAimIsSent
  BY DEF Inductive
<1> QED BY <1>1, Invariance, PTL

\* Every click of the wheel answers a message of its own, in its direction.
THEOREM ClicksAnswerMessages == Spec => []ClicksAreAskedFor
<1>1. Inductive => ClicksAreAskedFor
  BY DEF Inductive
<1> QED BY <1>1, Invariance, PTL

\* A button that is down is held or about to be released, unless an event of the
\* page that pressed it was lost, whatever becomes of the others' events.
THEOREM NoButtonSticks == Spec => []ButtonsAreReleased
<1>1. Inductive => ButtonsAreReleased
  <2> SUFFICES ASSUME Inductive, button # None, button.down, button.by \notin lost
               PROVE  \/ holding[button.by]
                      \/ job[button.by] # None /\ job[button.by].type = "up"
                      \/ \E n \in 1..Len(channel[button.by]) : channel[button.by][n].type = "up"
    BY DEF ButtonsAreReleased
  <2>1. button.by \in Pages
    BY DEF Inductive, TypeOK
  <2>2. Released(button.by)
    BY <2>1 DEF Inductive, Releasing
  <2> QED BY <2>2 DEF Released, Releases
<1> QED BY <1>1, Invariance, PTL

\* While no other page moves the pointer and no call fails, a button goes down or up
\* where its page aimed, with the two exceptions the code leaves: the ticker still
\* has the move to that place in hand, or it made an older move after the handler
\* had moved the pointer there. No other order of the goroutines misplaces a button.
THEOREM ButtonsActThere == Spec => ButtonsActWhereAimed
<1>1. ASSUME Inductive, [Next]_vars, NEW p \in Pages, job[p] # None, job'[p] = None,
             ~(faults' > 0), ~\E q \in Pages \ {p} : sent[q] # None
      PROVE  \/ pointer = Move(p, job[p].at)
             \/ ticking = Move(p, job[p].at)
             \/ job[p].overtaken
  <2>1. faults = 0 /\ ~Fails
    <3>1. faults' = faults \/ Fails
      BY <1>1 DEF Next, PointerMove, PointerButton, HandleWheel, Rested, Disconnect, Handler,
                  ReadMove, ReadWheel, ReadButton, Take, MovePointer, PressButton, Tickers,
                  TakeMove, DeliverMove, TakeWheel, DeliverWheel, vars
    <3> QED BY <1>1, <3>1 DEF Inductive, TypeOK, Fails
  <2>2. job[p].step = "press"
    <3> USE DEF Inductive, TypeOK
    <3>1. ~UNCHANGED job
      BY <1>1
    <3>2. ~DeliverMove
      <4>1. CASE DeliverMove
        BY <1>1, <4>1, DeliveryMarks, NothingAssumption
      <4> QED BY <4>1
    <3>3. PICK r \in Pages : ReadButton(r) \/ Take(r) \/ MovePointer(r) \/ PressButton(r)
      BY <1>1, <3>1, <3>2 DEF Next, PointerMove, PointerButton, HandleWheel, Rested, Disconnect,
                  Handler, ReadMove, ReadWheel, Tickers, TakeMove, TakeWheel, DeliverWheel, vars
    <3>4. r = p
      <4>1. CASE r # p
        BY <1>1, <3>3, <4>1 DEF ReadButton, Take, MovePointer, PressButton
      <4> QED BY <4>1
    <3>5. ~ReadButton(p)
      BY <1>1 DEF ReadButton, Receive
    <3>6. job'[p] \in Jobs => FALSE
      BY <1>1, NothingAssumption
    <3>7. ~Take(p)
      <4> SUFFICES ASSUME Take(p) PROVE FALSE
        OBVIOUS
      <4>1. job[p] \in Jobs
        BY <1>1
      <4>2. \/ job' = [job EXCEPT ![p] = [job[p] EXCEPT !.step = "press"]]
            \/ pending # None /\ job' = [job EXCEPT ![p] = [job[p] EXCEPT !.step = "move",
                                                                       !.took = pending]]
        BY DEF Take
      <4>3. pending # None => pending \in Moves
        BY <1>1
      <4>4. job'[p] \in Jobs
        <5>1. \/ job'[p] = [job[p] EXCEPT !.step = "press"]
              \/ pending # None /\ job'[p] = [job[p] EXCEPT !.step = "move", !.took = pending]
          BY <1>1, <4>2
        <5> HIDE DEF Inductive, TypeOK
        <5> QED BY <4>1, <4>3, <5>1, JobSteps
      <4> QED BY <3>6, <4>4
    <3>8. ~MovePointer(p)
      <4> SUFFICES ASSUME MovePointer(p) PROVE FALSE
        OBVIOUS
      <4>1. job[p] \in Jobs /\ job' = [job EXCEPT ![p] = [job[p] EXCEPT !.step = "press",
                                                                    !.took = None]]
        BY <1>1, <2>1 DEF MovePointer
      <4>2. job'[p] = [job[p] EXCEPT !.step = "press", !.took = None]
        BY <1>1, <4>1
      <4>3. job'[p] \in Jobs
        <5> HIDE DEF Inductive, TypeOK
        <5> QED BY <4>1, <4>2, JobSteps
      <4> QED BY <3>6, <4>3
    <3> QED BY <3>3, <3>4, <3>5, <3>7, <3>8 DEF PressButton
  <2>3. Sole(p)
    BY <1>1 DEF Sole
  <2>4. JobAims(p)
    BY <1>1, <2>1, <2>3 DEF Inductive, Aiming, Aims
  <2> QED BY <1>1, <2>2, <2>4 DEF JobAims
<1>2. ASSUME Inductive, [Next]_vars
      PROVE  [\A p \in Pages :
                 job[p] # None /\ job'[p] = None =>
                     \/ faults' > 0
                     \/ \E q \in Pages \ {p} : sent[q] # None
                     \/ pointer = Move(p, job[p].at)
                     \/ ticking = Move(p, job[p].at)
                     \/ job[p].overtaken]_vars
  BY <1>1, <1>2
<1> QED BY <1>2, Invariance, PTL DEF Spec, ButtonsActWhereAimed
=============================================================================
