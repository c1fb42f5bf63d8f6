-------------------------------- MODULE Input --------------------------------
(***************************************************************************)
(* Mouse input from the pages to the instance's display: the throttle of   *)
(* web/static/js/session.js, and the input service                         *)
(* (docker/session/input-service/main.go) with its accumulators, which all *)
(* WebSocket connections share, and the xdotool calls, which exclude each  *)
(* other. One button, and wheel messages of the page's size (120).         *)
(*                                                                         *)
(* A page that reconnects is another member of Pages: the new connection   *)
(* has a handler of its own. Keys, text and the clipboard are left out, as *)
(* is the page's throttle for the wheel: its messages may come at any time.*)
(***************************************************************************)
EXTENDS Integers, Sequences, FiniteSets

CONSTANTS
    Pages,       \* pages, each with its input connection
    Positions,   \* on the screen
    MaxSteps,    \* RB_INPUT_WHEEL_MAX_STEPS
    MaxEvents,   \* bound: what the users do in all
    MaxFaults,   \* bound: xdotool calls that fail
    None

ASSUME InputAssumption ==
    /\ MaxSteps \in Nat \ {0} /\ MaxEvents \in Nat /\ MaxFaults \in Nat
    /\ None \notin Positions

\* Directions of the wheel: an axis and a sign.
Directions == {"x", "y"} \X {-1, 1}

VARIABLES
    aimed,     \* where the page's pointer was seen last
    queued,    \* pendingMouseMove of the page
    resting,   \* less than mouseMoveInterval since the last move was sent; with
               \* a queued move the page's timer is set
    holding,   \* the user holds the button
    live,      \* usingWebRTCInput() and the socket is open
    channel,   \* messages sent and not read
    job,       \* the handler's button message, what it took and is to do
    pending,   \* mouseMoveAccumulator: the latest move
    ticking,   \* the move its ticker took and has not delivered
    wheel,     \* wheelAccumulator: axis and number of steps, signed
    turning,   \* the direction and steps its ticker took and has not delivered
    pointer,   \* the display: who moved the pointer where
    button,    \* the display: whose press or release came last
    sent,      \* history: the last move of the page that was sent
    turned,    \* history: the last wheel message's direction
    owed,      \* history: wheel messages not answered by clicks, by direction
    lost,      \* history: pages a button event of which was lost
    events,    \* the number of user events so far
    faults     \* the number of failed calls so far

vars == <<aimed, queued, resting, holding, live, channel, job, pending, ticking,
          wheel, turning, pointer, button, sent, turned, owed, lost, events,
          faults>>
page == <<aimed, queued, resting, holding, sent, events>>
moves == <<pending, ticking, pointer>>
wheels == <<wheel, turning, turned, owed>>

Move(p, x) == [by |-> p, at |-> x]
Moves == [by : Pages, at : Positions]
Messages == [type : {"move", "down", "up"}, at : Positions]
            \cup [type : {"wheel"}, dir : Directions]
Jobs == [type : {"down", "up"}, at : Positions, step : {"take", "move", "press"},
         took : Moves \cup {None}, overtaken : BOOLEAN]

ASSUME NothingAssumption == None \notin Pages \cup Moves \cup Jobs

TypeOK ==
    /\ aimed \in [Pages -> Positions \cup {None}]
    /\ queued \in [Pages -> Positions \cup {None}]
    /\ resting \in [Pages -> BOOLEAN]
    /\ holding \in [Pages -> BOOLEAN]
    /\ live \in [Pages -> BOOLEAN]
    /\ channel \in [Pages -> Seq(Messages)]
    /\ job \in [Pages -> Jobs \cup {None}]
    /\ pending \in Moves \cup {None}
    /\ ticking \in Moves \cup {None}
    /\ wheel \in [axis : {"x", "y"}, n : Int]
    /\ turning = None \/ turning \in Directions \X (1..MaxSteps)
    /\ pointer \in Moves \cup {None}
    /\ button \in [by : Pages, down : BOOLEAN] \cup {None}
    /\ sent \in [Pages -> Positions \cup {None}]
    /\ turned = None \/ turned \in Directions
    /\ owed \in [Directions -> Nat]
    /\ lost \subseteq Pages
    /\ events \in 0..MaxEvents
    /\ faults \in 0..MaxFaults

----------------------------------------------------------------------------
(* The page.                                                               *)

UserEvent == events < MaxEvents /\ events' = events + 1

\* sendInput: an event of a page that is not live goes nowhere.
Send(p, messages) == channel' = [channel EXCEPT ![p] = @ \o messages]

\* (Seeded fault: an older move stays queued.)
FlushMoveOnly(p, x, messages) ==
    /\ UNCHANGED queued
    /\ resting' = [resting EXCEPT ![p] = TRUE]
    /\ sent' = [sent EXCEPT ![p] = x]
    /\ Send(p, <<[type |-> "move", at |-> x]>> \o messages)

\* flushMouseMove, with the messages that follow it.
FlushMove(p, x, messages) ==
    /\ queued' = [queued EXCEPT ![p] = None]
    /\ resting' = [resting EXCEPT ![p] = TRUE]
    /\ sent' = [sent EXCEPT ![p] = x]
    /\ Send(p, <<[type |-> "move", at |-> x]>> \o messages)

PointerMove(p, x) ==
    /\ live[p] /\ UserEvent
    /\ aimed' = [aimed EXCEPT ![p] = x]
    /\ IF resting[p]
       THEN queued' = [queued EXCEPT ![p] = x] /\ UNCHANGED <<resting, sent, channel>>
       ELSE FlushMove(p, x, <<>>)
    /\ UNCHANGED <<holding, live, job, moves, wheels, button, lost, faults>>

\* mouseMoveInterval is over.
Rested(p) ==
    /\ live[p] /\ resting[p]
    /\ IF queued[p] # None
       THEN FlushMove(p, queued[p], <<>>)
       ELSE resting' = [resting EXCEPT ![p] = FALSE] /\ UNCHANGED <<queued, sent, channel>>
    /\ UNCHANGED <<aimed, holding, events, live, job, moves, wheels, button, lost,
                   faults>>

\* handlePointerDown, handlePointerUp.
PointerButton(p, x, type) ==
    /\ live[p] /\ UserEvent
    /\ holding[p] = (type = "up")
    /\ holding' = [holding EXCEPT ![p] = (type = "down")]
    /\ aimed' = [aimed EXCEPT ![p] = x]
    /\ FlushMove(p, x, <<[type |-> type, at |-> x]>>)
    /\ UNCHANGED <<live, job, moves, wheels, button, lost, faults>>

HandleWheel(p, d) ==
    /\ live[p] /\ UserEvent
    /\ Send(p, <<[type |-> "wheel", dir |-> d]>>)
    /\ UNCHANGED <<aimed, queued, resting, holding, sent, live, job, moves, wheels,
                   button, lost, faults>>

\* The socket or the video connection ends: unread messages may be lost, and the
\* page handles no more pointer events, so a held button is not released.
Disconnect(p) ==
    /\ live[p]
    /\ live' = [live EXCEPT ![p] = FALSE]
    /\ \E n \in 0..Len(channel[p]) :
          /\ channel' = [channel EXCEPT ![p] = SubSeq(@, 1, n)]
          /\ lost' = IF holding[p] \/ \E m \in n + 1..Len(channel[p]) :
                                          channel[p][m].type \in {"down", "up"}
                     THEN lost \cup {p} ELSE lost
    /\ UNCHANGED <<page, job, moves, wheels, button, faults>>

----------------------------------------------------------------------------
(* The service's handler of a connection: messages one after the other.    *)

Receive(p, type) ==
    /\ job[p] = None
    /\ channel[p] # <<>>
    /\ Head(channel[p]).type = type
    /\ channel' = [channel EXCEPT ![p] = Tail(@)]

\* mouseMoveAccumulator.add
ReadMove(p) ==
    /\ Receive(p, "move")
    /\ pending' = Move(p, Head(channel[p]).at)
    /\ UNCHANGED <<page, live, job, ticking, pointer, wheels, button, lost, faults>>

\* (Seeded fault: a reversal is only subtracted.)
AddSigned(d) ==
    IF wheel.axis = d[1] THEN [wheel EXCEPT !.n = @ + d[2]]
    ELSE [axis |-> d[1], n |-> d[2]]

\* wheelAccumulator.add: steps on the same axis and in the same direction add up.
AddSteps(d) ==
    IF wheel.axis = d[1] /\ wheel.n * d[2] > 0
    THEN [wheel EXCEPT !.n = @ + d[2]]
    ELSE [axis |-> d[1], n |-> d[2]]

ReadWheel(p) ==
    /\ Receive(p, "wheel")
    /\ LET d == Head(channel[p]).dir IN
          /\ wheel' = AddSteps(d)
          /\ turned' = d
          /\ owed' = [owed EXCEPT ![d] = @ + 1]
    /\ UNCHANGED <<page, live, job, moves, turning, button, lost, faults>>

ReadButton(p) ==
    /\ Receive(p, "down") \/ Receive(p, "up")
    /\ LET m == Head(channel[p]) IN
       job' = [job EXCEPT ![p] = [type |-> m.type, at |-> m.at, step |-> "take",
                                  took |-> None, overtaken |-> FALSE]]
    /\ UNCHANGED <<page, live, moves, wheels, button, lost, faults>>

\* (Seeded fault: the handler leaves the pending move to the ticker.)
TakeNothing(p) ==
    /\ job[p] # None /\ job[p].step = "take"
    /\ job' = [job EXCEPT ![p].step = "press"]
    /\ UNCHANGED <<page, live, channel, moves, wheels, button, lost, faults>>

\* mouseMoveAccumulator.flush: take, then move the pointer.
Take(p) ==
    /\ job[p] # None /\ job[p].step = "take"
    /\ IF pending = None
       THEN job' = [job EXCEPT ![p].step = "press"]
       ELSE job' = [job EXCEPT ![p].step = "move", ![p].took = pending]
    /\ pending' = None
    /\ UNCHANGED <<page, live, channel, ticking, pointer, wheels, button, lost, faults>>

\* An xdotool call fails before or after it had its effect.
Fails == faults < MaxFaults /\ faults' = faults + 1

\* After a failed move the handler gives its button message up.
MovePointer(p) ==
    /\ job[p] # None /\ job[p].step = "move"
    /\ \/ /\ pointer' = job[p].took
          /\ job' = [job EXCEPT ![p].step = "press", ![p].took = None]
          /\ UNCHANGED <<lost, faults>>
       \/ /\ Fails
          /\ pointer' \in {pointer, job[p].took}
          /\ job' = [job EXCEPT ![p] = None]
          /\ lost' = lost \cup {p}
    /\ UNCHANGED <<page, live, channel, pending, ticking, wheels, button>>

\* (Seeded fault: every button event presses.)
PressAlways(p) ==
    /\ job[p] # None /\ job[p].step = "press"
    /\ job' = [job EXCEPT ![p] = None]
    /\ button' = [by |-> p, down |-> TRUE]
    /\ UNCHANGED <<page, live, channel, moves, wheels, lost, faults>>

PressButton(p) ==
    /\ job[p] # None /\ job[p].step = "press"
    /\ job' = [job EXCEPT ![p] = None]
    /\ LET new == [by |-> p, down |-> job[p].type = "down"] IN
       \/ button' = new /\ UNCHANGED <<lost, faults>>
       \/ Fails /\ button' \in {button, new} /\ lost' = lost \cup {p}
    /\ UNCHANGED <<page, live, channel, moves, wheels>>

----------------------------------------------------------------------------
(* The tickers.                                                            *)

TakeMove ==
    /\ ticking = None /\ pending # None
    /\ ticking' = pending
    /\ pending' = None
    /\ UNCHANGED <<page, live, channel, job, pointer, wheels, button, lost, faults>>

\* The call that moves the pointer queues for the driver's mutex like any other: it
\* may come between a handler's own move and its press.
Overtaken(q) ==
    job[q] # None /\ job[q].step = "press" /\ ticking # Move(q, job[q].at)

DeliverMove ==
    /\ ticking # None
    /\ ticking' = None
    /\ job' = [q \in Pages |-> IF Overtaken(q) THEN [job[q] EXCEPT !.overtaken = TRUE]
                             ELSE job[q]]
    /\ \/ pointer' = ticking /\ UNCHANGED faults
       \/ Fails /\ pointer' \in {pointer, ticking}
    /\ UNCHANGED <<page, live, channel, pending, wheels, button, lost>>

Abs(n) == IF n < 0 THEN -n ELSE n

\* wheelSteps, of a whole number of 120s.
WheelSteps(n) == IF Abs(n) > MaxSteps THEN MaxSteps ELSE Abs(n)

WheelDirection == <<wheel.axis, IF wheel.n < 0 THEN -1 ELSE 1>>

\* (Seeded fault: what is over MaxSteps is kept for ever.)
TakeWheelKeeping ==
    /\ turning = None /\ wheel.n # 0
    /\ turning' = <<WheelDirection, WheelSteps(wheel.n)>>
    /\ UNCHANGED <<wheel, page, live, channel, job, moves, turned, owed, button,
                   lost, faults>>

TakeWheel ==
    /\ turning = None /\ wheel.n # 0
    /\ turning' = <<WheelDirection, WheelSteps(wheel.n)>>
    /\ wheel' = [wheel EXCEPT !.n = 0]
    /\ UNCHANGED <<page, live, channel, job, moves, turned, owed, button, lost, faults>>

\* A failed call may have clicked, or not.
DeliverWheel ==
    /\ turning # None
    /\ turning' = None
    /\ \/ owed' = [owed EXCEPT ![turning[1]] = @ - turning[2]] /\ UNCHANGED faults
       \/ Fails /\ UNCHANGED owed
    /\ UNCHANGED <<page, live, channel, job, moves, wheel, turned, button, lost>>

----------------------------------------------------------------------------
Init ==
    /\ aimed = [p \in Pages |-> None]
    /\ queued = [p \in Pages |-> None]
    /\ resting = [p \in Pages |-> FALSE]
    /\ holding = [p \in Pages |-> FALSE]
    /\ live = [p \in Pages |-> TRUE]
    /\ channel = [p \in Pages |-> <<>>]
    /\ job = [p \in Pages |-> None]
    /\ pending = None
    /\ ticking = None
    /\ wheel = [axis |-> "y", n |-> 0]
    /\ turning = None
    /\ pointer = None
    /\ button = None
    /\ sent = [p \in Pages |-> None]
    /\ turned = None
    /\ owed = [d \in Directions |-> 0]
    /\ lost = {}
    /\ events = 0
    /\ faults = 0

Handler(p) ==
    \/ ReadMove(p) \/ ReadWheel(p) \/ ReadButton(p)
    \/ Take(p) \/ MovePointer(p) \/ PressButton(p)

Tickers == TakeMove \/ DeliverMove \/ TakeWheel \/ DeliverWheel

Next ==
    \/ \E p \in Pages :
          \/ \E x \in Positions : \/ PointerMove(p, x)
                                  \/ \E type \in {"down", "up"} : PointerButton(p, x, type)
          \/ \E d \in Directions : HandleWheel(p, d)
          \/ Rested(p) \/ Disconnect(p) \/ Handler(p)
    \/ Tickers

Spec == Init /\ [][Next]_vars

----------------------------------------------------------------------------
(* Properties                                                              *)

\* While no other page moves the pointer and no call failed, a button goes down or up
\* where the page aimed, although the position travels by itself and whoever comes
\* first takes it. The code leaves two windows open, and only these: the ticker has
\* the button's own move in hand and has not made it, or it made an older one after
\* the handler had made this one (main.go:369-372 against 455-461).
ButtonsActWhereAimed ==
    [][\A p \in Pages :
          job[p] # None /\ job'[p] = None =>
              \/ faults' > 0
              \/ \E q \in Pages \ {p} : sent[q] # None
              \/ pointer = Move(p, job[p].at)
              \/ ticking = Move(p, job[p].at)
              \/ job[p].overtaken]_vars

\* The button is down only as long as the page that pressed it holds it or its
\* release is on its way, unless an event of that page was lost: what others lose,
\* and their presses and releases of the same button, do not matter.
ButtonsAreReleased ==
    button # None /\ button.down =>
        \/ button.by \in lost
        \/ holding[button.by]
        \/ job[button.by] # None /\ job[button.by].type = "up"
        \/ \E n \in 1..Len(channel[button.by]) : channel[button.by][n].type = "up"

\* The throttle forgets no position and sends none that is out of date: the last
\* one is sent, or queued with the timer set.
LastAimIsSent ==
    \A p \in Pages :
        IF queued[p] = None THEN sent[p] = aimed[p]
        ELSE queued[p] = aimed[p] /\ resting[p]

\* Every wheel click answers a wheel message of its own, in its direction, and
\* after a turn to another side nothing is left of the old one but what the
\* ticker already holds (TestWheelAccumulatorDropsOldDirectionOnReverse).
ClicksAreAskedFor ==
    /\ \A d \in Directions :
          owed[d] >= (IF wheel.n # 0 /\ WheelDirection = d THEN Abs(wheel.n) ELSE 0)
                     + (IF turning # None /\ turning[1] = d THEN turning[2] ELSE 0)
    /\ wheel.n # 0 => WheelDirection = turned
=============================================================================
