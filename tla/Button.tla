------------------------------- MODULE Button -------------------------------
(***************************************************************************)
(* The debounced push buttons of src/src/button.cpp.                       *)
(*                                                                         *)
(* Three parties share a button: the electrical pin, which bounces as it   *)
(* likes; the GPIO interrupt service routine Button::ISR; and the FreeRTOS *)
(* timer daemon, the one task that runs the deferred callbacks             *)
(* (Button::cbInvoker) and the debounce timers (Button::DebounceCB) of all *)
(* buttons, out of one bounded command queue.  Every send to that queue    *)
(* ignores its result, so a full queue would lose an event or, worse, the  *)
(* timer reset that is the only thing that ever re-arms the interrupt.     *)
(***************************************************************************)
EXTENDS Integers, Sequences, FiniteSets

CONSTANTS
    Buttons,           \* the Button instances: up and down in main.cpp:36-37
    QueueLength,       \* slots of the timer daemon's command queue
    DebounceDuration,  \* DEBOUNCE_DURATION, in ticks
    LongPressDuration, \* LONG_PRESS_DURATION, in ticks
    TickMod,           \* TickType_t counts modulo this (2^32 on the target)
    Callbacks          \* Callbacks[b]: the events of b that have a callback

Event == {"PRESS", "RELEASE", "CLICK", "HOLD"}

ASSUME DurationAssumption ==
    /\ DebounceDuration \in Nat \ {0}
    /\ LongPressDuration \in Nat
    /\ TickMod \in Nat \ {0}
    /\ DebounceDuration <= TickMod

ASSUME ButtonAssumption ==
    /\ IsFiniteSet(Buttons)
    /\ Callbacks \in [Buttons -> SUBSET Event]

(* One debounce reset and the two events of a release, for every button.   *)
ASSUME QueueAssumption ==
    /\ QueueLength \in Nat
    /\ 3 * Cardinality(Buttons) <= QueueLength

VARIABLES
    pin,            \* pin[b]: !digitalRead, TRUE while the contact is closed
    state,          \* Button::state
    pressTimestamp, \* Button::pressTimestamp
    isr,            \* the interrupt: "unused", "attached", "raised", "timed", "detached"
    timer,          \* timer[b]: the debounce timer is running
    since,          \* ticks since its last reset was issued, up to the period
    queue,          \* the daemon's command queue
    daemon,         \* what the daemon is doing: a DebounceCB or nothing
    now,            \* xTaskGetTickCount()
    callTime,       \* poll's callTime, from its reading up to the poll; else 0
    age,            \* ghost: ticks since the pin was read as state, up to TickMod
    lag,            \* ghost: ticks since callTime was read, up to TickMod; else 0
    held,           \* ghost: ticks since the callTime of the present press was
                    \* read, up to TickMod, and that when there is no press
    last            \* ghost: the event each button last delivered

vars == <<pin, state, pressTimestamp, isr, timer, since, queue, daemon, now,
          callTime, age, lag, held, last>>

(* The clock as a poll under way has read it, and the ghosts about it.     *)
clocks == <<callTime, lag>>
ghosts == <<age, held>>

Command == [btn : Buttons, cmd : Event \cup {"reset"}]
Idle == [busy |-> FALSE]
Busy == [busy : {TRUE}, btn : Buttons, polled : BOOLEAN, changed : BOOLEAN, calls : Seq(Event)]

(* Button::Button: the constructor takes the button for released whatever  *)
(* its pin says, and only attach() looks at the hardware.                  *)
Init ==
    /\ pin \in [Buttons -> BOOLEAN]
    /\ state = [b \in Buttons |-> FALSE]
    /\ pressTimestamp = [b \in Buttons |-> 0]
    /\ isr = [b \in Buttons |-> "unused"]
    /\ timer = [b \in Buttons |-> FALSE]
    /\ since = [b \in Buttons |-> DebounceDuration]
    /\ queue = <<>>
    /\ daemon = Idle
    /\ now = 0
    /\ callTime = [b \in Buttons |-> 0]
    /\ age = [b \in Buttons |-> TickMod]
    /\ lag = [b \in Buttons |-> 0]
    /\ held = [b \in Buttons |-> TickMod]
    /\ last = [b \in Buttons |-> "RELEASE"]

-----------------------------------------------------------------------------
(* Button::poll                                                            *)

Registered(b, e) == IF e \in Callbacks[b] THEN <<e>> ELSE <<>>

BadHeldFor(b) == callTime[b] - pressTimestamp[b]
HeldFor(b) == (callTime[b] - pressTimestamp[b]) % TickMod

BadRaised(b) ==
    IF pin[b] = state[b] THEN <<>>
    ELSE IF pin[b] THEN Registered(b, "PRESS")
    ELSE Registered(b, "RELEASE")
           \o Registered(b, IF HeldFor(b) >= LongPressDuration THEN "HOLD" ELSE "CLICK")

(* The events one poll raises, in the order in which poll raises them.     *)
Raised(b) ==
    IF pin[b] = state[b] THEN <<>>
    ELSE IF pin[b] THEN Registered(b, "PRESS")
    ELSE Registered(b, IF HeldFor(b) >= LongPressDuration THEN "HOLD" ELSE "CLICK")
           \o Registered(b, "RELEASE")

BadPoll(b) ==
    /\ state' = [state EXCEPT ![b] = pin[b]]
    /\ pressTimestamp' =
         [pressTimestamp EXCEPT ![b] = IF pin[b] /\ ~state[b] THEN callTime[b] - DebounceDuration
                                       ELSE @]
    /\ callTime' = [callTime EXCEPT ![b] = 0]
    /\ age' = [age EXCEPT ![b] = IF pin[b] = state[b] THEN @ ELSE 0]
    /\ lag' = [lag EXCEPT ![b] = 0]
    /\ held' = [held EXCEPT ![b] = IF pin[b] = state[b] THEN @ ELSE IF pin[b] THEN lag[b] ELSE TickMod]

(* What poll, from its digitalRead on, does to the button's own fields.    *)
Poll(b) ==
    /\ state' = [state EXCEPT ![b] = pin[b]]
    /\ pressTimestamp' =
         [pressTimestamp EXCEPT ![b] = IF pin[b] /\ ~state[b] THEN callTime[b] ELSE @]
    /\ callTime' = [callTime EXCEPT ![b] = 0]
    /\ age' = [age EXCEPT ![b] = IF pin[b] = state[b] THEN @ ELSE 0]
    /\ lag' = [lag EXCEPT ![b] = 0]
    /\ held' = [held EXCEPT ![b] = IF pin[b] = state[b] THEN @ ELSE IF pin[b] THEN lag[b] ELSE TickMod]

(* The caller of poll reads the tick count; poll reads the pin later, and  *)
(* ticks may pass in between.                                              *)
ReadClock(b) ==
    /\ callTime' = [callTime EXCEPT ![b] = now]
    /\ lag' = [lag EXCEPT ![b] = 0]

(* xTimer...FromISR and xTimerReset with no wait: a send that finds the    *)
(* queue full is dropped, and nobody looks at the result.                  *)
Post(cmds) ==
    LET all == queue \o cmds
    IN  queue' = IF Len(all) <= QueueLength THEN all ELSE SubSeq(all, 1, QueueLength)

Commands(b, events) == [i \in 1..Len(events) |-> [btn |-> b, cmd |-> events[i]]]
Reset(b) == <<[btn |-> b, cmd |-> "reset"]>>

-----------------------------------------------------------------------------
(* The pin and the interrupt                                               *)

(* Button::attach, called once by setup().                                 *)
Attach(b) ==
    /\ isr[b] = "unused"
    /\ isr' = [isr EXCEPT ![b] = "attached"]
    /\ UNCHANGED <<pin, state, pressTimestamp, timer, since, queue, daemon, now, clocks, ghosts, last>>

(* The contact closes, opens or bounces.  The edge raises the interrupt    *)
(* only while it is attached; otherwise nobody sees it.                    *)
PinChange(b) ==
    /\ pin' = [pin EXCEPT ![b] = ~@]
    /\ isr' = [isr EXCEPT ![b] = IF @ = "attached" THEN "raised" ELSE @]
    /\ UNCHANGED <<state, pressTimestamp, timer, since, queue, daemon, now, clocks, ghosts, last>>

(* Button::ISR reads the clock.                                            *)
EnterISR(b) ==
    /\ isr[b] = "raised"
    /\ ReadClock(b)
    /\ isr' = [isr EXCEPT ![b] = "timed"]
    /\ UNCHANGED <<pin, state, pressTimestamp, timer, since, queue, daemon, now, ghosts, last>>

BadISRNoDetach(b) ==
    /\ isr[b] = "timed"
    /\ Poll(b)
    /\ Post(Commands(b, Raised(b)) \o Reset(b))
    /\ isr' = [isr EXCEPT ![b] = "attached"]
    /\ since' = [since EXCEPT ![b] = 0]
    /\ UNCHANGED <<pin, timer, daemon, now, last>>

BadISRNoReset(b) ==
    /\ isr[b] = "timed"
    /\ Poll(b)
    /\ Post(Commands(b, Raised(b)))
    /\ isr' = [isr EXCEPT ![b] = "detached"]
    /\ UNCHANGED <<pin, timer, since, daemon, now, last>>

(* The rest of Button::ISR: poll, detach, reset the debounce timer.        *)
ISR(b) ==
    /\ isr[b] = "timed"
    /\ Poll(b)
    /\ Post(Commands(b, Raised(b)) \o Reset(b))
    /\ isr' = [isr EXCEPT ![b] = "detached"]
    /\ since' = [since EXCEPT ![b] = 0]
    /\ UNCHANGED <<pin, timer, daemon, now, last>>

-----------------------------------------------------------------------------
(* The timer daemon task                                                   *)

(* The daemon takes the oldest command: a pended Button::cbInvoker runs    *)
(* the callback, a reset starts the timer.                                 *)
Dispatch ==
    /\ ~daemon.busy
    /\ queue # <<>>
    /\ LET m == Head(queue)
       IN  IF m.cmd = "reset"
           THEN timer' = [timer EXCEPT ![m.btn] = TRUE] /\ UNCHANGED last
           ELSE last' = [last EXCEPT ![m.btn] = m.cmd] /\ UNCHANGED timer
    /\ queue' = Tail(queue)
    /\ UNCHANGED <<pin, state, pressTimestamp, isr, since, daemon, now, clocks, ghosts>>

(* Button::DebounceCB, called when the timer expires, reads the clock.     *)
DebounceCB(b) ==
    /\ ~daemon.busy
    /\ timer[b]
    /\ since[b] >= DebounceDuration
    /\ ReadClock(b)
    /\ daemon' = [busy |-> TRUE, btn |-> b, polled |-> FALSE, changed |-> FALSE, calls |-> <<>>]
    /\ timer' = [timer EXCEPT ![b] = FALSE]
    /\ UNCHANGED <<pin, state, pressTimestamp, isr, since, queue, now, ghosts, last>>

(* The poll in Button::DebounceCB: the callbacks that it raises are still  *)
(* to be invoked.                                                          *)
PollDebounced(b) ==
    /\ daemon.busy /\ daemon.btn = b /\ ~daemon.polled
    /\ Poll(b)
    /\ daemon' = [daemon EXCEPT !.polled = TRUE, !.changed = (pin[b] # state[b]), !.calls = Raised(b)]
    /\ UNCHANGED <<pin, isr, timer, since, queue, now, last>>

(* callbacks[...]->invoke(), from inside poll.                             *)
Invoke ==
    /\ daemon.busy
    /\ daemon.calls # <<>>
    /\ last' = [last EXCEPT ![daemon.btn] = Head(daemon.calls)]
    /\ daemon' = [daemon EXCEPT !.calls = Tail(@)]
    /\ UNCHANGED <<pin, state, pressTimestamp, isr, timer, since, queue, now, clocks, ghosts>>

BadRearm ==
    /\ daemon.busy /\ daemon.polled
    /\ daemon.calls = <<>>
    /\ isr' = [isr EXCEPT ![daemon.btn] = "attached"]
    /\ daemon' = Idle
    /\ UNCHANGED <<pin, state, pressTimestamp, timer, since, queue, now, clocks, ghosts, last>>

(* The end of Button::DebounceCB: debounce again, or re-attach the ISR.    *)
Rearm ==
    /\ daemon.busy /\ daemon.polled
    /\ daemon.calls = <<>>
    /\ IF daemon.changed
       THEN /\ Post(Reset(daemon.btn))
            /\ since' = [since EXCEPT ![daemon.btn] = 0]
            /\ UNCHANGED isr
       ELSE /\ isr' = [isr EXCEPT ![daemon.btn] = "attached"]
            /\ UNCHANGED <<since, queue>>
    /\ daemon' = Idle
    /\ UNCHANGED <<pin, state, pressTimestamp, timer, now, clocks, ghosts, last>>

(* A poll of b is under way: its clock is read and its pin is not.         *)
Polling(b) == isr[b] = "timed" \/ (daemon.busy /\ daemon.btn = b /\ ~daemon.polled)

(* The tick interrupt.                                                     *)
UpTo(n, bound) == IF n < bound THEN n + 1 ELSE n

Tick ==
    /\ now' = (now + 1) % TickMod
    /\ since' = [b \in Buttons |-> UpTo(since[b], DebounceDuration)]
    /\ age' = [b \in Buttons |-> UpTo(age[b], TickMod)]
    /\ lag' = [b \in Buttons |-> IF Polling(b) THEN UpTo(lag[b], TickMod) ELSE 0]
    /\ held' = [b \in Buttons |-> UpTo(held[b], TickMod)]
    /\ UNCHANGED <<pin, state, pressTimestamp, isr, timer, queue, daemon, callTime, last>>

Next ==
    \/ \E b \in Buttons :
         Attach(b) \/ PinChange(b) \/ EnterISR(b) \/ ISR(b) \/ DebounceCB(b) \/ PollDebounced(b)
    \/ Dispatch
    \/ Invoke
    \/ Rearm
    \/ Tick

Spec == Init /\ [][Next]_vars

(* A raised interrupt is served, time passes, and the daemon never leaves  *)
(* its loop: it serves expired timers and queued commands however often    *)
(* the other button keeps it busy in between.                              *)
FairSpec ==
    /\ Spec
    /\ WF_vars(Tick) /\ WF_vars(Invoke) /\ WF_vars(Rearm)
    /\ SF_vars(Dispatch)
    /\ \A b \in Buttons :
         /\ WF_vars(EnterISR(b)) /\ WF_vars(ISR(b))
         /\ SF_vars(DebounceCB(b)) /\ WF_vars(PollDebounced(b))

-----------------------------------------------------------------------------
(* Every variable holds values of its type.                                *)
TypeOK ==
    /\ pin \in [Buttons -> BOOLEAN]
    /\ state \in [Buttons -> BOOLEAN]
    /\ pressTimestamp \in [Buttons -> 0..TickMod - 1]
    /\ isr \in [Buttons -> {"unused", "attached", "raised", "timed", "detached"}]
    /\ timer \in [Buttons -> BOOLEAN]
    /\ since \in [Buttons -> 0..DebounceDuration]
    /\ queue \in Seq(Command)
    /\ daemon \in {Idle} \cup Busy
    /\ now \in 0..TickMod - 1
    /\ callTime \in [Buttons -> 0..TickMod - 1]
    /\ age \in [Buttons -> 0..TickMod]
    /\ lag \in [Buttons -> 0..TickMod]
    /\ held \in [Buttons -> 0..TickMod]
    /\ last \in [Buttons -> Event]

Queued(b) == \E i \in 1..Len(queue) : queue[i].btn = b
ResetQueued(b) == \E i \in 1..Len(queue) : queue[i] = [btn |-> b, cmd |-> "reset"]
Serving(b) == daemon.busy /\ daemon.btn = b

(* A button whose interrupt is detached is never forgotten: its reset is   *)
(* on the way, its timer runs, or the daemon is polling it.  Exactly one   *)
(* of the four holds the button (button.cpp:20-43).                        *)
OneOwner ==
    \A b \in Buttons :
        /\ isr[b] = "detached" => ResetQueued(b) \/ timer[b] \/ Serving(b)
        /\ isr[b] # "detached" => ~Queued(b) /\ ~timer[b] /\ ~Serving(b)
        /\ timer[b] => ~Queued(b) /\ ~Serving(b)
        /\ Serving(b) => ~Queued(b)

(* Every send to the timer queue finds room for all it sends, although no  *)
(* caller looks at the result (button.cpp:28, 40, 61, 70, 78, 85).         *)
NoCommandLost ==
    /\ \A b \in Buttons :
         isr[b] = "timed" => Len(queue) + Len(Raised(b)) + 1 <= QueueLength
    /\ daemon.busy => Len(queue) + 1 <= QueueLength

(* In the queue the commands of one button stand in the order in which     *)
(* they were raised, and none of them stands there twice: first the press, *)
(* click or hold, then the release, then the reset (button.cpp:20-31).     *)
Slot(c) == IF c = "reset" THEN 3 ELSE IF c = "RELEASE" THEN 2 ELSE 1

SlotOrder ==
    \A i, j \in 1..Len(queue) :
        i < j /\ queue[i].btn = queue[j].btn => Slot(queue[i].cmd) < Slot(queue[j].cmd)

(* The state of a button changes at most once per DEBOUNCE_DURATION, over  *)
(* all interleavings of the interrupt and the daemon (button.h:10).        *)
Debounced ==
    [][\A b \in Buttons : state'[b] # state[b] => age[b] >= DebounceDuration]_vars

(* A release that a poll is about to see, of a button with both callbacks  *)
(* that went down less than TickMod ticks ago: more is beyond what the     *)
(* subtraction of poll can tell.                                           *)
Releasing(b) ==
    /\ Polling(b) /\ state[b] /\ ~pin[b]
    /\ held[b] < TickMod
    /\ {"CLICK", "HOLD"} \subseteq Callbacks[b]

(* A release is a HOLD when the button was down for longer than            *)
(* LONG_PRESS_DURATION, and a CLICK when it was down for less (button.h:   *)
(* 17-18), up to the ticks that pass between the reading of the clock and  *)
(* that of the pin (button.cpp:22, 35, 51), and also when the tick counter *)
(* wrapped in between: age is the time between the two readings of the     *)
(* pin, lag and held - age the delays of the second and the first of them. *)
(* A press of just LONG_PRESS_DURATION is left open: by button.h:18 only a *)
(* longer one is a HOLD, poll (button.cpp:67) also asks for as long.       *)
HoldIsLong ==
    \A b \in Buttons :
        Releasing(b) =>
            /\ age[b] - lag[b] > LongPressDuration => Head(Raised(b)) = "HOLD"
            /\ held[b] < LongPressDuration => Head(Raised(b)) = "CLICK"

(* What the daemon delivers is PRESS, then CLICK or HOLD, then RELEASE and *)
(* so on, whether the interrupt queued an event or the debounce callback   *)
(* invoked it at once (button.h:14-20).                                    *)
EventOrder == INSTANCE ButtonEvents
Delivers == EventOrder!Spec

(* While the pin keeps its level, an interrupt it raised leads to a        *)
(* re-armed interrupt and a state that agrees with the pin.                *)
Settles ==
    \A b \in Buttons : \A v \in BOOLEAN :
        isr[b] = "raised" /\ pin[b] = v
            ~> (isr[b] = "attached" /\ state[b] = v) \/ pin[b] # v

(* button.h:29: the ISR "will immediately be executed when a Button        *)
(* instance's pin changes state"; so a re-attached ISR has missed nothing. *)
NoEdgeMissed ==
    [][\A b \in Buttons :
         isr[b] = "detached" /\ isr'[b] = "attached" => pin[b] = state[b]]_vars
=============================================================================
