---------------------------- MODULE ButtonProofs ----------------------------
(***************************************************************************)
(* Proofs about Button for any number of buttons, any set of registered    *)
(* callbacks, any durations and any queue with room for three commands per *)
(* button.                                                                 *)
(*                                                                         *)
(* OneOwner is not inductive: that dispatching a reset leaves nothing of   *)
(* the button in the queue needs SlotOrder (the reset is the last), and    *)
(* that a reset reaches the queue at all needs room in it.  The room       *)
(* follows from SlotOrder by counting: the commands in the queue map one   *)
(* to one to pairs of a button and one of three slots, and a button whose  *)
(* interrupt or debounce callback is about to send has none there.         *)
(***************************************************************************)
EXTENDS Button, FiniteSetTheorems, SequenceTheorems, TLAPS

IInv == TypeOK /\ OneOwner /\ SlotOrder

-----------------------------------------------------------------------------
(* Operators                                                               *)

(* One poll raises nothing, a press, or at the release its duration event  *)
(* and the release, of those that have a callback (button.cpp:49-89).      *)
LEMMA RaisedForm ==
    ASSUME NEW b \in Buttons, NEW r, r = Raised(b)
    PROVE  /\ r \in Seq(Event)
           /\ Len(r) \in 0..2
           /\ \A i \in 1..Len(r) : r[i] \in Event /\ Slot(r[i]) < 3
           /\ \A i, j \in 1..Len(r) : i < j => Slot(r[i]) < Slot(r[j])
<1>1. ASSUME NEW e \in Event, NEW q, q = Registered(b, e)
      PROVE  q \in Seq(Event) /\ Len(q) \in 0..1 /\ \A i \in 1..Len(q) : q[i] = e
  BY <1>1 DEF Registered
<1>2. CASE pin[b] = state[b]
  BY <1>2 DEF Raised
<1>3. CASE pin[b] # state[b] /\ pin[b]
  <2>1. r = Registered(b, "PRESS")
    BY <1>3 DEF Raised
  <2>2. r \in Seq(Event) /\ Len(r) \in 0..1 /\ \A i \in 1..Len(r) : r[i] = "PRESS"
    BY <2>1, <1>1 DEF Event
  <2> QED
    BY <2>2 DEF Event, Slot
<1>4. CASE pin[b] # state[b] /\ ~pin[b]
  <2>1. PICK d \in {"HOLD", "CLICK"} : r = Registered(b, d) \o Registered(b, "RELEASE")
    BY <1>4 DEF Raised
  <2>2. PICK p : p = Registered(b, d)
    OBVIOUS
  <2>3. PICK q : q = Registered(b, "RELEASE")
    OBVIOUS
  <2>4. p \in Seq(Event) /\ Len(p) \in 0..1 /\ \A i \in 1..Len(p) : p[i] = d
    BY <2>2, <1>1 DEF Event
  <2>5. q \in Seq(Event) /\ Len(q) \in 0..1 /\ \A i \in 1..Len(q) : q[i] = "RELEASE"
    BY <2>3, <1>1 DEF Event
  <2>6. r = p \o q
    BY <2>1, <2>2, <2>3
  <2>7. /\ r \in Seq(Event)
        /\ Len(r) = Len(p) + Len(q)
        /\ \A i \in 1..Len(p) : r[i] = d
        /\ \A i \in Len(p) + 1..Len(p) + Len(q) : r[i] = "RELEASE"
    BY <2>4, <2>5, <2>6
  <2>8. ASSUME NEW i \in 1..Len(r)
        PROVE  r[i] \in Event /\ Slot(r[i]) < 3
    BY <2>4, <2>5, <2>7 DEF Slot
  <2>9. ASSUME NEW i \in 1..Len(r), NEW j \in 1..Len(r), i < j
        PROVE  Slot(r[i]) < Slot(r[j])
    <3>1. Len(p) = 1 /\ i = 1 /\ j = 2
      BY <2>4, <2>5, <2>7, <2>9
    <3> QED
      BY <3>1, <2>5, <2>7 DEF Slot
  <2> QED
    BY <2>4, <2>5, <2>7, <2>8, <2>9
<1> QED
  BY <1>2, <1>3, <1>4

(* What the interrupt sends: at most three commands of its own button, in  *)
(* slot order, the last of them the reset (button.cpp:20-31).              *)
LEMMA SentByISR ==
    ASSUME NEW b \in Buttons, NEW s, s = Commands(b, Raised(b)) \o Reset(b)
    PROVE  /\ s \in Seq(Command)
           /\ Len(s) = Len(Raised(b)) + 1
           /\ Len(s) \in 1..3
           /\ \A i \in 1..Len(s) : s[i].btn = b
           /\ \A i, j \in 1..Len(s) : i < j => Slot(s[i].cmd) < Slot(s[j].cmd)
           /\ s[Len(s)] = [btn |-> b, cmd |-> "reset"]
<1>1. PICK r : r = Raised(b)
  OBVIOUS
<1>2. /\ r \in Seq(Event)
      /\ Len(r) \in 0..2
      /\ \A i \in 1..Len(r) : r[i] \in Event /\ Slot(r[i]) < 3
      /\ \A i, j \in 1..Len(r) : i < j => Slot(r[i]) < Slot(r[j])
  BY <1>1, RaisedForm
<1>3. PICK c : c = Commands(b, r)
  OBVIOUS
<1>4. /\ c \in Seq(Command)
      /\ Len(c) = Len(r)
      /\ \A i \in 1..Len(r) : c[i].btn = b /\ c[i].cmd = r[i]
  BY <1>2, <1>3 DEF Commands, Command
<1>5. PICK t : t = Reset(b)
  OBVIOUS
<1>6. t \in Seq(Command) /\ Len(t) = 1 /\ t[1] = [btn |-> b, cmd |-> "reset"]
  BY <1>5 DEF Reset, Command
<1>7. s = c \o t
  BY <1>1, <1>3, <1>5
<1>8. /\ s \in Seq(Command)
      /\ Len(s) = Len(r) + 1
      /\ \A i \in 1..Len(r) : s[i].btn = b /\ s[i].cmd = r[i]
      /\ s[Len(r) + 1] = [btn |-> b, cmd |-> "reset"]
  <2>1. s \in Seq(Command) /\ Len(s) = Len(c) + Len(t)
    <3>1. c \in Seq(Command) /\ t \in Seq(Command)
      BY <1>4, <1>6
    <3> QED
      BY <3>1, <1>7, ConcatProperties
  <2>2. \A i \in 1..Len(c) : s[i] = c[i]
    BY <1>4, <1>6, <1>7
  <2>3. s[Len(c) + 1] = t[1]
    <3>1. PICK n \in Nat : n = Len(c)
      BY <1>4
    <3>2. \A i \in 1..n + 1 : (c \o t)[i] = IF i <= n THEN c[i] ELSE t[i - n]
      <4>1. c \in Seq(Command) /\ t \in Seq(Command) /\ Len(t) = 1
        BY <1>4, <1>6
      <4>2. \A i \in 1..Len(c) + Len(t) :
                (c \o t)[i] = IF i <= Len(c) THEN c[i] ELSE t[i - Len(c)]
        BY <4>1, ConcatProperties, Zenon
      <4> QED
        BY <3>1, <4>1, <4>2
    <3>3. n + 1 \in 1..n + 1 /\ (n + 1) - n = 1 /\ ~(n + 1 <= n)
      BY <3>1
    <3> QED
      BY <1>7, <3>1, <3>2, <3>3
  <2> QED
    BY <2>1, <2>2, <2>3, <1>2, <1>4, <1>6
<1>9. ASSUME NEW i \in 1..Len(s)
      PROVE  s[i].btn = b
  <2>1. i \in 1..Len(r) \/ i = Len(r) + 1
    BY <1>2, <1>8
  <2>2. CASE i \in 1..Len(r)
    BY <2>2, <1>8
  <2>3. CASE i = Len(r) + 1
    BY <2>3, <1>8
  <2> QED
    BY <2>1, <2>2, <2>3
<1>10. ASSUME NEW i \in 1..Len(s), NEW j \in 1..Len(s), i < j
       PROVE  Slot(s[i].cmd) < Slot(s[j].cmd)
  <2>1. i \in 1..Len(r) /\ s[i].cmd = r[i]
    BY <1>2, <1>8, <1>10
  <2>2. CASE j \in 1..Len(r)
    BY <2>1, <2>2, <1>2, <1>8, <1>10
  <2>3. CASE j = Len(r) + 1
    BY <2>1, <2>3, <1>2, <1>8 DEF Slot
  <2>4. j \in 1..Len(r) \/ j = Len(r) + 1
    BY <1>2, <1>8
  <2> QED
    BY <2>2, <2>3, <2>4
<1>11. Len(s) = Len(Raised(b)) + 1 /\ Len(s) \in 1..3
  <2>1. PICK n \in 0..2 : n = Len(r)
    BY <1>2
  <2>2. Len(s) = n + 1 /\ n = Len(Raised(b))
    BY <1>1, <1>8, <2>1
  <2>3. n + 1 \in 1..3
    OBVIOUS
  <2> QED
    BY <2>2, <2>3
<1>12. s[Len(s)] = [btn |-> b, cmd |-> "reset"]
  BY <1>8
<1> QED
  BY <1>8, <1>9, <1>10, <1>11, <1>12

(* Counting: a queue in slot order whose commands all belong to the        *)
(* buttons of a set S holds at most three commands for each of them.       *)
LEMMA QueueBound ==
    ASSUME NEW S, IsFiniteSet(S), queue \in Seq(Command), SlotOrder,
           \A i \in 1..Len(queue) : queue[i].btn \in S
    PROVE  Len(queue) <= 3 * Cardinality(S)
<1> DEFINE D == 1..Len(queue)
           T == S \X (1..3)
           f == [i \in D |-> <<queue[i].btn, Slot(queue[i].cmd)>>]
<1>1. Len(queue) \in Nat
  OBVIOUS
<1>2. IsFiniteSet(1..3) /\ Cardinality(1..3) = 3
  <2>1. PICK n \in Int : n = 3
    OBVIOUS
  <2>2. IsFiniteSet(1..n) /\ Cardinality(1..n) = IF 1 > n THEN 0 ELSE n - 1 + 1
    BY FS_Interval
  <2> QED
    BY <2>1, <2>2
<1>3. IsFiniteSet(T) /\ Cardinality(T) = Cardinality(S) * 3
  BY <1>2, FS_Product
<1>4. f \in Injection(D, T)
  <2>1. f \in [D -> T]
    BY DEF Slot
  <2>2. ASSUME NEW i \in D, NEW j \in D, f[i] = f[j]
        PROVE  i = j
    <3>1. queue[i].btn = queue[j].btn /\ Slot(queue[i].cmd) = Slot(queue[j].cmd)
      BY <2>2
    <3>2. Slot(queue[i].cmd) \in Int
      BY DEF Slot
    <3>3. ~(i < j) /\ ~(j < i)
      BY <3>1, <3>2 DEF SlotOrder
    <3> QED
      BY <3>3, <1>1
  <2> QED
    BY <2>1, <2>2 DEF Injection, IsInjective
<1>5. Cardinality(D) <= Cardinality(T)
  <2> HIDE DEF f, D, T
  <2> QED
    BY <1>3, <1>4, FS_Injection
<1>6. Cardinality(D) = Len(queue)
  BY <1>1, FS_Interval
<1>7. Cardinality(S) \in Nat
  BY FS_CardinalityType
<1> QED
  BY <1>3, <1>5, <1>6, <1>7

(* A busy daemon is inside the DebounceCB of a button.                     *)
LEMMA ServingType ==
    ASSUME TypeOK, daemon.busy
    PROVE  daemon \in Busy /\ daemon.btn \in Buttons
<1>1. daemon # Idle
  BY DEF Idle
<1>2. daemon \in Busy
  BY <1>1 DEF TypeOK
<1> QED
  BY <1>2 DEF Busy

(* A button with nothing in the queue finds room there for three commands. *)
LEMMA Room ==
    ASSUME IInv, NEW b \in Buttons, ~Queued(b)
    PROVE  Len(queue) + 3 <= QueueLength
<1>1. IsFiniteSet(Buttons \ {b}) /\ Cardinality(Buttons \ {b}) = Cardinality(Buttons) - 1
  BY ButtonAssumption, FS_RemoveElement
<1>2. queue \in Seq(Command) /\ SlotOrder
  BY DEF IInv, TypeOK
<1>3. ASSUME NEW i \in 1..Len(queue)
      PROVE  queue[i].btn \in Buttons \ {b}
  <2>1. queue[i] \in Command
    BY <1>2
  <2> QED
    BY <2>1 DEF Queued, Command
<1>4. Len(queue) <= 3 * Cardinality(Buttons \ {b})
  BY <1>1, <1>2, <1>3, QueueBound
<1>5. Cardinality(Buttons) \in Nat /\ Len(queue) \in Nat
  BY <1>2, ButtonAssumption, FS_CardinalityType
<1> QED
  BY <1>1, <1>4, <1>5, QueueAssumption

(* A send that finds room appends all its commands.                        *)
LEMMA PostAll ==
    ASSUME queue \in Seq(Command), NEW s \in Seq(Command),
           Len(queue) + Len(s) <= QueueLength, Post(s)
    PROVE  queue' = queue \o s
BY DEF Post

(* Appending commands of a button that has none in the queue, in slot      *)
(* order and with the reset last, disturbs no other button.                *)
LEMMA Appended ==
    ASSUME NEW b \in Buttons, NEW s \in Seq(Command), Len(s) > 0,
           queue \in Seq(Command), SlotOrder, ~Queued(b), queue' = queue \o s,
           \A i \in 1..Len(s) : s[i].btn = b,
           \A i, j \in 1..Len(s) : i < j => Slot(s[i].cmd) < Slot(s[j].cmd),
           s[Len(s)] = [btn |-> b, cmd |-> "reset"]
    PROVE  /\ queue' \in Seq(Command)
           /\ SlotOrder'
           /\ ResetQueued(b)'
           /\ \A c \in Buttons \ {b} :
                 (Queued(c)' => Queued(c)) /\ (ResetQueued(c) => ResetQueued(c)')
<1> DEFINE m == Len(queue)
           n == Len(s)
<1>1. m \in Nat /\ n \in Nat \ {0}
  OBVIOUS
<1>2. /\ queue' \in Seq(Command)
      /\ Len(queue') = m + n
      /\ \A i \in 1..m : queue'[i] = queue[i]
      /\ \A i \in m + 1..m + n : queue'[i] = s[i - m]
  BY ConcatProperties
<1>3. \A i \in m + 1..m + n : i - m \in 1..n /\ queue'[i].btn = b
  BY <1>1, <1>2
<1>4. SlotOrder'
  <2> SUFFICES ASSUME NEW i \in 1..m + n, NEW j \in 1..m + n, i < j,
                      queue'[i].btn = queue'[j].btn
               PROVE  Slot(queue'[i].cmd) < Slot(queue'[j].cmd)
    BY <1>2 DEF SlotOrder
  <2>1. CASE j \in 1..m
    BY <2>1, <1>1, <1>2 DEF SlotOrder
  <2>2. CASE i \in m + 1..m + n /\ j \in m + 1..m + n
    <3>1. i - m \in 1..n /\ j - m \in 1..n /\ i - m < j - m
      BY <2>2, <1>1
    <3>2. queue'[i] = s[i - m] /\ queue'[j] = s[j - m]
      BY <2>2, <1>2
    <3> QED
      BY <3>1, <3>2
  <2>3. CASE i \in 1..m /\ j \in m + 1..m + n
    BY <2>3, <1>2, <1>3 DEF Queued
  <2> QED
    BY <2>1, <2>2, <2>3, <1>1
<1>5. ResetQueued(b)'
  <2>1. m + n \in 1..m + n /\ m + n \in m + 1..m + n /\ (m + n) - m = n
    BY <1>1
  <2>2. queue'[m + n] = [btn |-> b, cmd |-> "reset"]
    BY <2>1, <1>2
  <2> QED
    BY <2>1, <2>2, <1>2 DEF ResetQueued
<1>6. ASSUME NEW c \in Buttons \ {b}
      PROVE  (Queued(c)' => Queued(c)) /\ (ResetQueued(c) => ResetQueued(c)')
  <2>1. ASSUME NEW i \in 1..m + n, queue'[i].btn = c
        PROVE  i \in 1..m /\ queue[i].btn = c
    BY <2>1, <1>1, <1>2, <1>3
  <2>2. 1..m \subseteq 1..m + n
    BY <1>1
  <2>3. Queued(c)' => Queued(c)
    BY <2>1, <1>2 DEF Queued
  <2>4. ResetQueued(c) => ResetQueued(c)'
    BY <2>2, <1>2 DEF ResetQueued
  <2> QED
    BY <2>3, <2>4
<1> QED
  BY <1>2, <1>4, <1>5, <1>6

(* The queue has room for whatever the invariant lets be sent.             *)
LEMMA InvariantHasRoom == IInv => NoCommandLost
<1> SUFFICES ASSUME IInv PROVE NoCommandLost
  OBVIOUS
<1>1. ASSUME NEW b \in Buttons, isr[b] = "timed"
      PROVE  Len(queue) + Len(Raised(b)) + 1 <= QueueLength
  <2>1. ~Queued(b)
    BY <1>1 DEF IInv, OneOwner
  <2>2. Len(queue) + 3 <= QueueLength
    BY <2>1, Room
  <2>3. Len(Raised(b)) \in 0..2
    BY RaisedForm
  <2>4. Len(queue) \in Nat
    BY DEF IInv, TypeOK
  <2> QED
    <3>1. ASSUME NEW l \in 0..2, NEW q \in Nat, q + 3 <= QueueLength
          PROVE  q + l + 1 <= QueueLength
      BY <3>1, QueueAssumption
    <3> QED
      BY <2>2, <2>3, <2>4, <3>1
<1>2. ASSUME daemon.busy
      PROVE  Len(queue) + 1 <= QueueLength
  <2>1. daemon.btn \in Buttons
    BY <1>2, ServingType DEF IInv
  <2>2. ~Queued(daemon.btn)
    BY <1>2, <2>1 DEF IInv, OneOwner, Serving
  <2>3. Len(queue) + 3 <= QueueLength
    BY <2>1, <2>2, Room
  <2>4. Len(queue) \in Nat
    BY DEF IInv, TypeOK
  <2> QED
    BY <2>3, <2>4, QueueAssumption
<1> QED
  BY <1>1, <1>2 DEF NoCommandLost

-----------------------------------------------------------------------------
(* The inductive invariant                                                 *)

LEMMA InitInv == Init => IInv
<1> SUFFICES ASSUME Init PROVE IInv
  OBVIOUS
<1>1. TypeOK
  BY DurationAssumption DEF Init, TypeOK, Event, Idle
<1>2. OneOwner
  BY DEF Init, OneOwner, Queued, Serving, Idle
<1>3. SlotOrder
  BY DEF Init, SlotOrder
<1> QED
  BY <1>1, <1>2, <1>3 DEF IInv

(* poll keeps the types of the fields it writes.                           *)
LEMMA PollType ==
    ASSUME TypeOK, NEW b \in Buttons, Poll(b)
    PROVE  /\ state' \in [Buttons -> BOOLEAN]
           /\ pressTimestamp' \in [Buttons -> 0..TickMod - 1]
           /\ callTime' \in [Buttons -> 0..TickMod - 1]
           /\ age' \in [Buttons -> 0..TickMod]
           /\ lag' \in [Buttons -> 0..TickMod]
           /\ held' \in [Buttons -> 0..TickMod]
BY DurationAssumption DEF TypeOK, Poll

(* So does the reading of the clock before it.                             *)
LEMMA ReadClockType ==
    ASSUME TypeOK, NEW b \in Buttons, ReadClock(b)
    PROVE  /\ callTime' \in [Buttons -> 0..TickMod - 1]
           /\ lag' \in [Buttons -> 0..TickMod]
BY DurationAssumption DEF TypeOK, ReadClock

(* Attach, PinChange and the start of the interrupt leave the queue and    *)
(* the daemon alone and never detach or re-attach a detached interrupt.    *)
LEMMA PinStep ==
    ASSUME IInv, NEW b \in Buttons, Attach(b) \/ PinChange(b) \/ EnterISR(b)
    PROVE  IInv'
<1>1. UNCHANGED <<timer, since, queue, daemon, state, pressTimestamp, now, ghosts, last>>
  BY DEF Attach, PinChange, EnterISR
<1>2. isr' \in [Buttons -> {"unused", "attached", "raised", "timed", "detached"}]
  BY DEF IInv, TypeOK, Attach, PinChange, EnterISR
<1>3. pin' \in [Buttons -> BOOLEAN]
  BY DEF IInv, TypeOK, Attach, PinChange, EnterISR
<1>4. \A c \in Buttons : isr'[c] = "detached" <=> isr[c] = "detached"
  BY DEF IInv, TypeOK, Attach, PinChange, EnterISR
<1>5. /\ callTime' \in [Buttons -> 0..TickMod - 1]
      /\ lag' \in [Buttons -> 0..TickMod]
  <2>1. CASE EnterISR(b)
    BY <2>1, ReadClockType DEF IInv, EnterISR
  <2>2. CASE Attach(b) \/ PinChange(b)
    BY <2>2 DEF IInv, TypeOK, Attach, PinChange, clocks
  <2> QED
    BY <2>1, <2>2
<1>6. TypeOK'
  BY <1>1, <1>2, <1>3, <1>5 DEF IInv, TypeOK, ghosts
<1>7. OneOwner'
  BY <1>1, <1>4 DEF IInv, OneOwner, Queued, ResetQueued, Serving
<1>8. SlotOrder'
  BY <1>1 DEF IInv, SlotOrder
<1> QED
  BY <1>6, <1>7, <1>8 DEF IInv

(* The interrupt hands its button over to the queue.                       *)
LEMMA ISRStep ==
    ASSUME IInv, NEW b \in Buttons, ISR(b)
    PROVE  IInv'
<1>1. TypeOK /\ OneOwner /\ SlotOrder /\ queue \in Seq(Command)
  BY DEF IInv, TypeOK
<1>2. isr[b] = "timed" /\ ~Queued(b) /\ ~timer[b] /\ ~Serving(b)
  BY <1>1 DEF ISR, OneOwner
<1>3. PICK s : s = Commands(b, Raised(b)) \o Reset(b)
  OBVIOUS
<1>4. /\ s \in Seq(Command)
      /\ Len(s) = Len(Raised(b)) + 1
      /\ Len(s) \in 1..3
      /\ \A i \in 1..Len(s) : s[i].btn = b
      /\ \A i, j \in 1..Len(s) : i < j => Slot(s[i].cmd) < Slot(s[j].cmd)
      /\ s[Len(s)] = [btn |-> b, cmd |-> "reset"]
  BY <1>3, SentByISR
<1>5. queue' = queue \o s
  <2>1. Len(queue) + 3 <= QueueLength
    BY <1>2, Room
  <2>2. Len(queue) + Len(s) <= QueueLength
    BY <1>1, <1>4, <2>1, QueueAssumption
  <2>3. Post(s)
    BY <1>3 DEF ISR
  <2> QED
    BY <1>1, <1>4, <2>2, <2>3, PostAll
<1>6. /\ queue' \in Seq(Command)
      /\ SlotOrder'
      /\ ResetQueued(b)'
      /\ \A c \in Buttons \ {b} :
            (Queued(c)' => Queued(c)) /\ (ResetQueued(c) => ResetQueued(c)')
  <2>1. Len(s) > 0
    BY <1>4
  <2> QED
    BY <1>1, <1>2, <1>4, <1>5, <2>1, Appended
<1>7. /\ isr' = [isr EXCEPT ![b] = "detached"]
      /\ since' = [since EXCEPT ![b] = 0]
      /\ UNCHANGED <<pin, timer, daemon, now, last>>
  BY DEF ISR
<1>8. TypeOK'
  <2>1. /\ state' \in [Buttons -> BOOLEAN]
        /\ pressTimestamp' \in [Buttons -> 0..TickMod - 1]
        /\ callTime' \in [Buttons -> 0..TickMod - 1]
        /\ age' \in [Buttons -> 0..TickMod]
        /\ lag' \in [Buttons -> 0..TickMod]
        /\ held' \in [Buttons -> 0..TickMod]
    BY <1>1, PollType DEF ISR
  <2>2. isr' \in [Buttons -> {"unused", "attached", "raised", "timed", "detached"}]
    BY <1>1, <1>7 DEF TypeOK
  <2>3. since' \in [Buttons -> 0..DebounceDuration]
    BY <1>1, <1>7, DurationAssumption DEF TypeOK
  <2> QED
    BY <1>1, <1>6, <1>7, <2>1, <2>2, <2>3 DEF TypeOK
<1>9. OneOwner'
  <2>1. \A c \in Buttons : isr'[c] = IF c = b THEN "detached" ELSE isr[c]
    BY <1>1, <1>7 DEF TypeOK
  <2>2. \A c \in Buttons : timer'[c] = timer[c] /\ (Serving(c)' <=> Serving(c))
    BY <1>7 DEF Serving
  <2> QED
    BY <1>1, <1>2, <1>6, <2>1, <2>2 DEF OneOwner
<1> QED
  BY <1>6, <1>8, <1>9 DEF IInv

(* Dispatching a reset leaves nothing of its button in the queue, because  *)
(* the reset was the last; dispatching an event leaves the reset there.    *)
LEMMA DispatchStep == IInv /\ Dispatch => IInv'
<1> SUFFICES ASSUME IInv, Dispatch PROVE IInv'
  OBVIOUS
<1> DEFINE n == Len(queue)
<1>1. TypeOK /\ OneOwner /\ SlotOrder /\ queue \in Seq(Command)
  BY DEF IInv, TypeOK
<1>2. /\ ~daemon.busy /\ queue # <<>> /\ queue' = Tail(queue)
      /\ UNCHANGED <<pin, state, pressTimestamp, isr, since, daemon, now, clocks, ghosts>>
  BY DEF Dispatch
<1>3. n \in Nat \ {0} /\ \E m \in Command : m = Head(queue) /\ m = queue[1]
  BY <1>1, <1>2
<1> PICK m \in Command : m = Head(queue) /\ m = queue[1]
  BY <1>3
<1>4. /\ queue' \in Seq(Command)
      /\ Len(queue') = n - 1
      /\ \A i \in 1..n - 1 : i + 1 \in 1..n /\ queue'[i] = queue[i + 1]
  BY <1>1, <1>2, <1>3
<1>5. m.btn \in Buttons /\ m.cmd \in Event \cup {"reset"}
  BY DEF Command
<1>6. SlotOrder'
  <2> SUFFICES ASSUME NEW i \in 1..n - 1, NEW j \in 1..n - 1, i < j,
                      queue'[i].btn = queue'[j].btn
               PROVE  Slot(queue'[i].cmd) < Slot(queue'[j].cmd)
    BY <1>3, <1>4 DEF SlotOrder, Slot
  <2>1. i + 1 \in 1..n /\ j + 1 \in 1..n /\ i + 1 < j + 1
    BY <1>3
  <2>2. queue'[i] = queue[i + 1] /\ queue'[j] = queue[j + 1]
    BY <1>4
  <2> QED
    BY <1>1, <2>1, <2>2 DEF SlotOrder
<1>7. \A c \in Buttons : Queued(c)' => Queued(c)
  BY <1>4 DEF Queued
<1>8. \A c \in Buttons :
         ResetQueued(c) /\ ~(m.btn = c /\ m.cmd = "reset") => ResetQueued(c)'
  <2> SUFFICES ASSUME NEW c \in Buttons, NEW i \in 1..n,
                      queue[i] = [btn |-> c, cmd |-> "reset"],
                      ~(m.btn = c /\ m.cmd = "reset")
               PROVE  ResetQueued(c)'
    BY DEF ResetQueued
  <2>1. i # 1
    OBVIOUS
  <2>2. i - 1 \in 1..n - 1 /\ (i - 1) + 1 = i
    BY <2>1, <1>3
  <2> QED
    BY <2>2, <1>4 DEF ResetQueued
<1>9. Queued(m.btn)
  BY <1>3 DEF Queued
<1>10. CASE m.cmd = "reset"
  <2>1. timer' = [timer EXCEPT ![m.btn] = TRUE] /\ UNCHANGED last
    BY <1>10 DEF Dispatch
  <2>2. TypeOK'
    BY <1>1, <1>2, <1>4, <2>1 DEF TypeOK, clocks, ghosts
  <2>3. ~Queued(m.btn)'
    <3> SUFFICES ASSUME NEW i \in 1..n - 1, queue'[i].btn = m.btn PROVE FALSE
      BY <1>4 DEF Queued
    <3>1. 1 \in 1..n /\ i + 1 \in 1..n /\ 1 < i + 1 /\ queue[1].btn = queue[i + 1].btn
      BY <1>3, <1>4
    <3>2. Slot(queue[1].cmd) < Slot(queue[i + 1].cmd)
      BY <1>1, <3>1 DEF SlotOrder
    <3> QED
      BY <1>3, <1>10, <3>2 DEF Slot
  <2>4. \A c \in Buttons : timer'[c] = IF c = m.btn THEN TRUE ELSE timer[c]
    BY <1>1, <2>1 DEF TypeOK
  <2>5. \A c \in Buttons : c # m.btn => (ResetQueued(c) => ResetQueued(c)')
    BY <1>8
  <2>6. \A c \in Buttons : isr'[c] = isr[c] /\ (Serving(c)' <=> Serving(c))
    BY <1>2 DEF Serving
  <2>7. isr[m.btn] = "detached" /\ ~Serving(m.btn)
    BY <1>1, <1>5, <1>9 DEF OneOwner, TypeOK
  <2>8. OneOwner'
    BY <1>1, <1>5, <1>7, <2>3, <2>4, <2>5, <2>6, <2>7 DEF OneOwner
  <2> QED
    BY <1>6, <2>2, <2>8 DEF IInv
<1>11. CASE m.cmd # "reset"
  <2>1. last' = [last EXCEPT ![m.btn] = m.cmd] /\ UNCHANGED timer
    BY <1>11 DEF Dispatch
  <2>2. TypeOK'
    BY <1>1, <1>2, <1>4, <1>5, <1>11, <2>1 DEF TypeOK, clocks, ghosts
  <2>3. \A c \in Buttons : ResetQueued(c) => ResetQueued(c)'
    BY <1>8, <1>11
  <2>4. OneOwner'
    BY <1>1, <1>2, <1>7, <2>1, <2>3 DEF OneOwner, Serving
  <2> QED
    BY <1>6, <2>2, <2>4 DEF IInv
<1> QED
  BY <1>10, <1>11

(* The timer hands its button over to the daemon.                          *)
LEMMA DebounceStep ==
    ASSUME IInv, NEW b \in Buttons, DebounceCB(b)
    PROVE  IInv'
<1>1. TypeOK /\ OneOwner /\ SlotOrder
  BY DEF IInv
<1>2. /\ ~daemon.busy /\ timer[b]
      /\ daemon' = [busy |-> TRUE, btn |-> b, polled |-> FALSE, changed |-> FALSE, calls |-> <<>>]
      /\ timer' = [timer EXCEPT ![b] = FALSE]
      /\ UNCHANGED <<pin, state, pressTimestamp, isr, since, queue, now, ghosts, last>>
  BY DEF DebounceCB
<1>3. daemon' \in Busy
  BY <1>2 DEF Busy
<1>4. TypeOK'
  <2>1. /\ callTime' \in [Buttons -> 0..TickMod - 1]
        /\ lag' \in [Buttons -> 0..TickMod]
    BY <1>1, ReadClockType DEF DebounceCB
  <2>2. timer' \in [Buttons -> BOOLEAN]
    BY <1>1, <1>2 DEF TypeOK
  <2> QED
    BY <1>1, <1>2, <1>3, <2>1, <2>2 DEF TypeOK, ghosts
<1>5. OneOwner'
  <2>1. \A c \in Buttons : timer'[c] = IF c = b THEN FALSE ELSE timer[c]
    BY <1>1, <1>2 DEF TypeOK
  <2>2. daemon'.busy /\ daemon'.btn = b
    BY <1>2
  <2>3. \A c \in Buttons : Serving(c)' <=> c = b
    BY <2>2 DEF Serving
  <2>4. \A c \in Buttons : /\ Queued(c)' <=> Queued(c)
                           /\ ResetQueued(c)' <=> ResetQueued(c)
    BY <1>2 DEF Queued, ResetQueued
  <2>5. \A c \in Buttons : ~Serving(c)
    BY <1>2 DEF Serving
  <2> QED
    BY <1>1, <1>2, <2>1, <2>3, <2>4, <2>5 DEF OneOwner
<1>6. SlotOrder'
  BY <1>1, <1>2 DEF SlotOrder
<1> QED
  BY <1>4, <1>5, <1>6 DEF IInv

(* The poll of DebounceCB touches the button's own fields only.            *)
LEMMA PollDebouncedStep ==
    ASSUME IInv, NEW b \in Buttons, PollDebounced(b)
    PROVE  IInv'
<1>1. TypeOK /\ OneOwner /\ SlotOrder
  BY DEF IInv
<1>2. /\ daemon.busy /\ daemon.btn = b
      /\ daemon' = [daemon EXCEPT !.polled = TRUE, !.changed = (pin[b] # state[b]), !.calls = Raised(b)]
      /\ UNCHANGED <<pin, isr, timer, since, queue, now, last>>
  BY DEF PollDebounced
<1>3. daemon' \in Busy /\ daemon'.busy = daemon.busy /\ daemon'.btn = daemon.btn
  <2>1. PICK r : r = Raised(b)
    OBVIOUS
  <2>2. r \in Seq(Event)
    BY <2>1, RaisedForm
  <2>3. daemon \in Busy
    BY <1>1, <1>2, ServingType
  <2> QED
    BY <1>2, <2>1, <2>2, <2>3 DEF Busy
<1>4. TypeOK'
  <2>1. /\ state' \in [Buttons -> BOOLEAN]
        /\ pressTimestamp' \in [Buttons -> 0..TickMod - 1]
        /\ callTime' \in [Buttons -> 0..TickMod - 1]
        /\ age' \in [Buttons -> 0..TickMod]
        /\ lag' \in [Buttons -> 0..TickMod]
        /\ held' \in [Buttons -> 0..TickMod]
    BY <1>1, PollType DEF PollDebounced
  <2> QED
    BY <1>1, <1>2, <1>3, <2>1 DEF TypeOK
<1>5. OneOwner'
  BY <1>1, <1>2, <1>3 DEF OneOwner, Queued, ResetQueued, Serving
<1>6. SlotOrder'
  BY <1>1, <1>2 DEF SlotOrder
<1> QED
  BY <1>4, <1>5, <1>6 DEF IInv

(* Inside DebounceCB only last and the pending calls change.               *)
LEMMA InvokeStep == IInv /\ Invoke => IInv'
<1> SUFFICES ASSUME IInv, Invoke PROVE IInv'
  OBVIOUS
<1>1. TypeOK /\ OneOwner /\ SlotOrder
  BY DEF IInv
<1>2. /\ daemon.busy /\ daemon.calls # <<>>
      /\ last' = [last EXCEPT ![daemon.btn] = Head(daemon.calls)]
      /\ daemon' = [daemon EXCEPT !.calls = Tail(@)]
      /\ UNCHANGED <<pin, state, pressTimestamp, isr, timer, since, queue, now, clocks, ghosts>>
  BY DEF Invoke
<1>3. daemon \in Busy
  BY <1>1, <1>2, ServingType
<1>4. daemon.calls \in Seq(Event)
  BY <1>3 DEF Busy
<1>5. Head(daemon.calls) \in Event /\ Tail(daemon.calls) \in Seq(Event)
  BY <1>2, <1>4
<1>6. daemon' \in Busy /\ daemon'.busy = daemon.busy /\ daemon'.btn = daemon.btn
  BY <1>2, <1>3, <1>5 DEF Busy
<1>7. last' \in [Buttons -> Event]
  BY <1>1, <1>2, <1>5 DEF TypeOK
<1>8. TypeOK'
  BY <1>1, <1>2, <1>6, <1>7 DEF TypeOK, clocks, ghosts
<1>9. OneOwner'
  BY <1>1, <1>2, <1>6 DEF OneOwner, Queued, ResetQueued, Serving
<1>10. SlotOrder'
  BY <1>1, <1>2 DEF SlotOrder
<1> QED
  BY <1>8, <1>9, <1>10 DEF IInv

(* The end of DebounceCB hands the button to the queue or the interrupt.   *)
LEMMA RearmStep == IInv /\ Rearm => IInv'
<1> SUFFICES ASSUME IInv, Rearm PROVE IInv'
  OBVIOUS
<1>1. TypeOK /\ OneOwner /\ SlotOrder /\ queue \in Seq(Command)
  BY DEF IInv, TypeOK
<1>2. /\ daemon.busy /\ daemon' = Idle
      /\ UNCHANGED <<pin, state, pressTimestamp, timer, now, clocks, ghosts, last>>
  BY DEF Rearm
<1> PICK b \in Buttons : b = daemon.btn
  BY <1>1, <1>2, ServingType
<1>3. Serving(b)
  BY <1>2 DEF Serving
<1>4. isr[b] = "detached" /\ ~timer[b] /\ ~Queued(b)
  BY <1>1, <1>3 DEF OneOwner, TypeOK
<1>5. \A c \in Buttons : ~Serving(c)' /\ (Serving(c) <=> c = b)
  BY <1>2, <1>3 DEF Serving, Idle
<1>6. CASE daemon.changed
  <2>1. /\ Post(Reset(b))
        /\ since' = [since EXCEPT ![b] = 0]
        /\ UNCHANGED isr
    BY <1>6 DEF Rearm
  <2>2. PICK s : s = Reset(b)
    OBVIOUS
  <2>3. /\ s \in Seq(Command) /\ Len(s) = 1
        /\ s[1] = [btn |-> b, cmd |-> "reset"]
    BY <2>2, <1>3 DEF Reset, Command
  <2>4. s[1].btn = b
    BY <2>3
  <2>5. queue' = queue \o s
    <3>1. Len(queue) + 3 <= QueueLength
      BY <1>3, <1>4, Room
    <3>2. Len(queue) + Len(s) <= QueueLength
      BY <1>1, <2>3, <3>1, QueueAssumption
    <3> QED
      BY <1>1, <2>1, <2>2, <2>3, <3>2, PostAll
  <2>6. /\ queue' \in Seq(Command)
        /\ SlotOrder'
        /\ ResetQueued(b)'
        /\ \A c \in Buttons \ {b} :
              (Queued(c)' => Queued(c)) /\ (ResetQueued(c) => ResetQueued(c)')
    <3>1. Len(s) > 0 /\ s[Len(s)] = [btn |-> b, cmd |-> "reset"]
      BY <2>3
    <3>2. \A i \in 1..Len(s) : s[i].btn = b
      BY <2>3, <2>4
    <3>3. \A i, j \in 1..Len(s) : i < j => Slot(s[i].cmd) < Slot(s[j].cmd)
      BY <2>3
    <3> QED
      BY <1>1, <1>4, <2>3, <2>5, <3>1, <3>2, <3>3, Appended
  <2>7. TypeOK'
    <3>1. since' \in [Buttons -> 0..DebounceDuration]
      BY <1>1, <2>1, DurationAssumption DEF TypeOK
    <3> QED
      BY <1>1, <1>2, <2>1, <2>6, <3>1 DEF TypeOK, clocks, ghosts
  <2>8. \A c \in Buttons : isr'[c] = isr[c] /\ timer'[c] = timer[c]
    BY <1>2, <2>1
  <2>9. OneOwner'
    BY <1>1, <1>3, <1>4, <1>5, <2>6, <2>8 DEF OneOwner
  <2> QED
    BY <2>6, <2>7, <2>9 DEF IInv
<1>7. CASE ~daemon.changed
  <2>1. isr' = [isr EXCEPT ![b] = "attached"] /\ UNCHANGED <<since, queue>>
    BY <1>7 DEF Rearm
  <2>2. TypeOK'
    BY <1>1, <1>2, <2>1 DEF TypeOK, clocks, ghosts
  <2>3. \A c \in Buttons : isr'[c] = IF c = b THEN "attached" ELSE isr[c]
    BY <1>1, <2>1 DEF TypeOK
  <2>4. \A c \in Buttons : /\ Queued(c)' <=> Queued(c)
                           /\ ResetQueued(c)' <=> ResetQueued(c)
    BY <2>1 DEF Queued, ResetQueued
  <2>5. OneOwner'
    BY <1>1, <1>2, <1>3, <1>4, <1>5, <2>3, <2>4 DEF OneOwner
  <2>6. SlotOrder'
    BY <1>1, <2>1 DEF SlotOrder
  <2> QED
    BY <2>2, <2>5, <2>6 DEF IInv
<1> QED
  BY <1>6, <1>7

(* A tick moves the clocks only.                                           *)
LEMMA TickStep == IInv /\ Tick => IInv'
<1> SUFFICES ASSUME IInv, Tick PROVE IInv'
  OBVIOUS
<1>1. TypeOK /\ OneOwner /\ SlotOrder
  BY DEF IInv
<1>2. now' \in 0..TickMod - 1
  BY <1>1, DurationAssumption DEF Tick, TypeOK
<1>3. since' \in [Buttons -> 0..DebounceDuration]
  BY <1>1, DurationAssumption DEF Tick, TypeOK, UpTo
<1>4. age' \in [Buttons -> 0..TickMod]
  BY <1>1, DurationAssumption DEF Tick, TypeOK, UpTo
<1>5. TypeOK'
  <2>1. lag' \in [Buttons -> 0..TickMod] /\ held' \in [Buttons -> 0..TickMod]
    BY <1>1, DurationAssumption DEF Tick, TypeOK, UpTo
  <2> QED
    BY <1>1, <1>2, <1>3, <1>4, <2>1 DEF Tick, TypeOK
<1>6. OneOwner'
  BY <1>1 DEF Tick, OneOwner, Queued, ResetQueued, Serving
<1>7. SlotOrder'
  BY <1>1 DEF Tick, SlotOrder
<1> QED
  BY <1>5, <1>6, <1>7 DEF IInv

LEMMA StepInv == IInv /\ [Next]_vars => IInv'
<1> SUFFICES ASSUME IInv, [Next]_vars PROVE IInv'
  OBVIOUS
<1>1. ASSUME NEW b \in Buttons, Attach(b) \/ PinChange(b) \/ EnterISR(b) PROVE IInv'
  BY <1>1, PinStep
<1>2. ASSUME NEW b \in Buttons, ISR(b) PROVE IInv'
  BY <1>2, ISRStep
<1>3. ASSUME NEW b \in Buttons, DebounceCB(b) \/ PollDebounced(b) PROVE IInv'
  BY <1>3, DebounceStep, PollDebouncedStep
<1>4. CASE Dispatch
  BY <1>4, DispatchStep
<1>5. CASE Invoke
  BY <1>5, InvokeStep
<1>6. CASE Rearm
  BY <1>6, RearmStep
<1>7. CASE Tick
  BY <1>7, TickStep
<1>8. CASE UNCHANGED vars
  BY <1>8 DEF vars, IInv, TypeOK, OneOwner, SlotOrder, Queued, ResetQueued, Serving
<1> QED
  BY <1>1, <1>2, <1>3, <1>4, <1>5, <1>6, <1>7, <1>8 DEF Next

(* The strengthened invariant holds in every reachable state.              *)
THEOREM InductiveInvariant == Spec => []IInv
<1> QED
  BY InitInv, StepInv, PTL DEF Spec

-----------------------------------------------------------------------------
(* The results                                                             *)

(* Button: every variable keeps its type.                                  *)
THEOREM TypeCorrect == Spec => []TypeOK
<1>1. IInv => TypeOK
  BY DEF IInv
<1> QED
  BY <1>1, InductiveInvariant, PTL

(* No button is ever forgotten: a detached interrupt always has a reset in *)
(* the queue, a running timer or a DebounceCB that will re-arm it          *)
(* (button.cpp:20-43).                                                     *)
THEOREM NeverForgotten == Spec => []OneOwner
<1>1. IInv => OneOwner
  BY DEF IInv
<1> QED
  BY <1>1, InductiveInvariant, PTL

(* The commands of one button are dispatched in the order they were raised.*)
THEOREM CommandsInOrder == Spec => []SlotOrder
<1>1. IInv => SlotOrder
  BY DEF IInv
<1> QED
  BY <1>1, InductiveInvariant, PTL

(* Ignoring the results of the sends is safe: three slots per button are   *)
(* enough for every send of every interleaving (button.cpp:28, 40, 61).    *)
THEOREM NothingLost == Spec => []NoCommandLost
<1> QED
  BY InvariantHasRoom, InductiveInvariant, PTL

-----------------------------------------------------------------------------
(***************************************************************************)
(* Proofs about what Button makes of a contact, for any buttons and any    *)
(* durations: its state changes no more often than the debounce duration   *)
(* allows, and a release is timed right, also across a wrap of the tick    *)
(* counter.                                                                *)
(*                                                                         *)
(* Both are about ghosts: the debounce timer never runs ahead of age, the  *)
(* ticks since the pin was read as the button's state; and the tick        *)
(* counter is ahead of callTime by lag while a poll is under way, and of   *)
(* pressTimestamp by held while a press lasts.                             *)
(***************************************************************************)

(* The debounce timer does not run ahead, and an interrupt is only         *)
(* attached to a button whose last change is a debounce duration ago.      *)
Aged ==
    \A b \in Buttons :
        /\ isr[b] # "detached" => age[b] >= DebounceDuration
        /\ ~Serving(b) => age[b] >= since[b]
        /\ Serving(b) /\ ~(daemon.polled /\ daemon.changed) => age[b] >= DebounceDuration

(* The tick counter is ahead of t by d, or has wrapped once since.         *)
Ahead(t, d) == now = t + d \/ now + TickMod = t + d

Timed ==
    \A b \in Buttons :
        /\ Polling(b) /\ lag[b] < TickMod => Ahead(callTime[b], lag[b])
        /\ Polling(b) => lag[b] <= age[b]
        /\ state[b] /\ held[b] < TickMod => Ahead(pressTimestamp[b], held[b])
        /\ state[b] => age[b] <= held[b]

-----------------------------------------------------------------------------
(* Debouncing                                                              *)

LEMMA AgedInit == Init => Aged
BY DurationAssumption DEF Init, Aged

LEMMA AgedStep ==
    ASSUME IInv, Aged, [Next]_vars
    PROVE  Aged'
<1>0. TypeOK /\ OneOwner
  BY DEF IInv
<1>1. ASSUME NEW b \in Buttons, Attach(b) \/ PinChange(b) \/ EnterISR(b) PROVE Aged'
  BY <1>0, <1>1 DEF TypeOK, Aged, Attach, PinChange, EnterISR, Serving, ghosts
<1>2. ASSUME NEW b \in Buttons, ISR(b) PROVE Aged'
  <2>1. ~Serving(b) /\ UNCHANGED daemon
    BY <1>0, <1>2 DEF ISR, OneOwner
  <2>2. /\ since' = [since EXCEPT ![b] = 0] /\ isr' = [isr EXCEPT ![b] = "detached"]
        /\ age' \in [Buttons -> 0..TickMod] /\ \A c \in Buttons \ {b} : age'[c] = age[c]
    BY <1>0, <1>2, DurationAssumption DEF TypeOK, ISR, Poll
  <2> QED
    BY <1>0, <2>1, <2>2 DEF TypeOK, Aged, Serving
<1>3. ASSUME NEW b \in Buttons, DebounceCB(b) PROVE Aged'
  <2>1. /\ \A c \in Buttons : ~Serving(c)
        /\ \A c \in Buttons \ {b} : ~Serving(c)'
        /\ since[b] >= DebounceDuration /\ isr[b] = "detached"
        /\ UNCHANGED <<isr, since, age>>
    BY <1>0, <1>3 DEF OneOwner, DebounceCB, Serving, ghosts
  <2>2. age[b] >= DebounceDuration
    BY <1>0, <2>1, DurationAssumption DEF TypeOK, Aged
  <2> QED
    BY <2>1, <2>2 DEF Aged
<1>4. ASSUME NEW b \in Buttons, PollDebounced(b) PROVE Aged'
  <2>1. Serving(b) /\ isr[b] = "detached" /\ ~daemon.polled /\ UNCHANGED <<isr, since>>
    BY <1>0, <1>4 DEF OneOwner, PollDebounced, Serving
  <2>2. /\ daemon \in Busy
        /\ daemon' = [daemon EXCEPT !.polled = TRUE, !.changed = (pin[b] # state[b]), !.calls = Raised(b)]
    BY <1>0, <1>4, ServingType DEF PollDebounced
  <2>3. /\ daemon'.busy = daemon.busy /\ daemon'.btn = daemon.btn
        /\ daemon'.polled /\ daemon'.changed = (pin[b] # state[b])
    BY <2>2 DEF Busy
  <2>4. age' = [age EXCEPT ![b] = IF pin[b] = state[b] THEN @ ELSE 0]
    BY <1>4 DEF PollDebounced, Poll
  <2>5. \A c \in Buttons : (Serving(c)' <=> c = b) /\ (Serving(c) <=> c = b)
    BY <2>1, <2>3 DEF Serving
  <2>6. ASSUME NEW c \in Buttons \ {b}
        PROVE  age'[c] = age[c] /\ ~Serving(c)
    BY <1>0, <2>4, <2>5 DEF TypeOK
  <2>7. pin[b] = state[b] => age'[b] >= DebounceDuration
    BY <1>0, <2>1, <2>4 DEF TypeOK, Aged
  <2> QED
    BY <1>0, <2>1, <2>3, <2>5, <2>6, <2>7 DEF TypeOK, Aged
<1>5. CASE Dispatch \/ Invoke
  <2>1. CASE Dispatch
    BY <2>1 DEF Aged, Dispatch, Serving, ghosts
  <2>2. CASE Invoke
    <3>1. daemon \in Busy /\ daemon' = [daemon EXCEPT !.calls = Tail(@)]
      BY <1>0, <2>2, ServingType DEF Invoke
    <3>2. /\ daemon'.busy = daemon.busy /\ daemon'.btn = daemon.btn
          /\ daemon'.polled = daemon.polled /\ daemon'.changed = daemon.changed
      BY <3>1 DEF Busy
    <3> QED
      BY <2>2, <3>2 DEF Aged, Serving, Invoke, ghosts
  <2> QED
    BY <1>5, <2>1, <2>2
<1>6. CASE Rearm
  <2>1. /\ daemon.btn \in Buttons /\ Serving(daemon.btn)
        /\ \A c \in Buttons \ {daemon.btn} : ~Serving(c)
        /\ \A c \in Buttons : ~Serving(c)'
    BY <1>0, <1>6, ServingType DEF Rearm, Serving, Idle
  <2>2. UNCHANGED age
    BY <1>6 DEF Rearm, ghosts
  <2>3. CASE daemon.changed
    <3>1. UNCHANGED isr /\ since' = [since EXCEPT ![daemon.btn] = 0]
      BY <1>6, <2>3 DEF Rearm
    <3>2. isr[daemon.btn] = "detached"
      BY <1>0, <2>1 DEF OneOwner
    <3> QED
      BY <1>0, <2>1, <2>2, <3>1, <3>2 DEF TypeOK, Aged
  <2>4. CASE ~daemon.changed
    <3>1. UNCHANGED since /\ isr' = [isr EXCEPT ![daemon.btn] = "attached"]
      BY <1>6, <2>4 DEF Rearm
    <3>2. age[daemon.btn] >= DebounceDuration
      BY <2>1, <2>4 DEF Aged
    <3> QED
      BY <1>0, <2>1, <2>2, <3>1, <3>2, DurationAssumption DEF TypeOK, Aged
  <2> QED
    BY <2>3, <2>4
<1>7. CASE Tick
  <2>1. \A b \in Buttons : since'[b] = UpTo(since[b], DebounceDuration) /\ age'[b] = UpTo(age[b], TickMod)
    BY <1>7 DEF Tick
  <2>2. ASSUME NEW b \in Buttons
        PROVE  /\ age[b] >= DebounceDuration => age'[b] >= DebounceDuration
               /\ age[b] >= since[b] => age'[b] >= since'[b]
    BY <1>0, <2>1, DurationAssumption DEF TypeOK, UpTo
  <2> QED
    BY <1>7, <2>2 DEF Aged, Serving, Tick
<1>8. CASE UNCHANGED vars
  BY <1>8 DEF vars, Aged, Serving
<1> QED
  BY <1>1, <1>2, <1>3, <1>4, <1>5, <1>6, <1>7, <1>8 DEF Next

(* A state changes in the interrupt or in DebounceCB, and in both only     *)
(* when its last change is long enough ago.                                *)
LEMMA ChangeStep ==
    ASSUME IInv, Aged, Next, NEW b \in Buttons, state'[b] # state[b]
    PROVE  age[b] >= DebounceDuration
<1>0. TypeOK /\ OneOwner
  BY DEF IInv
<1>1. CASE ISR(b)
  BY <1>1 DEF ISR, Aged
<1>2. CASE PollDebounced(b)
  <2>1. Serving(b) /\ ~daemon.polled
    BY <1>2 DEF PollDebounced, Serving
  <2> QED
    BY <2>1 DEF Aged
<1>3. ASSUME NEW c \in Buttons \ {b}, ISR(c) \/ PollDebounced(c) PROVE FALSE
  BY <1>0, <1>3 DEF TypeOK, ISR, PollDebounced, Poll
<1> QED
  BY <1>1, <1>2, <1>3 DEF Next, Attach, PinChange, EnterISR, DebounceCB, Dispatch, Invoke, Rearm, Tick

-----------------------------------------------------------------------------
(* Timing a press                                                          *)

LEMMA TimedInit == Init => Timed
BY DurationAssumption DEF Init, Timed, Polling, Idle

(* No poll of a button is under way once it has been made.                 *)
LEMMA PollEnds ==
    ASSUME IInv, NEW b \in Buttons, ISR(b) \/ PollDebounced(b)
    PROVE  ~Polling(b)' /\ \A c \in Buttons \ {b} : Polling(c)' <=> Polling(c)
<1>1. TypeOK /\ OneOwner
  BY DEF IInv
<1>2. CASE ISR(b)
  <2>1. ~Serving(b) /\ isr' = [isr EXCEPT ![b] = "detached"] /\ UNCHANGED daemon
    BY <1>1, <1>2 DEF ISR, OneOwner
  <2> QED
    BY <1>1, <2>1 DEF TypeOK, Polling, Serving
<1>3. CASE PollDebounced(b)
  <2>1. Serving(b) /\ isr[b] = "detached" /\ UNCHANGED isr
    BY <1>1, <1>3 DEF OneOwner, PollDebounced, Serving
  <2>2. daemon \in Busy /\ daemon' = [daemon EXCEPT !.polled = TRUE, !.changed = (pin[b] # state[b]), !.calls = Raised(b)]
    BY <1>1, <1>3, ServingType DEF PollDebounced
  <2>3. daemon'.btn = b /\ daemon.btn = b /\ daemon'.polled
    BY <2>1, <2>2 DEF Busy, Serving
  <2> QED
    BY <2>1, <2>3 DEF Polling
<1> QED
  BY <1>2, <1>3

(* poll starts a press at the time its caller read, and ends one as it is. *)
LEMMA TimedPoll ==
    ASSUME IInv, Timed, NEW b \in Buttons, ISR(b) \/ PollDebounced(b)
    PROVE  Timed'
<1>0. TypeOK /\ Poll(b) /\ UNCHANGED now /\ Polling(b)
  BY DEF IInv, ISR, PollDebounced, Polling
<1>1. \A c \in Buttons \ {b} :
          /\ state'[c] = state[c] /\ age'[c] = age[c] /\ pressTimestamp'[c] = pressTimestamp[c]
          /\ callTime'[c] = callTime[c] /\ lag'[c] = lag[c] /\ held'[c] = held[c]
  BY <1>0 DEF TypeOK, Poll
<1>2. state'[b] = pin[b] /\ now \in Nat /\ now' = now
  BY <1>0 DEF TypeOK, Poll
<1>3. ~Polling(b)' /\ \A c \in Buttons \ {b} : Polling(c)' <=> Polling(c)
  BY PollEnds
<1>4. CASE pin[b] /\ ~state[b]
  <2>1. age'[b] = 0 /\ pressTimestamp'[b] = callTime[b] /\ held'[b] = lag[b]
    BY <1>0, <1>4 DEF TypeOK, Poll
  <2>2. lag[b] \in Nat /\ (lag[b] < TickMod => Ahead(callTime[b], lag[b]))
    BY <1>0, DurationAssumption DEF TypeOK, Timed
  <2> QED
    BY <1>1, <1>2, <1>3, <2>1, <2>2 DEF Timed, Ahead
<1>5. CASE pin[b] /\ state[b]
  <2>1. age'[b] = age[b] /\ pressTimestamp'[b] = pressTimestamp[b] /\ held'[b] = held[b]
    BY <1>0, <1>5 DEF TypeOK, Poll
  <2> QED
    BY <1>1, <1>2, <1>3, <1>5, <2>1 DEF Timed, Ahead
<1>6. CASE ~pin[b]
  BY <1>1, <1>2, <1>3, <1>6 DEF Timed, Ahead
<1> QED
  BY <1>4, <1>5, <1>6

(* The reading of the clock starts a poll.                                 *)
LEMMA TimedClock ==
    ASSUME IInv, Timed, NEW b \in Buttons, EnterISR(b) \/ DebounceCB(b)
    PROVE  Timed'
<1>0. /\ TypeOK /\ ReadClock(b) /\ UNCHANGED <<state, pressTimestamp, now, ghosts>>
  BY DEF IInv, EnterISR, DebounceCB
<1>1. callTime'[b] = now /\ lag'[b] = 0
  BY <1>0 DEF TypeOK, ReadClock
<1>2. \A c \in Buttons \ {b} : callTime'[c] = callTime[c] /\ lag'[c] = lag[c]
  BY <1>0 DEF TypeOK, ReadClock
<1>3. \A c \in Buttons \ {b} : Polling(c)' => Polling(c)
  <2>1. CASE EnterISR(b)
    BY <1>0, <2>1 DEF TypeOK, EnterISR, Polling
  <2>2. CASE DebounceCB(b)
    BY <2>2 DEF DebounceCB, Polling
  <2> QED
    BY <2>1, <2>2
<1>4. now \in Nat /\ \A c \in Buttons : age[c] \in Nat
  BY <1>0, DurationAssumption DEF TypeOK
<1> QED
  BY <1>0, <1>1, <1>2, <1>3, <1>4 DEF Timed, Ahead, ghosts

(* A tick takes the counter as far ahead of every time as it is counted.   *)
LEMMA TickAhead ==
    ASSUME now \in 0..TickMod - 1, now' = (now + 1) % TickMod, 
           NEW t \in 0..TickMod - 1, NEW d \in 0..TickMod - 1, Ahead(t, d)
    PROVE  now' = t + d + 1 \/ now' + TickMod = t + d + 1
<1>1. PICK n \in Nat \ {0} : n = TickMod
  BY DurationAssumption
<1>2. now \in 0..n - 1 /\ now' = (now + 1) % n
  BY <1>1
<1>3. now' = now + 1 \/ (now' = 0 /\ now + 1 = n)
  <2>1. CASE now + 1 \in 0..n - 1
    BY <1>2, <2>1
  <2>2. CASE now + 1 = n
    BY <1>2, <2>2
  <2> QED
    BY <1>2, <2>1, <2>2
<1>4. (now = t + d \/ now + n = t + d) /\ t \in 0..n - 1 /\ d \in 0..n - 1
  BY <1>1 DEF Ahead
<1> QED
  BY <1>1, <1>2, <1>3, <1>4

LEMMA TimedTick ==
    ASSUME IInv, Timed, Tick
    PROVE  Timed'
<1>0. TypeOK
  BY DEF IInv
<1>1. PICK n \in Nat \ {0} : n = TickMod
  BY DurationAssumption
<1>2. now \in 0..TickMod - 1 /\ now' = (now + 1) % TickMod
  BY <1>0 DEF TypeOK, Tick
<1>3. /\ UNCHANGED <<state, pressTimestamp, callTime>>
      /\ \A b \in Buttons : Polling(b)' <=> Polling(b)
  BY DEF Tick, Polling
<1>4. ASSUME NEW b \in Buttons
      PROVE  /\ age[b] \in 0..n /\ lag[b] \in 0..n /\ held[b] \in 0..n
             /\ pressTimestamp[b] \in 0..n - 1 /\ callTime[b] \in 0..n - 1
  BY <1>0, <1>1 DEF TypeOK
<1>5. ASSUME NEW t \in 0..n - 1, NEW d \in 0..n, d < n => Ahead(t, d), UpTo(d, n) < n
      PROVE  now' = t + UpTo(d, n) \/ now' + n = t + UpTo(d, n)
  <2>1. d < n /\ UpTo(d, n) = d + 1
    BY <1>5 DEF UpTo
  <2>2. now' = t + d + 1 \/ now' + TickMod = t + d + 1
    <3>1. t \in 0..TickMod - 1 /\ d \in 0..TickMod - 1 /\ Ahead(t, d)
      BY <1>1, <1>5, <2>1
    <3> QED
      BY <1>2, <3>1, TickAhead
  <2> QED
    BY <1>1, <2>1, <2>2
<1>6. ASSUME NEW b \in Buttons
      PROVE  /\ age'[b] = UpTo(age[b], n)
             /\ Polling(b) => lag'[b] = UpTo(lag[b], n)
             /\ held'[b] = UpTo(held[b], n)
  BY <1>1 DEF Tick
<1>7. ASSUME NEW b \in Buttons, Polling(b)'
      PROVE  /\ lag'[b] < n => now' = callTime'[b] + lag'[b] \/ now' + n = callTime'[b] + lag'[b]
             /\ lag'[b] <= age'[b]
  <2>1. Polling(b)
    BY <1>3, <1>7
  <2>2. lag[b] < n => Ahead(callTime[b], lag[b])
    BY <1>1, <2>1 DEF Timed
  <2>3. lag'[b] = UpTo(lag[b], n)
    BY <1>6, <2>1
  <2>4. UpTo(lag[b], n) < n =>
           now' = callTime[b] + UpTo(lag[b], n) \/ now' + n = callTime[b] + UpTo(lag[b], n)
    BY <1>4, <1>5, <2>2
  <2>5. lag[b] <= age[b]
    BY <2>1 DEF Timed
  <2>6. UpTo(lag[b], n) <= UpTo(age[b], n)
    BY <1>4, <2>5 DEF UpTo
  <2> QED
    BY <1>3, <1>6, <2>3, <2>4, <2>6
<1>8. ASSUME NEW b \in Buttons, state'[b]
      PROVE  /\ held'[b] < n => now' = pressTimestamp'[b] + held'[b] \/ now' + n = pressTimestamp'[b] + held'[b]
             /\ age'[b] <= held'[b]
  <2>1. state[b]
    BY <1>3, <1>8
  <2>2. held[b] < n => Ahead(pressTimestamp[b], held[b])
    BY <1>1, <2>1 DEF Timed
  <2>3. UpTo(held[b], n) < n =>
           now' = pressTimestamp[b] + UpTo(held[b], n) \/ now' + n = pressTimestamp[b] + UpTo(held[b], n)
    BY <1>4, <1>5, <2>2
  <2>4. age[b] <= held[b]
    BY <2>1 DEF Timed
  <2>5. UpTo(age[b], n) <= UpTo(held[b], n)
    BY <1>4, <2>4 DEF UpTo
  <2> QED
    BY <1>3, <1>6, <2>3, <2>5
<1> QED
  BY <1>1, <1>7, <1>8 DEF Timed, Ahead

LEMMA TimedStep ==
    ASSUME IInv, Timed, [Next]_vars
    PROVE  Timed'
<1>0. TypeOK
  BY DEF IInv
<1>1. ASSUME NEW b \in Buttons, ISR(b) \/ PollDebounced(b) PROVE Timed'
  BY <1>1, TimedPoll
<1>2. ASSUME NEW b \in Buttons, EnterISR(b) \/ DebounceCB(b) PROVE Timed'
  BY <1>2, TimedClock
<1>3. CASE Tick
  BY <1>3, TimedTick
<1>4. ASSUME UNCHANGED <<state, pressTimestamp, now, clocks, ghosts>>,
             \A b \in Buttons : Polling(b)' => Polling(b)
      PROVE  Timed'
  BY <1>4 DEF Timed, Ahead, clocks, ghosts
<1>5. ASSUME NEW b \in Buttons, Attach(b) \/ PinChange(b) PROVE Timed'
  <2>1. UNCHANGED <<state, pressTimestamp, now, clocks, ghosts, daemon>>
    BY <1>5 DEF Attach, PinChange
  <2>2. \A c \in Buttons : Polling(c)' => Polling(c)
    BY <1>0, <1>5 DEF TypeOK, Attach, PinChange, Polling
  <2> QED
    BY <1>4, <2>1, <2>2
<1>6. CASE Dispatch
  <2>1. UNCHANGED <<state, pressTimestamp, now, clocks, ghosts, daemon, isr>>
    BY <1>6 DEF Dispatch
  <2> QED
    BY <1>4, <2>1 DEF Polling
<1>7. CASE Invoke
  <2>1. UNCHANGED <<state, pressTimestamp, now, clocks, ghosts, isr>>
    BY <1>7 DEF Invoke
  <2>2. daemon \in Busy /\ daemon' = [daemon EXCEPT !.calls = Tail(@)]
    BY <1>0, <1>7, ServingType DEF Invoke
  <2>3. /\ daemon'.busy = daemon.busy /\ daemon'.btn = daemon.btn
        /\ daemon'.polled = daemon.polled
    BY <2>2 DEF Busy
  <2> QED
    BY <1>4, <2>1, <2>3 DEF Polling
<1>8. CASE Rearm
  <2>1. UNCHANGED <<state, pressTimestamp, now, clocks, ghosts>> /\ daemon' = Idle
    BY <1>8 DEF Rearm
  <2>2. \A c \in Buttons : isr'[c] = "timed" => isr[c] = "timed"
    BY <1>0, <1>8 DEF TypeOK, Rearm
  <2> QED
    BY <1>4, <2>1, <2>2 DEF Polling, Idle
<1>9. CASE UNCHANGED vars
  <2>1. UNCHANGED <<state, pressTimestamp, now, clocks, ghosts, isr, daemon>>
    BY <1>9 DEF vars, clocks, ghosts
  <2> QED
    BY <1>4, <2>1 DEF Polling
<1> QED
  BY <1>1, <1>2, <1>3, <1>5, <1>6, <1>7, <1>8, <1>9 DEF Next

(* So the subtraction of poll gives the time between the two readings of   *)
(* the clock, the ticks of the press less those of the poll under way.     *)
LEMMA HeldForTicks ==
    ASSUME TypeOK, Timed, NEW b \in Buttons, Polling(b), state[b], held[b] < TickMod
    PROVE  HeldFor(b) = held[b] - lag[b]
<1>1. PICK n \in Nat \ {0} : n = TickMod
  BY DurationAssumption
<1>2. PICK h \in 0..n - 1 : h = held[b]
  BY <1>1 DEF TypeOK
<1>3. PICK l \in 0..h : l = lag[b]
  <2>1. lag[b] \in 0..n /\ age[b] \in 0..n
    BY <1>1 DEF TypeOK
  <2>2. lag[b] <= age[b] /\ age[b] <= held[b]
    BY DEF Timed
  <2> QED
    BY <1>2, <2>1, <2>2
<1>4. PICK d \in Int : d = callTime[b] - pressTimestamp[b]
  BY <1>1 DEF TypeOK
<1>5. d = h - l \/ d = h - l - n
  <2>1. now \in Nat /\ pressTimestamp[b] \in Nat /\ callTime[b] \in Nat
    BY <1>1 DEF TypeOK
  <2>2. now = pressTimestamp[b] + h \/ now + n = pressTimestamp[b] + h
    BY <1>1, <1>2 DEF Timed, Ahead
  <2>3. now = callTime[b] + l \/ now + n = callTime[b] + l
    BY <1>1, <1>2, <1>3 DEF Timed, Ahead
  <2>4. d = h - l \/ d = h - l - n \/ d = h - l + n
    BY <1>4, <2>1, <2>2, <2>3
  <2>5. d < n
    BY <1>1, <1>4 DEF TypeOK
  <2> QED
    BY <1>2, <1>3, <2>4, <2>5
<1>6. d % n = h - l
  <2>1. PICK k \in 0..n - 1 : k = h - l
    BY <1>2, <1>3
  <2>2. d = k \/ d = k - n
    BY <1>5, <2>1
  <2> QED
    BY <2>1, <2>2
<1> QED
  BY <1>1, <1>2, <1>3, <1>4, <1>6 DEF HeldFor

-----------------------------------------------------------------------------
(* The results                                                             *)

(* All three hold in every reachable state.                                *)
THEOREM PressInvariant == Spec => [](IInv /\ Aged /\ Timed)
<1>1. Init => IInv /\ Aged /\ Timed
  BY InitInv, AgedInit, TimedInit
<1>2. IInv /\ Aged /\ Timed /\ [Next]_vars => (IInv /\ Aged /\ Timed)'
  BY StepInv, AgedStep, TimedStep
<1> QED
  BY <1>1, <1>2, PTL DEF Spec

(* The state of a button changes at most once per DEBOUNCE_DURATION, over  *)
(* all interleavings of the interrupts and the daemon (button.h:10).       *)
THEOREM BounceIsFiltered == Spec => Debounced
<1>1. ASSUME IInv, Aged, [Next]_vars
      PROVE  [\A b \in Buttons : state'[b] # state[b] => age[b] >= DebounceDuration]_vars
  BY <1>1, ChangeStep
<1> QED
  BY <1>1, PressInvariant, PTL DEF Spec, Debounced

(* A release is reported as a HOLD when the press was longer than          *)
(* LONG_PRESS_DURATION and as a CLICK when it was shorter, up to the ticks *)
(* that pass between the two readings that each poll makes, and also       *)
(* across a wrap (button.h:17-18, button.cpp:67).                          *)
THEOREM HoldsAreLong == Spec => []HoldIsLong
<1>1. ASSUME IInv, Timed
      PROVE  HoldIsLong
  <2>1. SUFFICES ASSUME NEW b \in Buttons, Releasing(b)
                 PROVE  /\ age[b] - lag[b] > LongPressDuration => Head(Raised(b)) = "HOLD"
                        /\ held[b] < LongPressDuration => Head(Raised(b)) = "CLICK"
    BY DEF HoldIsLong
  <2>2. /\ Polling(b) /\ state[b] /\ ~pin[b] /\ held[b] < TickMod
        /\ {"CLICK", "HOLD"} \subseteq Callbacks[b]
    BY <2>1 DEF Releasing
  <2>3. HeldFor(b) = held[b] - lag[b]
    BY <1>1, <2>2, HeldForTicks DEF IInv
  <2>4. PICK e \in {"CLICK", "HOLD"} :
             e = IF HeldFor(b) >= LongPressDuration THEN "HOLD" ELSE "CLICK"
    OBVIOUS
  <2>5. Raised(b) = <<e>> \o Registered(b, "RELEASE")
    BY <2>2, <2>4 DEF Raised, Registered
  <2>6. Head(Raised(b)) = e
    BY <2>5 DEF Registered
  <2>7. /\ age[b] - lag[b] > LongPressDuration => HeldFor(b) >= LongPressDuration
        /\ held[b] < LongPressDuration => ~(HeldFor(b) >= LongPressDuration)
    <3>1. age[b] \in Nat /\ lag[b] \in Nat /\ held[b] \in Nat
      BY <1>1, DurationAssumption DEF IInv, TypeOK
    <3>2. age[b] <= held[b]
      BY <1>1, <2>2 DEF Timed
    <3> QED
      BY <2>3, <3>1, <3>2, DurationAssumption
  <2> QED
    BY <2>4, <2>6, <2>7
<1> QED
  BY <1>1, PressInvariant, PTL

-----------------------------------------------------------------------------
(***************************************************************************)
(* The proof that Button delivers what ButtonEvents promises, for any      *)
(* buttons and durations, to a client with a callback for every event.     *)
(*                                                                         *)
(* An event is due from the poll that raises it until its callback is      *)
(* called, be it by a queued command or by DebounceCB itself.  What is     *)
(* due, what was delivered last and the button's state determine each      *)
(* other, and the events of one poll are called in their order.            *)
(***************************************************************************)

Duration == {"CLICK", "HOLD"}

Holds(s, e) == \E i \in 1..Len(s) : s[i] = e
InQueue(b, e) == Holds(queue, [btn |-> b, cmd |-> e])
InCalls(b, e) == Serving(b) /\ Holds(daemon.calls, e)
Due(b, e) == InQueue(b, e) \/ InCalls(b, e)

Ordered ==
    \A b \in Buttons :
        /\ (\A e \in Event : ~Due(b, e)) => last[b] = IF state[b] THEN "PRESS" ELSE "RELEASE"
        /\ Due(b, "PRESS") => state[b] /\ last[b] = "RELEASE"
        /\ \A e \in Duration : Due(b, e) => ~state[b] /\ last[b] = "PRESS" /\ Due(b, "RELEASE")
        /\ Due(b, "RELEASE") => ~state[b] /\ (last[b] \in Duration \/ \E e \in Duration : Due(b, e))

(* The callbacks DebounceCB has still to call.                             *)
Called ==
    daemon.busy =>
        /\ ~daemon.polled => daemon.calls = <<>>
        /\ daemon.calls \in {<<>>, <<"PRESS">>, <<"RELEASE">>,
                             <<"CLICK", "RELEASE">>, <<"HOLD", "RELEASE">>}

-----------------------------------------------------------------------------
(* What is due                                                             *)

LEMMA SameDue ==
    ASSUME Ordered, UNCHANGED <<state, last>>,
           \A b \in Buttons, e \in Event : Due(b, e)' <=> Due(b, e)
    PROVE  Ordered'
BY DEF Ordered, Event, Duration

(* The first of the events that are due is delivered.                      *)
LEMMA DeliverFirst ==
    ASSUME TypeOK, Ordered, NEW b \in Buttons, NEW e \in Event, Due(b, e),
           last' = [last EXCEPT ![b] = e], UNCHANGED state,
           \A c \in Buttons \ {b}, x \in Event : Due(c, x)' <=> Due(c, x),
           \A x \in Event : Due(b, x)' <=> (Due(b, x) /\ x # e),
           \A x \in Event : Due(b, x) /\ x # e => Slot(e) < Slot(x)
    PROVE  Ordered' /\ EventOrder!Deliver(b)
<1>1. /\ last'[b] = e /\ \A c \in Buttons \ {b} : last'[c] = last[c]
  BY DEF TypeOK
<1>2. CASE e = "PRESS"
  <2>1. state[b] /\ last[b] = "RELEASE" /\ \A x \in Event : ~Due(b, x)'
    BY <1>2 DEF Ordered, Event, Duration
  <2>2. Ordered'
    BY <1>1, <1>2, <2>1 DEF Ordered, Event, Duration
  <2> QED
    BY <1>2, <2>1, <2>2 DEF EventOrder!Deliver, EventOrder!Follows
<1>3. CASE e \in Duration
  <2>1. ~state[b] /\ last[b] = "PRESS" /\ Due(b, "RELEASE")
    BY <1>3 DEF Ordered
  <2>2. \A x \in Event : Due(b, x)' <=> x = "RELEASE"
    BY <1>3, <2>1 DEF Event, Duration, Slot
  <2>3. Ordered'
    BY <1>1, <1>3, <2>1, <2>2 DEF Ordered, Event, Duration
  <2> QED
    BY <1>3, <2>1, <2>3 DEF EventOrder!Deliver, EventOrder!Follows, Duration
<1>4. CASE e = "RELEASE"
  <2>1. \A x \in Duration : ~Due(b, x)
    BY <1>4 DEF Event, Duration, Slot
  <2>2. ~state[b] /\ last[b] \in Duration
    BY <1>4, <2>1 DEF Ordered
  <2>3. \A x \in Event : ~Due(b, x)'
    BY <1>4, <2>1, <2>2 DEF Ordered, Event, Duration
  <2>4. Ordered'
    BY <1>1, <1>4, <2>2, <2>3 DEF Ordered, Event, Duration
  <2> QED
    BY <1>4, <2>2, <2>4 DEF EventOrder!Deliver, EventOrder!Follows, Duration
<1> QED
  BY <1>2, <1>3, <1>4 DEF Event, Duration

LEMMA PairForm ==
    ASSUME NEW x, NEW y
    PROVE  <<x>> \o <<y>> = <<x, y>>
<1> DEFINE S == {x, y}
<1>1. <<x>> \in Seq(S) /\ <<y>> \in Seq(S) /\ <<x, y>> \in Seq(S)
  OBVIOUS
<1>2. PICK s \in Seq(S) : s = <<x>> \o <<y>>
  BY <1>1, ConcatProperties
<1>3. Len(s) = 2 /\ s[1] = x /\ s[2] = y
  BY <1>1, <1>2
<1>4. \A i \in 1..2 : i = 1 \/ i = 2
  OBVIOUS
<1>5. s = <<x, y>>
  BY <1>1, <1>3, <1>4
<1> QED
  BY <1>2, <1>5

(* A poll raises what a client with every callback is told.                *)
LEMMA RaisedAll ==
    ASSUME NEW b \in Buttons, Callbacks[b] = Event
    PROVE  /\ pin[b] = state[b] => Raised(b) = <<>>
           /\ pin[b] # state[b] /\ pin[b] => Raised(b) = <<"PRESS">>
           /\ pin[b] # state[b] /\ ~pin[b] =>
                  \E d \in Duration : Raised(b) = <<d, "RELEASE">>
<1>1. \A e \in Event : Registered(b, e) = <<e>>
  BY DEF Registered
<1>2. CASE pin[b] = state[b] \/ pin[b]
  BY <1>1, <1>2 DEF Raised, Event
<1>3. CASE pin[b] # state[b] /\ ~pin[b]
  <2>1. PICK d \in Duration : d = IF HeldFor(b) >= LongPressDuration THEN "HOLD" ELSE "CLICK"
    BY DEF Duration
  <2>2. Raised(b) = Registered(b, d) \o Registered(b, "RELEASE")
    BY <1>3, <2>1 DEF Raised
  <2>3. Raised(b) = <<d>> \o <<"RELEASE">>
    BY <1>1, <2>2 DEF Duration, Event
  <2>4. <<d>> \o <<"RELEASE">> = <<d, "RELEASE">>
    BY PairForm
  <2>5. Raised(b) = <<d, "RELEASE">>
    BY <2>3, <2>4
  <2> QED
    BY <1>3, <2>5
<1> QED
  BY <1>2, <1>3

(* A poll of a button with nothing due makes due what it raises.           *)
LEMMA PollDue ==
    ASSUME TypeOK, Ordered, NEW b \in Buttons, Callbacks[b] = Event, Poll(b), UNCHANGED last,
           \A e \in Event : ~Due(b, e),
           \A c \in Buttons \ {b}, x \in Event : Due(c, x)' <=> Due(c, x),
           \A x \in Event : Due(b, x)' <=> Holds(Raised(b), x)
    PROVE  Ordered'
<1>1. state'[b] = pin[b] /\ \A c \in Buttons \ {b} : state'[c] = state[c]
  BY DEF TypeOK, Poll
<1>2. last[b] = IF state[b] THEN "PRESS" ELSE "RELEASE"
  BY DEF Ordered
<1>3. state[b] \in BOOLEAN /\ pin[b] \in BOOLEAN
  BY DEF TypeOK
<1>4. CASE pin[b] = state[b]
  <2>1. \A x \in Event : ~Due(b, x)'
    BY <1>4, RaisedAll DEF Holds
  <2> QED
    BY <1>1, <1>2, <1>4, <2>1 DEF Ordered, Event, Duration
<1>5. CASE pin[b] /\ ~state[b]
  <2>1. Raised(b) = <<"PRESS">>
    BY <1>5, RaisedAll
  <2>2. \A x \in Event : Due(b, x)' <=> x = "PRESS"
    BY <2>1 DEF Holds
  <2> QED
    BY <1>1, <1>2, <1>5, <2>2 DEF Ordered, Event, Duration
<1>6. CASE ~pin[b] /\ state[b]
  <2>1. PICK d \in Duration : Raised(b) = <<d, "RELEASE">>
    BY <1>6, RaisedAll
  <2>2. \A x \in Event : Due(b, x)' <=> (x = d \/ x = "RELEASE")
    BY <2>1 DEF Holds
  <2> QED
    BY <1>1, <1>2, <1>6, <2>2 DEF Ordered, Event, Duration
<1> QED
  BY <1>3, <1>4, <1>5, <1>6
-----------------------------------------------------------------------------
(* The steps                                                               *)

(* A button that is neither queued nor served has nothing due.             *)
LEMMA NothingDue ==
    ASSUME NEW b \in Buttons, ~Queued(b), ~Serving(b)
    PROVE  \A e \in Event : ~Due(b, e)
BY DEF Due, InQueue, InCalls, Queued, Holds

LEMMA DeliveryInit == Init => Ordered /\ Called
<1> SUFFICES ASSUME Init PROVE Ordered /\ Called
  OBVIOUS
<1>1. \A b \in Buttons : \A e \in Event : ~Due(b, e)
  BY DEF Init, Due, InQueue, InCalls, Holds, Serving, Idle
<1>2. Ordered
  BY <1>1 DEF Init, Ordered, Event, Duration
<1>3. Called
  BY DEF Init, Called, Idle
<1> QED
  BY <1>2, <1>3

(* Events of other buttons, and resets, make nothing due.                  *)
LEMMA AppendDue ==
    ASSUME queue \in Seq(Command), NEW s \in Seq(Command), queue' = queue \o s,
           NEW c \in Buttons, NEW x \in Event
    PROVE  InQueue(c, x)' <=>
             InQueue(c, x) \/ Holds(s, [btn |-> c, cmd |-> x])
<1> DEFINE m == Len(queue)
           n == Len(s)
<1>1. m \in Nat /\ n \in Nat
  OBVIOUS
<1>2. /\ Len(queue') = m + n
      /\ \A i \in 1..m : queue'[i] = queue[i]
      /\ \A i \in m + 1..m + n : queue'[i] = s[i - m]
  BY ConcatProperties
<1>3. ASSUME NEW i \in 1..m + n, queue'[i] = [btn |-> c, cmd |-> x]
      PROVE  InQueue(c, x) \/ \E j \in 1..n : s[j] = [btn |-> c, cmd |-> x]
  <2>1. CASE i \in 1..m
    BY <1>2, <1>3, <2>1 DEF InQueue, Holds
  <2>2. CASE i \in m + 1..m + n
    <3>1. i - m \in 1..n /\ s[i - m] = [btn |-> c, cmd |-> x]
      BY <1>1, <1>2, <1>3, <2>2
    <3> QED
      BY <3>1
  <2> QED
    BY <1>1, <2>1, <2>2
<1>4. ASSUME NEW i \in 1..m, queue[i] = [btn |-> c, cmd |-> x]
      PROVE  InQueue(c, x)'
  BY <1>1, <1>2, <1>4 DEF InQueue, Holds
<1>5. ASSUME NEW i \in 1..n, s[i] = [btn |-> c, cmd |-> x]
      PROVE  InQueue(c, x)'
  <2>1. m + i \in 1..m + n /\ m + i \in m + 1..m + n /\ (m + i) - m = i
    BY <1>1
  <2>2. queue'[m + i] = s[i]
    BY <1>2, <2>1
  <2> QED
    BY <1>2, <1>5, <2>1, <2>2 DEF InQueue, Holds
<1> QED
  BY <1>2, <1>3, <1>4, <1>5 DEF InQueue, Holds

(* The interrupt sends the events it raises, and a reset.                  *)
LEMMA SentForm ==
    ASSUME NEW b \in Buttons, NEW s, s = Commands(b, Raised(b)) \o Reset(b)
    PROVE  /\ \A i \in 1..Len(Raised(b)) : s[i] = [btn |-> b, cmd |-> Raised(b)[i]]
           /\ s[Len(Raised(b)) + 1] = [btn |-> b, cmd |-> "reset"]
<1>0. PICK r : r = Raised(b)
  OBVIOUS
<1>1. r \in Seq(Event)
  BY <1>0, RaisedForm
<1>2. PICK n \in Nat : n = Len(r)
  BY <1>1
<1>3. PICK k : k = Commands(b, r)
  OBVIOUS
<1>4. /\ k \in Seq(Command) /\ Len(k) = n
      /\ \A i \in 1..n : k[i] = [btn |-> b, cmd |-> r[i]]
  BY <1>1, <1>2, <1>3 DEF Commands, Command
<1>5. PICK z : z = Reset(b)
  OBVIOUS
<1>6. z \in Seq(Command) /\ Len(z) = 1 /\ z[1] = [btn |-> b, cmd |-> "reset"]
  BY <1>5 DEF Reset, Command
<1>7. s = k \o z
  BY <1>0, <1>3, <1>5
<1>8. /\ Len(k \o z) = Len(k) + Len(z)
      /\ \A i \in 1..Len(k) + Len(z) :
            (k \o z)[i] = IF i <= Len(k) THEN k[i] ELSE z[i - Len(k)]
  BY <1>4, <1>6, ConcatProperties, Zenon
<1>9. Len(s) = n + 1 /\ \A i \in 1..n + 1 : s[i] = IF i <= n THEN k[i] ELSE z[i - n]
  BY <1>4, <1>6, <1>7, <1>8
<1>10. ASSUME NEW i \in 1..n PROVE s[i] = [btn |-> b, cmd |-> r[i]]
  <2>1. i \in 1..n + 1 /\ i <= n
    BY <1>2
  <2>2. s[i] = k[i]
    BY <1>9, <2>1
  <2> QED
    BY <1>4, <2>2
<1>11. s[n + 1] = [btn |-> b, cmd |-> "reset"]
  BY <1>2, <1>6, <1>9
<1> QED
  BY <1>0, <1>2, <1>10, <1>11

(* Commands of that form hold just those events.                           *)
LEMMA SentCommands ==
    ASSUME NEW b \in Buttons, NEW r \in Seq(Event), NEW s \in Seq(Command),
           Len(s) = Len(r) + 1,
           \A i \in 1..Len(r) : s[i] = [btn |-> b, cmd |-> r[i]],
           s[Len(r) + 1] = [btn |-> b, cmd |-> "reset"],
           NEW c \in Buttons, NEW x \in Event
    PROVE  Holds(s, [btn |-> c, cmd |-> x]) <=> (c = b /\ Holds(r, x))
<1> DEFINE n == Len(r)
<1>1. n \in Nat
  OBVIOUS
<1>2. ASSUME NEW i \in 1..n
      PROVE  /\ i \in 1..n + 1 /\ s[i] = [btn |-> b, cmd |-> r[i]]
             /\ s[i].btn = b /\ s[i].cmd = r[i]
  <2>1. s[i] = [btn |-> b, cmd |-> r[i]]
    OBVIOUS
  <2> QED
    BY <1>1, <2>1
<1>3. s[n + 1].cmd = "reset" /\ x # "reset"
  BY DEF Event
<1>4. ASSUME NEW i \in 1..n + 1, s[i] = [btn |-> c, cmd |-> x]
      PROVE  c = b /\ \E j \in 1..n : r[j] = x
  <2>1. s[i].btn = c /\ s[i].cmd = x
    BY <1>4
  <2>2. i \in 1..n
    BY <1>1, <1>3, <2>1
  <2> QED
    BY <1>2, <2>1, <2>2
<1>5. ASSUME c = b, NEW i \in 1..n, r[i] = x
      PROVE  \E j \in 1..n + 1 : s[j] = [btn |-> c, cmd |-> x]
  BY <1>2, <1>5
<1> QED
  BY <1>4, <1>5 DEF Holds

(* The interrupt queues what it raises.                                    *)
LEMMA ISRDue ==
    ASSUME IInv, Ordered, NEW b \in Buttons, Callbacks[b] = Event, ISR(b)
    PROVE  Ordered'
<1>1. TypeOK /\ OneOwner /\ queue \in Seq(Command)
  BY DEF IInv, TypeOK
<1>2. /\ isr[b] = "timed" /\ ~Queued(b) /\ ~Serving(b)
      /\ Poll(b) /\ UNCHANGED <<daemon, last>>
  BY <1>1 DEF ISR, OneOwner
<1>3. PICK s : s = Commands(b, Raised(b)) \o Reset(b)
  OBVIOUS
<1>4. s \in Seq(Command) /\ Len(s) = Len(Raised(b)) + 1
  BY <1>3, SentByISR
<1>5. queue' = queue \o s
  <2>1. Len(queue) + Len(Raised(b)) + 1 <= QueueLength
    BY <1>2, InvariantHasRoom DEF NoCommandLost
  <2>2. Len(Raised(b)) \in Nat /\ Len(queue) \in Nat
    BY <1>1, RaisedForm
  <2>3. Len(queue) + Len(s) <= QueueLength
    BY <1>4, <2>1, <2>2
  <2>4. Post(s)
    BY <1>3 DEF ISR
  <2> QED
    BY <1>1, <1>4, <2>3, <2>4, PostAll
<1>6. \A c \in Buttons, x \in Event :
          Holds(s, [btn |-> c, cmd |-> x]) <=> (c = b /\ Holds(Raised(b), x))
  <2>1. PICK r : r = Raised(b)
    OBVIOUS
  <2>2. r \in Seq(Event)
    BY <2>1, RaisedForm
  <2>3. Len(s) = Len(r) + 1
    BY <1>4, <2>1
  <2>4. /\ \A i \in 1..Len(Raised(b)) : s[i] = [btn |-> b, cmd |-> Raised(b)[i]]
        /\ s[Len(Raised(b)) + 1] = [btn |-> b, cmd |-> "reset"]
    BY <1>3, SentForm
  <2>5. /\ \A i \in 1..Len(r) : s[i] = [btn |-> b, cmd |-> r[i]]
        /\ s[Len(r) + 1] = [btn |-> b, cmd |-> "reset"]
    BY <2>1, <2>4
  <2>6. ASSUME NEW c \in Buttons, NEW x \in Event
        PROVE  Holds(s, [btn |-> c, cmd |-> x]) <=> (c = b /\ Holds(r, x))
    BY <1>4, <2>2, <2>3, <2>5, SentCommands
  <2> QED
    BY <2>1, <2>6
<1>7. \A c \in Buttons, x \in Event :
          Due(c, x)' <=> Due(c, x) \/ (c = b /\ Holds(Raised(b), x))
  <2>1. \A c \in Buttons, x \in Event : InCalls(c, x)' <=> InCalls(c, x)
    BY <1>2 DEF InCalls, Serving
  <2>2. \A c \in Buttons, x \in Event :
            InQueue(c, x)' <=> InQueue(c, x) \/ (c = b /\ Holds(Raised(b), x))
    <3> SUFFICES ASSUME NEW c \in Buttons, NEW x \in Event
                 PROVE  InQueue(c, x)' <=> InQueue(c, x)
                          \/ (c = b /\ Holds(Raised(b), x))
      OBVIOUS
    <3>1. InQueue(c, x)' <=>
             InQueue(c, x) \/ Holds(s, [btn |-> c, cmd |-> x])
      BY <1>1, <1>4, <1>5, AppendDue
    <3> QED
      BY <1>6, <3>1
  <2> QED
    BY <2>1, <2>2 DEF Due
<1>8. \A e \in Event : ~Due(b, e)
  BY <1>2, NothingDue
<1> QED
  BY <1>1, <1>2, <1>7, <1>8, PollDue

(* DebounceCB starts with nothing to call.                                 *)
LEMMA DebounceDue ==
    ASSUME IInv, Ordered, NEW b \in Buttons, DebounceCB(b)
    PROVE  Ordered' /\ Called'
<1>1. /\ ~daemon.busy /\ daemon'.calls = <<>> /\ UNCHANGED <<queue, state, last>>
  BY DEF DebounceCB
<1>2. ASSUME NEW c \in Buttons, NEW x \in Event
      PROVE  Due(c, x)' <=> Due(c, x)
  <2>1. ~InCalls(c, x) /\ ~InCalls(c, x)'
    BY <1>1 DEF InCalls, Serving, Holds
  <2>2. InQueue(c, x)' <=> InQueue(c, x)
    BY <1>1 DEF InQueue
  <2> QED
    BY <2>1, <2>2 DEF Due
<1> QED
  BY <1>1, <1>2, SameDue DEF Called

(* The poll in DebounceCB has still to call what it raises.                *)
LEMMA PollDebouncedDue ==
    ASSUME IInv, Ordered, Called, NEW b \in Buttons, Callbacks[b] = Event, PollDebounced(b)
    PROVE  Ordered' /\ Called'
<1>1. TypeOK
  BY DEF IInv
<1>2. /\ daemon.busy /\ daemon.btn = b /\ ~daemon.polled /\ Poll(b) /\ UNCHANGED <<queue, last>>
      /\ daemon' = [daemon EXCEPT !.polled = TRUE, !.changed = (pin[b] # state[b]), !.calls = Raised(b)]
  BY DEF PollDebounced
<1>3. ~Queued(b) /\ \A c \in Buttons : Serving(c) <=> c = b
  BY <1>2 DEF IInv, OneOwner, Serving
<1>4. daemon'.busy /\ daemon'.btn = b /\ daemon'.calls = Raised(b) /\ daemon'.polled
  <2>1. daemon \in Busy
    BY <1>1, <1>2, ServingType
  <2> QED
    BY <1>2, <2>1 DEF Busy
<1>5. \A c \in Buttons, x \in Event :
          /\ InQueue(c, x)' <=> InQueue(c, x)
          /\ ~InCalls(c, x)
          /\ InCalls(c, x)' <=> c = b /\ Holds(Raised(b), x)
  <2>1. ASSUME NEW c \in Buttons, NEW x \in Event PROVE InQueue(c, x)' <=> InQueue(c, x)
    BY <1>2 DEF InQueue
  <2>2. ASSUME NEW c \in Buttons, NEW x \in Event PROVE ~InCalls(c, x)
    BY <1>2 DEF InCalls, Holds, Called
  <2>3. ASSUME NEW c \in Buttons, NEW x \in Event
        PROVE  InCalls(c, x)' <=> c = b /\ Holds(Raised(b), x)
    BY <1>4 DEF InCalls, Serving
  <2> QED
    BY <2>1, <2>2, <2>3
<1>6. \A e \in Event : ~Due(b, e)
  BY <1>3, <1>5 DEF Due, InQueue, Holds, Queued
<1>7. \A x \in Event : Due(b, x)' <=> Holds(Raised(b), x)
  BY <1>5, <1>6 DEF Due
<1>8. \A c \in Buttons \ {b}, x \in Event : Due(c, x)' <=> Due(c, x)
  BY <1>5 DEF Due
<1>9. Ordered'
  BY <1>1, <1>2, <1>6, <1>7, <1>8, PollDue
<1>10. Raised(b) \in {<<>>, <<"PRESS">>, <<"CLICK", "RELEASE">>, <<"HOLD", "RELEASE">>}
  <2>1. pin[b] \in BOOLEAN
    BY <1>1 DEF TypeOK
  <2> QED
    BY <2>1, RaisedAll DEF Duration
<1> QED
  BY <1>4, <1>9, <1>10 DEF Called

(* A reset is nobody's event.                                              *)
LEMMA RearmDue ==
    ASSUME IInv, Ordered, Called, Rearm
    PROVE  Ordered' /\ Called'
<1>1. TypeOK /\ OneOwner /\ queue \in Seq(Command)
  BY DEF IInv, TypeOK
<1>2. /\ daemon.busy /\ daemon.calls = <<>> /\ ~daemon'.busy /\ UNCHANGED <<state, last>>
  BY DEF Rearm, Idle
<1> PICK b \in Buttons : b = daemon.btn
  BY <1>1, <1>2, ServingType
<1>3. \A c \in Buttons, x \in Event : ~InCalls(c, x) /\ ~InCalls(c, x)'
  BY <1>2 DEF InCalls, Serving, Holds
<1>4. \A c \in Buttons, x \in Event : InQueue(c, x)' <=> InQueue(c, x)
  <2>1. CASE daemon.changed
    <3>1. PICK s : s = Reset(b)
      OBVIOUS
    <3>2. s \in Seq(Command) /\ Len(s) = 1 /\ s[1] = [btn |-> b, cmd |-> "reset"]
      BY <3>1 DEF Reset, Command
    <3>3. queue' = queue \o s
      <4>1. Len(queue) + Len(s) <= QueueLength
        BY <1>2, <3>2, InvariantHasRoom DEF NoCommandLost
      <4>2. Post(s)
        BY <2>1, <3>1 DEF Rearm
      <4> QED
        BY <1>1, <3>2, <4>1, <4>2, PostAll
    <3>4. s[1].cmd = "reset" /\ "reset" \notin Event
      BY <3>2 DEF Event
    <3>5. ASSUME NEW c \in Buttons, NEW x \in Event
          PROVE  ~Holds(s, [btn |-> c, cmd |-> x])
      BY <3>2, <3>4 DEF Holds
    <3>6. ASSUME NEW c \in Buttons, NEW x \in Event
          PROVE  InQueue(c, x)' <=> InQueue(c, x)
      <4>1. InQueue(c, x)' <=> InQueue(c, x) \/ Holds(s, [btn |-> c, cmd |-> x])
        BY <1>1, <3>2, <3>3, AppendDue
      <4> QED
        BY <3>5, <4>1
    <3> QED
      BY <3>6
  <2>2. CASE ~daemon.changed
    BY <2>2 DEF Rearm, InQueue
  <2> QED
    BY <2>1, <2>2
<1>5. \A c \in Buttons, x \in Event : Due(c, x)' <=> Due(c, x)
  BY <1>3, <1>4 DEF Due
<1> QED
  BY <1>2, <1>5, SameDue DEF Called

(* The daemon runs a queued callback: the first that is due, since those   *)
(* of one button stand in slot order.                                      *)
LEMMA DispatchDue ==
    ASSUME IInv, Ordered, Called, Dispatch
    PROVE  /\ Ordered' /\ Called'
           /\ (\E b \in Buttons : EventOrder!Deliver(b)) \/ UNCHANGED last
<1> DEFINE n == Len(queue)
<1>1. TypeOK /\ SlotOrder /\ queue \in Seq(Command)
  BY DEF IInv, TypeOK
<1>2. ~daemon.busy /\ queue # <<>> /\ queue' = Tail(queue) /\ UNCHANGED <<state, daemon>>
  BY DEF Dispatch
<1>3. n \in Nat \ {0} /\ \E m \in Command : m = Head(queue) /\ m = queue[1]
  BY <1>1, <1>2
<1> PICK m \in Command : m = Head(queue) /\ m = queue[1]
  BY <1>3
<1>4. /\ Len(queue') = n - 1
      /\ \A i \in 1..n - 1 : i + 1 \in 1..n /\ queue'[i] = queue[i + 1]
  BY <1>1, <1>2, <1>3
<1>5. m.btn \in Buttons /\ m.cmd \in Event \cup {"reset"} /\ m = [btn |-> m.btn, cmd |-> m.cmd]
  BY DEF Command
<1>6. Called'
  BY <1>2 DEF Called
<1>7. \A c \in Buttons, x \in Event :
          /\ ~InCalls(c, x) /\ ~InCalls(c, x)'
          /\ Due(c, x) <=> InQueue(c, x)
          /\ Due(c, x)' <=> InQueue(c, x)'
  BY <1>2 DEF Due, InCalls, Serving
<1>8. ASSUME NEW c \in Buttons, NEW x \in Event
      PROVE  InQueue(c, x) <=> (m.btn = c /\ m.cmd = x) \/ InQueue(c, x)'
  <2>1. ASSUME NEW i \in 1..n, queue[i] = [btn |-> c, cmd |-> x]
        PROVE  (m.btn = c /\ m.cmd = x) \/ InQueue(c, x)'
    <3>1. CASE i = 1
      BY <2>1, <3>1
    <3>2. CASE i # 1
      <4>1. i - 1 \in 1..n - 1 /\ (i - 1) + 1 = i
        BY <1>3, <3>2
      <4> QED
        BY <1>4, <2>1, <4>1 DEF InQueue, Holds
    <3> QED
      BY <3>1, <3>2
  <2>2. ASSUME NEW i \in 1..n - 1, queue'[i] = [btn |-> c, cmd |-> x]
        PROVE  InQueue(c, x)
    BY <1>4, <2>2 DEF InQueue, Holds
  <2>3. m.btn = c /\ m.cmd = x => InQueue(c, x)
    BY <1>3, <1>5 DEF InQueue, Holds
  <2> QED
    BY <1>4, <2>1, <2>2, <2>3 DEF InQueue, Holds
<1>9. CASE m.cmd = "reset"
  <2>1. UNCHANGED last
    BY <1>9 DEF Dispatch
  <2>2. \A c \in Buttons, x \in Event : Due(c, x)' <=> Due(c, x)
    BY <1>7, <1>8, <1>9 DEF Event
  <2> QED
    BY <1>2, <1>6, <2>1, <2>2, SameDue
<1>10. CASE m.cmd \in Event
  <2>1. last' = [last EXCEPT ![m.btn] = m.cmd]
    BY <1>10 DEF Dispatch, Event
  <2>2. ASSUME NEW x \in Event, InQueue(m.btn, x)'
        PROVE  Slot(m.cmd) < Slot(x)
    <3>1. PICK i \in 1..n - 1 : queue'[i] = [btn |-> m.btn, cmd |-> x]
      BY <1>4, <2>2 DEF InQueue, Holds
    <3>2. 1 \in 1..n /\ i + 1 \in 1..n /\ 1 < i + 1
      BY <1>3, <1>4
    <3>3. queue[i + 1].btn = m.btn /\ queue[i + 1].cmd = x
      BY <1>4, <3>1
    <3> QED
      BY <1>1, <3>2, <3>3 DEF SlotOrder
  <2>3. Slot(m.cmd) \in Nat
    BY DEF Slot
  <2>4. ~InQueue(m.btn, m.cmd)'
    BY <1>10, <2>2, <2>3
  <2>5. Due(m.btn, m.cmd)
    BY <1>5, <1>7, <1>8, <1>10
  <2>6. \A c \in Buttons \ {m.btn}, x \in Event : Due(c, x)' <=> Due(c, x)
    BY <1>7, <1>8
  <2>7. \A x \in Event : Due(m.btn, x)' <=> (Due(m.btn, x) /\ x # m.cmd)
    BY <1>5, <1>7, <1>8, <2>4
  <2>8. \A x \in Event : Due(m.btn, x) /\ x # m.cmd => Slot(m.cmd) < Slot(x)
    BY <1>5, <1>7, <2>2, <2>7
  <2>9. Ordered' /\ EventOrder!Deliver(m.btn)
    BY <1>1, <1>2, <1>5, <1>10, <2>1, <2>5, <2>6, <2>7, <2>8, DeliverFirst
  <2> QED
    BY <1>5, <1>6, <2>9
<1> QED
  BY <1>5, <1>9, <1>10

(* DebounceCB calls back in the order in which poll raised.                *)
LEMMA InvokeDue ==
    ASSUME IInv, Ordered, Called, Invoke
    PROVE  /\ Ordered' /\ Called'
           /\ \E b \in Buttons : EventOrder!Deliver(b)
<1>1. TypeOK /\ OneOwner
  BY DEF IInv
<1>2. daemon.busy /\ daemon.calls # <<>> /\ UNCHANGED <<state, queue>>
      /\ last' = [last EXCEPT ![daemon.btn] = Head(daemon.calls)]
      /\ daemon' = [daemon EXCEPT !.calls = Tail(@)]
  BY DEF Invoke
<1>3. daemon \in Busy
  BY <1>1, <1>2, ServingType
<1> PICK b \in Buttons : b = daemon.btn
  BY <1>1, <1>2, ServingType
<1>4. daemon'.busy /\ daemon'.btn = b /\ daemon'.calls = Tail(daemon.calls) /\ daemon'.polled
  <2>1. daemon.polled \in BOOLEAN /\ daemon'.polled = daemon.polled
    BY <1>2, <1>3 DEF Busy
  <2> QED
    BY <1>2, <1>3, <2>1 DEF Called, Busy
<1>5. daemon.calls \in {<<"PRESS">>, <<"RELEASE">>, <<"CLICK", "RELEASE">>, <<"HOLD", "RELEASE">>}
  BY <1>2 DEF Called
<1>0. PICK t : t = Tail(daemon.calls)
  OBVIOUS
<1>6. PICK e \in Event :
          /\ e = Head(daemon.calls)
          /\ t \in {<<>>, <<"RELEASE">>}
          /\ \A x \in Event : Holds(daemon.calls, x) <=> x = e \/ Holds(t, x)
          /\ \A x \in Event : Holds(t, x) => Slot(e) < Slot(x) /\ x # e
  <2>1. CASE daemon.calls \in {<<"PRESS">>, <<"RELEASE">>}
    <3>1. PICK e \in Event : daemon.calls = <<e>>
      BY <2>1 DEF Event
    <3>2. t = <<>>
      BY <1>0, <3>1
    <3>3. \A x \in Event : Holds(daemon.calls, x) <=> x = e
      BY <3>1 DEF Holds
    <3>4. \A x \in Event : ~Holds(t, x)
      BY <3>2 DEF Holds
    <3> QED
      BY <3>1, <3>2, <3>3, <3>4
  <2>2. CASE daemon.calls \in {<<"CLICK", "RELEASE">>, <<"HOLD", "RELEASE">>}
    <3>1. PICK e \in Duration : daemon.calls = <<e, "RELEASE">>
      BY <2>2 DEF Duration
    <3>2. t = <<"RELEASE">>
      BY <1>0, <3>1
    <3>3. e \in Event /\ Slot(e) < Slot("RELEASE") /\ e # "RELEASE"
      BY DEF Event, Duration, Slot
    <3>4. \A x \in Event : Holds(daemon.calls, x) <=> x = e \/ x = "RELEASE"
      BY <3>1 DEF Holds
    <3>5. \A x \in Event : Holds(t, x) <=> x = "RELEASE"
      BY <3>2 DEF Holds
    <3> QED
      BY <3>1, <3>2, <3>3, <3>4, <3>5
  <2> QED
    BY <1>5, <2>1, <2>2
<1>7. Called'
  BY <1>0, <1>4, <1>6 DEF Called
<1>8. /\ ~Queued(b) /\ Serving(b) /\ Serving(b)'
      /\ \A c \in Buttons \ {b} : ~Serving(c) /\ ~Serving(c)'
  BY <1>1, <1>2, <1>4 DEF OneOwner, Serving
<1>9. \A c \in Buttons, x \in Event : InQueue(c, x)' <=> InQueue(c, x)
  BY <1>2 DEF InQueue
<1>10. \A x \in Event : ~InQueue(b, x)
  BY <1>8 DEF InQueue, Holds, Queued
<1>11. \A x \in Event : /\ Due(b, x) <=> Holds(daemon.calls, x)
                        /\ Due(b, x)' <=> Holds(t, x)
  BY <1>0, <1>4, <1>8, <1>9, <1>10 DEF Due, InCalls
<1>12. \A c \in Buttons \ {b}, x \in Event : Due(c, x)' <=> Due(c, x)
  BY <1>8, <1>9 DEF Due, InCalls
<1>13. Ordered' /\ EventOrder!Deliver(b)
  <2>1. last' = [last EXCEPT ![b] = e]
    BY <1>2, <1>6
  <2>2. Due(b, e) /\ (\A x \in Event : Due(b, x)' <=> (Due(b, x) /\ x # e))
    BY <1>6, <1>11
  <2>3. \A x \in Event : Due(b, x) /\ x # e => Slot(e) < Slot(x)
    BY <1>6, <1>11
  <2> QED
    BY <1>1, <1>2, <1>12, <2>1, <2>2, <2>3, DeliverFirst
<1> QED
  BY <1>7, <1>13

(* The other steps neither raise nor deliver.                              *)
LEMMA QuietDue ==
    ASSUME Ordered, Called, UNCHANGED <<state, last, queue, daemon>>
    PROVE  Ordered' /\ Called'
<1>1. ASSUME NEW c \in Buttons, NEW x \in Event PROVE Due(c, x)' <=> Due(c, x)
  BY DEF Due, InQueue, InCalls, Serving
<1> QED
  BY <1>1, SameDue DEF Called

LEMMA DeliveryStep ==
    ASSUME \A b \in Buttons : Callbacks[b] = Event,
           IInv, Ordered, Called, [Next]_vars
    PROVE  Ordered' /\ Called' /\ [EventOrder!Next]_last
<1>1. ASSUME NEW b \in Buttons, Attach(b) \/ PinChange(b) \/ EnterISR(b)
      PROVE  Ordered' /\ Called' /\ UNCHANGED last
  BY <1>1, QuietDue DEF Attach, PinChange, EnterISR
<1>2. ASSUME NEW b \in Buttons, ISR(b)
      PROVE  Ordered' /\ Called' /\ UNCHANGED last
  BY <1>2, ISRDue DEF ISR, Called
<1>3. ASSUME NEW b \in Buttons, DebounceCB(b) \/ PollDebounced(b)
      PROVE  Ordered' /\ Called' /\ UNCHANGED last
  BY <1>3, DebounceDue, PollDebouncedDue DEF DebounceCB, PollDebounced
<1>4. CASE Dispatch
  BY <1>4, DispatchDue DEF EventOrder!Next
<1>5. CASE Invoke
  BY <1>5, InvokeDue DEF EventOrder!Next
<1>6. CASE Rearm
  BY <1>6, RearmDue DEF Rearm
<1>7. CASE Tick \/ UNCHANGED vars
  BY <1>7, QuietDue DEF Tick, vars
<1> QED
  BY <1>1, <1>2, <1>3, <1>4, <1>5, <1>6, <1>7 DEF Next

(* To a client with a callback for every event, every button delivers      *)
(* PRESS, then CLICK or HOLD, then RELEASE and so on: Button implements    *)
(* ButtonEvents, whatever the interrupt and the daemon's queue do          *)
(* (button.h:14-20).                                                       *)
THEOREM EventsInOrder ==
    ASSUME \A b \in Buttons : Callbacks[b] = Event
    PROVE  Spec => Delivers
<1>1. Init => IInv /\ Ordered /\ Called /\ EventOrder!Init
  BY InitInv, DeliveryInit DEF Init, EventOrder!Init
<1>2. IInv /\ Ordered /\ Called /\ [Next]_vars
        => (IInv /\ Ordered /\ Called)' /\ [EventOrder!Next]_last
  BY StepInv, DeliveryStep
<1> QED
  BY <1>1, <1>2, PTL DEF Spec, Delivers, EventOrder!Spec
=============================================================================
