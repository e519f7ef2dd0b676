------------------------------- MODULE Pointer -------------------------------
(***************************************************************************)
(* From the motion sensor and the touch pads to the host: BNO086::init and *)
(* BNO086::poll (src/src/sensor.cpp), the IMU and touch tasks              *)
(* (src/src/main.cpp:87-128) and the touch interrupt                       *)
(* (src/include/touch.h).  The sensor may reset, hang or fail to answer,   *)
(* and poll() restarts it; both tasks report through the same BLE mouse.   *)
(* The sensor, its driver and the BLE mouse are libraries that are not in  *)
(* the repository.  Time is counted in units of poll's short delay.        *)
(***************************************************************************)
EXTENDS Naturals, FiniteSetsExt

CONSTANTS
    Pulses,    \* how long init holds the reset pin, in the builds there are:
               \* 300 ms on the Basic edition, 0 on the Pro
    Pause,     \* the 100 ms delays of init, poll and the IMU task
    Timeout,   \* 500 ms
    Warmup,    \* from enableReport to the first rotation vector
    MaxFaults  \* bound on the faults of the sensor and the radio

(* After enabling the report init and its caller wait two pauses for it.   *)
ASSUME TimeAssumption ==
    /\ Pulses \subseteq Nat /\ Pulses # {} /\ Pause \in Nat /\ MaxFaults \in Nat
    /\ Timeout \in Nat /\ Warmup \in 1..Timeout - 1 /\ Warmup <= 2 * Pause

VARIABLES
    pulse,   \* the build
    chip,    \* the sensor: does it answer, is its report enabled and since
             \* when (at most Warmup), and has it something else to say
    wasReset, \* imu.wasReset()
    imu,     \* the IMU task's program counter, and mouse.move's report
    since,   \* now - lastReportTime, while the IMU task waits
    mouseInitialized,
    touch,   \* the touch task's program counter
    pad,     \* is the pad touched
    bits,    \* TouchPads::status[TOUCH_PAD_NUM1]
    mouse,   \* the BLE mouse: has it begun, and its buttons
    host,    \* the button as the host saw it last
    faults,  \* faults so far
    trouble  \* ghost: what befell the sensor since its last reading: "none",
             \* "reset", "failed", or "restarted", failed but made to answer
             \* again by init; any second blow counts as a failure

sensorVars == <<pulse, chip, wasReset, since>>
touchVars == <<touch, pad, bits>>
vars == <<pulse, chip, wasReset, imu, since, mouseInitialized, touch, pad, bits,
          mouse, host, faults, trouble>>

(* The sensor after any kind of reset.                                     *)
Restarted == [up |-> TRUE, enabled |-> FALSE, age |-> 0, other |-> FALSE]

Init ==
    /\ pulse \in Pulses
    /\ chip = Restarted /\ wasReset = FALSE
    /\ imu = [pc |-> "reset", carry |-> FALSE] /\ since = 0
    /\ mouseInitialized = FALSE
    /\ touch = "init" /\ pad \in BOOLEAN /\ bits = FALSE
    /\ mouse = [begun |-> FALSE, buttons |-> FALSE] /\ host = FALSE
    /\ faults = 0 /\ trouble = "none"

At(pc) == imu.pc = pc
Go(pc) == imu' = [imu EXCEPT !.pc = pc]

(* The passing of time while the IMU task waits: the sensor warms up.      *)
Passed(c, d) == [c EXCEPT !.age = Min({@ + d, Warmup})]
Wait(d) ==
    /\ since' = since + d
    /\ chip' = Passed(chip, d)

(* A call that fails although the sensor may be well is a fault.           *)
Fault == faults < MaxFaults /\ faults' = faults + 1

-----------------------------------------------------------------------------
(* The sensor, at any moment                                               *)

Reset ==
    /\ Fault
    /\ chip' = Restarted
    /\ wasReset' = TRUE
    /\ trouble' = IF trouble = "none" THEN "reset" ELSE "failed"
    /\ UNCHANGED <<pulse, imu, since, mouseInitialized, touchVars, mouse, host>>

Hang ==
    /\ Fault
    /\ chip' = [chip EXCEPT !.up = FALSE]
    /\ trouble' = "failed"
    /\ UNCHANGED <<pulse, wasReset, imu, since, mouseInitialized, touchVars, mouse, host>>

(* An event of another kind than the rotation vector.                      *)
Chatter ==
    /\ Fault
    /\ chip' = [chip EXCEPT !.other = TRUE]
    /\ UNCHANGED <<pulse, wasReset, imu, since, mouseInitialized, touchVars, mouse, host, trouble>>

-----------------------------------------------------------------------------
(* BNO086::init, first for the IMU task and then for poll                  *)

(* What the caller does with the result: the IMU task gives up, poll does  *)
(* not look at it.                                                         *)
InitFails == IF mouseInitialized THEN Wait(Pause) /\ Go("poll")
             ELSE Go("dead") /\ UNCHANGED <<since, chip>>

(* The reset pin of the Basic edition restarts any sensor.  Then Wire.begin *)
(* is next, but poll has it begun already.                                 *)
ResetPin ==
    /\ At("reset")
    /\ since' = since + pulse
    /\ chip' = IF pulse = 0 THEN chip ELSE Restarted
    /\ Go(IF mouseInitialized THEN "begin" ELSE "wire")
    /\ UNCHANGED <<pulse, wasReset, mouseInitialized, touchVars, mouse, host, faults, trouble>>

WireBegin ==
    /\ At("wire")
    /\ \/ Go("begin") /\ UNCHANGED faults
       \/ Go("dead") /\ Fault
    /\ UNCHANGED <<sensorVars, mouseInitialized, touchVars, mouse, host, trouble>>

(* imu.begin resets the sensor, whatever state it is in, or fails.         *)
Begin ==
    /\ At("begin")
    /\ \/ /\ chip' = Restarted
          /\ wasReset' \in BOOLEAN
          /\ Go("config")
          /\ UNCHANGED <<since, faults, trouble>>
       \/ Fault /\ InitFails /\ trouble' = "failed" /\ UNCHANGED wasReset
    /\ UNCHANGED <<pulse, mouseInitialized, touchVars, mouse, host>>

(* imu.setCalibrationConfig                                                *)
Configure ==
    /\ At("config")
    /\ \/ chip.up /\ Wait(Pause) /\ Go("enable") /\ UNCHANGED <<faults, trouble>>
       \/ ~chip.up /\ InitFails /\ UNCHANGED <<faults, trouble>>
       \/ Fault /\ InitFails /\ trouble' = "failed"
    /\ UNCHANGED <<pulse, wasReset, mouseInitialized, touchVars, mouse, host>>

Enabled(c) == [c EXCEPT !.enabled = TRUE, !.age = IF c.enabled THEN @ ELSE 0]

BadEnable ==
    /\ At("enable")
    /\ \/ /\ chip.up
          /\ since' = since + Pause
          /\ chip' = Passed(Enabled(chip), Pause)
          /\ Go(IF mouseInitialized THEN "poll" ELSE "start")
          /\ trouble' = IF mouseInitialized THEN "restarted" ELSE "none"
          /\ UNCHANGED faults
       \/ ~chip.up /\ InitFails /\ UNCHANGED <<faults, trouble>>
       \/ Fault /\ InitFails /\ trouble' = "failed"
    /\ UNCHANGED <<pulse, wasReset, mouseInitialized, touchVars, mouse, host>>

(* imu.enableReport; then init, and whoever called it, wait.  The sensor    *)
(* is well again, whatever happened to it before.                          *)
Enable ==
    /\ At("enable")
    /\ \/ /\ chip.up
          /\ since' = since + 2 * Pause
          /\ chip' = Passed(Enabled(chip), 2 * Pause)
          /\ Go(IF mouseInitialized THEN "poll" ELSE "start")
          /\ trouble' = IF mouseInitialized THEN "restarted" ELSE "none"
          /\ UNCHANGED faults
       \/ ~chip.up /\ InitFails /\ UNCHANGED <<faults, trouble>>
       \/ Fault /\ InitFails /\ trouble' = "failed"
    /\ UNCHANGED <<pulse, wasReset, mouseInitialized, touchVars, mouse, host>>

-----------------------------------------------------------------------------
(* The IMU task                                                            *)

BadMouseBegin ==
    /\ At("start")
    /\ mouseInitialized' = TRUE
    /\ Go("flag")
    /\ UNCHANGED <<sensorVars, touchVars, mouse, host, faults, trouble>>

MouseBegin ==
    /\ At("start")
    /\ mouse' = [mouse EXCEPT !.begun = TRUE]
    /\ Go("flag")
    /\ UNCHANGED <<sensorVars, mouseInitialized, touchVars, host, faults, trouble>>

SetFlag ==
    /\ At("flag")
    /\ mouseInitialized' = TRUE
    /\ since' = 0
    /\ Go("poll")
    /\ UNCHANGED <<pulse, chip, wasReset, touchVars, mouse, host, faults, trouble>>

(* BNO086::poll: imu.getSensorEvent.                                       *)
HasVector == chip.up /\ chip.enabled /\ chip.age = Warmup
HasEvent == HasVector \/ (chip.up /\ chip.other)

OtherEvent ==
    /\ At("poll") /\ chip.up /\ chip.other
    /\ chip' = [chip EXCEPT !.other = FALSE]
    /\ UNCHANGED <<pulse, wasReset, imu, since, mouseInitialized, touchVars, mouse, host, faults, trouble>>

(* The next vector takes a moment.                                         *)
Vector ==
    /\ At("poll") /\ HasVector
    /\ chip' = [chip EXCEPT !.age = Warmup - 1]
    /\ trouble' = "none"
    /\ Go("move")
    /\ UNCHANGED <<pulse, wasReset, since, mouseInitialized, touchVars, mouse, host, faults>>

(* No event, but a reset: the result of enableReport is ignored.           *)
Reenable ==
    /\ At("poll") /\ ~HasEvent /\ wasReset
    /\ wasReset' = FALSE
    /\ \/ chip' = (IF chip.up THEN Enabled(chip) ELSE chip) /\ UNCHANGED <<faults, trouble>>
       \/ Fault /\ trouble' = "failed" /\ UNCHANGED chip
    /\ UNCHANGED <<pulse, imu, since, mouseInitialized, touchVars, mouse, host>>

BadRestart ==
    /\ At("poll") /\ ~HasEvent /\ ~wasReset
    /\ since > Timeout
    /\ since' = 0
    /\ UNCHANGED <<pulse, chip, wasReset, imu, mouseInitialized, touchVars, mouse, host, faults, trouble>>

(* No event for too long: the sensor is taken for crashed.                 *)
Restart ==
    /\ At("poll") /\ ~HasEvent /\ ~wasReset
    /\ since > Timeout
    /\ since' = 0
    /\ Go("reset")
    /\ UNCHANGED <<pulse, chip, wasReset, mouseInitialized, touchVars, mouse, host, faults, trouble>>

BadPollAgain ==
    /\ At("poll") /\ ~HasEvent /\ ~wasReset
    /\ Wait(1)
    /\ UNCHANGED <<pulse, wasReset, imu, mouseInitialized, touchVars, mouse, host, faults, trouble>>

PollAgain ==
    /\ At("poll") /\ ~HasEvent /\ ~wasReset
    /\ since <= Timeout
    /\ Wait(1)
    /\ UNCHANGED <<pulse, wasReset, imu, mouseInitialized, touchVars, mouse, host, faults, trouble>>

(* mouse.move reports the buttons as it finds them ...                     *)
Move ==
    /\ At("move")
    /\ imu' = [pc |-> "send", carry |-> mouse.buttons]
    /\ UNCHANGED <<sensorVars, mouseInitialized, touchVars, mouse, host, faults, trouble>>

(* A report reaches the host, or is lost.                                  *)
Report(button) ==
    \/ host' = button /\ UNCHANGED faults
    \/ Fault /\ UNCHANGED host

(* ... and poll starts anew with lastReportTime = now.                     *)
SendMove ==
    /\ At("send")
    /\ Report(imu.carry)
    /\ since' = 0
    /\ imu' = [pc |-> "poll", carry |-> FALSE]
    /\ UNCHANGED <<pulse, chip, wasReset, mouseInitialized, touchVars, mouse, trouble>>

ImuTask ==
    \/ WireBegin \/ ResetPin \/ Begin \/ Configure \/ Enable \/ MouseBegin \/ SetFlag
    \/ OtherEvent \/ Vector \/ Reenable \/ Restart \/ PollAgain \/ Move \/ SendMove

-----------------------------------------------------------------------------
(* The touch pads                                                          *)

Touch ==
    /\ pad' = ~pad
    /\ UNCHANGED <<sensorVars, imu, mouseInitialized, touch, bits, mouse, host, faults, trouble>>

(* TouchPads::ISR, once init has registered it.                            *)
ISR ==
    /\ touch # "init" /\ bits # pad
    /\ bits' = pad
    /\ UNCHANGED <<sensorVars, imu, mouseInitialized, touch, pad, mouse, host, faults, trouble>>

TouchGo(pc) ==
    /\ touch' = pc
    /\ UNCHANGED <<sensorVars, imu, mouseInitialized, pad, bits, faults, trouble>>

TouchInit == touch = "init" /\ TouchGo("read") /\ UNCHANGED <<mouse, host>>

(* if (mouseInitialized && status[TOUCH_PAD_NUM1])                         *)
TouchRead ==
    /\ touch = "read"
    /\ TouchGo(IF mouseInitialized /\ bits THEN "press" ELSE "else")
    /\ UNCHANGED <<mouse, host>>

BadTouchElse == touch = "else" /\ TouchGo("read") /\ UNCHANGED <<mouse, host>>

(* else if (mouseInitialized), which may have become true just now.        *)
TouchElse ==
    /\ touch = "else"
    /\ TouchGo(IF mouseInitialized THEN "release" ELSE "read")
    /\ UNCHANGED <<mouse, host>>

(* mouse.press or mouse.release: a change is reported at once.             *)
TouchButton ==
    /\ touch \in {"press", "release"}
    /\ LET button == touch = "press"
       IN  /\ mouse' = [mouse EXCEPT !.buttons = button]
           /\ TouchGo(IF mouse.buttons # button THEN "report" ELSE "read")
    /\ UNCHANGED host

TouchReport ==
    /\ touch = "report"
    /\ touch' = "read"
    /\ Report(mouse.buttons)
    /\ UNCHANGED <<sensorVars, imu, mouseInitialized, pad, bits, mouse, trouble>>

TouchTask == TouchInit \/ TouchRead \/ TouchElse \/ TouchButton \/ TouchReport

Next == Reset \/ Hang \/ Chatter \/ Touch \/ ISR \/ ImuTask \/ TouchTask

Spec == Init /\ [][Next]_vars

(* The tasks run and the interrupt is served; nothing has to fail, and     *)
(* nobody has to touch anything.                                           *)
FairSpec == Spec /\ WF_vars(ImuTask) /\ WF_vars(TouchTask) /\ WF_vars(ISR)

-----------------------------------------------------------------------------
(* Every variable holds values of its type; nobody waits for a reading     *)
(* longer than the timeout, or than a restart takes.                       *)
TypeOK ==
    /\ pulse \in Pulses
    /\ chip \in [up : BOOLEAN, enabled : BOOLEAN, age : 0..Warmup, other : BOOLEAN]
    /\ imu \in [pc : {"reset", "wire", "begin", "config", "enable", "dead", "start", "flag",
                      "poll", "move", "send"}, carry : BOOLEAN]
    /\ since \in Nat
    /\ since <= Timeout + 1 \/ since <= pulse + 3 * Pause
    /\ touch \in {"init", "read", "else", "press", "release", "report"}
    /\ mouse \in [begun : BOOLEAN, buttons : BOOLEAN]
    /\ wasReset \in BOOLEAN /\ mouseInitialized \in BOOLEAN
    /\ pad \in BOOLEAN /\ bits \in BOOLEAN /\ host \in BOOLEAN
    /\ faults \in 0..MaxFaults /\ trouble \in {"none", "reset", "failed", "restarted"}

(* A sensor is only taken for crashed when it failed, or suffered twice,   *)
(* since its last reading (sensor.cpp:69-83).  Above all, one restart is   *)
(* enough: the delays of a restart do count towards the next timeout, as   *)
(* lastReportTime is set before them (77), and on the Basic edition they   *)
(* exceed it; yet a sensor that answered every call of init is not         *)
(* restarted again before its first reading.                               *)
CrashIsReal == [][Restart => trouble = "failed"]_vars

(* Neither task uses the mouse before it has begun, although the touch     *)
(* task reads the flag twice and without its lock (main.cpp:96-97,         *)
(* 120-125).                                                               *)
UsesBegunMouse == (touch \in {"press", "release", "report"} \/ At("move")) => mouse.begun

(* Once the pointer has started, it keeps moving: whatever the sensor      *)
(* does, a reading comes in the end, when there is an end to its faults    *)
(* (sensor.cpp:71-83).                                                     *)
Resumes == mouseInitialized ~> At("move")

(* A touch, or a release, that lasts is what the host sees for ever after  *)
(* (main.cpp:99-103, 120-125), although a report of motion may have        *)
(* carried the old buttons past the new ones, or a report was lost: the    *)
(* touch task does not repeat itself, but the pointer moves on.            *)
FollowsTouch ==
    \A touched \in BOOLEAN :
        <>[](mouseInitialized /\ pad = touched) => <>[](host = touched)
=============================================================================
