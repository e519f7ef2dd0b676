--------------------------- MODULE PointerProofs ----------------------------
(***************************************************************************)
(* Proofs about Pointer for every build, all delays and timeouts that fit  *)
(* TimeAssumption and any number of faults: the mouse is not used before   *)
(* it has begun, and a sensor that answers in time is never restarted.     *)
(*                                                                         *)
(* The latter needs an account of the sensor's warming up: while it waits  *)
(* for a reading, poll has waited no longer than the sensor has warmed up, *)
(* but for the one delay before a new reading, or a reset, is noticed; and *)
(* a sensor just restarted has warmed up when poll looks at it again.      *)
(***************************************************************************)
EXTENDS Pointer, TLAPS

InInit == imu.pc \in {"reset", "begin", "config", "enable"}
Working == imu.pc \in {"poll", "move", "send"}

ChipType == [up : BOOLEAN, enabled : BOOLEAN, age : 0..Warmup, other : BOOLEAN]

(* The flag follows the mouse, and both tasks follow the flag.             *)
Begun ==
    /\ mouseInitialized => mouse.begun /\ (InInit \/ Working)
    /\ At("flag") => mouse.begun
    /\ Working => mouseInitialized
    /\ touch \in {"press", "release", "report"} => mouseInitialized

(* A sensor that has not failed answers, has its report enabled unless     *)
(* poll is about to learn of its reset, and has warmed up as poll waited.  *)
Healthy ==
    trouble # "failed" =>
        /\ chip.up
        /\ ~(InInit /\ mouseInitialized)
        /\ trouble = "none" /\ (imu.pc \in {"start", "flag"} \/ Working) =>
               chip.enabled /\ chip.age >= Warmup - 1
        /\ trouble = "none" /\ imu.pc \in {"start", "flag"} => chip.age = Warmup
        /\ trouble = "none" /\ At("poll") => since + Warmup <= chip.age + 1
        /\ trouble = "reset" /\ (imu.pc \in {"start", "flag"} \/ Working) =>
               chip.enabled \/ wasReset
        /\ trouble = "reset" /\ At("poll") =>
               since <= (IF chip.enabled THEN chip.age + 1 ELSE 1)
        /\ trouble = "restarted" =>
               At("poll") /\ chip.enabled /\ chip.age = Warmup

(* Restarting the sensor takes its time, from the moment it was decided.   *)
Clock ==
    /\ At("reset") => since = 0
    /\ imu.pc \in {"wire", "begin", "config"} => since <= pulse
    /\ At("enable") => since <= pulse + Pause

IInv == TypeOK /\ Begun /\ Healthy /\ Clock

-----------------------------------------------------------------------------
(* The sensor                                                              *)

(* It warms up by the time that passes, and no further.                    *)
LEMMA PassedForm ==
    ASSUME NEW c \in ChipType, NEW d \in Nat
    PROVE  /\ Passed(c, d) \in ChipType
           /\ Passed(c, d).up = c.up /\ Passed(c, d).enabled = c.enabled
           /\ Passed(c, d).other = c.other
           /\ Passed(c, d).age = IF c.age + d < Warmup THEN c.age + d ELSE Warmup
<1>1. c.age \in 0..Warmup /\ Warmup \in Nat
  BY TimeAssumption DEF ChipType
<1>2. Min({c.age + d, Warmup}) = IF c.age + d < Warmup THEN c.age + d ELSE Warmup
  BY <1>1 DEF Min
<1> QED
  BY <1>1, <1>2 DEF Passed, ChipType

(* Enabling the report again does not make it warm up again.               *)
LEMMA EnabledForm ==
    ASSUME NEW c \in ChipType
    PROVE  /\ Enabled(c) \in ChipType
           /\ Enabled(c).up = c.up /\ Enabled(c).other = c.other
           /\ Enabled(c).enabled
           /\ Enabled(c).age = IF c.enabled THEN c.age ELSE 0
<1>1. PICK a \in 0..Warmup : a = IF c.enabled THEN c.age ELSE 0
  BY TimeAssumption DEF ChipType
<1>2. Enabled(c) = [c EXCEPT !.enabled = TRUE, !.age = a]
  BY <1>1 DEF Enabled
<1>3. TRUE \in BOOLEAN
  OBVIOUS
<1> QED
  BY <1>1, <1>2, <1>3 DEF ChipType

LEMMA ChipForms ==
    ASSUME NEW c \in ChipType, NEW b \in BOOLEAN
    PROVE  /\ [c EXCEPT !.up = b] \in ChipType
           /\ [c EXCEPT !.other = b] \in ChipType
           /\ [c EXCEPT !.age = Warmup - 1] \in ChipType
           /\ Restarted \in ChipType
<1>1. Warmup \in Nat /\ Warmup >= 1
  BY TimeAssumption
<1> QED
  BY <1>1 DEF Restarted, ChipType

-----------------------------------------------------------------------------
(* Every step keeps the types, and the times of a restart.                 *)
LEMMA TypeStep ==
    ASSUME IInv, Next
    PROVE  TypeOK' /\ Clock'
<1>0. TypeOK /\ Clock /\ chip \in ChipType
  BY DEF IInv, TypeOK, ChipType
<1>1. CASE Reset
  BY <1>0, <1>1, TimeAssumption DEF TypeOK, Clock, Reset, Restarted, Fault, touchVars, At
<1>2. CASE Hang
  <2>1. chip' \in ChipType
    BY <1>0, ChipForms, <1>2 DEF Hang
  <2>2. TypeOK' /\ Clock'
    BY <1>0, <1>2, <2>1, TimeAssumption DEF TypeOK, Clock, ChipType, Hang, Fault, touchVars, At
  <2> QED
    BY <2>2
<1>3. CASE Chatter
  <2>1. chip' \in ChipType
    BY <1>0, ChipForms, <1>3 DEF Chatter
  <2>2. TypeOK' /\ Clock'
    BY <1>0, <1>3, <2>1, TimeAssumption DEF TypeOK, Clock, ChipType, Chatter, Fault, touchVars, At
  <2> QED
    BY <2>2
<1>4. CASE Touch
  BY <1>0, <1>4 DEF TypeOK, Clock, Touch, sensorVars, At
<1>5. CASE ISR
  BY <1>0, <1>5 DEF TypeOK, Clock, ISR, sensorVars, At
<1>6. CASE WireBegin
  BY <1>0, <1>6, TimeAssumption DEF TypeOK, Clock, WireBegin, Fault, sensorVars, touchVars, At, Go
<1>7. CASE ResetPin
  BY <1>0, <1>7, TimeAssumption DEF TypeOK, Clock, ResetPin, Restarted, touchVars, At, Go
<1>8. CASE Begin
  <2>1. chip' \in ChipType
    <3>1. chip' \in {Restarted, chip, Passed(chip, Pause)}
      BY <1>8 DEF Begin, InitFails, Wait
    <3> QED
      BY <1>0, <3>1, ChipForms, PassedForm, TimeAssumption
  <2>2. TypeOK' /\ Clock'
    BY <1>0, <1>8, <2>1, TimeAssumption DEF TypeOK, Clock, ChipType, Begin, InitFails, Wait, Fault, touchVars, At, Go
  <2> QED
    BY <2>2
<1>9. CASE Configure
  BY <1>0, <1>9, PassedForm, TimeAssumption DEF TypeOK, Clock, ChipType, Configure, Wait, InitFails, Fault, touchVars, At, Go
<1>10. CASE Enable
  <2>1. Pause \in Nat /\ 2 * Pause \in Nat
    BY TimeAssumption
  <2>2. chip' \in {Passed(Enabled(chip), 2 * Pause), Passed(chip, Pause), chip}
    BY <1>10 DEF Enable, InitFails, Wait
  <2>3. chip' \in ChipType
    BY <1>0, <2>1, <2>2, PassedForm, EnabledForm
  <2> QED
    BY <1>0, <1>10, <2>3, TimeAssumption DEF TypeOK, Clock, ChipType, Enable, Wait, InitFails, Fault, touchVars, At, Go
<1>11. CASE MouseBegin
  <2>1. mouse' \in [begun : BOOLEAN, buttons : BOOLEAN]
    BY <1>0, <1>11 DEF TypeOK, MouseBegin
  <2> QED
    BY <1>0, <1>11, <2>1 DEF TypeOK, Clock, MouseBegin, sensorVars, touchVars, At, Go
<1>12. CASE SetFlag
  BY <1>0, <1>12, TimeAssumption DEF TypeOK, Clock, SetFlag, touchVars, Go
<1>13. CASE OtherEvent
  <2>1. chip' \in ChipType
    BY <1>0, ChipForms, <1>13 DEF OtherEvent
  <2>2. TypeOK' /\ Clock'
    BY <1>0, <1>13, <2>1 DEF TypeOK, Clock, ChipType, OtherEvent, touchVars, At
  <2> QED
    BY <2>2
<1>14. CASE Vector
  BY <1>0, <1>14, TimeAssumption DEF TypeOK, Clock, Vector, touchVars, At, Go
<1>15. CASE Reenable
  <2>1. chip' \in ChipType
    BY <1>0, EnabledForm, <1>15 DEF Reenable
  <2>2. wasReset' \in BOOLEAN
    BY <1>15, Zenon DEF Reenable
  <2>3. faults' \in 0..MaxFaults /\ trouble' \in {"none", "reset", "failed", "restarted"}
    BY <1>0, <1>15, TimeAssumption DEF TypeOK, Reenable, Fault
  <2>4. UNCHANGED <<pulse, imu, since, mouseInitialized, touch, pad, bits, mouse, host>>
    BY <1>15 DEF Reenable, touchVars
  <2> QED
    BY <1>0, <2>1, <2>2, <2>3, <2>4 DEF TypeOK, Clock, ChipType, At
<1>16. CASE Restart
  BY <1>0, <1>16, TimeAssumption DEF TypeOK, Clock, Restart, touchVars, Go
<1>17. CASE PollAgain
  <2>1. since <= Timeout /\ since' = since + 1 /\ chip' = Passed(chip, 1)
    BY <1>17 DEF PollAgain, Wait
  <2>2. UNCHANGED <<pulse, imu, wasReset, mouseInitialized, touch, pad, bits, mouse, host, faults, trouble>>
    BY <1>17 DEF PollAgain, touchVars
  <2>3. chip' \in ChipType
    BY <1>0, <2>1, PassedForm
  <2> QED
    BY <1>0, <1>17, <2>1, <2>2, <2>3, TimeAssumption DEF TypeOK, Clock, ChipType, PollAgain, At
<1>18. CASE Move
  <2>1. imu' = [pc |-> "send", carry |-> mouse.buttons] /\ mouse.buttons \in BOOLEAN
    BY <1>0, <1>18 DEF TypeOK, Move
  <2>2. UNCHANGED <<pulse, chip, wasReset, since, mouseInitialized, touch, pad, bits, mouse, host, faults, trouble>>
    BY <1>18 DEF Move, sensorVars, touchVars
  <2> QED
    BY <1>0, <2>1, <2>2 DEF TypeOK, Clock, At
<1>19. CASE SendMove
  <2>1. host' \in BOOLEAN
    <3>1. imu.carry \in BOOLEAN /\ host \in BOOLEAN
      BY <1>0 DEF TypeOK
    <3>2. host' = imu.carry \/ host' = host
      BY <1>19 DEF SendMove, Report
    <3> QED
      BY <3>1, <3>2, Zenon
  <2>2. faults' \in 0..MaxFaults
    BY <1>0, <1>19, TimeAssumption DEF TypeOK, Report, Fault, SendMove
  <2>3. imu' = [pc |-> "poll", carry |-> FALSE] /\ FALSE \in BOOLEAN
    BY <1>19, Zenon DEF SendMove
  <2>4. since' = 0 /\ UNCHANGED <<pulse, chip, wasReset, mouseInitialized, touch, pad, bits, mouse, trouble>>
    BY <1>19 DEF SendMove, touchVars
  <2> QED
    BY <1>0, <2>1, <2>2, <2>3, <2>4, TimeAssumption DEF TypeOK, Clock
<1>20. CASE TouchInit
  BY <1>0, <1>20 DEF TypeOK, Clock, TouchInit, TouchGo, sensorVars, At
<1>21. CASE TouchRead
  BY <1>0, <1>21 DEF TypeOK, Clock, TouchRead, TouchGo, sensorVars, At
<1>22. CASE TouchElse
  BY <1>0, <1>22 DEF TypeOK, Clock, TouchElse, TouchGo, sensorVars, At
<1>23. CASE TouchButton
  <2>1. mouse' \in [begun : BOOLEAN, buttons : BOOLEAN]
    BY <1>0, <1>23 DEF TypeOK, TouchButton
  <2> QED
    BY <1>0, <1>23, <2>1 DEF TypeOK, Clock, At, TouchButton, TouchGo, sensorVars
<1>24. CASE TouchReport
  <2>1. host' \in BOOLEAN
    BY <1>0, <1>24, Zenon DEF TypeOK, Report, TouchReport
  <2>2. faults' \in 0..MaxFaults
    BY <1>0, <1>24, TimeAssumption DEF TypeOK, Report, Fault, TouchReport
  <2> QED
    BY <1>0, <1>24, <2>1, <2>2 DEF TypeOK, Clock, TouchReport, sensorVars, At
<1> QED
  BY <1>1, <1>2, <1>3, <1>4, <1>5, <1>6, <1>7, <1>8, <1>9, <1>10, <1>11, <1>12, <1>13, <1>14, <1>15, <1>16, <1>17, <1>18, <1>19, <1>20, <1>21, <1>22, <1>23, <1>24 DEF Next, ImuTask, TouchTask

(* Every step keeps the order in which the mouse is begun and used.        *)
LEMMA BegunStep ==
    ASSUME IInv, Next
    PROVE  Begun'
<1>0. TypeOK /\ Begun
  BY DEF IInv
<1>1. CASE Reset
  BY <1>0, <1>1 DEF Begun, InInit, Working, Reset, touchVars, At
<1>2. CASE Hang
  BY <1>0, <1>2 DEF Begun, InInit, Working, Hang, touchVars, At
<1>3. CASE Chatter
  BY <1>0, <1>3 DEF Begun, InInit, Working, Chatter, touchVars, At
<1>4. CASE Touch
  BY <1>0, <1>4 DEF Begun, InInit, Working, Touch, At
<1>5. CASE ISR
  BY <1>0, <1>5 DEF Begun, InInit, Working, ISR, At
<1>6. CASE WireBegin
  BY <1>0, <1>6 DEF TypeOK, Begun, InInit, Working, WireBegin, touchVars, At, Go
<1>7. CASE ResetPin
  BY <1>0, <1>7 DEF Begun, InInit, Working, ResetPin, touchVars, At, Go
<1>8. CASE Begin
  BY <1>0, <1>8 DEF TypeOK, Begun, InInit, Working, Begin, InitFails, touchVars, At, Go
<1>9. CASE Configure
  BY <1>0, <1>9 DEF TypeOK, Begun, InInit, Working, Configure, InitFails, touchVars, At, Go
<1>10. CASE Enable
  BY <1>0, <1>10 DEF TypeOK, Begun, Working, Enable, InitFails, touchVars, At, Go
<1>11. CASE MouseBegin
  BY <1>0, <1>11 DEF Begun, InInit, Working, MouseBegin, touchVars, At, Go
<1>12. CASE SetFlag
  BY <1>0, <1>12 DEF Begun, Working, SetFlag, Go
<1>13. CASE OtherEvent
  BY <1>0, <1>13 DEF Begun, Working, OtherEvent, At
<1>14. CASE Vector
  BY <1>0, <1>14 DEF Begun, Working, Vector, At, Go
<1>15. CASE Reenable
  BY <1>0, <1>15 DEF Begun, Working, Reenable, At
<1>16. CASE Restart
  BY <1>0, <1>16 DEF Begun, InInit, Working, Restart, At, Go
<1>17. CASE PollAgain
  BY <1>0, <1>17 DEF Begun, Working, PollAgain, At
<1>18. CASE Move
  BY <1>0, <1>18 DEF Begun, Working, Move, At
<1>19. CASE SendMove
  BY <1>0, <1>19 DEF Begun, Working, SendMove, At
<1>20. CASE TouchInit
  BY <1>0, <1>20 DEF Begun, InInit, Working, TouchInit, TouchGo, At
<1>21. CASE TouchRead
  BY <1>0, <1>21 DEF Begun, InInit, Working, TouchRead, TouchGo, At
<1>22. CASE TouchElse
  BY <1>0, <1>22 DEF Begun, InInit, Working, TouchElse, TouchGo, At
<1>23. CASE TouchButton
  BY <1>0, <1>23 DEF Begun, InInit, Working, TouchButton, TouchGo
<1>24. CASE TouchReport
  BY <1>0, <1>24 DEF Begun, InInit, Working, TouchReport
<1> QED
  BY <1>1, <1>2, <1>3, <1>4, <1>5, <1>6, <1>7, <1>8, <1>9, <1>10, <1>11, <1>12, <1>13, <1>14, <1>15, <1>16, <1>17, <1>18, <1>19, <1>20, <1>21, <1>22, <1>23, <1>24 DEF Next, ImuTask, TouchTask

(* Every step keeps account of the sensor's warming up.                    *)
LEMMA HealthyStep ==
    ASSUME IInv, Next
    PROVE  Healthy'
<1>0. TypeOK /\ Begun /\ Healthy /\ chip \in ChipType
  BY DEF IInv, TypeOK, ChipType
<1>1. CASE Reset
  BY <1>0, <1>1, TimeAssumption DEF TypeOK, Healthy, InInit, Reset, Restarted, At
<1>2. CASE Hang
  BY <1>2 DEF Healthy, Hang
<1>3. CASE Chatter
  BY <1>0, <1>3 DEF Healthy, InInit, Working, Chatter, At
<1>4. CASE Touch
  BY <1>0, <1>4 DEF Healthy, InInit, Working, Touch, sensorVars, At
<1>5. CASE ISR
  BY <1>0, <1>5 DEF Healthy, InInit, Working, ISR, sensorVars, At
<1>6. CASE WireBegin
  BY <1>0, <1>6 DEF TypeOK, Begun, Healthy, Working, WireBegin, sensorVars, At, Go
<1>7. CASE ResetPin
  BY <1>0, <1>7 DEF Begun, Healthy, Working, ResetPin, Restarted, At, Go
<1>8. CASE Begin
  BY <1>0, <1>8 DEF TypeOK, Begun, Healthy, Working, ChipType, Begin, Restarted, At, Go
<1>9. CASE Configure
  BY <1>0, <1>9, PassedForm, TimeAssumption DEF TypeOK, Begun, Healthy, Working, ChipType, Configure, Wait, At, Go
<1>10. CASE Enable
  BY <1>0, <1>10, PassedForm, EnabledForm, TimeAssumption DEF TypeOK, Healthy, InInit, ChipType, Enable, At, Go
<1>11. CASE MouseBegin
  BY <1>0, <1>11 DEF Healthy, InInit, MouseBegin, sensorVars, At, Go
<1>12. CASE SetFlag
  BY <1>0, <1>12 DEF Healthy, InInit, ChipType, SetFlag, At, Go
<1>13. CASE OtherEvent
  <2>1. /\ chip'.up = chip.up /\ chip'.enabled = chip.enabled /\ chip'.age = chip.age
        /\ UNCHANGED <<wasReset, imu, since, mouseInitialized, trouble>>
    BY <1>0, <1>13 DEF OtherEvent, ChipType
  <2> QED
    BY <1>0, <2>1 DEF Healthy, InInit, Working, At
<1>14. CASE Vector
  BY <1>14, TimeAssumption DEF Healthy, InInit, Vector, HasVector, At, Go
<1>15. CASE Reenable
  <2>1. At("poll") /\ UNCHANGED <<imu, since, mouseInitialized>>
    BY <1>15 DEF Reenable
  <2>2. CASE trouble' = "failed"
    BY <2>2 DEF Healthy
  <2>3. CASE trouble' = trouble /\ trouble # "failed"
    <3>1. chip' = Enabled(chip) /\ chip.up /\ ~HasVector
      BY <1>0, <1>15, <2>3 DEF Reenable, Healthy, HasEvent
    <3>2. /\ chip'.up /\ chip'.enabled
          /\ chip'.age = IF chip.enabled THEN chip.age ELSE 0
      BY <1>0, <3>1, EnabledForm
    <3> QED
      BY <1>0, <2>1, <2>3, <3>1, <3>2 DEF Healthy, InInit, Working, HasVector, At
  <2> QED
    BY <1>0, <1>15, <2>2, <2>3 DEF Reenable
<1>16. CASE Restart
  <2>1. At("poll") /\ ~wasReset /\ since > Timeout
        /\ ~(chip.up /\ chip.enabled /\ chip.age = Warmup)
    BY <1>16 DEF Restart, HasEvent, HasVector
  <2>2. /\ chip.age \in 0..Warmup /\ since \in Nat /\ Warmup \in Nat
        /\ Timeout \in Nat /\ Warmup < Timeout
        /\ trouble \in {"none", "reset", "failed", "restarted"}
    BY <1>0, TimeAssumption DEF TypeOK
  <2>3. trouble = "failed"
    BY <1>0, <2>1, <2>2 DEF Healthy
  <2> QED
    BY <1>16, <2>3 DEF Healthy, Restart
<1>17. CASE PollAgain
  <2>1. At("poll") /\ since' = since + 1 /\ chip' = Passed(chip, 1)
    BY <1>17 DEF PollAgain, Wait
  <2>2. UNCHANGED <<imu, wasReset, mouseInitialized, trouble>>
    BY <1>17 DEF PollAgain
  <2>3. /\ chip'.up = chip.up /\ chip'.enabled = chip.enabled
        /\ chip'.age = IF chip.age + 1 < Warmup THEN chip.age + 1 ELSE Warmup
    BY <1>0, <2>1, PassedForm
  <2>4. ~wasReset /\ ~(chip.up /\ chip.enabled /\ chip.age = Warmup)
    BY <1>17 DEF PollAgain, HasEvent, HasVector
  <2>5. chip.age \in 0..Warmup /\ since \in Nat /\ Warmup \in Nat
    BY <1>0, TimeAssumption DEF TypeOK
  <2> QED
    BY <1>0, <2>1, <2>2, <2>3, <2>4, <2>5 DEF Healthy, InInit, Working, At
<1>18. CASE Move
  <2>1. At("move") /\ imu'.pc = "send" /\ UNCHANGED <<chip, wasReset, mouseInitialized, trouble>>
    BY <1>18 DEF Move, sensorVars
  <2> QED
    BY <1>0, <2>1 DEF Healthy, InInit, Working, At
<1>19. CASE SendMove
  <2>1. At("send") /\ imu'.pc = "poll" /\ since' = 0 /\ UNCHANGED <<chip, wasReset, mouseInitialized, trouble>>
    BY <1>19 DEF SendMove
  <2>2. chip.age \in 0..Warmup /\ Warmup \in Nat
    BY <1>0, TimeAssumption DEF ChipType
  <2> QED
    BY <1>0, <2>1, <2>2 DEF Healthy, InInit, Working, At
<1>20. CASE TouchInit
  BY <1>0, <1>20 DEF Healthy, InInit, Working, TouchInit, TouchGo, sensorVars, At
<1>21. CASE TouchRead
  BY <1>0, <1>21 DEF Healthy, InInit, Working, TouchRead, TouchGo, sensorVars, At
<1>22. CASE TouchElse
  BY <1>0, <1>22 DEF Healthy, InInit, Working, TouchElse, TouchGo, sensorVars, At
<1>23. CASE TouchButton
  BY <1>0, <1>23 DEF Begun, Healthy, InInit, TouchButton, TouchGo, sensorVars, At
<1>24. CASE TouchReport
  BY <1>0, <1>24 DEF Begun, Healthy, InInit, TouchReport, sensorVars, At
<1> QED
  BY <1>1, <1>2, <1>3, <1>4, <1>5, <1>6, <1>7, <1>8, <1>9, <1>10, <1>11, <1>12, <1>13, <1>14, <1>15, <1>16, <1>17, <1>18, <1>19, <1>20, <1>21, <1>22, <1>23, <1>24 DEF Next, ImuTask, TouchTask

LEMMA InitInv == Init => IInv
<1> SUFFICES ASSUME Init PROVE IInv
  OBVIOUS
<1>1. chip \in ChipType
  BY TimeAssumption DEF Init, Restarted, ChipType
<1>2. TypeOK
  <2>1. /\ imu.carry \in BOOLEAN /\ wasReset \in BOOLEAN /\ mouseInitialized \in BOOLEAN
        /\ bits \in BOOLEAN /\ host \in BOOLEAN /\ pad \in BOOLEAN
    BY DEF Init
  <2>2. mouse \in [begun : BOOLEAN, buttons : BOOLEAN]
    BY DEF Init
  <2> QED
    BY <1>1, <2>1, <2>2, TimeAssumption DEF Init, TypeOK, ChipType
<1>3. Begun /\ Clock
  BY DEF Init, Begun, Clock, Working, At
<1>4. Healthy
  BY DEF Init, Healthy, Working, At, Restarted
<1> QED
  BY <1>2, <1>3, <1>4 DEF IInv

LEMMA StepInv == IInv /\ [Next]_vars => IInv'
<1> SUFFICES ASSUME IInv, [Next]_vars PROVE IInv'
  OBVIOUS
<1>1. CASE Next
  BY <1>1, TypeStep, BegunStep, HealthyStep DEF IInv
<1>2. CASE UNCHANGED vars
  BY <1>2 DEF vars, IInv, TypeOK, Begun, Healthy, Clock, InInit, Working, At
<1> QED
  BY <1>1, <1>2

(* The strengthened invariant holds in every reachable state.              *)
THEOREM InductiveInvariant == Spec => []IInv
<1> QED
  BY InitInv, StepInv, PTL DEF Spec

-----------------------------------------------------------------------------
(* The results                                                             *)

(* Pointer: every variable keeps its type, and poll never waits longer     *)
(* than the timeout or a restart (sensor.cpp:69-83).                       *)
THEOREM TypeCorrect == Spec => []TypeOK
<1>1. IInv => TypeOK
  BY DEF IInv
<1> QED
  BY <1>1, InductiveInvariant, PTL

(* Neither task uses the mouse before it has begun, however late or early  *)
(* the touch task looks at the flag (main.cpp:96-97, 120-125).             *)
THEOREM MouseHasBegun == Spec => []UsesBegunMouse
<1>1. IInv => UsesBegunMouse
  BY DEF IInv, Begun, UsesBegunMouse, Working, At
<1> QED
  BY <1>1, InductiveInvariant, PTL

(* poll only restarts a sensor that has failed, been refused a call or     *)
(* suffered twice since its last reading (sensor.cpp:69-83), and once a    *)
(* restart has gone well never again before a reading, although its delays *)
(* may exceed the timeout: for every sensor that delivers its first        *)
(* reading within the timeout and the last two delays of a restart.        *)
THEOREM OnlyCrashesRestart == Spec => CrashIsReal
<1>1. ASSUME IInv, Restart
      PROVE  trouble = "failed"
  <2>1. At("poll") /\ ~wasReset /\ since > Timeout
        /\ ~(chip.up /\ chip.enabled /\ chip.age = Warmup)
    BY <1>1 DEF Restart, HasEvent, HasVector
  <2>2. /\ chip.age \in 0..Warmup /\ since \in Nat /\ Warmup \in Nat
        /\ Timeout \in Nat /\ Warmup < Timeout
        /\ trouble \in {"none", "reset", "failed", "restarted"}
    BY <1>1, TimeAssumption DEF IInv, TypeOK
  <2> QED
    BY <1>1, <2>1, <2>2 DEF IInv, Healthy
<1>2. IInv /\ [Next]_vars => [Restart => trouble = "failed"]_vars
  BY <1>1
<1> QED
  BY <1>2, InductiveInvariant, PTL DEF Spec, CrashIsReal
=============================================================================
