----------------------- MODULE KhiHardwareRobot_proofs -----------------------
(***************************************************************************)
(* Proofs about what KhiHardware leaves the robot in, for every number of  *)
(* arms: what a success of configuration and deactivation means, what      *)
(* activation has started, what teardowns do before they close, and who    *)
(* owns a live session.  Each rests on IInv (KhiHardware_proofs) and on an *)
(* invariant of its own that says how far a callback has come.             *)
(***************************************************************************)
EXTENDS KhiHardware_proofs

-----------------------------------------------------------------------------
(* What the scripts do to robot and session, and where.                    *)

RobotFacts(n, i) ==
    LET do == Script[n][i].do
    IN  /\ do = "open" <=> n = "configure" /\ i = 2
        /\ do = "close" <=> \/ n \in {"cleanup", "destroy"} /\ i = 4
                            \/ n = "shutdown" /\ i = 8
                            \/ n = "error" /\ i = 7
        /\ do = "execute" <=> n = "activate" /\ i = 11
        /\ do \in {"requirements", "power_on"} => n = "activate"
        /\ n = "activate" => do # "kill"
        /\ n = "configure" => /\ do = "power_off" <=> i = 10
                              /\ do = "kill" <=> i = 11
        /\ n = "deactivate" => /\ do = "kill" <=> i = 2
                               /\ do = "power_off" <=> i = 3

\* How calls fail, and which routines are KRNX calls.
CallFacts(n, i) ==
    LET do == Script[n][i].do
        fail == Script[n][i].fail
    IN  /\ n = "configure" /\ i \in {9, 10, 11} => do \in KrnxCalls /\ fail = "ERROR"
        /\ n = "configure" /\ fail = "FAILURE" => do = "language"
        /\ n = "configure" /\ do \in NoLink => i = 1 \/ i = 4
        /\ n = "deactivate" => do \in KrnxCalls /\ fail = "FAILURE"
        /\ n = "activate" /\ i \in {10, 11} => do \in KrnxCalls /\ fail = "FAILURE"
        /\ n = "cleanup" /\ do \in KrnxCalls => do = "close" /\ fail = "FAILURE"
        /\ n = "shutdown" /\ i = 7 => do = "power_off"
        /\ n = "error" /\ i = 6 => do = "power_off"
        /\ n = "destroy" /\ i = 3 => do = "power_off"

\* The scripts, read step by step.
LEMMA RobotScripts ==
    ASSUME NEW n \in Callbacks, NEW i \in 1..Len(Script[n])
    PROVE  RobotFacts(n, i) /\ CallFacts(n, i)
<1>1. CASE n = "init"
  <2>1. RobotFacts(n, i)
    BY <1>1, ScriptOf, Lengths DEF RobotFacts, InitScript, S
  <2>2. CallFacts(n, i)
    BY <1>1 DEF CallFacts
  <2> QED BY <2>1, <2>2
<1>2. CASE n = "configure"
  <2>1. RobotFacts(n, i)
    BY <1>2, ScriptOf, Lengths DEF RobotFacts, ConfigureScript, S
  <2>2. CallFacts(n, i)
    BY <1>2, ScriptOf, Lengths DEF CallFacts, ConfigureScript, S, KrnxCalls, PerArm, Once, NoLink
  <2> QED BY <2>1, <2>2
<1>3. CASE n = "activate"
  <2>1. RobotFacts(n, i)
    BY <1>3, ScriptOf, Lengths DEF RobotFacts, ActivateScript, S
  <2>2. CallFacts(n, i)
    BY <1>3, ScriptOf, Lengths DEF CallFacts, ActivateScript, S, KrnxCalls, PerArm, Once, NoLink
  <2> QED BY <2>1, <2>2
<1>4. CASE n = "deactivate"
  <2>1. RobotFacts(n, i)
    BY <1>4, ScriptOf, Lengths DEF RobotFacts, DeactivateScript, S
  <2>2. CallFacts(n, i)
    BY <1>4, ScriptOf, Lengths DEF CallFacts, DeactivateScript, S, KrnxCalls, PerArm, Once, NoLink
  <2> QED BY <2>1, <2>2
<1>5. CASE n = "cleanup"
  <2>1. RobotFacts(n, i)
    BY <1>5, ScriptOf, Lengths DEF RobotFacts, CleanupScript, S
  <2>2. CallFacts(n, i)
    BY <1>5, ScriptOf, Lengths DEF CallFacts, CleanupScript, S, KrnxCalls, PerArm, Once, NoLink
  <2> QED BY <2>1, <2>2
<1>6. CASE n = "shutdown"
  <2>1. RobotFacts(n, i)
    BY <1>6, ScriptOf, Lengths DEF RobotFacts, ShutdownScript, S
  <2>2. CallFacts(n, i)
    BY <1>6, ScriptOf, Lengths DEF CallFacts, ShutdownScript, S
  <2> QED BY <2>1, <2>2
<1>7. CASE n = "error"
  <2>1. RobotFacts(n, i)
    BY <1>7, ScriptOf, Lengths DEF RobotFacts, ErrorScript, S
  <2>2. CallFacts(n, i)
    BY <1>7, ScriptOf, Lengths DEF CallFacts, ErrorScript, S
  <2> QED BY <2>1, <2>2
<1>8. CASE n = "destroy"
  <2>1. RobotFacts(n, i)
    BY <1>8, ScriptOf, Lengths DEF RobotFacts, DestructorScript, S
  <2>2. CallFacts(n, i)
    BY <1>8, ScriptOf, Lengths DEF CallFacts, DestructorScript, S
  <2> QED BY <2>1, <2>2
<1> QED BY <1>1, <1>2, <1>3, <1>4, <1>5, <1>6, <1>7, <1>8 DEF Callbacks

-----------------------------------------------------------------------------
(* The steps of the system, sorted by what they do to callback and robot.  *)

\* The callback goes on to its step i, or has run its last one.
At(i) == \/ /\ i <= Len(Script[cb.name])
            /\ cb'.result = "none" /\ cb'.step = i /\ cb'.arm = 1 /\ ~cb'.wait
         \/ i > Len(Script[cb.name]) /\ cb'.result = "SUCCESS"

\* The call for the next arm of the same routine.
NextArm == /\ Current.do \in PerArm /\ cb.arm < NArms
           /\ cb'.result = "none" /\ cb'.step = cb.step /\ cb'.arm = cb.arm + 1 /\ ~cb'.wait

\* The call of the last arm, or of a routine that makes one call only.
LastCall == /\ Current.do \in PerArm => cb.arm = NArms
            /\ At(cb.step + 1)

\* The routine has failed.
GivesUp == \/ Current.fail = "ignore" /\ At(cb.step + 1)
           \/ Current.fail # "ignore" /\ cb'.result = Current.fail

\* A call of the callback to the controller: served, refused, or with its answer lost.
Calls ==
    /\ ~cb.wait
    /\ Current.do \in KrnxCalls
    /\ \/ /\ Accepts(Current.do, cb.arm) /\ Effect(Current.do, cb.arm)
          /\ IF Current.do = "execute"
             THEN /\ cb'.result = "none" /\ cb'.step = cb.step /\ cb'.arm = cb.arm /\ cb'.wait
             ELSE NextArm \/ LastCall
       \/ ~Accepts(Current.do, cb.arm) /\ UNCHANGED robot /\ GivesUp
       \/ /\ Accepts(Current.do, cb.arm) /\ Current.do \in Faulty /\ GivesUp
          /\ Effect(Current.do, cb.arm) \/ UNCHANGED robot

\* The wait of exec_rtc_program ends.
Waits == /\ Current.do = "execute" /\ cb.wait /\ UNCHANGED robot
         /\ NextArm \/ LastCall \/ GivesUp

\* A routine that makes no KRNX call of its own: the hold after is_running is skipped
\* or not.
Passes == /\ Current.do \notin KrnxCalls /\ UNCHANGED robot
          /\ At(cb.step + 1) \/ (Current.do = "is_running" /\ At(cb.step + 2))

\* A step of the callback in progress.
Body == InBody /\ cb'.name = cb.name /\ UNCHANGED hw /\ (Calls \/ Waits \/ Passes)

\* A callback begins.
Begins == \E n \in Callbacks :
    /\ cb = Idle \/ n = "error"
    /\ n = "init" => hw = "Created"
    /\ n = "configure" => hw = "Unconfigured"
    /\ n = "activate" => hw = "Inactive"
    /\ n = "deactivate" => hw = "Active"
    /\ cb' = [Idle EXCEPT !.name = n]
    /\ UNCHANGED <<hw, robot>>

\* The manager takes the result of a callback.
Ends == /\ cb.result # "none" /\ ~Errs
        /\ hw' = NextHw(cb.name, cb.result) /\ cb' = Idle /\ UNCHANGED <<write_enabled_, robot>>

\* Threads, operator and controller: no program appears, no motor is switched on and
\* no session is opened, but by an operator without a session.
Around ==
    /\ UNCHANGED <<hw, cb, write_enabled_>>
    /\ conn' = conn \/ (conn = "up" /\ conn' = "lost")
    /\ motor' => motor \/ conn = "closed"
    /\ \A a \in Arms :
          /\ prog[a] # "none" => prog'[a] # "none"
          /\ conn # "closed" => /\ prog[a] = "none" => prog'[a] = "none"
                                /\ prog[a] \notin Moving => prog'[a] \notin Moving

\* Going on leads where At says.
LEMMA GoToAt ==
    ASSUME Control, InBody, NEW i \in Nat \ {0}, GoTo(i)
    PROVE  At(i) /\ cb'.name = cb.name
<1>1. CASE i > Len(Script[cb.name])
  <2>1. cb' = [cb EXCEPT !.result = "SUCCESS"]
    BY <1>1 DEF GoTo, Complete
  <2> QED BY <1>1, <2>1 DEF At, Control, CbType
<1>2. CASE ~(i > Len(Script[cb.name]))
  <2>1. cb' = [cb EXCEPT !.step = i, !.arm = 1, !.wait = FALSE]
    BY <1>2 DEF GoTo
  <2>2. Len(Script[cb.name]) \in Nat
    BY Standing
  <2> QED BY <1>2, <2>1, <2>2 DEF At, Control, CbType, InBody
<1> QED BY <1>1, <1>2

\* The loop over the arms.
LEMMA AdvanceAt ==
    ASSUME Control, InBody, Advance
    PROVE  (NextArm \/ LastCall) /\ cb'.name = cb.name
<1>1. CASE Current.do \in PerArm /\ cb.arm < NArms
  <2>1. cb' = [cb EXCEPT !.arm = @ + 1, !.wait = FALSE]
    BY <1>1 DEF Advance
  <2> QED BY <1>1, <2>1 DEF NextArm, Control, CbType, InBody
<1>2. CASE ~(Current.do \in PerArm /\ cb.arm < NArms)
  <2>1. GoTo(cb.step + 1)
    BY <1>2 DEF Advance
  <2>2. cb.step + 1 \in Nat \ {0} /\ cb.arm \in Arms
    BY Standing
  <2>3. Current.do \in PerArm => cb.arm = NArms
    BY <1>2, <2>2, NArmsAssumption DEF Arms
  <2> QED BY <2>1, <2>2, <2>3, GoToAt DEF LastCall
<1> QED BY <1>1, <1>2

\* The end of a routine that failed.
LEMMA FailAt ==
    ASSUME Control, InBody, Fail
    PROVE  GivesUp /\ cb'.name = cb.name
<1>1. CASE Current.fail = "ignore"
  <2>1. cb.step + 1 \in Nat \ {0}
    BY Standing
  <2> QED BY <1>1, <2>1, GoToAt DEF Fail, GivesUp
<1>2. CASE Current.fail # "ignore"
  <2>1. cb' = [cb EXCEPT !.result = Current.fail]
    BY <1>2 DEF Fail, Complete
  <2> QED BY <1>2, <2>1 DEF GivesUp, Control, CbType
<1> QED BY <1>1, <1>2

\* Steps of a callback.
LEMMA BodyKinds == ASSUME IInv, CallbackStep PROVE Body \/ ProcessDies
<1>1. Control
  BY Parts
<1>2. CASE KrnxCall
  <2>1. InBody /\ ~cb.wait /\ Current.do \in KrnxCalls /\ hw' = hw
    BY <1>2 DEF KrnxCall
  <2>2. Calls /\ cb'.name = cb.name
    <3>1. CASE /\ Accepts(Current.do, cb.arm) /\ Effect(Current.do, cb.arm)
               /\ IF Current.do = "execute"
                  THEN cb' = [cb EXCEPT !.wait = TRUE] /\ UNCHANGED interface
                  ELSE Advance
      <4>1. CASE Current.do = "execute"
        BY <1>1, <2>1, <3>1, <4>1 DEF Calls, Control, CbType, InBody
      <4>2. CASE Current.do # "execute"
        BY <1>1, <2>1, <3>1, <4>2, AdvanceAt DEF Calls
      <4> QED BY <4>1, <4>2
    <3>2. CASE ~Accepts(Current.do, cb.arm) /\ UNCHANGED robot /\ Fail
      BY <1>1, <2>1, <3>2, FailAt DEF Calls
    <3>3. CASE /\ Accepts(Current.do, cb.arm) /\ Current.do \in Faulty
               /\ Effect(Current.do, cb.arm) \/ UNCHANGED robot
               /\ Fail
      BY <1>1, <2>1, <3>3, FailAt DEF Calls
    <3> QED BY <1>2, <3>1, <3>2, <3>3 DEF KrnxCall
  <2> QED BY <2>1, <2>2 DEF Body
<1>3. CASE WaitRtcActive \/ RtcTimeout
  <2>1. InBody /\ cb.wait /\ (Advance \/ Fail) /\ UNCHANGED <<hw, robot>>
    BY <1>3 DEF WaitRtcActive, RtcTimeout
  <2>2. Current.do = "execute"
    BY <1>1, <2>1 DEF Control, ScriptPosition
  <2> QED BY <1>1, <2>1, <2>2, AdvanceAt, FailAt DEF Body, Waits
<1>4. CASE is_program_running
  <2>1. /\ InBody /\ Current.do = "is_running" /\ UNCHANGED <<hw, robot>>
        /\ GoTo(cb.step + 1) \/ GoTo(cb.step + 2)
    BY <1>4 DEF is_program_running
  <2>2. cb.step + 1 \in Nat \ {0} /\ cb.step + 2 \in Nat \ {0}
    BY <1>1, <2>1, Standing
  <2>3. (At(cb.step + 1) \/ At(cb.step + 2)) /\ cb'.name = cb.name
    BY <1>1, <2>1, <2>2, GoToAt
  <2> QED BY <2>1, <2>3, KrnxNotThreaded DEF Body, Passes
<1>5. CASE \/ create_khi_robot_driver \/ InitService \/ DropDriver
           \/ StartServices \/ StopServices \/ JoinService
           \/ StartPublishers \/ StopPublishers \/ JoinPublishers
  <2>1. InBody /\ Current.do \in Threaded /\ GoTo(cb.step + 1) /\ UNCHANGED <<hw, robot>>
    BY <1>5 DEF create_khi_robot_driver, InitService, DropDriver, StartServices, StopServices,
                JoinService, StartPublishers, StopPublishers, JoinPublishers, Threaded
  <2>2. cb.step + 1 \in Nat \ {0}
    BY <1>1, <2>1, Standing
  <2>3. At(cb.step + 1) /\ cb'.name = cb.name
    BY <1>1, <2>1, <2>2, GoToAt
  <2> QED BY <2>1, <2>3, KrnxNotThreaded DEF Body, Passes
<1>6. CASE NullDriver
  BY <1>6 DEF NullDriver
<1> QED BY <1>2, <1>3, <1>4, <1>5, <1>6 DEF CallbackStep

\* The manager's steps.
LEMMA ManagerKinds ==
    ASSUME IInv, (\E n \in Callbacks : Request(n)) \/ Return \/ RaiseError \/ RaiseDeactivate
    PROVE  Begins \/ Ends \/ Around
<1>1. ASSUME NEW n \in Callbacks, Request(n) PROVE Begins
  <2>1. /\ cb = Idle /\ cb' = [Idle EXCEPT !.name = n] /\ UNCHANGED <<hw, robot>> /\ Allowed(n)
    BY <1>1 DEF Request, Start
  <2>2. /\ n = "init" => hw = "Created"
        /\ n = "configure" => hw = "Unconfigured"
        /\ n = "activate" => hw = "Inactive"
        /\ n = "deactivate" => hw = "Active"
    BY <2>1 DEF Allowed
  <2> QED BY <1>1, <2>1, <2>2 DEF Begins
<1>2. CASE Return
  BY <1>2 DEF Return, Start, Begins, Ends, Callbacks, interface
<1>3. CASE RaiseError
  <2>1. CASE UNCHANGED <<hw, cb, interface, robot>>
    BY <2>1 DEF Around, robot, interface
  <2>2. CASE cb = Idle /\ Start("error") /\ UNCHANGED <<hw, robot>>
    BY <2>2 DEF Start, Begins, Callbacks
  <2> QED BY <1>3, <2>1, <2>2 DEF RaiseError
<1>4. CASE RaiseDeactivate
  <2>1. CASE UNCHANGED <<hw, cb, interface, robot>>
    BY <2>1 DEF Around, robot, interface
  <2>2. CASE cb = Idle /\ hw = "Active" /\ Start("deactivate") /\ UNCHANGED <<hw, robot>>
    BY <2>2 DEF Start, Begins, Callbacks
  <2> QED BY <1>4, <2>1, <2>2 DEF RaiseDeactivate
<1> QED BY <1>1, <1>2, <1>3, <1>4

\* Everyone else's steps.
LEMMA AroundKinds ==
    ASSUME IInv,
           \/ ReadStart \/ WriteStart \/ ReadLink \/ ReadLost \/ ReadData
           \/ WriteLink \/ WriteAble \/ WriteSend
           \/ \E t \in Background : CallBegins(t) \/ CallEnds(t)
           \/ Environment
           \/ UNCHANGED vars
    PROVE  Around
<1>1. prog \in [Arms -> ProgStates]
  BY Parts DEF RobotType
<1>2. CASE \/ ReadStart \/ WriteStart \/ ReadLink \/ ReadLost \/ ReadData
           \/ WriteLink \/ WriteAble \/ WriteSend
           \/ (\E t \in Background : CallBegins(t))
           \/ UNCHANGED vars
  <2>1. UNCHANGED <<hw, cb, write_enabled_, robot>>
    BY <1>2 DEF ReadStart, WriteStart, ReadLink, ReadLost, ReadData, WriteLink, WriteAble,
                WriteSend, CallBegins, vars, interface
  <2> QED BY <2>1 DEF Around, robot
<1>3. ASSUME NEW t \in Background, CallEnds(t) PROVE Around
  <2>1. UNCHANGED <<hw, cb, write_enabled_, conn, motor, prog>>
    BY <1>3 DEF CallEnds, reset_error, robot, interface
  <2> QED BY <2>1 DEF Around
<1>4. CASE LinkLost
  BY <1>4 DEF LinkLost, Around, interface
<1>5. CASE OperatorStop
  <2>1. UNCHANGED <<hw, cb, write_enabled_, conn>> /\ motor' \in {motor, FALSE}
    BY <1>5 DEF OperatorStop, interface
  <2>2. motor' => motor
    BY <2>1, Parts DEF RobotType
  <2>3. ASSUME NEW a \in Arms
        PROVE  /\ prog[a] # "none" => prog'[a] # "none"
               /\ prog[a] = "none" => prog'[a] = "none"
               /\ prog[a] \notin Moving => prog'[a] \notin Moving
    <3>1. prog'[a] = Stopped(prog[a])
      BY <1>5 DEF OperatorStop
    <3> QED BY <3>1 DEF Stopped, Moving
  <2> QED BY <2>1, <2>2, <2>3 DEF Around
<1>6. CASE OperatorReady
  BY <1>6 DEF OperatorReady, Around, interface
<1>7. ASSUME NEW a \in Arms, OperatorRuns(a) PROVE Around
  BY <1>1, <1>7 DEF OperatorRuns, Around, interface
<1>8. ASSUME NEW a \in Arms, RtcBecomesActive(a) PROVE Around
  BY <1>1, <1>8 DEF RtcBecomesActive, Around, interface, Moving
<1>9. ASSUME NEW a \in Arms, ControllerError(a) PROVE Around
  BY <1>1, <1>9 DEF ControllerError, Around, interface, Stopped, Moving
<1> QED BY <1>2, <1>3, <1>4, <1>5, <1>6, <1>7, <1>8, <1>9 DEF Environment

\* Every step is of one of these kinds.
LEMMA Kinds ==
    ASSUME IInv, [Next]_vars
    PROVE  Body \/ Begins \/ Ends \/ Around \/ ProcessDies
BY BodyKinds, ManagerKinds, AroundKinds DEF Next, UpdateStep

-----------------------------------------------------------------------------
(* What a call changes at the controller.                                  *)

LEMMA Effects ==
    ASSUME RobotType, NEW do \in KrnxCalls, NEW a \in Arms, Effect(do, a)
    PROVE  /\ do = "power_off" => ~motor' /\ (\A b \in Arms : prog'[b] \notin Moving)
           /\ do # "power_on" => (motor' => motor)
           /\ do = "kill" => prog'[a] = "none"
           /\ do = "execute" => prog'[a] # "none"
           /\ do = "close" => conn' = "closed"
           /\ do # "open" => (conn' = "up" => conn = "up")
           /\ do \notin {"open", "close"} => conn' = conn
           /\ do # "execute" => \A b \in Arms : prog[b] = "none" => prog'[b] = "none"
           /\ do # "kill" => \A b \in Arms : prog[b] # "none" => prog'[b] # "none"
<1>1. \A p \in ProgStates : /\ Stopped(p) \notin Moving
                            /\ Stopped(p) = "none" <=> p = "none"
  BY DEF Stopped, ProgStates, Moving
<1>2. \A b \in Arms : prog[b] \in ProgStates
  BY DEF RobotType
<1>3. CASE do = "open" /\ open
  BY <1>3 DEF open
<1>4. CASE do = "close" /\ close
  BY <1>4 DEF close
<1>5. CASE do = "hold" /\ hold(a)
  <2>1. \A b \in Arms : prog'[b] = prog[b] \/ prog'[b] = Stopped(prog[b])
    BY <1>5 DEF hold, RobotType
  <2> QED BY <1>1, <1>2, <1>5, <2>1 DEF hold
<1>6. CASE do = "kill" /\ kill_program(a)
  BY <1>6 DEF kill_program, RobotType
<1>7. CASE do = "reset_error" /\ reset_error(a)
  BY <1>7 DEF reset_error
<1>8. CASE do = "power_on" /\ power_on_motor
  BY <1>8 DEF power_on_motor
<1>9. CASE do = "power_off" /\ power_off_motor
  <2>1. \A b \in Arms : prog'[b] = Stopped(prog[b])
    BY <1>9 DEF power_off_motor
  <2> QED BY <1>1, <1>2, <1>9, <2>1 DEF power_off_motor
<1>10. CASE do = "execute" /\ exec_rtc_program(a)
  BY <1>10 DEF exec_rtc_program, RobotType
<1>11. CASE do \notin {"open", "close", "hold", "kill", "reset_error", "power_on", "power_off",
                       "execute"} /\ UNCHANGED robot
  BY <1>11 DEF robot
<1> QED BY <1>3, <1>4, <1>5, <1>6, <1>7, <1>8, <1>9, <1>10, <1>11 DEF Effect

\* Where a callback stands, with what the scripts do to the robot there.
LEMMA StandsAt ==
    ASSUME IInv, InBody
    PROVE  /\ cb.name \in Callbacks /\ cb.name # "none" /\ cb.result = "none" /\ cb.arm \in Arms
           /\ cb.step \in 1..Len(Script[cb.name]) /\ Len(Script[cb.name]) \in Nat
           /\ Current = Script[cb.name][cb.step]
           /\ RobotFacts(cb.name, cb.step) /\ CallFacts(cb.name, cb.step)
           /\ FailFacts(cb.name, cb.step) /\ ThreadFacts(cb.name, cb.step)
           /\ SessionFacts(cb.name, cb.step)
<1>1. Control
  BY Parts
<1>2. cb.name \in Callbacks /\ cb.step \in 1..Len(Script[cb.name])
  BY <1>1, Standing
<1>3. RobotFacts(cb.name, cb.step) /\ CallFacts(cb.name, cb.step)
  BY <1>2, RobotScripts
<1> QED BY <1>1, <1>3, Standing DEF InBody

\* A session is open in Inactive and Active, until a callback leaves them, and in a
\* configuration that has got past krnx_Open.
LEMMA SessionOpen ==
    ASSUME IInv
    PROVE  /\ hw = "Active" /\ cb.name \in {"none", "deactivate"} => conn # "closed"
           /\ cb.name = "deactivate" => conn # "closed"
           /\ InBody /\ cb.name = "configure" /\ cb.step > 2 => conn # "closed"
           /\ cb.name = "configure" /\ cb.result = "SUCCESS" => conn # "closed"
           /\ cb.name = "activate" => conn # "closed"
<1>1. Serving \/ Configured => conn # "closed"
  BY Parts DEF Place, PublisherPlace, SessionPlace, Serving, Configured
<1> QED BY <1>1, Parts DEF Place, CallbackPlace, SessionPlace, Serving, Configured

-----------------------------------------------------------------------------
(* Teardowns cut the motor power before they close.                        *)

\* The close step of error handling, shutdown and destructor.
CloseStep == \/ cb.name = "error" /\ cb.step = 7
             \/ cb.name = "shutdown" /\ cb.step = 8
             \/ cb.name = "destroy" /\ cb.step = 4

Dark == ~motor /\ \A a \in Arms : prog[a] \notin Moving

\* TeardownPowersOff, by the place in the scripts.
DarkAtClose == InBody /\ CloseStep /\ conn = "up" => Dark

LEMMA DarkIsPowersOff == IInv => (DarkAtClose <=> TeardownPowersOff)
<1> SUFFICES ASSUME IInv PROVE DarkAtClose <=> TeardownPowersOff
  OBVIOUS
<1>1. ASSUME InBody
      PROVE  CloseStep <=> cb.name \in {"error", "shutdown", "destroy"} /\ Current.do = "close"
  BY <1>1, StandsAt DEF RobotFacts, CloseStep
<1> QED BY <1>1 DEF DarkAtClose, TeardownPowersOff, Dark, CloseStep

\* The only way to the close step is through a power off that was carried out, or
\* without a session that is up.
LEMMA DarkKept ==
    ASSUME "power_off" \notin Faulty
    PROVE  IInv /\ DarkAtClose /\ [Next]_vars => DarkAtClose'
<1> SUFFICES ASSUME IInv, DarkAtClose, [Next]_vars PROVE DarkAtClose'
  OBVIOUS
<1>1. CASE Body
  <2> SUFFICES ASSUME InBody', CloseStep', conn' = "up" PROVE Dark'
    BY DEF DarkAtClose
  <2>1. InBody /\ cb'.name = cb.name /\ cb'.result = "none"
    BY <1>1 DEF Body, InBody
  <2>2. cb.name \in {"error", "shutdown", "destroy"}
    BY <2>1 DEF CloseStep
  <2>3. Current.do # "execute" /\ Current.do # "is_running" /\ Current.do # "open"
    BY <2>1, <2>2, StandsAt DEF RobotFacts, SessionFacts
  <2>4. RobotType /\ cb.arm \in Arms /\ cb.step \in Nat
    BY <2>1, Parts, StandsAt
  <2>5. Current.do \in KrnxCalls => Current.fail = "ignore"
    BY <2>1, <2>2, StandsAt DEF FailFacts
  <2>6. (NextArm /\ cb'.step = cb.step) \/ (At(cb.step + 1) /\ cb'.step = cb.step + 1)
    BY <1>1, <2>1, <2>3, <2>5 DEF Body, Calls, Waits, Passes, GivesUp, NextArm, LastCall, At
  <2>7. CASE NextArm /\ cb'.step = cb.step
    <3>1. CloseStep /\ Current.do \in PerArm
      BY <2>1, <2>7 DEF NextArm, CloseStep
    <3>2. Current.do = "close"
      BY <2>1, <3>1, StandsAt DEF CloseStep, RobotFacts
    <3> QED BY <3>1, <3>2 DEF PerArm
  <2>8. CASE At(cb.step + 1) /\ cb'.step = cb.step + 1
    <3>1. \/ cb.name = "error" /\ cb.step = 6
          \/ cb.name = "shutdown" /\ cb.step = 7
          \/ cb.name = "destroy" /\ cb.step = 3
      BY <2>1, <2>4, <2>8 DEF CloseStep
    <3>2. Current.do = "power_off"
      BY <2>1, <3>1, StandsAt DEF CallFacts
    <3>3. Current.do \in KrnxCalls /\ Calls
      BY <1>1, <2>3, <3>2 DEF KrnxCalls, Once, Body, Waits, Passes
    <3>4. CASE Effect(Current.do, cb.arm)
      <4>1. ~motor' /\ \A b \in Arms : prog'[b] \notin Moving
        BY <2>4, <3>2, <3>3, <3>4, Effects
      <4> QED BY <4>1 DEF Dark
    <3>5. CASE ~Accepts(Current.do, cb.arm) /\ UNCHANGED robot
      <4>1. conn # "up"
        BY <3>2, <3>5 DEF Accepts, NoLink
      <4> QED BY <3>5, <4>1 DEF robot
    <3> QED BY <3>2, <3>3, <3>4, <3>5 DEF Calls
  <2> QED BY <2>6, <2>7, <2>8
<1>2. CASE Begins
  BY <1>2 DEF Begins, DarkAtClose, CloseStep, Idle
<1>3. CASE Ends
  BY <1>3 DEF Ends, DarkAtClose, InBody, Idle
<1>4. CASE Around
  <2> SUFFICES ASSUME InBody', CloseStep', conn' = "up" PROVE Dark'
    BY DEF DarkAtClose
  <2>1. InBody /\ CloseStep /\ conn = "up" /\ Dark
    BY <1>4 DEF Around, InBody, CloseStep, DarkAtClose
  <2> QED BY <1>4, <2>1 DEF Around, Dark
<1>5. CASE ProcessDies
  BY <1>5 DEF ProcessDies, DarkAtClose, InBody, Idle
<1> QED BY <1>1, <1>2, <1>3, <1>4, <1>5, Kinds

\* Error handling, shutdown and destructor close a live session only with motor power
\* off and no program moving, whichever hold or kill failed before, as long as
\* krnx_PowerOffMotorWithOffWait does what it reports.
THEOREM PowerIsOff == ASSUME "power_off" \notin Faulty PROVE Spec => []TeardownPowersOff
<1>1. Init => DarkAtClose
  BY DEF Init, DarkAtClose, InBody, Idle
<1>2. IInv /\ DarkAtClose /\ [Next]_vars => DarkAtClose'
  BY DarkKept
<1>3. Spec => [](IInv /\ DarkAtClose)
  BY <1>1, <1>2, Invariance, PTL DEF Spec
<1> QED BY <1>3, DarkIsPowersOff, PTL

-----------------------------------------------------------------------------
(* A live session has an owner.                                            *)

\* Configuration from the moment krnx_Open has been called, but for a failure.
Opened == cb.name = "configure" /\ \/ InBody /\ cb.step > 2
                                   \/ cb.result \in {"SUCCESS", "ERROR"}

\* A callback that ends with krnx_Close, until that call.
Closing == InBody /\ \/ cb.name \in {"cleanup", "shutdown", "error"}
                     \/ cb.name = "destroy" /\ cb.step <= 4

Owned == conn = "up" => Serving \/ Opened \/ Closing

\* A teardown that goes on has not got past its close; one that closes leaves no live
\* session.
LEMMA ClosingKept ==
    ASSUME "close" \notin Faulty, IInv, Closing, Body
    PROVE  Closing' \/ conn' # "up"
<1>1. InBody /\ cb.name \in {"cleanup", "shutdown", "error", "destroy"} /\ cb'.name = cb.name
  BY DEF Closing, Body
<1>2. RobotType /\ cb.arm \in Arms /\ cb.step \in 1..Len(Script[cb.name])
  BY <1>1, Parts, StandsAt
<1>3. CASE Current.do = "close"
  <2>1. Calls /\ Current.do \in KrnxCalls
    BY <1>3 DEF Body, Waits, Passes, KrnxCalls, Once
  <2>2. CASE Effect(Current.do, cb.arm)
    BY <1>2, <1>3, <2>1, <2>2, Effects
  <2>3. CASE ~Accepts(Current.do, cb.arm) /\ UNCHANGED robot
    BY <1>3, <2>3 DEF Accepts, robot
  <2> QED BY <1>3, <2>1, <2>2, <2>3 DEF Calls
<1>4. CASE Current.do # "close"
  <2>1. Current.do \notin {"execute", "is_running"}
    BY <1>1, StandsAt DEF RobotFacts, SessionFacts
  <2>2. Current.do \in KrnxCalls => Current.fail = "ignore"
    BY <1>1, <1>4, StandsAt DEF FailFacts, CallFacts
  <2>3. NextArm \/ At(cb.step + 1)
    BY <2>1, <2>2 DEF Body, Calls, Waits, Passes, GivesUp, LastCall
  <2>4. /\ cb.name \in {"cleanup", "destroy"} => cb.step # 4
        /\ cb.name = "shutdown" => cb.step # 8
        /\ cb.name = "error" => cb.step # 7
    BY <1>1, <1>4, StandsAt DEF RobotFacts
  <2>5. cb.step + 1 <= Len(Script[cb.name]) /\ (cb.name = "destroy" => cb.step + 1 <= 4)
    <3>1. CASE cb.name = "cleanup"
      BY <1>2, <2>4, <3>1, Lengths
    <3>2. CASE cb.name = "shutdown"
      BY <1>2, <2>4, <3>2, Lengths
    <3>3. CASE cb.name = "error"
      BY <1>2, <2>4, <3>3, Lengths
    <3>4. CASE cb.name = "destroy"
      BY <1>2, <2>4, <3>4, Lengths DEF Closing
    <3> QED BY <1>1, <3>1, <3>2, <3>3, <3>4
  <2>6. cb'.result = "none" /\ cb'.step \in {cb.step, cb.step + 1}
    <3>1. CASE NextArm
      BY <3>1 DEF NextArm
    <3>2. CASE At(cb.step + 1)
      <4>1. Len(Script[cb.name]) \in Nat /\ cb.step \in Nat
        BY <1>1, StandsAt
      <4> QED BY <2>5, <3>2, <4>1 DEF At
    <3> QED BY <2>3, <3>1, <3>2
  <2> QED BY <1>1, <1>2, <2>5, <2>6 DEF Closing, InBody
<1> QED BY <1>3, <1>4

\* A configuration keeps the session it has opened until it ends, and drops none with
\* FAILURE.
LEMMA OpenedKept ==
    ASSUME "language" \notin Faulty, IInv, Owned, Body, cb.name = "configure"
    PROVE  Opened' \/ conn' # "up"
<1>1. InBody /\ cb'.name = cb.name /\ cb.name = "configure" /\ cb.result = "none"
  BY DEF Body, InBody
<1>2. RobotType /\ cb.arm \in Arms /\ cb.step \in 1..17 /\ Current = Script[cb.name][cb.step]
  BY <1>1, Parts, StandsAt, Lengths
<1>3. Current.do # "execute" /\ hw = "Unconfigured"
  BY <1>1, StandsAt, Parts DEF RobotFacts, Place, CallbackPlace
<1>4. CASE cb.step <= 2
  <2>1. conn # "up"
    BY <1>1, <1>2, <1>4 DEF Owned, Serving, Opened, Closing
  <2>2. CASE cb.step = 1
    <3>1. Current.do # "open"
      BY <1>1, <2>2, StandsAt DEF RobotFacts
    <3> QED BY <1>2, <2>1, <3>1, Effects DEF Body, Calls, Waits, Passes, robot
  <2>3. CASE cb.step = 2
    <3>1. Current.do = "open" /\ Current.fail = "ERROR" /\ Current.do \notin PerArm
      BY <1>1, <2>3, StandsAt DEF SessionFacts, PerArm
    <3>2. Calls
      BY <1>3, <3>1 DEF Body, Passes, Waits, KrnxCalls, Once
    <3>3. At(3) \/ cb'.result = "ERROR"
      BY <2>3, <3>1, <3>2 DEF Calls, NextArm, LastCall, GivesUp
    <3> QED BY <1>1, <3>3, Lengths DEF At, Opened, InBody
  <2> QED BY <1>2, <1>4, <2>2, <2>3
<1>5. CASE cb.step > 2
  <2>1. ASSUME NextArm \/ At(cb.step + 1) \/ cb'.result = "ERROR" PROVE Opened'
    BY <1>1, <1>2, <1>5, <2>1 DEF NextArm, At, Opened, InBody
  <2>2. CASE Calls
    <3>1. /\ Current.do \in KrnxCalls /\ Current.fail \in {"ERROR", "FAILURE", "ignore"}
          /\ Current.fail = "FAILURE" => Current.do = "language"
      BY <1>1, <2>2, StandsAt DEF Calls, FailFacts, CallFacts
    <3>2. CASE GivesUp /\ Current.fail = "FAILURE"
      <4>1. Current.do = "language" /\ Current.do \notin Faulty
        BY <3>1, <3>2
      <4>2. CASE ~Accepts(Current.do, cb.arm) /\ UNCHANGED robot
        <5>1. conn # "up"
          BY <4>1, <4>2 DEF Accepts, NoLink
        <5> QED BY <4>2, <5>1 DEF robot
      <4> QED BY <1>3, <2>1, <2>2, <4>1, <4>2 DEF Calls, LastCall
    <3>3. CASE GivesUp /\ Current.fail # "FAILURE"
      BY <2>1, <3>1, <3>3 DEF GivesUp
    <3> QED BY <1>3, <2>1, <2>2, <3>2, <3>3 DEF Calls, LastCall
  <2>3. CASE Passes
    BY <1>1, <1>2, <1>5, <2>3 DEF Passes, At, Opened, InBody
  <2> QED BY <1>3, <2>2, <2>3 DEF Body, Waits
<1> QED BY <1>2, <1>4, <1>5

LEMMA OwnedKept ==
    ASSUME {"close", "language"} \cap Faulty = {}
    PROVE  IInv /\ Owned /\ [Next]_vars => Owned'
<1> SUFFICES ASSUME IInv, Owned, [Next]_vars, conn' = "up" PROVE Serving' \/ Opened' \/ Closing'
  BY DEF Owned
<1>0. "close" \notin Faulty /\ "language" \notin Faulty
  OBVIOUS
<1>1. CASE Body
  <2>1. CASE cb.name = "configure"
    BY <1>0, <1>1, <2>1, OpenedKept
  <2>2. CASE cb.name # "configure"
    <3>1. conn = "up"
      <4>1. InBody /\ Current.do # "open" /\ RobotType /\ cb.arm \in Arms
        BY <1>1, <2>2, StandsAt, Parts DEF Body, RobotFacts
      <4> QED BY <1>1, <4>1, Effects DEF Body, Calls, Waits, Passes, robot
    <3>2. Serving \/ Closing
      BY <2>2, <3>1 DEF Owned, Opened
    <3>3. Serving => Serving'
      BY <1>1 DEF Serving, Body
    <3> QED BY <1>0, <1>1, <3>2, <3>3, ClosingKept
  <2> QED BY <2>1, <2>2
<1>2. CASE Begins
  <2>1. PICK n \in Callbacks :
            /\ cb = Idle \/ n = "error"
            /\ n = "init" => hw = "Created"
            /\ n = "configure" => hw = "Unconfigured"
            /\ n = "activate" => hw = "Inactive"
            /\ n = "deactivate" => hw = "Active"
            /\ cb' = [Idle EXCEPT !.name = n]
            /\ UNCHANGED <<hw, robot>>
    BY <1>2 DEF Begins
  <2>2. cb'.name = n /\ cb'.result = "none" /\ cb'.step = 1 /\ n # "none"
    BY <2>1 DEF Idle, Callbacks
  <2>3. CASE n = "error"
    BY <2>2, <2>3 DEF Closing, InBody
  <2>4. CASE n # "error"
    <3>1. cb = Idle /\ conn = "up" /\ hw' = hw
      BY <2>1, <2>4 DEF robot
    <3>2. hw \in {"Inactive", "Active"}
      BY <3>1 DEF Owned, Serving, Opened, Closing, InBody, Idle
    <3> QED BY <2>1, <2>2, <3>1, <3>2 DEF Serving, Closing, InBody, Callbacks
  <2> QED BY <2>3, <2>4
<1>3. CASE Ends
  <2>1. conn = "up" /\ cb'.name = "none" /\ cb.result # "none"
    BY <1>3 DEF Ends, robot, Idle
  <2>2. Serving \/ Opened
    BY <2>1 DEF Owned, Closing, InBody
  <2>3. CASE Opened
    <3>1. cb.name = "configure" /\ cb.result = "SUCCESS"
      BY <1>3, <2>1, <2>3 DEF Opened, InBody, Ends, Errs
    <3> QED BY <1>3, <2>1, <3>1 DEF Ends, NextHw, Serving
  <2>4. CASE Serving /\ ~Opened
    <3>1. cb.name \in {"activate", "deactivate"}
      BY <2>1, <2>4, Parts DEF Serving, Control, ScriptPosition, Idle
    <3> QED BY <1>3, <2>1, <3>1 DEF Ends, NextHw, Serving
  <2> QED BY <2>2, <2>3, <2>4
<1>4. CASE Around
  <2>1. conn = "up" /\ hw' = hw /\ cb' = cb
    BY <1>4 DEF Around
  <2> QED BY <2>1 DEF Owned, Serving, Opened, Closing, InBody
<1>5. CASE ProcessDies
  BY <1>5 DEF ProcessDies
<1> QED BY <1>1, <1>2, <1>3, <1>4, <1>5, Kinds

\* However configuration, activation or cleanup failed: a session that is still up
\* belongs to Inactive or Active, to a configuration, or to a teardown on its way to
\* krnx_Close.
THEOREM NothingLeft ==
    ASSUME {"close", "language"} \cap Faulty = {}
    PROVE  Spec => []NoLiveSessionLeft
<1>1. Init => Owned
  BY DEF Init, Owned
<1>2. IInv /\ Owned /\ [Next]_vars => Owned'
  BY OwnedKept
<1>3. Spec => [](IInv /\ Owned)
  BY <1>1, <1>2, Invariance, PTL DEF Spec
<1>4. Owned => NoLiveSessionLeft
  BY DEF Owned, NoLiveSessionLeft, Serving, Opened, Closing, InBody, Idle
<1> QED BY <1>3, <1>4, PTL

-----------------------------------------------------------------------------
(* Success means stopped.                                                  *)

AllNone   == \A a \in Arms : prog[a] = "none"
NoneBelow == \A a \in Arms : a < cb.arm => prog[a] = "none"

\* How far a configuration is with power off (step 10) and kill (11), and a deactivation
\* with kill (2) and power off (3).
Halting ==
    /\ InBody /\ cb.name = "configure" => /\ cb.step > 10 => ~motor
                                          /\ cb.step = 11 => NoneBelow
                                          /\ cb.step > 11 => AllNone
    /\ InBody /\ cb.name = "deactivate" => /\ cb.step = 2 => NoneBelow
                                           /\ cb.step = 3 => AllNone
    /\ cb.name \in {"configure", "deactivate"} /\ cb.result = "SUCCESS" => ~motor /\ AllNone

\* In configuration and deactivation no program appears and the motor stays off.
LEMMA Stays ==
    ASSUME IInv, Body, cb.name \in {"configure", "deactivate"}
    PROVE  (motor' => motor) /\ \A b \in Arms : prog[b] = "none" => prog'[b] = "none"
<1>1. InBody /\ RobotType /\ cb.arm \in Arms /\ Current.do \notin {"power_on", "execute"}
  BY StandsAt, Parts DEF Body, RobotFacts
<1>2. CASE UNCHANGED robot
  BY <1>2 DEF robot
<1>3. CASE Current.do \in KrnxCalls /\ Effect(Current.do, cb.arm)
  BY <1>1, <1>3, Effects
<1> QED BY <1>2, <1>3 DEF Body, Calls, Waits, Passes

\* How configuration and deactivation go on.
LEMMA GoesOn ==
    ASSUME IInv, Body, cb.name \in {"configure", "deactivate"}
    PROVE  \/ NextArm /\ Calls
           \/ LastCall /\ Calls
           \/ At(cb.step + 1) /\ (Current.do \in KrnxCalls => Current.fail = "ignore")
           \/ At(cb.step + 2) /\ cb.name = "configure" /\ cb.step \in {5, 8}
           \/ cb'.result \in {"ERROR", "FAILURE"}
<1>1. InBody /\ Current.do # "execute"
  BY StandsAt DEF Body, RobotFacts
<1>2. Current.do = "is_running" => cb.name = "configure" /\ cb.step \in {5, 8}
  BY <1>1, StandsAt DEF SessionFacts
<1>3. CASE Passes
  BY <1>2, <1>3 DEF Passes
<1>4. CASE Calls
  <2>1. Current.do \in KrnxCalls /\ Current.fail \in {"ERROR", "FAILURE", "ignore"}
    BY <1>1, <1>4, StandsAt DEF Calls, FailFacts
  <2>2. NextArm \/ LastCall \/ GivesUp
    BY <1>1, <1>4 DEF Calls
  <2> QED BY <1>4, <2>1, <2>2 DEF GivesUp
<1> QED BY <1>1, <1>3, <1>4 DEF Body, Waits

\* A power off that has not failed has been carried out, and so has a kill.
LEMMA CarriedOut ==
    ASSUME IInv, InBody, Calls, Current.do \in {"power_off", "kill"},
           Current.fail \in {"ERROR", "FAILURE"}, cb'.result \notin {"ERROR", "FAILURE"}
    PROVE  /\ Current.do = "power_off" => ~motor'
           /\ Current.do = "kill" => prog'[cb.arm] = "none"
<1>1. Effect(Current.do, cb.arm)
  BY DEF Calls, GivesUp
<1>2. RobotType /\ cb.arm \in Arms /\ Current.do \in KrnxCalls
  BY StandsAt, Parts DEF Calls
<1> QED BY <1>1, <1>2, Effects

\* Killing the programs arm by arm.
LEMMA KillsOn ==
    ASSUME IInv, Body, cb.name \in {"configure", "deactivate"}, Current.do = "kill",
           Current.fail \in {"ERROR", "FAILURE"}, cb'.result \notin {"ERROR", "FAILURE"}, NoneBelow
    PROVE  (NextArm /\ NoneBelow') \/ (At(cb.step + 1) /\ AllNone')
<1>1. InBody /\ cb.arm \in Arms /\ NArms \in Nat
  BY StandsAt, NArmsAssumption DEF Body
<1>2. Current.do \in KrnxCalls /\ Current.do \in PerArm /\ Current.do # "is_running"
  BY DEF KrnxCalls, PerArm
<1>3. Calls
  BY <1>2 DEF Body, Waits, Passes
<1>4. prog'[cb.arm] = "none"
  BY <1>1, <1>3, CarriedOut
<1>5. \A a \in Arms : a <= cb.arm => prog'[a] = "none"
  <2> TAKE a \in Arms
  <2>1. a < cb.arm => prog'[a] = "none"
    BY Stays DEF NoneBelow
  <2> QED BY <1>1, <1>4, <2>1 DEF Arms
<1>6. NextArm \/ LastCall
  <2>1. cb.name = "configure" => cb.step \notin {5, 8}
    BY <1>1, StandsAt DEF RobotFacts
  <2> QED BY <1>2, <2>1, GoesOn
<1>7. CASE NextArm
  <2>1. cb'.arm = cb.arm + 1
    BY <1>7 DEF NextArm
  <2>2. \A a \in Arms : a < cb'.arm => a <= cb.arm
    BY <1>1, <2>1 DEF Arms
  <2>3. \A a \in Arms : a < cb'.arm => prog'[a] = "none"
    BY <1>5, <2>2
  <2> QED BY <1>7, <2>3 DEF NoneBelow
<1>8. CASE LastCall
  BY <1>1, <1>2, <1>5, <1>8 DEF LastCall, AllNone, Arms
<1> QED BY <1>6, <1>7, <1>8

LEMMA ConfigureHalts ==
    ASSUME IInv, Halting, Body, cb.name = "configure"
    PROVE  /\ InBody' => /\ cb'.step > 10 => ~motor'
                         /\ cb'.step = 11 => NoneBelow'
                         /\ cb'.step > 11 => AllNone'
           /\ cb'.result = "SUCCESS" => ~motor' /\ AllNone'
<1> SUFFICES ASSUME cb'.result \in {"none", "SUCCESS"}
             PROVE  /\ cb'.result = "none" => /\ cb'.step > 10 => ~motor'
                                              /\ cb'.step = 11 => NoneBelow'
                                              /\ cb'.step > 11 => AllNone'
                    /\ cb'.result = "SUCCESS" => ~motor' /\ AllNone'
  BY DEF InBody
<1>1. InBody /\ cb.step \in 1..17 /\ Len(Script[cb.name]) = 17 /\ cb.arm \in Arms
  BY StandsAt, Lengths DEF Body
<1>2. (motor' => motor) /\ \A b \in Arms : prog[b] = "none" => prog'[b] = "none"
  BY Stays
<1>3. \/ NextArm /\ Calls
      \/ LastCall /\ Calls
      \/ At(cb.step + 1) /\ (Current.do \in KrnxCalls => Current.fail = "ignore")
      \/ At(cb.step + 2) /\ cb.step \in {5, 8}
  BY GoesOn
<1>4. CASE cb.step < 10
  BY <1>1, <1>3, <1>4 DEF NextArm, LastCall, At
<1>5. CASE cb.step = 10
  <2>1. Current.do = "power_off" /\ Current.fail = "ERROR" /\ Current.do \in KrnxCalls
    BY <1>1, <1>5, StandsAt DEF RobotFacts, CallFacts
  <2>2. LastCall /\ Calls
    BY <1>3, <1>5, <2>1 DEF NextArm, PerArm
  <2>3. ~motor'
    BY <1>1, <2>1, <2>2, CarriedOut
  <2>4. cb'.result = "none" /\ cb'.step = 11 /\ cb'.arm = 1
    BY <1>1, <1>5, <2>2 DEF LastCall, At
  <2> QED BY <2>3, <2>4 DEF NoneBelow, Arms
<1>6. CASE cb.step = 11
  <2>1. Current.do = "kill" /\ Current.fail = "ERROR" /\ NoneBelow /\ ~motor
    BY <1>1, <1>6, StandsAt DEF RobotFacts, CallFacts, Halting
  <2>2. (NextArm /\ NoneBelow') \/ (At(12) /\ AllNone')
    BY <1>6, <2>1, KillsOn
  <2> QED BY <1>1, <1>2, <1>6, <2>1, <2>2 DEF NextArm, At
<1>7. CASE cb.step > 11
  <2>1. ~motor' /\ AllNone'
    BY <1>1, <1>2, <1>7 DEF Halting, AllNone
  <2> QED BY <1>1, <1>3, <1>7, <2>1 DEF NextArm, LastCall, At
<1> QED BY <1>1, <1>4, <1>5, <1>6, <1>7

LEMMA DeactivateHalts ==
    ASSUME IInv, Halting, Body, cb.name = "deactivate"
    PROVE  /\ InBody' => /\ cb'.step = 2 => NoneBelow'
                         /\ cb'.step = 3 => AllNone'
           /\ cb'.result = "SUCCESS" => ~motor' /\ AllNone'
<1> SUFFICES ASSUME cb'.result \in {"none", "SUCCESS"}
             PROVE  /\ cb'.result = "none" => /\ cb'.step = 2 => NoneBelow'
                                              /\ cb'.step = 3 => AllNone'
                    /\ cb'.result = "SUCCESS" => ~motor' /\ AllNone'
  BY DEF InBody
<1>1. InBody /\ cb.step \in 1..3 /\ Len(Script[cb.name]) = 3 /\ cb.arm \in Arms
  BY StandsAt, Lengths DEF Body
<1>2. \A b \in Arms : prog[b] = "none" => prog'[b] = "none"
  BY Stays
<1>3. Current.do \in KrnxCalls /\ Current.fail = "FAILURE"
  BY <1>1, StandsAt DEF CallFacts
<1>4. (NextArm \/ LastCall) /\ Calls
  BY <1>3, GoesOn
<1>5. CASE cb.step = 1
  BY <1>1, <1>4, <1>5 DEF NextArm, LastCall, At, NoneBelow, Arms
<1>6. CASE cb.step = 2
  <2>1. Current.do = "kill" /\ NoneBelow
    BY <1>1, <1>6, StandsAt DEF RobotFacts, Halting
  <2>2. (NextArm /\ NoneBelow') \/ (At(3) /\ AllNone')
    BY <1>3, <1>6, <2>1, KillsOn
  <2> QED BY <1>1, <1>6, <2>2 DEF NextArm, At
<1>7. CASE cb.step = 3
  <2>1. Current.do = "power_off" /\ AllNone
    BY <1>1, <1>7, StandsAt DEF RobotFacts, Halting
  <2>2. ~motor' /\ AllNone'
    BY <1>1, <1>2, <1>3, <1>4, <2>1, CarriedOut DEF AllNone
  <2>3. LastCall
    BY <1>4, <2>1 DEF NextArm, PerArm
  <2> QED BY <1>1, <1>7, <2>2, <2>3 DEF LastCall, At
<1> QED BY <1>1, <1>5, <1>6, <1>7

LEMMA HaltingKept == IInv /\ Halting /\ [Next]_vars => Halting'
<1> SUFFICES ASSUME IInv, Halting, [Next]_vars PROVE Halting'
  OBVIOUS
<1>1. CASE Body
  <2>1. cb'.name = cb.name
    BY <1>1 DEF Body
  <2>2. CASE cb.name = "configure"
    BY <1>1, <2>1, <2>2, ConfigureHalts DEF Halting
  <2>3. CASE cb.name = "deactivate"
    BY <1>1, <2>1, <2>3, DeactivateHalts DEF Halting
  <2>4. CASE cb.name \notin {"configure", "deactivate"}
    BY <2>1, <2>4 DEF Halting
  <2> QED BY <2>2, <2>3, <2>4
<1>2. CASE Begins
  BY <1>2 DEF Begins, Halting, Idle
<1>3. CASE Ends
  BY <1>3 DEF Ends, Halting, InBody, Idle
<1>4. CASE Around
  <2>1. cb' = cb /\ (conn # "closed" => /\ motor' => motor
                                        /\ \A a \in Arms : prog[a] = "none" => prog'[a] = "none")
    BY <1>4 DEF Around
  <2>2. CASE conn # "closed"
    BY <2>1, <2>2 DEF Halting, InBody, NoneBelow, AllNone
  <2>3. CASE conn = "closed"
    <3>1. /\ cb.name # "deactivate" /\ ~(cb.name = "configure" /\ cb.result = "SUCCESS")
          /\ ~(InBody /\ cb.name = "configure" /\ cb.step > 2)
      BY <2>3, SessionOpen
    <3>2. cb.step \in Nat
      BY Parts DEF Control, CbType
    <3> QED BY <2>1, <3>1, <3>2 DEF Halting, InBody
  <2> QED BY <2>2, <2>3
<1>5. CASE ProcessDies
  BY <1>5 DEF ProcessDies, Halting, InBody, Idle
<1> QED BY <1>1, <1>2, <1>3, <1>4, <1>5, Kinds

\* on_configure and on_deactivate report success only with every program killed and the
\* motor off, whatever operator, controller and threads did between their calls.
THEOREM SuccessStops == Spec => []SuccessMeansStopped
<1>1. Init => Halting
  BY DEF Init, Halting, InBody, Idle
<1>2. Spec => [](IInv /\ Halting)
  BY <1>1, HaltingKept, Invariance, PTL DEF Spec
<1>3. Halting => SuccessMeansStopped
  BY DEF Halting, SuccessMeansStopped, AllNone
<1> QED BY <1>2, <1>3, PTL

-----------------------------------------------------------------------------
(* Commands are let through to arms that were started.                     *)

\* How far an activation is with starting the programs (step 11).
Starting ==
    /\ InBody /\ cb.name = "activate" /\ cb.step = 11 =>
          \A a \in Arms : a < cb.arm \/ (a = cb.arm /\ cb.wait) => prog[a] # "none"
    /\ ActivatedArmsStarted

\* The start of the programs, arm by arm.
LEMMA StartsOn ==
    ASSUME IInv, Starting, Body, cb.name = "activate"
    PROVE  /\ cb'.result = "none" /\ cb'.step = 11 =>
                 \A a \in Arms : a < cb'.arm \/ (a = cb'.arm /\ cb'.wait) => prog'[a] # "none"
           /\ cb'.result = "SUCCESS" => \A a \in Arms : prog'[a] # "none"
<1>1. /\ InBody /\ cb.step \in 1..11 /\ Len(Script[cb.name]) = 11 /\ cb.arm \in Arms
      /\ RobotType /\ NArms \in Nat /\ Current.do # "kill"
  BY StandsAt, Lengths, Parts, NArmsAssumption DEF Body, RobotFacts
<1>2. \A a \in Arms : prog[a] # "none" => prog'[a] # "none"
  <2>1. CASE UNCHANGED robot
    BY <2>1 DEF robot
  <2>2. CASE Current.do \in KrnxCalls /\ Effect(Current.do, cb.arm)
    BY <1>1, <2>2, Effects
  <2> QED BY <2>1, <2>2 DEF Body, Calls, Waits, Passes
<1>3. CASE cb.step = 11
  <2>1. Current.do = "execute" /\ Current.fail = "FAILURE" /\ Current.do \in KrnxCalls
    BY <1>1, <1>3, StandsAt DEF RobotFacts, CallFacts
  <2>2. Current.do \in PerArm
    BY <2>1 DEF PerArm
  <2>3. \A a \in Arms : a < cb.arm \/ (a = cb.arm /\ cb.wait) => prog'[a] # "none"
    BY <1>1, <1>2, <1>3 DEF Starting
  <2>4. CASE /\ Effect(Current.do, cb.arm) /\ cb'.wait
             /\ cb'.result = "none" /\ cb'.step = cb.step /\ cb'.arm = cb.arm
    <3>1. prog'[cb.arm] # "none"
      BY <1>1, <2>1, <2>4, Effects
    <3> QED BY <2>3, <2>4, <3>1
  <2>5. CASE cb.wait /\ (NextArm \/ LastCall)
    <3>1. \A a \in Arms : a <= cb.arm => prog'[a] # "none"
      BY <1>1, <2>3, <2>5 DEF Arms
    <3>2. CASE NextArm
      <4>1. cb'.arm = cb.arm + 1 /\ ~cb'.wait /\ cb'.result = "none"
        BY <3>2 DEF NextArm
      <4>2. \A a \in Arms : a < cb'.arm => a <= cb.arm
        BY <1>1, <4>1 DEF Arms
      <4> QED BY <3>1, <4>1, <4>2
    <3>3. CASE LastCall
      <4>1. \A a \in Arms : a <= cb.arm
        BY <1>1, <2>2, <3>3 DEF LastCall, Arms
      <4>2. cb'.result = "SUCCESS"
        BY <1>1, <1>3, <3>3 DEF LastCall, At
      <4> QED BY <3>1, <4>1, <4>2
    <3> QED BY <2>5, <3>2, <3>3
  <2>6. CASE GivesUp
    BY <2>1, <2>6 DEF GivesUp
  <2> QED BY <2>1, <2>4, <2>5, <2>6 DEF Body, Calls, Waits, Passes
<1>4. CASE cb.step < 11
  <2>1. Current.do # "execute"
    BY <1>1, <1>4, StandsAt DEF RobotFacts
  <2>2. cb.step = 10 => Current.do # "is_running"
    BY <1>1, StandsAt DEF SessionFacts
  <2>3. \/ cb'.result = "none" /\ cb'.step = 11 => cb'.arm = 1 /\ ~cb'.wait
        \/ cb'.result \in {"ERROR", "FAILURE"}
    <3>1. Current.do \in KrnxCalls => Current.fail \in {"ERROR", "FAILURE", "ignore"}
      BY <1>1, StandsAt DEF FailFacts
    <3>2. NextArm \/ At(cb.step + 1) \/ At(cb.step + 2) \/ cb'.result \in {"ERROR", "FAILURE"}
      BY <2>1, <3>1 DEF Body, Calls, Waits, Passes, LastCall, GivesUp
    <3> QED BY <1>1, <1>4, <3>2 DEF NextArm, At
  <2>4. cb'.result # "SUCCESS"
    <3>1. Current.do \in KrnxCalls => Current.fail \in {"ERROR", "FAILURE", "ignore"}
      BY <1>1, StandsAt DEF FailFacts
    <3>2. \/ NextArm \/ At(cb.step + 1) \/ cb'.result \in {"ERROR", "FAILURE"}
          \/ At(cb.step + 2) /\ cb.step # 10
      BY <2>1, <2>2, <3>1 DEF Body, Calls, Waits, Passes, LastCall, GivesUp
    <3> QED BY <1>1, <1>4, <3>2 DEF NextArm, At
  <2>5. cb'.result = "none" /\ cb'.step = 11 => cb'.arm = 1 /\ ~cb'.wait
    BY <2>3
  <2> QED BY <2>4, <2>5 DEF Arms
<1> QED BY <1>1, <1>3, <1>4

LEMMA StartingKept == IInv /\ Starting /\ [Next]_vars => Starting'
<1> SUFFICES ASSUME IInv, Starting, [Next]_vars PROVE Starting'
  OBVIOUS
<1>0. IInv' /\ RobotType
  BY NextKeeps, Parts
<1>1. CASE Body
  <2>1. InBody /\ cb'.name = cb.name
    BY <1>1 DEF Body
  <2>2. CASE cb.name = "activate"
    <3>1. operation' => cb'.result = "SUCCESS"
      BY <1>0, <2>1, <2>2 DEF IInv, WriteGate, Idle
    <3> QED BY <1>1, <2>1, <2>2, <3>1, StartsOn DEF Starting, InBody, ActivatedArmsStarted
  <2>3. CASE cb.name # "activate"
    <3>1. cb.name # "none"
      BY <2>1 DEF InBody
    <3>2. ~operation'
      BY <1>0, <2>1, <2>3, <3>1 DEF IInv, WriteGate, Idle
    <3> QED BY <2>1, <2>3, <3>2 DEF Starting, ActivatedArmsStarted
  <2> QED BY <2>2, <2>3
<1>2. CASE Begins
  <2>1. cb'.name # "none" /\ cb'.result = "none" /\ cb'.step = 1
    BY <1>2 DEF Begins, Idle, Callbacks
  <2>2. ~operation'
    BY <1>0, <2>1 DEF IInv, WriteGate, Idle
  <2> QED BY <2>1, <2>2 DEF Starting, ActivatedArmsStarted
<1>3. CASE Ends
  <2>1. ASSUME operation' PROVE \A a \in Arms : prog'[a] # "none"
    <3>1. cb'.name = "none" /\ UNCHANGED robot /\ cb.result # "none"
      BY <1>3 DEF Ends, Idle
    <3>2. hw' = "Active"
      BY <1>0, <2>1, <3>1 DEF IInv, WriteGate
    <3>3. \/ cb.name = "activate" /\ cb.result = "SUCCESS"
          \/ cb.name = "deactivate"
      <4>1. cb.name \in Callbacks
        BY <3>1, Parts DEF Control, CbType, ScriptPosition, Idle
      <4> QED BY <1>3, <3>2, <4>1 DEF Ends, NextHw, Callbacks
    <3>4. cb.name = "activate" /\ cb.result = "SUCCESS" => operation
      BY <1>0, Parts DEF Place, CallbackPlace, operation
    <3>5. cb.name = "deactivate" => ~operation'
      <4>1. cb.name = "deactivate" => ~operation /\ hw = "Active"
        BY Parts DEF WriteGate, Idle, Place, CallbackPlace
      <4> QED BY <1>3, <3>2, <4>1 DEF Ends, operation
    <3> QED BY <2>1, <3>1, <3>3, <3>4, <3>5 DEF Starting, ActivatedArmsStarted, robot
  <2> QED BY <1>3, <2>1 DEF Starting, ActivatedArmsStarted, Ends, InBody, Idle
<1>4. CASE Around
  BY <1>4 DEF Around, Starting, ActivatedArmsStarted, operation, InBody
<1>5. CASE ProcessDies
  BY <1>5 DEF ProcessDies, Starting, ActivatedArmsStarted, operation, InBody, Idle
<1> QED BY <1>1, <1>2, <1>3, <1>4, <1>5, Kinds


\* While position commands are let through every arm has a program: activation gives up
\* at the first arm it cannot start, and no callback kills programs before it has
\* stopped the commands.
THEOREM ArmsStarted == Spec => []ActivatedArmsStarted
<1>1. Init => Starting
  BY DEF Init, Starting, ActivatedArmsStarted, operation, InBody, Idle
<1>2. Spec => [](IInv /\ Starting)
  BY <1>1, StartingKept, Invariance, PTL DEF Spec
<1>3. Starting => ActivatedArmsStarted
  BY DEF Starting
<1> QED BY <1>2, <1>3, PTL

-----------------------------------------------------------------------------
(* Configuration recovers.                                                 *)

\* A call of a configuration that is refused has lost its link.
LEMMA RefusedIsLost ==
    ASSUME IInv, Owned, InBody, cb.name = "configure", Current.do \in KrnxCalls,
           ~Accepts(Current.do, cb.arm)
    PROVE  conn = "lost"
<1>1. cb.step \in 1..17 /\ conn \in {"closed", "up", "lost"} /\ Current.do \notin NoLink
  BY StandsAt, Lengths, Parts DEF RobotType, Accepts
<1>2. CASE cb.step = 1
  BY <1>1, <1>2, StandsAt DEF SessionFacts, NoLink
<1>3. CASE cb.step = 2
  <2>1. Current.do = "open" /\ conn # "closed"
    BY <1>3, StandsAt DEF SessionFacts, Accepts
  <2>2. conn # "up"
    BY <1>3, StandsAt DEF Owned, Serving, Opened, Closing
  <2> QED BY <1>1, <2>1, <2>2
<1>4. CASE cb.step > 2
  <2>1. Current.do \notin {"open", "close", "requirements", "power_on", "execute"}
    BY <1>1, <1>4, StandsAt DEF RobotFacts
  <2>2. conn # "closed" /\ conn # "up"
    BY <1>1, <1>4, <2>1, SessionOpen DEF Accepts
  <2> QED BY <1>1, <2>2
<1> QED BY <1>1, <1>2, <1>3, <1>4

LEMMA RecoversKept ==
    ASSUME KrnxCalls \cap Faulty = {}
    PROVE  IInv /\ Owned /\ ConfigureRecovers /\ [Next]_vars => ConfigureRecovers'
<1> SUFFICES ASSUME IInv, Owned, ConfigureRecovers, [Next]_vars,
                    cb'.name = "configure", cb'.result \in {"FAILURE", "ERROR"}
             PROVE  conn' = "lost"
  BY DEF ConfigureRecovers
<1>1. CASE Body
  <2>1. InBody /\ cb.name = "configure" /\ Current.do # "execute"
    BY <1>1, StandsAt DEF Body, RobotFacts
  <2>2. ~NextArm /\ ~LastCall /\ (\A i \in Nat : ~At(i))
    BY DEF NextArm, LastCall, At
  <2>3. Calls /\ cb.step \in Nat
    BY <1>1, <2>1, <2>2, StandsAt DEF Body, Waits, Passes
  <2>4. Current.do \in KrnxCalls /\ ~Accepts(Current.do, cb.arm) /\ UNCHANGED robot
    BY <2>1, <2>2, <2>3 DEF Calls
  <2>5. conn = "lost"
    BY <2>1, <2>4, RefusedIsLost
  <2> QED BY <2>4, <2>5 DEF robot
<1>2. CASE Begins
  BY <1>2 DEF Begins, Idle
<1>3. CASE Ends
  BY <1>3 DEF Ends, Idle
<1>4. CASE Around
  BY <1>4 DEF Around, ConfigureRecovers
<1>5. CASE ProcessDies
  BY <1>5 DEF ProcessDies, Idle
<1> QED BY <1>1, <1>2, <1>3, <1>4, <1>5, Kinds

\* With KRNX calls that do not fail by themselves, whatever error handling, cleanup or a
\* process that died left behind: a configuration fails for a lost link only.
THEOREM Recovers ==
    ASSUME KrnxCalls \cap Faulty = {}
    PROVE  Spec => []ConfigureRecovers
<1>1. {"close", "language"} \cap Faulty = {}
  BY DEF KrnxCalls, Once
<1>2. Init => Owned /\ ConfigureRecovers
  BY DEF Init, Owned, ConfigureRecovers, Idle
<1>3. /\ IInv /\ Owned /\ [Next]_vars => Owned'
      /\ IInv /\ Owned /\ ConfigureRecovers /\ [Next]_vars => ConfigureRecovers'
  BY <1>1, OwnedKept, RecoversKept
<1>4. Spec => [](IInv /\ Owned /\ ConfigureRecovers)
  BY <1>2, <1>3, Invariance, PTL DEF Spec
<1> QED BY <1>4, PTL

-----------------------------------------------------------------------------
(* Callbacks only go forward: the safety half of CallbacksReturn.          *)

\* The callback in progress has returned, or stands at a later routine, at a later
\* arm of the same routine, or at the wait behind the call it has made.  Routines
\* and arms are bounded (ScriptPosition, TypeOK), so this cannot go on for ever.
Further ==
    /\ cb'.name = cb.name
    /\ \/ cb'.result # "none"
       \/ cb'.step > cb.step
       \/ cb'.step = cb.step /\ cb'.arm > cb.arm
       \/ cb'.step = cb.step /\ cb'.arm = cb.arm /\ ~cb.wait /\ cb'.wait

\* Every step of a callback takes it further, whatever its calls do, and no other
\* step, of the update loop, a thread, the manager or the controller, moves it: only
\* the end of the process takes a callback away before it has returned.
CallbackAdvances ==
    [][InBody => \/ Further
                 \/ ~CallbackStep /\ UNCHANGED cb
                 \/ ProcessDies]_vars

\* A place later in the script is further.
LEMMA LaterIsFurther ==
    ASSUME Control, InBody, cb'.name = cb.name, NEW i \in Nat, i > cb.step, At(i)
    PROVE  Further
<1>1. cb.step \in Nat
  BY Standing
<1> QED BY <1>1 DEF At, Further

\* So is what follows a call that was served, that failed, or that was waited for.
LEMMA OnwardsIsFurther ==
    ASSUME Control, InBody, cb'.name = cb.name,
           \/ NextArm \/ LastCall
           \/ GivesUp /\ (Current.do \in KrnxCalls)
    PROVE  Further
<1>1. cb.step \in Nat /\ cb.arm \in Nat /\ cb.step + 1 \in Nat /\ cb.step + 1 > cb.step
  BY Standing, NArmsAssumption DEF Arms
<1>2. CASE NextArm
  BY <1>1, <1>2 DEF NextArm, Further
<1>3. CASE LastCall
  BY <1>1, <1>3, LaterIsFurther DEF LastCall
<1>4. CASE GivesUp /\ Current.do \in KrnxCalls
  <2>1. CASE At(cb.step + 1)
    BY <1>1, <2>1, LaterIsFurther
  <2>2. CASE Current.fail # "ignore" /\ cb'.result = Current.fail
    <3>1. Current.fail \in {"ERROR", "FAILURE", "ignore"}
      BY <1>4, Standing DEF FailFacts
    <3> QED BY <2>2, <3>1 DEF Further
  <2> QED BY <1>4, <2>1, <2>2 DEF GivesUp
<1> QED BY <1>2, <1>3, <1>4

LEMMA BodyIsFurther ==
    ASSUME IInv, Body
    PROVE  Further
<1>1. Control /\ InBody /\ cb'.name = cb.name /\ cb.result = "none"
  BY Parts DEF Body, InBody
<1>2. CASE Calls
  <2>1. CASE GivesUp \/ NextArm \/ LastCall
    BY <1>1, <1>2, <2>1, OnwardsIsFurther DEF Calls
  <2>2. CASE /\ cb'.result = "none" /\ cb'.step = cb.step /\ cb'.arm = cb.arm /\ cb'.wait
    BY <1>1, <1>2, <2>2 DEF Further, Calls
  <2> QED BY <1>2, <2>1, <2>2 DEF Calls
<1>3. CASE Waits
  <2>1. Current.do \in KrnxCalls
    BY <1>3 DEF Waits, KrnxCalls, PerArm
  <2> QED BY <1>1, <1>3, <2>1, OnwardsIsFurther DEF Waits
<1>4. CASE Passes
  <2>1. /\ cb.step + 1 \in Nat /\ cb.step + 1 > cb.step
        /\ cb.step + 2 \in Nat /\ cb.step + 2 > cb.step
    BY <1>1, Standing
  <2> QED BY <1>1, <1>4, <2>1, LaterIsFurther DEF Passes
<1> QED BY <1>2, <1>3, <1>4 DEF Body

\* The manager and the update loop wait for a callback in progress.
LEMMA OthersWait ==
    ASSUME IInv, InBody, [Next]_vars
    PROVE  CallbackStep \/ UNCHANGED cb \/ ProcessDies
<1>1. cb # Idle /\ cb.result = "none"
  BY DEF InBody, Idle
<1>2. ~(\E n \in Callbacks : Request(n)) /\ ~Return /\ ~RaiseError /\ ~RaiseDeactivate
  BY <1>1 DEF Request, Return, RaiseError, RaiseDeactivate
<1> QED BY <1>2, AroundKinds DEF Next, UpdateStep, Around

\* A callback never goes back and never repeats a call for the same arm, whatever its
\* calls, the threads and the controller do: that it also returns needs no more than
\* that it keeps taking steps.
THEOREM Advances == Spec => CallbackAdvances
<1>1. IInv /\ [Next]_vars =>
          [InBody => Further \/ (~CallbackStep /\ UNCHANGED cb) \/ ProcessDies]_vars
  BY BodyKinds, BodyIsFurther, OthersWait
<1> QED BY <1>1, Invariance, PTL DEF Spec, CallbackAdvances
=============================================================================
