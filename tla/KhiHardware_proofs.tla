------------------------- MODULE KhiHardware_proofs -------------------------
(***************************************************************************)
(* Proofs about KhiHardware for every number of arms, every set of calls   *)
(* that may fail, every update rate, and with or without overlap of update *)
(* loop and callbacks: the inductive invariant IInv, what follows from it, *)
(* and the two refinements.                                                *)
(***************************************************************************)
EXTENDS KhiHardware, TLAPS

-----------------------------------------------------------------------------
(* Facts about the scripts.                                                *)

\* The script of each callback, by name.
LEMMA ScriptOf ==
    /\ Script["init"] = InitScript
    /\ Script["configure"] = ConfigureScript
    /\ Script["activate"] = ActivateScript
    /\ Script["deactivate"] = DeactivateScript
    /\ Script["cleanup"] = CleanupScript
    /\ Script["shutdown"] = ShutdownScript
    /\ Script["error"] = ErrorScript
    /\ Script["destroy"] = DestructorScript
BY DEF Script

\* The number of routines of each callback.
LEMMA Lengths ==
    /\ Len(Script["init"]) = 4
    /\ Len(Script["configure"]) = 17
    /\ Len(Script["activate"]) = 11
    /\ Len(Script["deactivate"]) = 3
    /\ Len(Script["cleanup"]) = 4
    /\ Len(Script["shutdown"]) = 8
    /\ Len(Script["error"]) = 7
    /\ Len(Script["destroy"]) = 9
BY ScriptOf DEF InitScript, ConfigureScript, ActivateScript, DeactivateScript, CleanupScript,
                ShutdownScript, ErrorScript, DestructorScript

\* Script lengths are positive numbers.
LEMMA LengthType ==
    ASSUME NEW n \in Callbacks
    PROVE  Len(Script[n]) \in Nat \ {0}
<1>1. CASE n = "init"
  BY <1>1, Lengths
<1>2. CASE n = "configure"
  BY <1>2, Lengths
<1>3. CASE n = "activate"
  BY <1>3, Lengths
<1>4. CASE n = "deactivate"
  BY <1>4, Lengths
<1>5. CASE n = "cleanup"
  BY <1>5, Lengths
<1>6. CASE n = "shutdown"
  BY <1>6, Lengths
<1>7. CASE n = "error"
  BY <1>7, Lengths
<1>8. CASE n = "destroy"
  BY <1>8, Lengths
<1> QED BY <1>1, <1>2, <1>3, <1>4, <1>5, <1>6, <1>7, <1>8 DEF Callbacks

\* The steps of the teardowns, by name.
LEMMA Steps ==
    /\ DOMAIN StopStep = {"cleanup", "shutdown", "error", "destroy"}
    /\ DOMAIN JoinStep = {"cleanup", "shutdown", "error", "destroy"}
    /\ DOMAIN SpinStep = {"shutdown", "destroy"}
    /\ StopStep["cleanup"] = 1 /\ StopStep["shutdown"] = 1 /\ StopStep["error"] = 1
    /\ StopStep["destroy"] = 5
    /\ JoinStep["cleanup"] = 3 /\ JoinStep["shutdown"] = 4 /\ JoinStep["error"] = 3
    /\ JoinStep["destroy"] = 8
    /\ SpinStep["shutdown"] = 2 /\ SpinStep["destroy"] = 6
BY DEF StopStep, JoinStep, SpinStep

\* The routines that start and stop threads or create and drop the driver.
Threaded == {"create_driver", "init_service", "drop_driver", "start_services", "stop_services",
             "join_service", "start_publishers", "stop_publishers", "join_publishers"}

\* What callback n does when the routine of its step i fails.
FailFacts(n, i) ==
    Script[n][i].do \in KrnxCalls =>
        /\ Script[n][i].fail \in {"ERROR", "FAILURE", "ignore"}
        /\ n \in {"shutdown", "error", "destroy"} => Script[n][i].fail = "ignore"

\* Where the threaded routines stand.
ThreadFacts(n, i) ==
    LET do == Script[n][i].do
    IN  /\ do = "create_driver" <=> n = "init" /\ i = 2
        /\ do = "init_service" <=> n = "init" /\ i = 4
        /\ do = "drop_driver" <=> n = "destroy" /\ i = 9
        /\ do = "start_services" <=> n = "configure" /\ i = 16
        /\ do = "start_publishers" <=> n = "configure" /\ i = 17
        /\ do = "stop_services" <=> \/ n \in {"cleanup", "shutdown", "error"} /\ i = 1
                                    \/ n = "destroy" /\ i = 5
        /\ do = "join_service" <=> \/ n = "shutdown" /\ i = 2
                                   \/ n = "destroy" /\ i = 6
        /\ do = "stop_publishers" <=> \/ n \in {"cleanup", "error"} /\ i = 2
                                      \/ n = "shutdown" /\ i = 3
                                      \/ n = "destroy" /\ i = 7
        /\ do = "join_publishers" <=> \/ n \in {"cleanup", "error"} /\ i = 3
                                      \/ n = "shutdown" /\ i = 4
                                      \/ n = "destroy" /\ i = 8

\* Where the session is opened and closed, and where programs are asked for.
SessionFacts(n, i) ==
    LET do == Script[n][i].do
    IN  /\ n = "configure" /\ i = 2 => do = "open" /\ Script[n][i].fail = "ERROR"
        /\ n = "configure" /\ i = 1 => do = "periodic_data"
        /\ do = "close" => n \in {"cleanup", "shutdown", "error", "destroy"}
        /\ do = "close" /\ n \in {"cleanup", "error"} => i > 3
        /\ do = "close" /\ n = "shutdown" => i > 4
        /\ do = "is_running" => \/ n = "configure" /\ i \in {5, 8}
                                \/ n = "activate" /\ i = 5
        /\ do = "execute" => n = "activate"

\* The scripts, read step by step.
LEMMA ScriptFacts ==
    ASSUME NEW n \in Callbacks, NEW i \in 1..Len(Script[n])
    PROVE  FailFacts(n, i) /\ ThreadFacts(n, i) /\ SessionFacts(n, i)
<1>1. CASE n = "init"
  <2>1. FailFacts(n, i)
    BY <1>1, ScriptOf, Lengths DEF FailFacts, InitScript, S, KrnxCalls, PerArm, Once, NoLink
  <2>2. ThreadFacts(n, i)
    BY <1>1, ScriptOf, Lengths DEF ThreadFacts, InitScript, S
  <2>3. SessionFacts(n, i)
    BY <1>1, ScriptOf, Lengths DEF SessionFacts, InitScript, S
  <2> QED BY <2>1, <2>2, <2>3
<1>2. CASE n = "configure"
  <2>1. FailFacts(n, i)
    BY <1>2, ScriptOf, Lengths DEF FailFacts, ConfigureScript, S, KrnxCalls, PerArm, Once, NoLink
  <2>2. ThreadFacts(n, i)
    BY <1>2, ScriptOf, Lengths DEF ThreadFacts, ConfigureScript, S
  <2>3. SessionFacts(n, i)
    BY <1>2, ScriptOf, Lengths DEF SessionFacts, ConfigureScript, S
  <2> QED BY <2>1, <2>2, <2>3
<1>3. CASE n = "activate"
  <2>1. FailFacts(n, i)
    BY <1>3, ScriptOf, Lengths DEF FailFacts, ActivateScript, S, KrnxCalls, PerArm, Once, NoLink
  <2>2. ThreadFacts(n, i)
    BY <1>3, ScriptOf, Lengths DEF ThreadFacts, ActivateScript, S
  <2>3. SessionFacts(n, i)
    BY <1>3, ScriptOf, Lengths DEF SessionFacts, ActivateScript, S
  <2> QED BY <2>1, <2>2, <2>3
<1>4. CASE n = "deactivate"
  <2>1. FailFacts(n, i)
    BY <1>4, ScriptOf, Lengths DEF FailFacts, DeactivateScript, S, KrnxCalls, PerArm, Once, NoLink
  <2>2. ThreadFacts(n, i)
    BY <1>4, ScriptOf, Lengths DEF ThreadFacts, DeactivateScript, S
  <2>3. SessionFacts(n, i)
    BY <1>4, ScriptOf, Lengths DEF SessionFacts, DeactivateScript, S
  <2> QED BY <2>1, <2>2, <2>3
<1>5. CASE n = "cleanup"
  <2>1. FailFacts(n, i)
    BY <1>5, ScriptOf, Lengths DEF FailFacts, CleanupScript, S, KrnxCalls, PerArm, Once, NoLink
  <2>2. ThreadFacts(n, i)
    BY <1>5, ScriptOf, Lengths DEF ThreadFacts, CleanupScript, S
  <2>3. SessionFacts(n, i)
    BY <1>5, ScriptOf, Lengths DEF SessionFacts, CleanupScript, S
  <2> QED BY <2>1, <2>2, <2>3
<1>6. CASE n = "shutdown"
  <2>1. FailFacts(n, i)
    BY <1>6, ScriptOf, Lengths DEF FailFacts, ShutdownScript, S, KrnxCalls, PerArm, Once, NoLink
  <2>2. ThreadFacts(n, i)
    BY <1>6, ScriptOf, Lengths DEF ThreadFacts, ShutdownScript, S
  <2>3. SessionFacts(n, i)
    BY <1>6, ScriptOf, Lengths DEF SessionFacts, ShutdownScript, S
  <2> QED BY <2>1, <2>2, <2>3
<1>7. CASE n = "error"
  <2>1. FailFacts(n, i)
    BY <1>7, ScriptOf, Lengths DEF FailFacts, ErrorScript, S, KrnxCalls, PerArm, Once, NoLink
  <2>2. ThreadFacts(n, i)
    BY <1>7, ScriptOf, Lengths DEF ThreadFacts, ErrorScript, S
  <2>3. SessionFacts(n, i)
    BY <1>7, ScriptOf, Lengths DEF SessionFacts, ErrorScript, S
  <2> QED BY <2>1, <2>2, <2>3
<1>8. CASE n = "destroy"
  <2>1. FailFacts(n, i)
    BY <1>8, ScriptOf, Lengths DEF FailFacts, DestructorScript, S, KrnxCalls, PerArm, Once, NoLink
  <2>2. ThreadFacts(n, i)
    BY <1>8, ScriptOf, Lengths DEF ThreadFacts, DestructorScript, S
  <2>3. SessionFacts(n, i)
    BY <1>8, ScriptOf, Lengths DEF SessionFacts, DestructorScript, S
  <2> QED BY <2>1, <2>2, <2>3
<1> QED BY <1>1, <1>2, <1>3, <1>4, <1>5, <1>6, <1>7, <1>8 DEF Callbacks

-----------------------------------------------------------------------------
(* Control: how a callback moves in its script.                            *)

CbType == cb \in [name : Callbacks \cup {"none"}, step : Nat \ {0}, arm : Arms,
                  wait : BOOLEAN, result : Results]

Control == CbType /\ flags \subseteq Callbacks /\ write_enabled_ \in BOOLEAN /\ ScriptPosition

\* In the body only an activation that succeeds opens the gate of the commands.
BodyMove ==
    /\ cb'.name = cb.name
    /\ write_enabled_' <=> write_enabled_ \/ (cb.name = "activate" /\ cb'.result = "SUCCESS")

\* The callback stays in its routine, goes to the next one, ends with its last
\* one, or ends with the failure of a call it does not ignore.
Goes == \/ cb'.result = "none" /\ cb'.step \in {cb.step, cb.step + 1}
        \/ cb'.result = "SUCCESS" /\ cb.step = Len(Script[cb.name])
        \/ /\ cb'.result \in {"FAILURE", "ERROR"}
           /\ Current.do \in KrnxCalls /\ Current.fail = cb'.result

\* Where the callback stands, and what the scripts say of it there.
LEMMA Standing ==
    ASSUME Control, InBody
    PROVE  /\ cb.name \in Callbacks /\ cb.arm \in Arms
           /\ Len(Script[cb.name]) \in Nat \ {0} /\ cb.step \in 1..Len(Script[cb.name])
           /\ Current = Script[cb.name][cb.step]
           /\ FailFacts(cb.name, cb.step) /\ ThreadFacts(cb.name, cb.step)
           /\ SessionFacts(cb.name, cb.step)
<1>1. cb.name \in Callbacks /\ cb.arm \in Arms /\ cb.step \in 1..Len(Script[cb.name])
  BY DEF Control, CbType, InBody, ScriptPosition
<1>2. Len(Script[cb.name]) \in Nat \ {0}
  BY <1>1, LengthType
<1>3. Current = Script[cb.name][cb.step]
  BY DEF Current
<1> QED BY <1>1, <1>2, <1>3, ScriptFacts

\* A callback that returns keeps its place and closes, or as an activation that
\* succeeds opens, the gate of the commands (the returns of the on_... handlers).
LEMMA Ended ==
    ASSUME Control, InBody, NEW r \in {"SUCCESS", "FAILURE", "ERROR"}, Complete(r)
    PROVE  Control' /\ BodyMove /\ cb'.result = r
<1>1. Control'
  BY DEF Control, CbType, InBody, Complete, ScriptPosition, FlagCleared, Results, Idle
<1>2. BodyMove /\ cb'.result = r
  BY DEF Control, CbType, InBody, Complete, BodyMove
<1> QED BY <1>1, <1>2

\* Going on to a routine lands in the script, or ends the callback with SUCCESS
\* (the handler has run its last routine).
LEMMA GoToMove ==
    ASSUME Control, InBody, NEW i \in Nat \ {0}, GoTo(i)
    PROVE  /\ Control' /\ BodyMove
           /\ \/ i <= Len(Script[cb.name]) /\ cb'.result = "none" /\ cb'.step = i
              \/ i > Len(Script[cb.name]) /\ cb'.result = "SUCCESS"
<1>1. cb.name \in Callbacks /\ Len(Script[cb.name]) \in Nat \ {0}
  BY Standing
<1>2. CASE i > Len(Script[cb.name])
  BY <1>1, <1>2, Ended DEF GoTo, BodyMove
<1>3. CASE ~(i > Len(Script[cb.name]))
  <2>1. cb' = [cb EXCEPT !.step = i, !.arm = 1, !.wait = FALSE] /\ UNCHANGED interface
    BY <1>3 DEF GoTo
  <2>2. 1 \in Arms
    BY NArmsAssumption DEF Arms
  <2>3. i <= Len(Script[cb.name])
    BY <1>1, <1>3
  <2>4. CbType' /\ cb'.name = cb.name /\ cb'.result = "none" /\ cb'.step = i /\ cb'.wait = FALSE
    BY <2>1, <2>2 DEF Control, CbType, InBody
  <2>5. ScriptPosition'
    BY <1>1, <2>3, <2>4 DEF ScriptPosition, InBody, Callbacks
  <2>6. flags' \subseteq Callbacks /\ write_enabled_' \in BOOLEAN /\ write_enabled_' = write_enabled_
    BY <2>1 DEF Control, interface
  <2> QED BY <2>3, <2>4, <2>5, <2>6 DEF Control, BodyMove
<1> QED BY <1>2, <1>3

\* A routine that is over is followed by the next, or by the end of the callback.
LEMMA NextMove ==
    ASSUME Control, InBody, GoTo(cb.step + 1)
    PROVE  /\ Control' /\ BodyMove /\ Goes
           /\ \/ /\ cb.step < Len(Script[cb.name])
                 /\ cb'.result = "none" /\ cb'.step = cb.step + 1
              \/ cb.step = Len(Script[cb.name]) /\ cb'.result = "SUCCESS"
<1>1. cb.step \in 1..Len(Script[cb.name]) /\ Len(Script[cb.name]) \in Nat \ {0}
  BY Standing
<1>2. cb.step + 1 \in Nat \ {0}
  BY <1>1
<1> QED BY <1>1, <1>2, GoToMove DEF Goes

\* Serving the next arm, or leaving the loop over the arms, keeps the callback in
\* its script.
LEMMA AdvanceMove ==
    ASSUME Control, InBody, Advance
    PROVE  Control' /\ BodyMove /\ Goes
<1>1. CASE Current.do \in PerArm /\ cb.arm < NArms
  <2>1. cb' = [cb EXCEPT !.arm = @ + 1, !.wait = FALSE] /\ UNCHANGED interface
    BY <1>1 DEF Advance
  <2>2. cb.arm + 1 \in Arms
    BY <1>1, NArmsAssumption DEF Arms, Control, CbType
  <2>3. /\ CbType' /\ cb'.name = cb.name /\ cb'.result = "none"
        /\ cb'.step = cb.step /\ cb'.wait = FALSE
    BY <2>1, <2>2 DEF Control, CbType, InBody
  <2>4. ScriptPosition'
    BY <2>3 DEF Control, ScriptPosition, InBody
  <2>5. flags' \subseteq Callbacks /\ write_enabled_' \in BOOLEAN /\ write_enabled_' = write_enabled_
    BY <2>1 DEF Control, interface
  <2> QED BY <2>3, <2>4, <2>5 DEF Control, BodyMove, Goes
<1>2. CASE ~(Current.do \in PerArm /\ cb.arm < NArms)
  BY <1>2, NextMove DEF Advance
<1> QED BY <1>1, <1>2

\* A routine that reports failure ends the callback, unless the callback ignores it
\* (on_shutdown, on_error and the destructor do).
LEMMA FailMove ==
    ASSUME Control, InBody, Current.do \in KrnxCalls, Fail
    PROVE  /\ Control' /\ BodyMove /\ Goes
           /\ Current.fail # "ignore" => cb'.result # "none"
<1>1. Current.fail \in {"ERROR", "FAILURE", "ignore"}
  BY Standing DEF FailFacts
<1>2. CASE Current.fail = "ignore"
  BY <1>2, NextMove DEF Fail
<1>3. CASE Current.fail # "ignore"
  <2>1. Complete(Current.fail) /\ Current.fail \in {"FAILURE", "ERROR"}
    BY <1>1, <1>3 DEF Fail
  <2>2. Control' /\ BodyMove /\ cb'.result = Current.fail
    BY <2>1, Ended
  <2> QED BY <2>1, <2>2 DEF Goes
<1> QED BY <1>2, <1>3

\* A callback that starts stands at its first routine; unless it is one that leaves
\* it alone, the gate is closed.
LEMMA StartMove ==
    ASSUME Control, NEW n \in Callbacks, Start(n)
    PROVE  /\ Control' /\ InBody' /\ cb'.name = n /\ cb'.step = 1 /\ cb'.result = "none"
           /\ write_enabled_' => write_enabled_ /\ n \in Unflagged
<1>1. Len(Script[n]) \in Nat \ {0}
  BY LengthType
<1>2. 1 \in Arms
  BY NArmsAssumption DEF Arms
<1>3. /\ CbType' /\ cb'.name = n /\ cb'.step = 1 /\ cb'.result = "none"
      /\ cb'.wait = FALSE
  <2>1. cb' = [name |-> n, step |-> 1, arm |-> 1, wait |-> FALSE, result |-> "none"]
    BY DEF Start, Idle
  <2> QED BY <1>2, <2>1 DEF CbType, Results
<1>4. InBody' /\ ScriptPosition'
  BY <1>1, <1>3 DEF InBody, ScriptPosition, Callbacks
<1>5. flags' \subseteq Callbacks
  BY DEF Control, Start
<1>6. write_enabled_' \in BOOLEAN /\ (write_enabled_' => write_enabled_ /\ n \in Unflagged)
  BY DEF Control, Start
<1> QED BY <1>3, <1>4, <1>5, <1>6 DEF Control
-----------------------------------------------------------------------------
(* The other variables.                                                    *)

RobotType == /\ conn \in {"closed", "up", "lost"}
             /\ motor \in BOOLEAN /\ ready \in BOOLEAN
             /\ prog \in [Arms -> ProgStates]
             /\ err \subseteq Arms

ThreadType == /\ driver \in BOOLEAN /\ services \in BOOLEAN /\ spinning \in BOOLEAN
              /\ publishers \in BOOLEAN /\ should_stop \in BOOLEAN
              /\ inCall \subseteq Background

LoopType == /\ hw \in HwStates
            /\ upd \in {"idle", "read_link", "read_lost", "read_data", "write_link",
                        "write_able", "write_send", "error", "deactivate", "in_callback"}

Place == CallbackPlace /\ ServicePlace /\ PublisherPlace /\ SpinPlace /\ DriverPlace

\* IInv, cut along the variables that an action changes together.
LEMMA Parts ==
    /\ IInv <=> /\ Control /\ RobotType /\ ThreadType /\ LoopType
                /\ WriteGate /\ Place /\ SessionPlace /\ CallersExist
    /\ IInv' <=> /\ Control' /\ RobotType' /\ ThreadType' /\ LoopType'
                 /\ WriteGate' /\ Place' /\ SessionPlace' /\ CallersExist'
BY DEF IInv, TypeOK, Control, CbType, RobotType, ThreadType, LoopType, Place

\* Where a teardown still has services, service thread and publisher threads.
Stopping == InBody /\ \/ cb.name \in {"cleanup", "shutdown", "error"} /\ cb.step <= 1
                      \/ cb.name = "destroy" /\ cb.step <= 5
Spinning == InBody /\ \/ cb.name = "shutdown" /\ cb.step <= 2
                      \/ cb.name = "destroy" /\ cb.step <= 6
Joining  == InBody /\ \/ cb.name \in {"cleanup", "error"} /\ cb.step <= 3
                      \/ cb.name = "shutdown" /\ cb.step <= 4
                      \/ cb.name = "destroy" /\ cb.step <= 8

\* The tables of the teardown steps, read out.
LEMMA Tables ==
    /\ (Before(StopStep) <=> Stopping) /\ (Before(StopStep)' <=> Stopping')
    /\ (Before(SpinStep) <=> Spinning) /\ (Before(SpinStep)' <=> Spinning')
    /\ (Before(JoinStep) <=> Joining) /\ (Before(JoinStep)' <=> Joining')
<1>1. (Before(StopStep) <=> Stopping) /\ (Before(StopStep)' <=> Stopping')
  BY Steps DEF Before, Stopping, StopStep
<1>2. (Before(SpinStep) <=> Spinning) /\ (Before(SpinStep)' <=> Spinning')
  BY Steps DEF Before, Spinning, SpinStep
<1>3. (Before(JoinStep) <=> Joining) /\ (Before(JoinStep)' <=> Joining')
  BY Steps DEF Before, Joining, JoinStep
<1> QED BY <1>1, <1>2, <1>3

-----------------------------------------------------------------------------
(* Steps of a callback.                                                    *)

\* A callback goes on, or jumps over the hold when no program runs.
Skips == Current.do = "is_running" /\ cb'.result = "none" /\ cb'.step = cb.step + 2

\* Whatever a step of a callback does, the callback stays where the manager started
\* it, and commands are let through only by an activation that succeeds.
LEMMA BodyCommon ==
    ASSUME IInv, InBody, Control', BodyMove, Goes \/ Skips, UNCHANGED <<hw, upd>>
    PROVE  LoopType' /\ CallbackPlace' /\ WriteGate'
<1>1. /\ cb.name \in Callbacks /\ cb'.name = cb.name /\ cb.result = "none" /\ hw' = hw
      /\ FailFacts(cb.name, cb.step) /\ Current = Script[cb.name][cb.step]
  BY Parts, Standing DEF BodyMove, InBody
<1>2. LoopType'
  BY Parts DEF LoopType
<1>3. cb.name \in {"shutdown", "error", "destroy"} => cb'.result \in {"none", "SUCCESS"}
  BY <1>1 DEF Goes, Skips, FailFacts
<1>4. CallbackPlace'
  BY <1>1, <1>3, Parts DEF Place, CallbackPlace, BodyMove
<1>5. ~operation
  BY <1>1, Parts DEF WriteGate, InBody, Idle
<1>6. operation' => cb.name = "activate" /\ cb'.result = "SUCCESS"
  <2>1. cb.name # "destroy" => hw # "Destroyed"
    BY <1>1, Parts DEF Place, CallbackPlace, Callbacks, LiveStates
  <2> QED BY <1>1, <1>5, <2>1, Parts DEF operation, BodyMove, Control
<1>7. WriteGate'
  BY <1>1, <1>6 DEF WriteGate
<1> QED BY <1>2, <1>4, <1>7

\* A body step that leaves threads and state alone, at a routine that starts, stops
\* or joins nothing, keeps the invariant, if it leaves the session open for the
\* publishers that exist.
LEMMA QuietStep ==
    ASSUME IInv, InBody, Control', BodyMove, Goes \/ Skips, RobotType',
           Current.do \notin Threaded,
           UNCHANGED <<hw, upd, threads>>,
           publishers /\ cb.name # "destroy" => conn' # "closed",
           InBody' /\ cb'.name = "configure" /\ cb'.step > 2 => conn' # "closed"
    PROVE  IInv'
<1>1. /\ cb.name \in Callbacks /\ cb'.name = cb.name /\ cb.result = "none" /\ cb.name # "none"
      /\ cb.step \in 1..Len(Script[cb.name]) /\ cb.step \in Nat
      /\ ThreadFacts(cb.name, cb.step) /\ SessionFacts(cb.name, cb.step)
      /\ Current = Script[cb.name][cb.step]
  BY Parts, Standing DEF BodyMove, InBody
<1>2. /\ driver' = driver /\ services' = services /\ spinning' = spinning
      /\ publishers' = publishers /\ should_stop' = should_stop /\ inCall' = inCall
      /\ hw' = hw /\ ThreadType'
  BY Parts DEF threads, ThreadType
<1>3. LoopType' /\ CallbackPlace' /\ WriteGate'
  BY BodyCommon
\* How far the callback gets: not past a step that starts or stops something.
<1>4. /\ cb'.result = "none" => \/ cb'.step \in {cb.step, cb.step + 1}
                                \/ cb.name \in {"configure", "activate"} /\ cb'.step = cb.step + 2
      /\ cb'.result = "none" /\ cb.name = "configure" /\ cb'.step = cb.step + 2 => cb.step \in {5, 8}
      /\ cb.name = "configure" => cb.step \notin {16, 17}
      /\ cb.name = "init" => cb.step \notin {2, 4}
      /\ cb.name \in {"cleanup", "error"} => cb.step \notin {1, 2, 3}
      /\ cb.name = "shutdown" => cb.step \notin {1, 2, 3, 4}
      /\ cb.name = "destroy" => cb.step \notin {5, 6, 7, 8, 9}
  BY <1>1 DEF Threaded, ThreadFacts, SessionFacts, Goes, Skips
\* A callback that ends here succeeds only as an activation or deactivation.
<1>5. /\ cb.name \in {"init", "configure", "destroy"} => cb'.result # "SUCCESS"
      /\ cb.name = "destroy" => cb'.result = "none"
  <2>1. cb.name \in {"init", "configure", "destroy"} => cb'.result # "SUCCESS"
    BY <1>1, <1>4, Lengths DEF Goes, Skips
  <2>2. cb.name = "destroy" => cb'.result \in {"none", "SUCCESS"}
    BY <1>1, <1>3 DEF CallbackPlace
  <2> QED BY <2>1, <2>2
<1>6. InBody' <=> cb'.result = "none"
  BY <1>1 DEF InBody
<1>7. ServicePlace'
  <2>1. services => Serving \/ Stopping
    BY <1>1, <1>4, Tables, Parts DEF Place, ServicePlace, Configured
  <2>2. Serving => Serving'
    BY <1>1, <1>2 DEF Serving
  <2>3. Stopping => Stopping'
    BY <1>1, <1>4, <1>5, <1>6 DEF Stopping
  <2>4. ~Configured'
    BY <1>1, <1>5 DEF Configured
  <2>5. ~(cb'.name = "configure" /\ InBody' /\ cb'.step = 17)
    BY <1>1, <1>4, <1>5, <1>6
  <2>6. Serving' => services
    BY <1>1, <1>2, Parts DEF Place, ServicePlace, Serving
  <2> QED BY <1>2, <2>1, <2>2, <2>3, <2>4, <2>5, <2>6, Tables DEF ServicePlace
<1>8. PublisherPlace'
  <2>1. publishers => hw \in LiveStates /\ (Serving \/ Joining)
    BY <1>1, Tables, Parts DEF Place, PublisherPlace, Configured
  <2>2. (Serving => Serving') /\ (Serving' => publishers)
    BY <1>1, <1>2, Parts DEF Place, PublisherPlace, Serving
  <2>3. Joining => Joining'
    BY <1>1, <1>4, <1>5, <1>6 DEF Joining
  <2>4. ~Configured'
    BY <1>1, <1>5 DEF Configured
  <2>5. InBody' => Current'.do # "join_publishers"
    <3> SUFFICES ASSUME InBody' PROVE Current'.do # "join_publishers"
      OBVIOUS
    <3>1. cb'.name \in Callbacks /\ cb'.step \in 1..Len(Script[cb'.name])
      BY <1>1 DEF Control, ScriptPosition
    <3>2. ThreadFacts(cb'.name, cb'.step) /\ Current' = Script[cb'.name][cb'.step]
      BY <3>1, ScriptFacts DEF Current
    <3> QED BY <1>1, <1>4, <1>6, <3>2 DEF ThreadFacts
  <2> QED BY <1>2, <2>1, <2>2, <2>3, <2>4, <2>5, Tables DEF PublisherPlace
<1>9. SpinPlace'
  <2>1. spinning => hw \in LiveStates /\ (cb.name \in {"shutdown", "destroy"} => Spinning)
    BY <1>1, Steps, Tables, Parts DEF Place, SpinPlace
  <2>2. Spinning => Spinning'
    BY <1>1, <1>4, <1>5, <1>6 DEF Spinning
  <2> QED BY <1>1, <1>2, <2>1, <2>2, Steps, Tables DEF SpinPlace
<1>10. DriverPlace'
  <2>1. cb.name = "destroy" => InBody'
    BY <1>1, <1>5, <1>6
  <2>2. cb.name = "init" /\ InBody' /\ cb'.step > 2 => cb.step > 2
    BY <1>1, <1>4, <1>6
  <2> QED BY <1>1, <1>2, <1>5, <2>1, <2>2, Parts DEF Place, DriverPlace, InBody
<1>11. SessionPlace' /\ CallersExist'
  BY <1>1, <1>2, Parts DEF SessionPlace, CallersExist
<1> QED BY <1>2, <1>3, <1>7, <1>8, <1>9, <1>10, <1>11, Parts DEF Place

\* A KRNX call keeps the types of the controller; only close closes the session.
LEMMA EffectOnRobot ==
    ASSUME RobotType, NEW do \in KrnxCalls, NEW a \in Arms, Effect(do, a)
    PROVE  /\ RobotType'
           /\ do # "close" /\ conn # "closed" => conn' # "closed"
           /\ do = "open" => conn' = "up"
<1>1. \A p \in ProgStates : Stopped(p) \in ProgStates
  BY DEF Stopped, ProgStates
<1>2. CASE do = "open" /\ open
  BY <1>2 DEF open, RobotType
<1>3. CASE do = "close" /\ close
  BY <1>3 DEF close, RobotType
<1>4. CASE do = "hold" /\ hold(a)
  BY <1>1, <1>4 DEF hold, RobotType
<1>5. CASE do = "kill" /\ kill_program(a)
  BY <1>5 DEF kill_program, RobotType, ProgStates
<1>6. CASE do = "reset_error" /\ reset_error(a)
  BY <1>6 DEF reset_error, RobotType
<1>7. CASE do = "power_on" /\ power_on_motor
  BY <1>7 DEF power_on_motor, RobotType
<1>8. CASE do = "power_off" /\ power_off_motor
  BY <1>1, <1>8 DEF power_off_motor, RobotType
<1>9. CASE do = "execute" /\ exec_rtc_program(a)
  BY <1>9 DEF exec_rtc_program, RobotType, ProgStates
<1>10. CASE do \notin {"open", "close", "hold", "kill", "reset_error", "power_on",
                       "power_off", "execute"} /\ UNCHANGED robot
  BY <1>10 DEF robot, RobotType
<1> QED BY <1>2, <1>3, <1>4, <1>5, <1>6, <1>7, <1>8, <1>9, <1>10 DEF Effect

\* A body step that leaves the controller alone keeps what is known of it.
LEMMA RobotUnchanged ==
    ASSUME IInv, UNCHANGED robot
    PROVE  RobotType' /\ conn' = conn
BY Parts DEF robot, RobotType

\* No KRNX call starts, stops or joins a thread.
LEMMA KrnxNotThreaded == KrnxCalls \cap Threaded = {} /\ "is_running" \notin KrnxCalls \cup Threaded
BY DEF KrnxCalls, PerArm, Once, NoLink, Threaded

\* A KRNX call of a callback keeps the invariant, whether it was served, refused
\* or lost.
LEMMA KrnxCallKeeps == IInv /\ KrnxCall => IInv'
<1> SUFFICES ASSUME IInv, KrnxCall PROVE IInv'
  OBVIOUS
<1>1. /\ InBody /\ Current.do \in KrnxCalls /\ cb.arm \in Arms /\ cb.name \in Callbacks
      /\ cb.step \in 1..Len(Script[cb.name]) /\ UNCHANGED <<hw, upd, threads>>
      /\ FailFacts(cb.name, cb.step) /\ SessionFacts(cb.name, cb.step)
      /\ Current = Script[cb.name][cb.step] /\ Control
  BY Parts, Standing DEF KrnxCall
\* What the three outcomes of the call have in common.
<1>2. /\ Control' /\ BodyMove /\ Goes /\ RobotType'
      /\ Current.do # "close" /\ conn # "closed" => conn' # "closed"
      /\ cb.name = "configure" /\ cb.step = 2 /\ cb'.result = "none" /\ cb'.step # 2
            => conn' = "up"
  <2>1. cb.name = "configure" /\ cb.step = 2 => Current.do = "open" /\ Current.fail = "ERROR"
    BY <1>1 DEF SessionFacts
  <2>2. CASE /\ Accepts(Current.do, cb.arm) /\ Effect(Current.do, cb.arm)
             /\ Current.do = "execute"
             /\ cb' = [cb EXCEPT !.wait = TRUE] /\ UNCHANGED interface
    <3>1. /\ RobotType' /\ (Current.do # "close" /\ conn # "closed" => conn' # "closed")
          /\ (Current.do = "open" => conn' = "up")
      BY <1>1, <2>2, Parts, EffectOnRobot
    <3>2. /\ CbType' /\ cb'.name = cb.name /\ cb'.step = cb.step /\ cb'.result = "none"
      BY <1>1, <2>2, Parts DEF Control, CbType, InBody
    <3>3. ScriptPosition'
      BY <1>1, <2>2, <3>2 DEF ScriptPosition, InBody, Current
    <3>4. flags' \subseteq Callbacks /\ write_enabled_' \in BOOLEAN /\ write_enabled_' = write_enabled_
      BY <2>2, Parts DEF Control, interface
    <3> QED BY <3>1, <3>2, <3>3, <3>4, <2>1 DEF Control, BodyMove, Goes
  <2>3. CASE Accepts(Current.do, cb.arm) /\ Effect(Current.do, cb.arm) /\ Advance
    BY <1>1, <2>1, <2>3, Parts, EffectOnRobot, AdvanceMove
  <2>4. CASE UNCHANGED robot /\ Fail
    <3>1. RobotType' /\ conn' = conn
      BY <2>4, RobotUnchanged
    <3> QED BY <1>1, <2>1, <2>4, <3>1, Parts, FailMove
  <2>5. CASE Effect(Current.do, cb.arm) /\ Fail
    BY <1>1, <2>1, <2>5, Parts, EffectOnRobot, FailMove
  <2> QED BY <2>2, <2>3, <2>4, <2>5 DEF KrnxCall
\* Publishers that exist while their session is being closed are the destructor's.
<1>3. publishers /\ cb.name # "destroy" => conn' # "closed"
  <2>1. publishers /\ cb.name # "destroy" => Current.do # "close"
    <3>1. publishers => Serving \/ Joining \/ Configured
      BY Tables, Parts DEF Place, PublisherPlace
    <3> QED BY <1>1, <3>1 DEF Serving, Joining, Configured, SessionFacts, InBody
  <2> QED BY <1>2, <2>1, Parts DEF SessionPlace
<1>4. InBody' /\ cb'.name = "configure" /\ cb'.step > 2 => conn' # "closed"
  <2> SUFFICES ASSUME InBody', cb'.name = "configure", cb'.step > 2 PROVE conn' # "closed"
    OBVIOUS
  <2>1. cb.name = "configure" /\ cb'.result = "none" /\ cb'.step \in {cb.step, cb.step + 1}
    BY <1>2 DEF BodyMove, Goes, InBody
  <2>2. CASE cb.step > 2
    BY <1>1, <1>2, <2>1, <2>2, Parts DEF SessionPlace, SessionFacts
  <2>3. CASE cb.step = 2
    BY <1>2, <2>1, <2>3
  <2> QED BY <1>1, <2>1, <2>2, <2>3
<1> QED BY <1>1, <1>2, <1>3, <1>4, KrnxNotThreaded, QuietStep

\* The wait of exec_rtc_program for rtc_active keeps the invariant.
LEMMA WaitKeeps == IInv /\ (WaitRtcActive \/ RtcTimeout) => IInv'
<1> SUFFICES ASSUME IInv, WaitRtcActive \/ RtcTimeout PROVE IInv'
  OBVIOUS
<1>1. /\ InBody /\ Control /\ SessionFacts(cb.name, cb.step) /\ Current = Script[cb.name][cb.step]
      /\ UNCHANGED <<hw, upd, threads, robot>> /\ Current.do = "execute"
  BY Parts, Standing DEF WaitRtcActive, RtcTimeout, Control, ScriptPosition
<1>2. Current.do \in KrnxCalls /\ cb.name = "activate"
  BY <1>1 DEF KrnxCalls, PerArm, SessionFacts
<1>3. Control' /\ BodyMove /\ Goes
  BY <1>1, <1>2, AdvanceMove, FailMove DEF WaitRtcActive, RtcTimeout
<1>4. cb'.name = "activate"
  BY <1>2, <1>3 DEF BodyMove
<1>5. RobotType' /\ conn' = conn
  BY <1>1, RobotUnchanged
<1>6. Current.do \notin Threaded
  BY <1>2, KrnxNotThreaded
<1>7. publishers /\ cb.name # "destroy" => conn' # "closed"
  BY <1>5, Parts DEF SessionPlace
<1> QED BY <1>1, <1>3, <1>4, <1>5, <1>6, <1>7, QuietStep

\* The query for running programs keeps the invariant.
LEMMA ProgramRunningKeeps == IInv /\ is_program_running => IInv'
<1> SUFFICES ASSUME IInv, is_program_running PROVE IInv'
  OBVIOUS
<1>1. /\ InBody /\ Control /\ Current.do = "is_running" /\ cb.name \in Callbacks
      /\ cb.step \in 1..Len(Script[cb.name]) /\ cb.step \in Nat
      /\ SessionFacts(cb.name, cb.step) /\ Current = Script[cb.name][cb.step]
      /\ UNCHANGED <<hw, upd, threads, robot>>
      /\ GoTo(cb.step + 1) \/ GoTo(cb.step + 2)
  BY Parts, Standing DEF is_program_running
<1>2. \/ cb.name = "configure" /\ cb.step \in {5, 8}
      \/ cb.name = "activate" /\ cb.step = 5
  BY <1>1 DEF SessionFacts
<1>3. cb.step + 2 <= Len(Script[cb.name])
  <2>1. CASE cb.name = "configure" /\ cb.step \in {5, 8}
    BY <2>1, Lengths
  <2>2. CASE cb.name = "activate" /\ cb.step = 5
    BY <2>2, Lengths
  <2> QED BY <1>2, <2>1, <2>2
<1>4. Control' /\ BodyMove /\ (Goes \/ Skips)
  <2>1. CASE GoTo(cb.step + 1)
    BY <1>1, <2>1, NextMove
  <2>2. CASE GoTo(cb.step + 2)
    <3>1. cb.step + 2 \in Nat \ {0} /\ Len(Script[cb.name]) \in Nat
      BY <1>1, LengthType
    <3>2. ~(cb.step + 2 > Len(Script[cb.name]))
      BY <1>3, <3>1
    <3> QED BY <1>1, <2>2, <3>1, <3>2, GoToMove DEF Skips
  <2> QED BY <1>1, <2>1, <2>2
<1>5. RobotType' /\ conn' = conn
  BY <1>1, RobotUnchanged
<1>6. cb.name # "destroy" /\ (cb.name = "configure" => conn # "closed")
  BY <1>1, <1>2, Parts DEF SessionPlace
<1>7. /\ publishers /\ cb.name # "destroy" => conn' # "closed"
      /\ InBody' /\ cb'.name = "configure" /\ cb'.step > 2 => conn' # "closed"
  BY <1>4, <1>5, <1>6, Parts DEF SessionPlace, BodyMove
<1> QED BY <1>1, <1>4, <1>5, <1>7, KrnxNotThreaded, QuietStep

\* The threaded routines that end a callback.
LastRoutines == {"init_service", "start_publishers", "drop_driver"}

\* What every step that starts, stops or joins something has in common: the callback
\* goes on to the next routine of its script, or has reached the end.
LEMMA ThreadStep ==
    ASSUME IInv, InBody, GoTo(cb.step + 1), Current.do \in Threaded,
           UNCHANGED <<hw, upd, robot>>
    PROVE  /\ Control' /\ RobotType' /\ LoopType' /\ CallbackPlace' /\ WriteGate'
           /\ hw' = hw /\ conn' = conn /\ cb.result = "none"
           /\ cb.name \in Callbacks /\ cb.name # "none" /\ cb'.name = cb.name
           /\ cb.step \in 1..Len(Script[cb.name]) /\ cb.step \in Nat
           /\ IF Current.do \in LastRoutines
              THEN cb'.result = "SUCCESS"
              ELSE cb'.result = "none" /\ cb'.step = cb.step + 1
           /\ InBody' <=> cb'.result = "none"
           /\ ThreadFacts(cb.name, cb.step) /\ Current = Script[cb.name][cb.step]
           /\ InBody' => /\ ThreadFacts(cb.name, cb'.step)
                         /\ Current'.do = Script[cb.name][cb'.step].do
<1>1. /\ cb.name \in Callbacks /\ cb.result = "none" /\ cb.name # "none"
      /\ cb.step \in 1..Len(Script[cb.name]) /\ cb.step \in Nat
      /\ ThreadFacts(cb.name, cb.step) /\ Current = Script[cb.name][cb.step]
  BY Parts, Standing DEF InBody
<1>2. /\ Control' /\ BodyMove /\ Goes
      /\ \/ /\ cb.step < Len(Script[cb.name])
            /\ cb'.result = "none" /\ cb'.step = cb.step + 1
         \/ cb.step = Len(Script[cb.name]) /\ cb'.result = "SUCCESS"
  BY NextMove, Parts
<1>3. cb'.name = cb.name /\ (InBody' <=> cb'.result = "none")
  BY <1>1, <1>2 DEF BodyMove, InBody
<1>4. LoopType' /\ CallbackPlace' /\ WriteGate'
  BY <1>2, BodyCommon
<1>5. RobotType' /\ conn' = conn
  BY RobotUnchanged
<1>6. InBody' => /\ ThreadFacts(cb.name, cb'.step)
                 /\ Current'.do = Script[cb.name][cb'.step].do
  <2> SUFFICES ASSUME InBody'
               PROVE  /\ ThreadFacts(cb.name, cb'.step)
                      /\ Current'.do = Script[cb.name][cb'.step].do
    OBVIOUS
  <2>1. cb'.step \in 1..Len(Script[cb.name])
    BY <1>1, <1>2, <1>3 DEF Control, ScriptPosition
  <2>2. Current' = Script[cb.name][cb'.step]
    BY <1>3 DEF Current
  <2> QED BY <1>1, <2>1, <2>2, ScriptFacts
<1>7. cb.step = Len(Script[cb.name]) <=> Current.do \in LastRoutines
  <2>1. CASE cb.name = "init"
    BY <1>1, <2>1, Lengths DEF ThreadFacts, Threaded, LastRoutines
  <2>2. CASE cb.name = "configure"
    BY <1>1, <2>2, Lengths DEF ThreadFacts, Threaded, LastRoutines
  <2>3. CASE cb.name = "cleanup"
    BY <1>1, <2>3, Lengths DEF ThreadFacts, Threaded, LastRoutines
  <2>4. CASE cb.name = "shutdown"
    BY <1>1, <2>4, Lengths DEF ThreadFacts, Threaded, LastRoutines
  <2>5. CASE cb.name = "error"
    BY <1>1, <2>5, Lengths DEF ThreadFacts, Threaded, LastRoutines
  <2>6. CASE cb.name = "destroy"
    BY <1>1, <2>6, Lengths DEF ThreadFacts, Threaded, LastRoutines
  <2>7. cb.name \in {"init", "configure", "cleanup", "shutdown", "error", "destroy"}
    BY <1>1 DEF ThreadFacts, Threaded
  <2> QED BY <2>1, <2>2, <2>3, <2>4, <2>5, <2>6, <2>7
<1> QED BY <1>1, <1>2, <1>3, <1>4, <1>5, <1>6, <1>7

\* Creating the driver in on_init keeps the invariant.
LEMMA CreateDriverKeeps == IInv /\ create_khi_robot_driver => IInv'
<1> SUFFICES ASSUME IInv, create_khi_robot_driver PROVE IInv'
  OBVIOUS
<1>1. /\ InBody /\ GoTo(cb.step + 1) /\ Current.do = "create_driver" /\ Current.do \in Threaded
      /\ UNCHANGED <<hw, upd, robot>> /\ driver' = TRUE
      /\ UNCHANGED <<services, spinning, publishers, should_stop, inCall>>
  BY DEF create_khi_robot_driver, Threaded
<1>2. cb.name = "init" /\ cb.step = 2 /\ cb'.result = "none" /\ cb'.step = 3 /\ InBody'
  BY <1>1, ThreadStep DEF ThreadFacts, LastRoutines
<1>3. hw = "Created" /\ hw' = hw /\ cb'.name = "init"
  BY <1>1, <1>2, ThreadStep, Parts DEF Place, CallbackPlace
<1>4. ~services /\ ~publishers /\ ~spinning
  BY <1>1, <1>2, <1>3, Tables, Steps, Parts
     DEF Place, ServicePlace, PublisherPlace, SpinPlace, Serving, Configured, Stopping, LiveStates,
         InBody
<1>5. ThreadType' /\ ServicePlace' /\ SpinPlace' /\ DriverPlace'
  BY <1>1, <1>2, <1>3, <1>4, Parts
     DEF ThreadType, ServicePlace, SpinPlace, DriverPlace, Serving, Configured, InBody
<1>6. PublisherPlace'
  BY <1>1, <1>2, <1>3, <1>4, ThreadStep DEF PublisherPlace, Serving, Configured, ThreadFacts
<1>7. SessionPlace' /\ CallersExist'
  BY <1>1, <1>2, <1>3, <1>4, Parts DEF SessionPlace, CallersExist
<1> QED BY <1>1, <1>5, <1>6, <1>7, ThreadStep, Parts DEF Place

\* Creating the service node and its spin thread in on_init keeps the invariant.
LEMMA InitServiceKeeps == IInv /\ InitService => IInv'
<1> SUFFICES ASSUME IInv, InitService PROVE IInv'
  OBVIOUS
<1>1. /\ InBody /\ GoTo(cb.step + 1) /\ Current.do = "init_service" /\ Current.do \in Threaded
      /\ UNCHANGED <<hw, upd, robot>> /\ spinning' = TRUE
      /\ UNCHANGED <<driver, services, publishers, should_stop, inCall>>
  BY DEF InitService, Threaded
<1>2. cb.name = "init" /\ cb.step = 4 /\ cb'.result = "SUCCESS" /\ ~InBody'
  BY <1>1, ThreadStep DEF ThreadFacts, LastRoutines
<1>3. hw = "Created" /\ hw' = hw /\ cb'.name = "init"
  BY <1>1, <1>2, ThreadStep, Parts DEF Place, CallbackPlace
<1>4. ~services /\ ~publishers /\ driver
  BY <1>1, <1>2, <1>3, Tables, Parts
     DEF Place, ServicePlace, PublisherPlace, DriverPlace, Serving, Configured, Stopping, LiveStates,
         InBody
<1>5. ThreadType' /\ ServicePlace' /\ SpinPlace' /\ DriverPlace' /\ PublisherPlace'
  BY <1>1, <1>2, <1>3, <1>4, Parts
     DEF ThreadType, ServicePlace, SpinPlace, DriverPlace, PublisherPlace, Serving, Configured,
         LiveStates
<1>6. SessionPlace' /\ CallersExist'
  BY <1>1, <1>2, <1>3, <1>4, Parts DEF SessionPlace, CallersExist
<1> QED BY <1>1, <1>5, <1>6, ThreadStep, Parts DEF Place

\* Releasing the driver at the end of the destructor keeps the invariant: nothing of
\* the component exists any more.
LEMMA DropDriverKeeps == IInv /\ DropDriver => IInv'
<1> SUFFICES ASSUME IInv, DropDriver PROVE IInv'
  OBVIOUS
<1>1. /\ InBody /\ GoTo(cb.step + 1) /\ Current.do = "drop_driver" /\ Current.do \in Threaded
      /\ UNCHANGED <<hw, upd, robot>> /\ driver' = FALSE
      /\ UNCHANGED <<services, spinning, publishers, should_stop, inCall>>
  BY DEF DropDriver, Threaded
<1>2. cb.name = "destroy" /\ cb.step = 9 /\ cb'.result = "SUCCESS" /\ ~InBody' /\ cb'.name = "destroy"
  BY <1>1, ThreadStep DEF ThreadFacts, LastRoutines
<1>3. ~services /\ ~publishers /\ ~spinning
  BY <1>1, <1>2, Tables, Steps, Parts
     DEF Place, ServicePlace, PublisherPlace, SpinPlace, Serving, Configured, Stopping, Joining, Spinning
<1>4. ThreadType' /\ ServicePlace' /\ SpinPlace' /\ DriverPlace' /\ PublisherPlace'
  BY <1>1, <1>2, <1>3, Parts
     DEF ThreadType, ServicePlace, SpinPlace, DriverPlace, PublisherPlace, Serving, Configured
<1>5. SessionPlace' /\ CallersExist'
  BY <1>1, <1>2, <1>3, Parts DEF SessionPlace, CallersExist
<1> QED BY <1>1, <1>4, <1>5, ThreadStep, Parts DEF Place

\* Creating the service servers keeps the invariant: it is the last step but one of
\* a configuration.
LEMMA StartServicesKeeps == IInv /\ StartServices => IInv'
<1> SUFFICES ASSUME IInv, StartServices PROVE IInv'
  OBVIOUS
<1>1. /\ InBody /\ GoTo(cb.step + 1) /\ Current.do = "start_services" /\ Current.do \in Threaded
      /\ UNCHANGED <<hw, upd, robot>> /\ services' = TRUE
      /\ UNCHANGED <<driver, spinning, publishers, should_stop, inCall>>
  BY DEF StartServices, Threaded
<1>2. cb.name = "configure" /\ cb.step = 16 /\ cb'.result = "none" /\ cb'.step = 17 /\ InBody'
  BY <1>1, ThreadStep DEF ThreadFacts, LastRoutines
<1>3. hw = "Unconfigured" /\ hw' = hw /\ cb'.name = "configure"
  BY <1>1, <1>2, ThreadStep, Parts DEF Place, CallbackPlace
<1>4. ~publishers
  BY <1>1, <1>2, <1>3, Tables, Parts DEF Place, PublisherPlace, Serving, Configured, Joining, InBody
<1>5. ThreadType' /\ ServicePlace' /\ SpinPlace' /\ DriverPlace'
  BY <1>1, <1>2, <1>3, Steps, Parts
     DEF Place, ThreadType, ServicePlace, SpinPlace, DriverPlace, Serving, Configured, InBody
<1>6. PublisherPlace'
  BY <1>1, <1>2, <1>3, <1>4, ThreadStep DEF PublisherPlace, Serving, Configured, ThreadFacts
<1>7. SessionPlace' /\ CallersExist'
  BY <1>1, <1>2, <1>3, <1>4, ThreadStep, Parts DEF SessionPlace, CallersExist
<1> QED BY <1>1, <1>5, <1>6, <1>7, ThreadStep, Parts DEF Place

\* Removing the service servers keeps the invariant: every callback that does it
\* leaves Inactive and Active.
LEMMA StopServicesKeeps == IInv /\ StopServices => IInv'
<1> SUFFICES ASSUME IInv, StopServices PROVE IInv'
  OBVIOUS
<1>1. /\ InBody /\ GoTo(cb.step + 1) /\ Current.do = "stop_services" /\ Current.do \in Threaded
      /\ UNCHANGED <<hw, upd, robot>> /\ services' = FALSE
      /\ UNCHANGED <<driver, spinning, publishers, should_stop, inCall>>
  BY DEF StopServices, Threaded
<1>2. /\ \/ cb.name \in {"cleanup", "shutdown", "error"} /\ cb.step = 1 /\ cb'.step = 2
         \/ cb.name = "destroy" /\ cb.step = 5 /\ cb'.step = 6
      /\ cb'.result = "none" /\ InBody' /\ cb'.name = cb.name
  BY <1>1, ThreadStep DEF ThreadFacts, LastRoutines
<1>3. hw' = hw
  BY <1>1
<1>4. ThreadType' /\ ServicePlace' /\ DriverPlace'
  BY <1>1, <1>2, <1>3, Parts
     DEF Place, ThreadType, ServicePlace, DriverPlace, Serving, Configured, InBody
<1>5. SpinPlace'
  BY <1>1, <1>2, <1>3, Tables, Steps, Parts DEF Place, SpinPlace, Spinning
<1>6. PublisherPlace'
  BY <1>1, <1>2, <1>3, Tables, Parts, ThreadStep
     DEF Place, PublisherPlace, Serving, Configured, Joining, ThreadFacts
<1>7. SessionPlace' /\ CallersExist'
  BY <1>1, <1>2, <1>3, ThreadStep, Parts DEF SessionPlace, CallersExist
<1> QED BY <1>1, <1>4, <1>5, <1>6, <1>7, ThreadStep, Parts DEF Place

\* The join of the service thread keeps the invariant: the request it served is over.
LEMMA JoinServiceKeeps == IInv /\ JoinService => IInv'
<1> SUFFICES ASSUME IInv, JoinService PROVE IInv'
  OBVIOUS
<1>1. /\ InBody /\ GoTo(cb.step + 1) /\ Current.do = "join_service" /\ Current.do \in Threaded
      /\ UNCHANGED <<hw, upd, robot>> /\ spinning' = FALSE /\ "service" \notin inCall
      /\ UNCHANGED <<driver, services, publishers, should_stop, inCall>>
  BY DEF JoinService, Threaded
<1>2. /\ \/ cb.name = "shutdown" /\ cb.step = 2 /\ cb'.step = 3
         \/ cb.name = "destroy" /\ cb.step = 6 /\ cb'.step = 7
      /\ cb'.result = "none" /\ InBody' /\ cb'.name = cb.name
  BY <1>1, ThreadStep DEF ThreadFacts, LastRoutines
<1>3. hw' = hw
  BY <1>1
<1>4. ~services
  BY <1>2, Tables, Parts DEF Place, ServicePlace, Serving, Configured, Stopping
<1>5. ThreadType' /\ ServicePlace' /\ DriverPlace' /\ SpinPlace'
  BY <1>1, <1>2, <1>3, <1>4, Parts
     DEF Place, ThreadType, ServicePlace, DriverPlace, SpinPlace, Serving, Configured, InBody
<1>6. PublisherPlace'
  BY <1>1, <1>2, <1>3, Tables, Parts, ThreadStep
     DEF Place, PublisherPlace, Serving, Configured, Joining, ThreadFacts
<1>7. SessionPlace' /\ CallersExist'
  BY <1>1, <1>2, <1>3, ThreadStep, Parts DEF SessionPlace, CallersExist
<1> QED BY <1>1, <1>5, <1>6, <1>7, ThreadStep, Parts DEF Place

\* KhiPublisher::start keeps the invariant: it ends a configuration, whose session
\* is open.
LEMMA StartPublishersKeeps == IInv /\ StartPublishers => IInv'
<1> SUFFICES ASSUME IInv, StartPublishers PROVE IInv'
  OBVIOUS
<1>1. /\ InBody /\ GoTo(cb.step + 1) /\ Current.do = "start_publishers" /\ Current.do \in Threaded
      /\ UNCHANGED <<hw, upd, robot>> /\ publishers' = TRUE /\ should_stop' = FALSE
      /\ UNCHANGED <<driver, services, spinning, inCall>>
  BY DEF StartPublishers, Threaded
<1>2. /\ cb.name = "configure" /\ cb.step = 17 /\ cb'.result = "SUCCESS" /\ ~InBody'
      /\ cb'.name = "configure"
  BY <1>1, ThreadStep DEF ThreadFacts, LastRoutines
<1>3. hw = "Unconfigured" /\ hw' = hw
  BY <1>1, <1>2, ThreadStep, Parts DEF Place, CallbackPlace
<1>4. services
  BY <1>1, <1>2, Parts DEF Place, ServicePlace
<1>5. ThreadType' /\ ServicePlace' /\ SpinPlace' /\ DriverPlace'
  BY <1>1, <1>2, <1>3, <1>4, Steps, Parts
     DEF Place, ThreadType, ServicePlace, SpinPlace, DriverPlace, Serving, Configured, InBody
<1>6. PublisherPlace'
  BY <1>1, <1>2, <1>3 DEF PublisherPlace, Serving, Configured, LiveStates
<1>7. SessionPlace' /\ CallersExist'
  BY <1>1, <1>2, <1>3, ThreadStep, Parts DEF SessionPlace, CallersExist
<1> QED BY <1>1, <1>5, <1>6, <1>7, ThreadStep, Parts DEF Place

\* Telling the publisher threads to stop keeps the invariant.
LEMMA StopPublishersKeeps == IInv /\ StopPublishers => IInv'
<1> SUFFICES ASSUME IInv, StopPublishers PROVE IInv'
  OBVIOUS
<1>1. /\ InBody /\ GoTo(cb.step + 1) /\ Current.do = "stop_publishers" /\ Current.do \in Threaded
      /\ UNCHANGED <<hw, upd, robot>> /\ should_stop' = TRUE
      /\ UNCHANGED <<driver, services, spinning, publishers, inCall>>
  BY DEF StopPublishers, Threaded
<1>2. /\ \/ cb.name \in {"cleanup", "error"} /\ cb.step = 2 /\ cb'.step = 3
         \/ cb.name = "shutdown" /\ cb.step = 3 /\ cb'.step = 4
         \/ cb.name = "destroy" /\ cb.step = 7 /\ cb'.step = 8
      /\ cb'.result = "none" /\ InBody' /\ cb'.name = cb.name
  BY <1>1, ThreadStep DEF ThreadFacts, LastRoutines
<1>3. hw' = hw
  BY <1>1
<1>4. ~services /\ (spinning => cb.name # "shutdown" /\ cb.name # "destroy")
  BY <1>2, Tables, Steps, Parts
     DEF Place, ServicePlace, SpinPlace, Serving, Configured, Stopping, Spinning
<1>5. ThreadType' /\ ServicePlace' /\ DriverPlace'
  BY <1>1, <1>2, <1>3, <1>4, Parts
     DEF Place, ThreadType, ServicePlace, DriverPlace, Serving, Configured, InBody
<1>6. SpinPlace'
  BY <1>1, <1>2, <1>3, <1>4, Steps, Parts DEF Place, SpinPlace
<1>7. PublisherPlace'
  BY <1>1, <1>2, <1>3, Tables, Parts
     DEF Place, PublisherPlace, Serving, Configured, Joining
<1>8. SessionPlace' /\ CallersExist'
  BY <1>1, <1>2, <1>3, ThreadStep, Parts DEF SessionPlace, CallersExist
<1> QED BY <1>1, <1>5, <1>6, <1>7, <1>8, ThreadStep, Parts DEF Place

\* The join of the publisher threads keeps the invariant: none of them is inside a call.
LEMMA JoinPublishersKeeps == IInv /\ JoinPublishers => IInv'
<1> SUFFICES ASSUME IInv, JoinPublishers PROVE IInv'
  OBVIOUS
<1>1. /\ InBody /\ GoTo(cb.step + 1) /\ Current.do = "join_publishers" /\ Current.do \in Threaded
      /\ UNCHANGED <<hw, upd, robot>> /\ publishers' = FALSE /\ inCall \cap PubThreads = {}
      /\ UNCHANGED <<driver, services, spinning, should_stop, inCall>>
  BY DEF JoinPublishers, Threaded
<1>2. /\ \/ cb.name \in {"cleanup", "error"} /\ cb.step = 3 /\ cb'.step = 4
         \/ cb.name = "shutdown" /\ cb.step = 4 /\ cb'.step = 5
         \/ cb.name = "destroy" /\ cb.step = 8 /\ cb'.step = 9
      /\ cb'.result = "none" /\ InBody' /\ cb'.name = cb.name
  BY <1>1, ThreadStep DEF ThreadFacts, LastRoutines
<1>3. hw' = hw
  BY <1>1
<1>4. ~services /\ (spinning => cb.name # "shutdown" /\ cb.name # "destroy")
  BY <1>2, Tables, Steps, Parts
     DEF Place, ServicePlace, SpinPlace, Serving, Configured, Stopping, Spinning
<1>5. ThreadType' /\ ServicePlace' /\ DriverPlace'
  BY <1>1, <1>2, <1>3, <1>4, Parts
     DEF Place, ThreadType, ServicePlace, DriverPlace, Serving, Configured, InBody
<1>6. SpinPlace'
  BY <1>1, <1>2, <1>3, <1>4, Steps, Parts DEF Place, SpinPlace
<1>7. PublisherPlace'
  BY <1>1, <1>2, <1>3, ThreadStep DEF PublisherPlace, Serving, Configured, ThreadFacts
<1>8. SessionPlace' /\ CallersExist'
  BY <1>1, <1>2, <1>3, ThreadStep, Parts DEF SessionPlace, CallersExist
<1> QED BY <1>1, <1>5, <1>6, <1>7, <1>8, ThreadStep, Parts DEF Place

\* No step of a callback breaks the invariant, but for the call through a driver that
\* is null, which ends the process.
LEMMA CallbackStepKeeps == IInv /\ CallbackStep /\ ~NullDriver => IInv'
BY KrnxCallKeeps, WaitKeeps, ProgramRunningKeeps, CreateDriverKeeps, InitServiceKeeps,
   DropDriverKeeps, StartServicesKeeps, StopServicesKeeps, JoinServiceKeeps,
   StartPublishersKeeps, StopPublishersKeeps, JoinPublishersKeeps DEF CallbackStep

-----------------------------------------------------------------------------
(* The resource manager.                                                   *)

\* A process that has just been started, beside any controller.
Fresh == /\ hw = "Created" /\ cb = Idle /\ upd = "idle"
         /\ flags = {} /\ write_enabled_ = FALSE
         /\ driver = FALSE /\ services = FALSE /\ spinning = FALSE
         /\ publishers = FALSE /\ should_stop = FALSE /\ inCall = {}
         /\ conn = "closed" /\ RobotType

\* A component that was just loaded satisfies the invariant.
LEMMA FreshHolds == Fresh => IInv
<1> SUFFICES ASSUME Fresh PROVE IInv
  OBVIOUS
<1>1. /\ cb = [name |-> "none", step |-> 1, arm |-> 1, wait |-> FALSE, result |-> "none"]
      /\ 1 \in Arms
  BY NArmsAssumption DEF Fresh, Idle, Arms
<1>2. CbType
  BY <1>1 DEF CbType, Results
<1>3. ScriptPosition
  BY <1>1 DEF Fresh, ScriptPosition, InBody
<1>4. flags \subseteq Callbacks /\ write_enabled_ \in BOOLEAN /\ RobotType
  BY DEF Fresh
<1>5. ThreadType /\ LoopType
  BY DEF Fresh, ThreadType, LoopType, HwStates
<1>6. WriteGate /\ SessionPlace /\ CallersExist /\ CallbackPlace
  BY <1>1 DEF Fresh, WriteGate, operation, SessionPlace, CallersExist, CallbackPlace, InBody
<1>7. ServicePlace /\ PublisherPlace /\ SpinPlace /\ DriverPlace
  BY <1>1 DEF Fresh, ServicePlace, PublisherPlace, SpinPlace, DriverPlace, Serving, Configured,
              InBody, LiveStates
<1> QED BY <1>2, <1>3, <1>4, <1>5, <1>6, <1>7, Parts DEF Control, Place

\* The same of the state after a step.
LEMMA FreshNext == Fresh' => IInv'
BY FreshHolds, PTL

\* A process that dies and is started again keeps the invariant, whatever it leaves
\* behind on the controller.
LEMMA ProcessDiesKeeps == IInv /\ ProcessDies => IInv'
<1> SUFFICES ASSUME IInv, ProcessDies PROVE IInv'
  OBVIOUS
<1>1. RobotType'
  BY Parts DEF ProcessDies, RobotType
<1>2. Fresh'
  BY <1>1 DEF ProcessDies, Fresh, Idle
<1> QED BY <1>2, FreshNext

\* A callback that starts while none is in progress, or in place of one that
\* returned an error.
LEMMA StartKeeps ==
    ASSUME IInv, NEW n \in Callbacks, Start(n), LoopType',
           UNCHANGED <<hw, threads, robot>>,
           cb.name = "none" \/ (Errs /\ n = "error"),
           Allowed(n) \/ (n \in {"error", "deactivate"} /\ hw \in LiveStates),
           n = "deactivate" => hw = "Active"
    PROVE  IInv'
<1>1. /\ Control' /\ InBody' /\ cb'.name = n /\ cb'.step = 1 /\ cb'.result = "none"
      /\ write_enabled_' => write_enabled_ /\ n \in Unflagged
  BY StartMove, Parts
<1>2. /\ RobotType' /\ ThreadType' /\ conn' = conn /\ hw' = hw
      /\ driver' = driver /\ services' = services /\ spinning' = spinning
      /\ publishers' = publishers /\ should_stop' = should_stop /\ inCall' = inCall
  BY RobotUnchanged, Parts DEF threads, ThreadType
\* Where the callback before this one was.
<1>3. /\ ~InBody /\ ~Configured
      /\ cb.name \notin {"init", "destroy", "shutdown"}
      /\ hw \in HwStates
      /\ n # "error" => cb.name = "none"
  <2>1. CASE cb.name = "none"
    BY <2>1, Parts DEF InBody, Configured, LoopType
  <2>2. CASE Errs /\ n = "error"
    <3>1. cb.name \notin {"destroy", "shutdown"}
      BY <2>2, Parts DEF Errs, Place, CallbackPlace, Allowed
    <3> QED BY <2>2, <3>1, Parts DEF Errs, InBody, Configured, LoopType, Place, CallbackPlace
  <2> QED BY <2>1, <2>2
<1>4. CallbackPlace'
  BY <1>1, <1>2, <1>3 DEF CallbackPlace, Allowed, HwStates, LiveStates, Callbacks
<1>5. /\ services => hw \in {"Inactive", "Active"}
      /\ publishers => hw \in {"Inactive", "Active"}
      /\ spinning => hw \in LiveStates
      /\ hw \in LiveStates => driver
      /\ cb.name = "none" /\ hw \in {"Inactive", "Active"} => services /\ publishers
  BY <1>3, Tables, Parts DEF Place, ServicePlace, PublisherPlace, SpinPlace, DriverPlace,
                             Serving, Stopping, Joining
<1>6. ServicePlace'
  <2>1. CASE n \in {"activate", "deactivate"}
    BY <1>1, <1>2, <1>3, <1>5, <2>1 DEF ServicePlace, Serving, Configured, Allowed
  <2>2. CASE n \in {"init", "configure"}
    BY <1>1, <1>2, <1>5, <2>2 DEF ServicePlace, Serving, Configured, Allowed
  <2>3. CASE n \in {"cleanup", "shutdown", "error", "destroy"}
    BY <1>1, <2>3, Tables DEF ServicePlace, Serving, Configured, Stopping
  <2> QED BY <2>1, <2>2, <2>3 DEF Callbacks
<1>7. PublisherPlace'
  <2>1. Current'.do # "join_publishers"
    <3>1. 1 \in 1..Len(Script[n])
      BY <1>1 DEF Control, ScriptPosition, InBody
    <3> QED BY <1>1, <3>1, ScriptFacts DEF ThreadFacts, Current
  <2>2. CASE n \in {"activate", "deactivate"}
    BY <1>1, <1>2, <1>3, <1>5, <2>1, <2>2 DEF PublisherPlace, Serving, Configured, Allowed, LiveStates
  <2>3. CASE n \in {"init", "configure"}
    BY <1>1, <1>2, <1>5, <2>1, <2>3 DEF PublisherPlace, Serving, Configured, Allowed
  <2>4. CASE n \in {"cleanup", "shutdown", "error", "destroy"}
    BY <1>1, <1>2, <1>5, <2>1, <2>4, Tables
       DEF PublisherPlace, Serving, Configured, Joining, LiveStates
  <2> QED BY <2>2, <2>3, <2>4 DEF Callbacks
<1>8. SpinPlace' /\ DriverPlace'
  BY <1>1, <1>2, <1>5, Steps, Tables DEF SpinPlace, DriverPlace, Spinning
<1>9. SessionPlace' /\ CallersExist'
  BY <1>1, <1>2, <1>3, Parts DEF SessionPlace, CallersExist
<1>10. WriteGate'
  <2> SUFFICES ASSUME operation' PROVE FALSE
    BY DEF WriteGate
  <2>1. write_enabled_ /\ n \in {"init", "configure", "activate"} /\ hw # "Destroyed"
    BY <1>1, <1>2 DEF operation, Unflagged
  <2>2. cb.name = "none" /\ hw # "Active"
    BY <1>3, <2>1 DEF Allowed
  <2> QED BY <2>1, <2>2, Parts DEF WriteGate, operation
<1> QED BY <1>1, <1>2, <1>4, <1>6, <1>7, <1>8, <1>9, <1>10, Parts DEF Place

\* A transition that the manager was asked for keeps the invariant.
LEMMA RequestKeeps == ASSUME IInv, NEW n \in Callbacks, Request(n) PROVE IInv'
<1>1. /\ cb.name = "none" /\ Start(n) /\ UNCHANGED <<hw, upd, threads, robot>> /\ Allowed(n)
  BY DEF Request, Idle
<1>2. LoopType' /\ (n = "deactivate" => hw = "Active")
  BY <1>1, Parts DEF LoopType, Allowed
<1> QED BY <1>1, <1>2, StartKeeps

\* The manager taking the result of a callback keeps the invariant.
LEMMA ReturnKeeps == IInv /\ Return => IInv'
<1> SUFFICES ASSUME IInv, Return PROVE IInv'
  OBVIOUS
<1>1. /\ cb.result # "none" /\ UNCHANGED <<threads, robot>> /\ cb.name \in Callbacks
      /\ cb.result \in Results /\ ~InBody /\ cb.name # "none"
  BY Parts DEF Return, Control, CbType, ScriptPosition, Idle, InBody
<1>2. CASE Errs /\ Start("error") /\ UNCHANGED <<hw, upd>>
  <2>1. LoopType'
    BY <1>2, Parts DEF LoopType
  <2>2. hw \in LiveStates
    BY <1>1, <1>2, Parts DEF Errs, Place, CallbackPlace, LiveStates, Callbacks
  <2> QED BY <1>1, <1>2, <2>1, <2>2, StartKeeps DEF Callbacks
<1>3. CASE /\ ~Errs /\ hw' = NextHw(cb.name, cb.result) /\ cb' = Idle
           /\ upd' = (IF upd = "in_callback" THEN "idle" ELSE upd)
           /\ UNCHANGED interface
  <2>1. /\ hw' \in HwStates
        /\ cb.name = "init" /\ cb.result # "SUCCESS" => hw' = "Finalized"
        /\ cb.name = "init" /\ cb.result = "SUCCESS" => hw' = "Unconfigured"
        /\ cb.name \in {"activate", "deactivate"} => hw' \in {"Inactive", "Active"}
        /\ cb.name = "configure" /\ cb.result = "SUCCESS" => hw' = "Inactive"
        /\ cb.name = "configure" /\ cb.result # "SUCCESS" => hw' = "Unconfigured"
        /\ cb.name = "activate" /\ cb.result = "SUCCESS" => hw' = "Active"
        /\ cb.name \in {"cleanup", "error"} => hw' = "Unconfigured"
        /\ cb.name = "shutdown" => hw' = "Finalized"
        /\ cb.name = "destroy" => hw' = "Destroyed"
    BY <1>1, <1>3, Parts DEF NextHw, HwStates, LiveStates, Callbacks, Place, CallbackPlace
  <2>2. LoopType'
    BY <1>3, <2>1, Parts DEF LoopType
  <2>3. /\ Control' /\ cb'.name = "none" /\ cb'.result = "none" /\ cb' = Idle /\ ~InBody'
        /\ ~Configured'
    <3>1. 1 \in Arms
      BY NArmsAssumption DEF Arms
    <3> QED BY <1>3, <3>1, Parts DEF Control, CbType, ScriptPosition, InBody, Idle, Results,
                                     interface, Configured
  <2>4. /\ RobotType' /\ ThreadType' /\ conn' = conn
        /\ driver' = driver /\ services' = services /\ spinning' = spinning
        /\ publishers' = publishers /\ should_stop' = should_stop /\ inCall' = inCall
    BY <1>1, RobotUnchanged, Parts DEF threads, ThreadType
  <2>5. CallbackPlace'
    BY <2>3 DEF CallbackPlace
  <2>6. Serving' <=> Serving \/ Configured
    BY <1>1, <2>1, <2>3, Parts DEF Serving, Configured, Place, CallbackPlace, Callbacks
  <2>7. ServicePlace'
    BY <1>1, <2>3, <2>4, <2>6, Tables, Parts DEF Place, ServicePlace, Stopping
  <2>8. PublisherPlace'
    BY <1>1, <2>3, <2>4, <2>6, Tables, Parts
       DEF Place, PublisherPlace, Joining, Serving, LiveStates
  <2>9. SpinPlace' /\ DriverPlace'
    <3>1. spinning => \/ cb.name = "init" /\ cb.result = "SUCCESS"
                      \/ cb.name \in {"configure", "activate", "deactivate", "cleanup", "error"}
      BY <1>1, Steps, Tables, Parts
         DEF Place, SpinPlace, Spinning, CallbackPlace, LiveStates, Callbacks
    <3>2. spinning => hw' \in LiveStates
      BY <2>1, <3>1 DEF LiveStates
    <3>3. hw' \in LiveStates => driver
      <4> SUFFICES ASSUME hw' \in LiveStates PROVE driver
        OBVIOUS
      <4>1. \/ cb.name = "init" /\ cb.result = "SUCCESS"
            \/ cb.name \in {"configure", "activate", "deactivate", "cleanup", "error"}
        BY <1>1, <2>1 DEF LiveStates, Callbacks
      <4> QED BY <4>1, Parts DEF Place, DriverPlace, CallbackPlace, LiveStates
    <3> QED BY <2>3, <2>4, <3>2, <3>3, Steps DEF SpinPlace, DriverPlace
  <2>10. SessionPlace' /\ CallersExist'
    <3>1. cb.name = "destroy" => ~publishers
      BY <1>1, Tables, Parts DEF Place, PublisherPlace, Serving, Configured, Joining
    <3> QED BY <2>3, <2>4, <3>1, Parts DEF SessionPlace, CallersExist
  <2>11. WriteGate'
    <3> SUFFICES ASSUME operation' PROVE hw' = "Active" /\ cb' = Idle
      BY DEF WriteGate
    <3>1. write_enabled_ /\ cb.name # "destroy" /\ hw # "Destroyed"
      BY <1>1, <1>3, <2>1, Parts DEF operation, interface, Place, CallbackPlace, LiveStates, Callbacks
    <3>2. cb.name = "activate" /\ cb.result = "SUCCESS"
      BY <1>1, <3>1, Parts DEF WriteGate, operation, Idle
    <3> QED BY <2>1, <2>3, <3>2
  <2> QED BY <2>2, <2>3, <2>4, <2>5, <2>7, <2>8, <2>9, <2>10, <2>11, Parts DEF Place
<1> QED BY <1>2, <1>3 DEF Return

-----------------------------------------------------------------------------
(* The update loop, the background threads and the controller.             *)

\* Where callback, threads and driver stand does not depend on anything else.
LEMMA PlaceUnchanged ==
    ASSUME Place,
           UNCHANGED <<hw, cb, interface, driver, services, spinning, publishers, should_stop>>
    PROVE  Place'
BY DEF Place, CallbackPlace, ServicePlace, PublisherPlace, SpinPlace, DriverPlace, Serving,
       Configured, Before, InBody, Current, interface

\* A callback that does not move keeps its place and the gate.
LEMMA ControlUnchanged ==
    ASSUME IInv, UNCHANGED <<hw, cb, interface>>
    PROVE  Control' /\ WriteGate'
BY Parts DEF Control, CbType, ScriptPosition, InBody, Current, WriteGate, operation, interface

\* Steps of the update loop, but for those that start a callback, change its own
\* place only.
LEMMA LoopOnly ==
    ASSUME IInv, LoopType', UNCHANGED <<hw, cb, interface, threads, robot>>
    PROVE  IInv'
<1>1. Control' /\ WriteGate'
  BY ControlUnchanged
<1>2. RobotType' /\ ThreadType' /\ conn' = conn /\ publishers' = publishers /\ inCall' = inCall
  BY RobotUnchanged, Parts DEF threads, ThreadType
<1>3. Place'
  BY PlaceUnchanged, Parts DEF threads
<1>4. SessionPlace' /\ CallersExist'
  BY <1>2, Parts DEF SessionPlace, CallersExist, InBody, threads
<1> QED BY <1>1, <1>2, <1>3, <1>4, Parts

\* A step of the controller that closes no session keeps the invariant.
LEMMA RobotOnly ==
    ASSUME IInv, RobotType', conn # "closed" => conn' # "closed",
           UNCHANGED <<hw, cb, upd, interface, threads>>
    PROVE  IInv'
<1>1. Control' /\ WriteGate' /\ LoopType'
  BY ControlUnchanged, Parts DEF LoopType
<1>2. ThreadType' /\ publishers' = publishers /\ inCall' = inCall
  BY Parts DEF threads, ThreadType
<1>3. Place'
  BY PlaceUnchanged, Parts DEF threads
<1>4. SessionPlace' /\ CallersExist'
  BY <1>2, Parts DEF SessionPlace, CallersExist, InBody, threads
<1> QED BY <1>1, <1>2, <1>3, <1>4, Parts

\* Error handling and deactivation raised by read() or write() keep the invariant.
LEMMA RaiseKeeps == IInv /\ (RaiseError \/ RaiseDeactivate) => IInv'
<1> SUFFICES ASSUME IInv, RaiseError \/ RaiseDeactivate PROVE IInv'
  OBVIOUS
<1>1. LoopType' /\ cb = Idle /\ cb.name = "none" /\ UNCHANGED <<hw, threads, robot>>
  BY Parts DEF RaiseError, RaiseDeactivate, LoopType, Idle
<1>2. CASE UNCHANGED <<cb, interface>>
  BY <1>1, <1>2, LoopOnly
<1>3. CASE Start("error") /\ hw \in LiveStates
  BY <1>1, <1>3, StartKeeps DEF Callbacks
<1>4. CASE Start("deactivate") /\ hw = "Active"
  BY <1>1, <1>4, StartKeeps DEF Callbacks, LiveStates
<1> QED BY <1>2, <1>3, <1>4 DEF RaiseError, RaiseDeactivate

\* The update loop keeps the invariant.
LEMMA UpdateKeeps == IInv /\ (ReadStart \/ WriteStart \/ UpdateStep) => IInv'
<1> SUFFICES ASSUME IInv, ReadStart \/ WriteStart \/ UpdateStep PROVE IInv'
  OBVIOUS
<1>1. CASE RaiseError \/ RaiseDeactivate
  BY <1>1, RaiseKeeps
<1>2. CASE ~(RaiseError \/ RaiseDeactivate)
  <2>1. UNCHANGED <<hw, cb, interface, threads, robot>>
    BY <1>2 DEF ReadStart, WriteStart, UpdateStep, ReadLink, ReadLost, ReadData,
                WriteLink, WriteAble, WriteSend
  <2>2. LoopType'
    BY <1>2, Parts DEF ReadStart, WriteStart, UpdateStep, ReadLink, ReadLost, ReadData,
                       WriteLink, WriteAble, WriteSend, LoopType
  <2> QED BY <2>1, <2>2, LoopOnly
<1> QED BY <1>1, <1>2

\* The background threads keep the invariant: they call the driver only while they
\* exist, and close nothing.
LEMMA BackgroundKeeps ==
    ASSUME IInv, NEW t \in Background, CallBegins(t) \/ CallEnds(t) PROVE IInv'
<1>1. /\ UNCHANGED <<hw, cb, upd, interface, driver, services, spinning, publishers, should_stop>>
      /\ inCall' \subseteq Background
      /\ inCall' \cap PubThreads # {} => publishers
      /\ "service" \in inCall' => spinning
  BY Parts DEF CallBegins, CallEnds, CallersExist, ThreadType, PubThreads
<1>2. RobotType' /\ conn' = conn
  <2>1. CASE UNCHANGED robot
    BY <2>1, RobotUnchanged
  <2>2. CASE reset_error(1)
    BY <2>2, Parts DEF reset_error, RobotType
  <2> QED BY <2>1, <2>2 DEF CallBegins, CallEnds
<1>3. Control' /\ WriteGate' /\ LoopType' /\ ThreadType'
  BY <1>1, ControlUnchanged, Parts DEF LoopType, ThreadType
<1>4. Place'
  BY <1>1, PlaceUnchanged, Parts
<1>5. SessionPlace' /\ CallersExist'
  BY <1>1, <1>2, Parts DEF SessionPlace, CallersExist, InBody
<1> QED BY <1>2, <1>3, <1>4, <1>5, Parts

\* The controller and its operator keep the invariant: a lost link is not a
\* closed session.
LEMMA EnvironmentKeeps == IInv /\ Environment => IInv'
<1> SUFFICES ASSUME IInv, Environment PROVE IInv'
  OBVIOUS
<1>1. UNCHANGED <<hw, cb, upd, interface, threads>>
  BY DEF Environment, LinkLost, OperatorStop, OperatorReady, OperatorRuns,
         RtcBecomesActive, ControllerError
<1>2. \A p \in ProgStates : Stopped(p) \in ProgStates
  BY DEF Stopped, ProgStates
<1>3. RobotType' /\ (conn # "closed" => conn' # "closed")
  BY <1>2, Parts DEF Environment, LinkLost, OperatorStop, OperatorReady, OperatorRuns,
                     RtcBecomesActive, ControllerError, RobotType, ProgStates
<1> QED BY <1>1, <1>3, RobotOnly

-----------------------------------------------------------------------------
(* The theorems.                                                           *)

\* No step breaks the invariant.
LEMMA NextKeeps == IInv /\ [Next]_vars => IInv'
<1> SUFFICES ASSUME IInv, [Next]_vars PROVE IInv'
  OBVIOUS
<1>1. CASE \E n \in Callbacks : Request(n)
  BY <1>1, RequestKeeps
<1>2. CASE CallbackStep
  BY <1>2, CallbackStepKeeps, ProcessDiesKeeps DEF NullDriver
<1>3. CASE Return
  BY <1>3, ReturnKeeps
<1>4. CASE ReadStart \/ WriteStart \/ UpdateStep
  BY <1>4, UpdateKeeps
<1>5. CASE \E t \in Background : CallBegins(t) \/ CallEnds(t)
  BY <1>5, BackgroundKeeps
<1>6. CASE Environment
  BY <1>6, EnvironmentKeeps
<1>7. CASE ProcessDies
  BY <1>7, ProcessDiesKeeps
<1>8. CASE UNCHANGED vars
  <2>1. UNCHANGED <<hw, cb, interface, threads, robot>> /\ upd' = upd
    BY <1>8 DEF vars
  <2> QED BY <2>1, LoopOnly, Parts DEF LoopType
<1> QED BY <1>1, <1>2, <1>3, <1>4, <1>5, <1>6, <1>7, <1>8 DEF Next

\* Every reachable state satisfies the inductive invariant: types are kept, and
\* callbacks, threads, driver, session and gate stay in step, process crashes included.
THEOREM Invariance == Spec => []IInv
<1>1. Init => IInv
  <2> SUFFICES ASSUME Init PROVE IInv
    OBVIOUS
  <2>1. RobotType
    BY DEF Init, RobotType, ProgStates
  <2>2. Fresh
    BY <2>1 DEF Init, Fresh
  <2> QED BY <2>2, FreshHolds
<1> QED BY <1>1, NextKeeps, PTL DEF Spec

\* Every variable keeps its type.
THEOREM TypeCorrect == Spec => []TypeOK
<1>1. IInv => TypeOK
  BY DEF IInv
<1> QED BY <1>1, Invariance, PTL

\* No position command is let through but in Active, outside the callbacks that
\* leave it: write_enabled_ is lowered by every callback that ends operation.
THEOREM GateHolds == Spec => []WriteGate
<1>1. IInv => WriteGate
  BY DEF IInv
<1> QED BY <1>1, Invariance, PTL

\* krnx_Close is never called under a publisher thread's feet.
THEOREM QuietHolds == Spec => []QuietWhenClosed
<1>1. IInv => QuietWhenClosed
  BY DEF IInv, CallersExist, SessionPlace, QuietWhenClosed
<1> QED BY <1>1, Invariance, PTL

\* start() never assigns a thread that was not joined.
THEOREM NoRestart == Spec => []ThreadNotRestarted
<1>1. IInv => ThreadNotRestarted
  <2> SUFFICES ASSUME IInv, InBody, Current.do = "start_publishers", publishers PROVE FALSE
    BY DEF ThreadNotRestarted, IInv, TypeOK
  <2>1. cb.name = "configure" /\ cb.result = "none"
    BY Standing, Parts DEF ThreadFacts, InBody
  <2> QED BY <2>1, Tables, Parts DEF Place, PublisherPlace, Serving, Configured, Joining
<1> QED BY <1>1, Invariance, PTL

\* driver_ is released only after the threads that hold a plain reference to it have
\* been joined: the order of the members of KhiHardwareInterface, and what on_init has
\* created before it can fail.
THEOREM DriverHolds == Spec => []DriverOutlivesCalls
<1>1. IInv => DriverOutlivesCalls
  <2> SUFFICES ASSUME IInv, inCall # {} PROVE driver
    BY Parts DEF DriverOutlivesCalls, ThreadType
  <2>1. publishers \/ spinning
    BY Parts DEF CallersExist, ThreadType, Background
  <2>2. publishers => hw \in LiveStates /\ (cb.name = "destroy" => InBody)
    BY Tables, Parts DEF Place, PublisherPlace, Serving, Configured, Joining
  <2>3. spinning => \/ hw \in LiveStates /\ (cb.name = "destroy" => InBody)
                    \/ cb.name = "init" /\ cb.result = "SUCCESS"
    BY Tables, Steps, Parts DEF Place, SpinPlace, Spinning
  <2> QED BY <2>1, <2>2, <2>3, Parts DEF Place, DriverPlace
<1> QED BY <1>1, Invariance, PTL

\* After a refused on_init, a shutdown or the destructor no thread of the component
\* exists, and none is inside a call of the driver.
THEOREM FinalQuiet == Spec => []FinalizedIsQuiet
<1>1. IInv => FinalizedIsQuiet
  <2> SUFFICES ASSUME IInv, hw \in {"Finalized", "Destroyed"}
               PROVE  inCall = {} /\ ~spinning /\ ~publishers
    BY DEF FinalizedIsQuiet
  <2>1. hw \notin LiveStates /\ cb.name # "init"
    BY Parts DEF LiveStates, Place, CallbackPlace
  <2>2. ~publishers /\ ~spinning
    BY <2>1, Parts DEF Place, PublisherPlace, SpinPlace
  <2> QED BY <2>2, Parts DEF CallersExist, ThreadType, Background
<1> QED BY <1>1, Invariance, PTL

-----------------------------------------------------------------------------
(* The refinements.                                                        *)

\* Steps that change neither threads nor their calls are none of the publisher's.
LEMMA PublisherStutter ==
    ASSUME UNCHANGED <<publishers, should_stop, inCall>>
    PROVE  UNCHANGED PublisherLife!vars
BY DEF PublisherLife!vars

\* Every step of the component is one of the publisher's life, or none of its, or the
\* death of the process.
LEMMA PublisherSteps == IInv /\ [Next]_vars => [PublisherLife!Next \/ ProcessDies]_(PublisherLife!vars)
<1> SUFFICES ASSUME IInv, [Next]_vars
             PROVE  PublisherLife!Next \/ ProcessDies \/ UNCHANGED PublisherLife!vars
  OBVIOUS
<1>1. publishers \in BOOLEAN /\ should_stop \in BOOLEAN
  BY Parts DEF ThreadType
<1>2. CASE StartPublishers
  <2>1. ~publishers
    <3>1. InBody /\ Current.do = "start_publishers"
      BY <1>2 DEF StartPublishers
    <3>2. cb.name = "configure" /\ cb.result = "none"
      BY <3>1, Standing, Parts DEF ThreadFacts, InBody
    <3> QED BY <3>2, Tables, Parts DEF Place, PublisherPlace, Serving, Configured, Joining
  <2> QED BY <1>2, <2>1 DEF StartPublishers, PublisherLife!Next, PublisherLife!Start
<1>3. CASE StopPublishers
  BY <1>1, <1>3 DEF StopPublishers, PublisherLife!Next, PublisherLife!Tell, PublisherLife!vars
<1>4. CASE JoinPublishers
  <2>1. publishers => should_stop
    BY <1>4, Parts DEF JoinPublishers, Place, PublisherPlace
  <2> QED BY <1>1, <1>4, <2>1
          DEF JoinPublishers, PublisherLife!Next, PublisherLife!Join, PublisherLife!vars
<1>5. CASE \E t \in Background : CallBegins(t)
  <2>1. PICK t \in Background : CallBegins(t)
    BY <1>5
  <2>2. CASE t \in PubThreads
    <3>1. /\ publishers /\ ~should_stop /\ t \notin inCall /\ inCall' = inCall \cup {t}
          /\ publishers' = publishers /\ should_stop' = should_stop
      BY <2>1, <2>2 DEF CallBegins, PubThreads
    <3>2. (inCall \cup {t}) \cap PubThreads = (inCall \cap PubThreads) \cup {t}
      BY <2>2
    <3>3. PublisherLife!Begin(t)
      BY <3>1, <3>2 DEF PublisherLife!Begin
    <3> QED BY <2>2, <3>3 DEF PublisherLife!Next
  <2>3. CASE t \notin PubThreads
    BY <2>1, <2>3 DEF CallBegins, PublisherLife!vars
  <2> QED BY <2>2, <2>3
<1>6. CASE \E t \in Background : CallEnds(t)
  <2>1. PICK t \in Background : CallEnds(t)
    BY <1>6
  <2>2. CASE t \in PubThreads
    <3>1. PublisherLife!End(t)
      BY <2>1, <2>2 DEF CallEnds, PublisherLife!End
    <3> QED BY <2>2, <3>1 DEF PublisherLife!Next
  <2>3. CASE t \notin PubThreads
    BY <2>1, <2>3 DEF CallEnds, PublisherLife!vars
  <2> QED BY <2>2, <2>3
<1>7. CASE UNCHANGED <<publishers, should_stop, inCall>>
  BY <1>7, PublisherStutter
<1>8. CASE ProcessDies
  BY <1>8
<1> QED
  <2>1. CASE CallbackStep
    BY <1>2, <1>3, <1>4, <1>7, <1>8, <2>1
       DEF CallbackStep, NullDriver, KrnxCall, WaitRtcActive, RtcTimeout, is_program_running,
           create_khi_robot_driver, InitService, DropDriver, StartServices, StopServices,
           JoinService, threads
  <2>2. CASE (\E n \in Callbacks : Request(n)) \/ Return
    BY <1>7, <2>2 DEF Request, Return, threads
  <2>3. CASE ReadStart \/ WriteStart \/ UpdateStep
    BY <1>7, <2>3 DEF ReadStart, WriteStart, UpdateStep, ReadLink, ReadLost, ReadData, WriteLink,
                      WriteAble, WriteSend, RaiseError, RaiseDeactivate, threads
  <2>4. CASE Environment
    BY <1>7, <2>4 DEF Environment, LinkLost, OperatorStop, OperatorReady, OperatorRuns,
                      RtcBecomesActive, ControllerError, threads
  <2>5. CASE UNCHANGED vars
    BY <1>7, <2>5 DEF vars, threads
  <2> QED BY <1>5, <1>6, <1>8, <2>1, <2>2, <2>3, <2>4, <2>5 DEF Next

\* The lifecycle uses the publisher as KhiPublisherLife says its threads must be used,
\* until the process dies.
THEOREM PublisherRefinement == Spec => PublisherLifeSpec
<1>1. Init => PublisherLife!Init
  BY DEF Init, PublisherLife!Init
<1> QED BY <1>1, PublisherSteps, Invariance, PTL DEF Spec, PublisherLifeSpec

\* A step of a callback moves it in its script and changes nothing of the manager and
\* the update loop.
LEMMA BodySteps ==
    ASSUME IInv, CallbackStep, ~NullDriver
    PROVE  InBody /\ BodyMove /\ UNCHANGED <<hw, upd>>
<1>1. Control
  BY Parts
<1>2. CASE KrnxCall
  <2>1. InBody /\ Current.do \in KrnxCalls /\ UNCHANGED <<hw, upd>>
    BY <1>2 DEF KrnxCall
  <2>2. CASE Advance \/ Fail
    BY <1>1, <2>1, <2>2, AdvanceMove, FailMove
  <2>3. CASE cb' = [cb EXCEPT !.wait = TRUE] /\ UNCHANGED interface
    BY <1>1, <2>1, <2>3 DEF Control, CbType, BodyMove, InBody, interface
  <2> QED BY <1>2, <2>1, <2>2, <2>3 DEF KrnxCall
<1>3. CASE WaitRtcActive \/ RtcTimeout
  <2>1. InBody /\ Current.do \in KrnxCalls /\ UNCHANGED <<hw, upd>> /\ (Advance \/ Fail)
    BY <1>1, <1>3 DEF WaitRtcActive, RtcTimeout, Control, ScriptPosition, KrnxCalls, PerArm
  <2> QED BY <1>1, <2>1, AdvanceMove, FailMove
<1>4. CASE is_program_running
  <2>1. /\ InBody /\ UNCHANGED <<hw, upd>> /\ cb.step + 1 \in Nat \ {0} /\ cb.step + 2 \in Nat \ {0}
        /\ GoTo(cb.step + 1) \/ GoTo(cb.step + 2)
    BY <1>1, <1>4 DEF is_program_running, Control, CbType
  <2> QED BY <1>1, <2>1, GoToMove
<1>5. CASE GoTo(cb.step + 1) /\ InBody /\ UNCHANGED <<hw, upd>>
  BY <1>1, <1>5, NextMove
<1> QED BY <1>2, <1>3, <1>4, <1>5
        DEF CallbackStep, create_khi_robot_driver, InitService, DropDriver, StartServices,
            StopServices, JoinService, StartPublishers, StopPublishers, JoinPublishers

\* Starting a callback at most stops the commands.
LEMMA StartStops ==
    ASSUME IInv, NEW n \in Callbacks, Start(n), UNCHANGED <<hw, services, publishers>>,
           cb.name = "none" \/ cb.name \notin {"destroy"}
    PROVE  Lifecycle!Disable \/ UNCHANGED Lifecycle!vars
<1>1. cb'.name = n /\ (write_enabled_' => write_enabled_) /\ write_enabled_' \in BOOLEAN
  BY Parts, StartMove DEF Control
<1>2. operation \in BOOLEAN /\ operation' \in BOOLEAN /\ (operation' => operation)
  BY <1>1, Parts DEF operation, Control
<1>3. UNCHANGED <<Announced, services, publishers>>
  BY DEF Announced
<1> QED BY <1>2, <1>3 DEF Lifecycle!Disable, Lifecycle!vars

\* A callback that returns moves the announced state along an arrow of the diagram, its
\* interfaces already those of the new state.
LEMMA ReturnMoves ==
    ASSUME IInv, Return
    PROVE  Lifecycle!Next \/ UNCHANGED Lifecycle!vars
<1>1. /\ cb.result # "none" /\ UNCHANGED <<services, publishers>> /\ cb.name \in Callbacks
      /\ cb.result \in Results /\ ~InBody /\ cb.name # "none"
      /\ services \in BOOLEAN /\ publishers \in BOOLEAN /\ write_enabled_ \in BOOLEAN
  BY Parts DEF Return, Control, CbType, ScriptPosition, Idle, InBody, threads, ThreadType
<1>2. CASE Errs /\ Start("error") /\ UNCHANGED <<hw, upd>>
  <2>1. cb.name # "destroy"
    BY <1>2, Parts DEF Errs, Place, CallbackPlace
  <2> QED BY <1>1, <1>2, <2>1, StartStops DEF Callbacks, Lifecycle!Next
<1>3. CASE /\ ~Errs /\ hw' = NextHw(cb.name, cb.result) /\ cb' = Idle
           /\ UNCHANGED interface
  <2>1. operation' = operation
    <3>1. hw # "Destroyed" /\ cb'.name # "destroy"
      BY <1>1, <1>3, Parts DEF Place, CallbackPlace, LiveStates, Callbacks, Idle
    <3>2. CASE cb.name = "destroy"
      BY <1>3, <3>1, <3>2 DEF operation, NextHw
    <3>3. CASE cb.name # "destroy"
      <4>1. hw' # "Destroyed"
        BY <1>1, <1>3, <3>3 DEF NextHw, Callbacks
      <4> QED BY <1>3, <3>1, <3>3, <4>1 DEF operation, interface
    <3> QED BY <3>2, <3>3
  \* What exists and is let through when the callback is over.
  <2>2. /\ services <=> Serving \/ Configured
        /\ publishers <=> Serving \/ Configured
        /\ operation <=> cb.name = "activate" /\ cb.result = "SUCCESS"
    <3>1. services <=> Serving \/ Configured
      BY <1>1, Tables, Parts DEF Place, ServicePlace, Stopping
    <3>2. publishers <=> Serving \/ Configured
      BY <1>1, Tables, Parts DEF Place, PublisherPlace, Joining
    <3>3. operation => cb.name = "activate" /\ cb.result = "SUCCESS"
      BY <1>1, Parts DEF WriteGate, Idle
    <3>4. cb.name = "activate" /\ cb.result = "SUCCESS" => operation
      BY <1>1, Parts DEF Place, CallbackPlace, operation
    <3> QED BY <3>1, <3>2, <3>3, <3>4
  <2>3. operation \in BOOLEAN
    BY <1>1 DEF operation
  <2>4. CASE cb.name = "init"
    BY <1>1, <1>3, <2>1, <2>2, <2>3, <2>4, Parts
       DEF Place, CallbackPlace, Serving, Configured, NextHw, Announced, Lifecycle!Next,
           Lifecycle!Move, Lifecycle!vars, Lifecycle!Arrows, Lifecycle!States, Lifecycle!Serving
  <2>5. CASE cb.name = "configure"
    BY <1>1, <1>3, <2>1, <2>2, <2>3, <2>5, Parts
       DEF Place, CallbackPlace, Serving, Configured, NextHw, Announced, Lifecycle!Next,
           Lifecycle!Move, Lifecycle!vars, Lifecycle!Arrows, Lifecycle!States, Lifecycle!Serving
  <2>6. CASE cb.name = "activate"
    BY <1>1, <1>3, <2>1, <2>2, <2>3, <2>6, Parts
       DEF Place, CallbackPlace, Serving, Configured, NextHw, Announced, Lifecycle!Next,
           Lifecycle!Move, Lifecycle!vars, Lifecycle!Arrows, Lifecycle!States, Lifecycle!Serving
  <2>7. CASE cb.name = "deactivate"
    BY <1>1, <1>3, <2>1, <2>2, <2>3, <2>7, Parts
       DEF Place, CallbackPlace, Serving, Configured, NextHw, Announced, Lifecycle!Next,
           Lifecycle!Move, Lifecycle!vars, Lifecycle!Arrows, Lifecycle!States, Lifecycle!Serving
  <2>8. CASE cb.name \in {"cleanup", "shutdown"}
    BY <1>1, <1>3, <2>1, <2>2, <2>3, <2>8, Parts
       DEF Place, CallbackPlace, Serving, Configured, NextHw, Announced, Lifecycle!Next,
           Lifecycle!Move, Lifecycle!vars, Lifecycle!Arrows, Lifecycle!States, Lifecycle!Serving,
           LiveStates
  <2>9. CASE cb.name \in {"error", "destroy"}
    BY <1>1, <1>3, <2>1, <2>2, <2>3, <2>9, Parts
       DEF Place, CallbackPlace, Serving, Configured, NextHw, Announced, Lifecycle!Next,
           Lifecycle!Move, Lifecycle!vars, Lifecycle!Arrows, Lifecycle!States, Lifecycle!Serving,
           LiveStates
  <2> QED BY <1>1, <2>4, <2>5, <2>6, <2>7, <2>8, <2>9 DEF Callbacks
<1> QED BY <1>2, <1>3 DEF Return

\* A step of a callback offers or withdraws interfaces, or lets commands through.
LEMMA BodyOffers ==
    ASSUME IInv, CallbackStep, ~NullDriver
    PROVE  Lifecycle!Next \/ UNCHANGED Lifecycle!vars
<1>1. InBody /\ BodyMove /\ UNCHANGED <<hw, upd>> /\ IInv'
  BY BodySteps, CallbackStepKeeps
<1>2. /\ Announced' = Announced /\ services \in BOOLEAN /\ publishers \in BOOLEAN
      /\ services' \in BOOLEAN /\ publishers' \in BOOLEAN
  BY <1>1, Parts DEF Announced, ThreadType
<1>3. ~operation
  BY <1>1, Parts DEF WriteGate, InBody, Idle
<1>4. operation' <=> cb.name = "activate" /\ cb'.result = "SUCCESS"
  <2>1. cb.name \in {"destroy", "activate"} => hw # "Destroyed"
    BY <1>1, Parts DEF Place, CallbackPlace, LiveStates
  <2> QED BY <1>1, <1>3, <2>1, Parts DEF operation, BodyMove, Control
<1>5. operation \in BOOLEAN /\ operation' \in BOOLEAN
  BY Parts, <1>1 DEF operation, Control
<1>6. CASE services' = services /\ publishers' = publishers
  <2>1. CASE operation'
    <3>1. cb.name = "activate" /\ cb.result = "none" /\ hw = "Inactive"
      BY <1>1, <1>4, <2>1, Parts DEF InBody, Place, CallbackPlace
    <3>2. services /\ publishers /\ Announced = "Inactive"
      BY <3>1, Parts DEF Place, ServicePlace, PublisherPlace, Serving, Announced
    <3> QED BY <1>2, <1>5, <1>6, <2>1, <3>2 DEF Lifecycle!Next, Lifecycle!Enable
  <2>2. CASE ~operation'
    BY <1>2, <1>3, <1>5, <1>6, <2>2 DEF Lifecycle!vars
  <2> QED BY <2>1, <2>2
<1>7. CASE StartServices \/ StartPublishers
  <2>1. /\ Current.do \in {"start_services", "start_publishers"}
        /\ services => services'
        /\ publishers => publishers'
    BY <1>7 DEF StartServices, StartPublishers
  <2>2. cb.name = "configure"
    BY <1>1, <2>1, Standing, Parts DEF ThreadFacts
  <2>3. Announced = "Unconfigured" /\ operation' = operation
    BY <1>3, <1>4, <1>5, <2>2, Parts DEF Place, CallbackPlace, Announced
  <2> QED BY <1>2, <2>1, <2>3 DEF Lifecycle!Next, Lifecycle!Offer
<1>8. CASE StopServices \/ JoinPublishers
  <2>1. /\ Current.do \in {"stop_services", "join_publishers"}
        /\ services' => services
        /\ publishers' => publishers
    BY <1>8 DEF StopServices, JoinPublishers
  <2>2. cb.name # "activate"
    BY <1>1, <2>1, Standing, Parts DEF ThreadFacts
  <2>3. operation' = operation
    BY <1>3, <1>4, <1>5, <2>2
  <2> QED BY <1>2, <1>3, <2>1, <2>3 DEF Lifecycle!Next, Lifecycle!Withdraw
<1> QED BY <1>6, <1>7, <1>8
        DEF CallbackStep, KrnxCall, WaitRtcActive, RtcTimeout, is_program_running,
            create_khi_robot_driver, InitService, DropDriver, JoinService, StopPublishers, threads

\* A step that touches neither manager, callback, gate nor interfaces is invisible to
\* the user of the lifecycle.
LEMMA LifecycleStutter ==
    ASSUME UNCHANGED <<hw, cb, interface, services, publishers>>
    PROVE  UNCHANGED Lifecycle!vars
BY DEF Lifecycle!vars, Announced, operation, interface

\* Every step of the component is one of the documented lifecycle, or invisible to its
\* user, or the death of the process.
LEMMA LifecycleSteps == IInv /\ [Next]_vars => [Lifecycle!Next \/ ProcessDies]_(Lifecycle!vars)
<1> SUFFICES ASSUME IInv, [Next]_vars
             PROVE  Lifecycle!Next \/ ProcessDies \/ UNCHANGED Lifecycle!vars
  OBVIOUS
<1>1. CASE \E n \in Callbacks : Request(n)
  <2>1. PICK n \in Callbacks : Request(n)
    BY <1>1
  <2>2. Start(n) /\ UNCHANGED <<hw, services, publishers>> /\ cb.name = "none"
    BY <2>1 DEF Request, threads, Idle
  <2> QED BY <2>2, StartStops DEF Lifecycle!Next
<1>2. CASE CallbackStep
  BY <1>2, BodyOffers DEF NullDriver
<1>3. CASE Return
  BY <1>3, ReturnMoves
<1>4. CASE RaiseError \/ RaiseDeactivate
  <2>1. CASE UNCHANGED <<cb, interface>>
    BY <1>4, <2>1, LifecycleStutter DEF RaiseError, RaiseDeactivate, threads
  <2>2. CASE Start("error") \/ Start("deactivate")
    <3>1. UNCHANGED <<hw, services, publishers>> /\ cb.name = "none"
      BY <1>4 DEF RaiseError, RaiseDeactivate, threads, Idle
    <3> QED BY <2>2, <3>1, StartStops DEF Lifecycle!Next, Callbacks
  <2> QED BY <1>4, <2>1, <2>2 DEF RaiseError, RaiseDeactivate
<1>5. CASE UNCHANGED <<hw, cb, interface, services, publishers>>
  BY <1>5, LifecycleStutter
<1>6. CASE ProcessDies
  BY <1>6
<1> QED
  <2>1. CASE ReadStart \/ WriteStart \/ UpdateStep
    BY <1>4, <1>5, <2>1 DEF ReadStart, WriteStart, UpdateStep, ReadLink, ReadLost, ReadData,
                            WriteLink, WriteAble, WriteSend, threads
  <2>2. CASE \E t \in Background : CallBegins(t) \/ CallEnds(t)
    BY <1>5, <2>2 DEF CallBegins, CallEnds
  <2>3. CASE Environment
    BY <1>5, <2>3 DEF Environment, LinkLost, OperatorStop, OperatorReady, OperatorRuns,
                      RtcBecomesActive, ControllerError, threads
  <2>4. CASE UNCHANGED vars
    BY <1>5, <2>4 DEF vars, threads
  <2> QED BY <1>1, <1>2, <1>3, <1>6, <2>1, <2>2, <2>3, <2>4 DEF Next

\* The component implements the lifecycle that its document promises, for any number of
\* arms and whichever calls fail, until its process dies.
THEOREM LifecycleRefinement == Spec => LifecycleSpec
<1>1. Init => Lifecycle!Init
  BY DEF Init, Lifecycle!Init, Announced, operation
<1> QED BY <1>1, LifecycleSteps, Invariance, PTL DEF Spec, LifecycleSpec
=============================================================================
