----------------------------- MODULE KhiHardware -----------------------------
(***************************************************************************)
(* The Kawasaki hardware component under ros2_control: the lifecycle       *)
(* callbacks of KhiHardwareInterface with the KhiKrnxDriver routines they  *)
(* run, the read/write update loop, the background threads of KhiPublisher *)
(* and KhiService, and the robot controller at the other end of the KRNX   *)
(* session, which can lose the link, be held by its operator or raise an   *)
(* error between any two calls.  The component object is created,          *)
(* initialized and destroyed, and its process may die at any step and be   *)
(* started again beside a controller that went on.                         *)
(*                                                                         *)
(* A callback is a script of driver routines (ConfigureScript, ...).  A    *)
(* routine that loops over the arms makes one KRNX call per arm, each call *)
(* is a step, and the first call that fails ends the routine.              *)
(***************************************************************************)
EXTENDS Naturals, Sequences

CONSTANTS
    NArms,      \* arms of the robot, commanded in the order 1..NArms
    Faulty,     \* KRNX calls that may fail although the controller could serve them
    Overlap,    \* TRUE: read() and write() may run while a lifecycle callback does
    UpdateRate  \* parameter update_rate of the description, in Hz

VARIABLES
    hw,             \* lifecycle state, kept by the resource manager
    cb,             \* the lifecycle callback in progress and where it stands
    upd,            \* where the update loop stands in read() or write()
    flags,          \* the is_..._ flags of KhiHardwareInterface that are true
    write_enabled_, \* KhiHardwareInterface::write_enabled_
    driver,         \* KhiHardwareInterface::driver_ is not null
    services,       \* the service servers exist
    spinning,       \* the service spin thread exists
    publishers,     \* publishers, timer, event and executor thread exist
    should_stop,    \* KhiPublisher::should_stop_publisher_
    inCall,         \* background threads that are inside a driver call
    conn,           \* the KRNX session: "closed", "up" or "lost"
    motor,          \* motor power
    prog,           \* per arm, the robot program
    ready,          \* REPEAT, RUN, no teach lock, no emergency or protective stop
    err             \* arms whose error lamp is on

interface == <<flags, write_enabled_>>
threads   == <<driver, services, spinning, publishers, should_stop, inCall>>
robot     == <<conn, motor, prog, ready, err>>
vars      == <<hw, cb, upd, interface, threads, robot>>

Arms       == 1..NArms
Callbacks  == {"init", "configure", "activate", "deactivate", "cleanup", "shutdown", "error",
               "destroy"}
Results    == {"none", "SUCCESS", "FAILURE", "ERROR"}

\* Created: the object exists, on_init has not been called.  Destroyed: its
\* destructor has run.
LiveStates == {"Unconfigured", "Inactive", "Active"}
HwStates   == LiveStates \cup {"Created", "Finalized", "Destroyed"}
PubThreads == {"event", "timer"}
Background == PubThreads \cup {"service"}

\* "active" is a running rb_rtc program whose rtc_active status is ON.
ProgStates == {"none", "held", "running", "active"}
Moving     == {"running", "active"}

\* robot_.period in ms, an integer division.
Period == 1000 \div UpdateRate

-----------------------------------------------------------------------------
(* The scripts: the routines of a callback in order, each with what the    *)
(* callback does when the routine reports failure.                         *)

S(do, fail) == [do |-> do, fail |-> fail]

\* on_init: init_service creates the service node and its spin thread.
InitScript ==
    << S("check_interfaces", "ERROR"), S("create_driver", "never"),
       S("krnx_version", "FAILURE"), S("init_service", "never") >>

\* Mutants: the publishers started before the session is open, and forgotten.
ConfigureScript_Early ==
    << S("periodic_data", "ERROR"), S("start_publishers", "never"), S("open", "ERROR"),
       S("load", "ERROR"), S("start_services", "never") >>

ConfigureScript_NoPublishers ==
    << S("periodic_data", "ERROR"), S("open", "ERROR"), S("load", "ERROR"),
       S("start_services", "never") >>

ConfigureScript ==
    << S("periodic_data", "ERROR"), S("open", "ERROR"),
       S("config_valid", "ERROR"), S("version_valid", "ERROR"),
       S("is_running", "skip"), S("hold", "ERROR"), S("rtc_info", "ERROR"),
       \* load_rtc_program
       S("is_running", "skip"), S("hold", "ERROR"), S("power_off", "ERROR"),
       S("kill", "ERROR"), S("load", "ERROR"),
       S("language", "FAILURE"), S("aux_timeout", "ignore"), S("path_const", "ignore"),
       S("start_services", "never"), S("start_publishers", "never") >>

ActivateScript ==
    << S("communicating", "ERROR"), S("requirements", "FAILURE"),
       S("reset_error", "FAILURE"), S("power_on", "FAILURE"),
       S("is_running", "skip"), S("hold", "FAILURE"), S("reset_error", "FAILURE"),
       S("comp_clear", "FAILURE"), S("home", "FAILURE"), S("mon_speed", "FAILURE"),
       S("execute", "FAILURE") >>

DeactivateScript ==
    << S("hold", "FAILURE"), S("kill", "FAILURE"), S("power_off", "FAILURE") >>

\* Mutant: the session is closed before the publisher threads are joined.
CleanupScript_ClosesFirst ==
    << S("stop_services", "never"), S("close", "FAILURE"),
       S("stop_publishers", "never"), S("join_publishers", "never") >>

\* Mutant: the session is left to the next configuration.
CleanupScript_NoClose ==
    << S("stop_services", "never"), S("stop_publishers", "never"),
       S("join_publishers", "never") >>

CleanupScript ==
    << S("stop_services", "never"), S("stop_publishers", "never"),
       S("join_publishers", "never"), S("close", "FAILURE") >>

\* Mutant: service_->stop() without service_.reset().
ShutdownScript_NoReset ==
    << S("stop_services", "never"),
       S("stop_publishers", "never"), S("join_publishers", "never"),
       S("hold", "ignore"), S("kill", "ignore"), S("power_off", "ignore"),
       S("close", "ignore") >>

ShutdownScript ==
    << S("stop_services", "never"), S("join_service", "never"),
       S("stop_publishers", "never"), S("join_publishers", "never"),
       S("hold", "ignore"), S("kill", "ignore"), S("power_off", "ignore"),
       S("close", "ignore") >>

\* Mutants: the publishers left running, the session left open, and a failing
\* kill that ends the handler before the motor power is off.
ErrorScript_KeepsPublishers ==
    << S("stop_services", "never"),
       S("hold", "ignore"), S("kill", "ignore"), S("power_off", "ignore"),
       S("close", "ignore") >>

ErrorScript_NoClose ==
    << S("stop_services", "never"), S("stop_publishers", "never"),
       S("join_publishers", "never"),
       S("hold", "ignore"), S("kill", "ignore"), S("power_off", "ignore") >>

ErrorScript_ClosesEarly ==
    << S("stop_services", "never"), S("stop_publishers", "never"),
       S("join_publishers", "never"),
       S("hold", "ignore"), S("kill", "ignore"), S("close", "ignore"),
       S("power_off", "ignore") >>

ErrorScript ==
    << S("stop_services", "never"), S("stop_publishers", "never"),
       S("join_publishers", "never"),
       S("hold", "ignore"), S("kill", "ignore"), S("power_off", "ignore"),
       S("close", "ignore") >>

\* Mutant: driver_ declared last, hence destroyed first.
DestructorScript_DriverFirst ==
    << S("hold", "ignore"), S("kill", "ignore"), S("power_off", "ignore"),
       S("close", "ignore"), S("drop_driver", "never"),
       S("stop_services", "never"), S("join_service", "never"),
       S("stop_publishers", "never"), S("join_publishers", "never") >>

\* ~KhiHardwareInterface calls driver_->error(); then its members go in the
\* reverse order of their declaration: service_, publisher_, driver_.
DestructorScript ==
    << S("hold", "ignore"), S("kill", "ignore"), S("power_off", "ignore"),
       S("close", "ignore"),
       S("stop_services", "never"), S("join_service", "never"),
       S("stop_publishers", "never"), S("join_publishers", "never"),
       S("drop_driver", "never") >>

Script == [init       |-> InitScript,       configure |-> ConfigureScript,
           activate   |-> ActivateScript,   deactivate |-> DeactivateScript,
           cleanup    |-> CleanupScript,    shutdown  |-> ShutdownScript,
           error      |-> ErrorScript,      destroy   |-> DestructorScript]

\* Routines that make one KRNX call per arm, those that make one call, and of
\* these the ones that need no session.
PerArm == {"config_valid", "rtc_info", "hold", "kill", "requirements", "reset_error",
           "comp_clear", "home", "mon_speed", "execute"}
NoLink == {"check_interfaces", "krnx_version", "periodic_data", "version_valid"}
Once   == NoLink \cup {"open", "power_off", "load", "language", "aux_timeout",
                       "path_const", "communicating", "power_on", "close"}
KrnxCalls == PerArm \cup Once
MayFail   == KrnxCalls \cup {"is_running", "rtc_status", "error_lamp", "send"}

ASSUME NArmsAssumption   == NArms \in Nat \ {0}
ASSUME FaultyAssumption  == Faulty \subseteq MayFail
ASSUME OverlapAssumption == Overlap \in BOOLEAN
ASSUME RateAssumption    == UpdateRate \in Nat \ {0}

-----------------------------------------------------------------------------
(* What a KRNX call does to the controller.  Accepts is when the           *)
(* controller can serve it.                                                *)

Stopped(p) == IF p \in Moving THEN "held" ELSE p

Accepts(do, a) ==
    \/ do \in NoLink
    \/ do = "open" /\ conn = "closed"
    \/ do = "close" /\ conn # "closed"
    \/ /\ do \notin NoLink \cup {"open", "close"}
       /\ conn = "up"
       /\ do \in {"requirements", "power_on", "execute"} => ready
       /\ do = "execute" => motor /\ a \notin err

open == conn' = "up" /\ UNCHANGED <<motor, prog, ready, err>>

close == conn' = "closed" /\ UNCHANGED <<motor, prog, ready, err>>

hold(a) == prog' = [prog EXCEPT ![a] = Stopped(@)] /\ UNCHANGED <<conn, motor, ready, err>>

kill_program(a) == prog' = [prog EXCEPT ![a] = "none"] /\ UNCHANGED <<conn, motor, ready, err>>

reset_error(a) == err' = err \ {a} /\ UNCHANGED <<conn, motor, prog, ready>>

power_on_motor == motor' = TRUE /\ UNCHANGED <<conn, prog, ready, err>>

\* Without motor power no program keeps running.
power_off_motor == /\ motor' = FALSE
                   /\ prog' = [b \in Arms |-> Stopped(prog[b])]
                   /\ UNCHANGED <<conn, ready, err>>

exec_rtc_program(a) == prog' = [prog EXCEPT ![a] = "running"] /\ UNCHANGED <<conn, motor, ready, err>>

Effect(do, a) ==
    \/ do = "open" /\ open
    \/ do = "close" /\ close
    \/ do = "hold" /\ hold(a)
    \/ do = "kill" /\ kill_program(a)
    \/ do = "reset_error" /\ reset_error(a)
    \/ do = "power_on" /\ power_on_motor
    \/ do = "power_off" /\ power_off_motor
    \/ do = "execute" /\ exec_rtc_program(a)
    \/ /\ do \notin {"open", "close", "hold", "kill", "reset_error", "power_on",
                     "power_off", "execute"}
       /\ UNCHANGED robot

-----------------------------------------------------------------------------
(* Control of a callback.                                                  *)

Idle == [name |-> "none", step |-> 1, arm |-> 1, wait |-> FALSE, result |-> "none"]

InBody == cb.name # "none" /\ cb.result = "none"

Current == Script[cb.name][cb.step]

\* The callback clears its flag just before it returns; a deactivation that
\* fails leaves is_deactivating_ set.
FlagCleared(name, result) ==
    IF name = "deactivate" /\ result # "SUCCESS" THEN {} ELSE {name}

Complete(result) ==
    /\ cb' = [cb EXCEPT !.result = result]
    /\ flags' = flags \ FlagCleared(cb.name, result)
    /\ write_enabled_' = (write_enabled_ \/ (cb.name = "activate" /\ result = "SUCCESS"))

GoTo(i) ==
    IF i > Len(Script[cb.name])
    THEN Complete("SUCCESS")
    ELSE /\ cb' = [cb EXCEPT !.step = i, !.arm = 1, !.wait = FALSE]
         /\ UNCHANGED interface

\* Mutant: the last arm forgotten.
Advance_LastForgotten ==
    IF Current.do \in PerArm /\ cb.arm + 1 < NArms
    THEN cb' = [cb EXCEPT !.arm = @ + 1, !.wait = FALSE] /\ UNCHANGED interface
    ELSE GoTo(cb.step + 1)

\* The loop over the arms goes on, or the routine is over.
Advance ==
    IF Current.do \in PerArm /\ cb.arm < NArms
    THEN /\ cb' = [cb EXCEPT !.arm = @ + 1, !.wait = FALSE]
         /\ UNCHANGED interface
    ELSE GoTo(cb.step + 1)

\* The routine returns false at once: the arms after this one are not served.
Fail ==
    IF Current.fail = "ignore" THEN GoTo(cb.step + 1) ELSE Complete(Current.fail)

\* One KRNX call.  A call that fails although the controller could serve it may
\* have been carried out, its answer lost.
KrnxCall ==
    /\ InBody /\ ~cb.wait
    /\ Current.do \in KrnxCalls
    /\ cb.name = "destroy" => driver
    /\ \/ /\ Accepts(Current.do, cb.arm)
          /\ Effect(Current.do, cb.arm)
          /\ IF Current.do = "execute"
             THEN cb' = [cb EXCEPT !.wait = TRUE] /\ UNCHANGED interface
             ELSE Advance
       \/ /\ ~Accepts(Current.do, cb.arm)
          /\ UNCHANGED robot
          /\ Fail
       \/ /\ Accepts(Current.do, cb.arm) /\ Current.do \in Faulty
          /\ Effect(Current.do, cb.arm) \/ UNCHANGED robot
          /\ Fail
    /\ UNCHANGED <<hw, upd, threads>>

\* exec_rtc_program polls until rtc_active is ON, for 5 s at most; an error lamp
\* or a status that cannot be read ends the wait too.
WaitRtcActive ==
    /\ InBody /\ cb.wait
    /\ \/ /\ conn = "up" /\ prog[cb.arm] = "active"
          /\ err = {} \/ "error_lamp" \in Faulty
          /\ Advance
       \/ conn = "up" /\ err # {} /\ Fail
       \/ (conn # "up" \/ "rtc_status" \in Faulty) /\ Fail
    /\ UNCHANGED <<hw, upd, threads, robot>>

\* Mutant: no timeout.
RtcTimeout_Never == FALSE

\* The wait counts periods: with a period of 0 ms its 5 s never pass.
RtcTimeout ==
    /\ InBody /\ cb.wait
    /\ Period > 0
    /\ Fail
    /\ UNCHANGED <<hw, upd, threads, robot>>

\* The hold that follows is skipped when no program runs, and also when the
\* status cannot be read.
is_program_running ==
    /\ InBody /\ Current.do = "is_running"
    /\ \/ conn = "up" /\ (\E a \in Arms : prog[a] \in Moving) /\ GoTo(cb.step + 1)
       \/ /\ conn # "up" \/ "is_running" \in Faulty \/ \A a \in Arms : prog[a] \notin Moving
          /\ GoTo(cb.step + 2)
    /\ UNCHANGED <<hw, upd, threads, robot>>

\* A parameter that is missing or no number throws: the process ends (ProcessDies).
create_khi_robot_driver ==
    /\ InBody /\ Current.do = "create_driver"
    /\ driver' = TRUE
    /\ GoTo(cb.step + 1)
    /\ UNCHANGED <<hw, upd, services, spinning, publishers, should_stop, inCall, robot>>

InitService ==
    /\ InBody /\ Current.do = "init_service"
    /\ spinning' = TRUE
    /\ GoTo(cb.step + 1)
    /\ UNCHANGED <<hw, upd, driver, services, publishers, should_stop, inCall, robot>>

\* The last reference to the driver goes.
DropDriver ==
    /\ InBody /\ Current.do = "drop_driver"
    /\ driver' = FALSE
    /\ GoTo(cb.step + 1)
    /\ UNCHANGED <<hw, upd, services, spinning, publishers, should_stop, inCall, robot>>

StartServices ==
    /\ InBody /\ Current.do = "start_services"
    /\ services' = TRUE
    /\ GoTo(cb.step + 1)
    /\ UNCHANGED <<hw, upd, driver, spinning, publishers, should_stop, inCall, robot>>

\* A request being served is not waited for.
StopServices ==
    /\ InBody /\ Current.do = "stop_services"
    /\ services' = FALSE
    /\ GoTo(cb.step + 1)
    /\ UNCHANGED <<hw, upd, driver, spinning, publishers, should_stop, inCall, robot>>

\* service_.reset() joins the spin thread.
JoinService ==
    /\ InBody /\ Current.do = "join_service"
    /\ "service" \notin inCall
    /\ spinning' = FALSE
    /\ GoTo(cb.step + 1)
    /\ UNCHANGED <<hw, upd, driver, services, publishers, should_stop, inCall, robot>>

StartPublishers ==
    /\ InBody /\ Current.do = "start_publishers"
    /\ publishers' = TRUE
    /\ should_stop' = FALSE
    /\ GoTo(cb.step + 1)
    /\ UNCHANGED <<hw, upd, driver, services, spinning, inCall, robot>>

\* Mutant: the threads are not told to stop.
StopPublishers_NoFlag ==
    /\ InBody /\ Current.do = "stop_publishers"
    /\ should_stop' = should_stop
    /\ GoTo(cb.step + 1)
    /\ UNCHANGED <<hw, upd, driver, services, spinning, publishers, inCall, robot>>

StopPublishers ==
    /\ InBody /\ Current.do = "stop_publishers"
    /\ should_stop' = TRUE
    /\ GoTo(cb.step + 1)
    /\ UNCHANGED <<hw, upd, driver, services, spinning, publishers, inCall, robot>>

JoinPublishers ==
    /\ InBody /\ Current.do = "join_publishers"
    /\ inCall \cap PubThreads = {}
    /\ publishers' = FALSE
    /\ GoTo(cb.step + 1)
    /\ UNCHANGED <<hw, upd, driver, services, spinning, should_stop, inCall, robot>>

-----------------------------------------------------------------------------
(* The end of the process.                                                 *)

\* Killed, crashed, or ended after the object was destroyed: a new process is
\* started, with a component that knows nothing.  The socket of the session goes
\* with the process; the controller, its programs and its motor go on.
ProcessDies ==
    /\ hw' = "Created" /\ cb' = Idle /\ upd' = "idle"
    /\ flags' = {} /\ write_enabled_' = FALSE
    /\ driver' = FALSE /\ services' = FALSE /\ spinning' = FALSE
    /\ publishers' = FALSE /\ should_stop' = FALSE /\ inCall' = {}
    /\ conn' = "closed"
    /\ UNCHANGED <<motor, prog, ready, err>>

\* An on_init that refused the interfaces leaves driver_ null, and the destructor
\* calls through it.
NullDriver == InBody /\ cb.name = "destroy" /\ ~driver /\ ProcessDies

CallbackStep ==
    \/ KrnxCall \/ WaitRtcActive \/ RtcTimeout \/ is_program_running
    \/ create_khi_robot_driver \/ InitService \/ DropDriver \/ NullDriver
    \/ StartServices \/ StopServices \/ JoinService
    \/ StartPublishers \/ StopPublishers \/ JoinPublishers

-----------------------------------------------------------------------------
(* The resource manager (ros2_control): it starts callbacks, and changes   *)
(* the lifecycle state by what they return.                                *)

\* Nothing sets a flag for these, and write_enabled_ stays as it is.
Unflagged == {"init", "configure", "activate", "destroy"}

\* Mutant: error handling leaves commands let through.
Start_ErrorKeepsGate(n) ==
    /\ cb' = [Idle EXCEPT !.name = n]
    /\ flags' = IF n \in Unflagged THEN flags ELSE flags \cup {n}
    /\ write_enabled_' = (write_enabled_ /\ n \in Unflagged \cup {"error"})

\* A callback sets its flag and stops commands before it does anything else.
Start(n) ==
    /\ cb' = [Idle EXCEPT !.name = n]
    /\ flags' = IF n \in Unflagged THEN flags ELSE flags \cup {n}
    /\ write_enabled_' = (write_enabled_ /\ n \in Unflagged)

Allowed(n) ==
    \/ n = "init" /\ hw = "Created"
    \/ n = "configure" /\ hw = "Unconfigured"
    \/ n \in {"activate", "cleanup"} /\ hw = "Inactive"
    \/ n = "deactivate" /\ hw = "Active"
    \/ n = "shutdown" /\ hw \in LiveStates
    \/ n = "destroy" /\ hw \notin {"Created", "Destroyed"}

\* The object is destroyed when the update loop has ended.
Request(n) ==
    /\ cb = Idle
    /\ upd = "idle" \/ (Overlap /\ n # "destroy")
    /\ Allowed(n)
    /\ Start(n)
    /\ UNCHANGED <<hw, upd, threads, robot>>

\* Cleanup and shutdown have no FAILURE outcome of their own: it is an error.
\* After a failed on_init no error handling runs.
Errs == \/ cb.result = "ERROR" /\ cb.name \notin {"init", "error"}
        \/ cb.result = "FAILURE" /\ cb.name \in {"cleanup", "shutdown"}

NextHw(name, result) ==
    CASE name = "init"       -> IF result = "SUCCESS" THEN "Unconfigured" ELSE "Finalized"
      [] name = "configure"  -> IF result = "SUCCESS" THEN "Inactive" ELSE "Unconfigured"
      [] name = "activate"   -> IF result = "SUCCESS" THEN "Active" ELSE "Inactive"
      [] name = "deactivate" -> IF result = "SUCCESS" THEN "Inactive" ELSE "Active"
      [] name = "cleanup"    -> "Unconfigured"
      [] name = "shutdown"   -> "Finalized"
      [] name = "error"      -> IF result = "SUCCESS" THEN "Unconfigured" ELSE "Finalized"
      [] name = "destroy"    -> "Destroyed"

Return ==
    /\ cb.result # "none"
    /\ \/ Errs /\ Start("error") /\ UNCHANGED <<hw, upd>>
       \/ /\ ~Errs
          /\ hw' = NextHw(cb.name, cb.result)
          /\ cb' = Idle
          /\ upd' = IF upd = "in_callback" THEN "idle" ELSE upd
          /\ UNCHANGED interface
    /\ UNCHANGED <<threads, robot>>

-----------------------------------------------------------------------------
(* The update loop.                                                        *)

CanUpdate == /\ upd = "idle"
             /\ hw \in {"Inactive", "Active"}
             /\ cb = Idle \/ (Overlap /\ cb.name # "destroy")

ReadStart ==
    /\ CanUpdate
    /\ flags \cap {"cleanup", "shutdown"} = {}
    /\ upd' = "read_link"
    /\ UNCHANGED <<hw, cb, interface, threads, robot>>

ReadLink ==
    /\ upd = "read_link"
    /\ upd' = IF conn = "up" THEN "read_data" ELSE "read_lost"
    /\ UNCHANGED <<hw, cb, interface, threads, robot>>

\* Mutant: a lost link is logged only.
ReadLost_Ignored ==
    /\ upd = "read_lost"
    /\ upd' = "idle"
    /\ UNCHANGED <<hw, cb, interface, threads, robot>>

\* A lost link is an error unless error handling is what closed it.
ReadLost ==
    /\ upd = "read_lost"
    /\ upd' = IF "error" \in flags THEN "idle" ELSE "error"
    /\ UNCHANGED <<hw, cb, interface, threads, robot>>

\* monitor_robot_health and read: a failure is logged, nothing more.
ReadData ==
    /\ upd = "read_data"
    /\ upd' = "idle"
    /\ UNCHANGED <<hw, cb, interface, threads, robot>>

WriteStart ==
    /\ CanUpdate
    /\ write_enabled_
    /\ upd' = "write_link"
    /\ UNCHANGED <<hw, cb, interface, threads, robot>>

WriteLink ==
    /\ upd = "write_link"
    /\ upd' = IF conn = "up" THEN "write_able" ELSE "error"
    /\ UNCHANGED <<hw, cb, interface, threads, robot>>

\* Mutant: one arm that takes commands is enough.
is_writable_Any == conn = "up" /\ \E a \in Arms : prog[a] = "active"

is_writable == conn = "up" /\ \A a \in Arms : prog[a] = "active"

\* Mutant: a robot that does not take commands is logged only.
WriteAble_LogsOnly ==
    /\ upd = "write_able"
    /\ \/ is_writable /\ upd' = "write_send"
       \/ (~is_writable \/ "rtc_status" \in Faulty) /\ upd' = "idle"
    /\ UNCHANGED <<hw, cb, interface, threads, robot>>

WriteAble ==
    /\ upd = "write_able"
    /\ \/ is_writable /\ upd' = "write_send"
       \/ (~is_writable \/ "rtc_status" \in Faulty) /\ upd' = "deactivate"
    /\ UNCHANGED <<hw, cb, interface, threads, robot>>

\* KhiKrnxDriver::write: the commands are sent, or skipped for a robot at rest;
\* one that cannot be primed or sent asks for a deactivation.
WriteSend ==
    /\ upd = "write_send"
    /\ \/ conn = "up" /\ upd' = "idle"
       \/ (~is_writable \/ "send" \in Faulty) /\ upd' = "deactivate"
    /\ UNCHANGED <<hw, cb, interface, threads, robot>>

\* What the update loop returned is acted on by the same thread.
RaiseError ==
    /\ upd = "error" /\ cb = Idle
    /\ \/ /\ hw \in LiveStates
          /\ Start("error") /\ upd' = "in_callback"
       \/ /\ hw \notin LiveStates
          /\ upd' = "idle" /\ UNCHANGED <<cb, interface>>
    /\ UNCHANGED <<hw, threads, robot>>

RaiseDeactivate ==
    /\ upd = "deactivate" /\ cb = Idle
    /\ \/ /\ hw = "Active"
          /\ Start("deactivate") /\ upd' = "in_callback"
       \/ /\ hw # "Active"
          /\ upd' = "idle" /\ UNCHANGED <<cb, interface>>
    /\ UNCHANGED <<hw, threads, robot>>

UpdateStep == \/ ReadLink \/ ReadLost \/ ReadData
              \/ WriteLink \/ WriteAble \/ WriteSend
              \/ RaiseError \/ RaiseDeactivate

-----------------------------------------------------------------------------
(* Background threads: publish_on_event, the current timer and the service *)
(* spin thread.                                                            *)

CallBegins(t) ==
    /\ t \notin inCall
    /\ \/ t \in PubThreads /\ publishers /\ ~should_stop
       \/ t = "service" /\ services /\ spinning
    /\ inCall' = inCall \cup {t}
    /\ UNCHANGED <<hw, cb, upd, interface, driver, services, spinning, publishers, should_stop, robot>>

\* The only service whose effect the model distinguishes is reset_error, which
\* serves the first arm.
CallEnds(t) ==
    /\ t \in inCall
    /\ inCall' = inCall \ {t}
    /\ \/ UNCHANGED robot
       \/ t = "service" /\ conn = "up" /\ reset_error(1)
    /\ UNCHANGED <<hw, cb, upd, interface, driver, services, spinning, publishers, should_stop>>

-----------------------------------------------------------------------------
(* The controller and its operator.  Programs are started from the teach   *)
(* pendant only while no KRNX session is open.                             *)

LinkLost ==
    /\ conn = "up" /\ conn' = "lost"
    /\ UNCHANGED <<hw, cb, upd, interface, threads, motor, prog, ready, err>>

\* HOLD, TEACH, emergency or protective stop; the latter cut the motor power.
OperatorStop ==
    /\ ready /\ ready' = FALSE
    /\ motor' \in {motor, FALSE}
    /\ prog' = [a \in Arms |-> Stopped(prog[a])]
    /\ UNCHANGED <<hw, cb, upd, interface, threads, conn, err>>

OperatorReady ==
    /\ ~ready /\ ready' = TRUE
    /\ UNCHANGED <<hw, cb, upd, interface, threads, conn, motor, prog, err>>

OperatorRuns(a) ==
    /\ conn = "closed" /\ ready
    /\ motor' = TRUE
    /\ prog' = [prog EXCEPT ![a] = "running"]
    /\ UNCHANGED <<hw, cb, upd, interface, threads, conn, ready, err>>

RtcBecomesActive(a) ==
    /\ prog[a] = "running"
    /\ prog' = [prog EXCEPT ![a] = "active"]
    /\ UNCHANGED <<hw, cb, upd, interface, threads, conn, motor, ready, err>>

ControllerError(a) ==
    /\ a \notin err
    /\ err' = err \cup {a}
    /\ prog' = [prog EXCEPT ![a] = Stopped(@)]
    /\ UNCHANGED <<hw, cb, upd, interface, threads, conn, motor, ready>>

Environment ==
    \/ LinkLost \/ OperatorStop \/ OperatorReady
    \/ \E a \in Arms : OperatorRuns(a) \/ RtcBecomesActive(a) \/ ControllerError(a)

-----------------------------------------------------------------------------
\* The plugin has been loaded: a default-constructed KhiHardwareInterface.
Init ==
    /\ hw = "Created"
    /\ cb = Idle
    /\ upd = "idle"
    /\ flags = {}
    /\ write_enabled_ = FALSE
    /\ driver = FALSE
    /\ services = FALSE
    /\ spinning = FALSE
    /\ publishers = FALSE
    /\ should_stop = FALSE
    /\ inCall = {}
    /\ conn = "closed"
    /\ motor = FALSE
    /\ prog = [a \in Arms |-> "none"]
    /\ ready = TRUE
    /\ err = {}

Next == \/ \E n \in Callbacks : Request(n)
        \/ CallbackStep \/ Return
        \/ ReadStart \/ WriteStart \/ UpdateStep
        \/ \E t \in Background : CallBegins(t) \/ CallEnds(t)
        \/ Environment
        \/ ProcessDies

Spec == Init /\ [][Next]_vars

\* Callbacks, the manager and background calls make progress.  The update loop
\* runs at a fixed rate: requests do not keep it out for ever.
Fairness == /\ WF_vars(CallbackStep)
            /\ WF_vars(Return)
            /\ WF_vars(UpdateStep)
            /\ SF_vars(ReadStart)
            /\ SF_vars(WriteStart)
            /\ \A t \in Background : WF_vars(CallEnds(t))

LiveSpec == Spec /\ Fairness

-----------------------------------------------------------------------------
(* Properties.                                                             *)

TypeOK ==
    /\ hw \in HwStates
    /\ cb \in [name : Callbacks \cup {"none"}, step : Nat \ {0}, arm : Arms,
               wait : BOOLEAN, result : Results]
    /\ upd \in {"idle", "read_link", "read_lost", "read_data", "write_link", "write_able",
                "write_send", "error", "deactivate", "in_callback"}
    /\ flags \subseteq Callbacks
    /\ write_enabled_ \in BOOLEAN
    /\ driver \in BOOLEAN /\ services \in BOOLEAN /\ spinning \in BOOLEAN
    /\ publishers \in BOOLEAN /\ should_stop \in BOOLEAN
    /\ inCall \subseteq Background
    /\ conn \in {"closed", "up", "lost"}
    /\ motor \in BOOLEAN /\ ready \in BOOLEAN
    /\ prog \in [Arms -> ProgStates]
    /\ err \subseteq Arms

\* Position commands are let through: the destructor does not lower
\* write_enabled_, but the update loop that reads it has ended before it runs.
operation == write_enabled_ /\ cb.name # "destroy" /\ hw # "Destroyed"

\* Position commands are let through in Active only, and no longer from the
\* moment a callback that leaves it begins (write_enabled_).
WriteGate ==
    operation => \/ hw = "Active" /\ cb = Idle
                 \/ cb.name = "activate" /\ cb.result = "SUCCESS"

\* KhiPublisher::start assigns event_thread_: had an earlier thread not been
\* joined on every way out of Inactive and Active, std::terminate would run.
ThreadNotRestarted ==
    InBody /\ Current.do = "start_publishers" => ~publishers

\* No publisher thread is inside a KRNX call of a session that is closed: every
\* teardown of the lifecycle joins them before krnx_Close.  (The destructor does
\* not: DriverOutlivesCalls is what is left of it there.)
QuietWhenClosed ==
    conn = "closed" /\ cb.name # "destroy" => inCall \cap PubThreads = {}

\* The lambdas and threads of services and publishers hold a plain reference to
\* the driver: while one of them is inside a call, driver_ has not been released.
DriverOutlivesCalls == inCall # {} => driver

\* After a refused on_init, a shutdown or the destructor nothing of the component
\* runs any more, a service request that was being served included.
FinalizedIsQuiet ==
    hw \in {"Finalized", "Destroyed"} => inCall = {} /\ ~spinning /\ ~publishers

\* A configuration or deactivation that reports success has stopped and killed
\* the program of every arm and cut the motor power, whatever happened between
\* its calls.
SuccessMeansStopped ==
    cb.name \in {"configure", "deactivate"} /\ cb.result = "SUCCESS" =>
        ~motor /\ \A a \in Arms : prog[a] = "none"

\* Error handling, shutdown and destructor go on after a hold or kill that failed:
\* when they close a session that is still up, the motor power is off.
TeardownPowersOff ==
    InBody /\ cb.name \in {"error", "shutdown", "destroy"} /\ Current.do = "close" /\ conn = "up" =>
        ~motor /\ \A a \in Arms : prog[a] \notin Moving

\* While commands are let through every arm has a program: activation started
\* all of them, and nothing killed one since.
ActivatedArmsStarted == operation => \A a \in Arms : prog[a] # "none"

\* Outside a callback no live session is left behind but in Inactive and Active,
\* however configuration, activation or cleanup failed.
NoLiveSessionLeft ==
    cb = Idle /\ hw \notin {"Inactive", "Active"} => conn # "up"

\* troubleshooting.md: after a stop with Ctrl+C, or an error, the system is started
\* and configured again.  Whatever an earlier configuration, a cleanup, error
\* handling or a process that died left behind, a configuration fails for a link
\* that was lost only: never because a live session is still open.
ConfigureRecovers ==
    cb.name = "configure" /\ cb.result \in {"FAILURE", "ERROR"} => conn = "lost"

\* The component implements the lifecycle its document promises, until its
\* process dies.  An object that is not initialized yet or any more serves nothing.
Announced == IF hw = "Created" THEN "Unconfigured"
             ELSE IF hw = "Destroyed" THEN "Finalized" ELSE hw
Lifecycle == INSTANCE KhiLifecycle WITH state <- Announced
LifecycleSpec == Lifecycle!Init /\ [][Lifecycle!Next \/ ProcessDies]_(Lifecycle!vars)

\* The lifecycle starts and stops the publisher in the order its threads need,
\* until the process dies.
PublisherLife == INSTANCE KhiPublisherLife WITH
    Threads <- PubThreads,
    state   <- IF ~publishers THEN "stopped" ELSE IF should_stop THEN "stopping" ELSE "running",
    calls   <- inCall \cap PubThreads
PublisherLifeSpec ==
    PublisherLife!Init /\ [][PublisherLife!Next \/ ProcessDies]_(PublisherLife!vars)

\* Every callback returns: the wait for rtc_active times out, joins end.  With
\* calls that fail at will only the joins could block; with reliable calls the
\* wait could too.
CallbacksReturn == (cb # Idle) ~> (cb = Idle)

\* A lost link takes the component out of Active, even when the deactivation
\* that write() asked for has failed before.
LostLinkLeavesActive == (hw = "Active" /\ conn = "lost") ~> (hw # "Active")

\* When the program of any arm has been held, commands stop being let through.
HeldProgramStopsCommands ==
    \A a \in Arms : (operation /\ prog[a] = "held") ~> ~operation

-----------------------------------------------------------------------------
(* The inductive strengthening: where a callback can stand, and what then  *)
(* exists.                                                                 *)

\* Where a callback can stand in its script.
ScriptPosition ==
    /\ cb.name = "none" => cb = Idle
    /\ cb.name # "none" => cb.step \in 1..Len(Script[cb.name])
    /\ InBody /\ cb.wait => Current.do = "execute"

\* Each callback runs in the states the manager allows, those that ignore every
\* failure report success, and an activation that succeeds lets commands through.
CallbackPlace ==
    /\ cb.name = "init" => hw = "Created"
    /\ cb.name = "configure" => hw = "Unconfigured"
    /\ cb.name \in {"activate", "cleanup"} => hw = "Inactive"
    /\ cb.name = "deactivate" => hw = "Active"
    /\ cb.name \in {"shutdown", "error"} => hw \in LiveStates
    /\ cb.name = "destroy" => hw \in LiveStates \cup {"Finalized"}
    /\ cb.name \in {"shutdown", "error", "destroy"} => cb.result \in {"none", "SUCCESS"}
    /\ cb.name = "activate" /\ cb.result = "SUCCESS" => write_enabled_

\* The steps at which a teardown has removed the services, joined the service
\* thread and joined the publisher threads.
StopStep == [cleanup |-> 1, shutdown |-> 1, error |-> 1, destroy |-> 5]
SpinStep == [shutdown |-> 2, destroy |-> 6]
JoinStep == [cleanup |-> 3, shutdown |-> 4, error |-> 3, destroy |-> 8]

\* Inactive and Active, until the callback that leaves them.
Serving == /\ hw \in {"Inactive", "Active"}
           /\ cb.name \in {"none", "activate", "deactivate"}

Configured == cb.name = "configure" /\ cb.result = "SUCCESS"

\* A teardown at this step or before.
Before(place) == InBody /\ cb.name \in DOMAIN place /\ cb.step <= place[cb.name]

\* Services are created in the last but one step of a configuration and exist
\* until a teardown stops them.
ServicePlace ==
    LET created == cb.name = "configure" /\ InBody /\ cb.step = 17
    IN  /\ services => Serving \/ Configured \/ created \/ Before(StopStep)
        /\ Serving \/ Configured \/ created => services

\* Publisher threads exist from the last step of a configuration that succeeds
\* to the join of a teardown, which has told them to stop.
PublisherPlace ==
    /\ publishers => /\ hw \in LiveStates
                     /\ Serving \/ Configured \/ Before(JoinStep)
    /\ Serving \/ Configured => publishers
    /\ InBody /\ Current.do = "join_publishers" => should_stop

\* The service thread exists in a component that was initialized, until the join
\* of shutdown or destructor.
SpinPlace ==
    spinning => \/ cb.name = "init" /\ cb.result = "SUCCESS"
                \/ hw \in LiveStates /\ (cb.name \in DOMAIN SpinStep => Before(SpinStep))

\* The driver exists in a component that was initialized until its destructor is
\* through.
DriverPlace ==
    /\ hw \in LiveStates /\ (cb.name = "destroy" => InBody) => driver
    /\ cb.name = "init" /\ (cb.result = "SUCCESS" \/ (InBody /\ cb.step > 2)) => driver

\* Where the session is known to be open (up or lost).
SessionPlace ==
    /\ publishers /\ cb.name # "destroy" => conn # "closed"
    /\ InBody /\ cb.name = "configure" /\ cb.step > 2 => conn # "closed"

\* Only threads that exist call the driver.
CallersExist == /\ inCall \cap PubThreads # {} => publishers
                /\ "service" \in inCall => spinning

\* The inductive invariant: types, where callbacks, threads, driver and session
\* stand with respect to one another, and the gate of the commands.
IInv == /\ TypeOK /\ ScriptPosition /\ WriteGate /\ CallbackPlace
        /\ ServicePlace /\ PublisherPlace /\ SpinPlace /\ DriverPlace
        /\ SessionPlace /\ CallersExist

-----------------------------------------------------------------------------
(* What the documents say and the code does not keep (see the findings).   *)

\* The state diagram of lifecycle.md: "In the event that the robot stops, execute
\* the deactivate() function and transition to Inactive."  True as long as no KRNX
\* call fails by itself.
StoppedRobotIsDeactivated ==
    \A a \in Arms : (hw = "Active" /\ prog[a] = "held") ~> (hw # "Active")

\* lifecycle.md: the display of the teach pendant in states other than Active has
\* no program in execution.
InactiveIsStopped ==
    hw = "Inactive" /\ cb = Idle => \A a \in Arms : prog[a] \notin Moving

\* khi_msgs/README.md: services "can only be executed when the ROS2 node is Active
\* or Inactive".
ServicesOnlyServing ==
    "service" \in inCall /\ cb = Idle => hw \in {"Inactive", "Active"}
=============================================================================
