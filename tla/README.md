# Verification of the KHI ros2_control hardware component

TLA+ models, TLC runs and TLAPS proofs for `khi_hardware`, the hardware
component by which ros2_control drives Kawasaki robots through the vendor's
KRNX library. Lines are those of `src/`; `interface`, `driver`, `publisher`
and `service` below stand for `khi_hardware_interface.cpp`,
`khi_krnx_driver.cpp`, `khi_publisher.cpp` and `khi_service.cpp` in
`src/khi_hardware/src/`.

## 1. The system

| Component | State it keeps | Operations |
|---|---|---|
| `KhiHardwareInterface` | `write_enabled_`, four `is_...` flags, pointers to the other parts (`driver_` null until `on_init`) | `on_init`, `on_configure`, `on_activate`, `on_deactivate`, `on_cleanup`, `on_shutdown`, `on_error`, `read`, `write`, the destructor |
| `KhiKrnxDriver` | commanded, old and home positions, `seq_no_`, `cmd_constant_cnt_`, `rtc_buffer_thresh_exceed_cnt_`, language flags, the scaling of the F/T sensor | `configure` ... `error`, `read`, `write`, `is_writable`, `monitor_robot_health`, the service callbacks |
| `KhiPublisher` | two publishers, a timer, the event thread, the executor thread, `should_stop_publisher_`, `old_error_codes_` | `init`, `start`, `stop`, `report_error`, `report_actual_current` |
| `KhiService` | seven service servers, the spin thread | `init`, `start`, `stop`, the destructor |
| KRNX session and robot controller (external) | connection, motor power, the program of each arm, switches, error lamps | the `krnx_...` calls, the operator at the teach pendant |
| resource manager of ros2_control (external) | lifecycle state | transitions on request, `read`/`write` at a fixed rate, error handling, deactivation |
| `KhiMockDriver`, `KhiDriver`, messages, launch files, descriptions | no protocol state | not modelled |

How they interact. The manager calls the callbacks of the interface; each of
them calls a routine of the driver, a fixed sequence of KRNX calls, and starts
or stops the publisher and the service. The update loop calls `read` and
`write`; what they return (`ERROR`, `DEACTIVATE`) makes the manager run
`on_error` or `on_deactivate`. Three background threads (the event thread, the
timer on the publisher's executor, the spin thread of the service) call the
driver, hence KRNX, at any moment. The controller may lose the link, be stopped
by its operator or raise an error between any two calls.

What is hard: every KRNX call can fail, on its own or because the link is lost,
with or without its effect; routines that loop over the arms give up at the
first arm that fails; callbacks clear flags and gates in a certain order while
the update loop reads them; teardowns must join threads before they close the
session; waits time out while the answer is on its way; the process may be killed
beside a robot that keeps running. What correctness means
for each component is the list of properties in section 3; the hazards, each at
its line, are in `PROJECT.json`.

## 2. Modules

* `KhiLifecycle`: what the documented lifecycle promises: services and
  publishers exist, and commands are let through, in the states that
  `khi_hardware/docs/lifecycle.md` says, and states change along the arrows of
  its diagram only once the interfaces fit. It is an abstract specification.
* `KhiHardware`: interface, driver routines, publisher and service threads,
  update loop and controller, from the construction of the object to its end.
  - A callback is a script: the routines of the driver (and of publisher and
    service) in the order of the code, each with what the callback does when
    the routine fails (`ERROR`, `FAILURE`, or go on). `cb` holds the callback,
    the routine and the arm it stands at. Every KRNX call is a step (`KrnxCall`)
    with three outcomes: served, refused by the controller, or failed although
    it could have been served, with its effect or without. A failing call ends
    the routine at that arm, as in the code.
  - `init` and `destroy` are scripts as well: `on_init` creates the driver after
    its checks of the interfaces (`create_khi_robot_driver`) and the service
    thread last; the destructor runs `driver_->error()` and then destroys its
    members in the reverse order of their declaration. `driver` is whether
    `driver_` points to a driver; the destructor of an object without one ends
    the process (`NullDriver`).
  - `ProcessDies` is a crash or kill at any step: the object, its threads and its
    end of the session are gone, motor and programs go on.
  - `Start` and `Complete` are the first and the last lines of the callbacks:
    flags and `write_enabled_`.
  - The wait for `rtc_active` (`WaitRtcActive`, `RtcTimeout`) may be ended by
    the status, by an error lamp, by a failing call, or by its timeout at any
    point, which passes only if `Period`, an integer division, is not zero.
  - `ReadStart` ... `WriteSend` are the statements of `read` and `write` between
    which other threads can act; `RaiseError` and `RaiseDeactivate` are the
    manager acting on what they returned.
  - `CallBegins`/`CallEnds` are driver calls of the background threads.
  - The environment loses the link, stops and releases the robot, starts
    programs from the teach pendant while no session is open, and raises errors.
* `KhiPublisherLife`: what the publisher promises to the rest: its threads begin
  driver calls only while it runs, and it is stopped once they have ended. It is
  an abstract specification that both `KhiHardware` (the order in which the
  lifecycle stops and joins) and `KhiPublisher` (the statements of `stop`)
  are shown to implement.
* `KhiPublisher`: `start()` and `stop()` statement by statement (`caller` is the
  statement reached), the event thread (`event`) that fetches the error list and
  decides in `report_error` whether to publish it, and the executor thread with
  its timer callback (`executor`). `stop()` may be called at any time, on a
  stopped publisher as well, as the destructor does. `reported`, `changed`,
  `missed` and `sent` are histories for the properties.
* `KhiWrite`: the streaming of commands: what `activate` prepares, `write`
  (`WriteBegin` up to the decision to skip, `Prime`, `Send`), and the buffers of
  the controller. An arm has one joint: `write` treats joints alike. Positions
  are integers, `Epsilon` the tolerance of `is_position_command_constant`; the
  rounding to `float` is left out, and `comp` is no variable: `write` computes it
  anew before it uses it. A failing `Prime` has primed any subset of
  the arms, a failing `Send` may have reached the controller, a failing activation
  (`ClearFails`, `HomeFails`, `StartFails`) has served some arms, and a buffer whose
  length cannot be read counts as short: `write` sends (`outcome` is `"unread"`).
* `KhiRead`: the driver's `read` on the update thread, arm by arm and then axis by
  axis of the F/T sensor, against `change_ft_output_mode` on the spin thread. The
  two threads share three members without synchronisation; the assignments of the
  callback (`Assign`) take effect in any order between the accesses of `read`. A
  value is represented by how it was scaled, `torn` is whether a request overlapped
  the last `read`; the ratios, which have no initializer, are those of `None` at
  first.
* `KhiHealth`: `monitor_robot_health`, one arm per step: the counter of long
  buffers and the window of saturations of each arm's joint. `high`, `alarm`,
  `checks`, `recent`, `gap` and `warned` are histories of what was read and warned
  of; they start empty, while the counter starts at its limit, as `initialize`
  sets it.
* `KhiServices`: `KhiService::start`, `stop` and destructor server by server
  (`caller`), the spin thread that serves one request at a time (`Take`, `at`,
  `SpinExit`), and the driver's callbacks call by call (`get_signal`,
  `set_signal`, `exec_khi_command` with `set_ati_software_bias`, `Ereset` ...
  `GetCurErrorList`, `set_timeout`). `signals` and `lamps` are the controller's
  and change at any time. Texts are abstracted to whether they were written and
  for which error code; the buffer of a call that fails stays `Unwritten`.
* `MCKhiHardware`, `MCKhiWrite`, `MCKhiServices`: values of the constants for TLC.
* `KhiHardware_proofs` (the inductive invariant, threads, gate, refinements),
  `KhiHardwareRobot_proofs` (what is left of motor, programs and session; it extends
  the former), `KhiPublisher_proofs`, `KhiWrite_proofs`, `KhiRead_proofs`,
  `KhiHealth_proofs`, `KhiServices_proofs`: TLAPS proofs.

Assumptions. `Overlap = FALSE` is the manager of ros2_control Jazzy, which
serialises callbacks with `read`/`write` of the same component; `Overlap = TRUE`
lets them interleave. Callbacks raised by the update loop are serialised with
requested ones in both cases. The destructor runs when the update loop has ended
and no callback is running. A new process has a new object, and the controller
drops the session of a process that died. A description whose numbers cannot be
converted ends the process in `on_init` by an exception: that is one of the ways of
`ProcessDies`.
AS commands sent through `exec_khi_command` are not interpreted. An operator
starts programs only while no session is open.
In `KhiWrite` the manager's controllers set commands in the thread of the update
loop, hence never during a `write`; what they set while commands are not let
through is overwritten by the next activation. The two arms take buffered
entries in the same controller cycle. `KhiHealth` takes any lengths and
currents, and assumes one driver in the process: the launch files offer
controller 0 only. In `KhiServices` a `SIGNAL` command that names a signal which
cannot be set, or whose answer is lost, may have been executed in part. An AS error
may come with a KRNX error or without one: `exec_khi_command`, which looks at the
latter only, then replies success beside an error code, the other services do not.

## 3. What is checked

All runs are exhaustive. Two arms are enough for what the code does with arms:
it loops over them, and the second is where a loop that ended early shows; one
is enough for the counterexamples.

Bounds. `KhiHardware` and `KhiPublisher` (two error lists, so that one can follow
another) are finite as they are; `UpdateRate` is 500, that of the descriptions. In `KhiWrite` three positions one `Epsilon`
apart let a command creep and jump; `ThreshCnt` and `BufSize` are 1, which is
the smallest value at which a skip has something to count and to drain, and
`BufCap` is one more, so that a buffer that grows shows; `SeqMod` is 3, the
smallest modulus that tells a skipped number from a repeated one; `IntMax`
stands for every count beyond `ThreshCnt` up to the overflow. In `KhiHealth` a
window of four slots tolerates two saturations, so that they can be adjacent,
apart, or across the wrap, and `Interval` is 3, one cycle more than the arms'
shares. In `KhiRead` two axes of force and two of torque tell the two ratios and an
early from a late axis apart, and of the three requests two ask for N and Nm (so
that one ratio can be mistaken for the other) and one for counters. In `KhiServices` the requests lie on and beyond the bounds of bytes and
ranges (`KHI_MAX_SIG_SIZE` is 512 as in the code), and two `set_signal` requests hold
numbers that are negative as an `int`; the range of an uint32 is scaled down to 2^16,
still far beyond every signal number.

| Run | Shows |
|---|---|
| `HardwareSafety.cfg` | with every call failing at will, read/write overlapping callbacks and the process dying at any step: commands are let through in Active only (`WriteGate`); `event_thread_` is never assigned while joinable (`ThreadNotRestarted`); the lifecycle never closes the session under a publisher thread (`QuietWhenClosed`); no thread is inside a call of a driver that is gone (`DriverOutlivesCalls`); an object that is finalized or destroyed has no thread left, service requests included (`FinalizedIsQuiet`); a configuration or deactivation that reports success has stopped every arm (`SuccessMeansStopped`); commands are let through only while all arms were started (`ActivatedArmsStarted`); `KhiLifecycle` is implemented (`LifecycleSpec`), and so is `KhiPublisherLife` (`PublisherLifeSpec`); the inductive invariant of the proofs (`IInv`) |
| `HardwareLive.cfg` | with power off, close and the language query reliable, everything else failing at will, and callbacks and update loop serialised: error handling, shutdown and destructor close a live session with motor power off even after a hold or kill failed (`TeardownPowersOff`), and no live session is left behind (`NoLiveSessionLeft`); a lost link ends Active (`LostLinkLeavesActive`), a held program stops the commands (`HeldProgramStopsCommands`) |
| `HardwareReliable.cfg` | when no call fails by itself, a configuration copes with what cleanup, error handling or a process that died left behind and fails for a lost link only (`ConfigureRecovers`), a robot that stops is deactivated (`StoppedRobotIsDeactivated`), and every callback returns, the wait for programs that never become active included (`CallbacksReturn`). With failing calls the second is not so: one failing hold, kill or power off leaves Active with `write_enabled_` cleared, nothing retries the deactivation, and all that is left is `HeldProgramStopsCommands` |
| `Publisher.cfg` | with fetches that fail at will: no thread publishes on what `stop` has dropped (`NoUseAfterReset`), `KhiPublisherLife` is implemented (`LifeSpec`), `stop` returns (`StopReturns`), an error that stays is reported in every run of the publisher (`PersistingErrorReported`), and again only if a fetch failed or the list changed (`RepeatExplained`) |
| `Write.cfg` | a `write` that returns true has told all arms to be where the commands say, up to `Epsilon`, however slowly the command creeps and however many writes are skipped (`CommandReached`); nothing is sent that an earlier, failed `write` left primed (`SentTogether`); numbers are consecutive across failures, activations and the wrap, and only a lost answer repeats one (`SeqContinuous`); a robot at rest drains its buffers (`RestDrains`) |
| `Read.cfg` | a `read` that returned true and overlapped no request has updated every arm and scaled all axes as the last request asked (`ReadIsWhole`); one that overlaps requests may mix their settings, but never uses a ratio that was not assigned once a request is through (`NoIndeterminateScale`); a mode that is not replaced is published in the end (`ModeAdopted`) |
| `Health.cfg` | while the buffers of all arms are long the warning comes in time (`AllLongWarned`), and, but for the very first check, only when every arm had its share of long buffers in checks of it in a row (`BufferSound`): the counter starts at its limit (driver:60), so that a long buffer at the first check warns alone; a joint that is saturated more often than tolerated within the window is always warned of (`SaturationComplete`), and a warning without it needs a missed reading (`SaturationSound`): a failed fetch, or a new session, leaves an old value in the static window; the inductive invariant of the proofs (`IInv`) |
| `Services.cfg` | a successful `get_signal` gives each signal as the controller has it (`GetSignalRight`); a successful `set_signal` has set what was asked last for each signal and nothing else, for numbers below 2^31 (`SetSignalRight`); the destructor returns, also while a request is being served (`DestructorReturns`); the inductive invariant of the proofs (`IInv`) |

Fairness: the threads of the process are scheduled (weak fairness of callback
steps, of the manager taking their results, of the update loop within a cycle
and of background calls, which KRNX ends by its own timeouts). The update loop
runs at a fixed rate, so callbacks requested one after the other do not keep it
out for ever: strong fairness of the starts of `read` and `write`. Nothing is
assumed of operator, controller or user.

The publisher's threads are scheduled as well, and the fetch of errors succeeds
again and again, if not each time (strong fairness of `get_error_info`): without
it no error could ever be reported. In `KhiRead` both threads go on, and fetching the
data of an arm succeeds again and again (strong fairness of `ReadArm` for each arm).
For `RestDrains`, `write` is called for ever
and the controller takes entries up; that the lengths of the buffers can be read in
the end is part of its premise (`AtRest`). For `BufferWarned`, `read` is called for
ever, at the rate of the update loop.

Four runs state what documents and comments say and find that the code does
otherwise (`findings` in `PROJECT.json`): a failed activation leaves the program
running in Inactive (`ActivateFailure.cfg`); a service request may still run
after a cleanup (`ServiceInFlight.cfg`); a failed fetch makes the publisher repeat
an unchanged list of errors (`PublisherRepeat.cfg`); a buffer of one
arm that stays long for ever is not warned of while that of the other is short
(`HealthBuffer.cfg`: in the loop of the counterexample the short buffer resets, in
every cycle, the counter that both share).

Limits that the constants of the runs name. `NoLiveSessionLeft` holds with a
language query that does not fail: when it does, `configure` returns `FAILURE`
after `open` and nothing closes the session; the next configuration is refused at
`open` with `ERROR`, whose error handling closes it, and only the one after that can
succeed. `CallbacksReturn` holds up to an update rate of 1000 Hz: above it `Period`
is zero, and with `UpdateRate = 2000` TLC finds an activation that waits for ever.
`HardwareSafety.cfg` tolerates `NullDriver`, which ends the process: no property
says that the destructor survives a refused `on_init`, because it does not. `RestDrains` holds up to the overflow
of `cmd_constant_cnt_`, an `int` that nothing bounds (49.7 days at 2 ms): with
`Overflow = TRUE` TLC finds the buffers growing again. `CommandReached` holds
without prismatic joints, as in every robot of the repository: with one
(`Prismatic = {1}`) the home, kept in m, is subtracted from a command in mm, and
TLC finds a success with the arm told to be elsewhere. `SetSignalRight` excludes
requests with numbers of 2^31 and more (`Small`): `set_signal` takes any uint32 and
converts it to an `int` (driver:1221), so that 2^32 - 8 with `is_on` becomes
`SIGNAL -8`, which switches signal 8 off and is reported as a success; without
`Small` TLC finds that.

## 4. What is proved

`KhiHardware`, for every number of arms, every set of calls that may fail, every
update rate, with or without overlap, and with the process dying at any step.

`KhiHardware_proofs`, from the assumptions on the constants only: `WriteGate`,
`QuietWhenClosed`, `ThreadNotRestarted`, `DriverOutlivesCalls` and
`FinalizedIsQuiet` (theorems `GateHolds`, `QuietHolds`, `NoRestart`, `DriverHolds`,
`FinalQuiet`) from the inductive invariant `IInv` (`Invariance`; `TypeCorrect` is its
first part). None of them but the first is inductive. `IInv` adds where a callback
can stand in its script (`ScriptPosition`) and in which lifecycle state
(`CallbackPlace`), where services, publishers, service thread and driver can exist
(`ServicePlace`, `PublisherPlace`: Inactive and Active, up to the stop or join of a
teardown, and the end of a configuration; `SpinPlace`, `DriverPlace`: from `on_init`
to the destructor), where the session is known to be open (`SessionPlace`) and that
callers exist (`CallersExist`). The scripts enter through a few facts about their
order; there is one lemma per action, and a callback step is reduced to how it moves
in its script. The two refinements follow from `IInv`: `PublisherRefinement` of
`KhiPublisherLife`, since publishers are joined only after they were told to stop,
and `LifecycleRefinement` of `KhiLifecycle`, since services and publishers exist
exactly where `IInv` places them.

`KhiHardwareRobot_proofs` is about motor, programs and session. A lemma (`Kinds`)
sorts every step into those of a callback's body, its begin, its end, steps around
it, and the end of the process; each theorem has an invariant of its own, relative to
`IInv`, proved kind by kind:

| Theorem | Property | Assumes that these never fail by themselves | Invariant |
|---|---|---|---|
| `PowerIsOff` | `TeardownPowersOff` | power off | `DarkAtClose`: where a teardown stands at its close with the link up, motor and programs are off (only a power off leads there) |
| `NothingLeft` | `NoLiveSessionLeft` | close, the language query | `Owned`: a live session belongs to Inactive or Active, to a configuration, or to a teardown on its way to close |
| `SuccessStops` | `SuccessMeansStopped` | nothing | `Halting`: the arms before the one at which the kill of a configuration or deactivation stands have no program, and after the power off of a configuration the motor is off; nothing starts a program meanwhile |
| `ArmsStarted` | `ActivatedArmsStarted` | nothing | `Starting`: the arms before the one at which the start of the programs stands have one, and so has that arm during its wait |
| `Recovers` | `ConfigureRecovers` | every KRNX call of a callback | `Owned`: a configuration finds no live session that it could be refused for |

`Advances` is the safety half of `CallbacksReturn`, for every number of arms and every
set of failing calls: a step of a callback takes it to a later routine, a later arm, the
wait behind a call, or its result; no thread, operator or controller moves it; only the
end of the process takes it away. The places are bounded (`ScriptPosition`), so a
callback that does not return is one that stops taking steps: that joins end and the
wait for `rtc_active` times out is what TLC checks under fairness.

`KhiRead`, for every number of arms, axes and requests: `ReadIsWhole` and
`NoIndeterminateScale` (`WholeReads`, `ScaleDeterminate`). The inductive invariant
ties the members written so far to the request that is served (`Assigned`), says
that a `read` that nothing overlapped sees the setting it began with
(`Undisturbed`), and how far it has come (`Progress`).

`KhiPublisher`, for every set of error lists, fetches failing or not:
`NoUseAfterReset` and the refinement of `KhiPublisherLife` (`NeverUsedAfterReset`,
`Refinement`; also that a stopped publisher has no thread and no timer,
`QuietWhenStopped`). The inductive
invariant adds, for each statement of `start` and `stop`, which threads, timer
and publishers can exist there (`Places`) and what they need (`Needs`).

`RepeatExplained` (`RepeatsExplained`) is an action property over histories. It
follows from `Suppressed`, a part of the inductive invariant: as long as nothing has
changed or been missed since a list was published, the controller, the event thread
and the member that suppresses repeats all hold that list.

`StopsInTime` is the safety half of `StopReturns`: the statements left to `stop()` and
the steps each thread can take before it has exited add up to 11 at most once the
timer is cancelled, and every step of the three threads leaves fewer. What it needs of
the invariant is that the stop flag stays set (`Places`): the event thread does not
fetch again, a timer callback that has begun ends at its guard or after its one call.

`KhiWrite`, for every number of arms, all positions, tolerances, thresholds,
buffer sizes and ranges of the sequence number, without prismatic joints:
`CommandReached`, `SentTogether` and `SeqContinuous` (`CommandsReached`,
`PrimedTogether`, `NumbersContinuous`). None is inductive by itself: `CommandReached`
needs that the old command is what the arms were told (`OldIsTold`), that a skip was
decided on a constant command (`SkippedIsConstant`), that a `write` under way has no
result yet (`InWrite`) and that it has primed what it sends (`SentTogether`);
`SeqContinuous` needs that the next number follows or repeats the last one taken
(`SeqAgree`).

`KhiHealth`, for every number of arms, every interval, tolerance and length of the
window, with readings that fail and sessions that end, or without: `AllLongWarned`,
`BufferSound`, `SaturationComplete` and `SaturationSound` (`AllLong`,
`BufferSoundness`, `SaturationsFound`, `SaturationsReal`). The inductive invariant
bounds the one counter of all arms from both sides by the cycles of each arm: when
all had a long buffer for m cycles it stands at m times the number of arms at least,
less what is still to come in this cycle (`CountsAll`); and a counter that stands so
high that it reaches back k checks of an arm means that all k found a long buffer
(`CountsOnly`; not before the first check, which clears the limit that the counter
starts at, whatever it finds). Of a window it says that the slot of each of the last readings
holds a saturation if the reading was one (`Kept`), and holds nothing else unless a
reading was missed since the last warning (`Exact`), and that a window which warns is
cleared (`Tolerated`). The step from slots to numbers of saturations is the lemma
`Counted`: readings and slots correspond one to one, whatever the running slot.

`KhiServices`, for every set of requests, signals and error codes: `GetSignalRight` and
`SetSignalRight` (`SignalsRead`, `SignalsSet`), from assumptions on the constants
that the message types justify (signal numbers are uint32, switches are Booleans), that signals are numbered from 1, and
that a bank is not longer than the distance between the banks. The lemmas are about
the conversions: byte and bit of a number within its bank are those of the signal
(`IsOnRight`), a number below 2^31 goes into the command with the sign of its switch
(`NumberRight`), and a command with several numbers for a signal leaves it as the
last one says (`SwitchedRight`). The inductive invariant (`Invariance`) says which
service a callback that stands at a later call belongs to, and that no response
holds a success before the calls it depends on (`Stages`): so only `get_signal` and
`set_signal` themselves can answer their requests with success (`OnlyItself`). It also
says that the spin thread leaves between two requests, when the destructor has told
it to and all servers are gone, and is joined before the destructor returns (`Ends`).

Model-checked only: every property under fairness (`CallbacksReturn`,
`LostLinkLeavesActive`, `HeldProgramStopsCommands`, `StoppedRobotIsDeactivated`,
`StopReturns`, `PersistingErrorReported`, `RestDrains`, `ModeAdopted`,
`DestructorReturns`): liveness is out of the prover's reach; `Advances` and
`StopsInTime` prove the part of two of them that is safety. Every invariant and
every action property of a passing run is proved.

## 5. Plan

Done: lifecycle and its threads, publisher, streaming of commands, monitoring,
services; the life of the object from constructor to destructor, the death of the
process, the sensor data; the proofs of section 4. Left, in this order:

1. A measure for the destructor of `KhiService` (`DestructorReturns`), as `Advances`
   and `StopsInTime` are for callbacks and `stop()` of the publisher.
2. `SetSignalRight` for the numbers it now excludes, should `set_signal` check them.

## 6. Not modelled

* `KhiMockDriver`: every lifecycle routine returns success and `read` copies the
  commands to the states; it has no session, threads or failures.
* `KhiDriver` and the conversion of texts between encodings; the wording of error
  messages (`report_write_error` and the messages of `get_error_info`).
* The values of joint states and sensor data and the conversion of their units in
  `read`; `float` rounding in `write`.
* The temporary file of `load_rtc_program` and what the loaded program does: `load`
  is one call that may fail.
* The fields of the description that `on_init` copies; only whether its checks pass.
* `krnx.h`, a vendored interface without source: the controller is modelled from
  how the driver uses it.
* Messages, launch files and robot descriptions (`khi_msgs`, `khi_description`,
  `khi_gazebo`, `khi_gz`, `khi_moveit`): data and start-up configuration.
