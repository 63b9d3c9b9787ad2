------------------------ MODULE KhiPublisher_proofs ------------------------
(***************************************************************************)
(* Proofs about KhiPublisher, for every set of error lists: where threads, *)
(* timer and publishers exist, that KhiPublisherLife is implemented, what  *)
(* is published again, and that stop() goes forward.                       *)
(***************************************************************************)
EXTENDS KhiPublisher, TLAPS

USE ErrorsAssumption

\* Every step keeps the types.
LEMMA NextTypeOK == ASSUME TypeOK, [Next]_vars PROVE TypeOK'
<1> USE DEF TypeOK, Lists, Started, Stopping, flags, dedupe, seen
<1>1. CASE UNCHANGED vars
  BY <1>1 DEF vars
<1>2. CASE StartFlags
  <2>1. should_stop_publisher_' \in BOOLEAN /\ should_stop_error_reporting_' \in BOOLEAN
    BY <1>2 DEF StartFlags
  <2>2. reported' \in Lists /\ caller' \in {"idle"} \cup Started \cup Stopping
    BY <1>2 DEF StartFlags
  <2> QED
    BY <1>2, <2>1, <2>2 DEF StartFlags
<1>3. CASE StopFlag
  BY <1>3 DEF StopFlag
<1>4. CASE start_executor
  <2>1. CASE executor = "none"
    <3>1. exit_' \in BOOLEAN /\ executor' = "spin"
      BY <1>4, <2>1 DEF start_executor
    <3> QED
      BY <1>4, <2>1, <3>1 DEF start_executor
  <2>2. CASE executor # "none"
    BY <1>4, <2>2 DEF start_executor
  <2> QED
    BY <2>1, <2>2
<1>5. CASE StartPublishers
  BY <1>5 DEF StartPublishers
<1>6. CASE StartTimer
  BY <1>6 DEF StartTimer
<1>7. CASE StartEvent
  BY <1>7 DEF StartEvent
<1>8. CASE CancelTimer
  BY <1>8 DEF CancelTimer
<1>9. CASE JoinEvent
  BY <1>9 DEF JoinEvent
<1>10. CASE SetExit
  BY <1>10 DEF SetExit
<1>11. CASE JoinExecutor
  BY <1>11 DEF JoinExecutor
<1>12. CASE Reset
  <2>1. publishers' \in BOOLEAN /\ timer_' \in {"none", "armed", "cancelled"}
    BY <1>12 DEF Reset
  <2>2. caller' \in {"idle"} \cup Started \cup Stopping
    BY <1>12 DEF Reset
  <2> QED
    BY <1>12, <2>1, <2>2 DEF Reset
<1>13. CASE publish_on_event
  BY <1>13 DEF publish_on_event
<1>14. CASE get_error_info \/ FetchFailed
  <2>1. missed' \in BOOLEAN
    BY <1>14 DEF get_error_info, FetchFailed
  <2>2. error_codes' \in Lists /\ event' = "report"
    BY <1>14 DEF get_error_info, FetchFailed, Fetched
  <2> QED
    BY <1>14, <2>1, <2>2 DEF get_error_info, FetchFailed, Fetched
<1>15. CASE report_error
  <2>1. changed' \in BOOLEAN
    BY <1>15 DEF report_error
  <2>2. missed' \in BOOLEAN /\ sent' \in BOOLEAN
    BY <1>15 DEF report_error
  <2>3. reported' \in Lists
    BY <1>15 DEF report_error
  <2>4. event' = "loop" /\ should_stop_error_reporting_' = TRUE /\ old_error_codes_' \in Lists
    BY <1>15 DEF report_error
  <2> QED
    BY <1>15, <2>1, <2>2, <2>3, <2>4 DEF report_error
<1>16. CASE Spin
  BY <1>16 DEF Spin
<1>17. CASE TimerGuard
  BY <1>17 DEF TimerGuard
<1>18. CASE get_actual_current
  BY <1>18 DEF get_actual_current
<1>19. CASE PublishCurrent
  BY <1>19 DEF PublishCurrent
<1>20. CASE ErrorsChange
  BY <1>20 DEF ErrorsChange
<1> QED
  BY <1>1, <1>2, <1>3, <1>4, <1>5, <1>6, <1>7, <1>8, <1>9, <1>10, <1>11,
     <1>12, <1>13, <1>14, <1>15, <1>16, <1>17, <1>18, <1>19, <1>20
     DEF Next, CallerStep, EventStep, ExecutorStep

\* start() and stop() create, join and reset in an order that keeps the invariant.
LEMMA CallerIInv ==
  ASSUME IInv, StartFlags \/ StopFlag \/ CallerStep PROVE (Places /\ Needs)'
<1> USE DEF IInv, Places, Needs, Stopping, Started, flags
<1>1. CASE StartFlags
  BY <1>1 DEF StartFlags
<1>2. CASE StopFlag
  BY <1>2 DEF StopFlag
<1>3. CASE start_executor
  BY <1>3 DEF start_executor
<1>4. CASE StartPublishers
  BY <1>4 DEF StartPublishers
<1>5. CASE StartTimer
  BY <1>5 DEF StartTimer
<1>6. CASE StartEvent
  BY <1>6 DEF StartEvent
<1>7. CASE CancelTimer
  BY <1>7 DEF CancelTimer
<1>8. CASE JoinEvent
  BY <1>8 DEF JoinEvent
<1>9. CASE SetExit
  BY <1>9 DEF SetExit
<1>10. CASE JoinExecutor
  BY <1>10 DEF JoinExecutor
<1>11. CASE Reset
  BY <1>11 DEF Reset
<1> QED
  BY <1>1, <1>2, <1>3, <1>4, <1>5, <1>6, <1>7, <1>8, <1>9, <1>10, <1>11 DEF CallerStep

\* The threads begin to use a publisher only after start() has created it.
LEMMA ThreadsIInv ==
  ASSUME IInv, EventStep \/ ExecutorStep \/ ErrorsChange \/ UNCHANGED vars
  PROVE  (Places /\ Needs)'
<1> USE DEF IInv, Places, Needs, Stopping, Started, flags
<1>1. CASE EventStep
  BY <1>1 DEF EventStep, publish_on_event, get_error_info, FetchFailed, Fetched, report_error
<1>2. CASE ExecutorStep
  BY <1>2 DEF ExecutorStep, Spin, TimerGuard, get_actual_current, PublishCurrent
<1>3. CASE ErrorsChange
  BY <1>3 DEF ErrorsChange
<1>4. CASE UNCHANGED vars
  BY <1>4 DEF vars
<1> QED
  BY <1>1, <1>2, <1>3, <1>4

\* What suppresses the report of a list stays in step with the controller and with what
\* was published: report_error remembers each list that it is given.
LEMMA SuppressedKept ==
  ASSUME TypeOK, Suppressed, [Next]_vars PROVE Suppressed'
<1> USE DEF Suppressed
<1>1. CASE StartFlags
  BY <1>1 DEF StartFlags
<1>2. CASE publish_on_event
  BY <1>2 DEF publish_on_event, dedupe, seen
<1>3. CASE get_error_info \/ FetchFailed
  BY <1>3 DEF get_error_info, FetchFailed, Fetched, dedupe
<1>4. CASE report_error
  <2>1. CASE ~(should_stop_error_reporting_ /\ error_codes = old_error_codes_) /\ error_codes # NoError
    BY <1>4, <2>1 DEF report_error
  <2>2. CASE (should_stop_error_reporting_ /\ error_codes = old_error_codes_) \/ error_codes = NoError
    <3>1. UNCHANGED <<reported, changed, missed, codes>>
      BY <1>4, <2>2 DEF report_error
    <3> QED
      BY <1>4, <3>1 DEF report_error
  <2> QED
    BY <2>1, <2>2
<1>5. CASE ErrorsChange
  BY <1>5 DEF ErrorsChange
<1>6. CASE StartEvent \/ JoinEvent
  BY <1>6 DEF StartEvent, JoinEvent, dedupe, seen
<1>7. CASE \/ StopFlag \/ start_executor \/ StartPublishers \/ StartTimer \/ CancelTimer
           \/ SetExit \/ JoinExecutor \/ Reset \/ ExecutorStep \/ UNCHANGED vars
  <2>1. UNCHANGED <<dedupe, seen, event, error_codes>>
    BY <1>7 DEF StopFlag, start_executor, StartPublishers, StartTimer, CancelTimer, SetExit,
                JoinExecutor, Reset, ExecutorStep, Spin, TimerGuard, get_actual_current,
                PublishCurrent, vars
  <2> QED
    BY <2>1 DEF dedupe, seen
<1> QED
  BY <1>1, <1>2, <1>3, <1>4, <1>5, <1>6, <1>7 DEF Next, CallerStep, EventStep

\* The inductive invariant of the publisher holds.
THEOREM Invariance == Spec => []IInv
<1>1. Init => IInv
  BY DEF Init, IInv, TypeOK, Places, Needs, Suppressed, Lists, Stopping, Started
<1>2. IInv /\ [Next]_vars => IInv'
  BY NextTypeOK, CallerIInv, ThreadsIInv, SuppressedKept DEF IInv, Next
<1> QED
  BY <1>1, <1>2, PTL DEF Spec

\* Neither thread publishes on a publisher that stop() has reset (KhiPublisher::stop).
THEOREM NeverUsedAfterReset == Spec => []NoUseAfterReset
<1>1. IInv => NoUseAfterReset
  BY DEF IInv, Needs, NoUseAfterReset
<1> QED
  BY <1>1, Invariance, PTL

\* A publisher that is stopped has no thread and no timer (KhiPublisher::stop).
THEOREM QuietWhenStopped == Spec => []StoppedIsQuiet
<1>1. IInv => StoppedIsQuiet
  BY DEF IInv, TypeOK, Needs, StoppedIsQuiet
<1> QED
  BY <1>1, Invariance, PTL

\* report_error publishes the list that it published last only if the controller's list
\* has changed, or a fetch has failed, in between.
THEOREM RepeatsExplained == Spec => RepeatExplained
<1>1. IInv /\ [Next]_vars => [sent' # sent /\ reported' = reported => changed \/ missed]_vars
  <2> SUFFICES ASSUME IInv, Next, sent' # sent, reported' = reported, ~changed, ~missed
               PROVE  FALSE
    OBVIOUS
  <2>1. report_error
    BY DEF Next, StartFlags, StopFlag, CallerStep, start_executor, StartPublishers, StartTimer,
           StartEvent, CancelTimer, JoinEvent, SetExit, JoinExecutor, Reset, EventStep,
           publish_on_event, get_error_info, FetchFailed, Fetched, ExecutorStep, Spin, TimerGuard,
           get_actual_current, PublishCurrent, ErrorsChange, seen
  <2>2. /\ error_codes # NoError /\ reported' = error_codes
        /\ ~(should_stop_error_reporting_ /\ error_codes = old_error_codes_)
    BY <2>1 DEF report_error
  <2> QED
    BY <2>2 DEF IInv, Suppressed
<1> QED
  BY <1>1, Invariance, PTL DEF Spec, RepeatExplained

-----------------------------------------------------------------------------
\* A step that changes neither flag nor publishers nor who is inside a driver call is
\* invisible to the contract.
LEMMA Invisible ==
  ASSUME UNCHANGED <<publishers, should_stop_publisher_>>,
         (event = "fetch")' = (event = "fetch"), (executor = "current")' = (executor = "current")
  PROVE  UNCHANGED Life!vars
  BY DEF Life!vars

\* Every step of the publisher is a step of the contract, or invisible to it.
LEMMA StepRefines == ASSUME IInv, [Next]_vars PROVE [Life!Next]_(Life!vars)
<1> USE DEF IInv, Places, Needs, Started, Stopping
<1>1. CASE StartFlags
  BY <1>1 DEF StartFlags, Life!vars
<1>2. CASE StopFlag
  <2>1. CASE publishers /\ ~should_stop_publisher_
    BY <1>2, <2>1 DEF StopFlag, Life!Next, Life!Tell
  <2>2. CASE ~publishers \/ should_stop_publisher_
    BY <1>2, <2>2 DEF StopFlag, Life!vars
  <2> QED
    BY <2>1, <2>2
<1>3. CASE StartPublishers
  BY <1>3 DEF StartPublishers, Life!Next, Life!Start, flags
<1>4. CASE Reset
  <2>1. event = "none" /\ executor = "none" /\ should_stop_publisher_
    BY <1>4 DEF Reset
  <2>2. CASE publishers
    BY <1>4, <2>1, <2>2 DEF Reset, Life!Next, Life!Join, flags
  <2>3. CASE ~publishers
    BY <1>4, <2>1, <2>3 DEF Reset, Life!vars
  <2> QED
    BY <2>2, <2>3
<1>5. CASE publish_on_event
  <2>1. CASE should_stop_publisher_
    BY <1>5, <2>1, Invisible DEF publish_on_event, flags
  <2>2. CASE ~should_stop_publisher_
    BY <1>5, <2>2 DEF publish_on_event, Life!Next, Life!Begin, flags
  <2> QED
    BY <2>1, <2>2
<1>6. CASE get_error_info \/ FetchFailed
  BY <1>6 DEF get_error_info, FetchFailed, Fetched, Life!Next, Life!End, flags
<1>7. CASE TimerGuard
  <2>1. CASE should_stop_publisher_
    BY <1>7, <2>1, Invisible DEF TimerGuard, flags
  <2>2. CASE ~should_stop_publisher_
    BY <1>7, <2>2 DEF TimerGuard, Life!Next, Life!Begin, flags
  <2> QED
    BY <2>1, <2>2
<1>8. CASE get_actual_current
  BY <1>8 DEF get_actual_current, Life!Next, Life!End, flags
<1>9. CASE start_executor \/ StartTimer \/ StartEvent \/ CancelTimer \/ JoinEvent \/ SetExit
           \/ JoinExecutor
  BY <1>9, Invisible DEF start_executor, StartTimer, StartEvent, CancelTimer, JoinEvent, SetExit,
                         JoinExecutor, flags
<1>10. CASE report_error \/ Spin \/ PublishCurrent \/ ErrorsChange \/ UNCHANGED vars
  BY <1>10, Invisible DEF report_error, Spin, PublishCurrent, ErrorsChange, vars, flags
<1> QED
  BY <1>1, <1>2, <1>3, <1>4, <1>5, <1>6, <1>7, <1>8, <1>9, <1>10
     DEF Next, CallerStep, EventStep, ExecutorStep

\* The publisher keeps the contract that the lifecycle relies on: no driver call begins
\* after stop() has set its flag, and it returns after the last one has ended.
THEOREM Refinement == Spec => LifeSpec
<1>1. Init => Life!Init
  BY DEF Init, Life!Init
<1>2. IInv /\ [Next]_vars => [Life!Next]_(Life!vars)
  BY StepRefines
<1> QED
  BY <1>1, <1>2, Invariance, PTL DEF Spec, LifeSpec, Life!Spec

-----------------------------------------------------------------------------
(* stop() only goes forward: the safety half of StopReturns.               *)

\* The statements of stop() that are left, and the steps that each thread can still
\* take before it has exited.
CallerLeft   == [cancel_timer |-> 5, join_event |-> 4, exit |-> 3, join_executor |-> 2,
                 reset |-> 1, idle |-> 0]
EventLeft    == [fetch |-> 3, report |-> 2, loop |-> 1, exited |-> 0, none |-> 0]
ExecutorLeft == [callback |-> 4, current |-> 3, publish |-> 2, spin |-> 1, exited |-> 0, none |-> 0]

StepsLeft == CallerLeft[caller] + EventLeft[event] + ExecutorLeft[executor]

\* Once stop() has cancelled the timer, every step of its own, of the event thread and
\* of the executor thread leaves fewer to take, and nothing that happens at the
\* controller adds one.  (Before, the executor may serve the timer again and again.)
Forward ==
    caller \in Stopping /\ timer_ # "armed" =>
        /\ StepsLeft' <= StepsLeft
        /\ (CallerStep \/ EventStep \/ ExecutorStep) => StepsLeft' < StepsLeft

StopAdvances == [][Forward]_vars

LEMMA LeftTypes ==
    ASSUME TypeOK, caller \in Stopping
    PROVE  /\ CallerLeft[caller] \in Nat /\ EventLeft[event] \in Nat
           /\ ExecutorLeft[executor] \in Nat
<1>1. CallerLeft[caller] \in Nat
  BY DEF CallerLeft, Stopping
<1>2. EventLeft[event] \in Nat
  BY DEF TypeOK, EventLeft
<1>3. ExecutorLeft[executor] \in Nat
  BY DEF TypeOK, ExecutorLeft
<1> QED
  BY <1>1, <1>2, <1>3

\* A statement of stop(): the join of a thread finds it exited or never created.
LEMMA CallerAdvances ==
    ASSUME TypeOK, caller \in Stopping, CallerStep
    PROVE  StepsLeft' \in Nat /\ StepsLeft' < StepsLeft
<1> USE LeftTypes DEF StepsLeft
<1>1. CASE CancelTimer
  BY <1>1 DEF CancelTimer, CallerLeft
<1>2. CASE JoinEvent
  <2>1. EventLeft[event] = 0 /\ EventLeft[event'] = 0
    BY <1>2 DEF JoinEvent, EventLeft
  <2>2. CallerLeft[caller] = 4 /\ CallerLeft[caller'] = 3 /\ executor' = executor
    BY <1>2 DEF JoinEvent, CallerLeft
  <2> QED
    BY <2>1, <2>2
<1>3. CASE SetExit
  BY <1>3 DEF SetExit, CallerLeft
<1>4. CASE JoinExecutor
  <2>1. ExecutorLeft[executor] = 0 /\ ExecutorLeft[executor'] = 0
    BY <1>4 DEF JoinExecutor, ExecutorLeft
  <2>2. CallerLeft[caller] = 2 /\ CallerLeft[caller'] = 1 /\ event' = event
    BY <1>4 DEF JoinExecutor, CallerLeft
  <2> QED
    BY <2>1, <2>2
<1>5. CASE Reset
  BY <1>5 DEF Reset, CallerLeft
<1>6. caller \notin Started
  BY DEF Started, Stopping
<1> QED
  BY <1>1, <1>2, <1>3, <1>4, <1>5, <1>6
     DEF CallerStep, start_executor, StartPublishers, StartTimer, StartEvent, Started

\* A step of a thread that has been told to stop.
LEMMA ThreadsAdvance ==
    ASSUME TypeOK, Places, caller \in Stopping, timer_ # "armed", EventStep \/ ExecutorStep
    PROVE  StepsLeft' \in Nat /\ StepsLeft' < StepsLeft
<1>1. should_stop_publisher_
  BY DEF Places
<1>2. CASE EventStep
  <2>1. EventLeft[event'] < EventLeft[event] /\ UNCHANGED <<caller, executor>>
    BY <1>1, <1>2 DEF EventStep, publish_on_event, get_error_info, FetchFailed, Fetched,
                      report_error, EventLeft
  <2>2. EventLeft[event'] \in Nat
    BY <1>2 DEF EventStep, publish_on_event, get_error_info, FetchFailed, Fetched,
                report_error, EventLeft
  <2> QED
    BY <2>1, <2>2, LeftTypes DEF StepsLeft
<1>3. CASE ExecutorStep
  <2>1. /\ ExecutorLeft[executor'] \in Nat /\ ExecutorLeft[executor'] < ExecutorLeft[executor]
        /\ UNCHANGED <<caller, event>>
    <3>1. CASE Spin
      BY <3>1 DEF Spin, ExecutorLeft
    <3>2. CASE TimerGuard
      BY <1>1, <3>2 DEF TimerGuard, ExecutorLeft
    <3>3. CASE get_actual_current
      <4>1. ExecutorLeft["spin"] = 1 /\ ExecutorLeft["publish"] = 2 /\ ExecutorLeft["current"] = 3
        BY DEF ExecutorLeft
      <4> QED
        BY <3>3, <4>1 DEF get_actual_current
    <3>4. CASE PublishCurrent
      BY <3>4 DEF PublishCurrent, ExecutorLeft
    <3> QED
      BY <1>3, <3>1, <3>2, <3>3, <3>4 DEF ExecutorStep
  <2> QED
    BY <2>1, LeftTypes DEF StepsLeft
<1> QED
  BY <1>2, <1>3

\* stop() is through at most eleven steps of the three threads after it has cancelled
\* the timer: that it returns needs no more than that they take them.
THEOREM StopsInTime == Spec => StopAdvances
<1>1. IInv /\ [Next]_vars => [Forward]_vars
  <2> SUFFICES ASSUME IInv, Next, caller \in Stopping, timer_ # "armed"
               PROVE  /\ StepsLeft' <= StepsLeft
                      /\ (CallerStep \/ EventStep \/ ExecutorStep) => StepsLeft' < StepsLeft
    BY DEF Forward
  <2>1. TypeOK /\ Places
    BY DEF IInv
  <2>2. StepsLeft \in Nat
    BY <2>1, LeftTypes DEF StepsLeft
  <2>3. CASE CallerStep \/ EventStep \/ ExecutorStep
    <3>1. StepsLeft' \in Nat /\ StepsLeft' < StepsLeft
      BY <2>1, <2>3, CallerAdvances, ThreadsAdvance
    <3> QED
      BY <2>2, <3>1
  <2>4. CASE ~CallerStep /\ ~EventStep /\ ~ExecutorStep
    <3>1. ErrorsChange
      BY <2>4 DEF Next, StartFlags, StopFlag, Stopping
    <3>2. StepsLeft' = StepsLeft
      BY <3>1 DEF ErrorsChange, StepsLeft
    <3> QED
      BY <2>2, <2>4, <3>2
  <2> QED
    BY <2>3, <2>4
<1> QED
  BY <1>1, Invariance, PTL DEF Spec, StopAdvances
=============================================================================
