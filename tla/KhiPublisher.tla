---------------------------- MODULE KhiPublisher ----------------------------
(***************************************************************************)
(* The publisher of the hardware component: start() and stop(), statement  *)
(* by statement, against the event thread that reports errors and the      *)
(* executor thread that runs the timer of the actual currents, and the     *)
(* suppression of reports that were already made.                          *)
(***************************************************************************)
EXTENDS Naturals

CONSTANTS
    Errors,     \* non-empty lists of error codes
    NoError,    \* the empty list
    FetchFails  \* TRUE: krnx_GetCurErrorList may fail

VARIABLES
    caller,                       \* where the lifecycle thread stands in start() or stop()
    should_stop_publisher_,
    exit_,
    should_stop_error_reporting_,
    old_error_codes_,
    event,                        \* where the event thread stands
    error_codes,                  \* the list the event thread has fetched
    executor,                     \* where the executor thread stands
    timer_,                       \* "none", "armed" or "cancelled"
    publishers,                   \* error_info_publisher_ and actual_current_publisher_ exist
    codes,                        \* the error list of the controller
    reported,                     \* history: the list published last since start()
    changed,                      \* history: codes changed since that was published
    missed,                       \* history: a fetch failed since that was published
    sent                          \* history: toggles whenever a list is published

dedupe == <<should_stop_error_reporting_, old_error_codes_>>
flags  == <<should_stop_publisher_, exit_>>
seen   == <<codes, reported, changed, missed, sent>>
vars   == <<caller, flags, dedupe, event, error_codes, executor, timer_, publishers, seen>>

Lists == Errors \cup {NoError}

Started  == {"start_executor", "start_publishers", "start_timer", "start_event"}
Stopping == {"cancel_timer", "join_event", "exit", "join_executor", "reset"}

ASSUME ErrorsAssumption == Errors # {} /\ NoError \notin Errors
ASSUME FetchAssumption  == FetchFails \in BOOLEAN

-----------------------------------------------------------------------------
(* start(), called for a publisher that is stopped.                        *)

\* Mutant: a report made before the last stop() still suppresses.
StartFlags_KeepsSuppression ==
    /\ caller = "idle" /\ ~publishers
    /\ should_stop_publisher_' = FALSE
    /\ reported' = NoError
    /\ caller' = "start_executor"
    /\ UNCHANGED <<exit_, dedupe, event, error_codes, executor, timer_, publishers, codes, changed, missed,
                   sent>>

StartFlags ==
    /\ caller = "idle" /\ ~publishers
    /\ should_stop_publisher_' = FALSE
    /\ should_stop_error_reporting_' = FALSE
    /\ reported' = NoError
    /\ caller' = "start_executor"
    /\ UNCHANGED <<exit_, old_error_codes_, event, error_codes, executor, timer_, publishers,
                   codes, changed, missed, sent>>

start_executor ==
    /\ caller = "start_executor"
    /\ IF executor = "none"
       THEN exit_' = FALSE /\ executor' = "spin"
       ELSE UNCHANGED <<exit_, executor>>
    /\ caller' = "start_publishers"
    /\ UNCHANGED <<should_stop_publisher_, dedupe, event, error_codes, timer_, publishers, seen>>

StartPublishers ==
    /\ caller = "start_publishers"
    /\ publishers' = TRUE
    /\ caller' = "start_timer"
    /\ UNCHANGED <<flags, dedupe, event, error_codes, executor, timer_, seen>>

StartTimer ==
    /\ caller = "start_timer"
    /\ timer_' = "armed"
    /\ caller' = "start_event"
    /\ UNCHANGED <<flags, dedupe, event, error_codes, executor, publishers, seen>>

StartEvent ==
    /\ caller = "start_event"
    /\ event' = "loop"
    /\ caller' = "idle"
    /\ UNCHANGED <<flags, dedupe, error_codes, executor, timer_, publishers, seen>>

-----------------------------------------------------------------------------
(* stop(), called at any time by the lifecycle and by the destructor.      *)

StopFlag ==
    /\ caller = "idle"
    /\ should_stop_publisher_' = TRUE
    /\ caller' = "cancel_timer"
    /\ UNCHANGED <<exit_, dedupe, event, error_codes, executor, timer_, publishers, seen>>

CancelTimer ==
    /\ caller = "cancel_timer"
    /\ timer_' = IF timer_ = "armed" THEN "cancelled" ELSE timer_
    /\ caller' = "join_event"
    /\ UNCHANGED <<flags, dedupe, event, error_codes, executor, publishers, seen>>

JoinEvent ==
    /\ caller = "join_event"
    /\ event \in {"none", "exited"}
    /\ event' = "none"
    /\ caller' = "exit"
    /\ UNCHANGED <<flags, dedupe, error_codes, executor, timer_, publishers, seen>>

\* Mutants of stop_executor: the thread is not told to exit, or not joined.
SetExit_Forgotten ==
    /\ caller = "exit"
    /\ caller' = "join_executor"
    /\ UNCHANGED <<flags, dedupe, event, error_codes, executor, timer_, publishers, seen>>

SetExit ==
    /\ caller = "exit"
    /\ exit_' = TRUE
    /\ caller' = "join_executor"
    /\ UNCHANGED <<should_stop_publisher_, dedupe, event, error_codes, executor, timer_,
                   publishers, seen>>

JoinExecutor_Detached ==
    /\ caller = "join_executor"
    /\ caller' = "reset"
    /\ UNCHANGED <<flags, dedupe, event, error_codes, executor, timer_, publishers, seen>>

JoinExecutor ==
    /\ caller = "join_executor"
    /\ executor \in {"none", "exited"}
    /\ executor' = "none"
    /\ caller' = "reset"
    /\ UNCHANGED <<flags, dedupe, event, error_codes, timer_, publishers, seen>>

Reset ==
    /\ caller = "reset"
    /\ timer_' = "none"
    /\ publishers' = FALSE
    /\ caller' = "idle"
    /\ UNCHANGED <<flags, dedupe, event, error_codes, executor, seen>>

CallerStep == \/ start_executor \/ StartPublishers \/ StartTimer \/ StartEvent
              \/ CancelTimer \/ JoinEvent \/ SetExit \/ JoinExecutor \/ Reset

-----------------------------------------------------------------------------
(* The event thread.                                                       *)

publish_on_event ==
    /\ event = "loop"
    /\ event' = IF should_stop_publisher_ THEN "exited" ELSE "fetch"
    /\ UNCHANGED <<caller, flags, dedupe, error_codes, executor, timer_, publishers, seen>>

Fetched(list) ==
    /\ event = "fetch"
    /\ error_codes' = list
    /\ event' = "report"
    /\ UNCHANGED <<caller, flags, dedupe, executor, timer_, publishers,
                   codes, reported, changed, sent>>

\* The result of get_error_info is not looked at: a failure is an empty list.
get_error_info == Fetched(codes) /\ UNCHANGED missed
FetchFailed    == FetchFails /\ Fetched(NoError) /\ missed' = TRUE

\* Mutant: the list fetched before is not remembered.
report_error_Forgets ==
    LET suppress == should_stop_error_reporting_ /\ error_codes = old_error_codes_ IN
    /\ event = "report"
    /\ should_stop_error_reporting_' = TRUE
    /\ IF ~suppress /\ error_codes # NoError
       THEN /\ reported' = error_codes /\ sent' = ~sent
            /\ changed' = (codes # error_codes) /\ missed' = FALSE
       ELSE UNCHANGED <<reported, changed, missed, sent>>
    /\ event' = "loop"
    /\ UNCHANGED <<caller, flags, old_error_codes_, error_codes, executor, timer_, publishers, codes>>

\* A list that differs from the one before is published, once.
report_error ==
    LET suppress == should_stop_error_reporting_ /\ error_codes = old_error_codes_ IN
    /\ event = "report"
    /\ old_error_codes_' = error_codes
    /\ should_stop_error_reporting_' = TRUE
    /\ IF ~suppress /\ error_codes # NoError
       THEN /\ reported' = error_codes /\ sent' = ~sent
            /\ changed' = (codes # error_codes) /\ missed' = FALSE
       ELSE UNCHANGED <<reported, changed, missed, sent>>
    /\ event' = "loop"
    /\ UNCHANGED <<caller, flags, error_codes, executor, timer_, publishers, codes>>

-----------------------------------------------------------------------------
(* The executor thread and the timer callback on it.                       *)

\* spin_once takes a timer that is due, or waits up to 100 ms.
Spin ==
    /\ executor = "spin"
    /\ \/ exit_ /\ executor' = "exited"
       \/ ~exit_ /\ timer_ = "armed" /\ executor' = "callback"
    /\ UNCHANGED <<caller, flags, dedupe, event, error_codes, timer_, publishers, seen>>

\* The guard of report_actual_current.
TimerGuard ==
    /\ executor = "callback"
    /\ executor' = IF should_stop_publisher_ THEN "spin" ELSE "current"
    /\ UNCHANGED <<caller, flags, dedupe, event, error_codes, timer_, publishers, seen>>

\* get_actual_current: disabled, failed, empty, or something to publish.
get_actual_current ==
    /\ executor = "current"
    /\ executor' \in {"spin", "publish"}
    /\ UNCHANGED <<caller, flags, dedupe, event, error_codes, timer_, publishers, seen>>

PublishCurrent ==
    /\ executor = "publish"
    /\ executor' = "spin"
    /\ UNCHANGED <<caller, flags, dedupe, event, error_codes, timer_, publishers, seen>>

EventStep    == publish_on_event \/ get_error_info \/ FetchFailed \/ report_error
ExecutorStep == Spin \/ TimerGuard \/ get_actual_current \/ PublishCurrent

-----------------------------------------------------------------------------
\* The controller raises an error, or one is reset.
ErrorsChange ==
    /\ \E list \in Lists \ {codes} : codes' = list
    /\ changed' = TRUE
    /\ UNCHANGED <<caller, flags, dedupe, event, error_codes, executor, timer_, publishers,
                   reported, missed, sent>>

Init ==
    /\ caller = "idle"
    /\ should_stop_publisher_ = FALSE /\ exit_ = FALSE
    /\ should_stop_error_reporting_ = FALSE /\ old_error_codes_ = NoError
    /\ event = "none" /\ error_codes = NoError
    /\ executor = "none" /\ timer_ = "none" /\ publishers = FALSE
    /\ codes \in Lists
    /\ reported = NoError /\ changed = FALSE /\ missed = FALSE /\ sent = FALSE

Next == StartFlags \/ StopFlag \/ CallerStep \/ EventStep \/ ExecutorStep \/ ErrorsChange

Spec == Init /\ [][Next]_vars

\* The three threads are scheduled, and the list of errors can be fetched again
\* and again, if not each time.
LiveSpec == /\ Spec
            /\ WF_vars(CallerStep) /\ WF_vars(EventStep) /\ WF_vars(ExecutorStep)
            /\ SF_vars(get_error_info)

-----------------------------------------------------------------------------
(* Properties.                                                             *)

TypeOK ==
    /\ caller \in {"idle"} \cup Started \cup Stopping
    /\ should_stop_publisher_ \in BOOLEAN /\ exit_ \in BOOLEAN
    /\ should_stop_error_reporting_ \in BOOLEAN /\ old_error_codes_ \in Lists
    /\ event \in {"none", "loop", "fetch", "report", "exited"}
    /\ error_codes \in Lists
    /\ executor \in {"none", "spin", "callback", "current", "publish", "exited"}
    /\ timer_ \in {"none", "armed", "cancelled"}
    /\ publishers \in BOOLEAN
    /\ codes \in Lists /\ reported \in Lists
    /\ changed \in BOOLEAN /\ missed \in BOOLEAN /\ sent \in BOOLEAN

\* The comment in report_actual_current: neither thread uses a publisher that stop()
\* has reset, wherever stop() met it, and however often stop() is called.
NoUseAfterReset == event = "report" \/ executor = "publish" => publishers

\* When start() or stop() is not under way and the publisher is stopped, neither
\* thread is left: the next start() can create them, the destructor can go on.
StoppedIsQuiet ==
    caller = "idle" /\ ~publishers => event = "none" /\ executor = "none" /\ timer_ = "none"

\* Comment of report_error: "Prevent repeated Publishing of error information."  The
\* same list is published again within a run only if the controller's list has
\* changed in between.
NoRepeat == [][sent' # sent /\ reported' = reported => changed]_vars

\* The suppression does keep it from being repeated unless a fetch failed in between.
RepeatExplained == [][sent' # sent /\ reported' = reported => changed \/ missed]_vars

\* What the lifecycle of the component relies on: no driver call begins once stop()
\* has set its flag, and stop() returns after the last one has ended.
Life == INSTANCE KhiPublisherLife WITH
    Threads <- {"event", "timer"},
    state   <- IF ~publishers THEN "stopped"
               ELSE IF should_stop_publisher_ THEN "stopping" ELSE "running",
    calls   <- {t \in {"event", "timer"} : \/ t = "event" /\ event = "fetch"
                                           \/ t = "timer" /\ executor = "current"}
LifeSpec == Life!Spec

\* An error that stays is reported in every run of the publisher, also one that was
\* reported before the last stop(), and nothing else is reported afterwards.
PersistingErrorReported ==
    \A list \in Errors :
        <>[](codes = list /\ caller = "idle" /\ publishers) => <>[](reported = list)

\* stop() returns: both joins end, whatever the threads were doing.
StopReturns == (caller \in Stopping) ~> (caller = "idle")

-----------------------------------------------------------------------------
(* The inductive invariant.                                                *)

\* Where threads, timer and publishers can exist while start() and stop() go on.
Places ==
    /\ event # "none" => caller \in {"idle", "cancel_timer", "join_event"}
    /\ executor # "none" => caller \notin {"start_executor", "reset"}
    /\ timer_ = "armed" => caller \in {"start_event", "idle", "cancel_timer"}
    /\ timer_ # "none" => caller \in {"start_event", "idle"} \cup Stopping
    /\ caller \in {"start_executor", "start_publishers"} => ~publishers
    /\ caller \in {"start_timer", "start_event"} => publishers
    /\ caller \in Started => ~should_stop_publisher_
    /\ caller \in Stopping => should_stop_publisher_

\* What each of them needs to find.
Needs ==
    /\ event # "none" => publishers
    /\ timer_ # "none" => publishers
    /\ executor \in {"callback", "current", "publish"} => publishers
    /\ executor # "none" /\ caller \in {"idle"} \cup Stopping => publishers

\* While nothing has changed or been missed since a list was published, the list is
\* that of the controller, of the event thread, and the one that suppresses repeats.
Suppressed ==
    reported # NoError /\ ~changed /\ ~missed =>
        /\ codes = reported /\ old_error_codes_ = reported
        /\ should_stop_error_reporting_
        /\ event = "report" => error_codes = reported

IInv == TypeOK /\ Places /\ Needs /\ Suppressed
=============================================================================
