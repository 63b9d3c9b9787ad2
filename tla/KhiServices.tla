----------------------------- MODULE KhiServices -----------------------------
(***************************************************************************)
(* The services: KhiService's start(), stop() and destructor against the   *)
(* spin thread, which serves one request at a time, and the callbacks of   *)
(* KhiKrnxDriver call by call, against a controller whose signals and      *)
(* errors change meanwhile.                                                *)
(***************************************************************************)
EXTENDS Integers, Sequences

CONSTANTS
    NArms,      \* arms of the robot; reset_error serves the first
    Requests,   \* the requests that clients send
    MaxSig,     \* KHI_MAX_SIG_SIZE
    Word,       \* 2^32: the values of an uint32
    Signals,    \* signals that are ever on
    Inputs,     \* those that only the outside switches
    ErrorCodes  \* AS error codes, none of them 0

VARIABLES
    caller,   \* start() and stop(): the next server to create, or to reset
    servers,  \* the service servers that exist
    exit_,
    spin,     \* the spin thread: "running", "exited" or "joined"
    request,  \* the request that is being served, or None
    at,       \* where its callback stands
    resp,     \* the response it builds; after that, the last reply
    signals,  \* the signals that are on
    lamps     \* the arms whose error lamp is on

life  == <<caller, servers, exit_, spin>>
calls == <<request, at, resp>>
robot == <<signals, lamps>>
vars  == <<life, calls, robot>>

\* In the order in which start() creates and stop() resets them.
Servers == << "get_signal", "set_signal", "exec_khi_command", "reset_error", "set_timeout",
              "set_ati_software_bias", "change_ft_output_mode" >>

Names     == {Servers[k] : k \in DOMAIN Servers}
None      == [srv |-> "none"]
Arms      == 1..NArms
Unwritten == -1

ASSUME ArmsAssumption    == NArms \in Nat \ {0}
\* What the message types say: signal_numbers is an uint32[], is_on a bool[].
ASSUME RequestAssumption ==
    \A r \in Requests :
       /\ r.srv \in Names
       /\ r.srv \in {"get_signal", "set_signal"} => r.numbers \in Seq(0..(Word - 1))
       /\ r.srv = "set_signal" => r.is_on \in Seq(BOOLEAN)

\* Signals are numbered from 1, and no number belongs to two banks.
ASSUME SignalAssumption == /\ Word \in Nat \ {0} /\ MaxSig \in 1..1000
                           /\ Signals \subseteq Nat \ {0} /\ Inputs \subseteq Signals
                           /\ 0 \notin ErrorCodes

-----------------------------------------------------------------------------
(* start(), stop() and the destructor, in the thread of the lifecycle.     *)

Start == caller = "idle" /\ servers = {} /\ ~exit_ /\ caller' = "start"
         /\ UNCHANGED <<servers, exit_, spin, calls, robot>>

Create(k) ==
    /\ caller = "start"
    /\ servers = {Servers[i] : i \in 1..(k - 1)}
    /\ servers' = servers \cup {Servers[k]}
    /\ caller' = IF k = Len(Servers) THEN "idle" ELSE "start"
    /\ UNCHANGED <<exit_, spin, calls, robot>>

\* stop() may be called at any time; the destructor is the last one to do so.
Stop(by) == caller = "idle" /\ ~exit_ /\ caller' = by
            /\ UNCHANGED <<servers, exit_, spin, calls, robot>>

ResetServer(k) ==
    /\ caller \in {"stop", "destroy"}
    /\ \A i \in 1..(k - 1) : Servers[i] \notin servers
    /\ Servers[k] \in servers
    /\ servers' = servers \ {Servers[k]}
    /\ UNCHANGED <<caller, exit_, spin, calls, robot>>

\* Mutant: the destructor does not tell the thread to leave.
Stopped_KeepsRunning ==
    /\ caller \in {"stop", "destroy"} /\ servers = {}
    /\ caller' = IF caller = "destroy" THEN "join" ELSE "idle"
    /\ UNCHANGED <<servers, exit_, spin, calls, robot>>

Stopped ==
    /\ caller \in {"stop", "destroy"} /\ servers = {}
    /\ IF caller = "destroy" THEN exit_' = TRUE /\ caller' = "join"
                             ELSE caller' = "idle" /\ UNCHANGED exit_
    /\ UNCHANGED <<servers, spin, calls, robot>>

Join ==
    /\ caller = "join" /\ spin = "exited"
    /\ spin' = "joined" /\ caller' = "destroyed"
    /\ UNCHANGED <<servers, exit_, calls, robot>>

LifeStep == Stopped \/ Join \/ \E k \in DOMAIN Servers : Create(k) \/ ResetServer(k)

-----------------------------------------------------------------------------
(* The spin thread.  A request that has been taken is served to its end,   *)
(* whatever becomes of its server.                                         *)

SpinExit ==
    /\ spin = "running" /\ exit_ /\ request = None
    /\ spin' = "exited"
    /\ UNCHANGED <<caller, servers, exit_, calls, robot>>

Blank == [success |-> FALSE, is_on |-> <<>>, error_code |-> 0, error_msg |-> 0]

Take(r) ==
    /\ spin = "running" /\ request = None /\ r.srv \in servers
    /\ request' = r /\ at' = "call" /\ resp' = Blank
    /\ UNCHANGED <<life, robot>>

Reply(answer)  == resp' = answer /\ request' = None /\ at' = "done" /\ UNCHANGED life
Go(next, part) == resp' = part /\ at' = next /\ UNCHANGED <<request, life>>

-----------------------------------------------------------------------------
(* Signals.                                                                *)

\* The controller's image of them: byte and bit of a bank that begins after base.
Bit(base, byte, bit) == base + 8 * byte + bit + 1 \in signals

Bases == {0, 1000, 2000}

\* The base of the bank a number belongs to, if any.
Base(n) == {b \in Bases : b + 1 <= n /\ n <= b + MaxSig}

\* Mutant: the bit of the number, not of the number before it.
IsOn_Shifted(n) == LET b == CHOOSE base \in Base(n) : TRUE
                   IN  Bit(b, (n - b - 1) \div 8, (n - b) % 8)

IsOn(n) == LET b == CHOOSE base \in Base(n) : TRUE
           IN  Bit(b, (n - b - 1) \div 8, (n - b - 1) % 8)

\* The answer stops at the first number that belongs to no bank.
get_signal ==
    /\ request.srv = "get_signal" /\ at = "call"
    /\ LET n == request.numbers
       IN  \/ Reply(Blank)
           \/ \E upTo \in 0..Len(n) :
                 /\ \A i \in 1..upTo : Base(n[i]) # {}
                 /\ upTo < Len(n) => Base(n[upTo + 1]) = {}
                 /\ Reply([Blank EXCEPT !.success = (upTo = Len(n)),
                                        !.is_on = [i \in 1..upTo |-> IsOn(n[i])]])
    /\ UNCHANGED robot

\* The value of an uint32 as an int.
Int32(u) == IF u < Word \div 2 THEN u ELSE u - Word

\* Mutant: the sign the other way round.
AsNumber_Swapped(n, on) == Int32(IF on THEN (Word - n) % Word ELSE n)

\* The signed number of the AS command: negated as an uint32, then converted.
AsNumber(n, on) == Int32(IF on THEN n ELSE (Word - n) % Word)

Abs(i) == IF i < 0 THEN -i ELSE i

\* SIGNAL turns signals on and off in the order of the command, here its first m.
Switched(command, m) ==
    LET last(s) == {i \in 1..m : Abs(command[i]) = s /\ \A j \in (i + 1)..m : Abs(command[j]) # s}
    IN  {s \in Signals : IF last(s) = {} THEN s \in signals ELSE \E i \in last(s) : command[i] > 0}

set_signal ==
    /\ request.srv = "set_signal" /\ at = "call"
    /\ IF Len(request.numbers) # Len(request.is_on)
       THEN Reply(Blank) /\ UNCHANGED signals
       ELSE LET command == [i \in DOMAIN request.numbers |->
                               AsNumber(request.numbers[i], request.is_on[i])]
                legal   == \A i \in DOMAIN command : Abs(command[i]) \in Signals \ Inputs
            IN  \/ /\ legal
                   /\ signals' = Switched(command, Len(command))
                   /\ Reply([Blank EXCEPT !.success = TRUE])
                \* An error of the controller, or a lost answer: part may have been done.
                \/ /\ \E m \in 0..Len(command) : signals' = Switched(command, m)
                   /\ \E e \in ErrorCodes \cup {0} :
                         Go("describe", [Blank EXCEPT !.error_code = e])
    /\ UNCHANGED lamps

\* "TYPE $ERROR(<error_code>)" fills the message, unless it fails.  An error code is a
\* failure, but not for exec_khi_command.
describe ==
    /\ at = "describe"
    /\ \E e \in {Unwritten, resp.error_code} :
          Reply([resp EXCEPT !.error_msg = e,
                             !.success = @ /\ request.srv # "set_ati_software_bias"])
    /\ UNCHANGED robot

-----------------------------------------------------------------------------
(* The other services.                                                     *)

\* exec_khi_command and set_ati_software_bias: one call, whose result decides on success,
\* then the message of an error of the controller.
exec_khi_command ==
    /\ request.srv \in {"exec_khi_command", "set_ati_software_bias"} /\ at = "call"
    /\ \/ \E ok \in BOOLEAN : Reply([Blank EXCEPT !.success = ok])
       \/ \E ok \in BOOLEAN, e \in ErrorCodes :
             Go("describe", [Blank EXCEPT !.success = ok, !.error_code = e])
    /\ UNCHANGED robot

set_timeout ==
    /\ request.srv = "set_timeout" /\ at = "call"
    /\ \E ok \in BOOLEAN : Reply([Blank EXCEPT !.success = ok])
    /\ UNCHANGED robot

change_ft_output_mode ==
    /\ request.srv = "change_ft_output_mode" /\ at = "call"
    /\ Reply(Blank)
    /\ UNCHANGED robot

\* Mutant: success is set before the lamp has been looked at.
Ereset_Early ==
    /\ request.srv = "reset_error" /\ at = "call"
    /\ \/ Reply(Blank) /\ UNCHANGED lamps
       \/ Go("lamp", [resp EXCEPT !.success = TRUE]) /\ lamps' \in {lamps, lamps \ {1}}
    /\ UNCHANGED signals

\* reset_error: reset, wait, look at the lamp, then at the list of errors.
Ereset ==
    /\ request.srv = "reset_error" /\ at = "call"
    /\ \/ Reply(Blank) /\ UNCHANGED lamps
       \/ Go("lamp", resp) /\ lamps' \in {lamps, lamps \ {1}}
    /\ UNCHANGED signals

GetCurErrorLamp ==
    /\ at = "lamp"
    /\ \/ Reply(resp)
       \/ 1 \notin lamps /\ Reply([resp EXCEPT !.success = TRUE])
       \/ 1 \in lamps /\ Go("list", resp)
    /\ UNCHANGED robot

GetCurErrorList ==
    /\ at = "list"
    /\ Reply(resp)
    /\ UNCHANGED robot

Serve == \/ get_signal \/ set_signal \/ describe \/ exec_khi_command \/ set_timeout
         \/ change_ft_output_mode \/ Ereset \/ GetCurErrorLamp \/ GetCurErrorList

\* Programs of the controller switch signals, and errors occur.
Environment ==
    /\ \/ \E s \in Signals : signals' \in {signals \cup {s}, signals \ {s}} /\ UNCHANGED lamps
       \/ \E a \in Arms : lamps' = lamps \cup {a} /\ UNCHANGED signals
    /\ UNCHANGED <<life, calls>>

-----------------------------------------------------------------------------
Init ==
    /\ caller = "idle" /\ servers = {} /\ exit_ = FALSE /\ spin = "running"
    /\ request = None /\ at = "done" /\ resp = Blank
    /\ signals = {} /\ lamps = {}

Next == \/ Start \/ Stop("stop") \/ Stop("destroy") \/ LifeStep
        \/ SpinExit \/ (\E r \in Requests : Take(r)) \/ Serve
        \/ Environment

Spec == Init /\ [][Next]_vars

\* Both threads are scheduled; KRNX ends every call by its own timeout.
LiveSpec == Spec /\ WF_vars(LifeStep) /\ WF_vars(SpinExit) /\ WF_vars(Serve)

-----------------------------------------------------------------------------
(* Properties.                                                             *)

Responses == [success : BOOLEAN, is_on : Seq(BOOLEAN), error_code : ErrorCodes \cup {0},
              error_msg : ErrorCodes \cup {0, Unwritten}]

TypeOK ==
    /\ caller \in {"idle", "start", "stop", "destroy", "join", "destroyed"}
    /\ servers \subseteq Names /\ exit_ \in BOOLEAN
    /\ spin \in {"running", "exited", "joined"}
    /\ request \in Requests \cup {None} /\ at \in {"call", "describe", "lamp", "list", "done"}
    /\ resp \in Responses
    /\ signals \subseteq Signals /\ lamps \subseteq Arms

\* This step replies to a request of the service.
Answers(name) == request.srv = name /\ request' = None

\* The bits answered are those of the signals asked for.
AllSignalsRead ==
    /\ Len(resp'.is_on) = Len(request.numbers)
    /\ \A i \in DOMAIN request.numbers :
          /\ Base(request.numbers[i]) # {}
          /\ resp'.is_on[i] = (request.numbers[i] \in signals)

\* get_signal reports success for numbers of its three ranges only, and then each
\* signal as the controller has it, at the bounds of bytes and ranges too.
GetSignalRight ==
    [][Answers("get_signal") /\ resp'.success => AllSignalsRead]_vars

\* A signal is as the last request for it says, or as it was.
AsRequested ==
    \A s \in Signals :
       LET at_s == {i \in DOMAIN request.numbers : request.numbers[i] = s}
       IN  IF at_s = {} THEN s \in signals' <=> s \in signals
           ELSE \E i \in at_s : /\ \A j \in at_s : j <= i
                                /\ s \in signals' <=> request.is_on[i]

\* The uint32 is also an int: every signal number is.
Small(numbers) == \A i \in DOMAIN numbers : numbers[i] < Word \div 2

\* set_signal reports success only when the requested signals, the last request for
\* each, are set, and no other signal has been touched.  Not so for a number that is
\* negative as an int: it becomes that of another signal, to be switched the other way.
SetSignalRight ==
    [][Answers("set_signal") /\ resp'.success /\ Small(request.numbers) => AsRequested]_vars

-----------------------------------------------------------------------------
(* The inductive invariant.                                                *)

\* A callback stands where its service can, and its response holds no success before the
\* calls that it depends on have been made.
Stages ==
    /\ request = None <=> at = "done"
    /\ at = "describe" => request.srv \in {"set_signal", "exec_khi_command", "set_ati_software_bias"}
    /\ at \in {"lamp", "list"} => request.srv = "reset_error"
    /\ at # "done" /\ resp.success => at = "describe" /\ request.srv # "set_signal"

\* The thread leaves when the destructor has told it to, between two requests, with all
\* servers gone; it is joined before the destructor returns.
Ends ==
    /\ exit_ <=> caller \in {"join", "destroyed"}
    /\ exit_ => servers = {}
    /\ spin # "running" => exit_ /\ request = None
    /\ spin = "joined" <=> caller = "destroyed"

IInv == TypeOK /\ Stages /\ Ends

-----------------------------------------------------------------------------
\* The destructor returns, also while a request is being served.
DestructorReturns == (caller = "destroy") ~> (caller = "destroyed")
=============================================================================
