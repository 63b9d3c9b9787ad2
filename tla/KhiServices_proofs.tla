------------------------- MODULE KhiServices_proofs -------------------------
(***************************************************************************)
(* Proofs about KhiServices, for every set of requests, signals and error  *)
(* codes: where a callback can stand, how the spin thread ends, and that   *)
(* the replies of get_signal and set_signal are right.                     *)
(***************************************************************************)
EXTENDS KhiServices, TLAPS, SequenceTheorems, WellFoundedInduction

USE ArmsAssumption, RequestAssumption, SignalAssumption

-----------------------------------------------------------------------------
(* Numbers and sequences.                                                  *)

\* Byte and bit of a number in its bank are those of the signal with that number.
LEMMA IsOnRight == ASSUME NEW n \in Nat, Base(n) # {} PROVE IsOn(n) <=> n \in signals
<1> DEFINE b == CHOOSE base \in Base(n) : TRUE
<1>1. b \in Base(n)
  OBVIOUS
<1>2. b \in Bases /\ b \in Nat /\ b + 1 <= n
  BY <1>1 DEF Base, Bases
<1>3. IsOn(n) = Bit(b, (n - b - 1) \div 8, (n - b - 1) % 8)
  BY DEF IsOn
<1> HIDE DEF b
<1>4. b + 8 * ((n - b - 1) \div 8) + ((n - b - 1) % 8) + 1 = n
  BY <1>2
<1> QED BY <1>3, <1>4 DEF Bit

\* A number that is also an int goes into the command with the sign of the switch.
LEMMA NumberRight ==
    ASSUME NEW n \in 0..(Word - 1), NEW on \in BOOLEAN, n < Word \div 2
    PROVE  AsNumber(n, on) = IF on THEN n ELSE -n
<1>1. CASE on
  BY <1>1 DEF AsNumber, Int32
<1>2. CASE ~on /\ n = 0
  <2>1. (Word - n) % Word = 0
    BY <1>2
  <2> QED BY <1>2, <2>1 DEF AsNumber, Int32
<1>3. CASE ~on /\ n > 0
  <2>1. (Word - n) % Word = Word - n
    BY <1>3
  <2>2. ~(Word - n < Word \div 2)
    BY <1>3
  <2> QED BY <1>3, <2>1, <2>2 DEF AsNumber, Int32
<1> QED BY <1>1, <1>2, <1>3

\* Of the positions of a sequence there is a last one.
LEMMA LastOne ==
    ASSUME NEW len \in Nat, NEW S \in SUBSET (1..len), S # {}
    PROVE  \E i \in S : \A j \in S : j <= i
<1> DEFINE T == {len - i : i \in S}
           R == OpToRel(<, Nat)
<1>1. T \subseteq Nat /\ T # {}
  <2>1. PICK i \in S : TRUE
    OBVIOUS
  <2>2. len - i \in T
    OBVIOUS
  <2> QED BY <2>2
<1>2. IsWellFoundedOn(R, Nat)
  BY NatLessThanWellFounded
<1>3. PICK x \in T : \A y \in T : ~(<<y, x>> \in R)
  <2> HIDE DEF R, T
  <2> QED BY <1>1, <1>2, WFMin
<1>4. PICK i \in S : x = len - i
  OBVIOUS
<1>5. ASSUME NEW j \in S PROVE j <= i
  <2>1. len - j \in T /\ ~(<<len - j, x>> \in R)
    BY <1>3
  <2>2. ~(len - j < x)
    BY <2>1, <1>1, <1>3 DEF OpToRel
  <2> QED BY <1>4, <2>2
<1> QED BY <1>5

-----------------------------------------------------------------------------
(* What is asked, and what is answered.                                    *)

LEMMA NamesAre ==
    Names = {"get_signal", "set_signal", "exec_khi_command", "reset_error", "set_timeout",
             "set_ati_software_bias", "change_ft_output_mode"}
BY DEF Names, Servers

\* None is no request, nor is it one of a service.
LEMMA NoneIsNone == None \notin Requests /\ None.srv \notin Names /\ \A r \in Requests : r # None
BY NamesAre DEF None

LEMMA BlankType == Blank \in Responses /\ ~Blank.success
BY EmptySeq DEF Blank, Responses

\* The type invariant, for the parts of the state apart.
LifeOK  == /\ caller \in {"idle", "start", "stop", "destroy", "join", "destroyed"}
           /\ servers \subseteq Names /\ exit_ \in BOOLEAN
           /\ spin \in {"running", "exited", "joined"}
CallOK  == /\ request \in Requests \cup {None} /\ at \in {"call", "describe", "lamp", "list", "done"}
           /\ resp \in Responses
RobotOK == signals \subseteq Signals /\ lamps \subseteq Arms

LEMMA TypeParts == TypeOK <=> LifeOK /\ CallOK /\ RobotOK
BY DEF TypeOK, LifeOK, CallOK, RobotOK

\* A reply ends the call, whatever it says.
LEMMA ReplyKeeps ==
    ASSUME IInv, NEW answer \in Responses, Reply(answer), RobotOK'
    PROVE  IInv'
<1>1. request' = None /\ at' = "done" /\ resp' = answer
  BY DEF Reply
<1>2. caller' = caller /\ servers' = servers /\ exit_' = exit_ /\ spin' = spin
  BY DEF Reply, life
<1>3. LifeOK' /\ Ends'
  BY <1>1, <1>2 DEF IInv, TypeOK, LifeOK, Ends
<1>4. CallOK' /\ Stages'
  BY <1>1 DEF CallOK, Stages
<1> QED BY <1>3, <1>4 DEF IInv, TypeOK, LifeOK, CallOK, RobotOK

\* A callback goes on to its next call: with success in its response only when that does
\* not depend on it.
LEMMA GoKeeps ==
    ASSUME IInv, at # "done", NEW next \in {"describe", "lamp", "list"}, NEW part \in Responses,
           part.success => next = "describe" /\ request.srv # "set_signal", Go(next, part), RobotOK',
           next = "describe" => request.srv \in {"set_signal", "exec_khi_command", "set_ati_software_bias"},
           next \in {"lamp", "list"} => request.srv = "reset_error"
    PROVE  IInv'
<1>1. request' = request /\ at' = next /\ resp' = part
  BY DEF Go
<1>2. caller' = caller /\ servers' = servers /\ exit_' = exit_ /\ spin' = spin
  BY DEF Go, life
<1>3. LifeOK' /\ Ends'
  BY <1>1, <1>2 DEF IInv, TypeOK, LifeOK, Ends
<1>4. CallOK' /\ Stages'
  BY <1>1 DEF IInv, TypeOK, CallOK, Stages
<1> QED BY <1>3, <1>4 DEF IInv, TypeOK, LifeOK, CallOK, RobotOK

-----------------------------------------------------------------------------
(* The callbacks.                                                          *)

\* What get_signal answers is a response: one bit for each number it got to.
LEMMA SignalReply ==
    ASSUME NEW n \in Seq(Nat), NEW upTo \in 0..Len(n), NEW ok \in BOOLEAN
    PROVE  /\ [Blank EXCEPT !.success = ok, !.is_on = [i \in 1..upTo |-> IsOn(n[i])]] \in Responses
           /\ \A i \in 1..upTo : IsOn(n[i]) \in BOOLEAN
<1>1. ASSUME NEW k PROVE IsOn(k) \in BOOLEAN
  <2> DEFINE b == CHOOSE base \in Base(k) : TRUE
  <2>1. IsOn(k) = Bit(b, (k - b - 1) \div 8, (k - b - 1) % 8)
    BY DEF IsOn
  <2>2. \A x, y, z : Bit(x, y, z) \in BOOLEAN
    BY DEF Bit
  <2> QED BY <2>1, <2>2, Zenon
<1>2. [i \in 1..upTo |-> IsOn(n[i])] \in Seq(BOOLEAN)
  BY <1>1, IsASeq
<1> QED BY <1>1, <1>2, BlankType DEF Responses

LEMMA GetSignalKeeps == ASSUME IInv, get_signal PROVE IInv'
<1>1. request \in Requests /\ request.srv = "get_signal" /\ request.numbers \in Seq(Nat)
  <2>1. request \in Requests
    BY NoneIsNone, NamesAre DEF IInv, TypeOK, get_signal
  <2>2. request.numbers \in Seq(0..(Word - 1)) /\ 0..(Word - 1) \subseteq Nat
    <3>1. request.srv \in {"get_signal", "set_signal"}
      BY DEF get_signal
    <3>2. 0..(Word - 1) \subseteq Nat
      OBVIOUS
    <3> QED BY <2>1, <3>1, <3>2, Zenon
  <2>3. request.numbers \in Seq(Nat)
    BY <2>2, SeqMonotonic
  <2> QED BY <2>1, <2>3 DEF get_signal
<1>2. RobotOK'
  BY DEF get_signal, robot, IInv, TypeOK, RobotOK
<1>3. CASE Reply(Blank)
  BY <1>2, <1>3, BlankType, ReplyKeeps
<1>4. ASSUME NEW upTo \in 0..Len(request.numbers),
             Reply([Blank EXCEPT !.success = (upTo = Len(request.numbers)),
                                 !.is_on = [i \in 1..upTo |-> IsOn(request.numbers[i])]])
      PROVE  IInv'
  BY <1>1, <1>2, <1>4, SignalReply, ReplyKeeps
<1> QED BY <1>3, <1>4 DEF get_signal

\* The controller switches no signals but its own.
LEMMA SwitchedType == ASSUME NEW command, NEW m PROVE Switched(command, m) \subseteq Signals
BY DEF Switched

LEMMA SetSignalKeeps == ASSUME IInv, set_signal PROVE IInv'
<1>1. at # "done" /\ request.srv = "set_signal" /\ lamps' = lamps
  BY DEF set_signal
<1>2. signals' \subseteq Signals => RobotOK'
  BY <1>1 DEF IInv, TypeOK, RobotOK
<1>3. CASE Reply(Blank) /\ UNCHANGED signals
  BY <1>2, <1>3, BlankType, ReplyKeeps DEF IInv, TypeOK
<1>4. ASSUME NEW command, NEW m, signals' = Switched(command, m),
             Reply([Blank EXCEPT !.success = TRUE])
      PROVE  IInv'
  <2>1. [Blank EXCEPT !.success = TRUE] \in Responses
    BY BlankType DEF Responses
  <2> QED BY <1>2, <1>4, <2>1, SwitchedType, ReplyKeeps
<1>5. ASSUME NEW command, NEW m, signals' = Switched(command, m),
             NEW e \in ErrorCodes \cup {0}, Go("describe", [Blank EXCEPT !.error_code = e])
      PROVE  IInv'
  <2>1. [Blank EXCEPT !.error_code = e] \in Responses /\ ~[Blank EXCEPT !.error_code = e].success
    BY BlankType DEF Responses
  <2> QED BY <1>1, <1>2, <1>5, <2>1, SwitchedType, GoKeeps
<1> QED BY <1>3, <1>4, <1>5, Zenon DEF set_signal

\* The calls of the other callbacks.
LEMMA OthersKeep ==
    ASSUME IInv, \/ describe \/ exec_khi_command \/ set_timeout \/ change_ft_output_mode
                 \/ Ereset \/ GetCurErrorLamp \/ GetCurErrorList
    PROVE  IInv'
<1>1. resp \in Responses /\ RobotOK
  BY DEF IInv, TypeOK, RobotOK
<1>2. \A ok \in BOOLEAN : [Blank EXCEPT !.success = ok] \in Responses
  BY BlankType DEF Responses
<1>3. CASE describe
  <2> DEFINE ok == resp.success /\ request.srv # "set_ati_software_bias"
  <2>1. PICK e \in {Unwritten, resp.error_code} : Reply([resp EXCEPT !.error_msg = e, !.success = ok])
    BY <1>3 DEF describe
  <2>2. [resp EXCEPT !.error_msg = e, !.success = ok] \in Responses
    <3>1. ok \in BOOLEAN
      OBVIOUS
    <3> HIDE DEF ok
    <3> QED BY <1>1, <3>1 DEF Responses
  <2>3. RobotOK'
    BY <1>1, <1>3 DEF describe, robot, RobotOK
  <2> QED BY <2>1, <2>2, <2>3, ReplyKeeps
<1>4. CASE exec_khi_command
  <2>1. RobotOK' /\ at # "done"
    BY <1>1, <1>4 DEF exec_khi_command, robot, RobotOK
  <2>2. ASSUME NEW ok \in BOOLEAN, Reply([Blank EXCEPT !.success = ok]) PROVE IInv'
    BY <1>2, <2>1, <2>2, ReplyKeeps
  <2>3. ASSUME NEW ok \in BOOLEAN, NEW e \in ErrorCodes,
               Go("describe", [Blank EXCEPT !.success = ok, !.error_code = e])
        PROVE  IInv'
    <3>1. [Blank EXCEPT !.success = ok, !.error_code = e] \in Responses
      BY BlankType DEF Responses
    <3>2. request.srv \in {"exec_khi_command", "set_ati_software_bias"}
      BY <1>4 DEF exec_khi_command
    <3> QED BY <2>1, <2>3, <3>1, <3>2, GoKeeps
  <2> QED BY <1>4, <2>2, <2>3 DEF exec_khi_command
<1>5. CASE set_timeout
  <2>1. RobotOK'
    BY <1>1, <1>5 DEF set_timeout, robot, RobotOK
  <2>2. PICK ok \in BOOLEAN : Reply([Blank EXCEPT !.success = ok])
    BY <1>5 DEF set_timeout
  <2> QED BY <1>2, <2>1, <2>2, ReplyKeeps
<1>6. CASE change_ft_output_mode
  <2>1. RobotOK' /\ Reply(Blank)
    BY <1>1, <1>6 DEF change_ft_output_mode, robot, RobotOK
  <2> QED BY <2>1, BlankType, ReplyKeeps
<1>7. CASE Ereset
  <2>1. RobotOK'
    BY <1>1, <1>7 DEF Ereset, RobotOK
  <2>2. CASE Reply(Blank)
    BY <2>1, <2>2, BlankType, ReplyKeeps
  <2>3. CASE Go("lamp", resp)
    <3>1. at # "done" /\ request.srv = "reset_error" /\ ~resp.success
      BY <1>7 DEF Ereset, IInv, Stages
    <3> QED BY <1>1, <2>1, <2>3, <3>1, GoKeeps
  <2> QED BY <1>7, <2>2, <2>3 DEF Ereset
<1>8. CASE GetCurErrorLamp
  <2>1. RobotOK'
    BY <1>1, <1>8 DEF GetCurErrorLamp, robot, RobotOK
  <2>2. CASE Reply(resp)
    BY <1>1, <2>1, <2>2, ReplyKeeps
  <2>3. CASE Reply([resp EXCEPT !.success = TRUE])
    <3>1. [resp EXCEPT !.success = TRUE] \in Responses
      BY <1>1 DEF Responses
    <3> QED BY <2>1, <2>3, <3>1, ReplyKeeps
  <2>4. CASE Go("list", resp)
    <3>1. at # "done" /\ request.srv = "reset_error" /\ ~resp.success
      BY <1>8 DEF GetCurErrorLamp, IInv, Stages
    <3> QED BY <1>1, <2>1, <2>4, <3>1, GoKeeps
  <2> QED BY <1>8, <2>2, <2>3, <2>4 DEF GetCurErrorLamp
<1>9. CASE GetCurErrorList
  <2>1. RobotOK' /\ Reply(resp)
    BY <1>1, <1>9 DEF GetCurErrorList, robot, RobotOK
  <2> QED BY <1>1, <2>1, ReplyKeeps
<1> QED BY <1>3, <1>4, <1>5, <1>6, <1>7, <1>8, <1>9

-----------------------------------------------------------------------------
(* The servers and the threads.                                            *)

LEMMA LifeKeeps ==
    ASSUME IInv, \/ Start \/ Stop("stop") \/ Stop("destroy") \/ LifeStep \/ SpinExit
                 \/ (\E r \in Requests : Take(r)) \/ Environment \/ UNCHANGED vars
    PROVE  IInv'
<1>1. LifeOK /\ CallOK /\ RobotOK /\ Stages /\ Ends
  BY DEF IInv, TypeOK, LifeOK, CallOK, RobotOK
<1>2. ASSUME LifeOK', CallOK', RobotOK', Stages', Ends' PROVE IInv'
  BY <1>2 DEF IInv, TypeOK, LifeOK, CallOK, RobotOK
<1>3. UNCHANGED calls => CallOK' /\ Stages'
  BY <1>1 DEF calls, CallOK, Stages
<1>4. UNCHANGED robot => RobotOK'
  BY <1>1 DEF robot, RobotOK
<1>5. CASE Start \/ Stop("stop") \/ Stop("destroy")
  <2>1. UNCHANGED <<servers, exit_, spin, calls, robot>> /\ caller = "idle" /\ ~exit_
        /\ caller' \in {"start", "stop", "destroy"}
    BY <1>5 DEF Start, Stop
  <2>2. LifeOK' /\ Ends'
    BY <1>1, <2>1 DEF LifeOK, Ends, calls
  <2> QED BY <1>2, <1>3, <1>4, <2>1, <2>2
<1>6. CASE LifeStep
  <2>1. UNCHANGED calls /\ UNCHANGED robot
    BY <1>6 DEF LifeStep, Stopped, Join, Create, ResetServer
  <2>2. request' = request
    BY <2>1 DEF calls
  <2>3. CASE Stopped
    BY <1>1, <1>2, <1>3, <1>4, <2>1, <2>2, <2>3 DEF Stopped, LifeOK, Ends
  <2>4. CASE Join
    BY <1>1, <1>2, <1>3, <1>4, <2>1, <2>2, <2>4 DEF Join, LifeOK, Ends
  <2>5. ASSUME NEW k \in DOMAIN Servers, Create(k) PROVE IInv'
    <3>1. Servers[k] \in Names
      BY DEF Names
    <3>2. LifeOK' /\ Ends'
      BY <1>1, <2>2, <2>5, <3>1 DEF Create, LifeOK, Ends
    <3> QED BY <1>2, <1>3, <1>4, <2>1, <3>2
  <2>6. ASSUME NEW k \in DOMAIN Servers, ResetServer(k) PROVE IInv'
    <3>1. LifeOK' /\ Ends'
      BY <1>1, <2>2, <2>6 DEF ResetServer, LifeOK, Ends
    <3> QED BY <1>2, <1>3, <1>4, <2>1, <3>1
  <2> QED BY <1>6, <2>3, <2>4, <2>5, <2>6 DEF LifeStep
<1>7. CASE SpinExit
  <2>1. UNCHANGED calls /\ UNCHANGED robot
    BY <1>7 DEF SpinExit
  <2>2. LifeOK' /\ Ends'
    BY <1>1, <1>7, <2>1 DEF SpinExit, LifeOK, Ends, calls
  <2> QED BY <1>2, <1>3, <1>4, <2>1, <2>2
<1>8. CASE \E r \in Requests : Take(r)
  <2>1. PICK r \in Requests : Take(r)
    BY <1>8
  <2>2. request' = r /\ at' = "call" /\ resp' = Blank /\ UNCHANGED robot
    BY <2>1 DEF Take
  <2>3. LifeOK' /\ Ends'
    BY <1>1, <2>1 DEF Take, life, LifeOK, Ends
  <2>4. CallOK' /\ Stages'
    BY <2>2, NoneIsNone, BlankType DEF CallOK, Stages
  <2> QED BY <1>2, <1>4, <2>2, <2>3, <2>4
<1>9. CASE Environment
  <2>1. UNCHANGED life /\ UNCHANGED calls
    BY <1>9 DEF Environment
  <2>2. LifeOK' /\ Ends'
    BY <1>1, <2>1 DEF life, calls, LifeOK, Ends
  <2>3. RobotOK'
    BY <1>1, <1>9 DEF Environment, RobotOK
  <2> QED BY <1>2, <1>3, <2>1, <2>2, <2>3
<1>10. CASE UNCHANGED vars
  <2>1. UNCHANGED life /\ UNCHANGED calls /\ UNCHANGED robot
    BY <1>10 DEF vars
  <2>2. LifeOK' /\ Ends'
    BY <1>1, <2>1 DEF life, calls, LifeOK, Ends
  <2> QED BY <1>2, <1>3, <1>4, <2>1, <2>2
<1> QED BY <1>5, <1>6, <1>7, <1>8, <1>9, <1>10

LEMMA InitIInv == Init => IInv
BY BlankType, NoneIsNone DEF Init, IInv, TypeOK, Stages, Ends

LEMMA NextIInv == IInv /\ [Next]_vars => IInv'
<1> SUFFICES ASSUME IInv, [Next]_vars PROVE IInv'
  OBVIOUS
<1> QED BY GetSignalKeeps, SetSignalKeeps, OthersKeep, LifeKeeps DEF Next, Serve

\* Callbacks stand where they can; the spin thread leaves between two requests, when the
\* servers are gone, and is joined before the destructor returns.
THEOREM Invariance == Spec => []IInv
<1> QED BY InitIInv, NextIInv, PTL DEF Spec

-----------------------------------------------------------------------------
(* The replies.                                                            *)

\* Only its own callback answers a request about signals with success.
LEMMA OnlyItself ==
    ASSUME IInv, [Next]_vars, request.srv \in {"get_signal", "set_signal"}, request' = None,
           resp'.success
    PROVE  \/ request.srv = "get_signal" /\ get_signal
           \/ request.srv = "set_signal" /\ set_signal
<1>1. /\ request # None /\ at # "done" /\ at \notin {"lamp", "list"}
      /\ at = "describe" => ~resp.success
  BY NoneIsNone, NamesAre DEF IInv, Stages
<1>2. ~UNCHANGED calls
  BY <1>1 DEF calls
<1>3. ~(Start \/ Stop("stop") \/ Stop("destroy") \/ LifeStep \/ SpinExit \/ Environment \/ UNCHANGED vars)
  BY <1>2 DEF Start, Stop, LifeStep, Stopped, Join, Create, ResetServer, SpinExit, Environment, vars
<1>4. ~(\E r \in Requests : Take(r))
  BY <1>1 DEF Take
<1>5. ~(exec_khi_command \/ set_timeout \/ change_ft_output_mode \/ Ereset)
  BY DEF exec_khi_command, set_timeout, change_ft_output_mode, Ereset
<1>6. ~(GetCurErrorLamp \/ GetCurErrorList)
  BY <1>1 DEF GetCurErrorLamp, GetCurErrorList
<1>7. ~describe
  <2> SUFFICES ASSUME describe PROVE FALSE
    OBVIOUS
  <2>1. PICK e \in {Unwritten, resp.error_code} :
          resp' = [resp EXCEPT !.error_msg = e, !.success = resp.success /\ request.srv # "set_ati_software_bias"]
    BY DEF describe, Reply
  <2>2. ~resp'.success
    BY <1>1, <2>1 DEF describe, IInv, TypeOK, Responses
  <2> QED BY <2>2
<1>8. get_signal \/ set_signal
  BY <1>3, <1>4, <1>5, <1>6, <1>7 DEF Next, Serve
<1> QED BY <1>8 DEF get_signal, set_signal

\* get_signal reports success only when every number belongs to a bank, and then each
\* bit is the signal's: byte and bit of a number are taken right, at all their bounds.
THEOREM SignalsRead == Spec => GetSignalRight
<1>1. ASSUME IInv, [Next]_vars, Answers("get_signal"), resp'.success
      PROVE  AllSignalsRead
  <2> DEFINE n == request.numbers
  <2>1. get_signal /\ request.srv = "get_signal"
    BY <1>1, OnlyItself DEF Answers
  <2>2. n \in Seq(Nat) /\ Len(n) \in Nat /\ DOMAIN n = 1..Len(n)
    <3>1. request \in Requests /\ request.srv \in {"get_signal", "set_signal"}
      BY <1>1, <2>1, NoneIsNone, NamesAre DEF IInv, TypeOK
    <3>2. 0..(Word - 1) \subseteq Nat
      OBVIOUS
    <3>3. n \in Seq(Nat)
      BY <3>1, <3>2, SeqMonotonic
    <3> QED BY <3>3, LenProperties
  <2>3. resp' # Blank
    BY <1>1, BlankType
  <2>4. PICK upTo \in 0..Len(n) :
          /\ \A i \in 1..upTo : Base(n[i]) # {}
          /\ resp' = [Blank EXCEPT !.success = (upTo = Len(n)), !.is_on = [i \in 1..upTo |-> IsOn(n[i])]]
    BY <2>1, <2>3 DEF get_signal, Reply
  <2> HIDE DEF n
  <2>5. resp'.success = (upTo = Len(n)) /\ resp'.is_on = [i \in 1..upTo |-> IsOn(n[i])]
    BY <2>4 DEF Blank
  <2>6. upTo = Len(n)
    BY <1>1, <2>5
  <2>7. Len(resp'.is_on) = Len(n)
    BY <2>2, <2>5, <2>6
  <2>8. ASSUME NEW i \in DOMAIN n
        PROVE  Base(n[i]) # {} /\ resp'.is_on[i] = (n[i] \in signals)
    <3>1. i \in 1..upTo /\ n[i] \in Nat
      BY <2>2, <2>6, ElementOfSeq
    <3>2. Base(n[i]) # {} /\ resp'.is_on[i] = IsOn(n[i])
      BY <2>4, <2>5, <3>1
    <3>3. IsOn(n[i]) <=> n[i] \in signals
      BY <3>1, <3>2, IsOnRight
    <3>4. IsOn(n[i]) \in BOOLEAN /\ (n[i] \in signals) \in BOOLEAN
      <4>1. IsOn(n[i]) \in BOOLEAN
        BY <2>2, <2>6, <3>1, SignalReply
      <4>2. (n[i] \in signals) \in BOOLEAN
        OBVIOUS
      <4> QED BY <4>1, <4>2
    <3> QED BY <3>2, <3>3, <3>4, Zenon
  <2> QED BY <2>7, <2>8 DEF AllSignalsRead, n
<1>2. IInv /\ [Next]_vars => [Answers("get_signal") /\ resp'.success => AllSignalsRead]_vars
  BY <1>1
<1> QED BY <1>2, Invariance, PTL DEF Spec, GetSignalRight

\* The command of set_signal, and the positions of a signal in its request.
Command(n, on) == [i \in DOMAIN n |-> AsNumber(n[i], on[i])]
Asked(n, s)    == {i \in DOMAIN n : n[i] = s}

\* SIGNAL leaves each signal as the last number for it says.
LEMMA SwitchedRight ==
    ASSUME NEW n \in Seq(0..(Word - 1)), NEW on \in Seq(BOOLEAN), Len(n) = Len(on), Small(n),
           NEW s \in Signals
    PROVE  LET switched == Switched(Command(n, on), Len(Command(n, on)))
           IN  /\ Asked(n, s) = {} => (s \in switched <=> s \in signals)
               /\ Asked(n, s) # {} => \E i \in Asked(n, s) : /\ \A j \in Asked(n, s) : j <= i
                                                             /\ s \in switched <=> on[i]
<1> DEFINE command == Command(n, on)
           at_s    == Asked(n, s)
           last    == {i \in 1..Len(n) : n[i] = s /\ \A j \in (i + 1)..Len(n) : n[j] # s}
<1>0. command = [i \in DOMAIN n |-> AsNumber(n[i], on[i])] /\ at_s = {i \in DOMAIN n : n[i] = s}
  BY DEF Command, Asked
<1> HIDE DEF command, at_s
<1>1. /\ Len(n) \in Nat /\ DOMAIN n = 1..Len(n) /\ \A i \in 1..Len(n) : n[i] \in 0..(Word - 1)
      /\ \A i \in 1..Len(n) : on[i] \in BOOLEAN
      /\ s \in Nat /\ s > 0
  BY LenProperties, ElementOfSeq
<1>2. \A i \in 1..Len(n) : command[i] = IF on[i] THEN n[i] ELSE -n[i]
  BY <1>0, <1>1, NumberRight DEF Small
<1>3. Len(command) = Len(n)
  BY <1>0, <1>1
<1>4. \A i \in 1..Len(n) : Abs(command[i]) = n[i]
  BY <1>1, <1>2 DEF Abs
<1>5. s \in Switched(command, Len(command)) <=>
         IF last = {} THEN s \in signals ELSE \E i \in last : command[i] > 0
  <2>1. last = {i \in 1..Len(command) : Abs(command[i]) = s
                                        /\ \A j \in (i + 1)..Len(command) : Abs(command[j]) # s}
    <3>1. \A i \in 1..Len(n) : \A j \in (i + 1)..Len(n) : j \in 1..Len(n)
      BY <1>1
    <3>2. \A i \in 1..Len(n) : (\A j \in (i + 1)..Len(n) : n[j] # s) <=>
                              (\A j \in (i + 1)..Len(n) : Abs(command[j]) # s)
      BY <1>4, <3>1
    <3> QED BY <1>3, <1>4, <3>2
  <2> HIDE DEF last
  <2> QED BY <2>1, Zenon DEF Switched
<1>6. ASSUME at_s = {} PROVE s \in Switched(command, Len(command)) <=> s \in signals
  <2>1. last = {}
    BY <1>0, <1>1, <1>6
  <2> QED BY <1>5, <1>6, <2>1
<1>7. ASSUME at_s # {}
      PROVE  \E i \in at_s : /\ \A j \in at_s : j <= i
                             /\ s \in Switched(command, Len(command)) <=> on[i]
  <2>1. PICK i \in at_s : \A j \in at_s : j <= i
    <3>1. at_s \in SUBSET (1..Len(n))
      BY <1>0, <1>1
    <3> QED BY <1>1, <1>7, <3>1, LastOne
  <2>2. i \in 1..Len(n) /\ n[i] = s
    BY <1>0, <1>1
  <2>3. last = {i}
    <3>1. \A j \in 1..Len(n) : n[j] = s => j <= i
      BY <1>0, <1>1, <2>1
    <3>2. i \in last
      BY <1>1, <2>2, <3>1
    <3>3. ASSUME NEW k \in last PROVE k = i
      BY <1>1, <2>2, <3>1
    <3> QED BY <3>2, <3>3
  <2>4. command[i] > 0 <=> on[i]
    BY <1>1, <1>2, <2>2
  <2>5. s \in Switched(command, Len(command)) <=> on[i]
    BY <1>5, <2>3, <2>4
  <2> QED BY <1>7, <2>1, <2>5
<1> QED BY <1>6, <1>7 DEF command, at_s

\* set_signal reports success only when every signal is as the last request for it says,
\* and no other signal has been touched: for numbers that are also an int.
THEOREM SignalsSet == Spec => SetSignalRight
<1>1. ASSUME IInv, [Next]_vars, Answers("set_signal"), resp'.success, Small(request.numbers)
      PROVE  AsRequested
  <2> DEFINE n  == request.numbers
             on == request.is_on
  <2>1. set_signal /\ request.srv = "set_signal"
    BY <1>1, OnlyItself DEF Answers
  <2>2. request \in Requests
    BY <1>1, <2>1, NoneIsNone, NamesAre DEF IInv, TypeOK
  <2>3. n \in Seq(0..(Word - 1)) /\ on \in Seq(BOOLEAN)
    BY <2>1, <2>2
  <2>4. resp' # Blank /\ request' = None /\ request # None
    BY <1>1, <2>2, BlankType, NoneIsNone DEF Answers
  <2>5. Len(n) = Len(on) /\ signals' = Switched(Command(n, on), Len(Command(n, on)))
    BY <2>1, <2>4 DEF set_signal, Reply, Go, Command
  <2>6. ASSUME NEW s \in Signals
        PROVE  LET at_s == {i \in DOMAIN n : n[i] = s}
               IN  IF at_s = {} THEN s \in signals' <=> s \in signals
                   ELSE \E i \in at_s : /\ \A j \in at_s : j <= i
                                        /\ s \in signals' <=> on[i]
    <3> HIDE DEF n, on
    <3>1. Small(n)
      BY <1>1 DEF n
    <3>2. /\ Asked(n, s) = {} => (s \in signals' <=> s \in signals)
          /\ Asked(n, s) # {} => \E i \in Asked(n, s) : /\ \A j \in Asked(n, s) : j <= i
                                                        /\ s \in signals' <=> on[i]
      BY <2>3, <2>5, <3>1, SwitchedRight
    <3>3. IF Asked(n, s) = {} THEN s \in signals' <=> s \in signals
          ELSE \E i \in Asked(n, s) : /\ \A j \in Asked(n, s) : j <= i
                                      /\ s \in signals' <=> on[i]
      BY <3>2
    <3> QED BY <3>3 DEF Asked
  <2> QED BY <2>6 DEF AsRequested
<1>2. IInv /\ [Next]_vars =>
         [Answers("set_signal") /\ resp'.success /\ Small(request.numbers) => AsRequested]_vars
  BY <1>1
<1> QED BY <1>2, Invariance, PTL DEF Spec, SetSignalRight
=============================================================================
