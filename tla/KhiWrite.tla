------------------------------ MODULE KhiWrite ------------------------------
(***************************************************************************)
(* The streaming of position commands: KhiKrnxDriver::activate as far as   *)
(* it prepares the stream, KhiKrnxDriver::write, and the buffers of the    *)
(* robot controller that take the commands up.                             *)
(*                                                                         *)
(* An arm has one joint here: write() treats the joints of an arm alike.   *)
(* Positions are integers, and Epsilon is the difference up to which       *)
(* is_position_command_constant takes two of them to be the same.          *)
(***************************************************************************)
EXTENDS Integers

CONSTANTS
    NArms,     \* arms of the robot
    Prismatic, \* the arms whose joint is prismatic: controllers count it in mm
    Positions, \* positions that commands and robots can take (rad or m)
    Epsilon,   \* __FLT_EPSILON__
    M2MM,      \* mm in a m
    ThreshCnt, \* thresh_cnt: writes after which a command counts as constant
    BufSize,   \* KRNX_BUFFER_SIZE: entries a buffer keeps while the robot rests
    BufCap,    \* entries a controller buffer can hold (bound)
    IntMax,    \* the largest int
    Overflow,  \* TRUE: cmd_constant_cnt_ is followed up to its overflow
    SeqMod     \* numbers of an unsigned short

VARIABLES
    active,            \* commands are let through: between activate and deactivate
    pc,                \* where write() stands: "idle", "prime" or "send"
    outcome,           \* what the last write() did: "none", "sent", "skipped", "failed",
                       \* or "unread" while it sends for want of a buffer's length
    command,           \* per arm, command_positions
    old_command,       \* per arm, old_command_positions
    home,              \* per arm, home_positions
    cmd_constant_cnt_, \* writes since the command last changed
    seq_no_,           \* number of the next transmission
    primed,            \* per arm, the compensation the controller holds ready
    target,            \* per arm, the last compensation handed to the arm
    buffer,            \* per arm, entries in the controller buffer
    lastSeq            \* number of the last transmission the controller took

arms   == <<command, old_command, home>>
count  == <<cmd_constant_cnt_, seq_no_>>
remote == <<primed, target, buffer, lastSeq>>
vars   == <<active, pc, outcome, arms, count, remote>>

Arms == 1..NArms

ASSUME NArmsAssumption     == NArms \in Nat \ {0}
ASSUME PrismaticAssumption == Prismatic \subseteq Arms
ASSUME PositionsAssumption == Positions \subseteq Int /\ 0 \in Positions
ASSUME LimitsAssumption    == /\ Epsilon \in Nat /\ M2MM \in Nat \ {0} /\ ThreshCnt \in Nat
                              /\ BufSize \in Nat /\ BufCap \in Nat \ {0}
                              /\ IntMax \in Nat \ {0} /\ Overflow \in BOOLEAN
                              /\ SeqMod \in Nat \ {0}

-----------------------------------------------------------------------------
\* A position in the unit of the controller.
Native(a, p) == IF a \in Prismatic THEN p * M2MM ELSE p

Near(p, q) == p - q <= Epsilon /\ q - p <= Epsilon

\* The counter of constant commands grows for as long as the robot rests.  Up to
\* its overflow all values beyond ThreshCnt mean the same: IntMax stands for them.
Increment(n) ==
    IF n < IntMax THEN n + 1 ELSE IF Overflow THEN -IntMax - 1 ELSE IntMax

\* The int seq_no_ is passed as an unsigned short, whose range divides that of an
\* int: its value modulo SeqMod is all the controller ever sees.
NextSeq(n) == IF n = SeqMod - 1 THEN 0 ELSE n + 1

-----------------------------------------------------------------------------
\* Mutant: the old commands of the last activation stay.
Activate_KeepsOld ==
    /\ ~active
    /\ \E at \in [Arms -> Positions] :
          home' = at /\ command' = at
    /\ active' = TRUE
    /\ outcome' = "none"
    /\ target' = [a \in Arms |-> 0]
    /\ buffer' = [a \in Arms |-> 0]
    /\ UNCHANGED <<pc, old_command, count, primed, lastSeq>>

\* krnx_OldCompClear, reset_home_position, the commands set to where the robot
\* is, and rb_rtc started with empty buffers.  The position read is in the unit of
\* the controller, home_positions of a prismatic joint in m.
Activate ==
    /\ ~active
    /\ \E at \in [Arms -> Positions] :
          home' = at /\ command' = at /\ old_command' = at
    /\ active' = TRUE
    /\ outcome' = "none"
    /\ target' = [a \in Arms |-> 0]
    /\ buffer' = [a \in Arms |-> 0]
    /\ UNCHANGED <<pc, count, primed, lastSeq>>

\* An activation that fails has served some arms: while it clears the compensations, ...
ClearFails ==
    /\ \E n \in Arms : target' = [a \in Arms |-> IF a < n THEN 0 ELSE target[a]]
    /\ UNCHANGED <<command, old_command, home, buffer>>

\* ... in reset_home_position, ...
HomeFails ==
    /\ target' = [a \in Arms |-> 0]
    /\ \E n \in Arms : \E at \in [1..(n - 1) -> Positions] :
          home' = [a \in Arms |-> IF a < n THEN at[a] ELSE home[a]]
    /\ UNCHANGED <<command, old_command, buffer>>

\* ... or when a speed cannot be set, or rb_rtc not be started, or does not become
\* active, for one of them.
StartFails ==
    /\ target' = [a \in Arms |-> 0]
    /\ \E at \in [Arms -> Positions] : home' = at /\ command' = at /\ old_command' = at
    /\ \E n \in 0..NArms : buffer' = [a \in Arms |-> IF a <= n THEN 0 ELSE buffer[a]]

ActivateFails ==
    /\ ~active
    /\ ClearFails \/ HomeFails \/ StartFails
    /\ UNCHANGED <<active, pc, outcome, count, primed, lastSeq>>

\* write_enabled_ is cleared: by request, or because write() asked for it.
Deactivate ==
    /\ active /\ pc = "idle"
    /\ active' = FALSE
    /\ UNCHANGED <<pc, outcome, arms, count, remote>>

\* The controllers of ros2_control write a command through the command interface,
\* in the thread of the update loop.  What they write while commands are not let
\* through is overwritten by the next activation before anything reads it.
SetCommand(a) ==
    /\ active /\ pc = "idle" /\ outcome # "failed"
    /\ \E p \in Positions : command' = [command EXCEPT ![a] = p]
    /\ outcome' = "none"
    /\ UNCHANGED <<active, pc, old_command, home, count, remote>>

-----------------------------------------------------------------------------
(* write().                                                                *)

\* home_positions is in the unit of command_positions, here as in the code.  write()
\* computes comp anew before it uses it, and nothing changes command or home meanwhile.
Compensation(a) ==
    IF a \in Prismatic THEN command[a] * M2MM - home[a] ELSE command[a] - home[a]

is_constant == \A a \in Arms : Near(command[a], old_command[a])

Counted == IF is_constant THEN Increment(cmd_constant_cnt_) ELSE 0

\* Mutant: one entry more is left.
should_decrease_buffer_OneMore == \A a \in Arms : buffer[a] > BufSize

should_decrease_buffer == \A a \in Arms : buffer[a] >= BufSize

\* Mutant: a skipped command becomes the old one.
WriteBegin_OldOnSkip ==
    /\ active /\ pc = "idle" /\ outcome # "failed"
    /\ cmd_constant_cnt_' = Counted
    /\ IF Counted > ThreshCnt /\ should_decrease_buffer
       THEN \/ outcome' = "skipped" /\ pc' = "idle" /\ old_command' = command
            \/ outcome' = "unread" /\ pc' = "prime" /\ UNCHANGED old_command
       ELSE outcome' = "none" /\ pc' = "prime" /\ UNCHANGED old_command
    /\ UNCHANGED <<active, command, home, seq_no_, remote>>

\* The lengths of the buffers and the decision to skip.  A length that cannot be
\* read is negative, hence too small to skip.
WriteBegin ==
    /\ active /\ pc = "idle" /\ outcome # "failed"
    /\ cmd_constant_cnt_' = Counted
    /\ IF Counted > ThreshCnt /\ should_decrease_buffer
       THEN \/ outcome' = "skipped" /\ pc' = "idle"
            \/ outcome' = "unread" /\ pc' = "prime"
       ELSE outcome' = "none" /\ pc' = "prime"
    /\ UNCHANGED <<active, command, old_command, home, seq_no_, remote>>

\* Mutant: one arm that was primed is enough.
Prime_Any ==
    /\ pc = "prime"
    /\ \E ok \in SUBSET Arms :
          /\ primed' = [a \in Arms |-> IF a \in ok THEN Compensation(a) ELSE primed[a]]
          /\ IF ok # {}
             THEN pc' = "send" /\ UNCHANGED outcome
             ELSE pc' = "idle" /\ outcome' = "failed"
    /\ UNCHANGED <<active, arms, count, target, buffer, lastSeq>>

\* All arms are primed even after one failed; then nothing is sent.
Prime ==
    /\ pc = "prime"
    /\ \E ok \in SUBSET Arms :
          /\ primed' = [a \in Arms |-> IF a \in ok THEN Compensation(a) ELSE primed[a]]
          /\ IF ok = Arms
             THEN pc' = "send" /\ UNCHANGED outcome
             ELSE pc' = "idle" /\ outcome' = "failed"
    /\ UNCHANGED <<active, arms, count, target, buffer, lastSeq>>

\* The controller takes what it was primed with.
Taken ==
    /\ \A a \in Arms : buffer[a] < BufCap
    /\ target' = primed
    /\ buffer' = [a \in Arms |-> buffer[a] + 1]
    /\ lastSeq' = seq_no_

\* Mutant: a transmission that fails is counted.
Send_CountsFailures ==
    /\ pc = "send"
    /\ pc' = "idle"
    /\ seq_no_' = NextSeq(seq_no_)
    /\ \/ Taken /\ outcome' = "sent" /\ old_command' = command
       \/ UNCHANGED <<target, buffer, lastSeq>> /\ outcome' = "failed" /\ UNCHANGED old_command
    /\ UNCHANGED <<active, command, home, cmd_constant_cnt_, primed>>

\* A transmission that fails may have reached the controller.
Send ==
    /\ pc = "send"
    /\ pc' = "idle"
    /\ \/ /\ Taken
          /\ outcome' = "sent"
          /\ seq_no_' = NextSeq(seq_no_)
          /\ old_command' = command
       \/ /\ Taken \/ UNCHANGED <<target, buffer, lastSeq>>
          /\ outcome' = "failed"
          /\ UNCHANGED <<seq_no_, old_command>>
    /\ UNCHANGED <<active, command, home, cmd_constant_cnt_, primed>>

\* A cycle of the controller: every arm takes one entry up.
Consume ==
    /\ \E a \in Arms : buffer[a] > 0
    /\ buffer' = [a \in Arms |-> IF buffer[a] > 0 THEN buffer[a] - 1 ELSE 0]
    /\ UNCHANGED <<active, pc, outcome, arms, count, primed, target, lastSeq>>

-----------------------------------------------------------------------------
Zero == [a \in Arms |-> 0]

Init ==
    /\ active = FALSE /\ pc = "idle" /\ outcome = "none"
    /\ command = Zero /\ old_command = Zero /\ home = Zero
    /\ cmd_constant_cnt_ = 0 /\ seq_no_ = 0
    /\ primed = Zero /\ target = Zero /\ buffer = Zero
    /\ lastSeq = SeqMod - 1

Next ==
    \/ Activate \/ ActivateFails \/ Deactivate
    \/ \E a \in Arms : SetCommand(a)
    \/ WriteBegin \/ Prime \/ Send
    \/ Consume

Spec == Init /\ [][Next]_vars

\* The update loop calls write() for ever, and the controller takes entries up.
LiveSpec == Spec /\ WF_vars(WriteBegin) /\ WF_vars(Prime \/ Send) /\ WF_vars(Consume)

-----------------------------------------------------------------------------
(* Properties.                                                             *)

TypeOK ==
    /\ active \in BOOLEAN
    /\ pc \in {"idle", "prime", "send"}
    /\ outcome \in {"none", "unread", "sent", "skipped", "failed"}
    /\ command \in [Arms -> Positions] /\ old_command \in [Arms -> Positions]
    /\ home \in [Arms -> Positions]
    /\ primed \in [Arms -> Int] /\ target \in [Arms -> Int]
    /\ cmd_constant_cnt_ \in (-IntMax - 1)..IntMax
    /\ seq_no_ \in 0..(SeqMod - 1) /\ lastSeq \in 0..(SeqMod - 1)
    /\ buffer \in [Arms -> 0..BufCap]

\* Where the arm is told to be: its home moved by the last compensation it took.
Told(a) == Native(a, home[a]) + target[a]

\* Whenever write() reports success, sent or skipped, the arms have been told to be
\* where the commands say, up to Epsilon: no skip loses a motion, however slowly
\* the command creeps and however many writes in a row are skipped.
CommandReached ==
    active /\ outcome \in {"sent", "skipped"} =>
        \A a \in Arms : Told(a) - Native(a, command[a]) <= Native(a, Epsilon)
                     /\ Native(a, command[a]) - Told(a) <= Native(a, Epsilon)

\* What is sent was primed for all arms by the same write(): no arm moves on data
\* that an earlier, failed write() left at the controller.
SentTogether == pc = "send" => \A a \in Arms : primed[a] = Compensation(a)

\* The controller sees consecutive numbers, across failures, activations and the
\* wrap of the unsigned short; only a transmission whose answer was lost repeats one.
SeqContinuous ==
    [][lastSeq' = NextSeq(lastSeq)]_lastSeq

\* The robot rests: its command stays within Epsilon of the last one sent, and the
\* lengths of its buffers can be read.
AtRest == active /\ outcome \notin {"failed", "unread"} /\ is_constant

\* Comment of write(): sending is skipped when the robot is stationary "to prevent
\* the buffer from overflowing".  A robot that comes to rest drains its buffers to
\* KRNX_BUFFER_SIZE entries, and they do not grow again.
RestDrains == <>[]AtRest => <>[](\A a \in Arms : buffer[a] <= BufSize)

-----------------------------------------------------------------------------
(* The inductive invariant of CommandReached and SentTogether.             *)

\* Until a transmission fails, the old command is what the arms were told.
OldIsTold ==
    active /\ outcome # "failed" => \A a \in Arms : Told(a) = Native(a, old_command[a])

\* A write() in progress runs while commands are let through, and has no result yet.
InWrite ==
    pc # "idle" => active /\ outcome \in {"none", "unread"}

\* A skip was decided on a constant command.
SkippedIsConstant ==
    active /\ outcome \in {"sent", "skipped"} => is_constant

\* The next number follows the last one taken, or repeats it after a lost answer.
SeqAgree == seq_no_ \in {lastSeq, NextSeq(lastSeq)}

IInv == TypeOK /\ OldIsTold /\ InWrite /\ SentTogether /\ SkippedIsConstant /\ SeqAgree
=============================================================================
