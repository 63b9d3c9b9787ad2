-------------------------- MODULE KhiWrite_proofs --------------------------
(***************************************************************************)
(* Proofs about KhiWrite, for every number of arms, all positions, limits  *)
(* and widths.  All robots of the repository have revolute joints only:    *)
(* the theorems assume Prismatic = {}.                                     *)
(***************************************************************************)
EXTENDS KhiWrite, TLAPS

USE NArmsAssumption, PositionsAssumption, LimitsAssumption

\* The next number of an unsigned short is one (NextSeq, seq_no_).
LEMMA NextSeqType == \A n \in 0..(SeqMod - 1) : NextSeq(n) \in 0..(SeqMod - 1)
  BY DEF NextSeq

\* The counter of constant commands stays an int (cmd_constant_cnt_).
LEMMA CountedType ==
  ASSUME cmd_constant_cnt_ \in (-IntMax - 1)..IntMax
  PROVE  Counted \in (-IntMax - 1)..IntMax
  BY DEF Counted, Increment

\* Without prismatic joints the compensation is the difference of two positions.
LEMMA CompensationType ==
  ASSUME TypeOK, Prismatic = {}, NEW a \in Arms
  PROVE  Compensation(a) = command[a] - home[a] /\ Compensation(a) \in Int
<1>1. command[a] \in Int /\ home[a] \in Int
  BY DEF TypeOK
<1>2. Compensation(a) = command[a] - home[a]
  <2>1. a \notin Prismatic
    OBVIOUS
  <2> QED
    BY <2>1, Zenon DEF Compensation
<1> QED
  BY <1>1, <1>2

-----------------------------------------------------------------------------
\* The invariant holds when the driver has been initialised.
LEMMA InitIInv == ASSUME Init, Prismatic = {} PROVE IInv
<1>1. TypeOK
  <2>1. Zero \in [Arms -> Positions] /\ Zero \in [Arms -> Int] /\ Zero \in [Arms -> 0..BufCap]
    BY DEF Zero
  <2>2. 0 \in (-IntMax - 1)..IntMax /\ 0 \in 0..(SeqMod - 1) /\ SeqMod - 1 \in 0..(SeqMod - 1)
    OBVIOUS
  <2> QED
    BY <2>1, <2>2, Zenon DEF Init, TypeOK
<1>2. OldIsTold /\ InWrite /\ SentTogether /\ SkippedIsConstant
  BY DEF Init, OldIsTold, InWrite, SentTogether, SkippedIsConstant
<1>3. SeqAgree
  BY DEF Init, SeqAgree, NextSeq
<1> QED
  BY <1>1, <1>2, <1>3 DEF IInv

\* A successful activation makes home, commands and what the arms were told agree.
LEMMA ActivateIInv == ASSUME IInv, Prismatic = {}, Activate PROVE IInv'
<1>1. TypeOK'
  BY DEF IInv, TypeOK, Activate, count
<1>2. OldIsTold'
  <2>1. ASSUME NEW a \in Arms
        PROVE  Native(a, home[a])' + target'[a] = Native(a, old_command[a])'
    <3>1. home'[a] = old_command'[a] /\ target'[a] = 0 /\ home'[a] \in Int
      BY <1>1 DEF TypeOK, Activate
    <3> QED
      BY <3>1 DEF Native
  <2> QED
    BY <2>1 DEF OldIsTold, Told
<1>3. InWrite' /\ SentTogether' /\ SkippedIsConstant'
  BY DEF IInv, InWrite, SentTogether, SkippedIsConstant, Activate
<1>4. SeqAgree'
  BY DEF IInv, SeqAgree, NextSeq, Activate, count
<1> QED
  BY <1>1, <1>2, <1>3, <1>4 DEF IInv

\* An activation that fails leaves commands gated.
LEMMA ActivateFailsIInv == ASSUME IInv, Prismatic = {}, ActivateFails PROVE IInv'
<1>1. TypeOK'
  <2>1. TypeOK /\ 0 \in Int /\ 0 \in 0..BufCap
    BY DEF IInv
  <2>2. CASE ClearFails
    BY <2>1, <2>2 DEF TypeOK, ActivateFails, ClearFails, count
  <2>3. CASE HomeFails
    <3>1. PICK n \in Arms : \E at \in [1..(n - 1) -> Positions] :
            home' = [a \in Arms |-> IF a < n THEN at[a] ELSE home[a]]
      BY <2>3 DEF HomeFails
    <3>2. PICK at \in [1..(n - 1) -> Positions] :
            home' = [a \in Arms |-> IF a < n THEN at[a] ELSE home[a]]
      BY <3>1
    <3>3. \A a \in Arms : a < n => a \in 1..(n - 1)
      BY DEF Arms
    <3>4. home' \in [Arms -> Positions]
      BY <2>1, <3>2, <3>3 DEF TypeOK
    <3> QED
      BY <2>1, <2>3, <3>4 DEF TypeOK, ActivateFails, HomeFails, count
  <2>4. CASE StartFails
    BY <2>1, <2>4 DEF TypeOK, ActivateFails, StartFails, count
  <2> QED
    BY <2>2, <2>3, <2>4 DEF ActivateFails
<1>2. OldIsTold' /\ InWrite' /\ SentTogether' /\ SkippedIsConstant'
  <2>1. ~active' /\ pc' = "idle"
    BY DEF IInv, InWrite, ActivateFails, TypeOK
  <2> QED
    BY <2>1 DEF InWrite, SentTogether, OldIsTold, SkippedIsConstant
<1>3. SeqAgree'
  BY DEF IInv, SeqAgree, NextSeq, ActivateFails, count
<1> QED
  BY <1>1, <1>2, <1>3 DEF IInv

\* Closing the gate changes nothing else.
LEMMA DeactivateIInv == ASSUME IInv, Prismatic = {}, Deactivate PROVE IInv'
<1>1. TypeOK'
  BY DEF IInv, TypeOK, Deactivate, arms, count, remote
<1>2. OldIsTold' /\ InWrite' /\ SentTogether' /\ SkippedIsConstant'
  BY DEF IInv, InWrite, SentTogether, OldIsTold, SkippedIsConstant, Deactivate
<1>3. SeqAgree'
  BY DEF IInv, SeqAgree, NextSeq, Deactivate, count, remote
<1> QED
  BY <1>1, <1>2, <1>3 DEF IInv

\* A new command disturbs no write() in progress and no record of the last one.
LEMMA SetCommandIInv ==
  ASSUME IInv, Prismatic = {}, NEW a \in Arms, SetCommand(a) PROVE IInv'
<1>1. TypeOK'
  BY DEF IInv, TypeOK, SetCommand, count, remote
<1>2. OldIsTold'
  BY DEF IInv, OldIsTold, Told, Native, SetCommand, remote
<1>3. InWrite' /\ SentTogether' /\ SkippedIsConstant'
  BY DEF IInv, InWrite, SentTogether, SkippedIsConstant, SetCommand
<1>4. SeqAgree'
  BY DEF IInv, SeqAgree, NextSeq, SetCommand, count, remote
<1> QED
  BY <1>1, <1>2, <1>3, <1>4 DEF IInv

\* A skip is decided on a counter above ThreshCnt, hence on a constant command.
LEMMA WriteBeginIInv == ASSUME IInv, Prismatic = {}, WriteBegin PROVE IInv'
<1>1. TypeOK'
  <2>1. cmd_constant_cnt_' \in (-IntMax - 1)..IntMax
    BY CountedType DEF IInv, TypeOK, WriteBegin
  <2> QED
    BY <2>1 DEF IInv, TypeOK, WriteBegin, remote
<1>2. OldIsTold'
  BY DEF IInv, OldIsTold, Told, Native, WriteBegin, remote
<1>3. InWrite' /\ SentTogether'
  BY DEF InWrite, SentTogether, WriteBegin
<1>4. SkippedIsConstant'
  <2>1. CASE outcome' = "skipped"
    <3>1. is_constant
      BY <2>1 DEF WriteBegin, Counted
    <3> QED
      BY <3>1 DEF WriteBegin, is_constant, Near, SkippedIsConstant
  <2>2. CASE outcome' \in {"none", "unread"}
    BY <2>2 DEF SkippedIsConstant
  <2> QED
    BY <2>1, <2>2 DEF WriteBegin
<1>5. SeqAgree'
  BY DEF IInv, SeqAgree, NextSeq, WriteBegin, remote
<1> QED
  BY <1>1, <1>2, <1>3, <1>4, <1>5 DEF IInv

\* Only a write() that has primed every arm goes on to send.
LEMMA PrimeIInv == ASSUME IInv, Prismatic = {}, Prime PROVE IInv'
<1>1. TypeOK'
  BY CompensationType DEF IInv, TypeOK, Prime, arms, count
<1>2. OldIsTold'
  BY DEF IInv, OldIsTold, Told, Native, Prime, arms
<1>3. InWrite' /\ SentTogether'
  <2>1. InWrite'
    BY DEF IInv, InWrite, Prime
  <2>2. CASE pc' = "send"
    <3>1. \A a \in Arms : primed'[a] = Compensation(a)
      BY <2>2 DEF Prime
    <3>2. command' = command /\ home' = home
      BY DEF Prime, arms
    <3> QED
      BY <2>1, <3>1, <3>2 DEF SentTogether, Compensation
  <2>3. CASE pc' = "idle"
    BY <2>1, <2>3 DEF SentTogether
  <2> QED
    BY <2>2, <2>3 DEF Prime
<1>4. SkippedIsConstant'
  BY DEF IInv, InWrite, SkippedIsConstant, Prime
<1>5. SeqAgree'
  BY DEF IInv, SeqAgree, NextSeq, Prime, count
<1> QED
  BY <1>1, <1>2, <1>3, <1>4, <1>5 DEF IInv

\* A transmission that succeeds tells the arms the commands that become the old ones.
LEMMA SendIInv == ASSUME IInv, Prismatic = {}, Send PROVE IInv'
<1>1. TypeOK'
  BY NextSeqType DEF IInv, TypeOK, Send, Taken
<1>2. OldIsTold'
  <2>1. CASE outcome' = "sent"
    <3>1. target' = primed /\ old_command' = command /\ home' = home
      BY <2>1 DEF Send, Taken
    <3>2. \A a \in Arms : target'[a] = command[a] - home[a]
      BY <3>1, CompensationType DEF IInv, SentTogether, Send
    <3>3. \A a \in Arms : command[a] \in Int /\ home[a] \in Int
      BY DEF IInv, TypeOK
    <3> QED
      BY <3>1, <3>2, <3>3 DEF OldIsTold, Told, Native
  <2>2. CASE outcome' = "failed"
    BY <2>2 DEF OldIsTold
  <2> QED
    BY <2>1, <2>2 DEF Send
<1>3. InWrite' /\ SentTogether'
  BY DEF InWrite, SentTogether, Send
<1>4. SkippedIsConstant'
  <2>1. CASE outcome' = "sent"
    <3>1. old_command' = command' /\ \A a \in Arms : command'[a] \in Int
      BY <2>1, <1>1 DEF Send, TypeOK
    <3> QED
      BY <3>1 DEF SkippedIsConstant, is_constant, Near
  <2>2. CASE outcome' = "failed"
    BY <2>2 DEF SkippedIsConstant
  <2> QED
    BY <2>1, <2>2 DEF Send
<1>5. SeqAgree'
  BY DEF IInv, SeqAgree, NextSeq, Send, Taken
<1> QED
  BY <1>1, <1>2, <1>3, <1>4, <1>5 DEF IInv

\* The controller taking entries up changes nothing the invariant speaks of.
LEMMA ConsumeIInv == ASSUME IInv, Prismatic = {}, Consume PROVE IInv'
<1>1. TypeOK'
  BY DEF IInv, TypeOK, Consume, arms, count
<1>2. OldIsTold'
  BY DEF IInv, OldIsTold, Told, Native, Consume, arms
<1>3. InWrite' /\ SentTogether' /\ SkippedIsConstant'
  BY DEF IInv, InWrite, SentTogether, Compensation, SkippedIsConstant, is_constant, Near, Consume,
         arms
<1>4. SeqAgree'
  BY DEF IInv, SeqAgree, NextSeq, Consume, count
<1> QED
  BY <1>1, <1>2, <1>3, <1>4 DEF IInv

\* Every step keeps the invariant.
LEMMA NextIInv == ASSUME IInv, Prismatic = {}, [Next]_vars PROVE IInv'
<1>1. CASE UNCHANGED vars
  <2>1. TypeOK'
    BY <1>1 DEF IInv, TypeOK, vars, arms, count, remote
  <2>2. OldIsTold'
    BY <1>1 DEF IInv, OldIsTold, Told, Native, vars, arms, count, remote
  <2>3. InWrite' /\ SentTogether' /\ SkippedIsConstant'
    BY <1>1 DEF IInv, InWrite, SentTogether, Compensation, SkippedIsConstant, is_constant, Near, vars, arms,
                count, remote
  <2>4. SeqAgree'
    BY <1>1 DEF IInv, SeqAgree, NextSeq, vars, arms, count, remote
  <2> QED
    BY <2>1, <2>2, <2>3, <2>4 DEF IInv
<1>2. CASE Next
  BY <1>2, ActivateIInv, ActivateFailsIInv, DeactivateIInv, SetCommandIInv, WriteBeginIInv,
     PrimeIInv, SendIInv, ConsumeIInv DEF Next
<1> QED
  BY <1>1, <1>2

-----------------------------------------------------------------------------
\* The inductive invariant of the stream of commands holds.
THEOREM Invariance == ASSUME Prismatic = {} PROVE Spec => []IInv
<1>1. Init => IInv
  BY InitIInv
<1>2. IInv /\ [Next]_vars => IInv'
  BY NextIInv
<1> QED
  BY <1>1, <1>2, PTL DEF Spec

\* A write() that reports success leaves every arm told to be where its command says,
\* up to Epsilon (KhiKrnxDriver::write).
THEOREM CommandsReached == ASSUME Prismatic = {} PROVE Spec => []CommandReached
<1>1. IInv => CommandReached
  <2> SUFFICES ASSUME IInv, active, outcome \in {"sent", "skipped"}, NEW a \in Arms
               PROVE  /\ Told(a) - Native(a, command[a]) <= Native(a, Epsilon)
                      /\ Native(a, command[a]) - Told(a) <= Native(a, Epsilon)
    BY DEF CommandReached
  <2>1. Told(a) = Native(a, old_command[a])
    BY DEF IInv, OldIsTold
  <2>2. Near(command[a], old_command[a])
    BY DEF IInv, SkippedIsConstant, is_constant
  <2> QED
    BY <2>1, <2>2 DEF IInv, TypeOK, Near, Native
<1> QED
  BY <1>1, Invariance, PTL

\* What is sent was primed for all arms by the same write() (krnx_PrimeRtcCompData).
THEOREM PrimedTogether == ASSUME Prismatic = {} PROVE Spec => []SentTogether
<1>1. IInv => SentTogether
  BY DEF IInv
<1> QED
  BY <1>1, Invariance, PTL

\* The controller never sees a gap in the numbers of the transmissions (seq_no_).
THEOREM NumbersContinuous == ASSUME Prismatic = {} PROVE Spec => SeqContinuous
<1>1. IInv /\ [Next]_vars => [lastSeq' = NextSeq(lastSeq)]_lastSeq
  <2> SUFFICES ASSUME IInv, Next, lastSeq' # lastSeq
               PROVE  lastSeq' = NextSeq(lastSeq)
    BY DEF vars, remote
  <2>1. Send
    BY DEF Next, Activate, ActivateFails, Deactivate, SetCommand, WriteBegin, Prime, Consume,
           remote
  <2> QED
    BY <2>1 DEF IInv, SeqAgree, Send, Taken
<1> QED
  BY <1>1, Invariance, PTL DEF Spec, SeqContinuous
=============================================================================
