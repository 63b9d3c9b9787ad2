------------------------------ MODULE KhiHealth ------------------------------
(***************************************************************************)
(* KhiKrnxDriver::monitor_robot_health, called by every read(): the        *)
(* warning about long command buffers and the warning about saturated      *)
(* motor currents.  One joint per arm: every joint has a window of its own *)
(* and they are treated alike.                                             *)
(***************************************************************************)
EXTENDS Integers, FiniteSets, Sequences

CONSTANTS
    NArms,     \* arms of the robot
    Interval,  \* KRNX_BUFFER_WARNING_INTERVAL
    Duration,  \* duration: slots of a saturation window
    ErrThresh, \* err_thresh: saturations that are tolerated in a window
    Gaps       \* what may interrupt the readings: "fetch" (one fails), "session" (link lost)

VARIABLES
    loop, arm,                     \* the loop and the arm monitor_robot_health stands at
    rtc_buffer_thresh_exceed_cnt_,
    is_saturated,                  \* per arm, the window of its joint
    cnt,                           \* the slot of this cycle
    high,                          \* history: per arm, checks in a row with a long buffer
    alarm,                         \* history: the last check of a buffer warned
    checks,                        \* history: how many buffers were checked, 2 for more
    recent,                        \* history: per arm, the last Duration readings
    gap,                           \* history: per arm, a reading was missed since the last warning
    warned                         \* history: per arm, saturation was just warned of

buffers  == <<rtc_buffer_thresh_exceed_cnt_, high, alarm, checks>>
currents == <<is_saturated, cnt, recent, gap, warned>>
vars     == <<loop, arm, buffers, currents>>

Arms  == 1..NArms
Slots == 0..(Duration - 1)

ASSUME ArmsAssumption  == NArms \in Nat \ {0}
ASSUME LimitAssumption == /\ Interval \in Nat /\ ErrThresh \in Nat /\ Duration \in Nat \ {0}
                          /\ Gaps \subseteq {"fetch", "session"}

-----------------------------------------------------------------------------
\* for (arm_no ...): one arm after the other, then what follows the loop.
NextArm(next) ==
    IF arm < NArms
    THEN arm' = arm + 1 /\ UNCHANGED loop
    ELSE arm' = 1 /\ loop' = next

\* Mutant: one cycle more.
TooLong_Late(n) == n > Interval + 1

TooLong(n) == n > Interval

\* The history counts the checks of an arm that found its buffer long in a row, since
\* the last warning and up to Interval + 1: more of them mean the same.
RememberLength(long) ==
    LET before == IF alarm THEN [a \in Arms |-> 0] ELSE high
        now    == IF before[arm] > Interval THEN before[arm] ELSE before[arm] + 1
    IN  /\ high' = [before EXCEPT ![arm] = IF long THEN now ELSE 0]
        /\ checks' = IF checks < 2 THEN checks + 1 ELSE 2

\* Mutant: a short buffer does not reset the count.
CheckBuffer_NoReset ==
    /\ loop = "buffer"
    /\ \E long \in BOOLEAN :
          LET n == rtc_buffer_thresh_exceed_cnt_ + (IF long THEN 1 ELSE 0)
          IN  /\ rtc_buffer_thresh_exceed_cnt_' = IF TooLong(n) THEN 0 ELSE n
              /\ alarm' = TooLong(n)
              /\ RememberLength(long)
    /\ NextArm("current")
    /\ UNCHANGED currents

\* One counter serves all arms.  A length that cannot be read is negative: not long.
CheckBuffer ==
    /\ loop = "buffer"
    /\ \E long \in BOOLEAN :
          LET n == IF long THEN rtc_buffer_thresh_exceed_cnt_ + 1 ELSE 0
          IN  /\ rtc_buffer_thresh_exceed_cnt_' = IF TooLong(n) THEN 0 ELSE n
              /\ alarm' = TooLong(n)
              /\ RememberLength(long)
    /\ NextArm("current")
    /\ UNCHANGED currents

-----------------------------------------------------------------------------
Clear      == [c \in Slots |-> FALSE]
Nothing    == [i \in 1..Duration |-> FALSE]
Count(bits) == Cardinality({i \in DOMAIN bits : bits[i]})

\* Mutant: the slot after the last one of the window is never reached.
NextSlot_Short == IF arm = NArms THEN (cnt + 1) % (Duration - 1) ELSE cnt

NextSlot == IF arm = NArms THEN (cnt + 1) % Duration ELSE cnt

\* The history starts anew after a warning.
Remember(sat, missed) ==
    /\ gap' = [gap EXCEPT ![arm] = missed \/ (@ /\ ~warned[arm])]
    /\ recent' = [recent EXCEPT ![arm] = Append(Tail(IF warned[arm] THEN Nothing ELSE @), sat)]

\* Mutant: the window is kept after a warning.
CheckCurrent_KeepsWindow ==
    /\ loop = "current"
    /\ \E sat \in BOOLEAN :
          LET window == [is_saturated[arm] EXCEPT ![cnt] = sat]
          IN  /\ is_saturated' = [is_saturated EXCEPT ![arm] = window]
              /\ warned' = [warned EXCEPT ![arm] = Count(window) > ErrThresh]
              /\ Remember(sat, FALSE)
    /\ cnt' = NextSlot
    /\ NextArm("buffer")
    /\ UNCHANGED buffers

CheckCurrent ==
    /\ loop = "current"
    /\ \E sat \in BOOLEAN :
          LET window == [is_saturated[arm] EXCEPT ![cnt] = sat]
              full   == Count(window) > ErrThresh
          IN  /\ is_saturated' = [is_saturated EXCEPT ![arm] = IF full THEN Clear ELSE window]
              /\ warned' = [warned EXCEPT ![arm] = full]
              /\ Remember(sat, FALSE)
    /\ cnt' = NextSlot
    /\ NextArm("buffer")
    /\ UNCHANGED buffers

\* get_curmotion_data_ex fails: the slot of this cycle is left as it is.
FetchFails ==
    /\ loop = "current" /\ "fetch" \in Gaps
    /\ Remember(FALSE, TRUE)
    /\ warned' = [warned EXCEPT ![arm] = FALSE]
    /\ cnt' = NextSlot
    /\ NextArm("buffer")
    /\ UNCHANGED <<buffers, is_saturated>>

\* The link is lost and the component configured again, any time later: the window
\* is static and the counter is set by initialize() only, so both stay.
NewSession ==
    /\ loop = "buffer" /\ arm = 1 /\ "session" \in Gaps
    /\ recent' = [a \in Arms |-> Nothing]
    /\ warned' = [a \in Arms |-> FALSE]
    /\ gap' = [a \in Arms |-> TRUE]
    /\ UNCHANGED <<loop, arm, buffers, is_saturated, cnt>>

\* The counter starts at its limit, although nothing was read.
Init ==
    /\ loop = "buffer" /\ arm = 1
    /\ rtc_buffer_thresh_exceed_cnt_ = Interval
    /\ high = [a \in Arms |-> 0] /\ alarm = FALSE /\ checks = 0
    /\ is_saturated = [a \in Arms |-> Clear] /\ cnt = 0
    /\ recent = [a \in Arms |-> Nothing]
    /\ gap = [a \in Arms |-> FALSE] /\ warned = [a \in Arms |-> FALSE]

Next == CheckBuffer \/ CheckCurrent \/ FetchFails \/ NewSession

Spec == Init /\ [][Next]_vars

\* While the component is active the update loop calls read() for ever.
LiveSpec == Spec /\ WF_vars(Next)

-----------------------------------------------------------------------------
(* Properties.                                                             *)

TypeOK ==
    /\ loop \in {"buffer", "current"} /\ arm \in Arms
    /\ rtc_buffer_thresh_exceed_cnt_ \in 0..Interval
    /\ high \in [Arms -> 0..(Interval + 1)] /\ alarm \in BOOLEAN /\ checks \in 0..2
    /\ is_saturated \in [Arms -> [Slots -> BOOLEAN]] /\ cnt \in Slots
    /\ recent \in [Arms -> [1..Duration -> BOOLEAN]]
    /\ gap \in [Arms -> BOOLEAN] /\ warned \in [Arms -> BOOLEAN]

\* "Display a warning about the number of buffed position commands": no arm's buffer
\* stays long for ever without a warning.
BufferWarned == \A a \in Arms : []<>(high[a] = 0 \/ alarm)

\* What one counter for all arms can do: while all buffers are long, the warning
\* comes within Interval readings, whichever arm they are of.
AllLongWarned == loop = "current" /\ ~alarm => \E a \in Arms : NArms * high[a] <= Interval

\* A warning is no false alarm: since the last one every arm had a long buffer, in
\* checks of it in a row, for its share of the Interval.  The very first check of the
\* driver's life is excepted: its counter starts at the limit, and the first long
\* buffer warns whatever the other arms' are.
BufferSound == alarm /\ checks > 1 => \A a \in Arms : high[a] >= (Interval + 1) \div NArms

\* "Display a warning if current saturation is detected multiple times in a short
\* duration": more than ErrThresh saturations in Duration cycles are warned of, in
\* the cycle of the last one, wherever they lie in the window.
SaturationComplete == \A a \in Arms : Count(recent[a]) > ErrThresh => warned[a]

\* And there is no warning without them, unless a reading was missed: its slot then
\* holds a saturation of Duration cycles ago, or of an earlier session.
SaturationSound == \A a \in Arms : warned[a] => Count(recent[a]) > ErrThresh \/ gap[a]

-----------------------------------------------------------------------------
(* The inductive invariant: the counter of long buffers against the cycles *)
(* of each arm, and the window of saturations against the readings that it *)
(* stands for.                                                             *)

\* Checks in a row with a long buffer since the last warning, and the arm whose buffer
\* is checked next.
Since(a) == IF alarm THEN 0 ELSE high[a]
Position == IF loop = "buffer" THEN arm ELSE 1

\* The counter misses none: when all arms had long buffers for m cycles, those checked
\* in this cycle for one more, it has counted them all.
CountsAll ==
    \A m \in 0..(Interval + 1) :
        (\A a \in Arms : Since(a) >= IF a < Position THEN m + 1 ELSE m) =>
            rtc_buffer_thresh_exceed_cnt_ >= NArms * m + Position - 1

\* How many checks ago arm a was checked.
Ago(a) == IF a < Position THEN Position - a ELSE Position - a + NArms

\* It counts nothing else: what it has counted were the last checks, each of a long
\* buffer, but for the limit that it starts at.
CountsOnly ==
    IF checks = 0
    THEN rtc_buffer_thresh_exceed_cnt_ = Interval
    ELSE \A a \in Arms : \A k \in 1..(Interval + 1) :
            rtc_buffer_thresh_exceed_cnt_ >= NArms * (k - 1) + Ago(a) => Since(a) >= k

\* The readings of an arm since its last warning, the slot that its next one goes to,
\* and the slot of the i-th oldest one when that is s.
Readings(a) == IF warned[a] THEN Nothing ELSE recent[a]
NextOf(a)   == IF loop = "current" /\ a < arm
               THEN IF cnt + 1 = Duration THEN 0 ELSE cnt + 1
               ELSE cnt
Slot(s, i)  == IF s + i <= Duration THEN s + i - 1 ELSE s + i - 1 - Duration

\* Every saturation is in its slot, ...
Kept == \A a \in Arms : \A i \in 1..Duration :
            Readings(a)[i] => is_saturated[a][Slot(NextOf(a), i)]

\* ... nothing else is, unless a reading was missed since the last warning, ...
Exact == \A a \in Arms : warned[a] \/ ~gap[a] =>
            \A i \in 1..Duration : Readings(a)[i] = is_saturated[a][Slot(NextOf(a), i)]

\* ... and a window that warns is cleared.
Tolerated == \A a \in Arms : Count(is_saturated[a]) <= ErrThresh

IInv == /\ TypeOK
        /\ CountsAll /\ CountsOnly /\ BufferSound
        /\ Kept /\ Exact /\ Tolerated /\ SaturationComplete /\ SaturationSound
=============================================================================
