-------------------------- MODULE KhiHealth_proofs --------------------------
(***************************************************************************)
(* Proofs about KhiHealth, for every number of arms, every limit and every *)
(* length of the window: what the counter of long buffers, shared by the   *)
(* arms, says about each of them, and that the window of saturations is a  *)
(* faithful record of the last readings.                                   *)
(***************************************************************************)
EXTENDS KhiHealth, TLAPS, FiniteSetTheorems, FunctionTheorems, SequenceTheorems

USE ArmsAssumption, LimitAssumption

-----------------------------------------------------------------------------
(* Numbers, the history of readings, and counting.                         *)

LEMMA Quotient ==
    ASSUME NEW x \in Nat, NEW n \in Nat \ {0}
    PROVE  x \div n \in Nat /\ n * (x \div n) <= x /\ x < n * ((x \div n) + 1)
OBVIOUS

LEMMA OneMore == ASSUME NEW n \in Nat, NEW k \in Int PROVE n * (k + 1) = n * k + n
OBVIOUS

LEMMA Grows ==
    ASSUME NEW n \in Nat, NEW k \in Int, NEW m \in Int, k <= m
    PROVE  n * k <= n * m
OBVIOUS

LEMMA Multiple == ASSUME NEW n \in Nat \ {0}, NEW k \in Nat PROVE k <= n * k
OBVIOUS

\* The running slot of the window wraps.
LEMMA Wraps ==
    ASSUME NEW c \in Slots
    PROVE  (c + 1) % Duration = IF c + 1 = Duration THEN 0 ELSE c + 1
BY DEF Slots

\* A new reading pushes out the oldest one.
LEMMA Pushed ==
    ASSUME NEW s \in [1..Duration -> BOOLEAN], NEW b \in BOOLEAN
    PROVE  /\ Append(Tail(s), b) \in [1..Duration -> BOOLEAN]
           /\ \A i \in 1..Duration : Append(Tail(s), b)[i] = IF i = Duration THEN b ELSE s[i + 1]
<1> DEFINE t == Tail(s)
<1>1. s \in Seq(BOOLEAN) /\ Len(s) = Duration /\ s # << >>
  OBVIOUS
<1>2. t \in Seq(BOOLEAN) /\ Len(t) = Duration - 1
  BY <1>1
<1>3. \A i \in 1..(Duration - 1) : t[i] = s[i + 1]
  BY <1>1
<1>4. Append(t, b) \in Seq(BOOLEAN) /\ Len(Append(t, b)) = Duration
  BY <1>2
<1>5. \A i \in 1..Duration : Append(t, b)[i] = IF i = Duration THEN b ELSE t[i]
  BY <1>2
<1>6. Append(t, b) \in [1..Duration -> BOOLEAN]
  BY <1>4, LenProperties
<1> QED BY <1>3, <1>5, <1>6

\* The readings occupy the slots one to one, and the next one goes to the slot of the
\* oldest.
LEMMA SlotsUsed ==
    ASSUME NEW s \in Slots
    PROVE  /\ \A i \in 1..Duration : Slot(s, i) \in Slots
           /\ \A i, j \in 1..Duration : Slot(s, i) = Slot(s, j) => i = j
           /\ \A c \in Slots : \E i \in 1..Duration : Slot(s, i) = c
           /\ Slot(s, 1) = s
<1>1. /\ \A i \in 1..Duration : Slot(s, i) \in Slots
      /\ \A i, j \in 1..Duration : Slot(s, i) = Slot(s, j) => i = j
      /\ Slot(s, 1) = s
  BY DEF Slot, Slots
<1>2. ASSUME NEW c \in Slots PROVE \E i \in 1..Duration : Slot(s, i) = c
  <2>1. CASE c >= s
    <3>1. c - s + 1 \in 1..Duration /\ Slot(s, c - s + 1) = c
      BY <2>1 DEF Slot, Slots
    <3> QED BY <3>1
  <2>2. CASE c < s
    <3>1. c - s + 1 + Duration \in 1..Duration /\ Slot(s, c - s + 1 + Duration) = c
      BY <2>2 DEF Slot, Slots
    <3> QED BY <3>1
  <2> QED BY <2>1, <2>2 DEF Slots
<1> QED BY <1>1, <1>2

\* When the window has moved on by one slot, so have the readings.
LEMMA SlotsMove ==
    ASSUME NEW s \in Slots, NEW t \in Slots, t = IF s + 1 = Duration THEN 0 ELSE s + 1
    PROVE  /\ \A i \in 1..(Duration - 1) : Slot(t, i) = Slot(s, i + 1) /\ Slot(t, i) # s
           /\ Slot(t, Duration) = s
BY DEF Slot, Slots

\* Counting the readings and the slots that are saturated.
LEMMA Counted ==
    ASSUME NEW r \in [1..Duration -> BOOLEAN], NEW w \in [Slots -> BOOLEAN], NEW s \in Slots,
           \A i \in 1..Duration : r[i] => w[Slot(s, i)]
    PROVE  /\ Count(r) \in Nat /\ Count(w) \in Nat
           /\ Count(r) <= Count(w)
           /\ (\A i \in 1..Duration : r[i] = w[Slot(s, i)]) => Count(r) = Count(w)
<1> DEFINE R == {i \in 1..Duration : r[i]}
           W == {c \in Slots : w[c]}
           f == [i \in R |-> Slot(s, i)]
<1>1. Count(r) = Cardinality(R) /\ Count(w) = Cardinality(W)
  BY DEF Count
<1>2. IsFiniteSet(Slots) /\ W \in SUBSET Slots
  BY FS_Interval DEF Slots
<1>3. IsFiniteSet(W)
  BY <1>2, FS_Subset
<1>4. f \in Injection(R, W)
  <2>1. f \in [R -> W]
    BY SlotsUsed
  <2>2. \A i, j \in R : f[i] = f[j] => i = j
    BY SlotsUsed
  <2> QED BY <2>1, <2>2 DEF Injection, IsInjective
<1>5. /\ IsFiniteSet(R) /\ Cardinality(R) <= Cardinality(W)
      /\ Cardinality(R) = Cardinality(W) <=> f \in Surjection(R, W)
  BY <1>3, <1>4, FS_Injection
<1>6. Cardinality(R) \in Nat /\ Cardinality(W) \in Nat
  BY <1>3, <1>5, FS_CardinalityType
<1>7. ASSUME \A i \in 1..Duration : r[i] = w[Slot(s, i)]
      PROVE  f \in Surjection(R, W)
  <2>1. f \in [R -> W]
    BY SlotsUsed
  <2>2. ASSUME NEW c \in W PROVE \E i \in R : f[i] = c
    <3>1. PICK i \in 1..Duration : Slot(s, i) = c
      BY SlotsUsed
    <3>2. i \in R
      BY <3>1, <1>7
    <3> QED BY <3>1, <3>2
  <2> QED BY <2>1, <2>2 DEF Surjection
<1> QED BY <1>1, <1>5, <1>6, <1>7

\* Nothing is counted in a window that has just been cleared.
LEMMA CountNone == Count(Nothing) = 0 /\ Count(Clear) = 0
<1>1. {i \in DOMAIN Nothing : Nothing[i]} = {} /\ {c \in DOMAIN Clear : Clear[c]} = {}
  BY DEF Nothing, Clear
<1> QED BY <1>1, FS_EmptySet DEF Count

LEMMA Cleared == Nothing \in [1..Duration -> BOOLEAN] /\ Clear \in [Slots -> BOOLEAN]
BY DEF Nothing, Clear

-----------------------------------------------------------------------------
(* The steps, with their effect on the two halves of the state.            *)

\* The check of one arm's buffer: what counter and history were, and have become.
Checks(long) ==
    /\ loop = "buffer" /\ long \in BOOLEAN
    /\ high' \in [Arms -> 0..(Interval + 1)]
    /\ \A a \in Arms : a # arm => high'[a] = Since(a)
    /\ high'[arm] = IF long THEN IF Since(arm) > Interval THEN Since(arm) ELSE Since(arm) + 1 ELSE 0
    /\ ~long => rtc_buffer_thresh_exceed_cnt_' = 0 /\ ~alarm'
    /\ long /\ rtc_buffer_thresh_exceed_cnt_ < Interval =>
          rtc_buffer_thresh_exceed_cnt_' = rtc_buffer_thresh_exceed_cnt_ + 1 /\ ~alarm'
    /\ long /\ rtc_buffer_thresh_exceed_cnt_ = Interval =>
          rtc_buffer_thresh_exceed_cnt_' = 0 /\ alarm'
    /\ alarm' \in BOOLEAN /\ checks' \in 1..2 /\ checks' = (IF checks = 0 THEN 1 ELSE 2)
    /\ IF arm < NArms THEN arm' = arm + 1 /\ loop' = "buffer" ELSE arm' = 1 /\ loop' = "current"

\* NextArm and RememberLength do what Checks says.
LEMMA BufferChecked == ASSUME TypeOK, CheckBuffer PROVE \E long \in BOOLEAN : Checks(long)
<1>1. PICK long \in BOOLEAN :
        LET n == IF long THEN rtc_buffer_thresh_exceed_cnt_ + 1 ELSE 0
        IN  /\ rtc_buffer_thresh_exceed_cnt_' = IF TooLong(n) THEN 0 ELSE n
            /\ alarm' = TooLong(n)
            /\ RememberLength(long)
  BY DEF CheckBuffer
<1> DEFINE before == IF alarm THEN [a \in Arms |-> 0] ELSE high
           now    == IF before[arm] > Interval THEN before[arm] ELSE before[arm] + 1
<1>2. before \in [Arms -> 0..(Interval + 1)] /\ \A a \in Arms : before[a] = Since(a)
  BY DEF TypeOK, Since
<1>3. arm \in Arms /\ high' = [before EXCEPT ![arm] = IF long THEN now ELSE 0]
  BY <1>1 DEF RememberLength, TypeOK
<1>4. now \in 0..(Interval + 1)
  BY <1>2, <1>3
<1> HIDE DEF before
<1>5. /\ high' \in [Arms -> 0..(Interval + 1)]
      /\ \A a \in Arms : a # arm => high'[a] = Since(a)
      /\ high'[arm] = IF long THEN IF Since(arm) > Interval THEN Since(arm) ELSE Since(arm) + 1 ELSE 0
  BY <1>2, <1>3, <1>4
<1>6. /\ ~long => rtc_buffer_thresh_exceed_cnt_' = 0 /\ ~alarm'
      /\ long /\ rtc_buffer_thresh_exceed_cnt_ < Interval =>
            rtc_buffer_thresh_exceed_cnt_' = rtc_buffer_thresh_exceed_cnt_ + 1 /\ ~alarm'
      /\ long /\ rtc_buffer_thresh_exceed_cnt_ = Interval =>
            rtc_buffer_thresh_exceed_cnt_' = 0 /\ alarm'
      /\ alarm' \in BOOLEAN
  <2>1. rtc_buffer_thresh_exceed_cnt_ \in 0..Interval
    BY DEF TypeOK
  <2>2. ASSUME long, rtc_buffer_thresh_exceed_cnt_ < Interval
        PROVE  rtc_buffer_thresh_exceed_cnt_' = rtc_buffer_thresh_exceed_cnt_ + 1 /\ ~alarm'
    <3>1. ~TooLong(rtc_buffer_thresh_exceed_cnt_ + 1)
      BY <2>1, <2>2 DEF TooLong
    <3> QED BY <1>1, <2>2, <3>1
  <2>3. ASSUME long, rtc_buffer_thresh_exceed_cnt_ = Interval
        PROVE  rtc_buffer_thresh_exceed_cnt_' = 0 /\ alarm'
    <3>1. TooLong(rtc_buffer_thresh_exceed_cnt_ + 1)
      BY <2>1, <2>3 DEF TooLong
    <3> QED BY <1>1, <2>3, <3>1
  <2>4. ASSUME ~long PROVE rtc_buffer_thresh_exceed_cnt_' = 0 /\ ~alarm'
    <3>1. ~TooLong(0)
      BY DEF TooLong
    <3> QED BY <1>1, <2>4, <3>1
  <2>5. alarm' \in BOOLEAN
    BY <1>1 DEF TooLong
  <2> QED BY <2>2, <2>3, <2>4, <2>5
<1>7. /\ loop = "buffer"
      /\ IF arm < NArms THEN arm' = arm + 1 /\ loop' = "buffer" ELSE arm' = 1 /\ loop' = "current"
  BY DEF CheckBuffer, NextArm
<1>8. checks' \in 1..2 /\ checks' = (IF checks = 0 THEN 1 ELSE 2)
  BY <1>1 DEF RememberLength, TypeOK
<1> QED BY <1>5, <1>6, <1>7, <1>8 DEF Checks

\* The readings of an arm are a window's length of them.
LEMMA ReadingsType ==
    ASSUME TypeOK, NEW a \in Arms PROVE Readings(a) \in [1..Duration -> BOOLEAN]
BY Cleared DEF TypeOK, Readings

\* The reading of one arm's current, or one that was missed: what window and history
\* have become.
Reads(missed, sat, window) ==
    /\ loop = "current"
    /\ recent' = [recent EXCEPT ![arm] = Append(Tail(Readings(arm)), sat)]
    /\ gap' = [gap EXCEPT ![arm] = missed \/ (gap[arm] /\ ~warned[arm])]
    /\ warned' = [warned EXCEPT ![arm] = IF missed THEN FALSE ELSE Count(window) > ErrThresh]
    /\ is_saturated' = [is_saturated EXCEPT ![arm] =
          IF missed THEN window ELSE IF Count(window) > ErrThresh THEN Clear ELSE window]
    /\ window = IF missed THEN is_saturated[arm] ELSE [is_saturated[arm] EXCEPT ![cnt] = sat]
    /\ missed => ~sat
    /\ cnt' = IF arm = NArms THEN IF cnt + 1 = Duration THEN 0 ELSE cnt + 1 ELSE cnt
    /\ IF arm < NArms THEN arm' = arm + 1 /\ loop' = "current" ELSE arm' = 1 /\ loop' = "buffer"
    /\ UNCHANGED buffers

\* CheckCurrent and FetchFails do what Reads says.
LEMMA CurrentRead ==
    ASSUME TypeOK, CheckCurrent \/ FetchFails
    PROVE  \E missed, sat \in BOOLEAN : \E window \in [Slots -> BOOLEAN] : Reads(missed, sat, window)
<1>1. /\ loop = "current" /\ UNCHANGED buffers
      /\ IF arm < NArms THEN arm' = arm + 1 /\ loop' = "current" ELSE arm' = 1 /\ loop' = "buffer"
      /\ cnt' = NextSlot
  BY DEF CheckCurrent, FetchFails, NextArm
<1>2. cnt' = IF arm = NArms THEN IF cnt + 1 = Duration THEN 0 ELSE cnt + 1 ELSE cnt
  BY <1>1, Wraps DEF NextSlot, TypeOK
<1>3. arm \in Arms /\ is_saturated \in [Arms -> [Slots -> BOOLEAN]] /\ cnt \in Slots
  BY DEF TypeOK
<1>4. ASSUME NEW sat \in BOOLEAN, NEW missed \in BOOLEAN, Remember(sat, missed)
      PROVE  /\ recent' = [recent EXCEPT ![arm] = Append(Tail(Readings(arm)), sat)]
             /\ gap' = [gap EXCEPT ![arm] = missed \/ (gap[arm] /\ ~warned[arm])]
  BY <1>4 DEF Remember, Readings, TypeOK
<1>5. CASE CheckCurrent
  <2>1. PICK sat \in BOOLEAN :
          LET window == [is_saturated[arm] EXCEPT ![cnt] = sat]
              full   == Count(window) > ErrThresh
          IN  /\ is_saturated' = [is_saturated EXCEPT ![arm] = IF full THEN Clear ELSE window]
              /\ warned' = [warned EXCEPT ![arm] = full]
              /\ Remember(sat, FALSE)
    BY <1>5 DEF CheckCurrent
  <2> DEFINE window == [is_saturated[arm] EXCEPT ![cnt] = sat]
  <2>2. window \in [Slots -> BOOLEAN]
    BY <1>3
  <2>3. /\ is_saturated' = [is_saturated EXCEPT ![arm] = IF Count(window) > ErrThresh THEN Clear ELSE window]
        /\ warned' = [warned EXCEPT ![arm] = Count(window) > ErrThresh]
        /\ Remember(sat, FALSE)
    BY <2>1
  <2> HIDE DEF window
  <2>4. window = [is_saturated[arm] EXCEPT ![cnt] = sat]
    BY DEF window
  <2>5. Reads(FALSE, sat, window)
    BY <1>1, <1>2, <1>4, <2>3, <2>4 DEF Reads
  <2> QED BY <2>2, <2>5
<1>6. CASE FetchFails
  <2>1. is_saturated[arm] \in [Slots -> BOOLEAN]
    BY <1>3
  <2>2. is_saturated' = [is_saturated EXCEPT ![arm] = is_saturated[arm]]
    BY <1>3, <1>6 DEF FetchFails
  <2>3. Remember(FALSE, TRUE) /\ warned' = [warned EXCEPT ![arm] = FALSE]
    BY <1>6 DEF FetchFails
  <2>4. Reads(TRUE, FALSE, is_saturated[arm])
    BY <1>1, <1>2, <1>4, <2>2, <2>3 DEF Reads
  <2> QED BY <2>1, <2>4
<1> QED BY <1>5, <1>6

\* Every step keeps the types.
LEMMA NextTypeOK == ASSUME TypeOK, [Next]_vars PROVE TypeOK'
<1>1. CASE CheckBuffer
  <2>1. PICK long \in BOOLEAN : Checks(long)
    BY <1>1, BufferChecked
  <2>2. rtc_buffer_thresh_exceed_cnt_' \in 0..Interval /\ loop' \in {"buffer", "current"} /\ arm' \in Arms
    BY <2>1 DEF Checks, TypeOK, Arms
  <2> QED BY <1>1, <2>1, <2>2 DEF TypeOK, CheckBuffer, Checks, currents
<1>2. CASE CheckCurrent \/ FetchFails
  <2>1. PICK missed, sat \in BOOLEAN, window \in [Slots -> BOOLEAN] : Reads(missed, sat, window)
    BY <1>2, CurrentRead
  <2>2. arm \in Arms /\ cnt \in Slots
    BY DEF TypeOK
  <2>3. recent' \in [Arms -> [1..Duration -> BOOLEAN]]
    BY <2>1, <2>2, ReadingsType, Pushed DEF Reads, TypeOK
  <2>4. gap' \in [Arms -> BOOLEAN] /\ warned' \in [Arms -> BOOLEAN]
    <3>1. gap \in [Arms -> BOOLEAN] /\ warned \in [Arms -> BOOLEAN]
      BY DEF TypeOK
    <3>2. (missed \/ (gap[arm] /\ ~warned[arm])) \in BOOLEAN
      BY Zenon
    <3>3. (IF missed THEN FALSE ELSE Count(window) > ErrThresh) \in BOOLEAN
      <4>1. (Count(window) > ErrThresh) \in BOOLEAN
        BY SMT
      <4> QED BY <4>1, Zenon
    <3> QED BY <2>1, <3>1, <3>2, <3>3 DEF Reads
  <2>5. is_saturated' \in [Arms -> [Slots -> BOOLEAN]]
    BY <2>1, Cleared DEF Reads, TypeOK
  <2>6. cnt' \in Slots /\ arm' \in Arms /\ loop' \in {"buffer", "current"}
    BY <2>1, <2>2 DEF Reads, Slots, Arms
  <2>7. UNCHANGED buffers
    BY <2>1 DEF Reads
  <2> QED BY <2>3, <2>4, <2>5, <2>6, <2>7 DEF TypeOK, buffers
<1>3. CASE NewSession
  BY <1>3, Cleared DEF NewSession, TypeOK, buffers
<1>4. CASE UNCHANGED vars
  BY <1>4 DEF vars, buffers, currents, TypeOK
<1> QED BY <1>1, <1>2, <1>3, <1>4 DEF Next

-----------------------------------------------------------------------------
(* The counter of long buffers.                                            *)

\* The counter misses no long buffer: it restarts only with a short one, which ends the
\* row of its arm, or with a warning, which starts the history anew.
LEMMA CountsAllKept ==
    ASSUME TypeOK, CountsAll, NEW long \in BOOLEAN, Checks(long)
    PROVE  CountsAll'
<1> DEFINE n == rtc_buffer_thresh_exceed_cnt_
           Next1 == IF arm < NArms THEN arm + 1 ELSE 1
<1>1. /\ arm \in Arms /\ n \in 0..Interval /\ Position = arm
      /\ \A a \in Arms : Since(a) \in 0..(Interval + 1)
  BY DEF TypeOK, Position, Checks, Since
<1>2. Position' = Next1
  BY <1>1 DEF Position, Checks, Arms
<1> SUFFICES ASSUME NEW m \in 0..(Interval + 1),
                    \A a \in Arms : Since(a)' >= IF a < Next1 THEN m + 1 ELSE m
             PROVE  n' >= NArms * m + Next1 - 1
  BY <1>2 DEF CountsAll
<1>3. CASE long /\ n < Interval
  <2>1. n' = n + 1 /\ \A a \in Arms : Since(a)' = high'[a]
    BY <1>3 DEF Checks, Since
  <2>3. high'[arm] = IF Since(arm) > Interval THEN Since(arm) ELSE Since(arm) + 1
    BY <1>3 DEF Checks
  <2>4. CASE arm < NArms
    <3>1. \A a \in Arms : Since(a) >= IF a < arm THEN m + 1 ELSE m
      <4> TAKE a \in Arms
      <4>1. CASE a = arm
        BY <1>1, <2>1, <2>3, <2>4, <4>1 DEF Arms
      <4>2. CASE a # arm
        BY <1>1, <2>1, <2>4, <4>2 DEF Arms, Checks
      <4> QED BY <4>1, <4>2
    <3>2. n >= NArms * m + arm - 1
      BY <1>1, <3>1 DEF CountsAll
    <3> QED BY <1>1, <2>1, <2>4, <3>2 DEF Arms
  <2>5. CASE arm = NArms
    <3>1. CASE m = 0
      BY <1>1, <2>5, <2>1, <3>1
    <3>2. CASE m > 0
      <4>1. \A a \in Arms : Since(a) >= IF a < arm THEN (m - 1) + 1 ELSE m - 1
        <5> TAKE a \in Arms
        <5>1. CASE a = arm
          BY <1>1, <2>1, <2>3, <2>5, <3>2, <5>1 DEF Arms
        <5>2. CASE a # arm
          BY <1>1, <2>1, <2>5, <3>2, <5>2 DEF Arms, Checks
        <5> QED BY <5>1, <5>2
      <4>2. n >= NArms * (m - 1) + NArms - 1
        BY <1>1, <2>5, <3>2, <4>1 DEF CountsAll
      <4>3. NArms * m = NArms * (m - 1) + NArms
        BY OneMore
      <4> QED BY <1>1, <2>1, <2>5, <4>2, <4>3
    <3> QED BY <3>1, <3>2
  <2> QED BY <1>1, <2>4, <2>5 DEF Arms
<1>4. CASE ~long \/ n = Interval
  <2>1. n' = 0 /\ \A a \in Arms : a = arm => Since(a)' = 0
    <3>1. CASE ~long
      BY <3>1 DEF Checks, Since
    <3>2. CASE long
      BY <1>1, <1>4, <3>2 DEF Checks, Since
    <3> QED BY <3>1, <3>2
  <2>2. \A a \in Arms : a = arm => 0 >= IF a < Next1 THEN m + 1 ELSE m
    BY <2>1
  <2>3. ~(arm < Next1) /\ m = 0
    BY <1>1, <2>2 DEF Arms
  <2> QED BY <1>1, <2>1, <2>3 DEF Arms
<1> QED BY <1>1, <1>3, <1>4

\* The counter counts long buffers only: what it has counted were the last checks.  With
\* the warning every arm has had its share of them.  The first check clears the limit at
\* which the counter starts, long buffer or not.
LEMMA CountsOnlyKept ==
    ASSUME TypeOK, CountsOnly, NEW long \in BOOLEAN, Checks(long)
    PROVE  CountsOnly' /\ BufferSound'
<1> DEFINE n == rtc_buffer_thresh_exceed_cnt_
           Next1 == IF arm < NArms THEN arm + 1 ELSE 1
<1>1. /\ arm \in Arms /\ n \in 0..Interval /\ Position = arm
      /\ \A a \in Arms : Since(a) \in 0..(Interval + 1)
  BY DEF TypeOK, Position, Checks, Since
<1>2. Position' = Next1
  BY <1>1 DEF Position, Checks, Arms
<1>3. \A a \in Arms : Ago(a)' \in 1..NArms /\ Ago(a)' = IF a = arm THEN 1 ELSE Ago(a) + 1
  BY <1>1, <1>2 DEF Ago, Arms
<1>4. Ago(arm) = NArms
  BY <1>1 DEF Ago, Arms
<1>5. ASSUME checks # 0, long, NEW a \in Arms, NEW k \in 1..(Interval + 1), n + 1 >= NArms * (k - 1) + Ago(a)'
      PROVE  high'[a] >= k
  <2>1. CASE a # arm
    <3>1. n >= NArms * (k - 1) + Ago(a)
      BY <1>1, <1>3, <1>5, <2>1 DEF Ago, Arms
    <3> QED BY <1>5, <2>1, <3>1 DEF CountsOnly, Checks
  <2>2. CASE a = arm
    <3>1. NArms * (k - 1) <= n
      BY <1>1, <1>3, <1>5, <2>2
    <3>2. high'[arm] = IF Since(arm) > Interval THEN Since(arm) ELSE Since(arm) + 1
      BY <1>5 DEF Checks
    <3>3. CASE k = 1
      BY <1>1, <2>2, <3>2, <3>3
    <3>4. CASE k > 1
      <4>1. NArms * (k - 1) = NArms * ((k - 1) - 1) + NArms
        BY OneMore
      <4>2. k - 1 \in 1..(Interval + 1) /\ n >= NArms * ((k - 1) - 1) + Ago(arm)
        BY <1>1, <1>4, <3>1, <3>4, <4>1
      <4>3. Since(arm) >= k - 1
        BY <1>1, <1>5, <4>2 DEF CountsOnly
      <4> QED BY <1>1, <2>2, <3>2, <4>3
    <3> QED BY <3>3, <3>4
  <2> QED BY <2>1, <2>2
<1>6. CASE long /\ n < Interval
  <2>1. n' = n + 1 /\ ~alarm' /\ \A a \in Arms : Since(a)' = high'[a]
    BY <1>6 DEF Checks, Since
  <2>2. checks # 0 /\ checks' # 0
    BY <1>1, <1>6 DEF CountsOnly, Checks
  <2> QED BY <1>5, <1>6, <2>1, <2>2 DEF CountsOnly, BufferSound
<1>7. ASSUME n' = 0 PROVE CountsOnly'
  <2>3. checks' # 0
    BY DEF Checks
  <2> SUFFICES ASSUME NEW a \in Arms, NEW k \in 1..(Interval + 1) PROVE ~(0 >= NArms * (k - 1) + Ago(a)')
    BY <1>7, <2>3 DEF CountsOnly
  <2>1. NArms * (k - 1) >= 0
    OBVIOUS
  <2> QED BY <1>3, <2>1
<1>8. CASE checks # 0 /\ long /\ n = Interval
  <2>1. n' = 0
    BY <1>8 DEF Checks
  <2>2. ASSUME NEW a \in Arms PROVE high'[a] >= (Interval + 1) \div NArms
    <3> DEFINE q == (Interval + 1) \div NArms
    <3>1. q \in Nat /\ NArms * q <= Interval + 1
      BY Quotient
    <3> HIDE DEF q
    <3>2. high'[a] \in 0..(Interval + 1)
      BY DEF Checks
    <3>3. CASE q = 0
      BY <3>2, <3>3 DEF q
    <3>4. CASE q > 0
      <4>1. q <= NArms * q /\ NArms * q = NArms * (q - 1) + NArms
        BY <3>1, <3>4, Multiple, OneMore
      <4>2. q \in 1..(Interval + 1) /\ n + 1 >= NArms * (q - 1) + Ago(a)'
        BY <1>3, <1>8, <3>1, <3>4, <4>1
      <4> QED BY <1>5, <1>8, <4>2 DEF q
    <3> QED BY <3>1, <3>3, <3>4
  <2> QED BY <1>7, <2>1, <2>2 DEF BufferSound
<1>9. CASE ~long
  BY <1>7, <1>9 DEF Checks, BufferSound
<1>10. CASE checks = 0 /\ long /\ n = Interval
  <2>1. n' = 0 /\ ~(checks' > 1)
    BY <1>10 DEF Checks
  <2> QED BY <1>7, <2>1 DEF BufferSound
<1> QED BY <1>1, <1>6, <1>8, <1>9, <1>10

\* Nothing else touches counter and history of the buffers.
LEMMA BuffersIdle ==
    ASSUME TypeOK, CountsAll, CountsOnly, BufferSound, Position' = Position,
           UNCHANGED buffers
    PROVE  CountsAll' /\ CountsOnly' /\ BufferSound'
<1>1. /\ \A a \in Arms : Since(a)' = Since(a) /\ Ago(a)' = Ago(a)
      /\ rtc_buffer_thresh_exceed_cnt_' = rtc_buffer_thresh_exceed_cnt_
      /\ alarm' = alarm /\ high' = high /\ checks' = checks
  BY DEF buffers, Since, Ago
<1> QED BY <1>1 DEF CountsAll, CountsOnly, BufferSound

-----------------------------------------------------------------------------
(* The window of saturations.                                              *)

\* The slot that follows this cycle's.
FollowingSlot == IF cnt + 1 = Duration THEN 0 ELSE cnt + 1

\* The history of the arm that is read, and whether the reading makes its window full.
After(sat) == Append(Tail(Readings(arm)), sat)
Full(missed, window) == ~missed /\ Count(window) > ErrThresh

\* The slot moves on for the arm that was read, and for no other: the cycle ends with
\* the last arm.
LEMMA NextOfMoves ==
    ASSUME TypeOK, NEW missed \in BOOLEAN, NEW sat \in BOOLEAN, NEW window,
           Reads(missed, sat, window)
    PROVE  /\ FollowingSlot \in Slots /\ NextOf(arm) = cnt
           /\ \A a \in Arms : NextOf(a) \in Slots
           /\ \A a \in Arms : NextOf(a)' = IF a = arm THEN FollowingSlot ELSE NextOf(a)
<1>1. arm \in Arms /\ cnt \in Slots /\ loop = "current"
  BY DEF TypeOK, Reads
<1>2. /\ cnt' = IF arm = NArms THEN FollowingSlot ELSE cnt
      /\ IF arm < NArms THEN arm' = arm + 1 /\ loop' = "current" ELSE arm' = 1 /\ loop' = "buffer"
  BY DEF Reads, FollowingSlot
<1>3. FollowingSlot \in Slots
  BY <1>1 DEF FollowingSlot, Slots
<1>4. \A a \in Arms : NextOf(a) = IF a < arm THEN FollowingSlot ELSE cnt
  BY <1>1 DEF NextOf, FollowingSlot
<1>5. \A a \in Arms : NextOf(a)' = IF a = arm THEN FollowingSlot ELSE NextOf(a)
  <2> SUFFICES ASSUME NEW a \in Arms
               PROVE  NextOf(a)' = IF a = arm THEN FollowingSlot ELSE NextOf(a)
    OBVIOUS
  <2>1. CASE arm < NArms
    BY <1>1, <1>2, <1>4, <2>1 DEF NextOf, FollowingSlot, Arms
  <2>2. CASE arm = NArms
    BY <1>1, <1>2, <1>4, <2>2 DEF NextOf, Arms
  <2> QED BY <1>1, <2>1, <2>2 DEF Arms
<1> QED BY <1>1, <1>3, <1>4, <1>5 DEF Arms

\* After a reading the arm's history and window, before the latter is cleared, are still
\* in step: the oldest reading has given its slot to the new one.
LEMMA ReadingFits ==
    ASSUME TypeOK, Kept, Exact, NEW missed \in BOOLEAN, NEW sat \in BOOLEAN,
           NEW window \in [Slots -> BOOLEAN], Reads(missed, sat, window)
    PROVE  /\ After(sat) \in [1..Duration -> BOOLEAN]
           /\ \A i \in 1..Duration : After(sat)[i] => window[Slot(FollowingSlot, i)]
           /\ ~missed /\ (warned[arm] \/ ~gap[arm]) =>
                 \A i \in 1..Duration : After(sat)[i] = window[Slot(FollowingSlot, i)]
<1> DEFINE before == Readings(arm)
<1>1. /\ arm \in Arms /\ cnt \in Slots /\ is_saturated \in [Arms -> [Slots -> BOOLEAN]]
      /\ before \in [1..Duration -> BOOLEAN]
  BY ReadingsType DEF TypeOK
<1>2. /\ After(sat) \in [1..Duration -> BOOLEAN]
      /\ \A i \in 1..Duration : After(sat)[i] = IF i = Duration THEN sat ELSE before[i + 1]
  BY <1>1, Pushed DEF After
<1>3. /\ FollowingSlot \in Slots /\ NextOf(arm) = cnt
  BY NextOfMoves
<1>4. /\ \A i \in 1..(Duration - 1) :
            Slot(FollowingSlot, i) = Slot(cnt, i + 1) /\ Slot(FollowingSlot, i) # cnt
      /\ Slot(FollowingSlot, Duration) = cnt
  BY <1>1, <1>3, SlotsMove DEF FollowingSlot
<1>5. \A i \in 1..Duration : Slot(FollowingSlot, i) \in Slots
  BY <1>3, SlotsUsed
<1>6. /\ missed => window = is_saturated[arm] /\ ~sat
      /\ ~missed => window[cnt] = sat
      /\ \A c \in Slots : c # cnt => window[c] = is_saturated[arm][c]
  BY <1>1 DEF Reads
<1>7. \A i \in 1..(Duration - 1) :
        After(sat)[i] = before[i + 1] /\ window[Slot(FollowingSlot, i)] = is_saturated[arm][Slot(cnt, i + 1)]
  BY <1>2, <1>4, <1>5, <1>6
<1>8. After(sat)[Duration] = sat /\ Slot(FollowingSlot, Duration) = cnt
  BY <1>2, <1>4
<1>9. \A i \in 1..Duration : before[i] => is_saturated[arm][Slot(cnt, i)]
  BY <1>1, <1>3 DEF Kept
<1>10. \A i \in 1..Duration : After(sat)[i] => window[Slot(FollowingSlot, i)]
  <2> SUFFICES ASSUME NEW i \in 1..Duration, After(sat)[i] PROVE window[Slot(FollowingSlot, i)]
    OBVIOUS
  <2>1. CASE i = Duration
    BY <1>6, <1>8, <2>1
  <2>2. CASE i \in 1..(Duration - 1)
    <3>1. i + 1 \in 1..Duration
      BY <2>2
    <3>2. before[i + 1]
      BY <1>7, <2>2, Zenon
    <3>3. is_saturated[arm][Slot(cnt, i + 1)]
      BY <1>9, <3>1, <3>2, Zenon
    <3> QED BY <1>7, <2>2, <3>3, Zenon
  <2> QED BY <2>1, <2>2
<1>11. ASSUME ~missed, warned[arm] \/ ~gap[arm], NEW i \in 1..Duration
       PROVE  After(sat)[i] = window[Slot(FollowingSlot, i)]
  <2>1. CASE i = Duration
    BY <1>6, <1>8, <1>11, <2>1
  <2>2. CASE i \in 1..(Duration - 1)
    <3>1. i + 1 \in 1..Duration
      BY <2>2
    <3>2. before[i + 1] = is_saturated[arm][Slot(cnt, i + 1)]
      BY <1>1, <1>3, <1>11, <3>1 DEF Exact
    <3> QED BY <1>7, <2>2, <3>2, Zenon
  <2>3. i = Duration \/ i \in 1..(Duration - 1)
    OBVIOUS
  <2> QED BY <2>1, <2>2, <2>3, Zenon
<1> QED BY <1>2, <1>10, <1>11

\* What a reading does to history, window and warning of every arm.
LEMMA ReadingEffect ==
    ASSUME TypeOK, NEW missed \in BOOLEAN, NEW sat \in BOOLEAN,
           NEW window \in [Slots -> BOOLEAN], Reads(missed, sat, window)
    PROVE  /\ \A a \in Arms : a # arm =>
                 /\ recent'[a] = recent[a] /\ warned'[a] = warned[a] /\ gap'[a] = gap[a]
                 /\ is_saturated'[a] = is_saturated[a] /\ Readings(a)' = Readings(a)
           /\ \A a \in Arms : a = arm =>
                 /\ recent'[a] = After(sat) /\ (warned'[a] <=> Full(missed, window))
                 /\ gap'[a] <=> missed \/ (gap[a] /\ ~warned[a])
                 /\ is_saturated'[a] = IF Full(missed, window) THEN Clear ELSE window
                 /\ Readings(a)' = IF Full(missed, window) THEN Nothing ELSE After(sat)
<1>1. /\ arm \in Arms /\ recent \in [Arms -> [1..Duration -> BOOLEAN]]
      /\ gap \in [Arms -> BOOLEAN] /\ warned \in [Arms -> BOOLEAN]
      /\ is_saturated \in [Arms -> [Slots -> BOOLEAN]]
  BY DEF TypeOK
<1>2. ASSUME NEW a \in Arms, a # arm
      PROVE  /\ recent'[a] = recent[a] /\ warned'[a] = warned[a] /\ gap'[a] = gap[a]
             /\ is_saturated'[a] = is_saturated[a]
  BY <1>1, <1>2, Zenon DEF Reads
<1>3. /\ recent'[arm] = After(sat)
      /\ gap'[arm] = (missed \/ (gap[arm] /\ ~warned[arm]))
      /\ warned'[arm] = (IF missed THEN FALSE ELSE Count(window) > ErrThresh)
      /\ is_saturated'[arm] = IF missed THEN window ELSE IF Count(window) > ErrThresh THEN Clear ELSE window
  BY <1>1, Zenon DEF Reads, After
<1>4. warned'[arm] <=> Full(missed, window)
  <2>1. CASE missed
    BY <1>3, <2>1, Zenon DEF Full
  <2>2. CASE ~missed
    BY <1>3, <2>2, Zenon DEF Full
  <2> QED BY <2>1, <2>2
<1>5. is_saturated'[arm] = IF Full(missed, window) THEN Clear ELSE window
  BY <1>3 DEF Full
<1>6. gap'[arm] <=> missed \/ (gap[arm] /\ ~warned[arm])
  BY <1>3, Zenon
<1>7. \A a \in Arms : a # arm => Readings(a)' = Readings(a)
  BY <1>2, Zenon DEF Readings
<1>8. \A a \in Arms : a = arm => Readings(a)' = IF Full(missed, window) THEN Nothing ELSE After(sat)
  BY <1>3, <1>4, Zenon DEF Readings
<1> QED BY <1>1, <1>2, <1>3, <1>4, <1>5, <1>6, <1>7, <1>8, Zenon

\* A reading, or one that is missed, keeps window and history in step, and warns exactly
\* when it must.
LEMMA WindowKept ==
    ASSUME TypeOK, Kept, Exact, Tolerated, SaturationComplete, SaturationSound,
           NEW missed \in BOOLEAN, NEW sat \in BOOLEAN,
           NEW window \in [Slots -> BOOLEAN], Reads(missed, sat, window)
    PROVE  Kept' /\ Exact' /\ Tolerated' /\ SaturationComplete' /\ SaturationSound'
<1>1. /\ arm \in Arms /\ is_saturated \in [Arms -> [Slots -> BOOLEAN]]
      /\ gap \in [Arms -> BOOLEAN] /\ warned \in [Arms -> BOOLEAN]
  BY DEF TypeOK
<1>2. /\ FollowingSlot \in Slots
      /\ \A a \in Arms : NextOf(a)' = IF a = arm THEN FollowingSlot ELSE NextOf(a)
  BY NextOfMoves
<1>3. /\ After(sat) \in [1..Duration -> BOOLEAN]
      /\ \A i \in 1..Duration : After(sat)[i] => window[Slot(FollowingSlot, i)]
      /\ ~missed /\ (warned[arm] \/ ~gap[arm]) =>
            \A i \in 1..Duration : After(sat)[i] = window[Slot(FollowingSlot, i)]
  BY ReadingFits
<1>5. /\ \A a \in Arms : a # arm =>
            /\ recent'[a] = recent[a] /\ warned'[a] = warned[a] /\ gap'[a] = gap[a]
            /\ is_saturated'[a] = is_saturated[a] /\ Readings(a)' = Readings(a)
      /\ \A a \in Arms : a = arm =>
            /\ recent'[a] = After(sat) /\ (warned'[a] <=> Full(missed, window))
            /\ gap'[a] <=> missed \/ (gap[a] /\ ~warned[a])
            /\ is_saturated'[a] = IF Full(missed, window) THEN Clear ELSE window
            /\ Readings(a)' = IF Full(missed, window) THEN Nothing ELSE After(sat)
  BY ReadingEffect
<1>6. Count(After(sat)) \in Nat /\ Count(window) \in Nat /\ Count(After(sat)) <= Count(window)
  BY <1>2, <1>3, Counted
<1>7. ~missed /\ (warned[arm] \/ ~gap[arm]) => Count(After(sat)) = Count(window)
  BY <1>2, <1>3, Counted
<1>8. missed => Count(window) <= ErrThresh
  BY <1>1 DEF Reads, Tolerated
<1>9. \A i \in 1..Duration : ~Nothing[i] /\ ~Clear[Slot(FollowingSlot, i)]
  BY <1>2, SlotsUsed DEF Nothing, Clear
<1>10. Kept'
  <2> SUFFICES ASSUME NEW a \in Arms, NEW i \in 1..Duration, Readings(a)'[i]
               PROVE  is_saturated'[a][Slot(NextOf(a)', i)]
    BY DEF Kept, Slot
  <2>1. CASE a # arm
    <3>1. Readings(a)[i] /\ NextOf(a)' = NextOf(a) /\ is_saturated'[a] = is_saturated[a]
      BY <1>2, <1>5, <2>1
    <3> QED BY <3>1 DEF Kept
  <2>2. CASE a = arm
    <3>1. NextOf(a)' = FollowingSlot
      BY <1>2, <2>2
    <3>2. CASE Full(missed, window)
      BY <1>5, <1>9, <2>2, <3>2, Zenon
    <3>3. CASE ~Full(missed, window)
      BY <1>3, <1>5, <2>2, <3>1, <3>3, Zenon
    <3> QED BY <3>2, <3>3
  <2> QED BY <2>1, <2>2
<1>11. Exact'
  <2> SUFFICES ASSUME NEW a \in Arms, warned'[a] \/ ~gap'[a], NEW i \in 1..Duration
               PROVE  Readings(a)'[i] = is_saturated'[a][Slot(NextOf(a)', i)]
    BY DEF Exact, Slot
  <2>1. CASE a # arm
    <3>1. /\ Readings(a)' = Readings(a) /\ NextOf(a)' = NextOf(a)
          /\ is_saturated'[a] = is_saturated[a] /\ warned'[a] = warned[a] /\ gap'[a] = gap[a]
      BY <1>2, <1>5, <2>1
    <3>2. warned[a] \/ ~gap[a]
      BY <3>1, Zenon
    <3> QED BY <3>1, <3>2, Zenon DEF Exact
  <2>2. CASE a = arm
    <3>1. NextOf(a)' = FollowingSlot
      BY <1>2, <2>2
    <3>2. CASE Full(missed, window)
      <4>1. Readings(a)' = Nothing /\ is_saturated'[a] = Clear
        BY <1>5, <2>2, <3>2
      <4>2. Nothing[i] = FALSE /\ Clear[Slot(FollowingSlot, i)] = FALSE
        BY <1>2, SlotsUsed DEF Nothing, Clear
      <4> QED BY <3>1, <4>1, <4>2, Zenon
    <3>3. CASE ~Full(missed, window)
      <4>1. Readings(a)' = After(sat) /\ is_saturated'[a] = window
        BY <1>5, <2>2, <3>3
      <4>2. ~missed /\ (warned[arm] \/ ~gap[arm])
        BY <1>5, <2>2, <3>3, Zenon
      <4> QED BY <1>3, <3>1, <4>1, <4>2, Zenon
    <3> QED BY <3>2, <3>3
  <2> QED BY <2>1, <2>2
<1>12. Tolerated'
  <2> SUFFICES ASSUME NEW a \in Arms PROVE Count(is_saturated'[a]) <= ErrThresh
    BY DEF Tolerated, Count
  <2>1. CASE a # arm
    BY <1>5, <2>1 DEF Tolerated
  <2>2. CASE a = arm /\ Full(missed, window)
    <3>1. is_saturated'[a] = Clear
      BY <1>5, <2>2
    <3> QED BY <3>1, CountNone
  <2>3. CASE a = arm /\ ~Full(missed, window)
    <3>1. is_saturated'[a] = window
      BY <1>5, <2>3
    <3> QED BY <1>6, <1>8, <2>3, <3>1 DEF Full
  <2> QED BY <2>1, <2>2, <2>3
<1>13. SaturationComplete'
  <2> SUFFICES ASSUME NEW a \in Arms, Count(recent'[a]) > ErrThresh PROVE warned'[a]
    BY DEF SaturationComplete, Count
  <2>1. CASE a # arm
    BY <1>5, <2>1 DEF SaturationComplete
  <2>2. CASE a = arm
    <3>1. Count(After(sat)) > ErrThresh
      BY <1>5, <2>2
    <3>2. Full(missed, window)
      BY <1>6, <1>8, <3>1 DEF Full
    <3> QED BY <1>5, <2>2, <3>2
  <2> QED BY <2>1, <2>2
<1>14. SaturationSound'
  <2> SUFFICES ASSUME NEW a \in Arms, warned'[a] PROVE Count(recent'[a]) > ErrThresh \/ gap'[a]
    BY DEF SaturationSound, Count
  <2>1. CASE a # arm
    BY <1>5, <2>1 DEF SaturationSound
  <2>2. CASE a = arm
    <3>1. Full(missed, window)
      BY <1>5, <2>2
    <3>2. CASE warned[arm] \/ ~gap[arm]
      <4>1. Count(After(sat)) > ErrThresh
        BY <1>6, <1>7, <3>1, <3>2 DEF Full
      <4> QED BY <1>5, <2>2, <4>1
    <3>3. CASE ~warned[arm] /\ gap[arm]
      BY <1>5, <2>2, <3>3
    <3> QED BY <3>2, <3>3, Zenon
  <2> QED BY <2>1, <2>2
<1> QED BY <1>10, <1>11, <1>12, <1>13, <1>14

\* The readings are not touched while the buffers are checked, and a new session starts
\* them anew while the window stays.
LEMMA WindowIdle ==
    ASSUME TypeOK, Kept, Exact, Tolerated, SaturationComplete, SaturationSound,
           CheckBuffer \/ NewSession \/ UNCHANGED vars
    PROVE  Kept' /\ Exact' /\ Tolerated' /\ SaturationComplete' /\ SaturationSound'
<1>1. is_saturated' = is_saturated /\ \A a \in Arms : NextOf(a)' = NextOf(a)
  <2>1. CASE CheckBuffer
    <3>1. \A a \in Arms : ~(a < 1)
      BY DEF Arms
    <3> QED BY <2>1, <3>1, Zenon DEF CheckBuffer, NextArm, currents, NextOf
  <2>2. CASE NewSession
    BY <2>2 DEF NewSession, NextOf
  <2>3. CASE UNCHANGED vars
    BY <2>3 DEF vars, currents, NextOf
  <2> QED BY <2>1, <2>2, <2>3
<1>2. Tolerated'
  BY <1>1 DEF Tolerated, Count
<1>3. CASE CheckBuffer \/ UNCHANGED vars
  <2>1. recent' = recent /\ gap' = gap /\ warned' = warned
    BY <1>3 DEF CheckBuffer, vars, currents
  <2>2. \A a \in Arms : Readings(a)' = Readings(a)
    BY <2>1 DEF Readings, Nothing
  <2>3. Kept' /\ Exact'
    BY <1>1, <2>1, <2>2, Zenon DEF Kept, Exact, Slot
  <2>4. SaturationComplete' /\ SaturationSound'
    BY <2>1 DEF SaturationComplete, SaturationSound, Count
  <2> QED BY <1>2, <2>3, <2>4
<1>4. CASE NewSession
  <2>1. \A a \in Arms : recent'[a] = Nothing /\ ~warned'[a] /\ gap'[a] /\ Readings(a)' = Nothing
    BY <1>4 DEF NewSession, Readings, Nothing
  <2>2. \A i \in 1..Duration : ~Nothing[i]
    BY DEF Nothing
  <2>3. Kept' /\ Exact'
    BY <2>1, <2>2, Zenon DEF Kept, Exact
  <2>4. Count(Nothing) = 0
    BY CountNone
  <2>5. SaturationComplete'
    <3> SUFFICES ASSUME NEW a \in Arms PROVE ~(Count(recent'[a]) > ErrThresh)
      BY DEF SaturationComplete, Count
    <3> QED BY <2>1, <2>4
  <2>6. SaturationSound'
    BY <2>1, Zenon DEF SaturationSound
  <2> QED BY <1>2, <2>3, <2>5, <2>6
<1> QED BY <1>3, <1>4

-----------------------------------------------------------------------------
(* The theorems.                                                           *)

\* The inductive invariant holds at first: the counter starts at its limit, all else is
\* cleared.
LEMMA InitIInv == Init => IInv
<1> SUFFICES ASSUME Init PROVE IInv
  OBVIOUS
<1>1. TypeOK
  <2>1. 1 \in Arms /\ 0 \in Slots /\ 0 \in 0..(Interval + 1) /\ Interval \in 0..Interval
    BY DEF Arms, Slots
  <2>2. /\ high \in [Arms -> 0..(Interval + 1)] /\ gap \in [Arms -> BOOLEAN]
        /\ warned \in [Arms -> BOOLEAN]
    BY <2>1, Zenon DEF Init
  <2>3. is_saturated \in [Arms -> [Slots -> BOOLEAN]] /\ recent \in [Arms -> [1..Duration -> BOOLEAN]]
    BY Cleared, Zenon DEF Init
  <2>4. /\ loop \in {"buffer", "current"} /\ arm \in Arms /\ cnt \in Slots
        /\ rtc_buffer_thresh_exceed_cnt_ \in 0..Interval /\ checks \in 0..2
    BY <2>1 DEF Init
  <2>5. alarm \in BOOLEAN
    BY DEF Init
  <2> QED BY <2>2, <2>3, <2>4, <2>5, Zenon DEF TypeOK
<1>2. CountsAll
  <2> SUFFICES ASSUME NEW m \in 0..(Interval + 1), \A a \in Arms : 0 >= m
               PROVE  Interval >= NArms * m
    BY DEF Init, CountsAll, Since, Position, Arms
  <2>1. m = 0
    BY DEF Arms
  <2> QED BY <2>1
<1>3. CountsOnly
  BY DEF CountsOnly, Init
<1>4. BufferSound /\ SaturationSound
  BY DEF Init, BufferSound, SaturationSound
<1>5. \A a \in Arms : Readings(a) = Nothing /\ recent[a] = Nothing /\ is_saturated[a] = Clear /\ NextOf(a) = 0
  BY DEF Init, Readings, NextOf
<1>6. \A i \in 1..Duration : Nothing[i] = FALSE /\ Clear[Slot(0, i)] = FALSE
  BY SlotsUsed DEF Nothing, Clear, Slots
<1>7. Kept /\ Exact
  BY <1>5, <1>6, Zenon DEF Kept, Exact
<1>8. Tolerated /\ SaturationComplete
  BY <1>5, CountNone DEF Tolerated, SaturationComplete
<1> QED BY <1>1, <1>2, <1>3, <1>4, <1>7, <1>8 DEF IInv

\* And every step keeps it.
LEMMA NextIInv == IInv /\ [Next]_vars => IInv'
<1> SUFFICES ASSUME IInv, [Next]_vars PROVE IInv'
  OBVIOUS
<1>1. /\ TypeOK /\ CountsAll /\ CountsOnly /\ BufferSound
      /\ Kept /\ Exact /\ Tolerated /\ SaturationComplete /\ SaturationSound
  BY DEF IInv
<1>2. TypeOK'
  BY <1>1, NextTypeOK
<1>3. CASE CheckBuffer
  <2>1. PICK long \in BOOLEAN : Checks(long)
    BY <1>1, <1>3, BufferChecked
  <2>2. CountsAll'
    BY <1>1, <2>1, CountsAllKept
  <2>3. CountsOnly' /\ BufferSound'
    BY <1>1, <2>1, CountsOnlyKept
  <2>4. Kept' /\ Exact' /\ Tolerated' /\ SaturationComplete' /\ SaturationSound'
    BY <1>1, <1>3, WindowIdle
  <2> QED BY <1>2, <2>2, <2>3, <2>4 DEF IInv
<1>4. CASE CheckCurrent \/ FetchFails
  <2>1. PICK missed, sat \in BOOLEAN, window \in [Slots -> BOOLEAN] : Reads(missed, sat, window)
    BY <1>1, <1>4, CurrentRead
  <2>2. Kept' /\ Exact' /\ Tolerated' /\ SaturationComplete' /\ SaturationSound'
    BY <1>1, <2>1, WindowKept
  <2>3. UNCHANGED buffers /\ Position' = Position
    BY <2>1 DEF Reads, Position
  <2>4. CountsAll' /\ CountsOnly' /\ BufferSound'
    BY <1>1, <2>3, BuffersIdle
  <2> QED BY <1>2, <2>2, <2>4 DEF IInv
<1>5. CASE NewSession \/ UNCHANGED vars
  <2>1. Kept' /\ Exact' /\ Tolerated' /\ SaturationComplete' /\ SaturationSound'
    BY <1>1, <1>5, WindowIdle
  <2>2. UNCHANGED <<loop, arm, buffers>>
    BY <1>5 DEF NewSession, vars
  <2>3. UNCHANGED buffers /\ Position' = Position
    BY <2>2 DEF buffers, Position
  <2>4. CountsAll' /\ CountsOnly' /\ BufferSound'
    BY <1>1, <2>3, BuffersIdle
  <2> QED BY <1>2, <2>1, <2>4 DEF IInv
<1> QED BY <1>3, <1>4, <1>5 DEF Next

\* The counter of long buffers always stands for the cycles in a row of each arm, and the
\* window of saturations for its last readings.
THEOREM Invariance == Spec => []IInv
<1> QED BY InitIInv, NextIInv, PTL DEF Spec

\* "Display a warning about the number of buffed position commands": while the buffers of
\* all arms are long, the warning comes within Interval checks, whichever arm they are of:
\* the one counter of all the arms misses none.
THEOREM AllLong == Spec => []AllLongWarned
<1>1. IInv => AllLongWarned
  <2> SUFFICES ASSUME IInv, loop = "current", ~alarm, \A a \in Arms : ~(NArms * high[a] <= Interval)
               PROVE  FALSE
    BY DEF AllLongWarned
  <2> DEFINE q == Interval \div NArms
  <2>1. q \in Nat /\ NArms * q <= Interval /\ Interval < NArms * (q + 1)
    BY Quotient
  <2>2. q + 1 \in 0..(Interval + 1)
    BY <2>1, Multiple
  <2> HIDE DEF q
  <2>3. high \in [Arms -> 0..(Interval + 1)] /\ rtc_buffer_thresh_exceed_cnt_ \in 0..Interval
    BY DEF IInv, TypeOK
  <2>4. ASSUME NEW a \in Arms PROVE Since(a) >= q + 1
    <3>1. Since(a) = high[a] /\ high[a] \in Nat
      BY <2>3 DEF Since
    <3>2. high[a] <= q => NArms * high[a] <= NArms * q
      BY <2>1, <3>1, Grows
    <3>3. NArms * high[a] \in Int /\ NArms * q \in Int
      BY <2>1, <3>1
    <3> QED BY <2>1, <3>1, <3>2, <3>3
  <2>5. Position = 1 /\ \A a \in Arms : ~(a < 1)
    BY DEF Position, Arms
  <2>6. rtc_buffer_thresh_exceed_cnt_ >= NArms * (q + 1)
    <3>1. NArms * (q + 1) \in Int
      BY <2>1
    <3>2. \A a \in Arms : Since(a) >= IF a < Position THEN (q + 1) + 1 ELSE q + 1
      BY <2>4, <2>5
    <3>3. rtc_buffer_thresh_exceed_cnt_ >= NArms * (q + 1) + Position - 1
      BY <2>2, <2>5, <3>2 DEF IInv, CountsAll
    <3> QED BY <2>3, <2>5, <3>1, <3>3
  <2> QED BY <2>1, <2>3, <2>6
<1> QED BY <1>1, Invariance, PTL

\* A warning about long buffers is no false alarm: every arm has had its share of the
\* Interval, in checks of it in a row, unless it comes from the very first check of the
\* driver's life, whose counter starts at the limit.
THEOREM BufferSoundness == Spec => []BufferSound
<1>1. IInv => BufferSound
  BY DEF IInv
<1> QED BY <1>1, Invariance, PTL

\* "Display a warning if current saturation is detected multiple times in a short
\* duration": more than err_thresh saturations in a window are always warned of, although
\* the window is a ring that is cleared by warnings and skipped by readings that fail.
THEOREM SaturationsFound == Spec => []SaturationComplete
<1>1. IInv => SaturationComplete
  BY DEF IInv
<1> QED BY <1>1, Invariance, PTL

\* And only they are warned of, unless a reading was missed since the last warning.
THEOREM SaturationsReal == Spec => []SaturationSound
<1>1. IInv => SaturationSound
  BY DEF IInv
<1> QED BY <1>1, Invariance, PTL
=============================================================================
