--------------------------- MODULE KhiRead_proofs ---------------------------
(***************************************************************************)
(* Proofs about KhiRead for any number of arms and axes and any requests:  *)
(* the inductive invariant IInv and what follows from it.                  *)
(***************************************************************************)
EXTENDS KhiRead, TLAPS

Ratios(kind) == {kind} \X (Requests \cup {None})

\* The settings of requests have the types of the members they are assigned to.
LEMMA SettingType ==
    ASSUME NEW r \in Requests \cup {None}
    PROVE  /\ Setting(r) \in [enable_n_nm_output  : BOOLEAN,
                              counter_to_n_ratio  : Ratios("n"),
                              counter_to_nm_ratio : Ratios("nm")]
           /\ Setting(r).enable_n_nm_output = (r \in NmRequests)
           /\ Setting(r).counter_to_n_ratio = <<"n", r>>
           /\ Setting(r).counter_to_nm_ratio = <<"nm", r>>
BY DEF Setting, Ratios

\* A plain counter is no ratio.
LEMMA CounterIsNoRatio == /\ Counter = <<"counter", None>>
                          /\ Counter \notin Ratios("n") \cup Ratios("nm")
BY DEF Counter, Ratios

\* Initially nothing has been read or assigned.
LEMMA InitHolds == Init => IInv
<1> SUFFICES ASSUME Init PROVE IInv
  OBVIOUS
<1>1. ft_sensor = Setting(None) /\ Setting(None) \in [enable_n_nm_output  : BOOLEAN,
                                                      counter_to_n_ratio  : Ratios("n"),
                                                      counter_to_nm_ratio : Ratios("nm")]
  BY SettingType DEF Init
<1>2. 1 \in Arms
  BY NArmsAssumption DEF Arms
<1>3. TypeOK
  BY <1>1, <1>2 DEF Init, TypeOK, Ratios
<1>4. Assigned /\ Undisturbed /\ Progress /\ ReadIsWhole /\ NoIndeterminateScale
  BY DEF Init, Assigned, Undisturbed, Progress, ReadIsWhole, NoIndeterminateScale
<1> QED BY <1>3, <1>4 DEF IInv

\* The members change by the service only.
LEMMA ReaderKeepsServer == IInv /\ ReadStep => Assigned'
BY DEF IInv, ReadStep, ReadStart, ReadArm, ReadArmFails, ReadSensor, ReadAxis, Assigned, server

\* read() keeps the invariant.
LEMMA ReadKeeps == IInv /\ ReadStep => IInv'
<1> SUFFICES ASSUME IInv, ReadStep PROVE IInv'
  OBVIOUS
<1>1. Assigned'
  BY ReaderKeepsServer
<1>2. CASE ReadStart
  <2>1. 1 \in Arms
    BY NArmsAssumption DEF Arms
  <2>2. TypeOK'
    BY <1>2, <2>1 DEF IInv, TypeOK, ReadStart, server
  <2>3. /\ rd' = "arms" /\ at' = 1 /\ fresh' = {} /\ ~result' /\ mode' = last /\ req' = req
        /\ last' = last /\ (~torn' => req = None)
    BY <1>2 DEF ReadStart, server
  <2>4. fresh' = 1..(at' - 1)
    BY <2>3
  <2>5. Progress'
    BY <2>1, <2>3, <2>4 DEF Progress
  <2>6. Undisturbed' /\ ReadIsWhole' /\ NoIndeterminateScale'
    BY <2>3 DEF Undisturbed, ReadIsWhole, NoIndeterminateScale
  <2> QED BY <1>1, <2>2, <2>5, <2>6 DEF IInv
<1>3. CASE ReadArm
  <2>1. at \in Arms /\ fresh = 1..(at - 1) /\ rd = "arms" /\ NArms \in Nat \ {0}
    BY <1>3, NArmsAssumption DEF IInv, Progress, ReadArm
  <2>2. fresh' = 1..at /\ fresh' \subseteq Arms
    BY <1>3, <2>1 DEF ReadArm, Arms
  <2>3. 1 \in Axes /\ (at < NArms => at + 1 \in Arms) /\ (~(at < NArms) => fresh' = Arms)
    BY <2>1, <2>2, DimAssumption DEF Arms, Axes, NAxes
  <2>4. TypeOK'
    BY <1>3, <2>2, <2>3 DEF IInv, TypeOK, ReadArm, server
  <2>5. Progress'
    BY <1>3, <2>1, <2>2, <2>3 DEF IInv, Progress, ReadArm, Arms
  <2>6. Undisturbed' /\ ReadIsWhole' /\ NoIndeterminateScale'
    BY <1>3 DEF IInv, Undisturbed, ReadIsWhole, NoIndeterminateScale, ReadArm, server
  <2> QED BY <1>1, <2>4, <2>5, <2>6 DEF IInv
<1>4. CASE ReadArmFails
  <2>1. TypeOK'
    BY <1>4 DEF IInv, TypeOK, ReadArmFails, server
  <2>2. Undisturbed' /\ Progress' /\ ReadIsWhole' /\ NoIndeterminateScale'
    BY <1>4 DEF IInv, Undisturbed, Progress, ReadIsWhole, NoIndeterminateScale, ReadArmFails, server
  <2> QED BY <1>1, <2>1, <2>2 DEF IInv
<1>5. CASE ReadSensor
  <2>1. 1 \in Axes /\ at = 1
    BY <1>5, DimAssumption DEF IInv, Progress, ReadSensor, Axes, NAxes
  <2>2. TypeOK'
    BY <1>5, <2>1 DEF IInv, TypeOK, ReadSensor, server
  <2>3. ~torn => scaled' = (mode \in NmRequests)
    <3> SUFFICES ASSUME ~torn PROVE scaled' = (mode \in NmRequests)
      OBVIOUS
    <3>1. ft_sensor = Setting(mode) /\ mode \in Requests \cup {None}
      BY <1>5 DEF IInv, Undisturbed, Assigned, ReadSensor, TypeOK
    <3> QED BY <1>5, <3>1, SettingType DEF ReadSensor
  <2>4. Progress'
    BY <1>5, <2>1, <2>3 DEF IInv, Progress, ReadSensor
  <2>5. Undisturbed' /\ ReadIsWhole' /\ NoIndeterminateScale'
    BY <1>5 DEF IInv, Undisturbed, ReadIsWhole, NoIndeterminateScale, ReadSensor, server
  <2> QED BY <1>1, <2>2, <2>4, <2>5 DEF IInv
<1>6. CASE ReadAxis
  <2> DEFINE value == IF scaled THEN Ratio(at) ELSE Counter
  <2>1. /\ at \in Axes /\ fresh = Arms /\ rd = "axes" /\ Dim \in Nat \ {0} /\ ~result
        /\ axes' = [axes EXCEPT ![at] = value] /\ axes \in [Axes -> {Counter} \cup Ratios("n") \cup Ratios("nm")]
        /\ UNCHANGED <<fresh, scaled, mode, server, torn>>
    BY <1>6, DimAssumption DEF IInv, Progress, ReadAxis, TypeOK, Ratios
  <2>2. /\ ft_sensor.counter_to_n_ratio \in Ratios("n")
        /\ ft_sensor.counter_to_nm_ratio \in Ratios("nm")
    BY DEF IInv, TypeOK, Ratios
  <2>3. value \in {Counter} \cup Ratios("n") \cup Ratios("nm")
    BY <2>2 DEF Ratio
  <2>4. /\ axes' \in [Axes -> {Counter} \cup Ratios("n") \cup Ratios("nm")]
        /\ axes'[at] = value
        /\ \A x \in Axes \ {at} : axes'[x] = axes[x]
    BY <2>1, <2>3
  <2>5. ~torn => value = Unit(mode, at)
    <3> SUFFICES ASSUME ~torn PROVE value = Unit(mode, at)
      OBVIOUS
    <3>1. ft_sensor = Setting(mode) /\ mode \in Requests \cup {None} /\ scaled = (mode \in NmRequests)
      BY <2>1 DEF IInv, Undisturbed, Assigned, TypeOK, Progress
    <3> QED BY <3>1, SettingType DEF Ratio, Unit
  <2>6. mode # None => value = Counter \/ value[2] # None
    <3> SUFFICES ASSUME mode # None, scaled PROVE value[2] # None
      OBVIOUS
    <3>1. last # None
      BY <2>1 DEF IInv, Undisturbed
    <3> QED BY <3>1 DEF IInv, Assigned, Ratio
  \* The axes up to this one.
  <2>7. 1..at = (1..(at - 1)) \cup {at} /\ 1..at \subseteq Axes /\ at \notin 1..(at - 1)
    BY <2>1 DEF Axes, NAxes
  <2>8. ~torn => \A x \in 1..at : axes'[x] = Unit(mode, x)
    BY <2>1, <2>4, <2>5, <2>7 DEF IInv, Progress
  <2>9. mode # None => \A x \in 1..at : axes'[x] = Counter \/ axes'[x][2] # None
    BY <2>1, <2>4, <2>6, <2>7 DEF IInv, Progress
  <2>10. CASE at < NAxes
    <3>1. rd' = "axes" /\ at' = at + 1 /\ result' = result /\ at + 1 \in Axes /\ (at + 1) - 1 = at
      BY <1>6, <2>1, <2>10 DEF ReadAxis, Axes, NAxes
    <3>2. TypeOK'
      BY <2>1, <2>4, <3>1 DEF IInv, TypeOK, Ratios, server
    <3>3. Progress'
      BY <2>1, <2>8, <2>9, <3>1 DEF IInv, Progress
    <3>4. Undisturbed' /\ ReadIsWhole' /\ NoIndeterminateScale'
      BY <2>1, <3>1 DEF IInv, Undisturbed, ReadIsWhole, NoIndeterminateScale, server
    <3> QED BY <1>1, <3>2, <3>3, <3>4 DEF IInv
  <2>11. CASE ~(at < NAxes)
    <3>1. rd' = "idle" /\ at' = 1 /\ result' = TRUE /\ 1 \in Axes /\ 1..at = Axes
      BY <1>6, <2>1, <2>11 DEF ReadAxis, Axes, NAxes
    <3>2. TypeOK'
      BY <2>1, <2>4, <3>1 DEF IInv, TypeOK, Ratios, server
    <3>3. Progress' /\ Undisturbed'
      BY <2>1, <3>1 DEF IInv, Progress, Undisturbed, server
    <3>4. ReadIsWhole'
      BY <2>1, <2>8, <3>1 DEF ReadIsWhole, Unit
    <3>5. NoIndeterminateScale'
      BY <2>1, <2>9, <3>1 DEF NoIndeterminateScale
    <3> QED BY <1>1, <3>2, <3>3, <3>4, <3>5 DEF IInv
  <2> QED BY <2>10, <2>11
<1> QED BY <1>2, <1>3, <1>4, <1>5, <1>6 DEF ReadStep

\* The service keeps the invariant: a read that it overlaps is torn from then on.
LEMMA ServeKeeps == IInv /\ (Serve \/ \E r \in Requests : ChangeMode(r)) => IInv'
<1> SUFFICES ASSUME IInv, Serve \/ \E r \in Requests : ChangeMode(r) PROVE IInv'
  OBVIOUS
<1>1. CASE \E r \in Requests : ChangeMode(r)
  <2>1. TypeOK'
    BY <1>1 DEF IInv, TypeOK, ChangeMode, reader
  <2>2. Assigned'
    BY <1>1, RequestsAssumption DEF IInv, Assigned, ChangeMode
  <2>3. UNCHANGED reader /\ last' = last /\ (torn' <=> torn \/ rd # "idle")
    BY <1>1 DEF IInv, TypeOK, ChangeMode
  <2>4. Undisturbed'
    BY <2>3 DEF IInv, Undisturbed, reader
  <2>5. Progress'
    BY <2>3 DEF IInv, Progress, reader, Unit
  <2>6. ReadIsWhole' /\ NoIndeterminateScale'
    BY <2>3 DEF IInv, ReadIsWhole, NoIndeterminateScale, reader, Unit
  <2> QED BY <2>1, <2>2, <2>4, <2>5, <2>6 DEF IInv
<1>2. CASE \E f \in Fields : Assign(f)
  <2>1. PICK f \in Fields : Assign(f)
    BY <1>2
  <2>2. /\ req \in Requests /\ f \in left /\ left' = left \ {f} /\ req' = req /\ last' = last
        /\ ft_sensor' = [ft_sensor EXCEPT ![f] = Setting(req)[f]]
        /\ UNCHANGED <<reader, torn>>
    BY <2>1 DEF IInv, TypeOK, Assigned, Assign
  <2>3. /\ Setting(req) \in [enable_n_nm_output  : BOOLEAN,
                             counter_to_n_ratio  : Ratios("n"),
                             counter_to_nm_ratio : Ratios("nm")]
        /\ Setting(req).counter_to_n_ratio = <<"n", req>>
        /\ Setting(req).counter_to_nm_ratio = <<"nm", req>>
        /\ ft_sensor \in [enable_n_nm_output  : BOOLEAN,
                          counter_to_n_ratio  : Ratios("n"),
                          counter_to_nm_ratio : Ratios("nm")]
        /\ req # None
    BY <2>2, SettingType, RequestsAssumption DEF IInv, TypeOK, Ratios
  <2>4. ft_sensor' \in [enable_n_nm_output  : BOOLEAN,
                        counter_to_n_ratio  : Ratios("n"),
                        counter_to_nm_ratio : Ratios("nm")]
    BY <2>2, <2>3 DEF Fields
  <2>5. TypeOK'
    BY <2>2, <2>4 DEF IInv, TypeOK, Ratios, reader
  <2>6. /\ ft_sensor'[f] = Setting(req)[f]
        /\ \A g \in Fields \ {f} : ft_sensor'[g] = ft_sensor[g]
    BY <2>2, <2>3 DEF Fields
  <2>7. last # None => /\ ft_sensor'.counter_to_n_ratio[2] # None
                       /\ ft_sensor'.counter_to_nm_ratio[2] # None
    <3>1. /\ ft_sensor'.counter_to_n_ratio \in {ft_sensor.counter_to_n_ratio, <<"n", req>>}
          /\ ft_sensor'.counter_to_nm_ratio \in {ft_sensor.counter_to_nm_ratio, <<"nm", req>>}
      BY <2>3, <2>6 DEF Fields
    <3> QED BY <2>3, <3>1 DEF IInv, Assigned
  <2>8. Assigned'
    BY <2>2, <2>3, <2>6, <2>7 DEF IInv, Assigned
  <2>9. Undisturbed' /\ Progress' /\ ReadIsWhole' /\ NoIndeterminateScale'
    BY <2>2 DEF IInv, Undisturbed, Progress, ReadIsWhole, NoIndeterminateScale, reader, Unit
  <2> QED BY <2>5, <2>8, <2>9 DEF IInv
<1>3. CASE ModeChanged
  <2>1. /\ req \in Requests /\ left = {} /\ last' = req /\ req' = None
        /\ UNCHANGED <<reader, ft_sensor, left, torn>>
    BY <1>3 DEF IInv, TypeOK, ModeChanged
  <2>2. TypeOK'
    BY <2>1 DEF IInv, TypeOK, reader
  <2>3. ft_sensor = Setting(req)
    <3>1. \A f \in Fields : ft_sensor[f] = Setting(req)[f]
      BY <2>1, RequestsAssumption DEF IInv, Assigned
    <3>2. /\ ft_sensor \in [enable_n_nm_output  : BOOLEAN,
                            counter_to_n_ratio  : Ratios("n"),
                            counter_to_nm_ratio : Ratios("nm")]
          /\ Setting(req) \in [enable_n_nm_output  : BOOLEAN,
                               counter_to_n_ratio  : Ratios("n"),
                               counter_to_nm_ratio : Ratios("nm")]
      BY <2>1, SettingType DEF IInv, TypeOK, Ratios
    <3> QED BY <3>1, <3>2 DEF Fields
  <2>4. Assigned'
    BY <2>1, <2>3, SettingType, RequestsAssumption DEF Assigned
  <2>5. Undisturbed'
    BY <2>1, RequestsAssumption DEF IInv, Undisturbed, reader
  <2>6. Progress' /\ ReadIsWhole' /\ NoIndeterminateScale'
    BY <2>1 DEF IInv, Progress, ReadIsWhole, NoIndeterminateScale, reader, Unit
  <2> QED BY <2>2, <2>4, <2>5, <2>6 DEF IInv
<1> QED BY <1>1, <1>2, <1>3 DEF Serve

\* Every reachable state satisfies the inductive invariant: how far the two threads
\* are, and what each has seen of the other.
THEOREM Invariance == Spec => []IInv
<1>1. IInv /\ UNCHANGED vars => IInv'
  BY DEF IInv, TypeOK, Assigned, Undisturbed, Progress, ReadIsWhole, NoIndeterminateScale, vars,
         reader, server, Unit
<1>2. IInv /\ [Next]_vars => IInv'
  BY <1>1, ReadKeeps, ServeKeeps DEF Next
<1> QED BY <1>2, InitHolds, PTL DEF Spec

\* A read() that succeeds without a request in its way is whole: every arm and every
\* axis is of this cycle and of one mode.
THEOREM WholeReads == Spec => []ReadIsWhole
<1>1. IInv => ReadIsWhole
  BY DEF IInv
<1> QED BY <1>1, Invariance, PTL

\* Once a request has been finished no published value is scaled with an indeterminate
\* ratio, in whatever order the members are assigned.
THEOREM ScaleDeterminate == Spec => []NoIndeterminateScale
<1>1. IInv => NoIndeterminateScale
  BY DEF IInv
<1> QED BY <1>1, Invariance, PTL
=============================================================================
