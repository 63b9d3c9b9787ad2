------------------------------- MODULE KhiRead -------------------------------
(***************************************************************************)
(* KhiKrnxDriver::read on the update thread against the service            *)
(* change_ft_output_mode on the spin thread, for a robot whose description *)
(* enables the F/T sensor.  The callback assigns the three members of      *)
(* robot_.ft_sensor that read() scales the sensor data with, and nothing   *)
(* orders the two threads: the assignments can take effect in any order    *)
(* between two accesses of read().                                         *)
(*                                                                         *)
(* A published value is represented by how it was scaled: by the           *)
(* assignment of a request that the ratio it was multiplied with stems     *)
(* from, or as a plain counter.                                            *)
(***************************************************************************)
EXTENDS Naturals

CONSTANTS
    NArms,      \* arms of the robot, read in the order 1..NArms
    Dim,        \* axes of a force, and of a torque: 3 in the program
    Requests,   \* requests of change_ft_output_mode, told apart by their ratios
    NmRequests, \* those that ask for N and Nm
    None        \* no request

VARIABLES
    rd,        \* where read() stands: "idle", "arms", "sensor" or "axes"
    at,        \* the arm or the axis it is at
    fresh,     \* arms whose joint states the last call of read() has updated
    scaled,    \* the branch read() has taken: enable_n_nm_output was true
    result,    \* what the last call of read() returned
    axes,      \* per axis, how the published force or torque is scaled
    ft_sensor, \* the members of KhiFTSensor that the service writes
    req,       \* the request that is served, or None
    left,      \* members it has not written yet
    last,      \* history: the last request that was finished
    mode,      \* history: last, when the last call of read() began
    torn       \* history: a request was served during the last call of read()

reader == <<rd, at, fresh, scaled, result, axes, mode>>
server == <<ft_sensor, req, left, last>>
vars   == <<reader, server, torn>>

Arms   == 1..NArms
NAxes  == Dim + Dim  \* force_x, force_y, force_z, torque_x, torque_y, torque_z
Axes   == 1..NAxes
Forces == 1..Dim

Fields == {"enable_n_nm_output", "counter_to_n_ratio", "counter_to_nm_ratio"}

ASSUME NArmsAssumption    == NArms \in Nat \ {0}
ASSUME DimAssumption      == Dim \in Nat \ {0}
ASSUME RequestsAssumption == NmRequests \subseteq Requests /\ None \notin Requests

-----------------------------------------------------------------------------
Counter == <<"counter", None>>

\* What request r assigns.  Before the first one enable_n_nm_output is false and
\* the ratios, which have no initializer, are indeterminate: those of None.
Setting(r) == [enable_n_nm_output  |-> r \in NmRequests,
               counter_to_n_ratio  |-> <<"n", r>>,
               counter_to_nm_ratio |-> <<"nm", r>>]

Ratio(x) == IF x \in Forces THEN ft_sensor.counter_to_n_ratio ELSE ft_sensor.counter_to_nm_ratio

Init == /\ rd = "idle" /\ at = 1 /\ fresh = {} /\ scaled = FALSE /\ result = FALSE
        /\ axes = [x \in Axes |-> Counter]
        /\ ft_sensor = Setting(None)
        /\ req = None /\ left = {} /\ last = None /\ mode = None
        /\ torn = FALSE

-----------------------------------------------------------------------------
(* read().                                                                 *)

ReadStart ==
    /\ rd = "idle"
    /\ rd' = "arms" /\ at' = 1 /\ fresh' = {} /\ result' = FALSE
    /\ mode' = last /\ torn' = (req # None)
    /\ UNCHANGED <<scaled, axes, server>>

\* Positions and velocities of an arm are fetched and stored.
ReadArm ==
    /\ rd = "arms"
    /\ fresh' = fresh \cup {at}
    /\ IF at < NArms
       THEN at' = at + 1 /\ UNCHANGED rd
       ELSE at' = 1 /\ rd' = "sensor"
    /\ UNCHANGED <<scaled, result, axes, mode, server, torn>>

\* Mutant: the other arms and the sensor are read all the same.
ReadArmFails_GoesOn ==
    /\ rd = "arms"
    /\ IF at < NArms
       THEN at' = at + 1 /\ UNCHANGED rd
       ELSE at' = 1 /\ rd' = "sensor"
    /\ UNCHANGED <<fresh, scaled, result, axes, mode, server, torn>>

\* get_curmotion_data_ex fails: later arms and the sensor keep what was read before.
ReadArmFails ==
    /\ rd = "arms"
    /\ rd' = "idle"
    /\ UNCHANGED <<at, fresh, scaled, result, axes, mode, server, torn>>

\* The sensor data are fetched (zeros when that fails: the result is ignored) and
\* the switch is looked at, once.
ReadSensor ==
    /\ rd = "sensor"
    /\ rd' = "axes" /\ scaled' = ft_sensor.enable_n_nm_output
    /\ UNCHANGED <<at, fresh, result, axes, mode, server, torn>>

\* The ratio is looked up for each axis.
ReadAxis ==
    /\ rd = "axes"
    /\ axes' = [axes EXCEPT ![at] = IF scaled THEN Ratio(at) ELSE Counter]
    /\ IF at < NAxes
       THEN at' = at + 1 /\ UNCHANGED <<rd, result>>
       ELSE at' = 1 /\ rd' = "idle" /\ result' = TRUE
    /\ UNCHANGED <<fresh, scaled, mode, server, torn>>

-----------------------------------------------------------------------------
(* change_ft_output_mode_srv_cb, on the one thread that serves requests.   *)

\* Mutant: the ratios are assigned by requests for N and Nm only.
ChangeMode_SomeFields(r) ==
    /\ req = None
    /\ req' = r
    /\ left' = IF r \in NmRequests THEN Fields ELSE {"enable_n_nm_output"}
    /\ torn' = (torn \/ rd # "idle")
    /\ UNCHANGED <<reader, ft_sensor, last>>

\* Mutant: one ratio is forgotten.
ChangeMode_NoTorque(r) ==
    /\ req = None
    /\ req' = r
    /\ left' = Fields \ {"counter_to_nm_ratio"}
    /\ torn' = (torn \/ rd # "idle")
    /\ UNCHANGED <<reader, ft_sensor, last>>

ChangeMode(r) ==
    /\ req = None
    /\ req' = r
    /\ left' = Fields
    /\ torn' = (torn \/ rd # "idle")
    /\ UNCHANGED <<reader, ft_sensor, last>>

Assign(f) ==
    /\ f \in left
    /\ ft_sensor' = [ft_sensor EXCEPT ![f] = Setting(req)[f]]
    /\ left' = left \ {f}
    /\ UNCHANGED <<reader, req, last, torn>>

ModeChanged ==
    /\ req # None /\ left = {}
    /\ last' = req /\ req' = None
    /\ UNCHANGED <<reader, ft_sensor, left, torn>>

-----------------------------------------------------------------------------
ReadStep == ReadStart \/ ReadArm \/ ReadArmFails \/ ReadSensor \/ ReadAxis

Serve == ModeChanged \/ \E f \in Fields : Assign(f)

Next == ReadStep \/ Serve \/ \E r \in Requests : ChangeMode(r)

Spec == Init /\ [][Next]_vars

\* Both threads go on, and no arm is out of reach for ever: fetching its data
\* succeeds again and again.
Fairness == /\ WF_vars(ReadStep)
            /\ \A a \in Arms : SF_vars(ReadArm /\ at = a)
            /\ WF_vars(Serve)

LiveSpec == Spec /\ Fairness

-----------------------------------------------------------------------------
TypeOK ==
    /\ rd \in {"idle", "arms", "sensor", "axes"}
    /\ at \in Arms \cup Axes
    /\ fresh \subseteq Arms
    /\ scaled \in BOOLEAN /\ result \in BOOLEAN /\ torn \in BOOLEAN
    /\ axes \in [Axes -> {Counter} \cup ({"n", "nm"} \X (Requests \cup {None}))]
    /\ ft_sensor \in [enable_n_nm_output  : BOOLEAN,
                      counter_to_n_ratio  : {"n"} \X (Requests \cup {None}),
                      counter_to_nm_ratio : {"nm"} \X (Requests \cup {None})]
    /\ req \in Requests \cup {None} /\ left \subseteq Fields
    /\ last \in Requests \cup {None} /\ mode \in Requests \cup {None}

\* The scale that request r asks for.
Unit(r, x) ==
    IF r \notin NmRequests THEN Counter
    ELSE IF x \in Forces THEN <<"n", r>> ELSE <<"nm", r>>

\* A read() that returned true and that no request overlapped has updated every
\* arm and scaled all axes alike, as the last request before it asked for.
ReadIsWhole ==
    rd = "idle" /\ result /\ ~torn =>
        fresh = Arms /\ \A x \in Axes : axes[x] = Unit(mode, x)

\* A read() may mix the settings of requests it overlaps, but once a request has
\* been finished none of its values is scaled with a ratio that was never assigned.
NoIndeterminateScale ==
    rd = "idle" /\ result /\ mode # None =>
        \A x \in Axes : axes[x] = Counter \/ axes[x][2] # None

\* A mode that was asked for, and is not replaced, is published in the end,
\* whichever requests were torn before it and however reads fail meanwhile.
ModeAdopted ==
    \A r \in Requests :
        (last = r /\ req = None) ~> (req # None \/ \A x \in Axes : axes[x] = Unit(r, x))

-----------------------------------------------------------------------------
(* The inductive strengthening.                                            *)

\* The members hold the setting of the last request, but for those that the one in
\* progress has written.
Assigned ==
    /\ \A f \in Fields \ left : req # None => ft_sensor[f] = Setting(req)[f]
    /\ req = None => left = {} /\ ft_sensor = Setting(last)
    /\ last # None => /\ ft_sensor.counter_to_n_ratio[2] # None
                      /\ ft_sensor.counter_to_nm_ratio[2] # None

\* A read() that nothing has overlapped sees the setting it began with.
Undisturbed ==
    /\ rd # "idle" /\ ~torn => req = None /\ last = mode
    /\ rd # "idle" /\ mode # None => last # None

\* How far read() is.
Progress ==
    /\ rd = "arms" => at \in Arms /\ fresh = 1..(at - 1)
    /\ rd = "sensor" => at = 1
    /\ rd = "axes" => at \in Axes
    /\ rd \in {"sensor", "axes"} => fresh = Arms
    /\ rd # "idle" => ~result
    /\ rd = "axes" /\ ~torn => /\ scaled = (mode \in NmRequests)
                               /\ \A x \in 1..(at - 1) : axes[x] = Unit(mode, x)
    /\ rd = "axes" /\ mode # None =>
          \A x \in 1..(at - 1) : axes[x] = Counter \/ axes[x][2] # None

IInv == TypeOK /\ Assigned /\ Undisturbed /\ Progress /\ ReadIsWhole /\ NoIndeterminateScale
=============================================================================
