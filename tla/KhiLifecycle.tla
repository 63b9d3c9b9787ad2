---------------------------- MODULE KhiLifecycle ----------------------------
(***************************************************************************)
(* What the user of the hardware component is promised, as                 *)
(* khi_hardware/docs/lifecycle.md tabulates it: in Inactive and Active the *)
(* Khi services and publishers are available, in Unconfigured and          *)
(* Finalized they are not, and external commands move the robot in Active  *)
(* only.  A transition first changes the interfaces, then the state, so an *)
(* observer never sees a state whose interfaces are missing (or left over) *)
(* once the transition is over.                                            *)
(***************************************************************************)

VARIABLES
    state,      \* lifecycle state of the hardware component
    services,   \* the seven Khi services exist
    publishers, \* the error and current publishers exist
    operation   \* position commands are forwarded to the robot

vars == <<state, services, publishers, operation>>

States  == {"Unconfigured", "Inactive", "Active", "Finalized"}
Serving == {"Inactive", "Active"}

\* The arrows of the state diagram.  An error brings Inactive and Active back
\* to Unconfigured; shutdown leads to Finalized from everywhere.
Arrows == { <<"Unconfigured", "Inactive">>, <<"Inactive", "Active">>,
            <<"Active", "Inactive">>, <<"Inactive", "Unconfigured">>,
            <<"Active", "Unconfigured">>, <<"Unconfigured", "Finalized">>,
            <<"Inactive", "Finalized">>, <<"Active", "Finalized">> }

Init == /\ state = "Unconfigured"
        /\ services = FALSE
        /\ publishers = FALSE
        /\ operation = FALSE

\* Interfaces are created before Inactive is announced, nowhere else.
Offer == /\ state = "Unconfigured"
         /\ services => services'
         /\ publishers => publishers'
         /\ UNCHANGED <<state, operation>>

\* Interfaces may be withdrawn in any state once commands are stopped, and do
\* not come back before the component has passed through Unconfigured.
Withdraw == /\ ~operation
            /\ services' => services
            /\ publishers' => publishers
            /\ UNCHANGED <<state, operation>>

\* Commands are let through on the way to Active ...
Enable == /\ state = "Inactive"
          /\ services /\ publishers
          /\ operation' = TRUE
          /\ UNCHANGED <<state, services, publishers>>

\* ... and stopped before anything else when it is left.
Disable == /\ operation' = FALSE
           /\ UNCHANGED <<state, services, publishers>>

Move(t) == /\ <<state, t>> \in Arrows
           /\ services = (t \in Serving)
           /\ publishers = (t \in Serving)
           /\ operation = (t = "Active")
           /\ state' = t
           /\ UNCHANGED <<services, publishers, operation>>

Next == Offer \/ Withdraw \/ Enable \/ Disable \/ \E t \in States : Move(t)

Spec == Init /\ [][Next]_vars
=============================================================================
