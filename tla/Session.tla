------------------------------- MODULE Session -------------------------------
(***************************************************************************)
(* What a receiver source promises its user.  It is configured with an     *)
(* address while stopped, runs, and while running has sessions on that     *)
(* address, at most one at a time and each closed before it stops.         *)
(***************************************************************************)
CONSTANTS Urls, NULL

VARIABLES url, running, session

vars == <<url, running, session>>

Init == url \in Urls /\ running = FALSE /\ session = NULL

Configure ==
    /\ ~running
    /\ url' \in Urls
    /\ UNCHANGED <<running, session>>

Start ==
    /\ ~running
    /\ running' = TRUE
    /\ UNCHANGED <<url, session>>

Connect ==
    /\ running
    /\ session = NULL
    /\ session' = url
    /\ UNCHANGED <<url, running>>

Disconnect ==
    /\ session # NULL
    /\ session' = NULL
    /\ UNCHANGED <<url, running>>

Stop ==
    /\ running
    /\ session = NULL
    /\ running' = FALSE
    /\ UNCHANGED <<url, session>>

Next == Configure \/ Start \/ Connect \/ Disconnect \/ Stop

Spec == Init /\ [][Next]_vars
=============================================================================
