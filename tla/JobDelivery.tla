---------------------------- MODULE JobDelivery ----------------------------
(***************************************************************************)
(* What the job queue promises the rest of the backend, without lists,     *)
(* locks or workers: a submitted job is handed to an executor at most      *)
(* once.  A job that was taken may come back before it is handed over; one *)
(* that was withdrawn (cancelled, evicted, or lost with the process that   *)
(* had taken it) or handed over never comes back.                          *)
(***************************************************************************)
CONSTANT Jobs

VARIABLE state

States == {"new", "waiting", "taken", "delivered", "gone"}

Init == state = [j \in Jobs |-> "new"]

Move(j, from, to) ==
    /\ state[j] = from
    /\ state' = [state EXCEPT ![j] = to]

Submit(j)  == Move(j, "new", "waiting")
Take(j)    == Move(j, "waiting", "taken")
Return(j)  == Move(j, "taken", "waiting")
Deliver(j) == Move(j, "taken", "delivered")

(* Several jobs may go at once: those of one list, or of one process.      *)
Withdraw(S) ==
    /\ \A j \in S : state[j] \in {"waiting", "taken"}
    /\ state' = [j \in Jobs |-> IF j \in S THEN "gone" ELSE state[j]]

Next ==
    \/ \E j \in Jobs : Submit(j) \/ Take(j) \/ Return(j) \/ Deliver(j)
    \/ \E S \in SUBSET Jobs : Withdraw(S)

Spec == Init /\ [][Next]_state

TypeOK == state \in [Jobs -> States]
=============================================================================
