------------------------ MODULE ExclusiveMaintenance ------------------------
(***************************************************************************)
(* What the control plane promises, without leases, journals or messages:  *)
(* disruptive work runs on one host at a time, only behind held admission  *)
(* barriers on every host, and after it the barriers are lifted only once  *)
(* the runtime has been verified.                                          *)
(***************************************************************************)
CONSTANT Hosts

VARIABLES held,     \* hosts whose barrier no timeout opens
          native,   \* hosts with unfinished or failed disruptive work
          proved    \* no granted work since the runtime was last verified

Init == held = {} /\ native = {} /\ proved = TRUE

Hold(h) == held' = held \cup {h} /\ UNCHANGED <<native, proved>>

Grant == held = Hosts /\ native = {} /\ proved' = FALSE
         /\ UNCHANGED <<held, native>>

Begin(h) == held = Hosts /\ native = {} /\ ~proved /\ native' = {h}
            /\ UNCHANGED <<held, proved>>

End(h) == native = {h} /\ native' = {} /\ UNCHANGED <<held, proved>>

Verify == native = {} /\ proved' = TRUE /\ UNCHANGED <<held, native>>

Lift(h) == native = {} /\ proved /\ held' = held \ {h}
           /\ UNCHANGED <<native, proved>>

Next == Grant \/ Verify \/ \E h \in Hosts : Hold(h) \/ Begin(h) \/ End(h) \/ Lift(h)

Spec == Init /\ [][Next]_<<held, native, proved>>
============================================================================
