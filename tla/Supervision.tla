----------------------------- MODULE Supervision -----------------------------
(***************************************************************************)
(* What the Guardian promises its services, whichever Guardian it is: one  *)
(* process for a service at a time, held by one supervisor, who may let    *)
(* go of it (of several at once, when the supervisor itself dies) and take *)
(* it up again; a new process only when there is none.                     *)
(***************************************************************************)
CONSTANTS Services, Procs

VARIABLES copies,   \* the processes of each service
          held      \* services whose process has a supervisor

Init == /\ copies = [s \in Services |-> {}]
        /\ held = {}

Launch(s, p) == /\ copies[s] = {}
                /\ copies' = [copies EXCEPT ![s] = {p}]
                /\ held' = held \cup {s}

Release(ss) == /\ held' = held \ ss
               /\ UNCHANGED copies

TakeUp(s) == /\ copies[s] # {}
             /\ held' = held \cup {s}
             /\ UNCHANGED copies

End(s) == /\ copies' = [copies EXCEPT ![s] = {}]
          /\ held' = held \ {s}

Next == \/ \E s \in Services : \/ \E p \in Procs : Launch(s, p)
                               \/ TakeUp(s) \/ End(s)
        \/ \E ss \in SUBSET Services : Release(ss)

Spec == Init /\ [][Next]_<<copies, held>>

\* At most one process for a service.
OneCopy == \A s \in Services : \A p, q \in copies[s] : p = q
=============================================================================
