---------------------------- MODULE SingleWorker ----------------------------
(***************************************************************************)
(* What the Manager promises about the goroutine behind an instance: there *)
(* is at most one at a time, and one that has been told to stop does stop. *)
(* Module Manager is shown to implement this one.                          *)
(***************************************************************************)
CONSTANTS Workers, NoWorker

VARIABLES worker,  \* the worker at work, if any
          told     \* it has been told to stop

wvars == <<worker, told>>

Init == worker = NoWorker /\ told = FALSE

Start(w) == worker = NoWorker /\ worker' = w /\ told' = FALSE
Tell == worker # NoWorker /\ worker' = worker /\ told' = TRUE
\* A worker may end of its own accord, or with the process.
End == worker # NoWorker /\ worker' = NoWorker /\ told' = FALSE

Next == (\E w \in Workers : Start(w)) \/ Tell \/ End

Safety == Init /\ [][Next]_wvars
Spec == Safety /\ WF_wvars(told /\ End)
=============================================================================
