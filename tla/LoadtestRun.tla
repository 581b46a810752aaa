----------------------------- MODULE LoadtestRun -----------------------------
(***************************************************************************)
(* What one caller of nl6-loadtest can observe: it starts the program, the *)
(* program ends with an exit status, and the JSON sidecar holds the ledger *)
(* of this run, or still holds whatever an earlier run left there.         *)
(***************************************************************************)
VARIABLES
    status,  \* "idle", "running" or "done"
    rc,      \* the exit status of the last run that ended
    fresh    \* the sidecar was written by the last run

vars == <<status, rc, fresh>>

\* (exit status, sidecar written) of a run that ended.  Every run that has a
\* ledger writes it before it exits, but exit 1 is also what an uncaught
\* SystemExit message or a traceback leaves, and those write nothing.
Outcomes ==
    {<<"0", TRUE>>, <<"1", TRUE>>, <<"2", TRUE>>, <<"killed", TRUE>>,
     <<"1", FALSE>>, <<"2", FALSE>>, <<"killed", FALSE>>}

Init == status = "idle" /\ rc = "none" /\ fresh = FALSE

Begin ==
    /\ status \in {"idle", "done"}
    /\ status' = "running" /\ rc' = "none" /\ fresh' = FALSE

\* The sidecar is written while the run is still going.
Write ==
    /\ status = "running" /\ ~fresh
    /\ fresh' = TRUE
    /\ UNCHANGED <<status, rc>>

End ==
    /\ status = "running"
    /\ status' = "done"
    /\ <<rc', fresh>> \in Outcomes
    /\ UNCHANGED fresh

Next == Begin \/ Write \/ End

Spec == Init /\ [][Next]_vars
=============================================================================
