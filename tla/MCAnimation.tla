----------------------------- MODULE MCAnimation -----------------------------
(***************************************************************************)
(* Two focuses: the workers with any jobs, added and removed by any        *)
(* thread, and multirom_ui() with its animations on top of the workers,    *)
(* where anim_update is the only job.                                      *)
(***************************************************************************)
EXTENDS Animation

VARIABLE focus

MCInit == AnimInit /\ focus \in {"workers", "animation"}

MCWorkersNext ==
    /\ focus = "workers"
    /\ WorkersNext
    /\ \A t \in Threads : want'[t].op = "add" => want'[t].job # Update
    /\ UNCHANGED <<animVars, focus>>

MCAnimNext == focus = "animation" /\ Next /\ UNCHANGED focus

MCNext == MCWorkersNext \/ MCAnimNext

\* The fairness of FairWorkersSpec and of FairAnimSpec.
MCSpec ==
    /\ MCInit /\ [][MCNext]_<<vars, focus>>
    /\ WF_workersVars(focus = "workers" /\ WorkerStep)
    /\ \A t \in Threads : WF_workersVars(focus = "workers" /\ Joined(t))
    /\ WF_vars(focus = "animation" /\ mishap = "none" /\ (Round \/ UpdateStep))
    /\ SF_vars(focus = "animation" /\ mishap = "none" /\ Shutdown)

\* The card belongs to the handlers of the input thread, the progress dots to multirom_ui().
MCOwner == [i \in Items |-> IF i \in Dots THEN Main ELSE "input"]
=============================================================================
