---------------------------- MODULE JobLifecycle ----------------------------
(***************************************************************************)
(* What a caller who polls or waits for a webhook relies on: an attempt is *)
(* queued, then running, then finished in one of four statuses together    *)
(* with the file it serves, and once finished it never changes.            *)
(***************************************************************************)

CONSTANT Files   \* what an attempt may serve

VARIABLES
    status,   \* Remediation.status
    final     \* Remediation.final_output_uri, "" while blank

jobVars == <<status, final>>

Finished == {"compliant", "noncompliant", "error", "skipped"}

Init == status = "queued" /\ final = ""

Start ==
    /\ status = "queued"
    /\ status' = "running"
    /\ UNCHANGED final

Finish ==
    /\ status = "running"
    /\ status' \in Finished
    /\ final' \in Files

Next == Start \/ Finish

\* Every attempt is started and finished.
Spec == Init /\ [][Next]_jobVars /\ WF_jobVars(Next)
=============================================================================
