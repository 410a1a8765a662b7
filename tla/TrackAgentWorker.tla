-------------------------- MODULE TrackAgentWorker --------------------------
(***************************************************************************)
(* The two pages the Track Agent Worker serves.  They share the access     *)
(* check and no state, so a visit to one is explored apart from a visit to *)
(* the other.                                                              *)
(***************************************************************************)
EXTENDS TrackAgent, TireAdvisor

VARIABLE page            \* the page opened

workerVars == <<vars, advisorVars, page>>

WorkerInit ==
    /\ Init /\ AdvisorInit
    /\ page \in {"review", "advisor"}

WorkerNext ==
    \/ page = "review" /\ Next /\ UNCHANGED <<advisorVars, page>>
    \/ page = "advisor" /\ AdvisorNext /\ UNCHANGED <<vars, page>>

WorkerSpec ==
    WorkerInit /\ [][WorkerNext]_workerVars /\ WF_vars(Server) /\ WF_vars(Replies)
=============================================================================
