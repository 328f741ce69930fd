------------------------------ MODULE MCThreads ------------------------------
(* The two components made of threads that wait for one another: the service of *)
(* several sources, with its processes, and the GPU-resident replay, with its    *)
(* streams.  `part` picks the one a behaviour runs; the variables of the other  *)
(* keep their initial values.                                                   *)
EXTENDS SynchronousEnv, GpuResidentReplay

VARIABLE part

InService(A) == part = "service" /\ A /\ UNCHANGED <<part, gpVars>>
InReplay(A)  == part = "replay" /\ A /\ UNCHANGED <<part, vars>>

MCInit == part \in {"service", "replay"} /\ Init /\ GpInit

MCSpec ==
    /\ MCInit
    /\ [][InService(Next) \/ InReplay(GpNext)]_<<part, vars, gpVars>>

(* The fairness of each part's own specification: FairSpec and GpFairSpec.      *)
ServiceFairness ==
    /\ \A s \in Sources :
         /\ WF_vars(InService(Thread(s)))
         /\ WF_vars(InService(SendClose(s))) /\ WF_vars(InService(Spawn(s)))
    /\ WF_vars(InService(AwaitStartup)) /\ WF_vars(InService(Join))
    /\ WF_vars(InService(JoinFails)) /\ WF_vars(InService(Timeout))
    /\ WF_vars(InService(BeginClose /\ pc = "failing"))
    /\ WF_vars(InService(Terminate)) /\ WF_vars(InService(Shutdown))

ReplayFairness ==
    /\ WF_gpVars(InReplay(Collect(Add)))
    /\ WF_gpVars(InReplay(ExecuteClone \/ ExecuteTrain))
    /\ WF_gpVars(InReplay(ExecuteCopy \/ ExecuteGather \/ ExecuteWait))
    /\ SF_gpVars(InReplay(Sync)) /\ SF_gpVars(InReplay(GpLearner))

MCFairSpec == MCSpec /\ ServiceFairness /\ ReplayFairness
=============================================================================
