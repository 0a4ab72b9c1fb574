------------------------------ MODULE MCServer ------------------------------
(* What must go on in a running server: saves against the memory budget,      *)
(* callers of the catalogue, and the operations of one room among its gates.  *)
(* The behaviour picks one of them (part) and stays with it; fairness is that *)
(* of the module it picked.                                                   *)
EXTENDS MemoryBudget, CatalogExecution, RoomGates, TLC

CONSTANTS p1, p2, p3, p4, c1, c2, t1, t2

MCGateMixes ==
  LET Inward == {"receive_update", "put_asset", "label", "write_session", "checkpoint",
                 "restore", "agent_checkpoint", "purge"}
  IN {Inward \cup {"agent_apply", "publish", "publish_new"},
      Inward \cup {"accept", "reject", "rendered_comment", "activate"}}

VARIABLE part

serverVars == <<part, vars, execVars, gateVars>>

ServerInit ==
  /\ part \in {"budget", "execution", "gates"}
  /\ Init /\ ExecInit /\ GateInit
  /\ part # "gates" => gateMix = CHOOSE M \in GateMixes : TRUE

Budget(A) == part = "budget" /\ A /\ UNCHANGED <<part, execVars, gateVars>>
Execution(A) == part = "execution" /\ A /\ UNCHANGED <<part, vars, gateVars>>
InRoom(A) == part = "gates" /\ A /\ UNCHANGED <<part, vars, execVars>>

ServerNext == Budget(Next) \/ Execution(ExecNext) \/ InRoom(GateNext)

ServerFairness ==
  /\ \A p \in Producer :
       /\ WF_serverVars(Budget(Advance(p))) /\ WF_serverVars(Budget(Release(p)))
       /\ WF_serverVars(Budget(NotifyWaiters(p)))
  /\ \A c \in Caller : SF_serverVars(Execution(ExecAdvance(c)))
  /\ WF_serverVars(Execution(shuttingDown /\ Shutdown))
  /\ \A t \in GateTask : WF_serverVars(InRoom(GateProgress(t)))
  /\ \A g \in Gates : WF_serverVars(InRoom(GateGrant(g)))

ServerSpec == ServerInit /\ [][ServerNext]_serverVars /\ ServerFairness
=============================================================================
