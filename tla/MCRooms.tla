------------------------------- MODULE MCRooms -------------------------------
(* Three tasks among the gates of one room, or three calls of the registry of *)
(* rooms: the behaviour picks one of the two (part) and stays with it.        *)
EXTENDS RoomGates, RoomRegistry, TLC

CONSTANTS t1, t2, t3, s1, s2

Tasks == Permutations({t1, t2, t3}) \cup Permutations({s1, s2})

\* The operations that take the gates from the outside in, with the agent's and
\* the publication's, or with those of comments and publication activation.
Inward == {"receive_update", "put_asset", "label", "write_session", "checkpoint",
           "restore", "agent_checkpoint", "purge"}
MCGateMixes == {Inward \cup {"agent_apply", "publish", "publish_new"},
                Inward \cup {"accept", "reject", "rendered_comment", "activate"}}
\* One comment beside one agent request.
MCGateOrder == {{"accept", "agent_apply"}}
\* One tracked change decided over a socket.
MCGateRevision == {{"decide"}}

VARIABLE part

RoomsInit ==
  /\ part \in {"gates", "registry"}
  /\ GateInit /\ RegInit
  /\ part # "gates" => gateMix = CHOOSE M \in GateMixes : TRUE

RoomsNext ==
  \/ part = "gates" /\ GateNext /\ UNCHANGED regVars
  \/ part = "registry" /\ RegNext /\ UNCHANGED gateVars

RoomsSpec == RoomsInit /\ [][part' = part /\ RoomsNext]_<<part, gateVars, regVars>>
=============================================================================
