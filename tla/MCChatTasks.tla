---------------------------- MODULE MCChatTasks -----------------------------
(* ChatTasks for TLC: the tasks are interchangeable.                        *)
EXTENDS ChatTasks, TLC

CONSTANTS protocol, loop, web

CardputerTasks == {protocol, loop}
GatewayTasks   == {protocol, loop, web}

TaskSymmetry == Permutations(Task)
=============================================================================
