----------------------------- MODULE AgentStatus -----------------------------
(***************************************************************************)
(* What the registry promises about the status of an agent, with nothing   *)
(* of how it is kept: no requests, no sweeps, no endpoints.  An agent is   *)
(* published once, administrators decide a status, health observations     *)
(* move a live agent but never an inactive one, and a proxied call that    *)
(* began while the agent was degraded may heal it when it ends, however    *)
(* late that is.  AgentRegistry implements this specification.             *)
(***************************************************************************)
CONSTANTS
  Agents,          \* agent ids
  Builtin,         \* the agents whose row the server creates at boot
  AdminStatuses    \* the statuses administrators write

VARIABLES
  status,          \* status[a]: the agent's status, "absent" before its row exists
  late             \* late[a]: a call that saw the agent degraded is in flight

vars == <<status, late>>

Live == {"active", "degraded"}
Statuses == Live \union {"inactive"}

Init ==
  /\ status = [a \in Agents |-> IF a \in Builtin THEN "active" ELSE "absent"]
  /\ late = [a \in Agents |-> FALSE]

\* The agent's row is inserted with the column's default status.
Publish(a) ==
  /\ status[a] = "absent"
  /\ status' = [status EXCEPT ![a] = "active"]
  /\ UNCHANGED late

\* An administrator writes a status.
Decide(a, s) ==
  /\ status[a] # "absent"
  /\ s \in AdminStatuses
  /\ status' = [status EXCEPT ![a] = s]
  /\ UNCHANGED late

\* A health check moves a live agent.
Observe(a, s) ==
  /\ status[a] \in Live
  /\ s \in Statuses
  /\ status' = [status EXCEPT ![a] = s]
  /\ UNCHANGED late

\* A call that sees the agent degraded starts.
CallDegraded(a) ==
  /\ status[a] = "degraded"
  /\ late' = [late EXCEPT ![a] = TRUE]
  /\ UNCHANGED status

\* Such a call ends, alone or not, and heals the agent or leaves it alone.
EndCall(a) ==
  /\ late[a]
  /\ status' \in {status, [status EXCEPT ![a] = "active"]}
  /\ \E b \in BOOLEAN : late' = [late EXCEPT ![a] = b]

\* The process starts again: calls are gone, built-in agents are active.
Restart ==
  /\ status' = [a \in Agents |-> IF a \in Builtin THEN "active" ELSE status[a]]
  /\ late' = [a \in Agents |-> FALSE]

Next ==
  \/ \E a \in Agents :
       \/ Publish(a)
       \/ CallDegraded(a)
       \/ EndCall(a)
       \/ \E s \in Statuses : Decide(a, s) \/ Observe(a, s)
  \/ Restart

Spec == Init /\ [][Next]_vars
=============================================================================
