----------------------------- MODULE RpcPromise -----------------------------
(***************************************************************************)
(* What OMVAPI.async_call promises to each of its callers, whatever the    *)
(* others do: the appliance executes the call again only when the answer   *)
(* of every earlier execution was lost, and success is the answer to an    *)
(* execution.  A call that fails may have been executed all the same.      *)
(***************************************************************************)
EXTENDS Naturals

CONSTANTS Callers, MaxRetries

VARIABLES
  status,   \* status[c]: new, pending, or how c's last call ended
  done,     \* done[c]: how often the appliance has executed it
  lost      \* lost[c]: how many answers to those executions were lost

Failures == {"api", "auth", "connection", "cancelled"}

Init ==
  /\ status = [c \in Callers |-> "new"]
  /\ done = [c \in Callers |-> 0]
  /\ lost = [c \in Callers |-> 0]

Issue(c) ==
  /\ status[c] # "pending"
  /\ status' = [status EXCEPT ![c] = "pending"]
  /\ done' = [done EXCEPT ![c] = 0]
  /\ lost' = [lost EXCEPT ![c] = 0]

Execute(c) ==
  /\ status[c] = "pending" /\ done[c] = lost[c]
  /\ done' = [done EXCEPT ![c] = @ + 1]

Answer(c) ==
  /\ Execute(c)
  /\ \E outcome \in {"ok", "api"} : status' = [status EXCEPT ![c] = outcome]
  /\ UNCHANGED lost

LoseAnswer(c) ==
  /\ Execute(c) /\ lost[c] <= MaxRetries
  /\ lost' = [lost EXCEPT ![c] = @ + 1]
  /\ \E outcome \in {"pending", "connection"} :
       status' = [status EXCEPT ![c] = outcome]

GiveUp(c) ==
  /\ status[c] = "pending"
  /\ \E outcome \in Failures : status' = [status EXCEPT ![c] = outcome]
  /\ UNCHANGED <<done, lost>>

Next == \E c \in Callers : Issue(c) \/ Answer(c) \/ LoseAnswer(c) \/ GiveUp(c)

Spec == Init /\ [][Next]_<<status, done, lost>>
=============================================================================
