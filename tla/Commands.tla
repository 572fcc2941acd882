------------------------------ MODULE Commands ------------------------------
(***************************************************************************)
(* Commands for the containers, virtual machines, compose projects and     *)
(* jobs of the appliance: the switches (switch.py), the buttons            *)
(* (button.py) and the services (services.py), through the execute methods *)
(* of the coordinator.                                                     *)
(*                                                                         *)
(* The compose plugin answers to the service name "Compose" or "compose";  *)
(* a command is sent under the first name and, on any error, again under   *)
(* the second.  Under each name the client repeats the call after an error *)
(* of the connection (omv_api.py:413-446).  Containers are known by their  *)
(* name but commanded by their Docker id, which changes when the container *)
(* is recreated.                                                           *)
(*                                                                         *)
(* Modelled from the call on: a service that is given a name of no record  *)
(* (services.py refuses a project or a job, and passes a container's on)   *)
(* does not get here.                                                      *)
(*                                                                         *)
(* Home Assistant serialises the calls of a platform (PARALLEL_UPDATES =   *)
(* 1) but not those of services.  A switch shows what it hopes for as soon *)
(* as it is operated and what the data say at each listener call.          *)
(***************************************************************************)
EXTENDS Integers, FiniteSets

CONSTANTS
  Containers, Vms, Projects, Jobs,   \* what there is to command
  Plugin,       \* the names among "Compose", "compose" that the plugin has
  MaxRetries,   \* max_retries of async_call: 3 in the program
  MaxId,        \* bound: a container is recreated MaxId - 1 times
  MaxEvents     \* bound: commands, and guests started or stopped by others

Guests == Containers \cup Vms
Targets == Guests \cup Projects \cup Jobs
Callers == {"switch", "button", "service"}
Names == {"Compose", "compose"}

ASSUME TargetsAssumption ==
  \A S, T \in {Containers, Vms, Projects, Jobs} : S # T => S \cap T = {}
ASSUME PluginAssumption == Plugin \subseteq Names
ASSUME RetriesAssumption == MaxRetries \in Nat
ASSUME BoundsAssumption == MaxId \in Nat \ {0} /\ MaxEvents \in Nat

Record == [id : 1..MaxId, running : BOOLEAN]
Call == [at : {"idle", "Compose", "compose", "single", "done", "failed", "refresh"},
         target : Targets \cup {"none"},
         command : {"none", "start", "stop", "restart", "run"},
         id : 1..MaxId, tries : 0..MaxRetries, done : 0..2 * (MaxRetries + 1),
         lost : BOOLEAN, broken : BOOLEAN, current : BOOLEAN]
NoCall == [at |-> "idle", target |-> "none", command |-> "none", id |-> 1,
           tries |-> 0, done |-> 0, lost |-> FALSE, broken |-> FALSE, current |-> FALSE]

VARIABLES
  omv,        \* the appliance: the record of each target
  data,       \* coordinator.data, unchanged records of projects and jobs included
  poll,       \* where the refresh is
  got,        \* what it has read, or the data
  requested,  \* who began it: the debouncer, or the timer
  debounce,   \* the coordinator's debouncer
  shown,      \* the state that each switch shows
  bound,      \* the id that the entities of a target took from their setup
  call,       \* what each caller does, with the tries that its attempt under
              \* this name has behind it, and the history of the call:
              \* executions, answers lost after one, errors of the connection,
              \* and whether the data have its target's id all the time
  events

vars == <<omv, data, poll, got, requested, debounce, shown, bound, call, events>>
refresh == <<poll, got, requested, debounce>>

TypeOK ==
  /\ omv \in [Targets -> Record] /\ data \in [Targets -> Record]
  /\ poll \in {"idle", "started", "read"}
  /\ got \in [Targets -> Record]
  /\ requested \in BOOLEAN
  /\ debounce \in {"free", "cooling", "again"}
  /\ shown \in [Guests -> BOOLEAN]
  /\ bound \in [Targets -> 1..MaxId]
  /\ call \in [Callers -> Call]
  /\ events \in 0..MaxEvents

\* A setup has finished.
Init ==
  /\ omv = [t \in Targets |-> [id |-> 1, running |-> FALSE]]
  /\ data = omv
  /\ poll = "idle" /\ got = data /\ requested = FALSE /\ debounce = "free"
  /\ shown = [g \in Guests |-> omv[g].running]
  /\ bound = [t \in Targets |-> omv[t].id]
  /\ call = [c \in Callers |-> NoCall]
  /\ events = 0

-----------------------------------------------------------------------------
(* The appliance, by itself.                                               *)

GuestChanges(g) ==
  /\ events < MaxEvents
  /\ events' = events + 1
  /\ omv' = [omv EXCEPT ![g].running = ~@]
  /\ UNCHANGED <<data, refresh, shown, bound, call>>

\* compose down and up after an image pull: the same name, another id.
Recreated(c) ==
  /\ omv[c].id < MaxId
  /\ omv' = [omv EXCEPT ![c] = [id |-> @.id + 1, running |-> TRUE]]
  /\ call' = [x \in Callers |-> IF call[x].target = c
                                THEN [call[x] EXCEPT !.current = FALSE] ELSE call[x]]
  /\ UNCHANGED <<data, refresh, shown, bound, events>>

-----------------------------------------------------------------------------
(* The coordinator's refreshes.                                            *)

TimerPoll ==
  /\ poll = "idle"
  /\ poll' = "started" /\ requested' = FALSE
  /\ UNCHANGED <<omv, data, got, debounce, shown, bound, call, events>>

CooldownEnds ==
  /\ debounce # "free"
  /\ debounce' = "free"
  /\ IF debounce = "again" /\ poll = "idle"
     THEN poll' = "started" /\ requested' = TRUE
     ELSE UNCHANGED <<poll, requested>>
  /\ UNCHANGED <<omv, data, got, shown, bound, call, events>>

\* getContainerList and getVmList.
ListsRead ==
  /\ poll = "started"
  /\ poll' = "read" /\ got' = omv
  /\ UNCHANGED <<omv, data, requested, debounce, shown, bound, call, events>>

\* The refresh ends; the call that waits for it is over.
PollReturns ==
  /\ poll = "read"
  /\ poll' = "idle" /\ got' = data' /\ requested' = FALSE
  /\ debounce' = IF requested THEN "cooling" ELSE debounce
  /\ call' = [c \in Callers |-> IF requested /\ call[c].at = "refresh" THEN NoCall ELSE call[c]]

\* Mutant: the switch keeps its optimistic state.
KeepsShown == UNCHANGED shown

\* _handle_coordinator_update of the switches.
SyncSwitches == shown' = [g \in Guests |-> data'[g].running]

Publish ==
  /\ data' = got
  /\ PollReturns
  /\ SyncSwitches
  /\ UNCHANGED <<omv, bound, events>>

\* The last data stay; the listeners may be called all the same.
PollFails ==
  /\ UNCHANGED <<omv, data, bound, events>>
  /\ PollReturns
  /\ UNCHANGED shown \/ SyncSwitches

-----------------------------------------------------------------------------
(* A command.                                                              *)

\* The ids of entities are those of their setup; a VM has only its name.
BoundId(t) == IF t \in Containers THEN bound[t] ELSE 1

\* Mutant: the service takes the id that the entities know.
ResolveAsEntities(t) == BoundId(t)

\* _resolve_container_id, _resolve_project_uuid, _resolve_rsync_uuid.
Resolve(t) == data[t].id

Begin(c, t, command, id) ==
  /\ events < MaxEvents
  /\ events' = events + 1
  /\ call' = [call EXCEPT ![c] =
       [NoCall EXCEPT !.at = IF t \in Containers \cup Projects THEN "Compose" ELSE "single",
                      !.target = t, !.command = command, !.id = id,
                      !.current = (data[t].id = omv[t].id)]]

\* async_turn_on, async_turn_off.
Operate(g, command) ==
  /\ call["switch"].at = "idle"
  /\ Begin("switch", g, command, BoundId(g))
  /\ shown' = [shown EXCEPT ![g] = (command = "start")]
  /\ UNCHANGED <<omv, data, refresh, bound>>

\* async_press of the restart and run buttons.
PressButton(t) ==
  /\ call["button"].at = "idle"
  /\ Begin("button", t, IF t \in Guests THEN "restart" ELSE "run", BoundId(t))
  /\ UNCHANGED <<omv, data, refresh, shown, bound>>

\* The container, compose and rsync services; what else they can ask of a
\* container (restart, pause) differs only in its effect.
CallService(t, command) ==
  /\ call["service"].at = "idle"
  /\ t \in Containers <=> command # "run"
  /\ Begin("service", t, command, Resolve(t))
  /\ UNCHANGED <<omv, data, refresh, shown, bound>>

\* The appliance knows what call c addresses.
Accepted(c) ==
  /\ call[c].at \in Plugin \cup {"single"}
  /\ call[c].id = omv[call[c].target].id

\* Mutant: the error of the last name is swallowed.
SwallowsLast(at) == IF at = "Compose" THEN "compose" ELSE "done"

\* Mutant: the names are tried in turn for ever.
TriesForever(at) == IF at = "Compose" THEN "compose" ELSE "Compose"

\* An answered error takes the call to the plugin's other name, or ends it.
NextName(at) == IF at = "Compose" THEN "compose" ELSE "failed"

\* Mutant: the loop over the names goes on after a success.
NextWhateverHappens(at) == NextName(at)

AfterSuccess(at) == "done"

\* What an executed command makes of a target.
Effect(r, command) ==
  [r EXCEPT !.running = CASE command = "stop" -> FALSE
                          [] command \in {"start", "restart"} -> TRUE
                          [] OTHER -> @]

Attempting(c) == call[c].at \in Names \cup {"single"}

\* What follows an error of the connection: the next try under the same name,
\* or, after the last one, the next name.  The call that follows a renewed login
\* stands outside the retries, so an error may be the last one at any time.
AfterBreak(r) ==
  {[at |-> NextName(r.at), tries |-> 0]} \cup
  {[at |-> r.at, tries |-> n] : n \in {r.tries + 1} \cap 0..MaxRetries}

Execute(c, next, lost) ==
  LET r == call[c] IN
  /\ Attempting(c) /\ Accepted(c)
  /\ omv' = [omv EXCEPT ![r.target] = Effect(@, r.command)]
  /\ call' = [call EXCEPT ![c] = [r EXCEPT !.at = next.at, !.tries = next.tries,
                                  !.done = r.done + 1, !.lost = r.lost \/ lost,
                                  !.broken = r.broken \/ lost]]
  /\ UNCHANGED <<data, refresh, shown, bound, events>>

Executed(c) == Execute(c, [at |-> AfterSuccess(call[c].at), tries |-> 0], FALSE)

\* Executed, but the answer is lost: for the code an error of the connection.
AnswerLost(c) == \E next \in AfterBreak(call[c]) : Execute(c, next, TRUE)

Errs(c, next, broken) ==
  LET r == call[c] IN
  /\ Attempting(c)
  /\ call' = [call EXCEPT ![c] = [r EXCEPT !.at = next.at, !.tries = next.tries,
                                  !.broken = r.broken \/ broken]]
  /\ UNCHANGED <<omv, data, refresh, shown, bound, events>>

\* No such service, no such container.
Rejected(c) ==
  ~Accepted(c) /\ Errs(c, [at |-> NextName(call[c].at), tries |-> 0], FALSE)

ConnectionError(c) == \E next \in AfterBreak(call[c]) : Errs(c, next, TRUE)

\* async_request_refresh, waited for if it begins one.
RequestRefresh(c) ==
  /\ UNCHANGED got
  /\ IF poll = "idle" /\ debounce = "free"
     THEN /\ poll' = "started" /\ requested' = TRUE
          /\ call' = [call EXCEPT ![c] = [NoCall EXCEPT !.at = "refresh"]]
          /\ UNCHANGED debounce
     ELSE /\ debounce' = IF debounce = "cooling" THEN "again" ELSE debounce
          /\ call' = [call EXCEPT ![c] = NoCall]
          /\ UNCHANGED <<poll, requested>>

Succeeds(c) == call[c].at = "done" /\ RequestRefresh(c)

\* Switches and the buttons of VMs and jobs refresh in a finally, the buttons
\* of containers and projects and the services do not get that far.
Fails(c) ==
  /\ call[c].at = "failed"
  /\ IF c = "switch" \/ (c = "button" /\ call[c].target \in Vms \cup Jobs)
     THEN RequestRefresh(c)
     ELSE call' = [call EXCEPT ![c] = NoCall] /\ UNCHANGED refresh

Returns(c) ==
  /\ Succeeds(c) \/ Fails(c)
  /\ UNCHANGED <<omv, data, shown, bound, events>>

-----------------------------------------------------------------------------
Next ==
  \/ \E g \in Guests : GuestChanges(g)
  \/ \E c \in Containers : Recreated(c)
  \/ TimerPoll \/ CooldownEnds \/ ListsRead \/ Publish \/ PollFails
  \/ \E g \in Guests, command \in {"start", "stop"} : Operate(g, command)
  \/ \E t \in Targets : PressButton(t)
  \/ \E t \in Targets \ Vms, command \in {"start", "stop", "run"} : CallService(t, command)
  \/ \E c \in Callers :
       Executed(c) \/ AnswerLost(c) \/ Rejected(c) \/ ConnectionError(c) \/ Returns(c)

Spec == Init /\ [][Next]_vars

(***************************************************************************)
(* The client bounds every call, so polls and commands end; the timers of  *)
(* Home Assistant fire; and the appliance is not unreachable for ever, so  *)
(* polls that are begun again and again succeed now and then.              *)
(***************************************************************************)
Fairness ==
  /\ WF_vars(TimerPoll) /\ WF_vars(CooldownEnds) /\ WF_vars(ListsRead)
  /\ WF_vars(Publish \/ PollFails) /\ SF_vars(Publish)
  /\ \A c \in Callers :
       WF_vars(Executed(c) \/ AnswerLost(c) \/ Rejected(c) \/ ConnectionError(c) \/ Returns(c))

FairSpec == Spec /\ Fairness

-----------------------------------------------------------------------------
(***************************************************************************)
(* Properties.                                                             *)
(***************************************************************************)

\* A command is executed again only after its answer was lost: neither the
\* client's retries nor the fallback to the plugin's other name repeat what is
\* known to have worked.
RepeatedOnlyWhenLost ==
  [][\A c \in Callers :
       call'[c].done > 1 /\ call'[c].done # call[c].done => call[c].lost]_vars

\* A call that raises no error has been executed, and one that was executed
\* raises none unless an answer was lost.
OutcomeIsTold ==
  \A c \in Callers :
    /\ call[c].at = "done" => call[c].done > 0
    /\ call[c].at = "failed" /\ call[c].done > 0 => call[c].lost

\* A command that is refused although nothing broke addressed a container that
\* was recreated: a service since the coordinator last learnt its id, a switch
\* or a button since the setup (they keep the id of their setup through every
\* recreation and every poll).
RefusedOnlyIfStale ==
  [][\A c \in Callers :
       Plugin # {} /\ Fails(c) /\ ~call[c].broken =>
         IF c = "service" THEN ~call[c].current
         ELSE bound[call[c].target] # omv[call[c].target].id]_vars

\* Left alone, every switch comes to show the state of its guest: neither the
\* optimistic state of a failed command nor a poll that was under way when the
\* command was executed lasts.
SwitchesSettle == <>[](\A g \in Guests : shown[g] = omv[g].running)
=============================================================================
