---------------------------- MODULE SystemUpdate ----------------------------
(***************************************************************************)
(* Upgrading and rebooting the appliance: the update entity (update.py),   *)
(* the reboot and apply buttons (button.py) and the repair of a pending    *)
(* reboot (repairs.py), on the hwinfo of the coordinator.                  *)
(*                                                                         *)
(* The three tasks run concurrently: Home Assistant serialises the calls   *)
(* of one platform (PARALLEL_UPDATES = 1) but update, button and repair    *)
(* are different ones.  Each begins with async_request_refresh, which the  *)
(* coordinator's debouncer swallows while a poll runs or cools down, and   *)
(* decides on coordinator.data, whatever its age.                          *)
(*                                                                         *)
(* Hwinfo is abstracted to what the decisions read: listed for             *)
(* availablePkgUpdates > 0, reboot and dirty.  The appliance also has      *)
(* packages that are not listed until Apt.update recounts them.            *)
(***************************************************************************)
EXTENDS Integers, FiniteSets

Hwinfo == [listed : BOOLEAN, reboot : BOOLEAN, dirty : BOOLEAN]

CONSTANTS
  FirstHwinfo,  \* the states of the appliance that a setup may find
  MaxPolls,     \* _MAX_POLLS: how often one apt step is polled
  MaxChanges,   \* bound: changes of the appliance nobody in the model makes
  MaxPresses    \* bound: installs, button presses and repair submissions

ASSUME FirstHwinfoAssumption == FirstHwinfo \subseteq Hwinfo
ASSUME BoundsAssumption == MaxPolls \in Nat \ {0} /\ MaxChanges \in Nat /\ MaxPresses \in Nat

Tasks == {"install", "button", "repair"}

VARIABLES
  omv,        \* the appliance: its hwinfo
  packages,   \* packages wait for an upgrade, listed or not
  apt,        \* the background process that holds the package lock
  file,       \* the status file of the process the install awaits
  data,       \* coordinator.data["hwinfo"]
  poll,       \* the refresh that runs, what it has read and who began it
  debounce,   \* the coordinator's debouncer
  issue,      \* the reboot repair is in the issue registry
  at,         \* where each task is
  step,       \* the apt step of the install
  polls,      \* how often the install has polled it
  button,     \* which button was pressed
  held,       \* the repair's hwinfo is still the coordinator's
  outcome,    \* history: of the install, see Outcomes
  outdated,   \* history: who relies on hwinfo the appliance has left
  changes, presses

vars == <<omv, packages, apt, file, data, poll, debounce, issue, at, step,
          polls, button, held, outcome, outdated, changes, presses>>

appliance == <<omv, packages, apt>>
coordinator == <<data, poll, debounce>>
install == <<file, step, polls, outcome>>

\* An upgrade succeeded since the install began; it gave up waiting for a step.
Outcomes == {"none", "upgraded", "gave up"}

Poll == [at : {"idle", "hwinfo", "rest"}, by : {"timer", "debouncer"}, got : Hwinfo]

Places == {"idle", "refresh", "decide", "reboot", "rebooted",
           "call", "wait", "apply", "refresh again", "finish"}

TypeOK ==
  /\ omv \in Hwinfo /\ data \in Hwinfo
  /\ packages \in BOOLEAN
  /\ apt \in {"none", "update", "upgrade"}
  /\ file \in {"running", "ok", "failed"}
  /\ poll \in Poll
  /\ debounce \in {"free", "cooling", "again"}
  /\ issue \in BOOLEAN
  /\ at \in [Tasks -> Places]
  /\ step \in 1..3
  /\ polls \in 0..MaxPolls
  /\ button \in {"reboot", "apply"}
  /\ held \in BOOLEAN
  /\ outcome \in Outcomes
  /\ outdated \subseteq Tasks \cup {"data", "poll"}
  /\ changes \in 0..MaxChanges
  /\ presses \in 0..MaxPresses

NoPoll ==
  [at |-> "idle", by |-> "timer",
   got |-> [listed |-> FALSE, reboot |-> FALSE, dirty |-> FALSE]]

\* A setup has finished.
Init ==
  /\ omv \in FirstHwinfo /\ packages = omv.listed /\ data = omv
  /\ apt = "none" /\ file = "ok"
  /\ poll = NoPoll
  /\ debounce = "free"
  /\ issue = (omv.reboot /\ ~omv.listed /\ ~omv.dirty)
  /\ at = [t \in Tasks |-> "idle"]
  /\ step = 1 /\ polls = 0 /\ button = "reboot"
  /\ held = FALSE /\ outcome = "none"
  /\ outdated = {} /\ changes = 0 /\ presses = 0

\* The appliance takes a state that nobody has read yet.
OmvBecomes(hwinfo) ==
  /\ omv' = hwinfo
  /\ outdated' = IF hwinfo = omv THEN outdated
                 ELSE {t \in Tasks : at[t] = "reboot"} \cup {"data"}
                      \cup (IF poll.at = "rest" THEN {"poll"} ELSE {})

Goto(t, place) == at' = [at EXCEPT ![t] = place]

\* The install is over, with or without an error; its locals go with it.
InstallOver ==
  /\ Goto("install", "idle")
  /\ file' = "ok" /\ step' = 1 /\ polls' = 0 /\ outcome' = "none"

\* async_sync_reboot_repair_issue: the repair is wanted.
RebootPending(hwinfo) == hwinfo.reboot /\ ~hwinfo.listed /\ ~hwinfo.dirty

\* Mutant: the issue of a reboot is raised but never withdrawn.
RaiseOnly(hwinfo) == issue' = (issue \/ RebootPending(hwinfo))

SyncIssue(hwinfo) == issue' = RebootPending(hwinfo)

-----------------------------------------------------------------------------
(* The appliance.                                                          *)

\* Its administrator, its cron jobs: packages appear or are installed, a
\* reboot becomes due or happens, changes are made or applied.
ApplianceChanges ==
  /\ changes < MaxChanges
  /\ changes' = changes + 1
  /\ \E what \in {"listed", "reboot", "dirty"} :
       LET hwinfo == [omv EXCEPT ![what] = ~@] IN
       OmvBecomes(hwinfo) /\ packages' \in {hwinfo.listed, TRUE}
  /\ UNCHANGED <<apt, coordinator, issue, at, install, button, held, presses>>

\* The process ends.  An update recounts the packages; an upgrade installs
\* them and may ask for a reboot or leave changes of the configuration.
AptEnds ==
  /\ apt # "none"
  /\ apt' = "none"
  /\ \/ /\ apt = "update"
        /\ OmvBecomes([omv EXCEPT !.listed = packages])
        /\ UNCHANGED <<packages, outcome>>
        /\ file' = IF file = "running" THEN "ok" ELSE file
     \/ /\ apt = "upgrade"
        /\ \E reboot \in {omv.reboot, TRUE}, dirty \in {omv.dirty, TRUE} :
             OmvBecomes([omv EXCEPT !.reboot = reboot, !.dirty = dirty])
        /\ packages' = FALSE
        /\ outcome' = IF outcome = "none" /\ at["install"] # "idle" THEN "upgraded" ELSE outcome
        /\ file' = IF file = "running" THEN "ok" ELSE file
     \/ /\ file' = IF file = "running" THEN "failed" ELSE file
        /\ UNCHANGED <<omv, packages, outcome, outdated>>
  /\ UNCHANGED <<coordinator, issue, at, step, polls, button, held, changes, presses>>

\* System.reboot: the process dies with the appliance, which comes up clean of
\* the reason for the reboot.
Reboots ==
  /\ OmvBecomes([omv EXCEPT !.reboot = FALSE])
  /\ apt' = "none"
  /\ file' = IF file = "running" THEN "failed" ELSE file
  /\ UNCHANGED packages

-----------------------------------------------------------------------------
(* The coordinator's refreshes.                                            *)

PollBegins(by) == poll' = [NoPoll EXCEPT !.at = "hwinfo", !.by = by]

\* Home Assistant's refresh timer.
TimerPoll ==
  /\ poll.at = "idle"
  /\ PollBegins("timer")
  /\ UNCHANGED <<appliance, data, debounce, issue, at, install, button, held,
                 outdated, changes, presses>>

\* The debouncer's cool-down ends, with the refresh that was asked for since.
CooldownEnds ==
  /\ debounce # "free"
  /\ debounce' = "free"
  /\ IF debounce = "again" /\ poll.at = "idle" THEN PollBegins("debouncer") ELSE UNCHANGED poll
  /\ UNCHANGED <<appliance, data, issue, at, install, button, held,
                 outdated, changes, presses>>

\* After its last refresh.
Afterwards(t) == IF t = "install" THEN "finish" ELSE "idle"

\* async_request_refresh of task t: it waits for a refresh, or there is none.
RequestRefresh(t, waiting, next) ==
  IF poll.at = "idle" /\ debounce = "free"
  THEN PollBegins("debouncer") /\ Goto(t, waiting) /\ UNCHANGED debounce
  ELSE /\ debounce' = IF debounce = "cooling" THEN "again" ELSE debounce
       /\ Goto(t, next)
       /\ UNCHANGED poll

\* _async_get_hwinfo.
HwinfoRead ==
  /\ poll.at = "hwinfo"
  /\ poll' = [poll EXCEPT !.at = "rest", !.got = omv]
  /\ outdated' = outdated \ {"poll"}
  /\ UNCHANGED <<appliance, data, debounce, issue, at, install, button, held,
                 changes, presses>>

\* The task that waits for the refresh goes on.
PollReturns ==
  /\ poll' = NoPoll
  /\ debounce' = IF poll.by = "debouncer" THEN "cooling" ELSE debounce
  /\ at' = IF poll.by = "timer" THEN at
           ELSE [t \in Tasks |-> CASE at[t] = "refresh" -> "decide"
                                   [] at[t] = "refresh again" -> Afterwards(t)
                                   [] OTHER -> at[t]]

\* The refresh succeeds: new data, and the listeners are called.
Publish ==
  /\ poll.at = "rest"
  /\ PollReturns
  /\ data' = poll.got
  /\ held' = FALSE
  /\ SyncIssue(data')
  /\ outdated' = (outdated \ {"data", "poll"})
                   \cup (IF "poll" \in outdated THEN {"data"} ELSE {})
  /\ UNCHANGED <<appliance, install, button, changes, presses>>

\* It fails, at whatever call: the last data stay, the listeners may be called.
PollFails ==
  /\ poll.at = "rest"
  /\ PollReturns
  /\ issue' \in {issue, RebootPending(data)}
  /\ outdated' = outdated \ {"poll"}
  /\ UNCHANGED <<appliance, data, install, button, held, changes, presses>>

-----------------------------------------------------------------------------
(* What the tasks share.                                                   *)

\* A user starts task t, which asks for a refresh first.
Press(t) ==
  /\ at[t] = "idle"
  /\ presses < MaxPresses
  /\ presses' = presses + 1
  /\ RequestRefresh(t, "refresh", "decide")

\* Home Assistant refuses an install when the entity shows no update
\* (latest_version), and only offers a repair that is in the registry.
PressInstall ==
  /\ data.listed
  /\ Press("install")
  /\ UNCHANGED <<appliance, data, issue, install, button, held, outdated, changes>>

PressButton ==
  /\ Press("button")
  /\ button' \in {"reboot", "apply"}
  /\ UNCHANGED <<appliance, data, issue, install, held, outdated, changes>>

SubmitRepair ==
  /\ issue
  /\ Press("repair")
  /\ UNCHANGED <<appliance, data, issue, install, button, held, outdated, changes>>

\* Task t goes on from its decision, on the data it has just read.
Decided(t, place) ==
  /\ at[t] = "decide"
  /\ Goto(t, place)
  /\ outdated' = IF place = "reboot" /\ "data" \in outdated
                 THEN outdated \cup {t} ELSE outdated \ {t}

\* The call of task t breaks, before or after the appliance has executed it.
CallBreaks(t) ==
  /\ \/ at[t] \in {"call", "wait"} /\ step < 3
     \/ at[t] \in {"reboot", "rebooted", "apply"}
  /\ IF t = "install" THEN InstallOver ELSE Goto(t, "idle") /\ UNCHANGED install
  /\ outdated' = outdated \ {t}
  /\ UNCHANGED <<appliance, coordinator, issue, button, held, changes, presses>>

\* The appliance executes the System.reboot that task t has decided on; the
\* call had to wait for the client's lock.
RebootExecuted(t) ==
  /\ at[t] = "reboot"
  /\ Goto(t, "rebooted")
  /\ Reboots
  /\ UNCHANGED <<coordinator, issue, step, polls, outcome, button, held, changes, presses>>

-----------------------------------------------------------------------------
(* The update entity: async_install.                                       *)

InstallDecides ==
  /\ IF ~data.listed /\ data.reboot
     THEN Decided("install", "reboot") /\ UNCHANGED step
     ELSE Decided("install", "call") /\ step' = 1
  /\ UNCHANGED <<appliance, coordinator, issue, file, polls, outcome, button, held,
                 changes, presses>>

\* Apt.update, Apt.upgrade, Apt.update: the process starts, or fails at once
\* because another one holds the package lock.
AptCalled ==
  /\ at["install"] = "call"
  /\ Goto("install", "wait")
  /\ polls' = 0
  /\ IF apt = "none"
     THEN apt' = (IF step = 2 THEN "upgrade" ELSE "update") /\ file' = "running"
     ELSE file' = "failed" /\ UNCHANGED apt
  /\ UNCHANGED <<omv, packages, coordinator, issue, step, outcome, button, held,
                 outdated, changes, presses>>

\* The wait for the step is over.
StepDone ==
  /\ file' = "ok"
  /\ IF step < 3
     THEN step' = step + 1 /\ Goto("install", "call") /\ UNCHANGED <<poll, debounce>>
     ELSE RequestRefresh("install", "refresh again", Afterwards("install")) /\ UNCHANGED step

\* Mutant: the wait has no end.
StillRunningForever ==
  /\ UNCHANGED <<file, polls, outcome, step, poll, debounce, at>>
  /\ file = "running"

\* Mutant: the polls are counted but not limited.
CountedForever ==
  /\ file = "running"
  /\ polls' = polls + 1
  /\ UNCHANGED <<file, outcome, step, poll, debounce, at>>

\* Mutant: any answer counts as the end of the process.
AnyAnswerEnds == file = "running" /\ StepDone /\ UNCHANGED <<polls, outcome>>

\* Exec.isRunning answers that the process runs, _MAX_POLLS times at most.
StillRunning ==
  /\ file = "running"
  /\ IF polls + 1 < MaxPolls
     THEN polls' = polls + 1 /\ UNCHANGED <<file, outcome, step, poll, debounce, at>>
     ELSE outcome' = "gave up" /\ UNCHANGED polls /\ StepDone

\* HTTP 500: the status file is gone with its process; or the answer that it does
\* not run, which the code treats alike.
StatusGone == file = "ok" /\ StepDone /\ UNCHANGED <<polls, outcome>>

\* Mutant: every HTTP 500 is taken for the end of the process.
FailureIsDone == file = "failed" /\ StepDone /\ UNCHANGED <<polls, outcome>>

\* HTTP 500 with "Failed to execute command", which ends the install with an
\* error unless it has upgraded by then.
StepFailed ==
  /\ file = "failed"
  /\ IF step = 3
     THEN /\ StepDone
          /\ UNCHANGED <<polls, outcome>>
     ELSE InstallOver /\ UNCHANGED <<poll, debounce>>

\* One round of _wait_for_bgproc.
WaitForBgproc ==
  /\ at["install"] = "wait"
  /\ StillRunning \/ StatusGone \/ StepFailed
  /\ UNCHANGED <<appliance, data, issue, button, held, outdated, changes, presses>>

\* HTTP 500 of another origin, say the web server of an appliance that upgrades
\* it: the install takes it for the end of the process.
StrayError ==
  /\ at["install"] = "wait" /\ file = "running"
  /\ outcome' = "gave up"
  /\ StepDone
  /\ UNCHANGED <<appliance, data, issue, polls, button, held, outdated, changes, presses>>

\* Starting or polling the last Apt.update breaks: that is swallowed.
RecountBreaks ==
  /\ at["install"] \in {"call", "wait"} /\ step = 3
  /\ StepDone
  /\ UNCHANGED <<appliance, data, issue, polls, outcome, button, held,
                 outdated, changes, presses>>

\* The reboot was answered: its flag is cleared in the coordinator's data.
InstallRebooted ==
  /\ at["install"] = "rebooted"
  /\ InstallOver
  /\ data' = [data EXCEPT !.reboot = FALSE]
  /\ SyncIssue(data')
  /\ outdated' = outdated \ {"install"}
  /\ UNCHANGED <<appliance, poll, debounce, button, held, changes, presses>>

\* The install is done (and tells of pending configuration changes).
InstallFinishes ==
  /\ at["install"] = "finish"
  /\ InstallOver
  /\ UNCHANGED <<appliance, coordinator, issue, button, held, outdated, changes, presses>>

-----------------------------------------------------------------------------
(* The buttons and the repair.                                             *)

\* Mutant: the button reboots whatever the state of the configuration.
RebootsAnyway == button = "reboot" /\ Decided("button", "reboot")

\* The reboot button refuses a dirty configuration.
RebootButton ==
  /\ button = "reboot"
  /\ Decided("button", IF data.dirty THEN "idle" ELSE "reboot")

ButtonDecides ==
  /\ \/ RebootButton
     \/ button = "apply" /\ Decided("button", "apply")
  /\ button' = "reboot"
  /\ UNCHANGED <<appliance, coordinator, issue, install, held, changes, presses>>

ButtonRebooted ==
  /\ at["button"] = "rebooted"
  /\ Goto("button", "idle")
  /\ outdated' = outdated \ {"button"}
  /\ UNCHANGED <<appliance, coordinator, issue, install, button, held, changes, presses>>

\* Config.applyChanges, and the refresh after it.
Applied ==
  /\ at["button"] = "apply"
  /\ OmvBecomes([omv EXCEPT !.dirty = FALSE])
  /\ RequestRefresh("button", "refresh again", Afterwards("button"))
  /\ UNCHANGED <<packages, apt, data, issue, install, button, held, changes, presses>>

\* async_step_confirm: nothing to reboot for, or not now, brings the issue in
\* line with the data.
RepairDecides ==
  /\ held' = RebootPending(data)
  /\ IF RebootPending(data)
     THEN Decided("repair", "reboot") /\ UNCHANGED issue
     ELSE Decided("repair", "idle") /\ SyncIssue(data)
  /\ UNCHANGED <<appliance, coordinator, install, button, changes, presses>>

\* The flag is cleared in the hwinfo that the flow decided on, current or not,
\* and Home Assistant deletes the issue of a flow that ends.
RepairRebooted ==
  /\ at["repair"] = "rebooted"
  /\ Goto("repair", "idle")
  /\ outdated' = outdated \ {"repair"}
  /\ held' = FALSE
  /\ data' = IF held THEN [data EXCEPT !.reboot = FALSE] ELSE data
  /\ issue' = FALSE
  /\ UNCHANGED <<appliance, poll, debounce, install, button, changes, presses>>

-----------------------------------------------------------------------------
TaskSteps(t) ==
  \/ RebootExecuted(t)
  \/ t = "install" /\ (\/ InstallDecides \/ AptCalled \/ WaitForBgproc
                       \/ InstallRebooted \/ InstallFinishes)
  \/ t = "button" /\ (ButtonDecides \/ ButtonRebooted \/ Applied)
  \/ t = "repair" /\ (RepairDecides \/ RepairRebooted)

Breaks == StrayError \/ RecountBreaks \/ \E t \in Tasks : CallBreaks(t)

Next ==
  \/ ApplianceChanges \/ AptEnds
  \/ TimerPoll \/ CooldownEnds \/ HwinfoRead \/ Publish \/ PollFails
  \/ PressInstall \/ PressButton \/ SubmitRepair
  \/ \E t \in Tasks : TaskSteps(t)
  \/ Breaks

Spec == Init /\ [][Next]_vars

(***************************************************************************)
(* The client bounds every call by a timeout and a number of retries, so   *)
(* polls and tasks go on; Home Assistant's timers fire; and the appliance  *)
(* is not unreachable for ever, so polls that are begun again and again    *)
(* succeed now and then.  Nothing is asked of apt, of errors or of users.  *)
(***************************************************************************)
Fairness ==
  /\ WF_vars(TimerPoll) /\ WF_vars(CooldownEnds)
  /\ WF_vars(HwinfoRead) /\ WF_vars(Publish \/ PollFails)
  /\ SF_vars(Publish)
  /\ \A t \in Tasks : WF_vars(TaskSteps(t))

FairSpec == Spec /\ Fairness

-----------------------------------------------------------------------------
(***************************************************************************)
(* Properties.                                                             *)
(***************************************************************************)

\* A reboot whose decision still describes the appliance is one it can take:
\* the button and the repair never reboot over unapplied changes, the repair
\* and the update entity never without need, whatever ran between the
\* decision and the execution of the call.
RebootsAreDue ==
  [][\A t \in Tasks :
       at[t] = "reboot" /\ at'[t] = "rebooted" /\ t \notin outdated =>
         /\ t # "install" => ~omv.dirty
         /\ t # "button" => omv.reboot /\ ~omv.listed]_vars

\* An install goes on to its next step only when the one before succeeded,
\* unless it had to give up waiting (the poll limit, a stray HTTP 500).
StepsFollowSuccess ==
  [][at["install"] = "wait" /\ at'["install"] = "call" => file = "ok" \/ outcome' = "gave up"]_vars

\* An install that ends without an error has upgraded the packages, unless it
\* had to give up waiting for it.
SuccessIsReal ==
  at["install"] = "finish" => outcome # "none"

\* An install ends, even one whose background process never does.
InstallEnds == at["install"] # "idle" ~> at["install"] = "idle"

\* Left alone, the appliance is shown as it is, and the repair is offered
\* exactly when a reboot and nothing else is due: no optimistic update, lost
\* listener call or late poll leaves them wrong.
ViewSettles == <>[](data = omv /\ (issue <=> RebootPending(omv)))
=============================================================================
