------------------------- MODULE SystemUpdateProofs -------------------------
(***************************************************************************)
(* Theorems about SystemUpdate, for every state of the appliance and every *)
(* number of polls, changes and presses.                                   *)
(***************************************************************************)
EXTENDS SystemUpdate, TLAPS

USE DEF appliance, coordinator, install

-----------------------------------------------------------------------------
(* The inductive invariant: the types, what an install has behind it where *)
(* it is, and what those who are not outdated know of the appliance.       *)

\* An upgrade ends the status file of its own install only.
InstallInv ==
  /\ at["install"] \in {"finish", "refresh again"} => outcome # "none"
  /\ at["install"] \in {"call", "wait"} /\ step = 3 => outcome # "none"
  /\ at["install"] = "wait" /\ step = 2 /\ file = "ok" => outcome # "none"
  /\ at["install"] = "wait" /\ step = 2 /\ file = "running" => apt = "upgrade"

\* The data may miss a reboot, which they clear before the appliance tells.
DataInv ==
  "data" \notin outdated =>
    /\ data.listed <=> omv.listed
    /\ data.dirty <=> omv.dirty
    /\ data.reboot => omv.reboot

PollInv == poll.at = "rest" /\ "poll" \notin outdated => poll.got = omv

\* What task t has decided on still holds.
ReasonOf(t) ==
  at[t] = "reboot" /\ t \notin outdated =>
    /\ t # "install" => ~omv.dirty
    /\ t # "button" => omv.reboot /\ ~omv.listed

Reasons == \A t \in Tasks : ReasonOf(t)

\* What everyone knows of the appliance, together.
Knowledge == DataInv /\ PollInv /\ Reasons

SUInv == TypeOK /\ InstallInv /\ Knowledge

-----------------------------------------------------------------------------
(* Type correctness.                                                       *)

LEMMA Counted ==
  ASSUME NEW bound \in Nat, NEW n \in 0 .. bound, n < bound
  PROVE  n + 1 \in 0 .. bound
  OBVIOUS

LEMMA GotoTypes ==
  ASSUME TypeOK, NEW t \in Tasks, NEW place \in Places, Goto(t, place)
  PROVE  at' \in [Tasks -> Places]
  BY DEF TypeOK, Goto, Places

LEMMA HwinfoTypes ==
  ASSUME NEW h \in Hwinfo
  PROVE  /\ \A b \in BOOLEAN : /\ [h EXCEPT !.listed = b] \in Hwinfo
                               /\ [h EXCEPT !.reboot = b] \in Hwinfo
                               /\ [h EXCEPT !.dirty = b] \in Hwinfo
         /\ h.listed \in BOOLEAN /\ h.reboot \in BOOLEAN /\ h.dirty \in BOOLEAN
         /\ RebootPending(h) \in BOOLEAN
  BY DEF Hwinfo, RebootPending

LEMMA NoPollType == NoPoll \in Poll /\ NoPoll.at = "idle"
  BY DEF NoPoll, Hwinfo, Poll

LEMMA PollBeginsTypes ==
  ASSUME NEW by \in {"timer", "debouncer"}, PollBegins(by)
  PROVE  poll' \in Poll /\ poll'.at = "hwinfo"
  BY NoPollType DEF PollBegins, Poll

LEMMA InitTypes == Init => TypeOK
<1> SUFFICES ASSUME Init PROVE TypeOK
  OBVIOUS
<1>1. omv \in Hwinfo /\ data \in Hwinfo
  BY FirstHwinfoAssumption DEF Init
<1>2. packages \in BOOLEAN /\ issue \in BOOLEAN
  BY <1>1 DEF Init, Hwinfo
<1>3. polls \in 0 .. MaxPolls /\ changes \in 0 .. MaxChanges /\ presses \in 0 .. MaxPresses
  BY BoundsAssumption DEF Init
<1>4. poll \in Poll
  BY NoPollType DEF Init
<1>5. QED
  <2>1. at \in [Tasks -> Places]
    BY DEF Init, Places
  <2>2. step \in 1 .. 3 /\ outcome \in Outcomes /\ outdated \subseteq Tasks \cup {"data", "poll"}
    BY DEF Init, Outcomes
  <2>3. /\ apt = "none" /\ file = "ok" /\ debounce = "free" /\ button = "reboot" /\ held = FALSE
    BY DEF Init
  <2>4. QED
    BY <1>1, <1>2, <1>3, <1>4, <2>1, <2>2, <2>3 DEF TypeOK, Poll, Places

\* Asking for a refresh keeps the types.
LEMMA RequestTypes ==
  ASSUME TypeOK, NEW t \in Tasks, NEW waiting \in Places, NEW next \in Places,
         RequestRefresh(t, waiting, next)
  PROVE  /\ at' \in [Tasks -> Places] /\ debounce' \in {"free", "cooling", "again"}
         /\ poll' \in Poll
  BY PollBeginsTypes DEF TypeOK, RequestRefresh, Goto, Places, Poll

\* So does what the poll leaves behind.
LEMMA ReturnTypes ==
  ASSUME TypeOK, PollReturns
  PROVE  /\ at' \in [Tasks -> Places] /\ debounce' \in {"free", "cooling", "again"}
         /\ poll' \in Poll
  BY NoPollType DEF TypeOK, PollReturns, Afterwards, Places

LEMMA OutdatedTypes ==
  ASSUME TypeOK, NEW hwinfo \in Hwinfo, OmvBecomes(hwinfo)
  PROVE  omv' \in Hwinfo /\ outdated' \subseteq Tasks \cup {"data", "poll"}
  BY DEF TypeOK, OmvBecomes

LEMMA DecidedTypes ==
  ASSUME TypeOK, NEW t \in Tasks, NEW place \in Places, Decided(t, place)
  PROVE  at' \in [Tasks -> Places] /\ outdated' \subseteq Tasks \cup {"data", "poll"}
<1>1. at' \in [Tasks -> Places]
  BY GotoTypes DEF Decided
<1>2. QED
  BY <1>1 DEF Decided, TypeOK

\* And the end of the wait for a step.
LEMMA StepDoneTypes ==
  ASSUME TypeOK, StepDone
  PROVE  /\ at' \in [Tasks -> Places] /\ debounce' \in {"free", "cooling", "again"}
         /\ poll' \in Poll /\ file' = "ok" /\ step' \in 1 .. 3
<1>1. CASE step < 3
  <2>1. step' = step + 1 /\ step \in 1 .. 3
    BY <1>1 DEF TypeOK, StepDone
  <2>2. step' \in 1 .. 3
    BY <1>1, <2>1
  <2>3. at' \in [Tasks -> Places]
    BY <1>1, GotoTypes DEF StepDone, Tasks, Places
  <2>4. QED
    BY <1>1, <2>2, <2>3 DEF TypeOK, StepDone, Poll
<1>2. CASE ~(step < 3)
  <2>1. RequestRefresh("install", "refresh again", "finish") /\ step' = step /\ file' = "ok"
    BY <1>2 DEF StepDone, Afterwards
  <2>2. "install" \in Tasks /\ "refresh again" \in Places /\ "finish" \in Places
    BY DEF Tasks, Places
  <2>3. /\ at' \in [Tasks -> Places] /\ debounce' \in {"free", "cooling", "again"}
        /\ poll' \in Poll
    BY <2>1, <2>2, RequestTypes
  <2>4. QED
    BY <2>1, <2>3 DEF TypeOK
<1>3. QED
  BY <1>1, <1>2

LEMMA InstallOverTypes ==
  ASSUME TypeOK, InstallOver
  PROVE  /\ at' \in [Tasks -> Places] /\ file' = "ok" /\ step' \in 1 .. 3
         /\ polls' \in 0 .. MaxPolls /\ outcome' \in Outcomes
<1>1. at' \in [Tasks -> Places]
  BY GotoTypes DEF InstallOver, Tasks, Places
<1>2. step' \in 1 .. 3 /\ polls' \in 0 .. MaxPolls
  BY BoundsAssumption DEF InstallOver
<1>3. QED
  BY <1>1, <1>2 DEF InstallOver, Outcomes

LEMMA TypeStep == TypeOK /\ [Next]_vars => TypeOK'
<1> SUFFICES ASSUME TypeOK, [Next]_vars PROVE TypeOK'
  OBVIOUS
<1> USE DEF TypeOK
<1>1. CASE ApplianceChanges
  <2>1. PICK what \in {"listed", "reboot", "dirty"} :
          LET hwinfo == [omv EXCEPT ![what] = ~@] IN
          OmvBecomes(hwinfo) /\ packages' \in {hwinfo.listed, TRUE}
    BY <1>1 DEF ApplianceChanges
  <2>2. [omv EXCEPT ![what] = ~@] \in Hwinfo
    BY DEF Hwinfo
  <2>3. omv' \in Hwinfo /\ outdated' \subseteq Tasks \cup {"data", "poll"}
    BY <2>1, <2>2, OutdatedTypes
  <2>4. packages' \in BOOLEAN
    BY <2>1, <2>2, HwinfoTypes
  <2>5. changes' \in 0 .. MaxChanges
    <3>1. changes < MaxChanges /\ changes' = changes + 1
      BY <1>1 DEF ApplianceChanges
    <3>2. QED
      BY <3>1, Counted, BoundsAssumption
  <2>6. QED
    BY <1>1, <2>3, <2>4, <2>5 DEF ApplianceChanges
<1>2. CASE AptEnds
  <2>1. omv' \in Hwinfo /\ outdated' \subseteq Tasks \cup {"data", "poll"}
    <3>1. CASE \E hwinfo \in Hwinfo : OmvBecomes(hwinfo)
      BY <3>1, OutdatedTypes
    <3>2. CASE UNCHANGED <<omv, outdated>>
      BY <3>2
    <3>3. QED
      BY <1>2, <3>1, <3>2, HwinfoTypes DEF AptEnds
  <2>2. packages' \in BOOLEAN /\ outcome' \in Outcomes /\ apt' = "none"
    BY <1>2 DEF AptEnds, Outcomes
  <2>3. file' \in {"running", "ok", "failed"}
    BY <1>2 DEF AptEnds
  <2>4. QED
    BY <1>2, <2>1, <2>2, <2>3 DEF AptEnds
<1>3. CASE TimerPoll
  <2>1. poll' \in Poll
    BY <1>3, PollBeginsTypes DEF TimerPoll
  <2>2. QED
    BY <1>3, <2>1 DEF TimerPoll
<1>4. CASE CooldownEnds
  <2>1. poll' \in Poll
    BY <1>4, PollBeginsTypes DEF CooldownEnds, Poll
  <2>2. QED
    BY <1>4, <2>1 DEF CooldownEnds
<1>5. CASE HwinfoRead
  <2>1. poll' \in Poll
    BY <1>5 DEF HwinfoRead, Poll
  <2>2. QED
    BY <1>5, <2>1 DEF HwinfoRead
<1>6. CASE Publish
  <2>1. /\ at' \in [Tasks -> Places] /\ debounce' \in {"free", "cooling", "again"}
        /\ poll' \in Poll
    BY <1>6, ReturnTypes DEF Publish
  <2>2. data' \in Hwinfo
    BY <1>6 DEF Publish, Poll
  <2>3. issue' \in BOOLEAN
    BY <1>6, <2>2, HwinfoTypes DEF Publish, SyncIssue
  <2>4. QED
    BY <1>6, <2>1, <2>2, <2>3 DEF Publish
<1>7. CASE PollFails
  <2>1. /\ at' \in [Tasks -> Places] /\ debounce' \in {"free", "cooling", "again"}
        /\ poll' \in Poll
    BY <1>7, ReturnTypes DEF PollFails
  <2>2. issue' \in BOOLEAN
    BY <1>7, HwinfoTypes DEF PollFails
  <2>3. QED
    BY <1>7, <2>1, <2>2 DEF PollFails
<1>8. CASE PressInstall \/ PressButton \/ SubmitRepair
  <2>1. PICK t \in Tasks : Press(t)
    BY <1>8 DEF PressInstall, PressButton, SubmitRepair, Tasks
  <2>2. "refresh" \in Places /\ "decide" \in Places
    BY DEF Places
  <2>3. /\ at' \in [Tasks -> Places] /\ debounce' \in {"free", "cooling", "again"}
        /\ poll' \in Poll
    BY <2>1, <2>2, RequestTypes DEF Press
  <2>4. presses' \in 0 .. MaxPresses
    <3>1. presses < MaxPresses /\ presses' = presses + 1
      BY <2>1 DEF Press
    <3>2. QED
      BY <3>1, Counted, BoundsAssumption
  <2>5. QED
    BY <1>8, <2>3, <2>4 DEF PressInstall, PressButton, SubmitRepair
<1>9. ASSUME NEW t \in Tasks, RebootExecuted(t) PROVE TypeOK'
  <2>1. omv' \in Hwinfo /\ outdated' \subseteq Tasks \cup {"data", "poll"}
    BY <1>9, HwinfoTypes, OutdatedTypes DEF RebootExecuted, Reboots
  <2>2. QED
    <3>1. at' \in [Tasks -> Places]
      BY <1>9, GotoTypes DEF RebootExecuted, Places
    <3>2. QED
      BY <1>9, <2>1, <3>1 DEF RebootExecuted, Reboots
<1>10. CASE InstallDecides
  <2>1. /\ Decided("install", "reboot") \/ Decided("install", "call")
        /\ step' \in {1, step}
    BY <1>10 DEF InstallDecides
  <2>2. at' \in [Tasks -> Places] /\ outdated' \subseteq Tasks \cup {"data", "poll"}
    BY <2>1, DecidedTypes DEF Tasks, Places
  <2>3. step' \in 1 .. 3
    <3>1. step \in 1 .. 3
      OBVIOUS
    <3> HIDE DEF TypeOK
    <3>2. QED
      BY <2>1, <3>1
  <2>4. QED
    BY <1>10, <2>2, <2>3 DEF InstallDecides
<1>11. CASE AptCalled
  <2>1. at' \in [Tasks -> Places]
    BY <1>11, GotoTypes DEF AptCalled, Tasks, Places
  <2>2. polls' \in 0 .. MaxPolls
    <3>1. polls' = 0
      BY <1>11 DEF AptCalled
    <3> HIDE DEF TypeOK
    <3>2. QED
      BY <3>1, BoundsAssumption
  <2>3. /\ apt' \in {"none", "update", "upgrade"} /\ file' \in {"running", "ok", "failed"}
    BY <1>11 DEF AptCalled
  <2>4. QED
    BY <1>11, <2>1, <2>2, <2>3 DEF AptCalled
<1>12. CASE WaitForBgproc
  <2>1. CASE StepDone /\ polls' = polls /\ outcome' \in {outcome, "gave up"}
    BY <1>12, <2>1, StepDoneTypes DEF WaitForBgproc, Outcomes
  <2>2. CASE InstallOver /\ UNCHANGED <<poll, debounce>>
    BY <1>12, <2>2, InstallOverTypes DEF WaitForBgproc
  <2>3. CASE /\ polls + 1 < MaxPolls /\ polls' = polls + 1
             /\ UNCHANGED <<file, outcome, step, poll, debounce, at>>
    <3>1. polls \in 0 .. MaxPolls
      OBVIOUS
    <3>2. polls' \in 0 .. MaxPolls
      <4> HIDE DEF TypeOK
      <4>1. polls + 1 < MaxPolls /\ polls' = polls + 1
        BY <2>3
      <4>2. QED
        BY <3>1, <4>1, BoundsAssumption
    <3>3. UNCHANGED <<appliance, data, issue, button, held, outdated, changes, presses>>
      BY <1>12 DEF WaitForBgproc
    <3>4. UNCHANGED <<file, outcome, step, poll, debounce, at>>
      BY <2>3
    <3>5. QED
      BY <3>2, <3>3, <3>4
  <2>4. QED
    BY <1>12, <2>1, <2>2, <2>3 DEF WaitForBgproc, StillRunning, StatusGone, StepFailed
<1>13. CASE StrayError \/ RecountBreaks
  BY <1>13, StepDoneTypes DEF StrayError, RecountBreaks, Outcomes
<1>14. CASE InstallRebooted
  <2>1. data' \in Hwinfo
    BY <1>14, HwinfoTypes DEF InstallRebooted
  <2>2. issue' \in BOOLEAN
    BY <1>14, <2>1, HwinfoTypes DEF InstallRebooted, SyncIssue
  <2>3. QED
    BY <1>14, <2>1, <2>2, InstallOverTypes DEF InstallRebooted
<1>15. CASE InstallFinishes
  BY <1>15, InstallOverTypes DEF InstallFinishes
<1>16. CASE ButtonDecides
  <2>1. \E place \in Places : Decided("button", place)
    BY <1>16 DEF ButtonDecides, RebootButton, Places
  <2>2. at' \in [Tasks -> Places] /\ outdated' \subseteq Tasks \cup {"data", "poll"}
    BY <2>1, DecidedTypes DEF Tasks
  <2>3. QED
    BY <1>16, <2>2 DEF ButtonDecides
<1>17. CASE ButtonRebooted
  <2>1. at' \in [Tasks -> Places]
    BY <1>17, GotoTypes DEF ButtonRebooted, Tasks, Places
  <2>2. QED
    BY <1>17, <2>1 DEF ButtonRebooted
<1>18. CASE Applied
  <2>1. omv' \in Hwinfo /\ outdated' \subseteq Tasks \cup {"data", "poll"}
    BY <1>18, HwinfoTypes, OutdatedTypes DEF Applied
  <2>2. "button" \in Tasks /\ "refresh again" \in Places /\ Afterwards("button") \in Places
    BY DEF Tasks, Places, Afterwards
  <2>3. /\ at' \in [Tasks -> Places] /\ debounce' \in {"free", "cooling", "again"}
        /\ poll' \in Poll
    BY <1>18, <2>2, RequestTypes DEF Applied
  <2>4. QED
    BY <1>18, <2>1, <2>3 DEF Applied
<1>19. CASE RepairDecides
  <2>1. \E place \in Places : Decided("repair", place)
    BY <1>19 DEF RepairDecides, Places
  <2>2. at' \in [Tasks -> Places] /\ outdated' \subseteq Tasks \cup {"data", "poll"}
    BY <2>1, DecidedTypes DEF Tasks
  <2>3. held' \in BOOLEAN /\ issue' \in BOOLEAN
    BY <1>19, HwinfoTypes DEF RepairDecides, SyncIssue
  <2>4. QED
    BY <1>19, <2>2, <2>3 DEF RepairDecides
<1>20. CASE RepairRebooted
  <2>1. at' \in [Tasks -> Places]
    BY <1>20, GotoTypes DEF RepairRebooted, Tasks, Places
  <2>2. data' \in Hwinfo
    BY <1>20, HwinfoTypes DEF RepairRebooted
  <2>3. QED
    BY <1>20, <2>1, <2>2 DEF RepairRebooted
<1>21. ASSUME NEW t \in Tasks, CallBreaks(t) PROVE TypeOK'
  <2>1. CASE t = "install"
    BY <1>21, <2>1, InstallOverTypes DEF CallBreaks
  <2>2. CASE t # "install"
    <3>1. at' \in [Tasks -> Places]
      BY <1>21, <2>2, GotoTypes DEF CallBreaks, Places
    <3>2. QED
      <4>1. outdated' = outdated \ {t}
        BY <1>21 DEF CallBreaks
      <4>2. /\ omv' = omv /\ packages' = packages /\ apt' = apt
            /\ data' = data /\ poll' = poll /\ debounce' = debounce
            /\ issue' = issue /\ button' = button /\ held' = held
            /\ changes' = changes /\ presses' = presses
        BY <1>21 DEF CallBreaks
      <4>3. file' = file /\ step' = step /\ polls' = polls /\ outcome' = outcome
        BY <1>21, <2>2 DEF CallBreaks
      <4>4. QED
        BY <3>1, <4>1, <4>2, <4>3
  <2>3. QED
    BY <2>1, <2>2
<1>22. CASE UNCHANGED vars
  <2>1. /\ omv' = omv /\ packages' = packages /\ apt' = apt /\ file' = file
        /\ data' = data /\ poll' = poll /\ debounce' = debounce /\ issue' = issue
        /\ at' = at /\ step' = step /\ polls' = polls /\ button' = button
        /\ held' = held /\ outcome' = outcome /\ outdated' = outdated
        /\ changes' = changes /\ presses' = presses
    BY <1>22 DEF vars
  <2>2. QED
    BY <2>1
<1>23. QED
  BY <1>1, <1>2, <1>3, <1>4, <1>5, <1>6, <1>7, <1>8, <1>9, <1>10, <1>11, <1>12, <1>13,
     <1>14, <1>15, <1>16, <1>17, <1>18, <1>19, <1>20, <1>21, <1>22
     DEF Next, TaskSteps, Breaks

-----------------------------------------------------------------------------
(* The other conjuncts, action by action.                                  *)

\* A step of the poll, of a request and of another task leaves the install
\* where its history holds.
LEMMA RequestElsewhere ==
  ASSUME TypeOK, NEW t \in Tasks, NEW waiting \in Places, NEW next \in Places,
         RequestRefresh(t, waiting, next)
  PROVE  /\ \A u \in Tasks \ {t} : at'[u] = at[u]
         /\ at'[t] \in {waiting, next}
         /\ poll'.at = "rest" => poll' = poll
  BY PollBeginsTypes DEF TypeOK, RequestRefresh, Goto

LEMMA GotoElsewhere ==
  ASSUME TypeOK, NEW t \in Tasks, NEW place, Goto(t, place)
  PROVE  /\ \A u \in Tasks \ {t} : at'[u] = at[u]
         /\ at'[t] = place
  BY DEF TypeOK, Goto

LEMMA ReturnElsewhere ==
  ASSUME TypeOK, PollReturns
  PROVE  \A t \in Tasks :
           \/ at'[t] = at[t]
           \/ at[t] = "refresh" /\ at'[t] = "decide"
           \/ at[t] = "refresh again" /\ at'[t] = (IF t = "install" THEN "finish" ELSE "idle")
<1> SUFFICES ASSUME NEW t \in Tasks
             PROVE  \/ at'[t] = at[t]
                    \/ at[t] = "refresh" /\ at'[t] = "decide"
                    \/ /\ at[t] = "refresh again"
                       /\ at'[t] = (IF t = "install" THEN "finish" ELSE "idle")
  OBVIOUS
<1>1. CASE poll.by = "timer"
  BY <1>1 DEF PollReturns
<1>2. CASE poll.by # "timer"
  BY <1>2 DEF PollReturns, Afterwards
<1>3. QED
  BY <1>1, <1>2

\* Where the wait for a step ends.
LEMMA StepDoneElsewhere ==
  ASSUME TypeOK, StepDone
  PROVE  /\ \A t \in Tasks \ {"install"} : at'[t] = at[t]
         /\ file' = "ok"
         /\ \/ step = 1 /\ step' = 2 /\ at'["install"] = "call"
            \/ step = 2 /\ step' = 3 /\ at'["install"] = "call"
            \/ step = 3 /\ step' = step /\ at'["install"] \in {"refresh again", "finish"}
         /\ poll'.at = "rest" => poll' = poll
<1> "install" \in Tasks
  BY DEF Tasks
<1>1. step = 1 \/ step = 2 \/ step = 3
  <2>1. step \in 1 .. 3
    BY DEF TypeOK
  <2>2. QED
    BY <2>1
<1>2. CASE step = 1 \/ step = 2
  <2>1. Goto("install", "call") /\ step' = step + 1 /\ file' = "ok" /\ poll' = poll
    <3>1. step < 3
      BY <1>2
    <3>2. QED
      BY <3>1 DEF StepDone
  <2>2. \/ step = 1 /\ step' = 2
        \/ step = 2 /\ step' = 3
    BY <1>2, <2>1
  <2>3. QED
    BY <2>1, <2>2, GotoElsewhere
<1>3. CASE step = 3
  <2>2. RequestRefresh("install", "refresh again", "finish") /\ step' = step /\ file' = "ok"
    <3>1. ~(step < 3)
      BY <1>3
    <3>2. QED
      BY <3>1 DEF StepDone, Afterwards
  <2>3. "refresh again" \in Places /\ "finish" \in Places
    BY DEF Places
  <2>4. QED
    BY <1>3, <2>2, <2>3, RequestElsewhere
<1>4. QED
  BY <1>1, <1>2, <1>3

LEMMA InstallOverElsewhere ==
  ASSUME TypeOK, InstallOver
  PROVE  /\ \A t \in Tasks \ {"install"} : at'[t] = at[t]
         /\ at'["install"] = "idle"
  BY GotoElsewhere DEF InstallOver, Tasks

\* Steps that leave apt and the install's variables alone, and the install
\* where it is, or on the way to its decision or out of it.
LEMMA InstallKept ==
  ASSUME InstallInv, UNCHANGED <<apt, file, step, outcome>>,
         \/ at'["install"] = at["install"]
         \/ at'["install"] \in {"idle", "refresh", "decide", "reboot", "rebooted"}
         \/ at["install"] = "refresh again" /\ at'["install"] = "finish"
  PROVE  InstallInv'
  BY DEF InstallInv

LEMMA SecondStep == step' = 2 => step' # 3
  OBVIOUS

LEMMA InstallStepDone ==
  ASSUME TypeOK, InstallInv, StepDone, at["install"] \in {"call", "wait"},
         \/ outcome' = "gave up"
         \/ /\ outcome' = outcome
            /\ step = 2 => at["install"] = "wait" /\ file = "ok"
  PROVE  InstallInv'
<1>1. /\ file' = "ok"
      /\ \/ step = 1 /\ step' = 2 /\ at'["install"] = "call"
         \/ step = 2 /\ step' = 3 /\ at'["install"] = "call"
         \/ step = 3 /\ step' = step /\ at'["install"] \in {"refresh again", "finish"}
  BY StepDoneElsewhere
<1>2. CASE step \notin {2, 3}
  <2>1. at'["install"] = "call" /\ step' = 2
    BY <1>1, <1>2
  <2>2. at'["install"] = "call" /\ step' # 3
    BY <2>1, SecondStep
  <2>3. QED
    BY <2>2 DEF InstallInv
<1>3. CASE step \in {2, 3}
  <2>1. outcome' # "none"
    BY <1>3 DEF InstallInv
  <2>2. at'["install"] # "wait"
    BY <1>1
  <2>3. QED
    BY <2>1, <2>2 DEF InstallInv
<1>4. QED
  BY <1>1, <1>2, <1>3

LEMMA InstallOverInv ==
  ASSUME TypeOK, InstallOver
  PROVE  InstallInv'
  BY InstallOverElsewhere DEF InstallInv

LEMMA InstallStep == TypeOK /\ InstallInv /\ [Next]_vars => InstallInv'
<1> SUFFICES ASSUME TypeOK, InstallInv, [Next]_vars PROVE InstallInv'
  OBVIOUS
<1> "install" \in Tasks /\ "button" \in Tasks /\ "repair" \in Tasks
  BY DEF Tasks
<1>1. CASE ApplianceChanges
  BY <1>1, InstallKept DEF ApplianceChanges
<1>2. CASE AptEnds
  <2>1. UNCHANGED <<at, step>>
    BY <1>2 DEF AptEnds
  <2>2. CASE /\ apt = "update" /\ outcome' = outcome
             /\ file' = IF file = "running" THEN "ok" ELSE file
    BY <2>1, <2>2 DEF InstallInv
  <2>3. CASE /\ apt = "upgrade"
             /\ outcome' = IF outcome = "none" /\ at["install"] # "idle" THEN "upgraded" ELSE outcome
             /\ file' = IF file = "running" THEN "ok" ELSE file
    <3>1. at["install"] # "idle" => outcome' # "none"
      BY <2>3
    <3>2. file' # "running"
      BY <2>3
    <3>3. QED
      BY <2>1, <3>1, <3>2 DEF InstallInv
  <2>4. CASE /\ outcome' = outcome /\ file' = IF file = "running" THEN "failed" ELSE file
    BY <2>1, <2>4 DEF InstallInv
  <2>5. QED
    BY <1>2, <2>2, <2>3, <2>4 DEF AptEnds
<1>3. CASE TimerPoll \/ CooldownEnds \/ HwinfoRead
  BY <1>3, InstallKept DEF TimerPoll, CooldownEnds, HwinfoRead
<1>4. CASE Publish \/ PollFails
  <2>1. PollReturns /\ UNCHANGED <<apt, file, step, outcome>>
    BY <1>4 DEF Publish, PollFails
  <2>2. QED
    BY <2>1, ReturnElsewhere, InstallKept
<1>5. CASE PressInstall \/ PressButton \/ SubmitRepair
  <2>1. UNCHANGED <<apt, file, step, outcome>>
    BY <1>5 DEF PressInstall, PressButton, SubmitRepair
  <2>2. PICK t \in Tasks : Press(t)
    BY <1>5 DEF PressInstall, PressButton, SubmitRepair
  <2>3. "refresh" \in Places /\ "decide" \in Places
    BY DEF Places
  <2>4. at'["install"] \in {at["install"], "refresh", "decide"}
    BY <2>2, <2>3, RequestElsewhere DEF Press
  <2>5. QED
    BY <2>1, <2>4, InstallKept
<1>6. ASSUME NEW t \in Tasks, RebootExecuted(t) PROVE InstallInv'
  <2>1. at'["install"] \in {at["install"], "rebooted"}
    BY <1>6, GotoElsewhere DEF RebootExecuted
  <2>2. QED
    BY <1>6, <2>1 DEF RebootExecuted, Reboots, InstallInv
<1>7. CASE InstallDecides
  <2>1. /\ UNCHANGED <<apt, file, outcome>>
        /\ \/ at'["install"] = "reboot"
           \/ at'["install"] = "call" /\ step' = 1
    BY <1>7, GotoElsewhere DEF InstallDecides, Decided
  <2>2. QED
    <3>1. at'["install"] \in {"reboot", "call"}
      BY <2>1
    <3>2. ~(at'["install"] = "call" /\ step' = 3)
      BY <2>1
    <3>3. QED
      BY <3>1, <3>2 DEF InstallInv
<1>8. CASE AptCalled
  <2>1. at'["install"] = "wait" /\ at["install"] = "call" /\ UNCHANGED <<step, outcome>>
    BY <1>8, GotoElsewhere DEF AptCalled
  <2>2. \/ apt' = (IF step = 2 THEN "upgrade" ELSE "update") /\ file' = "running"
        \/ file' = "failed"
    BY <1>8 DEF AptCalled
  <2>3. QED
    BY <2>1, <2>2 DEF InstallInv
<1>9. CASE WaitForBgproc
  <2>1. at["install"] = "wait" /\ apt' = apt
    BY <1>9 DEF WaitForBgproc
  <2>2. CASE StepDone /\ outcome' = "gave up"
    BY <2>1, <2>2, InstallStepDone
  <2>3. CASE StepDone /\ outcome' = outcome /\ (file = "ok" \/ step = 3)
    <3>1. step = 2 => at["install"] = "wait" /\ file = "ok"
      BY <2>1, <2>3
    <3>2. QED
      BY <2>1, <2>3, <3>1, InstallStepDone
  <2>4. CASE InstallOver
    BY <2>4, InstallOverInv
  <2>5. CASE UNCHANGED <<file, outcome, step, at>>
    BY <2>1, <2>5, InstallKept
  <2>6. QED
    BY <1>9, <2>2, <2>3, <2>4, <2>5 DEF WaitForBgproc, StillRunning, StatusGone, StepFailed
<1>10. CASE StrayError \/ RecountBreaks
  <2>1. CASE StrayError
    BY <2>1, InstallStepDone DEF StrayError
  <2>2. CASE RecountBreaks
    <3>1. step # 2 /\ StepDone /\ outcome' = outcome /\ at["install"] \in {"call", "wait"}
      BY <2>2 DEF RecountBreaks
    <3>2. QED
      BY <3>1, InstallStepDone
  <2>3. QED
    BY <1>10, <2>1, <2>2
<1>11. CASE InstallRebooted \/ InstallFinishes
  BY <1>11, InstallOverInv DEF InstallRebooted, InstallFinishes
<1>12. CASE ButtonDecides \/ ButtonRebooted \/ Applied \/ RepairDecides \/ RepairRebooted
  <2>1. UNCHANGED <<apt, file, step, outcome>>
    BY <1>12 DEF ButtonDecides, ButtonRebooted, Applied, RepairDecides, RepairRebooted
  <2>2. CASE Applied
    <3>1. RequestRefresh("button", "refresh again", Afterwards("button"))
      BY <2>2 DEF Applied
    <3>2. "refresh again" \in Places /\ Afterwards("button") \in Places
      BY DEF Places, Afterwards
    <3>3. at'["install"] = at["install"]
      BY <3>1, <3>2, RequestElsewhere
    <3>4. QED
      BY <2>1, <3>3, InstallKept
  <2>3. CASE ~Applied
    <3>1. \E t \in {"button", "repair"} : \E place : Goto(t, place)
      BY <1>12, <2>3
         DEF ButtonDecides, RebootButton, ButtonRebooted, RepairDecides, RepairRebooted, Decided
    <3>2. at'["install"] = at["install"]
      BY <3>1, GotoElsewhere
    <3>3. QED
      BY <2>1, <3>2, InstallKept
  <2>4. QED
    BY <2>2, <2>3
<1>13. ASSUME NEW t \in Tasks, CallBreaks(t) PROVE InstallInv'
  <2>1. CASE t = "install"
    BY <1>13, <2>1, InstallOverInv DEF CallBreaks
  <2>2. CASE t # "install"
    BY <1>13, <2>2, GotoElsewhere, InstallKept DEF CallBreaks
  <2>3. QED
    BY <2>1, <2>2
<1>14. CASE UNCHANGED vars
  BY <1>14, InstallKept DEF vars
<1>15. QED
  BY <1>1, <1>2, <1>3, <1>4, <1>5, <1>6, <1>7, <1>8, <1>9, <1>10, <1>11, <1>12, <1>13, <1>14
     DEF Next, TaskSteps, Breaks

\* Steps that leave the appliance alone, bring no new decision, and take the
\* mark from none who goes on with what is outdated.
LEMMA KnowledgeKept ==
  ASSUME TypeOK, Knowledge, omv' = omv,
         data' \in {data, [data EXCEPT !.reboot = FALSE]},
         "data" \in outdated => "data" \in outdated',
         poll'.at = "rest" => poll' = poll /\ ("poll" \in outdated => "poll" \in outdated'),
         \A t \in Tasks : at'[t] = "reboot" =>
                            at[t] = "reboot" /\ (t \in outdated => t \in outdated')
  PROVE  Knowledge'
<1>1. /\ data'.listed = data.listed /\ data'.dirty = data.dirty
      /\ data'.reboot => data.reboot
  BY DEF TypeOK, Hwinfo
<1>2. DataInv'
  BY <1>1 DEF Knowledge, DataInv
<1>3. PollInv'
  BY DEF Knowledge, PollInv
<1>4. Reasons'
  BY DEF Knowledge, Reasons, ReasonOf
<1>5. QED
  BY <1>2, <1>3, <1>4 DEF Knowledge

\* Steps that change the appliance mark all who have read it.
LEMMA KnowledgeLost ==
  ASSUME TypeOK, Knowledge, NEW hwinfo, OmvBecomes(hwinfo), data' = data,
         poll'.at = "rest" => poll' = poll,
         \A t \in Tasks : at'[t] = "reboot" => at[t] = "reboot"
  PROVE  Knowledge'
<1>1. CASE omv' = omv /\ outdated' = outdated
  BY <1>1, KnowledgeKept
<1>2. CASE outdated' = {t \in Tasks : at[t] = "reboot"} \cup {"data"}
                       \cup (IF poll.at = "rest" THEN {"poll"} ELSE {})
  <2>1. DataInv'
    BY <1>2 DEF DataInv
  <2>2. PollInv'
    BY <1>2 DEF PollInv
  <2>3. Reasons'
    BY <1>2 DEF Reasons, ReasonOf
  <2>4. QED
    BY <2>1, <2>2, <2>3 DEF Knowledge
<1>3. QED
  BY <1>1, <1>2 DEF OmvBecomes

\* A decision on the data is as good as the data.
LEMMA KnowledgeUsed ==
  ASSUME TypeOK, Knowledge, UNCHANGED <<omv, data, poll>>, NEW t \in Tasks, NEW place,
         Decided(t, place),
         place = "reboot" => /\ t # "install" => ~data.dirty
                             /\ t # "button" => data.reboot /\ ~data.listed
  PROVE  Knowledge'
<1>1. Goto(t, place) /\ outdated' = IF place = "reboot" /\ "data" \in outdated
                                    THEN outdated \cup {t} ELSE outdated \ {t}
  BY DEF Decided
<1>2. t # "data" /\ t # "poll"
  BY DEF Tasks
<1>3. DataInv'
  BY <1>1, <1>2 DEF Knowledge, DataInv
<1>4. PollInv'
  BY <1>1, <1>2 DEF Knowledge, PollInv
<1>5. ASSUME NEW u \in Tasks PROVE ReasonOf(u)'
  <2>1. CASE u = t
    <3>1. at'[u] = "reboot" /\ u \notin outdated' => place = "reboot" /\ "data" \notin outdated
      BY <1>1, <2>1, GotoElsewhere
    <3>2. QED
      BY <2>1, <3>1 DEF Knowledge, DataInv, ReasonOf
  <2>2. CASE u # t
    <3>1. at'[u] = at[u] /\ (u \in outdated => u \in outdated')
      BY <1>1, <2>2, GotoElsewhere
    <3>2. QED
      BY <3>1 DEF Knowledge, Reasons, ReasonOf
  <2>3. QED
    BY <2>1, <2>2
<1>6. Reasons'
  BY <1>5 DEF Reasons
<1>7. QED
  BY <1>3, <1>4, <1>6 DEF Knowledge

LEMMA KnowledgeStep == TypeOK /\ Knowledge /\ [Next]_vars => Knowledge'
<1> SUFFICES ASSUME TypeOK, Knowledge, [Next]_vars PROVE Knowledge'
  OBVIOUS
<1> "install" \in Tasks /\ "button" \in Tasks /\ "repair" \in Tasks
  BY DEF Tasks
<1> \A t \in Tasks : t # "data" /\ t # "poll"
  BY DEF Tasks
<1>1. CASE ApplianceChanges
  <2>1. \E hwinfo : OmvBecomes(hwinfo)
    BY <1>1 DEF ApplianceChanges
  <2>2. UNCHANGED <<data, poll, at>>
    BY <1>1 DEF ApplianceChanges
  <2>3. QED
    BY <2>1, <2>2, KnowledgeLost
<1>2. CASE AptEnds
  <2>1. UNCHANGED <<data, poll, at>>
    BY <1>2 DEF AptEnds
  <2>2. CASE \E hwinfo : OmvBecomes(hwinfo)
    BY <2>1, <2>2, KnowledgeLost
  <2>3. CASE UNCHANGED <<omv, outdated>>
    BY <2>1, <2>3, KnowledgeKept
  <2>4. QED
    BY <1>2, <2>2, <2>3 DEF AptEnds
<1>3. CASE TimerPoll \/ CooldownEnds
  <2>1. UNCHANGED <<omv, data, at, outdated>>
    BY <1>3 DEF TimerPoll, CooldownEnds
  <2>2. poll'.at = "rest" => poll' = poll
    BY <1>3, PollBeginsTypes DEF TimerPoll, CooldownEnds
  <2>3. QED
    BY <2>1, <2>2, KnowledgeKept
<1>4. CASE HwinfoRead
  <2>1. /\ UNCHANGED <<omv, data, at>> /\ poll'.got = omv
        /\ outdated' = outdated \ {"poll"}
    BY <1>4 DEF HwinfoRead, TypeOK
  <2>2. DataInv'
    BY <2>1 DEF Knowledge, DataInv
  <2>3. PollInv'
    BY <2>1 DEF PollInv
  <2>4. Reasons'
    BY <2>1 DEF Knowledge, Reasons, ReasonOf
  <2>5. QED
    BY <2>2, <2>3, <2>4 DEF Knowledge
<1>5. CASE Publish
  <2>1. /\ poll.at = "rest" /\ data' = poll.got /\ omv' = omv
        /\ outdated' = (outdated \ {"data", "poll"})
                         \cup (IF "poll" \in outdated THEN {"data"} ELSE {})
    BY <1>5 DEF Publish
  <2>2. PollReturns /\ poll'.at # "rest"
    BY <1>5, NoPollType DEF Publish, PollReturns
  <2>3. \A t \in Tasks : at'[t] = "reboot" => at[t] = "reboot"
    BY <2>2, ReturnElsewhere
  <2>4. "data" \notin outdated' => data' = omv
    BY <2>1 DEF Knowledge, PollInv
  <2>5. DataInv'
    BY <2>1, <2>4 DEF DataInv
  <2>6. PollInv'
    BY <2>2 DEF PollInv
  <2>7. Reasons'
    BY <2>1, <2>3 DEF Knowledge, Reasons, ReasonOf
  <2>8. QED
    BY <2>5, <2>6, <2>7 DEF Knowledge
<1>6. CASE PollFails
  <2>1. UNCHANGED <<omv, data>> /\ outdated' = outdated \ {"poll"} /\ PollReturns
    BY <1>6 DEF PollFails
  <2>2. poll'.at # "rest"
    BY <2>1, NoPollType DEF PollReturns
  <2>3. \A t \in Tasks : at'[t] = "reboot" => at[t] = "reboot"
    BY <2>1, ReturnElsewhere
  <2>4. QED
    BY <2>1, <2>2, <2>3, KnowledgeKept
<1>7. CASE PressInstall \/ PressButton \/ SubmitRepair
  <2>1. UNCHANGED <<omv, data, outdated>>
    BY <1>7 DEF PressInstall, PressButton, SubmitRepair
  <2>2. PICK t \in Tasks : Press(t)
    BY <1>7 DEF PressInstall, PressButton, SubmitRepair
  <2>3. "refresh" \in Places /\ "decide" \in Places
    BY DEF Places
  <2>4. /\ \A u \in Tasks : at'[u] = "reboot" => at[u] = "reboot"
        /\ poll'.at = "rest" => poll' = poll
    BY <2>2, <2>3, RequestElsewhere DEF Press
  <2>5. QED
    BY <2>1, <2>4, KnowledgeKept
<1>8. ASSUME NEW t \in Tasks, RebootExecuted(t) PROVE Knowledge'
  <2>1. \E hwinfo : OmvBecomes(hwinfo)
    BY <1>8 DEF RebootExecuted, Reboots
  <2>2. /\ UNCHANGED <<data, poll>>
        /\ \A u \in Tasks : at'[u] = "reboot" => at[u] = "reboot"
    BY <1>8, GotoElsewhere DEF RebootExecuted
  <2>3. QED
    BY <2>1, <2>2, KnowledgeLost
<1>9. CASE InstallDecides
  <2>1. UNCHANGED <<omv, data, poll>>
    BY <1>9 DEF InstallDecides
  <2>2. CASE ~data.listed /\ data.reboot /\ Decided("install", "reboot")
    BY <2>1, <2>2, KnowledgeUsed
  <2>3. CASE Decided("install", "call")
    BY <2>1, <2>3, KnowledgeUsed
  <2>4. QED
    BY <1>9, <2>2, <2>3 DEF InstallDecides
<1>10. CASE AptCalled
  BY <1>10, GotoElsewhere, KnowledgeKept DEF AptCalled
<1>11. CASE WaitForBgproc \/ StrayError \/ RecountBreaks
  <2>1. UNCHANGED <<omv, data, outdated>>
    BY <1>11 DEF WaitForBgproc, StrayError, RecountBreaks
  <2>2. CASE StepDone
    <3>1. /\ \A t \in Tasks : at'[t] = "reboot" => at[t] = "reboot"
          /\ poll'.at = "rest" => poll' = poll
      BY <2>2, StepDoneElsewhere
    <3>2. QED
      BY <2>1, <3>1, KnowledgeKept
  <2>3. CASE InstallOver /\ UNCHANGED poll
    BY <2>1, <2>3, InstallOverElsewhere, KnowledgeKept
  <2>4. CASE UNCHANGED <<poll, at>>
    BY <2>1, <2>4, KnowledgeKept
  <2>5. QED
    BY <1>11, <2>2, <2>3, <2>4
       DEF WaitForBgproc, StillRunning, StatusGone, StepFailed, StrayError, RecountBreaks
<1>12. CASE InstallRebooted
  <2>1. /\ omv' = omv /\ poll' = poll /\ data' = [data EXCEPT !.reboot = FALSE]
        /\ outdated' = outdated \ {"install"} /\ InstallOver
    BY <1>12 DEF InstallRebooted
  <2>2. QED
    BY <2>1, InstallOverElsewhere, KnowledgeKept
<1>13. CASE InstallFinishes
  BY <1>13, InstallOverElsewhere, KnowledgeKept DEF InstallFinishes
<1>14. CASE ButtonDecides
  <2>1. UNCHANGED <<omv, data, poll>>
    BY <1>14 DEF ButtonDecides
  <2>2. CASE Decided("button", IF data.dirty THEN "idle" ELSE "reboot")
    BY <2>1, <2>2, KnowledgeUsed
  <2>3. CASE Decided("button", "apply")
    BY <2>1, <2>3, KnowledgeUsed
  <2>4. QED
    BY <1>14, <2>2, <2>3 DEF ButtonDecides, RebootButton
<1>15. CASE ButtonRebooted
  <2>1. /\ UNCHANGED <<omv, data, poll>> /\ outdated' = outdated \ {"button"}
        /\ Goto("button", "idle")
    BY <1>15 DEF ButtonRebooted
  <2>2. QED
    BY <2>1, GotoElsewhere, KnowledgeKept
<1>16. CASE Applied
  <2>1. "refresh again" \in Places /\ Afterwards("button") \in Places
    BY DEF Places, Afterwards
  <2>2. /\ \A t \in Tasks : at'[t] = "reboot" => at[t] = "reboot"
        /\ poll'.at = "rest" => poll' = poll
    BY <1>16, <2>1, RequestElsewhere DEF Applied, Afterwards
  <2>3. (\E hwinfo : OmvBecomes(hwinfo)) /\ data' = data
    BY <1>16 DEF Applied
  <2>4. QED
    BY <2>2, <2>3, KnowledgeLost
<1>17. CASE RepairDecides
  <2>1. UNCHANGED <<omv, data, poll>>
    BY <1>17 DEF RepairDecides
  <2>2. CASE RebootPending(data) /\ Decided("repair", "reboot")
    BY <2>1, <2>2, KnowledgeUsed DEF RebootPending
  <2>3. CASE Decided("repair", "idle")
    BY <2>1, <2>3, KnowledgeUsed
  <2>4. QED
    BY <1>17, <2>2, <2>3 DEF RepairDecides
<1>18. CASE RepairRebooted
  <2>1. /\ UNCHANGED <<omv, poll>> /\ outdated' = outdated \ {"repair"}
        /\ data' \in {data, [data EXCEPT !.reboot = FALSE]}
        /\ Goto("repair", "idle")
    BY <1>18 DEF RepairRebooted
  <2>2. QED
    BY <2>1, GotoElsewhere, KnowledgeKept
<1>19. ASSUME NEW t \in Tasks, CallBreaks(t) PROVE Knowledge'
  <2>1. /\ UNCHANGED <<omv, data, poll>> /\ outdated' = outdated \ {t}
        /\ (InstallOver /\ t = "install") \/ Goto(t, "idle")
    BY <1>19 DEF CallBreaks
  <2>2. \A u \in Tasks : /\ u # t => at'[u] = at[u]
                         /\ u = t => at'[u] # "reboot"
    BY <2>1, InstallOverElsewhere, GotoElsewhere
  <2>3. QED
    BY <2>1, <2>2, KnowledgeKept
<1>20. CASE UNCHANGED vars
  BY <1>20, KnowledgeKept DEF vars
<1>21. QED
  BY <1>1, <1>2, <1>3, <1>4, <1>5, <1>6, <1>7, <1>8, <1>9, <1>10, <1>11, <1>12, <1>13,
     <1>14, <1>15, <1>16, <1>17, <1>18, <1>19, <1>20
     DEF Next, TaskSteps, Breaks

-----------------------------------------------------------------------------
(* The theorems.                                                           *)

LEMMA InitInv == Init => SUInv
<1> SUFFICES ASSUME Init PROVE SUInv
  OBVIOUS
<1>1. TypeOK
  BY InitTypes
<1>2. \A t \in Tasks : at[t] = "idle"
  BY DEF Init
<1>3. InstallInv
  BY <1>2 DEF Init, InstallInv, Tasks
<1>4. Knowledge
  BY <1>2, NoPollType DEF Init, Knowledge, DataInv, PollInv, Reasons, ReasonOf
<1>5. QED
  BY <1>1, <1>3, <1>4 DEF SUInv

LEMMA InvStep == SUInv /\ [Next]_vars => SUInv'
  BY TypeStep, InstallStep, KnowledgeStep DEF SUInv

LEMMA Invariance == Spec => []SUInv
  BY InitInv, InvStep, PTL DEF Spec

\* The types are kept (all of update.py's, button.py's and repairs.py's state
\* that is modelled, and what the appliance and the coordinator hold).
THEOREM TypeCorrect == Spec => []TypeOK
<1>1. SUInv => TypeOK
  BY DEF SUInv
<1>2. QED
  BY <1>1, Invariance, PTL

\* An install that ends without an error (async_install) has upgraded the
\* packages, or gave up waiting for a step of it.
THEOREM SuccessHolds == Spec => []SuccessIsReal
<1>1. SUInv => SuccessIsReal
  BY DEF SUInv, InstallInv, SuccessIsReal
<1>2. QED
  BY <1>1, Invariance, PTL

\* A reboot (System.reboot by the update entity, the button or the repair)
\* that nothing overtook between its decision and its execution is due.
THEOREM RebootsDue == Spec => RebootsAreDue
<1>1. SUInv /\ [Next]_vars =>
        [\A t \in Tasks :
           at[t] = "reboot" /\ at'[t] = "rebooted" /\ t \notin outdated =>
             /\ t # "install" => ~omv.dirty
             /\ t # "button" => omv.reboot /\ ~omv.listed]_vars
  BY DEF SUInv, Knowledge, Reasons, ReasonOf
<1>2. QED
  BY <1>1, Invariance, PTL DEF Spec, RebootsAreDue

\* Of all steps only the end of the wait for a process takes the install from
\* its wait to its next call: _wait_for_bgproc returned, it did not raise.
THEOREM SuccessFollowed == Spec => StepsFollowSuccess
<1>1. ASSUME TypeOK, [Next]_vars, at["install"] = "wait", at'["install"] = "call"
      PROVE  file = "ok" \/ outcome' = "gave up"
  <2> "install" \in Tasks
    BY DEF Tasks
  <2>1. CASE WaitForBgproc
    <3>1. CASE StillRunning
      BY <1>1, <3>1 DEF StillRunning
    <3>2. CASE StatusGone
      BY <3>2 DEF StatusGone
    <3>3. CASE StepFailed
      <4>1. step # 3
        BY <1>1, <3>3, StepDoneElsewhere DEF StepFailed
      <4>2. QED
        BY <1>1, <3>3, <4>1, InstallOverElsewhere DEF StepFailed
    <3>4. QED
      BY <2>1, <3>1, <3>2, <3>3 DEF WaitForBgproc
  <2>2. CASE StrayError
    BY <2>2 DEF StrayError
  <2>3. CASE RecountBreaks
    <3>1. StepDone /\ step = 3
      BY <2>3 DEF RecountBreaks
    <3>2. at'["install"] \in {"refresh again", "finish"}
      BY <1>1, <3>1, StepDoneElsewhere
    <3>3. QED
      BY <1>1, <3>2
  <2>4. CASE ~(WaitForBgproc \/ StrayError \/ RecountBreaks)
    <3>1. at'["install"] # at["install"]
      BY <1>1
    <3>2. CASE Publish \/ PollFails
      BY <1>1, <3>2, ReturnElsewhere DEF Publish, PollFails
    <3>3. CASE PressInstall \/ PressButton \/ SubmitRepair
      <4>1. PICK t \in Tasks : Press(t)
        BY <3>3 DEF PressInstall, PressButton, SubmitRepair, Tasks
      <4>2. "refresh" \in Places /\ "decide" \in Places
        BY DEF Places
      <4>3. at'["install"] \in {at["install"], "refresh", "decide"}
        BY <1>1, <4>1, <4>2, RequestElsewhere DEF Press
      <4>4. QED
        BY <1>1, <4>3
    <3>4. ASSUME NEW t \in Tasks, RebootExecuted(t) PROVE FALSE
      BY <1>1, <3>4, GotoElsewhere DEF RebootExecuted
    <3>5. CASE InstallDecides \/ AptCalled \/ InstallRebooted \/ InstallFinishes
      BY <1>1, <3>5 DEF InstallDecides, Decided, AptCalled, InstallRebooted, InstallFinishes
    <3>6. CASE ButtonDecides \/ ButtonRebooted \/ RepairDecides \/ RepairRebooted
      <4>1. \E t \in {"button", "repair"} : \E place : Goto(t, place)
        BY <3>6
           DEF ButtonDecides, RebootButton, ButtonRebooted, RepairDecides, RepairRebooted, Decided
      <4>2. QED
        BY <1>1, <4>1, GotoElsewhere DEF Tasks
    <3>7. CASE Applied
      <4>1. "refresh again" \in Places /\ Afterwards("button") \in Places /\ "button" \in Tasks
        BY DEF Places, Afterwards, Tasks
      <4>2. RequestRefresh("button", "refresh again", Afterwards("button"))
        BY <3>7 DEF Applied
      <4>3. at'["install"] = at["install"]
        BY <1>1, <4>1, <4>2, RequestElsewhere DEF Tasks
      <4>4. QED
        BY <3>1, <4>3
    <3>8. ASSUME NEW t \in Tasks, CallBreaks(t) PROVE FALSE
      BY <1>1, <3>8, GotoElsewhere, InstallOverElsewhere DEF CallBreaks
    <3>9. UNCHANGED at \/ ~(ApplianceChanges \/ AptEnds \/ TimerPoll \/ CooldownEnds \/ HwinfoRead)
      BY DEF ApplianceChanges, AptEnds, TimerPoll, CooldownEnds, HwinfoRead
    <3>10. QED
      BY <1>1, <2>4, <3>1, <3>2, <3>3, <3>4, <3>5, <3>6, <3>7, <3>8, <3>9
         DEF Next, TaskSteps, Breaks, vars
  <2>5. QED
    BY <2>1, <2>2, <2>3, <2>4
<1>2. TypeOK /\ [Next]_vars =>
        [at["install"] = "wait" /\ at'["install"] = "call" =>
           file = "ok" \/ outcome' = "gave up"]_vars
  BY <1>1
<1>3. QED
  BY <1>2, TypeCorrect, PTL DEF Spec, StepsFollowSuccess
=============================================================================
