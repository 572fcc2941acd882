--------------------------- MODULE CommandsProofs ---------------------------
(***************************************************************************)
(* Theorems about Commands, for every set of guests, projects and jobs,    *)
(* every plugin, every number of retries and of recreated containers.      *)
(***************************************************************************)
EXTENDS Commands, TLAPS

USE DEF refresh

-----------------------------------------------------------------------------
(* The inductive invariant: the types, what a call has behind it where it  *)
(* is, and which containers its id may miss.                               *)

\* Under each name a call executes at most once per try, and it comes to the
\* second name only after an error; whoever tries on after an execution has lost
\* its answer.
ProgressOf(c) ==
  /\ call[c].at \in {"idle", "refresh"} => call[c].done = 0
  /\ call[c].at \in {"Compose", "single"} => call[c].done <= call[c].tries
  /\ call[c].at = "compose" => call[c].done <= MaxRetries + 1 + call[c].tries
  /\ call[c].at = "done" => call[c].done > 0
  /\ call[c].at # "done" /\ call[c].done > 0 => call[c].lost
  /\ call[c].lost => call[c].broken

Progress == \A c \in Callers : ProgressOf(c)

\* Only containers get other ids, and the entities know the first one.
IdsOfSetup ==
  /\ bound = [t \in Targets |-> 1]
  /\ \A t \in Targets \ Containers : omv[t].id = 1

\* The caller's id may be one that the appliance has given up.
Stale(c) ==
  IF c = "service" THEN ~call[c].current
  ELSE bound[call[c].target] # omv[call[c].target].id

Working(c) == call[c].at \notin {"idle", "refresh"}

\* A call that was rejected, and not broken, by a name that the plugin has.
RejectionOf(c) ==
  Working(c) =>
    /\ call[c].target \in Targets
    /\ IF c = "service"
       THEN call[c].current => call[c].id = omv[call[c].target].id
       ELSE call[c].id = 1
    /\ call[c].at = "compose" /\ ~call[c].broken => "Compose" \notin Plugin \/ Stale(c)
    /\ call[c].at = "failed" /\ ~call[c].broken => Plugin = {} \/ Stale(c)

Rejections == \A c \in Callers : RejectionOf(c)

CommandsInv == TypeOK /\ Progress /\ IdsOfSetup /\ Rejections

-----------------------------------------------------------------------------
(* Type correctness.                                                       *)

LEMMA NoCallType == NoCall \in Call
  BY BoundsAssumption, RetriesAssumption DEF NoCall, Call

\* The first states satisfy the invariant.
LEMMA InitInv == Init => CommandsInv
<1> SUFFICES ASSUME Init PROVE CommandsInv
  OBVIOUS
<1>1. omv \in [Targets -> Record]
  BY BoundsAssumption DEF Init, Record
<1>2. TypeOK
  <2>1. \A t \in Targets : omv[t].id = 1 /\ omv[t].running = FALSE
    BY DEF Init
  <2>2. bound \in [Targets -> 1 .. MaxId] /\ shown \in [Guests -> BOOLEAN]
    BY <2>1, BoundsAssumption DEF Init, Targets
  <2>3. call \in [Callers -> Call]
    BY NoCallType DEF Init
  <2>4. events \in 0 .. MaxEvents
    BY BoundsAssumption DEF Init
  <2>5. QED
    BY <1>1, <2>2, <2>3, <2>4 DEF Init, TypeOK
<1>3. Progress /\ IdsOfSetup /\ Rejections
  BY DEF Init, NoCall, Progress, ProgressOf, IdsOfSetup, Rejections, RejectionOf, Working,
         Targets
<1>4. QED
  BY <1>2, <1>3 DEF CommandsInv

\* Where an error takes a call that attempts a name.
LEMMA NextNames ==
  ASSUME NEW c \in Callers, Attempting(c)
  PROVE  /\ NextName(call[c].at) \in {"compose", "failed"}
         /\ NextName(call[c].at) = "compose" <=> call[c].at = "Compose"
  BY DEF Attempting, Names, NextName

\* What an attempt can come to: the end, the next name or the next try.
Outcome ==
  [at : {"done", "Compose", "compose", "single", "failed"}, tries : 0 .. MaxRetries]

Following(r, next) ==
  \/ next.at = NextName(r.at) /\ next.tries = 0
  \/ next.at = r.at /\ next.tries = r.tries + 1

LEMMA Outcomes ==
  ASSUME TypeOK, NEW c \in Callers, Attempting(c)
  PROVE  /\ [at |-> AfterSuccess(call[c].at), tries |-> 0] \in Outcome
         /\ [at |-> NextName(call[c].at), tries |-> 0] \in Outcome
         /\ \A next \in AfterBreak(call[c]) : next \in Outcome /\ Following(call[c], next)
<1>1. call[c].at \in {"Compose", "compose", "single"}
  BY DEF Attempting, Names
<1>2. NextName(call[c].at) \in {"compose", "failed"} /\ AfterSuccess(call[c].at) = "done"
  BY NextNames DEF AfterSuccess
<1>3. 0 \in 0 .. MaxRetries
  BY RetriesAssumption
<1>4. [at |-> NextName(call[c].at), tries |-> 0] \in Outcome
  BY <1>2, <1>3 DEF Outcome
<1>5. ASSUME NEW next \in AfterBreak(call[c])
      PROVE  next \in Outcome /\ Following(call[c], next)
  <2>1. CASE next = [at |-> NextName(call[c].at), tries |-> 0]
    BY <1>4, <2>1 DEF Following
  <2>2. CASE next \in {[at |-> call[c].at, tries |-> n] :
                        n \in {call[c].tries + 1} \cap 0 .. MaxRetries}
    BY <1>1, <2>2 DEF Following, Outcome
  <2>3. QED
    BY <1>5, <2>1, <2>2 DEF AfterBreak
<1>6. QED
  BY <1>2, <1>3, <1>4, <1>5 DEF Outcome

\* What begins a call keeps the types.
LEMMA BeginTypes ==
  ASSUME TypeOK, NEW c \in Callers, NEW t \in Targets,
         NEW command \in {"start", "stop", "restart", "run"}, NEW id \in 1 .. MaxId,
         Begin(c, t, command, id)
  PROVE  call' \in [Callers -> Call] /\ events' \in 0 .. MaxEvents
<1>1. [NoCall EXCEPT !.at = IF t \in Containers \cup Projects THEN "Compose" ELSE "single",
                     !.target = t, !.command = command, !.id = id,
                     !.current = (data[t].id = omv[t].id)] \in Call
  BY NoCallType DEF NoCall, Call
<1>2. QED
  BY <1>1, BoundsAssumption DEF TypeOK, Begin

\* So does what asks for a refresh.
LEMMA RefreshTypes ==
  ASSUME TypeOK, NEW c \in Callers, RequestRefresh(c)
  PROVE  /\ call' \in [Callers -> Call]
         /\ poll' \in {"idle", "started", "read"} /\ requested' \in BOOLEAN
         /\ debounce' \in {"free", "cooling", "again"} /\ got' = got
<1>1. [NoCall EXCEPT !.at = "refresh"] \in Call
  BY NoCallType DEF NoCall, Call
<1>2. QED
  BY <1>1, NoCallType DEF TypeOK, RequestRefresh

\* What an answer and what an error makes of a call.
LEMMA AnsweredTypes ==
  ASSUME NEW r \in Call, NEW next \in Outcome, NEW done \in 0 .. 2 * (MaxRetries + 1),
         NEW lost \in BOOLEAN, NEW broken \in BOOLEAN
  PROVE  [r EXCEPT !.at = next.at, !.tries = next.tries, !.done = done,
                   !.lost = lost, !.broken = broken] \in Call
  BY DEF Call, Outcome

LEMMA ErrorTypes ==
  ASSUME NEW r \in Call, NEW next \in Outcome, NEW broken \in BOOLEAN
  PROVE  [r EXCEPT !.at = next.at, !.tries = next.tries, !.broken = broken] \in Call
  BY DEF Call, Outcome

\* One attempt of a call.
LEMMA AttemptTypes ==
  ASSUME TypeOK, Progress, NEW c \in Callers,
         Executed(c) \/ AnswerLost(c) \/ Rejected(c) \/ ConnectionError(c)
  PROVE  call' \in [Callers -> Call] /\ omv' \in [Targets -> Record]
<1>1. Attempting(c) /\ call[c] \in Call
  BY DEF TypeOK, Executed, AnswerLost, Execute, Rejected, ConnectionError, Errs
<1>2. call[c].done + 1 \in 0 .. 2 * (MaxRetries + 1)
  <2>1. ProgressOf(c) /\ call[c].tries \in 0 .. MaxRetries
        /\ call[c].at \in {"Compose", "compose", "single"} /\ call[c].done \in Nat
    BY <1>1 DEF Progress, Attempting, Names, Call
  <2>2. call[c].done <= MaxRetries + 1 + call[c].tries
    BY <2>1, RetriesAssumption DEF ProgressOf
  <2>3. QED
    BY <2>1, <2>2, RetriesAssumption
<1>3. CASE Executed(c) \/ AnswerLost(c)
  <2>1. PICK next \in Outcome, lost \in BOOLEAN : Execute(c, next, lost)
    BY <1>1, <1>3, Outcomes DEF Executed, AnswerLost
  <2> DEFINE r == call[c]
             s == [r EXCEPT !.at = next.at, !.tries = next.tries, !.done = r.done + 1,
                            !.lost = r.lost \/ lost, !.broken = r.broken \/ lost]
             e == Effect(omv[r.target], r.command)
  <2>2. s \in Call
    <3>1. (r.lost \/ lost) \in BOOLEAN /\ (r.broken \/ lost) \in BOOLEAN
      OBVIOUS
    <3>2. QED
      BY <1>1, <1>2, <3>1, AnsweredTypes
  <2>3. call' = [call EXCEPT ![c] = s] /\ omv' = [omv EXCEPT ![r.target] = e]
    BY <2>1 DEF Execute
  <2>4. call' \in [Callers -> Call]
    <3> HIDE DEF s
    <3> QED
      BY <2>2, <2>3 DEF TypeOK
  <2>5. ASSUME r.target \in Targets PROVE e \in Record
    <3>1. omv[r.target] \in Record
      BY <2>5 DEF TypeOK
    <3>2. QED
      BY <3>1 DEF Effect, Record
  <2>6. omv' \in [Targets -> Record]
    <3> HIDE DEF e
    <3> QED
      BY <2>3, <2>5 DEF TypeOK
  <2>7. QED
    BY <2>4, <2>6
<1>4. CASE Rejected(c) \/ ConnectionError(c)
  <2>1. PICK next \in Outcome, broken \in BOOLEAN : Errs(c, next, broken)
    BY <1>1, <1>4, Outcomes DEF Rejected, ConnectionError
  <2> DEFINE r == call[c]
             s == [r EXCEPT !.at = next.at, !.tries = next.tries, !.broken = r.broken \/ broken]
  <2>2. s \in Call
    <3>1. (r.broken \/ broken) \in BOOLEAN
      OBVIOUS
    <3>2. QED
      BY <1>1, <3>1, ErrorTypes
  <2>3. call' = [call EXCEPT ![c] = s] /\ omv' = omv
    BY <2>1 DEF Errs
  <2> HIDE DEF s
  <2>4. QED
    BY <2>2, <2>3 DEF TypeOK
<1>5. QED
  BY <1>3, <1>4

LEMMA StepTypes == CommandsInv /\ [Next]_vars => TypeOK'
<1> SUFFICES ASSUME TypeOK, Progress, [Next]_vars PROVE TypeOK'
  BY DEF CommandsInv
<1>1. CASE \E g \in Guests : GuestChanges(g)
  <2>1. PICK g \in Guests : GuestChanges(g)
    BY <1>1
  <2> DEFINE r == [omv[g] EXCEPT !.running = ~@]
  <2>2. r \in Record
    <3>1. omv[g] \in Record
      BY DEF TypeOK, Targets
    <3>2. QED
      BY <3>1 DEF Record
  <2>3. omv' = [omv EXCEPT ![g] = r]
    BY <2>1 DEF GuestChanges
  <2>4. omv' \in [Targets -> Record]
    <3> HIDE DEF r
    <3> QED
      BY <2>2, <2>3 DEF TypeOK
  <2>5. events' \in 0 .. MaxEvents
    BY <2>1, BoundsAssumption DEF TypeOK, GuestChanges
  <2>6. QED
    BY <2>1, <2>4, <2>5 DEF TypeOK, GuestChanges
<1>2. CASE \E c \in Containers : Recreated(c)
  <2>1. PICK c \in Containers : Recreated(c)
    BY <1>2
  <2> DEFINE r == [id |-> omv[c].id + 1, running |-> TRUE]
  <2>2. omv' \in [Targets -> Record]
    <3>1. omv[c].id \in 1 .. MaxId /\ omv[c].id < MaxId
      BY <2>1 DEF TypeOK, Recreated, Record, Targets, Guests
    <3>2. r \in Record
      BY <3>1, BoundsAssumption DEF Record
    <3>3. omv' = [omv EXCEPT ![c] = r]
      BY <2>1 DEF Recreated
    <3> HIDE DEF r
    <3>4. QED
      BY <3>2, <3>3 DEF TypeOK
  <2>3. call' \in [Callers -> Call]
    <3>1. \A x \in Callers : [call[x] EXCEPT !.current = FALSE] \in Call
      BY DEF TypeOK, Call
    <3>2. QED
      BY <2>1, <3>1 DEF TypeOK, Recreated
  <2>4. QED
    BY <2>1, <2>2, <2>3 DEF TypeOK, Recreated
<1>3. CASE TimerPoll \/ CooldownEnds \/ ListsRead
  BY <1>3 DEF TypeOK, TimerPoll, CooldownEnds, ListsRead
<1>4. CASE Publish \/ PollFails
  <2>1. data' \in [Targets -> Record] /\ got' = data'
    BY <1>4 DEF TypeOK, Publish, PollFails, PollReturns
  <2>2. shown' \in [Guests -> BOOLEAN]
    BY <1>4, <2>1 DEF TypeOK, Publish, PollFails, SyncSwitches, Record, Targets
  <2>3. call' \in [Callers -> Call]
    BY <1>4, NoCallType DEF TypeOK, Publish, PollFails, PollReturns
  <2>4. QED
    BY <1>4, <2>1, <2>2, <2>3 DEF TypeOK, Publish, PollFails, PollReturns
<1>5. CASE \E g \in Guests, command \in {"start", "stop"} : Operate(g, command)
  <2>1. PICK g \in Guests, command \in {"start", "stop"} : Operate(g, command)
    BY <1>5
  <2>2. g \in Targets /\ BoundId(g) \in 1 .. MaxId
    BY BoundsAssumption DEF TypeOK, Targets, BoundId
  <2>3. call' \in [Callers -> Call] /\ events' \in 0 .. MaxEvents
    BY <2>1, <2>2, BeginTypes DEF Operate, Callers
  <2>4. QED
    BY <2>1, <2>3 DEF TypeOK, Operate
<1>6. CASE \E t \in Targets : PressButton(t)
  <2>1. PICK t \in Targets : PressButton(t)
    BY <1>6
  <2>2. BoundId(t) \in 1 .. MaxId
    BY BoundsAssumption DEF TypeOK, BoundId
  <2>3. call' \in [Callers -> Call] /\ events' \in 0 .. MaxEvents
    BY <2>1, <2>2, BeginTypes DEF PressButton, Callers
  <2>4. QED
    BY <2>1, <2>3 DEF TypeOK, PressButton
<1>7. CASE \E t \in Targets \ Vms, command \in {"start", "stop", "run"} :
             CallService(t, command)
  <2>1. PICK t \in Targets, command \in {"start", "stop", "run"} :
          CallService(t, command)
    BY <1>7
  <2>2. Resolve(t) \in 1 .. MaxId
    BY DEF TypeOK, Resolve, Record
  <2>3. call' \in [Callers -> Call] /\ events' \in 0 .. MaxEvents
    BY <2>1, <2>2, BeginTypes DEF CallService, Callers
  <2>4. QED
    BY <2>1, <2>3 DEF TypeOK, CallService
<1>8. ASSUME NEW c \in Callers,
             Executed(c) \/ AnswerLost(c) \/ Rejected(c) \/ ConnectionError(c)
      PROVE  TypeOK'
  BY <1>8, AttemptTypes
  DEF TypeOK, Executed, AnswerLost, Execute, Rejected, ConnectionError, Errs
<1>9. ASSUME NEW c \in Callers, Returns(c) PROVE TypeOK'
  <2>1. CASE RequestRefresh(c)
    BY <1>9, <2>1, RefreshTypes DEF TypeOK, Returns
  <2>2. CASE call' = [call EXCEPT ![c] = NoCall] /\ UNCHANGED refresh
    BY <1>9, <2>2, NoCallType DEF TypeOK, Returns
  <2>3. QED
    BY <1>9, <2>1, <2>2 DEF Returns, Succeeds, Fails
<1>10. CASE UNCHANGED vars
  BY <1>10 DEF TypeOK, vars
<1>11. QED
  BY <1>1, <1>2, <1>3, <1>4, <1>5, <1>6, <1>7, <1>8, <1>9, <1>10 DEF Next

-----------------------------------------------------------------------------
(* The rest of the invariant.                                              *)

\* A call that begins, and one that ends.
LEMMA Begun ==
  ASSUME TypeOK, NEW c \in Callers, NEW t \in Targets, NEW command, NEW id,
         Begin(c, t, command, id)
  PROVE  /\ \A x \in Callers \ {c} : call'[x] = call[x]
         /\ call'[c].at = IF t \in Containers \cup Projects THEN "Compose" ELSE "single"
         /\ call'[c].target = t /\ call'[c].id = id
         /\ call'[c].tries = 0 /\ call'[c].done = 0 /\ ~call'[c].lost /\ ~call'[c].broken
         /\ call'[c].current => data[t].id = omv[t].id
  BY DEF TypeOK, Begin, NoCall

LEMMA Ended ==
  ASSUME TypeOK, NEW c \in Callers, Returns(c)
  PROVE  /\ \A x \in Callers \ {c} : call'[x] = call[x]
         /\ call'[c].at \in {"idle", "refresh"}
         /\ call'[c].done = 0 /\ ~call'[c].lost
         /\ omv' = omv /\ bound' = bound
  BY DEF TypeOK, Returns, Succeeds, Fails, RequestRefresh, NoCall

\* One attempt: what it makes of its call, of the others and of the targets.
LEMMA Attempt ==
  ASSUME CommandsInv, NEW c \in Callers,
         Executed(c) \/ AnswerLost(c) \/ Rejected(c) \/ ConnectionError(c)
  PROVE  /\ Attempting(c)
         /\ \A x \in Callers \ {c} : call'[x] = call[x]
         /\ call'[c].target = call[c].target /\ call'[c].id = call[c].id
         /\ call'[c].current = call[c].current
         /\ \A t \in Targets : omv'[t].id = omv[t].id
         /\ bound' = bound
<1> DEFINE r == call[c]
<1>1. r \in Call
  BY DEF CommandsInv, TypeOK
<1>2. CASE Executed(c) \/ AnswerLost(c)
  <2>1. PICK next, lost : Execute(c, next, lost)
    BY <1>2 DEF Executed, AnswerLost
  <2> DEFINE s == [r EXCEPT !.at = next.at, !.tries = next.tries, !.done = r.done + 1,
                            !.lost = r.lost \/ lost, !.broken = r.broken \/ lost]
             e == Effect(omv[r.target], r.command)
  <2>2. s.target = r.target /\ s.id = r.id /\ s.current = r.current
    BY <1>1 DEF Call
  <2>3. call' = [call EXCEPT ![c] = s] /\ omv' = [omv EXCEPT ![r.target] = e] /\ bound' = bound
    BY <2>1 DEF Execute
  <2>4. r.target \in Targets => e.id = omv[r.target].id
    BY DEF Effect, CommandsInv, TypeOK, Record
  <2> HIDE DEF s, e
  <2>5. QED
    BY <2>1, <2>2, <2>3, <2>4 DEF CommandsInv, TypeOK, Execute
<1>3. CASE Rejected(c) \/ ConnectionError(c)
  <2>1. PICK next, broken : Errs(c, next, broken)
    BY <1>3 DEF Rejected, ConnectionError
  <2> DEFINE s == [r EXCEPT !.at = next.at, !.tries = next.tries, !.broken = r.broken \/ broken]
  <2>2. s.target = r.target /\ s.id = r.id /\ s.current = r.current
    BY <1>1 DEF Call
  <2>3. call' = [call EXCEPT ![c] = s] /\ omv' = omv /\ bound' = bound
    BY <2>1 DEF Errs
  <2> HIDE DEF s
  <2>4. QED
    BY <2>1, <2>2, <2>3 DEF CommandsInv, TypeOK, Errs
<1>4. QED
  BY <1>2, <1>3

\* Where the attempt takes its call.
LEMMA AttemptEnds ==
  ASSUME CommandsInv, NEW c \in Callers,
         Executed(c) \/ AnswerLost(c) \/ Rejected(c) \/ ConnectionError(c)
  PROVE  \/ /\ call'[c].at = "done" /\ call'[c].done = call[c].done + 1
            /\ (call'[c].lost <=> call[c].lost) /\ (call'[c].broken <=> call[c].broken)
         \/ /\ Following(call[c], call'[c]) /\ call'[c].done = call[c].done + 1
            /\ call'[c].lost /\ call'[c].broken
         \/ /\ Following(call[c], call'[c]) /\ call'[c].done = call[c].done
            /\ (call'[c].lost <=> call[c].lost) /\ call'[c].broken
         \/ /\ call'[c].at = NextName(call[c].at) /\ call'[c].tries = 0
            /\ call'[c].done = call[c].done /\ ~Accepted(c)
            /\ (call'[c].lost <=> call[c].lost) /\ (call'[c].broken <=> call[c].broken)
<1> DEFINE r == call[c]
<1>1. r \in Call /\ TypeOK /\ Attempting(c)
  BY Attempt DEF CommandsInv, TypeOK
<1>2. CASE Executed(c) \/ AnswerLost(c)
  <2>1. PICK next, lost :
          /\ Execute(c, next, lost)
          /\ (next.at = "done" /\ lost = FALSE) \/ (Following(r, next) /\ lost = TRUE)
    <3>1. CASE Executed(c)
      <4> DEFINE n == [at |-> AfterSuccess(call[c].at), tries |-> 0]
      <4>1. Execute(c, n, FALSE) /\ n.at = "done"
        BY <3>1 DEF Executed, AfterSuccess
      <4> HIDE DEF n
      <4>2. QED
        BY <4>1
    <3>2. CASE AnswerLost(c)
      BY <1>1, <3>2, Outcomes DEF AnswerLost
    <3>3. QED
      BY <1>2, <3>1, <3>2
  <2> DEFINE s == [r EXCEPT !.at = next.at, !.tries = next.tries, !.done = r.done + 1,
                            !.lost = r.lost \/ lost, !.broken = r.broken \/ lost]
  <2>2. /\ s.at = next.at /\ s.tries = next.tries /\ s.done = r.done + 1
        /\ s.lost = (r.lost \/ lost) /\ s.broken = (r.broken \/ lost)
    BY <1>1 DEF Call
  <2>3. call' = [call EXCEPT ![c] = s]
    BY <2>1 DEF Execute
  <2>4. call'[c] = s
    <3> HIDE DEF s
    <3> QED
      BY <1>1, <2>3 DEF TypeOK
  <2>5. r.lost \in BOOLEAN /\ r.broken \in BOOLEAN
    BY <1>1 DEF Call
  <2> HIDE DEF s
  <2>6. CASE next.at = "done" /\ lost = FALSE
    <3>1. (r.lost \/ lost) = r.lost /\ (r.broken \/ lost) = r.broken
      BY <2>5, <2>6
    <3>2. QED
      BY <2>2, <2>4, <2>6, <3>1
  <2>7. CASE Following(r, next) /\ lost = TRUE
    <3>1. (r.lost \/ lost) = TRUE /\ (r.broken \/ lost) = TRUE
      BY <2>7
    <3>2. QED
      BY <2>2, <2>4, <2>7, <3>1 DEF Following
  <2>8. QED
    BY <2>1, <2>6, <2>7
<1>3. CASE Rejected(c) \/ ConnectionError(c)
  <2>1. PICK next, broken :
          /\ Errs(c, next, broken)
          /\ \/ Following(r, next) /\ broken = TRUE
             \/ next.at = NextName(r.at) /\ next.tries = 0 /\ broken = FALSE /\ ~Accepted(c)
    <3>1. CASE Rejected(c)
      <4> DEFINE n == [at |-> NextName(call[c].at), tries |-> 0]
      <4>1. Errs(c, n, FALSE) /\ ~Accepted(c) /\ n.at = NextName(r.at) /\ n.tries = 0
        BY <3>1 DEF Rejected
      <4> HIDE DEF n
      <4>2. QED
        BY <4>1
    <3>2. CASE ConnectionError(c)
      BY <1>1, <3>2, Outcomes DEF ConnectionError
    <3>3. QED
      BY <1>3, <3>1, <3>2
  <2> DEFINE s == [r EXCEPT !.at = next.at, !.tries = next.tries, !.broken = r.broken \/ broken]
  <2>2. /\ s.at = next.at /\ s.tries = next.tries /\ s.done = r.done
        /\ s.lost = r.lost /\ s.broken = (r.broken \/ broken)
    BY <1>1 DEF Call
  <2>3. call' = [call EXCEPT ![c] = s]
    BY <2>1 DEF Errs
  <2>4. call'[c] = s
    <3> HIDE DEF s
    <3> QED
      BY <1>1, <2>3 DEF TypeOK
  <2>5. r.broken \in BOOLEAN
    BY <1>1 DEF Call
  <2> HIDE DEF s
  <2>6. CASE Following(r, next) /\ broken = TRUE
    <3>1. (r.broken \/ broken) = TRUE
      BY <2>6
    <3>2. QED
      BY <2>2, <2>4, <2>6, <3>1 DEF Following
  <2>7. CASE next.at = NextName(r.at) /\ next.tries = 0 /\ broken = FALSE /\ ~Accepted(c)
    <3>1. (r.broken \/ broken) = r.broken
      BY <2>5, <2>7
    <3>2. QED
      BY <2>2, <2>4, <2>7, <3>1
  <2>8. QED
    BY <2>1, <2>6, <2>7
<1>4. QED
  BY <1>2, <1>3

\* Ids only grow, and stay what they are outside of containers.
LEMMA StepIds == CommandsInv /\ [Next]_vars => IdsOfSetup'
<1> SUFFICES ASSUME CommandsInv, [Next]_vars PROVE IdsOfSetup'
  OBVIOUS
<1> USE DEF CommandsInv, IdsOfSetup
<1>1. CASE \E g \in Guests : GuestChanges(g)
  BY <1>1 DEF TypeOK, GuestChanges, Record
<1>2. CASE \E c \in Containers : Recreated(c)
  BY <1>2 DEF TypeOK, Recreated
<1>3. CASE TimerPoll \/ CooldownEnds \/ ListsRead \/ Publish \/ PollFails
  BY <1>3 DEF TimerPoll, CooldownEnds, ListsRead, Publish, PollFails
<1>4. CASE \/ \E g \in Guests, command \in {"start", "stop"} : Operate(g, command)
           \/ \E t \in Targets : PressButton(t)
           \/ \E t \in Targets \ Vms, command \in {"start", "stop", "run"} :
                CallService(t, command)
  BY <1>4 DEF Operate, PressButton, CallService
<1>5. ASSUME NEW c \in Callers,
             Executed(c) \/ AnswerLost(c) \/ Rejected(c) \/ ConnectionError(c)
      PROVE  IdsOfSetup'
  BY <1>5, Attempt
<1>6. ASSUME NEW c \in Callers, Returns(c) PROVE IdsOfSetup'
  BY <1>6 DEF Returns
<1>7. CASE UNCHANGED vars
  BY <1>7 DEF vars
<1>8. QED
  BY <1>1, <1>2, <1>3, <1>4, <1>5, <1>6, <1>7 DEF Next

\* A call that begins satisfies the invariant.
LEMMA BegunInv ==
  ASSUME CommandsInv, NEW c \in Callers, NEW t \in Targets, NEW command, NEW id,
         Begin(c, t, command, id), UNCHANGED <<omv, bound>>,
         IF c = "service" THEN id = Resolve(t) ELSE id = BoundId(t)
  PROVE  Progress' /\ Rejections'
<1>1. /\ \A x \in Callers \ {c} : call'[x] = call[x]
      /\ call'[c].at \in {"Compose", "single"}
      /\ call'[c].target = t /\ call'[c].id = id
      /\ call'[c].tries = 0 /\ call'[c].done = 0 /\ ~call'[c].lost
      /\ call'[c].current => data[t].id = omv[t].id
  BY Begun DEF CommandsInv
<1>2. \A x \in Callers \ {c} : ProgressOf(x)' /\ RejectionOf(x)'
  BY <1>1 DEF CommandsInv, Progress, ProgressOf, Rejections, RejectionOf, Working, Stale
<1>3. ProgressOf(c)'
  BY <1>1 DEF ProgressOf
<1>4. c # "service" => id = 1
  BY DEF CommandsInv, IdsOfSetup, BoundId
<1>5. RejectionOf(c)'
  BY <1>1, <1>4 DEF RejectionOf, Resolve
<1>6. QED
  BY <1>2, <1>3, <1>5 DEF Progress, Rejections

\* An attempt keeps the invariant: a plugin that knows the name rejects an id
\* only if it is stale.
LEMMA AttemptInv ==
  ASSUME CommandsInv, NEW c \in Callers,
         Executed(c) \/ AnswerLost(c) \/ Rejected(c) \/ ConnectionError(c)
  PROVE  Progress' /\ Rejections'
<1>1. \A x \in Callers \ {c} : ProgressOf(x)'
  BY Attempt DEF CommandsInv, Progress, ProgressOf
<1>2. \A x \in Callers :
        Working(x) => (Stale(x)' <=> Stale(x)) /\ (RejectionOf(x) => call[x].target \in Targets)
  BY Attempt DEF CommandsInv, IdsOfSetup, Rejections, RejectionOf, Stale
<1>3. \A x \in Callers \ {c} : RejectionOf(x)'
  BY <1>2, Attempt DEF CommandsInv, Rejections, RejectionOf, Working
<1>4. Attempting(c) /\ Working(c) /\ call[c].done \in Nat /\ call[c].tries \in 0 .. MaxRetries
  BY Attempt DEF Attempting, Names, Working, CommandsInv, TypeOK, Call
<1>5. ProgressOf(c)'
  <2>1. ProgressOf(c) /\ call[c].at \in {"Compose", "compose", "single"}
    BY <1>4 DEF CommandsInv, Progress, Attempting, Names
  <2>2. NextName(call[c].at) = IF call[c].at = "Compose" THEN "compose" ELSE "failed"
    BY DEF NextName
  <2>3. QED
    BY <1>4, <2>1, <2>2, AttemptEnds, RetriesAssumption DEF ProgressOf, Following
<1>6. ~Accepted(c) => \/ Stale(c)
                      \/ call[c].at \in {"Compose", "compose"} \ Plugin
  BY <1>4 DEF Accepted, CommandsInv, IdsOfSetup, Rejections, RejectionOf, Stale, Attempting, Names
<1>7. ~call'[c].broken /\ call'[c].at # "done"
        => /\ ~call[c].broken /\ ~Accepted(c)
           /\ call'[c].at = NextName(call[c].at)
  BY AttemptEnds
<1>8. RejectionOf(c)'
  BY <1>2, <1>4, <1>6, <1>7, Attempt, NextNames, PluginAssumption
  DEF CommandsInv, Rejections, RejectionOf, Attempting, Names
<1>9. QED
  BY <1>1, <1>3, <1>5, <1>8 DEF Progress, Rejections

LEMMA StepInv == CommandsInv /\ [Next]_vars => CommandsInv'
<1> SUFFICES ASSUME CommandsInv, [Next]_vars PROVE Progress' /\ Rejections'
  BY StepTypes, StepIds DEF CommandsInv
<1>1. CASE \E g \in Guests : GuestChanges(g)
  <2>1. \A t \in Targets : omv'[t].id = omv[t].id
    BY <1>1 DEF CommandsInv, TypeOK, GuestChanges, Record
  <2>2. call' = call /\ bound' = bound
    BY <1>1 DEF GuestChanges
  <2>3. QED
    BY <2>1, <2>2 DEF CommandsInv, Progress, ProgressOf, Rejections, RejectionOf, Working, Stale
<1>2. CASE \E c \in Containers : Recreated(c)
  <2>1. PICK c \in Containers : Recreated(c)
    BY <1>2
  <2>2. \A x \in Callers :
          /\ \A f \in {"at"} : call'[x].at = call[x].at
          /\ call'[x].target = call[x].target /\ call'[x].id = call[x].id
          /\ call'[x].tries = call[x].tries
          /\ call'[x].done = call[x].done /\ call'[x].lost = call[x].lost
          /\ call'[x].broken = call[x].broken
          /\ call'[x].current => call[x].current /\ call[x].target # c
    BY <2>1 DEF CommandsInv, TypeOK, Recreated, Call
  <2>3. \A t \in Targets : omv'[t].id = IF t = c THEN omv[t].id + 1 ELSE omv[t].id
    BY <2>1 DEF CommandsInv, TypeOK, Recreated
  <2>4. omv[c].id >= 1 /\ omv[c].id \in Nat /\ bound' = bound
    BY <2>1, BoundsAssumption DEF CommandsInv, TypeOK, Recreated, Record, Targets, Guests
  <2>5. ASSUME NEW x \in Callers, Working(x), Stale(x) PROVE Stale(x)'
    <3>1. RejectionOf(x) /\ call[x].target \in Targets
      BY <2>5 DEF CommandsInv, Rejections, RejectionOf
    <3>2. bound[call[x].target] = 1
      BY <3>1 DEF CommandsInv, IdsOfSetup
    <3>3. CASE x = "service"
      BY <2>2, <2>5, <3>3 DEF Stale
    <3>4. CASE x # "service"
      BY <2>2, <2>3, <2>4, <2>5, <3>1, <3>2, <3>4 DEF Stale
    <3>5. QED
      BY <3>3, <3>4
  <2>6. Progress'
    BY <2>2 DEF CommandsInv, Progress, ProgressOf
  <2>7. ASSUME NEW x \in Callers, Working(x)' PROVE RejectionOf(x)'
    <3>1. Working(x) /\ RejectionOf(x)
      BY <2>2, <2>7 DEF CommandsInv, Rejections, Working
    <3>2. Stale(x) => Stale(x)'
      BY <2>5, <3>1
    <3>3. call'[x].current => omv'[call[x].target].id = omv[call[x].target].id
      BY <2>2, <2>3, <3>1 DEF RejectionOf
    <3>4. QED
      BY <2>2, <3>1, <3>2, <3>3 DEF RejectionOf
  <2>8. QED
    BY <2>6, <2>7 DEF Rejections, RejectionOf
<1>3. CASE TimerPoll \/ CooldownEnds \/ ListsRead \/ UNCHANGED vars
  BY <1>3 DEF CommandsInv, Progress, ProgressOf, Rejections, RejectionOf, Working, Stale,
              TimerPoll, CooldownEnds, ListsRead, vars
<1>4. CASE Publish \/ PollFails
  <2>1. \A x \in Callers : call'[x] = call[x] \/ call'[x] = NoCall
    BY <1>4 DEF CommandsInv, TypeOK, Publish, PollFails, PollReturns
  <2>2. omv' = omv /\ bound' = bound
    BY <1>4 DEF Publish, PollFails
  <2>3. \A x \in Callers : ProgressOf(x)' /\ RejectionOf(x)'
    BY <2>1, <2>2
    DEF CommandsInv, Progress, ProgressOf, Rejections, RejectionOf, Working, Stale, NoCall
  <2>4. QED
    BY <2>3 DEF Progress, Rejections
<1>5. CASE \E g \in Guests, command \in {"start", "stop"} : Operate(g, command)
  BY <1>5, BegunInv DEF Operate, Callers, Targets
<1>6. CASE \E t \in Targets : PressButton(t)
  BY <1>6, BegunInv DEF PressButton, Callers
<1>7. CASE \E t \in Targets \ Vms, command \in {"start", "stop", "run"} :
             CallService(t, command)
  BY <1>7, BegunInv DEF CallService, Callers
<1>8. ASSUME NEW c \in Callers,
             Executed(c) \/ AnswerLost(c) \/ Rejected(c) \/ ConnectionError(c)
      PROVE  Progress' /\ Rejections'
  BY <1>8, AttemptInv
<1>9. ASSUME NEW c \in Callers, Returns(c) PROVE Progress' /\ Rejections'
  <2>1. /\ \A x \in Callers \ {c} : call'[x] = call[x]
        /\ call'[c].at \in {"idle", "refresh"} /\ call'[c].done = 0 /\ ~call'[c].lost
        /\ omv' = omv /\ bound' = bound
    BY <1>9, Ended DEF CommandsInv
  <2>2. \A x \in Callers : ProgressOf(x)' /\ RejectionOf(x)'
    BY <2>1 DEF CommandsInv, Progress, ProgressOf, Rejections, RejectionOf, Working, Stale
  <2>3. QED
    BY <2>2 DEF Progress, Rejections
<1>10. QED
  BY <1>1, <1>2, <1>3, <1>4, <1>5, <1>6, <1>7, <1>8, <1>9 DEF Next

LEMMA CommandsInvariant == Spec => []CommandsInv
  BY InitInv, StepInv, PTL DEF Spec

-----------------------------------------------------------------------------
(* The theorems.                                                           *)

\* Every variable keeps its type; in particular no command is executed more often
\* than 2 * (MaxRetries + 1) times: once per try of the client under each of the
\* two names of the plugin's service (omv_api.py:413-446, coordinator.py:233-262).
THEOREM TypeCorrect == Spec => []TypeOK
  BY CommandsInvariant, PTL DEF CommandsInv

\* A call that raises no error was executed; one that was executed raises none
\* unless an answer was lost.
THEOREM OutcomesAreTold == Spec => []OutcomeIsTold
<1>1. CommandsInv => OutcomeIsTold
  BY DEF CommandsInv, Progress, ProgressOf, OutcomeIsTold
<1>2. QED
  BY <1>1, CommandsInvariant, PTL

\* Neither the client's retries nor the fallback to the other name repeat a
\* command that did not lose its answer.
THEOREM RepetitionsAreExcused == Spec => RepeatedOnlyWhenLost
<1>1. ASSUME CommandsInv, [Next]_vars, NEW c \in Callers,
             call'[c].done > 1, call'[c].done # call[c].done
      PROVE  call[c].lost
  <2>1. call[c] \in Call
    BY <1>1 DEF CommandsInv, TypeOK
  <2>2. ASSUME NEW x \in Callers,
               Executed(x) \/ AnswerLost(x) \/ Rejected(x) \/ ConnectionError(x)
        PROVE  call[c].lost
    <3>1. x = c
      BY <1>1, <2>2, Attempt
    <3>2. call[c].done \in Nat /\ call[c].at # "done"
      BY <1>1, <2>1, <2>2, <3>1, Attempt DEF Call, Attempting, Names
    <3>3. call'[c].done = call[c].done + 1
      BY <1>1, <2>2, <3>1, AttemptEnds
    <3>4. call[c].done > 0
      BY <1>1, <3>2, <3>3
    <3>5. QED
      BY <1>1, <3>2, <3>4 DEF CommandsInv, Progress, ProgressOf
  <2>3. CASE \E g \in Guests : GuestChanges(g)
    BY <1>1, <2>3 DEF GuestChanges
  <2>4. CASE \E k \in Containers : Recreated(k)
    BY <1>1, <2>4 DEF CommandsInv, TypeOK, Recreated, Call
  <2>5. CASE TimerPoll \/ CooldownEnds \/ ListsRead \/ UNCHANGED vars
    BY <1>1, <2>5 DEF TimerPoll, CooldownEnds, ListsRead, vars
  <2>6. CASE Publish \/ PollFails
    BY <1>1, <2>6 DEF CommandsInv, TypeOK, Publish, PollFails, PollReturns, NoCall
  <2>7. ASSUME NEW x \in Callers, NEW t \in Targets, NEW command, NEW id,
               Begin(x, t, command, id)
        PROVE  FALSE
    <3>1. call'[c] = call[c] \/ call'[c].done = 0
      BY <1>1, <2>7, Begun DEF CommandsInv
    <3>2. QED
      BY <1>1, <3>1
  <2>8. CASE \/ \E g \in Guests, command \in {"start", "stop"} : Operate(g, command)
             \/ \E t \in Targets : PressButton(t)
             \/ \E t \in Targets \ Vms, command \in {"start", "stop", "run"} :
                  CallService(t, command)
    BY <2>7, <2>8 DEF Operate, PressButton, CallService, Callers, Targets
  <2>9. ASSUME NEW x \in Callers, Returns(x) PROVE FALSE
    <3>1. call'[c] = call[c] \/ call'[c].done = 0
      BY <1>1, <2>9, Ended DEF CommandsInv
    <3>2. QED
      BY <1>1, <3>1
  <2>10. QED
    BY <1>1, <2>2, <2>3, <2>4, <2>5, <2>6, <2>8, <2>9 DEF Next
<1>2. CommandsInv /\ [Next]_vars
        => [\A c \in Callers :
              call'[c].done > 1 /\ call'[c].done # call[c].done => call[c].lost]_vars
  BY <1>1
<1>3. QED
  BY <1>2, CommandsInvariant, PTL DEF Spec, RepeatedOnlyWhenLost

\* A command that is refused although nothing broke addressed a container that
\* was recreated.
THEOREM RefusalsAreStale == Spec => RefusedOnlyIfStale
<1>1. ASSUME CommandsInv, NEW c \in Callers, Plugin # {}, Fails(c), ~call[c].broken
      PROVE  IF c = "service" THEN ~call[c].current
             ELSE bound[call[c].target] # omv[call[c].target].id
  BY <1>1 DEF CommandsInv, Rejections, RejectionOf, Working, Stale, Fails
<1>2. CommandsInv
        => [\A c \in Callers :
              Plugin # {} /\ Fails(c) /\ ~call[c].broken =>
                IF c = "service" THEN ~call[c].current
                ELSE bound[call[c].target] # omv[call[c].target].id]_vars
  BY <1>1
<1>3. QED
  BY <1>2, CommandsInvariant, PTL DEF RefusedOnlyIfStale
=============================================================================
